---------------------------- MODULE DisksProofs -----------------------------
(***************************************************************************)
(* Proofs about the PCI scan and about lsdisks, for every machine, every   *)
(* length of the device list and every heap that DisksAssumption allows.   *)
(*                                                                         *)
(* The scan is sound on its own, and so in every call of lsdisks.  The     *)
(* first call gets a full list and maps fresh memory for every entry,      *)
(* which is no drive, and spends the table exactly with its last entry; in *)
(* a later call no mapping succeeds, and every entry looks like low memory *)
(* in both passes.                                                         *)
(***************************************************************************)
EXTENDS Disks, TLAPS, FiniteSetTheorems

----------------------------------------------------------------------------
(* Remainders *)

LEMMA ProductBound ==
  ASSUME NEW k \in Int, NEW d \in Nat \ {0}
  PROVE  (k >= 1 => k * d >= d) /\ (k <= -1 => k * d <= -d)
OBVIOUS

LEMMA ModUnique ==
  ASSUME NEW d \in Nat \ {0}, NEW q \in Int, NEW r \in 0 .. d - 1
  PROVE  (q * d + r) % d = r
<1> DEFINE n == q * d + r  p == n \div d  m == n % d
<1>1. n \in Int /\ p \in Int /\ m \in 0 .. d - 1 /\ n = p * d + m
  OBVIOUS
<1>2. (q - p) * d = m - r
  BY <1>1
<1>3. q - p \in Int /\ ~(q - p >= 1) /\ ~(q - p <= -1)
  <2>1. q - p \in Int
    BY <1>1
  <2> HIDE DEF n, p, m
  <2> QED BY <2>1, <1>1, <1>2, ProductBound
<1> HIDE DEF n, p, m
<1>4. q = p
  BY <1>3, <1>1
<1>5. m = r
  BY <1>4, <1>2, <1>1
<1> QED BY <1>5 DEF m, n

LEMMA ModNext ==
  ASSUME NEW d \in Nat \ {0}, NEW n \in Nat
  PROVE  (n + 1) % d = IF (n % d) + 1 = d THEN 0 ELSE (n % d) + 1
<1> DEFINE p == n \div d  m == n % d
<1>1. p \in Int /\ m \in 0 .. d - 1 /\ n = p * d + m
  OBVIOUS
<1>2. CASE m + 1 = d
  <2>1. n + 1 = (p + 1) * d + 0 /\ p + 1 \in Int /\ 0 \in 0 .. d - 1
    BY <1>1, <1>2
  <2> HIDE DEF p, m
  <2>2. (n + 1) % d = 0
    BY <2>1, ModUnique
  <2> QED BY <2>2, <1>2 DEF m
<1>3. CASE m + 1 # d
  <2>1. n + 1 = p * d + (m + 1) /\ m + 1 \in 0 .. d - 1
    BY <1>1, <1>3
  <2> HIDE DEF p, m
  <2>2. (n + 1) % d = m + 1
    BY <2>1, <1>1, ModUnique
  <2> QED BY <2>2, <1>3 DEF m
<1> QED BY <1>2, <1>3

LEMMA ModSmall ==
  ASSUME NEW d \in Nat \ {0} PROVE d % d = 0 /\ \A n \in 0 .. d - 1 : n % d = n
<1>1. d = 1 * d + 0 /\ 1 \in Int /\ 0 \in 0 .. d - 1
  OBVIOUS
<1>2. d % d = 0
  BY <1>1, ModUnique
<1>3. ASSUME NEW n \in 0 .. d - 1 PROVE n % d = n
  <2>1. n = 0 * d + n /\ 0 \in Int
    OBVIOUS
  <2> QED BY <2>1, ModUnique
<1> QED BY <1>2, <1>3

----------------------------------------------------------------------------
(* The scan *)

PciInv == PciTypeOK /\ ListSound

LEMMA ModRange == \A n \in Nat, d \in Nat \ {0} : n % d \in 0 .. d - 1
OBVIOUS

LEMMA PciInitInv == PciInit => PciInv
BY PciAssumption DEF PciInit, PciInv, PciTypeOK, ListSound, device_count, Places, Answers

(***************************************************************************)
(* Moving on to the next function or device, from a list of the right      *)
(* length, keeps the counters in range and ends the scan only when the     *)
(* list is full (pci.c:57-63, 104-111).                                    *)
(***************************************************************************)
LEMMA MovesOn ==
  ASSUME PciTypeOK, state = "scan", Len(list') \in Nat,
         Len(list') <= MAX_PCI_DEVICES,
         NextFunction \/ NextDevice
  PROVE  /\ bus' \in 0 .. BUSES - 1
         /\ device' \in 0 .. DEVICES - 1
         /\ function' \in 0 .. FUNCTIONS - 1
         /\ state' \in {"scan", "done"}
         /\ state' = "done" => Len(list') = MAX_PCI_DEVICES
<1> USE PciAssumption DEF PciTypeOK
<1>1. CASE NextDevice
  <2>1. (device + 1) % DEVICES \in 0 .. DEVICES - 1 /\ (bus + 1) % BUSES \in 0 .. BUSES - 1
    <3>1. device + 1 \in Nat /\ bus + 1 \in Nat
      OBVIOUS
    <3> QED BY <3>1, ModRange
  <2>2. 0 \in 0 .. FUNCTIONS - 1
    OBVIOUS
  <2> QED BY <1>1, <2>1, <2>2 DEF NextDevice
<1>2. CASE NextFunction /\ function + 1 < FUNCTIONS
  BY <1>2 DEF NextFunction
<1>3. CASE NextFunction /\ ~(function + 1 < FUNCTIONS)
  BY <1>1, <1>3 DEF NextFunction
<1> QED BY <1>1, <1>2, <1>3

\* The place being probed is a place of the configuration space.
LEMMA HerePlace == ASSUME PciTypeOK PROVE Here \in Places
BY DEF PciTypeOK, Places, Here

LEMMA RecordKeepsInv == ASSUME PciInv, Record PROVE PciInv'
<1>1. PciTypeOK /\ state = "scan" /\ config' = config
      /\ config[Here] = "valid"
  BY DEF PciInv, Record
<1>2. Len(list) < MAX_PCI_DEVICES /\ list \in Seq(Places) /\ Here \in Places
  BY HerePlace DEF PciInv, PciTypeOK, Record, device_count
<1>3. /\ list' \in Seq(Places)
      /\ Len(list') = Len(list) + 1
      /\ \A k \in 1 .. Len(list) : list'[k] = list[k]
      /\ list'[Len(list) + 1] = Here
  <2>1. list' = Append(list, Here)
    BY DEF Record
  <2> QED BY <1>2, <2>1
<1>4. Len(list') \in Nat /\ Len(list') <= MAX_PCI_DEVICES
  BY <1>2, <1>3, PciAssumption
<1>5. /\ bus' \in 0 .. BUSES - 1 /\ device' \in 0 .. DEVICES - 1
      /\ function' \in 0 .. FUNCTIONS - 1 /\ state' \in {"scan", "done"}
      /\ state' = "done" => Len(list') = MAX_PCI_DEVICES
  BY <1>1, <1>4, MovesOn DEF Record
<1>6. PciTypeOK'
  BY <1>1, <1>3, <1>5 DEF PciTypeOK, Places
<1>7. \A k \in DOMAIN list' : config'[list'[k]] = "valid"
  <2> SUFFICES ASSUME NEW k \in 1 .. Len(list) + 1 PROVE config[list'[k]] = "valid"
    BY <1>1, <1>2, <1>3
  <2>1. CASE k \in 1 .. Len(list)
    BY <2>1, <1>2, <1>3 DEF PciInv, ListSound
  <2>2. CASE k = Len(list) + 1
    BY <2>2, <1>1, <1>3
  <2> QED BY <2>1, <2>2, <1>2
<1> QED BY <1>4, <1>5, <1>6, <1>7 DEF PciInv, ListSound, device_count

\* Skip and Refuse leave the list alone.
LEMMA PassKeepsInv == ASSUME PciInv, Skip \/ Refuse PROVE PciInv'
<1>1. PciTypeOK /\ state = "scan" /\ config' = config /\ list' = list
      /\ (NextFunction \/ NextDevice)
  BY DEF PciInv, Skip, Refuse
<1>2. Len(list') \in Nat /\ Len(list') <= MAX_PCI_DEVICES
  BY <1>1 DEF PciInv, PciTypeOK, ListSound, device_count
<1>3. /\ bus' \in 0 .. BUSES - 1 /\ device' \in 0 .. DEVICES - 1
      /\ function' \in 0 .. FUNCTIONS - 1 /\ state' \in {"scan", "done"}
      /\ state' = "done" => Len(list') = MAX_PCI_DEVICES
  BY <1>1, <1>2, MovesOn
<1>4. PciTypeOK'
  BY <1>1, <1>3 DEF PciTypeOK, Places
<1> QED BY <1>1, <1>2, <1>3, <1>4 DEF PciInv, ListSound, device_count

LEMMA BeginKeepsInv ==
  ASSUME config \in [Places -> Answers], NEW allocated \in BOOLEAN, Begin(allocated)
  PROVE  PciInv'
<1>1. list' = <<>> /\ Len(list') = 0 /\ config' = config
      /\ state' \in {"scan", "failed"}
  BY DEF Begin
<1>2. PciTypeOK'
  BY <1>1, PciAssumption DEF Begin, PciTypeOK, Places
<1> QED BY <1>1, <1>2, PciAssumption DEF PciInv, ListSound, device_count

LEMMA IdleKeepsInv == ASSUME PciInv, UNCHANGED pciVars PROVE PciInv'
BY DEF pciVars, PciInv, PciTypeOK, ListSound, device_count, Places

LEMMA ProbeKeepsInv == ASSUME PciInv, Probe PROVE PciInv'
BY RecordKeepsInv, PassKeepsInv DEF Probe

LEMMA PciNextInv == PciInv /\ [PciNext]_pciVars => PciInv'
<1>1. ASSUME PciInv, Allocate PROVE PciInv'
  BY <1>1, BeginKeepsInv DEF Allocate, PciInv, PciTypeOK
<1> QED BY <1>1, IdleKeepsInv, ProbeKeepsInv DEF PciNext

(***************************************************************************)
(* Whatever the hardware answers, the list stays within its memory and     *)
(* holds devices that answered with valid ids, and a scan that ends has    *)
(* filled it (pci.c:40-117).                                               *)
(***************************************************************************)
THEOREM ListIsSound == PciSpec => [](PciTypeOK /\ ListSound)
BY PciInitInv, PciNextInv, PTL DEF PciSpec, PciInv
----------------------------------------------------------------------------
(* The order of the list *)

\* The devices that come before a place.
Earlier(p) == {q \in Present : Before(q, p)}

LEMMA PresentFinite ==
  /\ IsFiniteSet(Present) /\ Cardinality(Present) \in Nat
  /\ Present # {} => Cardinality(Present) \in Nat \ {0}
<1>1. /\ IsFiniteSet(0 .. BUSES - 1) /\ IsFiniteSet(0 .. DEVICES - 1)
      /\ IsFiniteSet(0 .. FUNCTIONS - 1)
  BY FS_Interval, PciAssumption
<1> DEFINE Pairs == (0 .. BUSES - 1) \X (0 .. DEVICES - 1)
           Nested == Pairs \X (0 .. FUNCTIONS - 1)
           nest == [p \in Present |-> <<<<p[1], p[2]>>, p[3]>>]
<1>2. IsFiniteSet(Pairs)
  BY <1>1, FS_Product
<1>3. IsFiniteSet(Nested)
  BY <1>1, <1>2, FS_Product
<1>4. nest \in [Present -> Nested]
  <2> SUFFICES ASSUME NEW p \in Present PROVE <<<<p[1], p[2]>>, p[3]>> \in Nested
    OBVIOUS
  <2>1. p \in Places
    BY DEF Present
  <2>2. p[1] \in 0 .. BUSES - 1 /\ p[2] \in 0 .. DEVICES - 1 /\ p[3] \in 0 .. FUNCTIONS - 1
    BY <2>1 DEF Places
  <2> QED BY <2>2
<1>5. nest \in Injection(Present, Nested)
  <2> SUFFICES ASSUME NEW p \in Present, NEW q \in Present, nest[p] = nest[q]
               PROVE  p = q
    BY <1>4 DEF Injection, IsInjective
  <2>1. p[1] = q[1] /\ p[2] = q[2] /\ p[3] = q[3]
    OBVIOUS
  <2>2. p \in Places /\ q \in Places
    BY DEF Present
  <2> QED BY <2>1, <2>2 DEF Places
<1>6. IsFiniteSet(Present)
  BY <1>3, <1>5, FS_Injection
<1> QED BY <1>6, FS_CardinalityType, FS_EmptySet

LEMMA RankRange ==
  ASSUME NEW p PROVE IsFiniteSet(Earlier(p)) /\ Rank(p) = Cardinality(Earlier(p))
                     /\ Rank(p) \in Nat
<1>1. Earlier(p) \subseteq Present
  BY DEF Earlier
<1>2. IsFiniteSet(Earlier(p))
  BY <1>1, PresentFinite, FS_Subset
<1> QED BY <1>2, FS_CardinalityType DEF Rank, Earlier

\* A device does not come before itself.
LEMMA RankOfDevice ==
  ASSUME NEW p \in Present PROVE Rank(p) \in 0 .. Cardinality(Present) - 1
<1>1. p \in Places /\ p \notin Earlier(p)
  BY DEF Earlier, Before, Present, Places
<1>2. Earlier(p) \subseteq Present \ {p}
  BY <1>1 DEF Earlier
<1>3. IsFiniteSet(Present \ {p}) /\ Cardinality(Present \ {p}) = Cardinality(Present) - 1
  BY PresentFinite, FS_RemoveElement
<1>4. Cardinality(Earlier(p)) <= Cardinality(Present \ {p})
  BY <1>2, <1>3, FS_Subset
<1> QED BY <1>3, <1>4, RankRange, PresentFinite

(***************************************************************************)
(* The loops go to the next place in bus order, and from the last place    *)
(* back to the first one: the bus counter wraps around (pci.c:57-111).     *)
(***************************************************************************)
After(p, next) ==
  \/ \A q \in Places : Before(q, next) <=> Before(q, p) \/ q = p
  \/ \A q \in Places : (Before(q, p) \/ q = p) /\ ~Before(q, next)

LEMMA PlacesInOrder ==
  ASSUME NEW b \in 0 .. BUSES - 1, NEW d \in 0 .. DEVICES - 1, NEW f \in 0 .. FUNCTIONS - 1
  PROVE  /\ After(<<b, d, f>>, <<b, d, f + 1>>)
         /\ f = FUNCTIONS - 1 => After(<<b, d, f>>, <<b, d + 1, 0>>)
         /\ f = FUNCTIONS - 1 /\ d = DEVICES - 1 => After(<<b, d, f>>, <<b + 1, 0, 0>>)
         /\ f = FUNCTIONS - 1 /\ d = DEVICES - 1 /\ b = BUSES - 1 =>
              After(<<b, d, f>>, <<0, 0, 0>>)
BY PciAssumption DEF After, Before, Places

LEMMA Successor ==
  ASSUME PciTypeOK, NextFunction, ~(Len(list') >= MAX_PCI_DEVICES)
  PROVE  After(Here, Here')
<1>1. /\ bus \in 0 .. BUSES - 1 /\ device \in 0 .. DEVICES - 1
      /\ function \in 0 .. FUNCTIONS - 1
      /\ BUSES \in Nat \ {0} /\ DEVICES \in Nat \ {0} /\ FUNCTIONS \in Nat \ {0}
  BY PciAssumption DEF PciTypeOK
<1>2. Here' = <<bus', device', function'>>
  BY DEF Here
<1>3. CASE function + 1 < FUNCTIONS
  <2>1. bus' = bus /\ device' = device /\ function' = function + 1
    BY <1>3 DEF NextFunction
  <2> QED BY <2>1, <1>1, <1>2, PlacesInOrder DEF Here
<1>4. CASE ~(function + 1 < FUNCTIONS)
  <2>1. /\ function = FUNCTIONS - 1 /\ function' = 0 /\ device' = (device + 1) % DEVICES
        /\ IF device + 1 < DEVICES THEN bus' = bus ELSE bus' = (bus + 1) % BUSES
    BY <1>1, <1>4 DEF NextFunction, NextDevice
  <2>2. CASE device + 1 < DEVICES
    <3>1. device + 1 \in 0 .. DEVICES - 1
      BY <2>2, <1>1
    <3>2. device' = device + 1
      BY <3>1, <2>1, <1>1, ModSmall
    <3> QED BY <3>2, <2>1, <2>2, <1>1, <1>2, PlacesInOrder DEF Here
  <2>3. CASE ~(device + 1 < DEVICES)
    <3>1. device = DEVICES - 1 /\ device' = 0
      <4>1. device + 1 = DEVICES
        BY <2>3, <1>1
      <4> QED BY <4>1, <2>1, <1>1, ModSmall
    <3>2. CASE bus + 1 < BUSES
      <4>1. bus + 1 \in 0 .. BUSES - 1
        BY <3>2, <1>1
      <4>2. bus' = bus + 1
        BY <4>1, <2>1, <2>3, <1>1, ModSmall
      <4> QED BY <4>2, <3>1, <2>1, <1>1, <1>2, PlacesInOrder DEF Here
    <3>3. CASE ~(bus + 1 < BUSES)
      <4>1. bus + 1 = BUSES
        BY <3>3, <1>1
      <4>2. bus = BUSES - 1 /\ bus' = 0
        BY <4>1, <2>1, <2>3, <1>1, ModSmall
      <4> QED BY <4>2, <3>1, <2>1, <1>1, <1>2, PlacesInOrder DEF Here
    <3> QED BY <3>2, <3>3
  <2> QED BY <2>2, <2>3
<1> QED BY <1>3, <1>4

(***************************************************************************)
(* A step to the next place counts the device it leaves behind; a wrap     *)
(* has counted them all.                                                   *)
(***************************************************************************)
LEMMA RankMoves ==
  ASSUME NEW p \in Places, NEW next, After(p, next)
  PROVE  LET passed == IF p \in Present THEN Rank(p) + 1 ELSE Rank(p)
         IN  Rank(next) = passed \/ (passed = Cardinality(Present) /\ Rank(next) = 0)
<1> DEFINE Done == IF p \in Present THEN Earlier(p) \union {p} ELSE Earlier(p)
           passed == IF p \in Present THEN Rank(p) + 1 ELSE Rank(p)
<1>1. Cardinality(Done) = passed
  <2>1. p \notin Earlier(p)
    BY DEF Earlier, Before, Present, Places
  <2>2. Cardinality(Earlier(p) \union {p}) = Cardinality(Earlier(p)) + 1
    BY <2>1, RankRange, FS_AddElement
  <2> QED BY <2>2, RankRange
<1>2. CASE \A q \in Places : Before(q, next) <=> Before(q, p) \/ q = p
  <2>1. Earlier(next) = Done
    BY <1>2 DEF Earlier, Present
  <2> QED BY <2>1, <1>1, RankRange
<1>3. CASE \A q \in Places : (Before(q, p) \/ q = p) /\ ~Before(q, next)
  <2>1. Earlier(next) = {} /\ Done = Present
    BY <1>3 DEF Earlier, Present
  <2> QED BY <2>1, <1>1, RankRange, FS_EmptySet
<1> QED BY <1>2, <1>3 DEF After

\* While there is room, the length of the list says how many devices came
\* before the place being probed, whole rounds left out.
InStep ==
  state = "scan" /\ Len(list) < MAX_PCI_DEVICES /\ Present # {} =>
    Len(list) % Cardinality(Present) = Rank(Here) % Cardinality(Present)

CycleInv == PciInv /\ InStep /\ ListCycles

LEMMA SamePlaces ==
  ASSUME config' = config
  PROVE  Present' = Present /\ \A p : Rank(p)' = Rank(p)
BY DEF Present, Rank

LEMMA RecordInCycle ==
  ASSUME CycleInv, Record, PciInv' PROVE CycleInv'
<1> DEFINE N == Cardinality(Present)
<1>1. /\ PciTypeOK /\ state = "scan" /\ config' = config /\ list' = Append(list, Here)
      /\ Here \in Places /\ Here \in Present /\ list \in Seq(Places)
      /\ Len(list) < MAX_PCI_DEVICES /\ NextFunction
  BY DEF CycleInv, PciInv, PciTypeOK, Record, Present, device_count, Here, Places
<1>2. N \in Nat \ {0} /\ Rank(Here) \in 0 .. N - 1 /\ Len(list) \in Nat
  BY <1>1, PresentFinite, RankOfDevice
<1>3. Len(list) % N = Rank(Here)
  <2>1. Len(list) % N = Rank(Here) % N
    BY <1>1 DEF CycleInv, InStep
  <2>2. Rank(Here) % N = Rank(Here)
    BY <1>2, ModSmall
  <2> QED BY <2>1, <2>2
<1>4. Present' = Present /\ \A p : Rank(p)' = Rank(p)
  BY <1>1, SamePlaces
<1>5. ListCycles'
  <2> SUFFICES ASSUME NEW k \in DOMAIN list' PROVE Rank(list[k])' = (k - 1) % N
    BY <1>4 DEF ListCycles
  <2>1. k \in 1 .. Len(list) + 1 /\ DOMAIN list = 1 .. Len(list)
    BY <1>1
  <2>2. CASE k \in 1 .. Len(list)
    <3>1. list'[k] = list[k] /\ k \in DOMAIN list
      BY <2>2, <2>1, <1>1
    <3>2. Rank(list[k]) = (k - 1) % N
      BY <3>1 DEF CycleInv, ListCycles
    <3>3. Rank(list[k])' = Rank(list'[k])
      BY <1>1 DEF Rank, Present
    <3> QED BY <3>1, <3>2, <3>3, <1>4
  <2>3. CASE k = Len(list) + 1
    <3>1. list'[k] = Here /\ k - 1 = Len(list)
      BY <2>3, <1>1, <1>2
    <3>2. Rank(list[k])' = Rank(list'[k])
      BY <1>1 DEF Rank, Present
    <3> QED BY <3>1, <3>2, <1>3, <1>4
  <2> QED BY <2>1, <2>2, <2>3, <1>2
<1>6. InStep'
  <2> SUFFICES ASSUME Len(list') < MAX_PCI_DEVICES PROVE Len(list') % N = Rank(Here)' % N
    BY <1>4 DEF InStep
  <2>1. Len(list') = Len(list) + 1
    BY <1>1
  <2>2. After(Here, Here')
    BY <1>1, <1>2, <2>1, Successor, PciAssumption
  <2>3. Rank(Here') = Rank(Here) + 1 \/ (Rank(Here) + 1 = N /\ Rank(Here') = 0)
    BY <1>1, <2>2, RankMoves
  <2>4. Rank(Here)' = Rank(Here')
    BY <1>1 DEF Rank, Present
  <2>5. (Len(list) + 1) % N = IF Rank(Here) + 1 = N THEN 0 ELSE Rank(Here) + 1
    <3>1. (Len(list) + 1) % N = IF (Len(list) % N) + 1 = N THEN 0 ELSE (Len(list) % N) + 1
      BY <1>2, ModNext
    <3> QED BY <1>3, <3>1
  <2>6. (Rank(Here) + 1) % N = IF Rank(Here) + 1 = N THEN 0 ELSE Rank(Here) + 1
    BY <1>2, ModSmall
  <2>7. 0 % N = 0
    BY <1>2, ModSmall
  <2> QED BY <2>1, <2>3, <2>4, <2>5, <2>6, <2>7
<1> QED BY <1>5, <1>6 DEF CycleInv

LEMMA PassInCycle ==
  ASSUME CycleInv, Skip \/ Refuse, PciInv' PROVE CycleInv'
<1> DEFINE N == Cardinality(Present)
<1>1. /\ PciTypeOK /\ state = "scan" /\ config' = config /\ list' = list
      /\ Here \in Places
  BY DEF CycleInv, PciInv, PciTypeOK, Skip, Refuse, Here, Places
<1>2. Present' = Present /\ \A p : Rank(p)' = Rank(p)
  BY <1>1, SamePlaces
<1>3. ListCycles'
  BY <1>1, <1>2 DEF CycleInv, ListCycles
<1>4. InStep'
  <2> SUFFICES ASSUME Len(list) < MAX_PCI_DEVICES, Present # {}
               PROVE  Len(list) % N = Rank(Here)' % N
    BY <1>1, <1>2 DEF InStep
  <2>1. /\ NextFunction /\ Here \notin Present /\ Len(list) \in Nat
        /\ N \in Nat \ {0}
    BY <1>1, PresentFinite, PciAssumption DEF Skip, Refuse, device_count, Present, PciTypeOK
  <2>2. After(Here, Here')
    BY <1>1, <2>1, Successor, PciAssumption
  <2>3. Rank(Here') = Rank(Here) \/ (Rank(Here) = N /\ Rank(Here') = 0)
    BY <1>1, <2>1, <2>2, RankMoves
  <2>4. Rank(Here)' = Rank(Here')
    BY <1>1 DEF Rank, Present
  <2>5. Len(list) % N = Rank(Here) % N
    BY <1>1 DEF CycleInv, InStep
  <2>6. N % N = 0 /\ 0 % N = 0
    BY <2>1, ModSmall
  <2> QED BY <2>3, <2>4, <2>5, <2>6
<1> QED BY <1>3, <1>4 DEF CycleInv

LEMMA BeginInCycle ==
  ASSUME NEW allocated \in BOOLEAN, Begin(allocated), PciInv' PROVE CycleInv'
<1>1. list' = <<>> /\ Here' = <<0, 0, 0>> /\ config' = config
  BY DEF Begin, Here
<1>2. ListCycles'
  BY <1>1 DEF ListCycles
<1>3. InStep'
  <2>1. Earlier(<<0, 0, 0>>) = {}
    BY PciAssumption DEF Earlier, Before, Present, Places
  <2>2. Rank(<<0, 0, 0>>) = 0
    BY <2>1, RankRange, FS_EmptySet
  <2>3. Present' = Present /\ Rank(Here)' = Rank(<<0, 0, 0>>) /\ Len(list') = 0
    BY <1>1 DEF Rank, Present
  <2> QED BY <2>2, <2>3 DEF InStep
<1> QED BY <1>2, <1>3 DEF CycleInv

LEMMA IdleInCycle == ASSUME CycleInv, UNCHANGED pciVars, PciInv' PROVE CycleInv'
BY DEF CycleInv, InStep, ListCycles, Rank, Present, Here, Places, pciVars

LEMMA ProbeInCycle == ASSUME CycleInv, Probe, PciInv' PROVE CycleInv'
BY RecordInCycle, PassInCycle DEF Probe

LEMMA InitInCycle == PciInit => CycleInv
BY PciInitInv DEF PciInit, CycleInv, InStep, ListCycles

(***************************************************************************)
(* On every machine, however many buses, devices and functions it has, the *)
(* list names the devices in bus order, none left out, and starts over     *)
(* only after the last one (pci.c:57-111).                                 *)
(***************************************************************************)
THEOREM ListGoesInOrder == PciSpec => []ListCycles
<1>1. CycleInv /\ [PciNext]_pciVars => CycleInv'
  <2> SUFFICES ASSUME CycleInv, [PciNext]_pciVars PROVE CycleInv'
    OBVIOUS
  <2>1. PciInv'
    BY PciNextInv DEF CycleInv
  <2> QED BY <2>1, BeginInCycle, ProbeInCycle, IdleInCycle DEF PciNext, Allocate
<1>2. CycleInv => ListCycles
  BY DEF CycleInv
<1> QED BY <1>1, <1>2, InitInCycle, PTL DEF PciSpec

----------------------------------------------------------------------------
(* lsdisks: the invariant *)

LIST == MAX_PCI_DEVICES * DEVICE_SIZE

\* Whether low memory looks like a drive.
LowIsDrive == check_type(low) # "null"

DisksType ==
  /\ heap_index \in Nat /\ heap_index <= HEAP_SIZE
  /\ mappings \in Seq(Mapping)
  /\ step \in {"idle", "enumerate", "count", "fill"}
  /\ length \in {0, MAX_PCI_DEVICES}
  /\ i \in 0 .. length
  /\ ahci_count \in Nat /\ index \in Nat
  /\ index <= ahci_count

Fresh == step = "idle" /\ next_mapping = 0 /\ heap_index = 0

FirstScan ==
  /\ step = "enumerate" /\ state \in {"scan", "done"}
  /\ next_mapping = 0 /\ heap_index = LIST

FirstCall ==
  /\ length = MAX_PCI_DEVICES /\ ahci_count = 0 /\ index = 0
  /\ \/ step = "count" /\ next_mapping = i
     \/ step = "fill" /\ next_mapping = MAX_PCI_DEVICES + i
  /\ heap_index = LIST + next_mapping * PORT_SIZE

LaterCall ==
  /\ next_mapping = MAX_MAPPINGS
  /\ step = "count" => ahci_count = (IF LowIsDrive THEN i ELSE 0) /\ index = 0
  /\ step = "fill" =>
       IF ahci_devices = NULL
         THEN ahci_count = length /\ index <= i
         ELSE /\ ahci_count = IF LowIsDrive THEN length ELSE 0
              /\ index = IF LowIsDrive THEN i ELSE 0

DisksInv == PciInv /\ DisksType /\ (Fresh \/ FirstScan \/ FirstCall \/ LaterCall)

----------------------------------------------------------------------------
(* Numbers *)

LEMMA Numbers ==
  /\ MAX_PCI_DEVICES \in Nat /\ MAX_PCI_DEVICES > 0
  /\ PORT_SIZE \in Nat /\ LIST \in Nat
  /\ MAX_MAPPINGS = 2 * MAX_PCI_DEVICES
  /\ LIST + MAX_MAPPINGS * PORT_SIZE <= HEAP_SIZE
  /\ HEAP_SIZE \in Nat /\ WORD \in Nat
  /\ HEAP_SIZE + LIST < WORD /\ HEAP_SIZE + PORT_SIZE < WORD
  /\ \A n \in 0 .. MAX_PCI_DEVICES : n * DEVICE_SIZE \in Nat /\ HEAP_SIZE + n * DEVICE_SIZE < WORD
BY DisksAssumption, HeapAssumption, PciAssumption DEF LIST

LEMMA Monotone ==
  ASSUME NEW k \in Nat, NEW m \in Nat, NEW p \in Nat, k <= m
  PROVE  k * p <= m * p /\ k * p \in Nat
<1>1. m - k \in Nat /\ m = k + (m - k)
  OBVIOUS
<1>2. \A a, b \in Nat : (a + b) * p = a * p + b * p /\ a * p \in Nat /\ b * p \in Nat
  OBVIOUS
<1> QED BY <1>1, <1>2

\* A request that cannot wrap is granted if there is room for it.
LEMMA FitsIfRoom ==
  ASSUME heap_index \in Nat, heap_index <= HEAP_SIZE, NEW n \in Nat, HEAP_SIZE + n < WORD
  PROVE  /\ (heap_index + n) % WORD = heap_index + n
         /\ Fits(n) <=> heap_index + n <= HEAP_SIZE
<1>1. HEAP_SIZE \in Nat /\ WORD \in Nat
  BY Numbers
<1>2. heap_index + n \in Nat /\ heap_index + n < WORD
  BY <1>1
<1> QED BY <1>1, <1>2 DEF Fits

----------------------------------------------------------------------------
(* malloc and mmap, as lsdisks calls them *)

LEMMA MallocKeeps ==
  ASSUME DisksType, NEW n \in Nat, HEAP_SIZE + n < WORD, malloc(n)
  PROVE  /\ heap_index' \in Nat /\ heap_index' <= HEAP_SIZE
         /\ mappings' = mappings
         /\ n = 0 => heap_index' = heap_index
         /\ heap_index + n <= HEAP_SIZE => heap_index' = heap_index + n /\ result' # NULL
<1>1. heap_index \in Nat /\ heap_index <= HEAP_SIZE
  BY DEF DisksType
<1>2. /\ (heap_index + n) % WORD = heap_index + n
      /\ Fits(n) <=> heap_index + n <= HEAP_SIZE
  BY <1>1, FitsIfRoom
<1> QED BY <1>1, <1>2, Numbers DEF malloc, Take, NULL

LEMMA MapSucceeds ==
  ASSUME DisksType, get_hba_port, next_mapping < MAX_MAPPINGS,
         heap_index + PORT_SIZE <= HEAP_SIZE
  PROVE  /\ heap_index' = heap_index + PORT_SIZE
         /\ mappings' \in Seq(Mapping) /\ next_mapping' = next_mapping + 1
         /\ result' # MAP_FAILED
<1>1. heap_index \in Nat /\ heap_index <= HEAP_SIZE /\ mappings \in Seq(Mapping)
  BY DEF DisksType
<1>2. Fits(PORT_SIZE) /\ (heap_index + PORT_SIZE) % WORD = heap_index + PORT_SIZE
  BY <1>1, FitsIfRoom, Numbers
<1>3. PORT_SIZE \in Nat \ {0}
  BY DisksAssumption, HeapAssumption
<1> DEFINE new == [addr |-> heap_index, size |-> PORT_SIZE, allocated |-> TRUE]
<1>4. /\ heap_index' = heap_index + PORT_SIZE
      /\ mappings' = Append(mappings, new)
      /\ result' = heap_index
  BY <1>2, Numbers, <1>1 DEF get_hba_port, mmap, Take, next_mapping
<1>5. new \in Mapping
  BY <1>1, <1>3 DEF Mapping
<1> QED BY <1>1, <1>4, <1>5 DEF next_mapping, MAP_FAILED

LEMMA MapFails ==
  ASSUME DisksType, get_hba_port, next_mapping = MAX_MAPPINGS
  PROVE  UNCHANGED <<heap_index, mappings>> /\ result' = MAP_FAILED
BY Numbers DEF get_hba_port, mmap, next_mapping

LEMMA ZeroedIsNoDrive == check_type(Zeroed) = "null"
BY DEF check_type, Zeroed

----------------------------------------------------------------------------
(* The steps *)

LEMMA InitInv == DisksInit => DisksInv
BY Numbers, PciInitInv DEF DisksInit, HeapInit, DisksInv, DisksType, Fresh, next_mapping

LEMMA EnumerateKeepsInv == ASSUME DisksInv, Enumerate PROVE DisksInv'
<1> USE Numbers
<1>1. LIST \in Nat /\ HEAP_SIZE + LIST < WORD /\ malloc(LIST)
  BY DEF Enumerate, LIST
<1>2. /\ heap_index' \in Nat /\ heap_index' <= HEAP_SIZE /\ mappings' = mappings
      /\ heap_index + LIST <= HEAP_SIZE => heap_index' = heap_index + LIST /\ result' # NULL
  BY <1>1, MallocKeeps DEF DisksInv
<1>3. /\ step = "idle" /\ step' = "enumerate" /\ Begin(result' # NULL)
      /\ UNCHANGED <<length, i, ahci_count, index>>
  BY DEF Enumerate
<1>4. PciInv'
  BY <1>3, BeginKeepsInv DEF DisksInv, PciInv, PciTypeOK
<1>5. DisksType'
  BY <1>2, <1>3 DEF DisksInv, DisksType
<1>6. CASE Fresh
  <2>1. 0 <= MAX_MAPPINGS * PORT_SIZE
    BY Monotone
  <2>2. heap_index + LIST <= HEAP_SIZE /\ next_mapping' = 0
    BY <2>1, <1>2, <1>6 DEF Fresh, next_mapping
  <2>3. heap_index' = LIST /\ state' = "scan"
    BY <2>2, <1>2, <1>3, <1>6 DEF Fresh, Begin
  <2> QED BY <2>2, <2>3, <1>3, <1>4, <1>5 DEF DisksInv, FirstScan
<1>7. CASE LaterCall
  BY <1>2, <1>3, <1>4, <1>5, <1>7 DEF LaterCall, DisksInv, next_mapping
<1> QED BY <1>3, <1>6, <1>7 DEF DisksInv, FirstScan, FirstCall

\* A probe moves the scan only, and never makes it fail.
LEMMA ProbeOneKeepsInv == ASSUME DisksInv, ProbeOne PROVE DisksInv'
<1>1. /\ step = "enumerate" /\ Probe
      /\ UNCHANGED <<heapVars, low, step, length, i, ahci_count, ahci_devices, index>>
  BY DEF ProbeOne
<1>2. PciInv'
  BY <1>1, ProbeKeepsInv DEF DisksInv
<1>3. state' \in {"scan", "done"}
  BY <1>1 DEF Probe, Skip, Record, Refuse, NextFunction, NextDevice
<1>4. DisksType'
  BY <1>1 DEF DisksInv, DisksType, heapVars
<1>5. Fresh' \/ FirstScan' \/ FirstCall' \/ LaterCall'
  BY <1>1, <1>3 DEF DisksInv, Fresh, FirstScan, FirstCall, LaterCall, heapVars, next_mapping
<1> QED BY <1>2, <1>4, <1>5 DEF DisksInv

\* What the scan returns: a full list, or none.
LEMMA EnumeratedKeepsInv == ASSUME DisksInv, Enumerated PROVE DisksInv'
<1> USE Numbers
<1>1. /\ step = "enumerate" /\ state \in {"done", "failed"}
      /\ length' = device_count /\ step' = "count"
      /\ i' = 0 /\ ahci_count' = 0 /\ index' = 0
      /\ UNCHANGED <<heapVars, pciVars, low, ahci_devices>>
  BY DEF Enumerated
<1>2. PciInv'
  BY <1>1, IdleKeepsInv DEF DisksInv
<1>3. /\ state = "done" => length' = MAX_PCI_DEVICES
      /\ state = "failed" => length' = 0
  BY <1>1 DEF DisksInv, PciInv, ListSound, device_count
<1>4. DisksType'
  BY <1>1, <1>3 DEF DisksInv, DisksType, heapVars
<1>5. CASE FirstScan
  <2>1. LIST + 0 * PORT_SIZE = LIST
    OBVIOUS
  <2> QED BY <1>1, <1>2, <1>3, <1>4, <1>5, <2>1
          DEF DisksInv, FirstScan, FirstCall, heapVars, next_mapping
<1>6. CASE LaterCall
  BY <1>1, <1>2, <1>4, <1>6 DEF DisksInv, LaterCall, heapVars, next_mapping
<1> QED BY <1>1, <1>5, <1>6 DEF DisksInv, Fresh, FirstCall

\* What one more mapping does in the first call.
LEMMA FirstCallMaps ==
  ASSUME DisksType, FirstCall, i < length, get_hba_port
  PROVE  /\ heap_index' \in Nat /\ heap_index' <= HEAP_SIZE
         /\ heap_index' = LIST + next_mapping' * PORT_SIZE
         /\ mappings' \in Seq(Mapping) /\ next_mapping' = next_mapping + 1
         /\ ~IsDrive
<1> USE Numbers
<1>1. next_mapping \in Nat /\ next_mapping + 1 <= MAX_MAPPINGS /\ i \in Nat
  <2>1. i \in Nat /\ i < MAX_PCI_DEVICES
    BY DEF DisksType, FirstCall
  <2>2. next_mapping = i \/ next_mapping = MAX_PCI_DEVICES + i
    BY DEF FirstCall
  <2> QED BY <2>1, <2>2
<1>2. (next_mapping + 1) * PORT_SIZE <= MAX_MAPPINGS * PORT_SIZE
  BY <1>1, Monotone
<1>3. (next_mapping + 1) * PORT_SIZE = next_mapping * PORT_SIZE + PORT_SIZE
      /\ next_mapping * PORT_SIZE \in Nat
  BY <1>1
<1>4. heap_index + PORT_SIZE <= HEAP_SIZE
  <2>1. MAX_MAPPINGS * PORT_SIZE \in Nat
    BY Monotone
  <2> QED BY <2>1, <1>2, <1>3 DEF FirstCall
<1>5. /\ heap_index' = heap_index + PORT_SIZE
      /\ mappings' \in Seq(Mapping) /\ next_mapping' = next_mapping + 1
      /\ result' # MAP_FAILED
  BY <1>1, <1>4, MapSucceeds
<1>6. heap_index' = LIST + next_mapping' * PORT_SIZE
  BY <1>3, <1>5 DEF FirstCall
<1>7. heap_index \in Nat
  BY DEF DisksType
<1>8. heap_index' \in Nat /\ heap_index' <= HEAP_SIZE
  BY <1>4, <1>5, <1>7
<1>9. ~IsDrive
  BY <1>5, ZeroedIsNoDrive, Zenon DEF IsDrive
<1> QED BY <1>5, <1>6, <1>8, <1>9

LEMMA CountKeepsInv == ASSUME DisksInv, CountOne PROVE DisksInv'
<1> USE Numbers
<1>1. /\ step = "count" /\ i < length /\ get_hba_port
      /\ ahci_count' = IF IsDrive THEN ahci_count + 1 ELSE ahci_count
      /\ i' = i + 1
      /\ UNCHANGED <<pciVars, low, step, length, ahci_devices, index>>
  BY DEF CountOne
<1>2. DisksType /\ PciInv'
  BY <1>1, IdleKeepsInv DEF DisksInv
<1>3. i \in Nat /\ i' \in 0 .. length' /\ ahci_count \in Nat
  BY <1>1, <1>2 DEF DisksType
<1>4. CASE FirstCall
  <2>1. /\ heap_index' \in Nat /\ heap_index' <= HEAP_SIZE
        /\ heap_index' = LIST + next_mapping' * PORT_SIZE
        /\ mappings' \in Seq(Mapping) /\ next_mapping' = next_mapping + 1
        /\ ~IsDrive
    BY <1>1, <1>2, <1>4, FirstCallMaps
  <2>2. DisksType'
    BY <2>1, <1>1, <1>2, <1>3 DEF DisksType
  <2> QED BY <2>1, <2>2, <1>1, <1>2, <1>4 DEF DisksInv, FirstCall
<1>5. CASE LaterCall
  <2>1. UNCHANGED <<heap_index, mappings>> /\ result' = MAP_FAILED
    BY <1>1, <1>2, <1>5, MapFails DEF LaterCall
  <2>2. IsDrive = LowIsDrive /\ LowIsDrive' = LowIsDrive
    BY <2>1, <1>1 DEF IsDrive, LowIsDrive
  <2>3. ahci_count = (IF LowIsDrive THEN i ELSE 0) /\ index = 0
    BY <1>1, <1>5 DEF LaterCall
  <2>4. ahci_count' = (IF LowIsDrive' THEN i' ELSE 0) /\ index' = 0
    BY <2>2, <2>3, <1>1, <1>3 DEF LowIsDrive
  <2>5. ahci_count' \in Nat
    BY <1>1, <1>3
  <2>6. DisksType'
    BY <2>1, <2>4, <2>5, <1>1, <1>2, <1>3 DEF DisksType
  <2> QED BY <2>1, <2>4, <2>6, <1>1, <1>2, <1>5 DEF DisksInv, LaterCall, next_mapping
<1> QED BY <1>1, <1>4, <1>5 DEF DisksInv, Fresh, FirstScan

LEMMA AllocateKeepsInv == ASSUME DisksInv, AllocateList PROVE DisksInv'
<1> USE Numbers
<1>1. /\ step = "count" /\ i = length
      /\ malloc(ahci_count * DEVICE_SIZE) /\ ahci_devices' = result'
      /\ step' = "fill" /\ i' = 0
      /\ UNCHANGED <<pciVars, low, length, ahci_count, index>>
  BY DEF AllocateList
<1>2. DisksType /\ PciInv'
  BY <1>1, IdleKeepsInv DEF DisksInv
<1>3. length \in Nat /\ length <= MAX_PCI_DEVICES
  BY <1>2 DEF DisksType
<1>4. ahci_count \in 0 .. length /\ (ahci_count = 0 \/ ahci_count = length)
  BY <1>1, <1>3 DEF DisksInv, Fresh, FirstScan, FirstCall, LaterCall
<1> DEFINE size == ahci_count * DEVICE_SIZE
<1>5. size \in Nat /\ HEAP_SIZE + size < WORD /\ (ahci_count = 0 => size = 0)
  <2>1. ahci_count \in 0 .. MAX_PCI_DEVICES
    BY <1>3, <1>4
  <2>2. DEVICE_SIZE \in Nat
    BY DisksAssumption
  <2> QED BY <2>1, <2>2
<1>6. malloc(size)
  BY <1>1
<1> HIDE DEF size
<1>7. /\ heap_index' \in Nat /\ heap_index' <= HEAP_SIZE
      /\ mappings' = mappings
      /\ ahci_count = 0 => heap_index' = heap_index /\ result' # NULL
  <2>1. heap_index \in Nat /\ heap_index <= HEAP_SIZE
    BY <1>2 DEF DisksType
  <2> QED BY <2>1, <1>2, <1>5, <1>6, MallocKeeps
<1>8. DisksType'
  BY <1>1, <1>2, <1>3, <1>7 DEF DisksType
<1>9. CASE FirstCall
  BY <1>1, <1>2, <1>7, <1>8, <1>9 DEF DisksInv, FirstCall, next_mapping
<1>10. CASE LaterCall
  BY <1>1, <1>2, <1>3, <1>4, <1>7, <1>8, <1>10 DEF DisksInv, LaterCall, LowIsDrive, next_mapping
<1> QED BY <1>1, <1>9, <1>10 DEF DisksInv, Fresh, FirstScan

LEMMA FillKeepsInv == ASSUME DisksInv, FillOne PROVE DisksInv'
<1> USE Numbers
<1>1. /\ step = "fill" /\ i < length /\ get_hba_port
      /\ index' = IF IsDrive THEN index + 1 ELSE index
      /\ i' = i + 1
      /\ ~IsDrive \/ ahci_devices # NULL => low' = low
      /\ UNCHANGED <<pciVars, step, length, ahci_count, ahci_devices>>
  BY DEF FillOne
<1>2. DisksType /\ PciInv'
  BY <1>1, IdleKeepsInv DEF DisksInv
<1>3. i \in Nat /\ i' \in 0 .. length' /\ index \in Nat /\ length \in Nat
  BY <1>1, <1>2 DEF DisksType
<1>4. CASE FirstCall
  <2>1. /\ heap_index' \in Nat /\ heap_index' <= HEAP_SIZE
        /\ heap_index' = LIST + next_mapping' * PORT_SIZE
        /\ mappings' \in Seq(Mapping) /\ next_mapping' = next_mapping + 1
        /\ ~IsDrive
    BY <1>1, <1>2, <1>4, FirstCallMaps
  <2>2. DisksType'
    BY <2>1, <1>1, <1>2, <1>3 DEF DisksType
  <2> QED BY <2>1, <2>2, <1>1, <1>2, <1>3, <1>4 DEF DisksInv, FirstCall
<1>5. CASE LaterCall
  <2>1. UNCHANGED <<heap_index, mappings>> /\ result' = MAP_FAILED
    BY <1>1, <1>2, <1>5, MapFails DEF LaterCall
  <2>2. IsDrive = LowIsDrive
    BY <2>1 DEF IsDrive, LowIsDrive
  <2>3. /\ index' \in Nat /\ index' <= ahci_count'
        /\ IF ahci_devices' = NULL
             THEN ahci_count' = length' /\ index' <= i'
             ELSE /\ ahci_count' = IF LowIsDrive' THEN length' ELSE 0
                  /\ index' = IF LowIsDrive' THEN i' ELSE 0
    <3>1. CASE ahci_devices = NULL
      BY <3>1, <1>1, <1>3, <1>5 DEF LaterCall
    <3>2. CASE ahci_devices # NULL
      <4>1. LowIsDrive' = LowIsDrive
        BY <3>2, <1>1 DEF LowIsDrive
      <4> QED BY <4>1, <3>2, <2>2, <1>1, <1>3, <1>5 DEF LaterCall
    <3> QED BY <3>1, <3>2
  <2>4. DisksType'
    BY <2>1, <2>3, <1>1, <1>2, <1>3 DEF DisksType
  <2> QED BY <2>1, <2>3, <2>4, <1>1, <1>2, <1>5 DEF DisksInv, LaterCall, next_mapping
<1> QED BY <1>1, <1>4, <1>5 DEF DisksInv, Fresh, FirstScan

LEMMA FinishKeepsInv == ASSUME DisksInv, Finish PROVE DisksInv'
<1> USE Numbers
<1>1. /\ step = "fill" /\ i = length /\ step' = "idle"
      /\ UNCHANGED <<heapVars, pciVars, low, length, i, ahci_count, ahci_devices, index>>
  BY DEF Finish
<1>2. DisksType' /\ PciInv'
  BY <1>1, IdleKeepsInv DEF DisksInv, DisksType, heapVars
<1>3. next_mapping = MAX_MAPPINGS
  BY <1>1 DEF DisksInv, Fresh, FirstScan, FirstCall, LaterCall
<1> QED BY <1>1, <1>2, <1>3 DEF DisksInv, LaterCall, heapVars, next_mapping

LEMMA NextInv == DisksInv /\ [lsdisks]_disksVars => DisksInv'
<1>1. ASSUME DisksInv, UNCHANGED disksVars PROVE DisksInv'
  <2>1. PciInv'
    BY <1>1, IdleKeepsInv DEF DisksInv, disksVars
  <2> QED BY <1>1, <2>1 DEF DisksInv, DisksType, Fresh, FirstScan, FirstCall, LaterCall,
             LowIsDrive, disksVars, pciVars, heapVars, next_mapping
<1> QED BY <1>1, EnumerateKeepsInv, ProbeOneKeepsInv, EnumeratedKeepsInv, CountKeepsInv,
           AllocateKeepsInv, FillKeepsInv, FinishKeepsInv DEF lsdisks

(***************************************************************************)
(* Over any number of lsdisks, the second pass writes exactly the list     *)
(* that the first one made room for (kernel.c:238-261).                    *)
(***************************************************************************)
THEOREM FillsWhatItCounted == DisksSpec => []FillMatchesCount
<1>1. DisksInv => FillMatchesCount
  BY Numbers DEF DisksInv, DisksType, Fresh, FirstScan, FirstCall, LaterCall, FillMatchesCount
<1> QED BY <1>1, InitInv, NextInv, PTL DEF DisksSpec

(***************************************************************************)
(* In every call of lsdisks, however little memory is left, the list of    *)
(* devices is sound and in bus order: a call never sees what an earlier    *)
(* one found (pci.c:40-117, kernel.c:567-575).                             *)
(***************************************************************************)
THEOREM EveryListIsRight == DisksSpec => [](ListSound /\ ListCycles)
<1>1. ASSUME DisksInv, CycleInv, [lsdisks]_disksVars PROVE CycleInv'
  <2>1. PciInv'
    BY <1>1, NextInv DEF DisksInv
  <2>2. \/ \E allocated \in BOOLEAN : Begin(allocated)
        \/ Probe \/ UNCHANGED pciVars
    BY <1>1 DEF lsdisks, Enumerate, ProbeOne, Enumerated, CountOne, AllocateList, FillOne,
       Finish, disksVars
  <2> QED BY <2>1, <2>2, <1>1, BeginInCycle, ProbeInCycle, IdleInCycle
<1>2. DisksInit => CycleInv
  BY InitInCycle DEF DisksInit
<1>3. CycleInv => ListSound /\ ListCycles
  BY DEF CycleInv, PciInv
<1> QED BY <1>1, <1>2, <1>3, InitInv, NextInv, PTL DEF DisksSpec
=============================================================================
