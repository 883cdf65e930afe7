----------------------------- MODULE AcpiProofs -----------------------------
(***************************************************************************)
(* Proofs about the power-off through ACPI, for every number of places and *)
(* tables and every set of packages that AcpiAssumption allows.            *)
(***************************************************************************)
EXTENDS Acpi, TLAPS

Pointer == {"badroot", "root"}

FirstPointer(n) ==
  /\ n \in 1 .. PLACES /\ places[n] \in Pointer
  /\ \A j \in 1 .. n - 1 : places[j] \notin Pointer

FirstTable(n) ==
  /\ n \in 1 .. Len(entries) /\ entries[n].kind # "other"
  /\ \A j \in 1 .. n - 1 : entries[j].kind = "other"

NoPointer == \A j \in 1 .. PLACES : places[j] \notin Pointer
NoTable == \A j \in 1 .. Len(entries) : entries[j].kind = "other"

PointerAt == FirstIndex(places, LAMBDA c : c \in {"badroot", "root"})
TableAt == FirstIndex(entries, LAMBDA t : t.kind # "other")

Memory ==
  /\ places \in [1 .. PLACES -> Contents]
  /\ entries \in Seq(Tables)

LEMMA PointerFound == ASSUME Memory, NEW n, FirstPointer(n) PROVE PointerAt = n
<1>1. /\ DOMAIN places = 1 .. PLACES /\ n \in 1 .. PLACES /\ PLACES \in Nat
  BY AcpiAssumption DEF Memory, FirstPointer
<1>2. ASSUME NEW k \in 1 .. PLACES, places[k] \in Pointer,
             \A j \in 1 .. k - 1 : places[j] \notin Pointer
      PROVE  k = n
  BY <1>1, <1>2 DEF FirstPointer
<1> QED BY <1>1, <1>2 DEF PointerAt, FirstIndex, FirstPointer, Pointer

LEMMA NoPointerFound == ASSUME Memory, NoPointer PROVE PointerAt = 0
BY DEF PointerAt, FirstIndex, NoPointer, Memory, Pointer

LEMMA TableFound == ASSUME Memory, NEW n, FirstTable(n) PROVE TableAt = n
<1>1. /\ DOMAIN entries = 1 .. Len(entries) /\ n \in 1 .. Len(entries) /\ Len(entries) \in Nat
  BY DEF Memory, FirstTable
<1>2. ASSUME NEW k \in 1 .. Len(entries), entries[k].kind # "other",
             \A j \in 1 .. k - 1 : entries[j].kind = "other"
      PROVE  k = n
  BY <1>1, <1>2 DEF FirstTable
<1> QED BY <1>1, <1>2 DEF TableAt, FirstIndex, FirstTable

LEMMA NoTableFound == ASSUME Memory, NoTable PROVE TableAt = 0
BY DEF TableAt, FirstIndex, NoTable, Memory

----------------------------------------------------------------------------
(* The package *)

\* w begins with s, then t, then u.
Layout(w, s, t, u) ==
  /\ \A k \in 1 .. Len(s) : w[k] = s[k]
  /\ \A k \in 1 .. Len(t) : w[Len(s) + k] = t[k]
  /\ \A k \in 1 .. Len(u) : w[Len(s) + Len(t) + k] = u[k]

LEMMA Joined ==
  ASSUME NEW s \in Seq(Int), NEW t \in Seq(Int), NEW u \in Seq(Int), NEW v \in Seq(Int)
  PROVE  Layout(s \o t \o u \o v, s, t, u)
<1>1. /\ s \o t \in Seq(Int) /\ Len(s \o t) = Len(s) + Len(t)
      /\ \A k \in 1 .. Len(s) : (s \o t)[k] = s[k]
      /\ \A k \in 1 .. Len(t) : (s \o t)[Len(s) + k] = t[k]
  OBVIOUS
<1> DEFINE st == s \o t
<1> HIDE DEF st
<1>2. /\ st \o u \in Seq(Int) /\ Len(st \o u) = Len(st) + Len(u)
      /\ \A k \in 1 .. Len(st) : (st \o u)[k] = st[k]
      /\ \A k \in 1 .. Len(u) : (st \o u)[Len(st) + k] = u[k]
  BY <1>1 DEF st
<1> DEFINE stu == st \o u
<1> HIDE DEF stu
<1>3. \A k \in 1 .. Len(stu) : (stu \o v)[k] = stu[k]
  BY <1>2 DEF stu
<1>4. s \o t \o u \o v = stu \o v
  BY DEF st, stu
<1>5. /\ Len(s) \in Nat /\ Len(t) \in Nat /\ Len(u) \in Nat
      /\ Len(st) = Len(s) + Len(t) /\ Len(stu) = Len(st) + Len(u)
  BY <1>1, <1>2 DEF st, stu
<1>6. /\ \A k \in 1 .. Len(st) : (stu \o v)[k] = st[k]
      /\ \A k \in 1 .. Len(u) : (stu \o v)[Len(st) + k] = u[k]
  BY <1>2, <1>3, <1>5 DEF stu
<1>7. ASSUME NEW k \in 1 .. Len(s) PROVE (stu \o v)[k] = s[k]
  <2>1. k \in 1 .. Len(st) /\ st[k] = s[k]
    BY <1>1, <1>5 DEF st
  <2> QED BY <2>1, <1>6
<1>8. ASSUME NEW k \in 1 .. Len(t) PROVE (stu \o v)[Len(s) + k] = t[k]
  <2>1. Len(s) + k \in 1 .. Len(st) /\ st[Len(s) + k] = t[k]
    BY <1>1, <1>5 DEF st
  <2> QED BY <2>1, <1>6
<1>9. ASSUME NEW k \in 1 .. Len(u) PROVE (stu \o v)[Len(s) + Len(t) + k] = u[k]
  BY <1>5, <1>6
<1> HIDE DEF stu
<1> QED BY <1>4, <1>7, <1>8, <1>9 DEF Layout

LEMMA ElementLayout ==
  ASSUME NEW value \in 0 .. 7, NEW prefix \in BOOLEAN, value > 1 => prefix
  PROVE  /\ Element(value, prefix) \in Seq(Int)
         /\ Len(Element(value, prefix)) = IF Element(value, prefix)[1] = 10 THEN 2 ELSE 1
         /\ Element(value, prefix)[Len(Element(value, prefix))] = value
<1>1. CASE prefix
  BY <1>1 DEF Element
<1>2. CASE ~prefix
  BY <1>2 DEF Element
<1> QED BY <1>1, <1>2

\* The sleep types are read off the package, however it is encoded.
LEMMA TypesDecoded ==
  ASSUME NEW p \in Packages
  PROVE  SleepTypes(Encode(p)) = [a |-> p.a * 1024, b |-> p.b * 1024]
<1> DEFINE head == <<18, p.follow * 64>> \o [j \in 1 .. p.follow |-> 0] \o <<4>>
           ea == Element(p.a, p.a_prefix)
           eb == Element(p.b, p.b_prefix)
           aml == Encode(p)
           at == 2 + (aml[2] \div 64) + 2
           first == IF aml[at] = 10 THEN at + 1 ELSE at
           second == IF aml[first + 1] = 10 THEN first + 2 ELSE first + 1
<1>1. /\ p.follow \in 0 .. 3 /\ p.a \in 0 .. 7 /\ p.b \in 0 .. 7
      /\ p.a_prefix \in BOOLEAN /\ p.b_prefix \in BOOLEAN
      /\ p.a > 1 => p.a_prefix
      /\ p.b > 1 => p.b_prefix
  BY AcpiAssumption
<1>2. head \in Seq(Int) /\ Len(head) = p.follow + 3 /\ head[2] = p.follow * 64
  <2> DEFINE zeros == [j \in 1 .. p.follow |-> 0]
  <2>1. zeros \in Seq(Int) /\ Len(zeros) = p.follow
    BY <1>1
  <2> HIDE DEF zeros
  <2>2. /\ <<18, p.follow * 64>> \in Seq(Int) /\ Len(<<18, p.follow * 64>>) = 2
        /\ <<4>> \in Seq(Int) /\ Len(<<4>>) = 1
    BY <1>1
  <2>3. \A s, t \in Seq(Int) : /\ s \o t \in Seq(Int) /\ Len(s \o t) = Len(s) + Len(t)
                               /\ \A k \in 1 .. Len(s) : (s \o t)[k] = s[k]
    OBVIOUS
  <2>4. /\ <<18, p.follow * 64>> \o zeros \in Seq(Int)
        /\ Len(<<18, p.follow * 64>> \o zeros) = p.follow + 2
        /\ (<<18, p.follow * 64>> \o zeros)[2] = p.follow * 64
    BY <2>1, <2>2, <2>3, <1>1
  <2> QED BY <2>2, <2>3, <2>4, <1>1 DEF zeros
<1>3. /\ ea \in Seq(Int) /\ Len(ea) = (IF ea[1] = 10 THEN 2 ELSE 1) /\ ea[Len(ea)] = p.a
      /\ eb \in Seq(Int) /\ Len(eb) = (IF eb[1] = 10 THEN 2 ELSE 1) /\ eb[Len(eb)] = p.b
  BY <1>1, ElementLayout
<1>4. /\ aml[2] = p.follow * 64
      /\ \A k \in 1 .. Len(ea) : aml[p.follow + 3 + k] = ea[k]
      /\ \A k \in 1 .. Len(eb) : aml[p.follow + 3 + Len(ea) + k] = eb[k]
  <2>1. aml = head \o ea \o eb \o <<0, 0>>
    BY DEF Encode
  <2>2. <<0, 0>> \in Seq(Int)
    OBVIOUS
  <2> HIDE DEF head, ea, eb, aml
  <2> DEFINE end == <<0, 0>>
  <2>3. head \in Seq(Int) /\ ea \in Seq(Int) /\ eb \in Seq(Int) /\ end \in Seq(Int)
    BY <2>2, <1>2, <1>3
  <2> HIDE DEF end
  <2>4. Layout(head \o ea \o eb \o end, head, ea, eb)
    BY <2>3, Joined
  <2>5. aml = head \o ea \o eb \o end
    BY <2>1 DEF end
  <2>6. Layout(aml, head, ea, eb)
    BY <2>4, <2>5
  <2>7. 2 \in 1 .. Len(head) /\ \A k \in 1 .. Len(head) : aml[k] = head[k]
    BY <2>6, <1>1, <1>2 DEF Layout
  <2> QED BY <2>6, <2>7, <1>2 DEF Layout
<1>5. SleepTypes(Encode(p)) = [a |-> aml[first] * 1024, b |-> aml[second] * 1024]
  BY DEF SleepTypes
<1>6. at = p.follow + 4
  BY <1>1, <1>4
<1> HIDE DEF ea, eb, aml, at
<1>7. first = p.follow + 3 + Len(ea) /\ aml[first] = p.a
  <2>1. aml[at] = ea[1]
    <3>1. 1 \in 1 .. Len(ea) /\ p.follow + 3 + 1 = at
      BY <1>1, <1>3, <1>6
    <3>2. aml[p.follow + 3 + 1] = ea[1]
      BY <1>4, <3>1
    <3> QED BY <3>1, <3>2
  <2>2. first = p.follow + 3 + Len(ea)
    <3>1. p.follow \in Int /\ Len(ea) = IF aml[at] = 10 THEN 2 ELSE 1
      BY <1>1, <1>3, <2>1
    <3> QED BY <1>6, <3>1
  <2>3. aml[p.follow + 3 + Len(ea)] = ea[Len(ea)]
    BY <1>3, <1>4
  <2> QED BY <2>2, <2>3, <1>3
<1>8. aml[second] = p.b
  BY <1>1, <1>3, <1>4, <1>7
<1> QED BY <1>5, <1>7, <1>8

----------------------------------------------------------------------------
(* The invariant *)

AcpiType ==
  /\ Memory
  /\ sci \in [Blocks -> BOOLEAN] /\ sent \in BOOLEAN
  /\ pc \in {"search", "tables", "power", "waitA", "waitB", "writeA", "writeB",
             "asleep", "halted"}
  /\ place \in 1 .. PLACES + 1
  /\ ptr \in 1 .. Len(entries) + 1
  /\ entrys \in Int
  /\ written \in [Blocks -> Int]

Searching == pc \in {"search", "tables"}

\* What initAcpi has seen when no table has been taken so far, or none at all.
NotFound ==
  /\ facp = 0 /\ ~sent
  /\ pc = "search" => \A j \in 1 .. place - 1 : places[j] \notin Pointer
  /\ pc = "tables" =>
       /\ FirstPointer(place) /\ places[place] = "root"
       /\ \/ entrys = Len(entries) - ptr + 1 /\ \A j \in 1 .. ptr - 1 : entries[j].kind = "other"
          \/ entrys = -2 /\ FirstTable(ptr - 1) /\ entries[ptr - 1].kind # "S5"
  /\ ~Searching =>
       /\ pc = "halted"
       /\ \/ NoPointer
          \/ \E n \in 1 .. PLACES : FirstPointer(n) /\ places[n] # "root"
          \/ NoTable
          \/ \E n \in 1 .. Len(entries) : FirstTable(n) /\ entries[n].kind # "S5"

Found ==
  /\ ~Searching
  /\ \E n \in 1 .. PLACES : FirstPointer(n) /\ places[n] = "root"
  /\ FirstTable(facp) /\ FACP.kind = "S5"
  /\ SLP_TYP = [a |-> FACP.pkg.a * 1024, b |-> FACP.pkg.b * 1024]

\* What each point of acpiPowerOff knows of the handshake and of the registers.
Waited ==
  /\ pc \in {"power", "waitA", "waitB", "writeA", "asleep"} => written["a"] = Unwritten
  /\ pc # "halted" => written["b"] = Unwritten
  /\ pc = "power" => ~sent
  /\ pc = "waitB" => FACP.PM1b /\ sci["a"]
  /\ pc \in {"writeA", "writeB", "halted"} /\ sent => sci["a"] /\ (FACP.PM1b => sci["b"])
  /\ pc = "writeB" => FACP.PM1b /\ written["a"] # Unwritten
  /\ WritesDeclaredTypes

Untouched == \A b \in Blocks : written[b] = Unwritten

AcpiInv ==
  /\ AcpiType
  /\ \/ NotFound /\ Untouched
     \/ Found /\ Waited

LEMMA InitInv == AcpiInit => AcpiInv
<1> SUFFICES ASSUME AcpiInit PROVE AcpiInv
  OBVIOUS
<1>1. Memory /\ Len(entries) \in Nat
  <2>1. PICK n \in 0 .. MAX_ENTRIES : entries \in [1 .. n -> Tables]
    BY DEF AcpiInit
  <2>2. entries \in Seq(Tables)
    BY <2>1, AcpiAssumption
  <2> QED BY <2>2 DEF AcpiInit, Memory
<1>2. /\ sci \in [Blocks -> BOOLEAN] /\ sent = FALSE /\ pc = "search"
      /\ place = 1 /\ ptr = 1 /\ entrys = 0 /\ facp = 0
      /\ written = [b \in Blocks |-> Unwritten]
  BY DEF AcpiInit
<1>3. written \in [Blocks -> Int] /\ Untouched
  BY <1>2 DEF Unwritten, Untouched
<1>4. AcpiType
  <2>1. 1 \in 1 .. PLACES + 1 /\ 1 \in 1 .. Len(entries) + 1 /\ 0 \in Int
    BY <1>1, AcpiAssumption
  <2> QED BY <2>1, <1>1, <1>2, <1>3 DEF AcpiType
<1>5. NotFound
  BY <1>2 DEF NotFound, Searching
<1> QED BY <1>3, <1>4, <1>5 DEF AcpiInv

\* The steps of the search, before a table is taken.
LEMMA SearchKeepsInv ==
  ASSUME AcpiInv, NextPlace \/ NoAcpi \/ FoundRoot PROVE AcpiInv'
<1>1. pc = "search" /\ AcpiType /\ NotFound /\ Untouched
  BY DEF AcpiInv, Found, Searching, NextPlace, NoAcpi, FoundRoot
<1>2. \A j \in 1 .. place - 1 : places[j] \notin Pointer
  BY <1>1 DEF NotFound
<1>3. /\ UNCHANGED <<places, entries, sci, sent, facp, SLP_TYP, written>>
      /\ PLACES \in Nat /\ Len(entries) \in Nat /\ place \in Nat
  BY <1>1, AcpiAssumption DEF NextPlace, NoAcpi, FoundRoot, Goto, memory, globals, AcpiType, Memory
<1>4. CASE NextPlace
  <2>1. place \in 1 .. PLACES /\ place' = place + 1 /\ places[place] \notin Pointer
        /\ UNCHANGED <<pc, ptr, entrys>>
    BY <1>4, <1>1 DEF NextPlace, AcpiType, Pointer
  <2>2. AcpiType'
    BY <2>1, <1>1, <1>3 DEF AcpiType, Memory
  <2>3. \A j \in 1 .. place' - 1 : places[j] \notin Pointer
    BY <2>1, <1>2, <1>3
  <2> QED BY <2>1, <2>2, <2>3, <1>1, <1>3 DEF AcpiInv, NotFound, Searching, Untouched
<1>5. CASE NoAcpi
  <2>1. /\ pc' = "halted" /\ UNCHANGED <<place, ptr, entrys>>
        /\ place <= PLACES => places[place] = "badroot"
    BY <1>5 DEF NoAcpi, Goto, counters
  <2>2. AcpiType'
    BY <2>1, <1>1, <1>3 DEF AcpiType, Memory
  <2>3. NoPointer' \/ (\E n \in 1 .. PLACES : FirstPointer(n) /\ places[n] # "root")'
    <3>1. CASE place <= PLACES
      <4>1. place \in 1 .. PLACES /\ FirstPointer(place) /\ places[place] # "root"
        BY <3>1, <2>1, <1>1, <1>2, <1>3 DEF FirstPointer, Pointer, AcpiType
      <4> QED BY <4>1, <1>3 DEF FirstPointer
    <3>2. CASE ~(place <= PLACES)
      BY <3>2, <1>1, <1>2, <1>3 DEF NoPointer, AcpiType
    <3> QED BY <3>1, <3>2
  <2> QED BY <2>1, <2>2, <2>3, <1>1, <1>3 DEF AcpiInv, NotFound, Searching, Untouched
<1>6. CASE FoundRoot
  <2>1. /\ place \in 1 .. PLACES /\ places[place] = "root" /\ pc' = "tables"
        /\ entrys' = Len(entries) /\ ptr' = 1 /\ place' = place
    BY <1>6, <1>1 DEF FoundRoot, AcpiType
  <2>2. AcpiType'
    BY <2>1, <1>1, <1>3 DEF AcpiType, Memory
  <2>3. FirstPointer(place)'
    BY <2>1, <1>2, <1>3 DEF FirstPointer, Pointer
  <2>4. entrys' = Len(entries') - ptr' + 1
        /\ \A j \in 1 .. ptr' - 1 : entries'[j].kind = "other"
    BY <2>1, <1>3
  <2> QED BY <2>1, <2>2, <2>3, <2>4, <1>1, <1>3 DEF AcpiInv, NotFound, Searching, Untouched
<1> QED BY <1>4, <1>5, <1>6

LEMMA TableFields ==
  ASSUME Memory, NEW n \in 1 .. Len(entries), entries[n].kind = "S5"
  PROVE  entries[n].pkg \in Packages /\ entries[n].PM1b \in BOOLEAN
<1>1. entries[n] \in Tables
  BY DEF Memory
<1> QED BY <1>1 DEF Tables

LEMMA TablesKeepInv ==
  ASSUME AcpiInv, OtherTable \/ NoFacp \/ TakeTable PROVE AcpiInv'
<1>1. pc = "tables" /\ AcpiType /\ NotFound /\ Untouched
  BY DEF AcpiInv, Found, Searching, OtherTable, NoFacp, TakeTable
<1>2. /\ FirstPointer(place) /\ places[place] = "root" /\ facp = 0 /\ ~sent
      /\ \/ entrys = Len(entries) - ptr + 1 /\ \A j \in 1 .. ptr - 1 : entries[j].kind = "other"
         \/ entrys = -2 /\ FirstTable(ptr - 1) /\ entries[ptr - 1].kind # "S5"
  BY <1>1 DEF NotFound
<1>3. /\ UNCHANGED <<places, entries, sci, sent, place, written>>
      /\ Memory /\ Len(entries) \in Nat /\ ptr \in 1 .. Len(entries) + 1 /\ entrys \in Int
  BY <1>1 DEF OtherTable, NoFacp, TakeTable, Goto, memory, counters, globals, AcpiType, Memory
<1>4. ASSUME entrys > 0
      PROVE  /\ ptr \in 1 .. Len(entries) /\ entrys = Len(entries) - ptr + 1
             /\ \A j \in 1 .. ptr - 1 : entries[j].kind = "other"
  BY <1>2, <1>3, <1>4
<1>5. CASE OtherTable
  <2>1. /\ entrys > 0 /\ entries[ptr].kind # "S5"
        /\ entrys' = (IF entries[ptr].kind = "other" THEN entrys - 1 ELSE -2)
        /\ ptr' = ptr + 1
        /\ UNCHANGED <<pc, facp, SLP_TYP>>
    BY <1>5 DEF OtherTable, globals
  <2>2. ptr' \in 1 .. Len(entries') + 1 /\ entrys' \in Int
    BY <2>1, <1>3, <1>4
  <2>3. AcpiType'
    BY <2>1, <2>2, <1>1, <1>3 DEF AcpiType, Memory
  <2>4. \/ /\ entrys' = Len(entries') - ptr' + 1
           /\ \A j \in 1 .. ptr' - 1 : entries'[j].kind = "other"
        \/ entrys' = -2 /\ FirstTable(ptr - 1)' /\ entries'[ptr' - 1].kind # "S5"
    <3>1. CASE entries[ptr].kind = "other"
      BY <3>1, <2>1, <1>3, <1>4
    <3>2. CASE entries[ptr].kind # "other"
      <4>1. FirstTable(ptr)
        BY <3>2, <2>1, <1>4 DEF FirstTable
      <4>2. ptr' - 1 = ptr
        BY <2>1, <1>3
      <4> QED BY <4>1, <4>2, <3>2, <2>1, <1>3 DEF FirstTable
    <3> QED BY <3>1, <3>2
  <2>5. FirstPointer(place)'
    BY <1>2, <1>3 DEF FirstPointer
  <2> QED BY <2>1, <2>3, <2>4, <2>5, <1>1, <1>2, <1>3
          DEF AcpiInv, NotFound, Searching, Untouched
<1>6. CASE NoFacp
  <2>1. pc' = "halted" /\ entrys <= 0 /\ UNCHANGED <<ptr, entrys, facp, SLP_TYP>>
    BY <1>6 DEF NoFacp, Goto, counters, globals
  <2>2. AcpiType'
    BY <2>1, <1>1, <1>3 DEF AcpiType, Memory
  <2>3. NoTable' \/ (\E n \in 1 .. Len(entries) : FirstTable(n) /\ entries[n].kind # "S5")'
    <3>1. CASE entrys = -2 /\ FirstTable(ptr - 1) /\ entries[ptr - 1].kind # "S5"
      <4>1. ptr - 1 \in 1 .. Len(entries)
        BY <3>1 DEF FirstTable
      <4> QED BY <4>1, <3>1, <1>3 DEF FirstTable
    <3>2. CASE /\ entrys = Len(entries) - ptr + 1
               /\ \A j \in 1 .. ptr - 1 : entries[j].kind = "other"
      <4>1. ptr - 1 = Len(entries)
        BY <3>2, <2>1, <1>3
      <4> QED BY <4>1, <3>2, <1>3 DEF NoTable
    <3> QED BY <3>1, <3>2, <1>2
  <2> QED BY <2>1, <2>2, <2>3, <1>1, <1>2, <1>3 DEF AcpiInv, NotFound, Searching, Untouched
<1>7. CASE TakeTable
  <2>1. /\ entrys > 0 /\ entries[ptr].kind = "S5" /\ entrys' = -2 /\ facp' = ptr
        /\ SLP_TYP' = SleepTypes(Encode(entries[ptr].pkg))
        /\ pc' = "power" /\ ptr' = ptr
    BY <1>7 DEF TakeTable
  <2>2. AcpiType'
    BY <2>1, <1>1, <1>3 DEF AcpiType, Memory
  <2>3. FirstTable(ptr) /\ entries[ptr].pkg \in Packages
    BY <2>1, <1>3, <1>4, TableFields DEF FirstTable
  <2>4. SLP_TYP' = [a |-> entries[ptr].pkg.a * 1024, b |-> entries[ptr].pkg.b * 1024]
    BY <2>1, <2>3, TypesDecoded
  <2>5. place \in 1 .. PLACES
    BY <1>2 DEF FirstPointer
  <2>6. Found'
    <3>1. ~Searching' /\ FACP' = entries[ptr]
      BY <2>1, <1>3 DEF Searching, FACP
    <3>2. FirstTable(facp)'
      BY <2>1, <2>3, <1>3 DEF FirstTable
    <3>3. (\E n \in 1 .. PLACES : FirstPointer(n) /\ places[n] = "root")'
      BY <2>5, <1>2, <1>3 DEF FirstPointer
    <3> QED BY <2>1, <2>4, <3>1, <3>2, <3>3 DEF Found
  <2>7. Waited'
    BY <2>1, <1>1, <1>2, <1>3 DEF Waited, Untouched, WritesDeclaredTypes, Blocks
  <2> QED BY <2>2, <2>6, <2>7 DEF AcpiInv
<1> QED BY <1>5, <1>6, <1>7

----------------------------------------------------------------------------
(* Powering off *)

LEMMA FoundStays ==
  ASSUME Found, UNCHANGED <<places, entries, facp, SLP_TYP>>, ~Searching'
  PROVE  Found' /\ FACP' = FACP
BY DEF Found, FirstPointer, FirstTable, FACP

LEMMA FoundWhenPowering ==
  ASSUME AcpiInv, acpiPowerOff \/ \E block \in Blocks : FirmwareEnables(block)
  PROVE  /\ AcpiType /\ Found /\ Waited
         /\ UNCHANGED <<places, entries, place, ptr, entrys, facp, SLP_TYP>>
<1>1. UNCHANGED <<places, entries, place, ptr, entrys, facp, SLP_TYP>>
  BY DEF acpiPowerOff, CheckEnabled, WaitA, WaitB, Poll, Goto, WriteA, WriteB, WriteBlock,
     FirmwareEnables, memory, counters, globals
<1>2. ~NotFound
  BY DEF acpiPowerOff, CheckEnabled, WaitA, WaitB, WriteA, WriteB, FirmwareEnables,
     NotFound, Searching, SCI_EN
<1> QED BY <1>1, <1>2 DEF AcpiInv

LEMMA HandshakeKeepsInv ==
  ASSUME AcpiInv, CheckEnabled \/ WaitA \/ WaitB PROVE AcpiInv'
<1>1. /\ AcpiType /\ Found /\ Waited
      /\ UNCHANGED <<places, entries, place, ptr, entrys, facp, SLP_TYP>>
  BY FoundWhenPowering DEF acpiPowerOff
<1>2. /\ UNCHANGED <<sci, written>> /\ pc \in {"power", "waitA", "waitB"}
      /\ pc' \in {"waitA", "waitB", "writeA", "asleep"}
      /\ sent' \in BOOLEAN
      /\ written["a"] = Unwritten /\ written["b"] = Unwritten
  BY <1>1 DEF CheckEnabled, WaitA, WaitB, Poll, Goto, Waited, AcpiType, FACP
<1>3. AcpiType'
  BY <1>1, <1>2 DEF AcpiType, Memory
<1>4. Found' /\ FACP' = FACP
  BY <1>1, <1>2, FoundStays DEF Searching
<1>5. /\ pc' = "waitB" => FACP.PM1b /\ sci["a"]
      /\ pc' = "writeA" /\ sent' => sci["a"] /\ (FACP.PM1b => sci["b"])
  BY <1>1, <1>2 DEF CheckEnabled, WaitA, WaitB, Poll, Goto, Waited
<1>6. WritesDeclaredTypes'
  BY <1>2 DEF WritesDeclaredTypes, Blocks
<1>7. Waited'
  BY <1>2, <1>4, <1>5, <1>6 DEF Waited
<1> QED BY <1>3, <1>4, <1>7 DEF AcpiInv

\* What is written to a control block.
LEMMA ValueWritten ==
  ASSUME AcpiType, Found, NEW b \in Blocks
  PROVE  /\ SLP_TYP[b] + SLP_EN = SLP_EN + 1024 * FACP.pkg[b]
         /\ SLP_TYP[b] + SLP_EN \in Nat
<1>1. FACP.pkg \in Packages
  BY TableFields DEF AcpiType, Found, FirstTable, FACP
<1>2. FACP.pkg.a \in 0 .. 7 /\ FACP.pkg.b \in 0 .. 7
  BY <1>1, AcpiAssumption
<1>3. SLP_TYP.a = FACP.pkg.a * 1024 /\ SLP_TYP.b = FACP.pkg.b * 1024
  BY DEF Found
<1>4. CASE b = "a"
  BY <1>2, <1>3, <1>4 DEF SLP_EN
<1>5. CASE b = "b"
  BY <1>2, <1>3, <1>5 DEF SLP_EN
<1> QED BY <1>4, <1>5 DEF Blocks

LEMMA WritesKeepInv ==
  ASSUME AcpiInv, WriteA \/ WriteB PROVE AcpiInv'
<1>1. /\ AcpiType /\ Found /\ Waited
      /\ UNCHANGED <<places, entries, place, ptr, entrys, facp, SLP_TYP>>
  BY FoundWhenPowering DEF acpiPowerOff
<1>2. PICK b \in Blocks : /\ WriteBlock(b)
                          /\ b = "a" => pc = "writeA" /\ written["b"] = Unwritten
                                        /\ pc' = IF FACP.PM1b THEN "writeB" ELSE "halted"
                          /\ b = "b" => pc = "writeB" /\ pc' = "halted"
  BY <1>1 DEF WriteA, WriteB, Blocks, Waited
<1>3. /\ written' = [written EXCEPT ![b] = SLP_TYP[b] + SLP_EN]
      /\ UNCHANGED <<sci, sent>> /\ written \in [Blocks -> Int]
      /\ b \in {"a", "b"}
  BY <1>1, <1>2 DEF WriteBlock, AcpiType, Blocks
<1>4. SLP_TYP[b] + SLP_EN = SLP_EN + 1024 * FACP.pkg[b] /\ SLP_TYP[b] + SLP_EN \in Nat
  BY <1>1, ValueWritten
<1>5. /\ written' \in [Blocks -> Int] /\ written'[b] = SLP_EN + 1024 * FACP.pkg[b]
      /\ written'[b] # Unwritten
      /\ \A c \in Blocks : c # b => written'[c] = written[c]
  BY <1>3, <1>4 DEF Unwritten
<1>6. pc' \in {"writeB", "halted"}
  BY <1>2, <1>3
<1>7. AcpiType'
  BY <1>1, <1>3, <1>5, <1>6 DEF AcpiType, Memory
<1>8. Found' /\ FACP' = FACP /\ facp # 0
  BY <1>1, <1>6, FoundStays DEF Searching, Found, FirstTable
<1>9. WritesDeclaredTypes'
  <2>1. b = "b" => FACP.PM1b /\ written'["a"] # Unwritten
    BY <1>1, <1>2, <1>5 DEF Waited, Blocks
  <2>2. ASSUME NEW c \in Blocks, written'[c] # Unwritten
        PROVE  /\ facp # 0 /\ written'[c] = SLP_EN + 1024 * FACP.pkg[c]
               /\ c = "b" => FACP.PM1b /\ written'["a"] # Unwritten
    <3>1. CASE c = b
      BY <3>1, <2>1, <1>5, <1>8
    <3>2. CASE c # b
      BY <3>2, <2>2, <1>1, <1>2, <1>3, <1>5, <1>8 DEF Waited, WritesDeclaredTypes, Blocks
    <3> QED BY <3>1, <3>2
  <2> QED BY <2>2, <1>1, <1>8 DEF WritesDeclaredTypes
<1>10. Waited'
  BY <1>1, <1>2, <1>3, <1>5, <1>6, <1>8, <1>9 DEF Waited, Blocks
<1> QED BY <1>7, <1>8, <1>10 DEF AcpiInv

LEMMA FirmwareKeepsInv ==
  ASSUME AcpiInv, NEW block \in Blocks, FirmwareEnables(block) PROVE AcpiInv'
<1>1. /\ AcpiType /\ Found /\ Waited
      /\ UNCHANGED <<places, entries, place, ptr, entrys, facp, SLP_TYP>>
  BY FoundWhenPowering
<1>2. /\ sci' \in [Blocks -> BOOLEAN] /\ \A b \in Blocks : sci[b] => sci'[b]
      /\ UNCHANGED <<sent, pc, written>>
  BY <1>1 DEF FirmwareEnables, AcpiType
<1>3. AcpiType'
  BY <1>1, <1>2 DEF AcpiType, Memory
<1>4. Found' /\ FACP' = FACP
  BY <1>1, <1>2, FoundStays DEF Searching, Found
<1>5. WritesDeclaredTypes'
  BY <1>1, <1>2, <1>4 DEF Waited, WritesDeclaredTypes
<1>6. Waited'
  BY <1>1, <1>2, <1>4, <1>5 DEF Waited, Blocks
<1> QED BY <1>3, <1>4, <1>6 DEF AcpiInv

LEMMA NextInv == AcpiInv /\ [AcpiNext]_acpiVars => AcpiInv'
<1>1. ASSUME AcpiInv, UNCHANGED acpiVars PROVE AcpiInv'
  BY <1>1 DEF acpiVars, AcpiInv, AcpiType, Memory, NotFound, Searching, Untouched, Found,
     Waited, WritesDeclaredTypes, FirstPointer, FirstTable, NoPointer, NoTable, FACP
<1> QED BY <1>1, SearchKeepsInv, TablesKeepInv, HandshakeKeepsInv, WritesKeepInv,
           FirmwareKeepsInv DEF AcpiNext, initAcpi, acpiPowerOff

----------------------------------------------------------------------------
(* The theorems *)

LEMMA Invariance == AcpiSpec => []AcpiInv
BY InitInv, NextInv, PTL DEF AcpiSpec

\* The ranges of the counters and of the values to write, beside AcpiInv.
RangeInv ==
  /\ Len(entries) <= MAX_ENTRIES
  /\ entrys \in -2 .. MAX_ENTRIES
  /\ facp = 0 => SLP_TYP = [b \in Blocks |-> 0]

LEMMA InitRange == AcpiInit => RangeInv
<1> SUFFICES ASSUME AcpiInit PROVE RangeInv
  OBVIOUS
<1>1. PICK n \in 0 .. MAX_ENTRIES : entries \in [1 .. n -> Tables]
  BY DEF AcpiInit
<1>2. Len(entries) = n
  BY <1>1, AcpiAssumption
<1> QED BY <1>2, AcpiAssumption DEF AcpiInit, RangeInv

LEMMA NextRange == AcpiInv /\ RangeInv /\ [AcpiNext]_acpiVars => RangeInv'
<1> SUFFICES ASSUME AcpiInv, RangeInv, [AcpiNext]_acpiVars PROVE RangeInv'
  OBVIOUS
<1>1. /\ entries' = entries /\ Len(entries) \in Nat /\ MAX_ENTRIES \in Nat
      /\ Len(entries) <= MAX_ENTRIES /\ ptr \in Nat
  <2>1. entries' = entries
    BY DEF AcpiNext, acpiVars, initAcpi, NextPlace, NoAcpi, FoundRoot, OtherTable, NoFacp,
       TakeTable, acpiPowerOff, CheckEnabled, WaitA, WaitB, Poll, Goto, WriteA, WriteB,
       WriteBlock, FirmwareEnables, memory
  <2> QED BY <2>1, AcpiAssumption DEF RangeInv, AcpiInv, AcpiType, Memory
<1>2. CASE OtherTable
  BY <1>1, <1>2 DEF OtherTable, RangeInv, globals
<1>3. CASE TakeTable
  <2>1. entrys' = -2 /\ facp' = ptr /\ ptr # 0
    BY <1>1, <1>3 DEF TakeTable, AcpiInv, AcpiType
  <2> QED BY <2>1, <1>1 DEF RangeInv
<1>4. CASE FoundRoot
  <2>1. entrys' = Len(entries) /\ UNCHANGED <<facp, SLP_TYP>>
    BY <1>4 DEF FoundRoot, globals
  <2> QED BY <2>1, <1>1 DEF RangeInv
<1>5. CASE ~(OtherTable \/ TakeTable \/ FoundRoot)
  <2>1. UNCHANGED <<entrys, facp, SLP_TYP>>
    BY <1>5 DEF AcpiNext, acpiVars, initAcpi, NextPlace, NoAcpi, NoFacp,
       acpiPowerOff, CheckEnabled, WaitA, WaitB, Poll, Goto, WriteA, WriteB,
       WriteBlock, FirmwareEnables, counters, globals
  <2> QED BY <2>1, <1>1 DEF RangeInv
<1> QED BY <1>2, <1>3, <1>4, <1>5

(***************************************************************************)
(* Every counter stays in its range, and what is written to a register is  *)
(* a sleep type with the enable bit and nothing else (acpi.c:174-271).     *)
(***************************************************************************)
THEOREM PowerOffKeepsTypes == AcpiSpec => []AcpiTypeOK
<1>1. ASSUME AcpiInv, RangeInv PROVE AcpiTypeOK
  <2>1. /\ AcpiType /\ entrys \in -2 .. MAX_ENTRIES
        /\ ptr \in 1 .. MAX_ENTRIES + 1 /\ Len(entries) \in Nat
    BY <1>1, AcpiAssumption DEF AcpiInv, AcpiType, Memory, RangeInv
  <2>2. CASE NotFound /\ Untouched
    <3>1. facp \in 0 .. Len(entries) /\ SLP_TYP \in [Blocks -> 0 .. 7 * 1024]
      <4>1. facp = 0 /\ SLP_TYP = [b \in Blocks |-> 0]
        BY <2>2, <1>1 DEF NotFound, RangeInv
      <4>2. 0 \in 0 .. 7 * 1024
        OBVIOUS
      <4> QED BY <4>1, <4>2, <2>1
    <3>2. written \in [Blocks -> {Unwritten} \union (SLP_EN .. SLP_EN + 7 * 1024)]
      <4>1. written \in [Blocks -> Int] /\ \A b \in Blocks : written[b] = Unwritten
        BY <2>1, <2>2 DEF Untouched, AcpiType
      <4> QED BY <4>1
    <3> QED BY <2>1, <3>1, <3>2 DEF AcpiTypeOK, AcpiType
  <2>3. CASE Found /\ Waited
    <3>1. facp \in 1 .. Len(entries) /\ FACP.pkg \in Packages
      BY <2>1, <2>3, TableFields DEF Found, FirstTable, FACP, AcpiType
    <3>2. FACP.pkg.a \in 0 .. 7 /\ FACP.pkg.b \in 0 .. 7
      BY <3>1, AcpiAssumption
    <3>3. SLP_TYP \in [Blocks -> 0 .. 7 * 1024]
      <4> DEFINE A == FACP.pkg.a  B == FACP.pkg.b
      <4>1. A * 1024 \in 0 .. 7 * 1024 /\ B * 1024 \in 0 .. 7 * 1024
        <5>1. A \in 0 .. 7 /\ B \in 0 .. 7
          BY <3>2
        <5>2. \A n \in 0 .. 7 : n * 1024 \in 0 .. 7 * 1024
          OBVIOUS
        <5> HIDE DEF A, B
        <5> QED BY <5>1, <5>2
      <4>2. SLP_TYP = [a |-> A * 1024, b |-> B * 1024]
        BY <2>3 DEF Found
      <4> HIDE DEF A, B
      <4> DEFINE Scaled == 0 .. 7 * 1024
      <4>3. A * 1024 \in Scaled /\ B * 1024 \in Scaled
        BY <4>1
      <4> HIDE DEF Scaled
      <4>4. SLP_TYP \in [Blocks -> Scaled]
        BY <4>2, <4>3 DEF Blocks
      <4> QED BY <4>4 DEF Scaled
    <3>4. ASSUME NEW b \in Blocks, written[b] # Unwritten
          PROVE  written[b] \in SLP_EN .. SLP_EN + 7 * 1024
      <4>1. written[b] = SLP_EN + 1024 * FACP.pkg[b]
        BY <2>3, <3>4 DEF Waited, WritesDeclaredTypes
      <4>2. PICK n \in 0 .. 7 : FACP.pkg[b] = n
        <5>1. b = "a" \/ b = "b"
          BY DEF Blocks
        <5> QED BY <5>1, <3>2
      <4>3. written[b] = SLP_EN + 1024 * n
        BY <4>1, <4>2
      <4> QED BY <4>3 DEF SLP_EN
    <3>5. written \in [Blocks -> {Unwritten} \union (SLP_EN .. SLP_EN + 7 * 1024)]
      BY <3>4, <2>1 DEF AcpiType
    <3>6. facp \in 0 .. Len(entries)
      BY <3>1, <2>1
    <3> QED BY <2>1, <3>3, <3>5, <3>6 DEF AcpiTypeOK, AcpiType
  <2> QED BY <2>2, <2>3, <1>1 DEF AcpiInv
<1> QED BY <1>1, InitInv, NextInv, InitRange, NextRange, PTL DEF AcpiSpec

(***************************************************************************)
(* For every content of the BIOS area and of the tables, the values used   *)
(* come from the first FACP under the first pointer, or none is used       *)
(* (acpi.c:82-109, 174-254).                                               *)
(***************************************************************************)
THEOREM FirstTableIsTaken == AcpiSpec => []TakesFirstTable
<1>1. ReferenceTable =
        IF /\ PointerAt # 0 /\ TableAt # 0
           /\ places[PointerAt] = "root" /\ entries[TableAt].kind = "S5"
        THEN TableAt ELSE 0
  BY DEF ReferenceTable, PointerAt, TableAt
<1>2. ASSUME AcpiInv, Found PROVE facp = ReferenceTable
  <2>1. PICK n \in 1 .. PLACES : FirstPointer(n) /\ places[n] = "root"
    BY <1>2 DEF Found
  <2>2. PointerAt = n /\ TableAt = facp /\ n # 0 /\ facp # 0 /\ entries[facp].kind = "S5"
    BY <2>1, <1>2, PointerFound, TableFound DEF AcpiInv, AcpiType, Found, FirstTable, FACP
  <2> QED BY <1>1, <2>1, <2>2
<1>3. ASSUME AcpiInv, NotFound, ~Searching PROVE facp = ReferenceTable
  <2>1. facp = 0 /\ Memory
    BY <1>3 DEF NotFound, AcpiInv, AcpiType
  <2>2. CASE NoPointer
    BY <2>1, <2>2, <1>1, NoPointerFound
  <2>3. CASE \E n \in 1 .. PLACES : FirstPointer(n) /\ places[n] # "root"
    BY <2>1, <2>3, <1>1, PointerFound
  <2>4. CASE NoTable
    BY <2>1, <2>4, <1>1, NoTableFound
  <2>5. CASE \E n \in 1 .. Len(entries) : FirstTable(n) /\ entries[n].kind # "S5"
    BY <2>1, <2>5, <1>1, TableFound
  <2> QED BY <2>2, <2>3, <2>4, <2>5, <1>3 DEF NotFound
<1>4. AcpiInv => TakesFirstTable
  BY <1>2, <1>3 DEF AcpiInv, TakesFirstTable, Searching
<1> QED BY <1>4, Invariance, PTL

(***************************************************************************)
(* Only the sleep types that the package declares are written, in every    *)
(* encoding, to the blocks that exist and in their order                   *)
(* (acpi.c:208-220, 266-268).                                              *)
(***************************************************************************)
THEOREM DeclaredTypesAreWritten == AcpiSpec => []WritesDeclaredTypes
<1>1. AcpiInv => WritesDeclaredTypes
  BY DEF AcpiInv, Untouched, Waited, WritesDeclaredTypes
<1> QED BY <1>1, Invariance, PTL

(***************************************************************************)
(* After the enable command was sent the machine is put to sleep only with *)
(* every control block enabled, whenever the firmware answers              *)
(* (acpi.c:137-157, 263).                                                  *)
(***************************************************************************)
THEOREM SleepsEnabled == AcpiSpec => []SleepsOnlyEnabled
<1>1. AcpiInv => SleepsOnlyEnabled
  BY DEF AcpiInv, AcpiType, NotFound, Found, Searching, Waited, SleepsOnlyEnabled
<1> QED BY <1>1, Invariance, PTL
=============================================================================
