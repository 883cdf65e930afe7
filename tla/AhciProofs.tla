----------------------------- MODULE AhciProofs -----------------------------
(***************************************************************************)
(* Proofs about the AHCI driver, for any number of slots and any limit of  *)
(* the polling loop.  The invariant says what the driver knows at each     *)
(* point of port_rebase and read, whatever the HBA does in between.        *)
(***************************************************************************)
EXTENDS Ahci, TLAPS

LEMMA TypeAssumption ==
  CMD_SLOTS \in Nat \ {0} /\ SPIN_LIMIT \in Nat \ {0}
BY AhciAssumption

(***************************************************************************)
(* What port_rebase knows.  A port whose ST is off has no commands; past   *)
(* each of its waits the driver knows one more bit to be clear, and the    *)
(* HBA does not set it again.                                              *)
(***************************************************************************)
EngineInv ==
  /\ ~cmd.ST => ci = {} /\ sact = {}
  /\ pc \in RebasePoints \ {"clearST"} => ~cmd.ST
  /\ pc \in {"waitFR", "waitCR", "setCLB", "setFB", "setTables"} => ~cmd.FRE
  /\ pc \in {"waitCR", "setCLB", "setFB", "setTables"} => ~cmd.FR
  /\ pc \in {"setCLB", "setFB", "setTables"} => ~cmd.CR

\* A read goes on past find_cmdslot only on a port that is switched on.
SlotInv ==
  /\ pc = "readCI" => sact \subseteq slots /\ (~cmd.ST => slots = {})
  /\ pc \in {"build", "spin", "issue", "waitCI", "waitIS", "recheck"} => cmd.ST
  /\ SlotIsFree

Waiting == {"waitCI", "waitIS"}

\* What a read knows of its command.
FateInv ==
  /\ pc \in ReadPoints => outcome = "running"
  /\ pc \in Waiting => fate \in {"pending", "ok", "failed"}
  /\ pc \in Waiting /\ fate = "pending" => slot \in ci
  /\ pc = "recheck" => fate \in {"ok", "failed"}
  /\ pc \in Waiting \union {"recheck"} /\ fate = "failed" => tfes
  /\ TrueMeansDone

AhciInv == AhciTypeOK /\ EngineInv /\ SlotInv /\ FateInv

USE DEF Slots, NoSlot, Goto, hba, locals, driver, Return

(***************************************************************************)
(* find_cmdslot returns a slot that is not taken, or none, and none at all *)
(* on an idle port (disk.c:254-266).                                       *)
(***************************************************************************)
LEMMA FindCmdslot ==
  ASSUME NEW S \in SUBSET Slots
  PROVE  /\ find_cmdslot(S) \in (Slots \ S) \union {NoSlot}
         /\ S = {} => find_cmdslot(S) = NoSlot
<1> DEFINE hit == {i \in Slots : /\ i \notin S
                                 /\ \A j \in 0 .. i : GoesOn(S, j)
                                 /\ \A j \in 0 .. i - 1 : j \in S}
<1>1. find_cmdslot(S) = IF hit = {} THEN NoSlot ELSE CHOOSE i \in hit : TRUE
  BY DEF find_cmdslot
<1>2. hit \subseteq Slots \ S
  OBVIOUS
<1>3. hit # {} => (CHOOSE i \in hit : TRUE) \in hit
  OBVIOUS
<1>4. S = {} => hit = {}
  <2>1. ASSUME S = {}, NEW i \in hit PROVE FALSE
    <3>1. i \in 0 .. CMD_SLOTS - 1 /\ \A j \in 0 .. i : GoesOn(S, j)
      OBVIOUS
    <3>2. 0 \in 0 .. i
      BY <3>1, TypeAssumption
    <3>3. GoesOn(S, 0)
      BY <3>1, <3>2
    <3> QED BY <2>1, <3>3 DEF GoesOn
  <2> QED BY <2>1
<1> HIDE DEF hit
<1> QED BY <1>1, <1>2, <1>3, <1>4

\* A table that is written has one of its two contents again.
LEMMA RewriteType ==
  ASSUME tables \in [Slots -> {0, 1}], NEW S, Rewrite(S)
  PROVE  /\ tables' \in [Slots -> {0, 1}]
         /\ \A s \in Slots \ S : tables'[s] = tables[s]
BY DEF Rewrite

LEMMA AhciInitInv == AhciInit => AhciInv
<1> SUFFICES ASSUME AhciInit PROVE AhciInv
  OBVIOUS
<1> USE TypeAssumption DEF AhciInit
<1>1. PICK on \in BOOLEAN :
         /\ cmd = [ST |-> on, FRE |-> on, FR |-> on, CR |-> on]
         /\ IF on THEN ci \in SUBSET Slots /\ sact \in SUBSET Slots
            ELSE ci = {} /\ sact = {}
  OBVIOUS
<1>2. AhciTypeOK
  <2>1. busy \in BOOLEAN /\ tfes \in BOOLEAN /\ halted \in BOOLEAN
    BY Zenon
  <2>2. cmd \in [ST : BOOLEAN, FRE : BOOLEAN, FR : BOOLEAN, CR : BOOLEAN]
    BY <1>1
  <2>3. ci \subseteq Slots /\ sact \subseteq Slots
    BY <1>1
  <2> HIDE DEF AhciInit
  <2>4. base \in [Pointers -> {"firmware", "driver"}]
    BY DEF AhciInit
  <2>5. /\ slots \subseteq Slots
        /\ pc \in {"idle"} \union RebasePoints \union ReadPoints
        /\ slot \in Slots \union {NoSlot}
        /\ spin \in 0 .. SPIN_LIMIT
        /\ outcome \in {"none", "running", "noslot", "hung", "error", "true"}
        /\ fate \in {"none", "pending", "ok", "failed"}
        /\ tables \in [Slots -> {0, 1}] /\ count \in Nat
    BY DEF AhciInit
  <2> QED BY <2>1, <2>2, <2>3, <2>4, <2>5 DEF AhciTypeOK
<1>3. EngineInv
  BY <1>1 DEF EngineInv, RebasePoints
<1>4. SlotInv
  BY DEF SlotInv, SlotIsFree
<1>5. FateInv
  BY DEF FateInv, Waiting, ReadPoints, TrueMeansDone
<1> QED BY <1>2, <1>3, <1>4, <1>5 DEF AhciInv

\* A step of port_rebase.
LEMMA RebaseKeepsInv ==
  ASSUME AhciInv, port_rebase \/ RebaseStep PROVE AhciInv'
<1> USE TypeAssumption DEF AhciInv, AhciTypeOK, EngineInv, SlotInv, SlotIsFree, FateInv,
      Waiting, TrueMeansDone, RebasePoints, ReadPoints
<1>1. CASE port_rebase
  BY <1>1 DEF port_rebase
<1>2. CASE ClearST
  <2>1. halted' \in BOOLEAN
    <3>1. CASE cmd.ST
      BY <1>2, <3>1, Zenon DEF ClearST
    <3>2. CASE ~cmd.ST
      BY <1>2, <3>2 DEF ClearST
    <3> QED BY <3>1, <3>2
  <2>2. ci' = {} /\ sact' = {}
    BY <1>2 DEF ClearST
  <2>3. /\ pc = "clearST" /\ pc' = "clearFRE"
        /\ cmd' = [cmd EXCEPT !.ST = FALSE]
        /\ UNCHANGED <<busy, tfes, base, tables, locals, outcome, fate>>
    BY <1>2 DEF ClearST
  <2>4. AhciTypeOK'
    BY <2>1, <2>2, <2>3
  <2>5. EngineInv' /\ SlotInv' /\ FateInv'
    BY <2>2, <2>3
  <2> HIDE DEF AhciTypeOK, EngineInv, SlotInv, FateInv
  <2> QED BY <2>4, <2>5
<1>3. CASE ClearFRE
  <2>1. AhciTypeOK'
    BY <1>3 DEF ClearFRE
  <2>2. EngineInv'
    BY <1>3 DEF ClearFRE
  <2>3. SlotInv' /\ FateInv'
    BY <1>3 DEF ClearFRE
  <2> HIDE DEF AhciTypeOK, EngineInv, SlotInv, FateInv
  <2> QED BY <2>1, <2>2, <2>3
<1>4. CASE WaitFR
  BY <1>4 DEF WaitFR
<1>5. CASE WaitCR
  BY <1>5 DEF WaitCR
<1>6. CASE SetCLB
  BY <1>6 DEF SetCLB, Rebase, Pointers
<1>7. CASE SetFB
  BY <1>7 DEF SetFB, Rebase, Pointers
<1>8. CASE SetTables
  <2>1. tables' \in [Slots -> {0, 1}]
    BY <1>8, RewriteType DEF SetTables
  <2>2. AhciTypeOK'
    BY <1>8, <2>1 DEF SetTables, Rebase, Pointers
  <2>3. EngineInv' /\ SlotInv' /\ FateInv'
    BY <1>8 DEF SetTables, Rebase, Pointers
  <2> HIDE DEF AhciTypeOK, EngineInv, SlotInv, FateInv
  <2> QED BY <2>2, <2>3
<1>9. CASE WaitStart
  <2>1. AhciTypeOK'
    BY <1>9 DEF WaitStart
  <2>2. EngineInv'
    BY <1>9 DEF WaitStart
  <2>3. SlotInv' /\ FateInv'
    BY <1>9 DEF WaitStart
  <2> HIDE DEF AhciTypeOK, EngineInv, SlotInv, FateInv
  <2> QED BY <2>1, <2>2, <2>3
<1>10. CASE SetFRE
  <2>1. AhciTypeOK'
    BY <1>10 DEF SetFRE
  <2>2. EngineInv'
    BY <1>10 DEF SetFRE
  <2>3. SlotInv' /\ FateInv'
    BY <1>10 DEF SetFRE
  <2> HIDE DEF AhciTypeOK, EngineInv, SlotInv, FateInv
  <2> QED BY <2>1, <2>2, <2>3
<1>11. CASE SetST
  <2>1. AhciTypeOK'
    BY <1>11 DEF SetST
  <2>2. EngineInv'
    BY <1>11 DEF SetST
  <2>3. SlotInv' /\ FateInv'
    BY <1>11 DEF SetST
  <2> HIDE DEF AhciTypeOK, EngineInv, SlotInv, FateInv
  <2> QED BY <2>1, <2>2, <2>3
<1> QED BY <1>1, <1>2, <1>3, <1>4, <1>5, <1>6, <1>7, <1>8, <1>9, <1>10, <1>11
        DEF RebaseStep, Stop, Start

\* A step of read.
LEMMA ReadKeepsInv ==
  ASSUME AhciInv, read \/ ReadStep PROVE AhciInv'
<1> USE TypeAssumption DEF AhciInv, AhciTypeOK, EngineInv, SlotInv, SlotIsFree, FateInv,
      Waiting, TrueMeansDone, RebasePoints, ReadPoints
<1>1. CASE read
  <2>1. tfes' \in BOOLEAN
    BY <1>1, Zenon DEF read
  <2>2. count' \in Nat
    BY <1>1, TableAssumption DEF read
  <2> QED BY <1>1, <2>1, <2>2 DEF read
<1>2. CASE ReadSACT
  BY <1>2 DEF ReadSACT
<1>3. CASE ReadCI
  <2>1. slots' \in SUBSET Slots /\ slots' = slots \union ci
    BY <1>3 DEF ReadCI
  <2>2. /\ slot' \in (Slots \ slots') \union {NoSlot}
        /\ slots' = {} => slot' = NoSlot
    BY <1>3, <2>1, FindCmdslot DEF ReadCI
  <2> QED BY <1>3, <2>1, <2>2 DEF ReadCI
<1>4. CASE Build
  <2>1. tables' \in [Slots -> {0, 1}]
    BY <1>4, RewriteType DEF Build
  <2>2. pc = "build" /\ pc' = "spin" /\ UNCHANGED <<hba, base, locals, outcome, fate>>
    BY <1>4 DEF Build
  <2> QED BY <2>1, <2>2
<1>5. CASE SpinWait
  BY <1>5 DEF SpinWait
<1>6. CASE SpinEnd
  BY <1>6 DEF SpinEnd
<1>7. CASE Issue
  BY <1>7 DEF Issue
<1>8. CASE WaitCI
  BY <1>8 DEF WaitCI
<1>9. CASE WaitIS
  BY <1>9 DEF WaitIS
<1>10. CASE Recheck
  BY <1>10 DEF Recheck
<1> QED BY <1>1, <1>2, <1>3, <1>4, <1>5, <1>6, <1>7, <1>8, <1>9, <1>10 DEF ReadStep

\* A step of the HBA.
LEMMA HbaKeepsInv ==
  ASSUME AhciInv, HbaStep PROVE AhciInv'
<1> USE TypeAssumption DEF AhciInv, AhciTypeOK, EngineInv, SlotInv, SlotIsFree, FateInv,
      Waiting, TrueMeansDone, RebasePoints, ReadPoints
<1>1. CASE FollowFRE
  BY <1>1 DEF FollowFRE
<1>2. CASE FollowST
  BY <1>2 DEF FollowST
<1>3. CASE ChangeBusy
  BY <1>3 DEF ChangeBusy
<1>4. ASSUME NEW s \in Slots, Complete(s) PROVE AhciInv'
  BY <1>4 DEF Complete, Running, Settle
<1>5. ASSUME NEW s \in Slots, CompleteQueued(s) PROVE AhciInv'
  BY <1>5 DEF CompleteQueued, Running
<1>6. ASSUME NEW s \in Slots, Fail(s) PROVE AhciInv'
  BY <1>6 DEF Fail, Running, Settle
<1> QED BY <1>1, <1>2, <1>3, <1>4, <1>5, <1>6 DEF HbaStep

LEMMA AhciNextInv == AhciInv /\ [AhciNext]_ahciVars => AhciInv'
<1>1. ASSUME AhciInv, UNCHANGED ahciVars PROVE AhciInv'
  BY <1>1 DEF ahciVars, AhciInv, AhciTypeOK, EngineInv, SlotInv, SlotIsFree, FateInv,
     TrueMeansDone
<1> QED BY <1>1, RebaseKeepsInv, ReadKeepsInv, HbaKeepsInv DEF AhciNext

LEMMA AhciInvariance == AhciSpec => []AhciInv
BY AhciInitInv, AhciNextInv, PTL DEF AhciSpec

(***************************************************************************)
(* In every interleaving of the driver with the HBA, the slot that a read  *)
(* chose stays free until its command is issued (disk.c:168, 227,          *)
(* 254-266).                                                               *)
(***************************************************************************)
THEOREM ChosenSlotStaysFree == AhciSpec => []SlotIsFree
<1>1. AhciInv => SlotIsFree
  BY DEF AhciInv, SlotInv
<1> QED BY <1>1, AhciInvariance, PTL

(***************************************************************************)
(* In every interleaving of the driver with the HBA, a read that returns   *)
(* true had its command completed without an error (disk.c:230-250).       *)
(***************************************************************************)
THEOREM ReadIsSafe == AhciSpec => [](AhciTypeOK /\ TrueMeansDone)
<1>1. AhciInv => AhciTypeOK /\ TrueMeansDone
  BY DEF AhciInv, FateInv
<1> QED BY <1>1, AhciInvariance, PTL

LEMMA RebaseStepStopped ==
  ASSUME AhciInv, [AhciNext]_ahciVars
  PROVE  [base' # base => ~cmd.FR /\ ~cmd.CR /\ ci = {}]_ahciVars
<1>1. CASE SetCLB \/ SetFB \/ SetTables
  BY <1>1 DEF SetCLB, SetFB, SetTables, Rebase, AhciInv, EngineInv, RebasePoints
<1>2. CASE ~(SetCLB \/ SetFB \/ SetTables)
  <2>1. base' = base
    BY <1>2 DEF AhciNext, ahciVars, port_rebase, RebaseStep, Stop, Start, ClearST,
       ClearFRE, WaitFR, WaitCR, WaitStart, SetFRE, SetST, read, ReadStep, ReadSACT,
       ReadCI, Build, SpinWait, SpinEnd, Issue, WaitCI, WaitIS, Recheck, HbaStep,
       FollowFRE, FollowST, ChangeBusy, Complete, CompleteQueued, Fail
  <2> QED BY <2>1
<1> QED BY <1>1, <1>2

(***************************************************************************)
(* port_rebase moves the memory of the HBA only while both engines stand   *)
(* still and no command is outstanding (disk.c:92-157).                    *)
(***************************************************************************)
THEOREM RebaseIsSafe == AhciSpec => RebaseOnlyWhenStopped
BY AhciInitInv, AhciNextInv, RebaseStepStopped, PTL DEF AhciSpec, RebaseOnlyWhenStopped

(***************************************************************************)
(* A read whose entries fit its command table writes to no other           *)
(* (disk.c:179-196).                                                       *)
(***************************************************************************)
LEMMA WrittenFits ==
  ASSUME NEW s \in Slots, NEW n \in Nat, n <= ENTRIES
  PROVE  Written(s, n) = {s}
<1> DEFINE size == HEADER + ENTRIES
           used == HEADER + (IF n < 2 THEN 2 ELSE n)
<1>1. /\ HEADER \in Nat /\ ENTRIES \in Nat /\ HEADER > 0 /\ ENTRIES >= 2
      /\ CMD_SLOTS \in Nat
  BY TableAssumption, TypeAssumption
<1>2. size \in Nat /\ used \in Nat /\ 0 < used /\ used <= size
  BY <1>1
<1>3. ASSUME NEW t \in Slots PROVE (t >= s /\ (t - s) * size < used) <=> t = s
  <2>1. t \in Int /\ s \in Int
    BY <1>1
  <2> HIDE DEF size, used
  <2>2. CASE t = s
    BY <2>1, <2>2, <1>2
  <2>3. CASE t < s
    BY <2>1, <2>3
  <2>4. CASE t > s
    <3>1. t - s \in Nat /\ t - s >= 1
      BY <2>1, <2>4
    <3>2. ASSUME NEW k \in Nat, k >= 1 PROVE k * size >= size
      <4>1. k = 1 + (k - 1) /\ k - 1 \in Nat
        BY <3>2
      <4>2. k * size = size + (k - 1) * size
        BY <4>1, <1>2
      <4>3. (k - 1) * size >= 0
        BY <4>1, <1>2
      <4> QED BY <4>2, <4>3, <4>1, <1>2
    <3>3. (t - s) * size >= size /\ (t - s) * size \in Int
      BY <3>1, <3>2, <1>2
    <3> QED BY <3>3, <1>2, <2>4, <2>1
  <2> QED BY <2>1, <2>2, <2>3, <2>4
<1>4. Written(s, n) = {t \in Slots : t >= s /\ (t - s) * size < used}
  BY DEF Written
<1> QED BY <1>3, <1>4

LEMMA EntriesNat == ASSUME NEW n \in Nat PROVE prdtl(n) \in Nat
<1>1. COUNT_T \in Nat \ {0} /\ SECTORS \in Nat \ {0} /\ ENTRY_T \in Nat \ {0}
  BY TableAssumption
<1>2. (n - 1) % COUNT_T \in Nat
  BY <1>1
<1>3. ((n - 1) % COUNT_T) \div SECTORS \in Nat
  BY <1>1, <1>2
<1>4. ((((n - 1) % COUNT_T) \div SECTORS) % ENTRY_T) + 1 \in Nat
  BY <1>1, <1>3
<1> QED BY <1>1, <1>4 DEF prdtl

LEMMA StepKeepsCommands ==
  ASSUME AhciInv, [AhciNext]_ahciVars
  PROVE  [(pc = "build" => prdtl(count) <= ENTRIES)
            => \A s \in ci \union sact : tables'[s] = tables[s]]_ahciVars
<1> SUFFICES ASSUME pc = "build" => prdtl(count) <= ENTRIES,
                    NEW s \in ci \union sact
             PROVE  tables'[s] = tables[s]
  OBVIOUS
<1>1. /\ tables \in [Slots -> {0, 1}] /\ count \in Nat
      /\ ci \subseteq Slots /\ sact \subseteq Slots /\ s \in Slots
  BY DEF AhciInv, AhciTypeOK
<1>2. CASE SetTables
  <2>1. ci = {} /\ sact = {}
    BY <1>2 DEF SetTables, Rebase, AhciInv, EngineInv, RebasePoints
  <2> QED BY <2>1
<1>3. CASE Build
  <2>1. slot \in Slots \ (ci \union sact) /\ prdtl(count) \in Nat /\ prdtl(count) <= ENTRIES
    BY <1>1, <1>3, EntriesNat DEF Build, AhciInv, SlotInv, SlotIsFree
  <2>2. Written(slot, prdtl(count)) = {slot}
    BY <2>1, WrittenFits
  <2>3. Rewrite({slot})
    BY <1>3, <2>2 DEF Build
  <2> QED BY <1>1, <2>1, <2>3, RewriteType
<1>4. CASE ~SetTables /\ ~Build
  <2>1. tables' = tables
    BY <1>4 DEF AhciNext, ahciVars, port_rebase, RebaseStep, Stop, Start, ClearST,
       ClearFRE, WaitFR, WaitCR, SetCLB, SetFB, WaitStart, SetFRE, SetST, read, ReadStep,
       ReadSACT, ReadCI, SpinWait, SpinEnd, Issue, WaitCI, WaitIS, Recheck, HbaStep,
       FollowFRE, FollowST, ChangeBusy, Complete, CompleteQueued, Fail
  <2> QED BY <2>1
<1> QED BY <1>2, <1>3, <1>4

(***************************************************************************)
(* In every interleaving with the HBA, what it reads for an outstanding    *)
(* command is not written to, as long as a read's entries fit its table    *)
(* (disk.c:110-121, 172-196).                                              *)
(***************************************************************************)
THEOREM CommandsAreKept == AhciSpec => CommandsKept
BY AhciInitInv, AhciNextInv, StepKeepsCommands, PTL DEF AhciSpec, CommandsKept
=============================================================================
