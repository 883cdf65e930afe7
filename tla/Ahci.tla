-------------------------------- MODULE Ahci --------------------------------
(***************************************************************************)
(* The AHCI port of disk.c: port_rebase (with stop_cmd and start_cmd) and  *)
(* read (with find_cmdslot), one step per access to a register of the      *)
(* port, interleaved with the steps of the host bus adapter (HBA), which   *)
(* changes the same registers on its own.                                  *)
(*                                                                         *)
(* The driver runs in one thread; nothing but these two functions touches  *)
(* the port.  The HBA is outside the repository: its steps are the ones    *)
(* the driver waits for or tests for.                                      *)
(***************************************************************************)
EXTENDS Integers

CONSTANTS
  CMD_SLOTS,          \* command slots of the port, 32 in the code
  SPIN_LIMIT,         \* 1000000 in the code
  HEADER, ENTRIES,    \* a command table in units of its entries: 8 in front of 8 entries
  SECTORS,            \* sectors of an entry, 16 in the code
  COUNT_T, ENTRY_T,   \* a uint32_t and a uint16_t count modulo these
  Counts              \* sectors that callers ask for

ASSUME AhciAssumption ==
  /\ CMD_SLOTS \in Nat \ {0}
  /\ SPIN_LIMIT \in Nat \ {0}

ASSUME TableAssumption ==
  /\ HEADER \in Nat \ {0} /\ ENTRIES \in Nat \ {0, 1}
  /\ SECTORS \in Nat \ {0} /\ COUNT_T \in Nat \ {0} /\ ENTRY_T \in Nat \ {0}
  /\ Counts \subseteq 0 .. COUNT_T - 1

Slots == 0 .. CMD_SLOTS - 1
NoSlot == -1

VARIABLES
  cmd,        \* the bits ST, FRE (the driver's) and FR, CR (the HBA's) of PxCMD
  ci, sact,   \* PxCI and PxSACT, as sets of slots
  busy,       \* PxTFD has BSY or DRQ
  tfes,       \* PxIS has the task file error
  halted,     \* the HBA met an error and waits for ST to be cleared
  base,       \* who set each pointer: the command list, the FIS area, the tables
  tables,     \* what the command table of each slot holds, one of two contents
  pc,         \* where the driver is
  slots,      \* the local slots of find_cmdslot
  count,      \* the argument count of read
  slot,       \* the local slot of read
  spin,       \* the local spin of read
  outcome,    \* what the last read returned
  fate        \* what became of the last command the driver issued

hba == <<cmd, ci, sact, busy, tfes, halted>>
locals == <<slots, count, slot, spin>>
ahciVars == <<cmd, ci, sact, busy, tfes, halted, base, tables, pc, slots, count, slot,
              spin, outcome, fate>>

RebasePoints == {"clearST", "clearFRE", "waitFR", "waitCR", "setCLB", "setFB",
                 "setTables", "waitStart", "setFRE", "setST"}
ReadPoints == {"readSACT", "readCI", "build", "spin", "issue", "waitCI",
               "waitIS", "recheck"}
Pointers == {"clb", "fb", "ctba"}

(***************************************************************************)
(* The firmware leaves the port stopped, or running with some of its       *)
(* commands outstanding.                                                   *)
(***************************************************************************)
AhciInit ==
  /\ \E on \in BOOLEAN :
       /\ cmd = [ST |-> on, FRE |-> on, FR |-> on, CR |-> on]
       /\ IF on THEN ci \in SUBSET Slots /\ sact \in SUBSET Slots
          ELSE ci = {} /\ sact = {}
  /\ busy = FALSE /\ tfes = FALSE /\ halted = FALSE
  /\ base = [p \in Pointers |-> "firmware"]
  /\ tables = [s \in Slots |-> 0]
  /\ pc = "idle"
  /\ slots = {} /\ count = 0 /\ slot = NoSlot /\ spin = 0
  /\ outcome = "none" /\ fate = "none"

Goto(from, to) == pc = from /\ pc' = to

----------------------------------------------------------------------------
(* port_rebase *)

port_rebase ==
  /\ Goto("idle", "clearST")
  /\ UNCHANGED <<hba, base, tables, locals, outcome, fate>>

\* stop_cmd.  A port whose ST goes off forgets its commands and its error.
ClearST ==
  /\ Goto("clearST", "clearFRE")
  /\ cmd' = [cmd EXCEPT !.ST = FALSE]
  /\ IF cmd.ST THEN ci' = {} /\ sact' = {} /\ halted' = FALSE
     ELSE UNCHANGED <<ci, sact, halted>>
  /\ UNCHANGED <<busy, tfes, base, tables, locals, outcome, fate>>

\* Variant: FRE is left on.
ClearFRENot ==
  /\ Goto("clearFRE", "waitFR")
  /\ UNCHANGED <<hba, base, tables, locals, outcome, fate>>

ClearFRE ==
  /\ Goto("clearFRE", "waitFR")
  /\ cmd' = [cmd EXCEPT !.FRE = FALSE]
  /\ UNCHANGED <<ci, sact, busy, tfes, halted, base, tables, locals, outcome, fate>>

\* The loop tests FR and then CR; either being set starts it again.
WaitFR ==
  /\ ~cmd.FR
  /\ Goto("waitFR", "waitCR")
  /\ UNCHANGED <<hba, base, tables, locals, outcome, fate>>

\* Variant: the wait is over when FR is clear.
WaitCRIgnored ==
  /\ Goto("waitCR", "setCLB")
  /\ UNCHANGED <<hba, base, tables, locals, outcome, fate>>

WaitCR ==
  /\ Goto("waitCR", IF cmd.CR THEN "waitFR" ELSE "setCLB")
  /\ UNCHANGED <<hba, base, tables, locals, outcome, fate>>

\* A table that is written holds something else afterwards.
Rewrite(S) == tables' = [s \in Slots |-> IF s \in S THEN 1 - tables[s] ELSE tables[s]]

\* The three areas are cleared and given to the HBA.
Rebase(from, p, to) ==
  /\ Goto(from, to)
  /\ base' = [base EXCEPT ![p] = "driver"]
  /\ UNCHANGED <<hba, locals, outcome, fate>>

SetCLB == Rebase("setCLB", "clb", "setFB") /\ UNCHANGED tables
SetFB == Rebase("setFB", "fb", "setTables") /\ UNCHANGED tables
SetTables == Rebase("setTables", "ctba", "waitStart") /\ Rewrite(Slots)

\* start_cmd
WaitStart ==
  /\ ~cmd.CR
  /\ Goto("waitStart", "setFRE")
  /\ UNCHANGED <<hba, base, tables, locals, outcome, fate>>

SetFRE ==
  /\ Goto("setFRE", "setST")
  /\ cmd' = [cmd EXCEPT !.FRE = TRUE]
  /\ UNCHANGED <<ci, sact, busy, tfes, halted, base, tables, locals, outcome, fate>>

SetST ==
  /\ Goto("setST", "idle")
  /\ cmd' = [cmd EXCEPT !.ST = TRUE]
  /\ UNCHANGED <<ci, sact, busy, tfes, halted, base, tables, locals, outcome, fate>>

Stop == ClearST \/ ClearFRE \/ WaitFR \/ WaitCR
Start == WaitStart \/ SetFRE \/ SetST
RebaseStep == Stop \/ SetCLB \/ SetFB \/ SetTables \/ Start

----------------------------------------------------------------------------
(* read *)

\* The value of a register.
Value(S) ==
  LET v[n \in 0 .. CMD_SLOTS] ==
        IF n = 0 THEN 0 ELSE v[n - 1] + (IF n - 1 \in S THEN 2^(n - 1) ELSE 0)
  IN v[CMD_SLOTS]

\* After i shifts to the right, more than i is left of the register.
GoesOn(S, i) == S # {} /\ i < Value(S) \div 2^i

\* The loop ends when i reaches what is left of the shifted register.
find_cmdslot(S) ==
  LET hit == {i \in Slots : /\ i \notin S
                            /\ \A j \in 0 .. i : GoesOn(S, j)
                            /\ \A j \in 0 .. i - 1 : j \in S}
  IN IF hit = {} THEN NoSlot ELSE CHOOSE i \in hit : TRUE

Return(value) == pc' = "idle" /\ outcome' = value

\* The call clears the interrupt status.
read ==
  /\ Goto("idle", "readSACT")
  /\ tfes' = FALSE
  /\ spin' = 0
  /\ outcome' = "running"
  /\ fate' = "none"
  /\ count' \in Counts
  /\ UNCHANGED <<cmd, ci, sact, busy, halted, base, tables, slots, slot>>

ReadSACT ==
  /\ Goto("readSACT", "readCI")
  /\ slots' = sact
  /\ UNCHANGED <<hba, base, tables, count, slot, spin, outcome, fate>>

\* Variant: the queued commands are forgotten.
ReadCIOnly ==
  /\ pc = "readCI"
  /\ slots' = ci
  /\ slot' = find_cmdslot(slots')
  /\ IF slot' = NoSlot THEN Return("noslot") ELSE pc' = "build" /\ UNCHANGED outcome
  /\ UNCHANGED <<hba, base, tables, count, spin, fate>>

ReadCI ==
  /\ pc = "readCI"
  /\ slots' = slots \union ci
  /\ slot' = find_cmdslot(slots')
  /\ IF slot' = NoSlot THEN Return("noslot") ELSE pc' = "build" /\ UNCHANGED outcome
  /\ UNCHANGED <<hba, base, tables, count, spin, fate>>

\* How many entries a read of n sectors needs, as the header has it.
prdtl(n) == (((((n - 1) % COUNT_T) \div SECTORS) % ENTRY_T) + 1) % ENTRY_T

\* Variant: room for one entry more is cleared.
WrittenOneMore(s, n) ==
  {t \in Slots : t >= s /\ (t - s) * (HEADER + ENTRIES) < HEADER + (IF n < 2 THEN 2 ELSE n) + 1}

\* The tables of which something is written when that of slot s gets n entries.
\* They lie one behind the other, which is taken of the firmware's tables too;
\* the entry at index 1 is always written.
Written(s, n) ==
  {t \in Slots : t >= s /\ (t - s) * (HEADER + ENTRIES) < HEADER + (IF n < 2 THEN 2 ELSE n)}

\* The command header, table and FIS of the slot are written.
Build ==
  /\ Goto("build", "spin")
  /\ Rewrite(Written(slot, prdtl(count)))
  /\ UNCHANGED <<hba, base, locals, outcome, fate>>

SpinWait ==
  /\ pc = "spin"
  /\ busy /\ spin < SPIN_LIMIT
  /\ spin' = spin + 1
  /\ UNCHANGED <<hba, base, tables, pc, slots, count, slot, outcome, fate>>

SpinEnd ==
  /\ pc = "spin"
  /\ ~busy \/ spin = SPIN_LIMIT
  /\ IF spin = SPIN_LIMIT THEN Return("hung") ELSE pc' = "issue" /\ UNCHANGED outcome
  /\ UNCHANGED <<hba, base, tables, locals, fate>>

Issue ==
  /\ Goto("issue", "waitCI")
  /\ ci' = ci \union {slot}
  /\ fate' = "pending"
  /\ UNCHANGED <<cmd, sact, busy, tfes, halted, base, tables, locals, outcome>>

WaitCI ==
  /\ Goto("waitCI", IF slot \in ci THEN "waitIS" ELSE "recheck")
  /\ UNCHANGED <<hba, base, tables, locals, outcome, fate>>

\* Variant: the wait is for the command bit alone.
WaitISIgnored ==
  /\ Goto("waitIS", "waitCI")
  /\ UNCHANGED <<hba, base, tables, locals, outcome, fate>>

WaitIS ==
  /\ pc = "waitIS"
  /\ IF tfes THEN Return("error") ELSE pc' = "waitCI" /\ UNCHANGED outcome
  /\ UNCHANGED <<hba, base, tables, locals, fate>>

\* Variant: no second look at the error.
RecheckDropped ==
  /\ pc = "recheck"
  /\ Return("true")
  /\ UNCHANGED <<hba, base, tables, locals, fate>>

Recheck ==
  /\ pc = "recheck"
  /\ Return(IF tfes THEN "error" ELSE "true")
  /\ UNCHANGED <<hba, base, tables, locals, fate>>

ReadStep ==
  ReadSACT \/ ReadCI \/ Build \/ SpinWait \/ SpinEnd \/ Issue \/ WaitCI
    \/ WaitIS \/ Recheck

----------------------------------------------------------------------------
(* The HBA.  Steps outside the repository. *)

driver == <<base, tables, pc, slots, count, slot, spin, outcome>>

\* FR follows FRE, and CR follows ST.
FollowFRE ==
  /\ cmd.FR # cmd.FRE
  /\ cmd' = [cmd EXCEPT !.FR = cmd.FRE]
  /\ UNCHANGED <<ci, sact, busy, tfes, halted, driver, fate>>

FollowST ==
  /\ cmd.CR # cmd.ST
  /\ cmd' = [cmd EXCEPT !.CR = cmd.ST]
  /\ UNCHANGED <<ci, sact, busy, tfes, halted, driver, fate>>

Running == cmd.ST /\ cmd.CR /\ ~halted

Settle(s, value) == fate' = IF fate = "pending" /\ s = slot THEN value ELSE fate

Complete(s) ==
  /\ Running /\ s \in ci
  /\ ci' = ci \ {s}
  /\ Settle(s, "ok")
  /\ UNCHANGED <<cmd, sact, busy, tfes, halted, driver>>

CompleteQueued(s) ==
  /\ Running /\ s \in sact \ ci
  /\ sact' = sact \ {s}
  /\ UNCHANGED <<cmd, ci, busy, tfes, halted, driver, fate>>

\* A command fails; its bit may stay set or be cleared.
Fail(s) ==
  /\ Running /\ s \in ci
  /\ tfes' = TRUE /\ halted' = TRUE
  /\ ci' \in {ci, ci \ {s}}
  /\ Settle(s, "failed")
  /\ UNCHANGED <<cmd, sact, busy, driver>>

ChangeBusy ==
  /\ busy' = ~busy
  /\ UNCHANGED <<cmd, ci, sact, tfes, halted, driver, fate>>

----------------------------------------------------------------------------
HbaStep == FollowFRE \/ FollowST \/ ChangeBusy
             \/ \E s \in Slots : Complete(s) \/ CompleteQueued(s) \/ Fail(s)

AhciNext == port_rebase \/ read \/ RebaseStep \/ ReadStep \/ HbaStep

(***************************************************************************)
(* The driver's loops keep running; the HBA follows the bits the driver    *)
(* sets, and finishes each command, one way or the other.                  *)
(***************************************************************************)
AhciSpec ==
  /\ AhciInit /\ [][AhciNext]_ahciVars
  /\ WF_ahciVars(RebaseStep) /\ WF_ahciVars(ReadStep)
  /\ WF_ahciVars(FollowFRE) /\ WF_ahciVars(FollowST)
  /\ \A s \in Slots : WF_ahciVars(Complete(s) \/ Fail(s))

AhciTypeOK ==
  /\ cmd \in [ST : BOOLEAN, FRE : BOOLEAN, FR : BOOLEAN, CR : BOOLEAN]
  /\ ci \subseteq Slots /\ sact \subseteq Slots /\ slots \subseteq Slots
  /\ busy \in BOOLEAN /\ tfes \in BOOLEAN /\ halted \in BOOLEAN
  /\ base \in [Pointers -> {"firmware", "driver"}]
  /\ tables \in [Slots -> {0, 1}]
  /\ pc \in {"idle"} \union RebasePoints \union ReadPoints
  /\ count \in Nat
  /\ slot \in Slots \union {NoSlot}
  /\ spin \in 0 .. SPIN_LIMIT
  /\ outcome \in {"none", "running", "noslot", "hung", "error", "true"}
  /\ fate \in {"none", "pending", "ok", "failed"}

(***************************************************************************)
(* The memory the HBA works on is moved only while both of its engines     *)
(* stand still, however the HBA's answers fall between the two tests of    *)
(* the waiting loop (disk.c:94-121, 148-155).                              *)
(***************************************************************************)
RebaseOnlyWhenStopped ==
  [][base' # base => ~cmd.FR /\ ~cmd.CR /\ ci = {}]_ahciVars

(***************************************************************************)
(* From its choice to its use, the slot of a read is a slot of the port    *)
(* that no outstanding command has, although the registers were read       *)
(* earlier and one after the other (disk.c:168, 227, 257-261).             *)
(***************************************************************************)
SlotIsFree ==
  pc \in {"build", "spin", "issue"} => slot \in Slots \ (ci \union sact)

(***************************************************************************)
(* What the HBA reads for an outstanding command stays as it is: neither   *)
(* port_rebase nor a read, which clears as much memory as its entries      *)
(* need, writes to the table of such a command, while the HBA retires      *)
(* commands at any moment.  A read of more than the 8 * 16 sectors that a  *)
(* table has room for is left out (disk.c:110-121, 172-196, 253-266).      *)
(***************************************************************************)
CommandsKept ==
  [][(pc = "build" => prdtl(count) <= ENTRIES)
       => \A s \in ci \union sact : tables'[s] = tables[s]]_ahciVars

(***************************************************************************)
(* A read that returns true issued a command, and the HBA completed that   *)
(* command without an error (disk.c:230-250).                              *)
(***************************************************************************)
TrueMeansDone == outcome = "true" => fate = "ok"

(***************************************************************************)
(* port_rebase returns: none of its two loops waits for ever               *)
(* (disk.c:92-157).                                                        *)
(***************************************************************************)
RebaseReturns == pc = "clearST" ~> pc = "idle"

(***************************************************************************)
(* A read that issues a command to a port not stopped by an earlier error  *)
(* returns, whether the command completes or fails (disk.c:217-250).       *)
(***************************************************************************)
ReadReturns == (pc = "issue" /\ Running) ~> pc = "idle"

(***************************************************************************)
(* Contradicted by the code.  "If not set in SACT and CI, the slot is      *)
(* free" (disk.c:256): a read is refused only when no slot is free.        *)
(***************************************************************************)
FreeSlotFound == outcome = "noslot" => slots = Slots
=============================================================================
