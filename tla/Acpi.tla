-------------------------------- MODULE Acpi --------------------------------
(***************************************************************************)
(* Power-off through ACPI (acpi.c), as reboot and shutdown use it: the     *)
(* search for the firmware's tables, the values taken from them, the       *)
(* handshake that enables ACPI, and the writes that put the machine to     *)
(* sleep.  One step is one probed place, one table, or one access to a     *)
(* register; the firmware sets SCI_EN in between.                          *)
(*                                                                         *)
(* sleep (time.c) compares the address of a function with a number of      *)
(* seconds and never returns, so neither waiting loop of acpiEnable comes  *)
(* to its second round.                                                    *)
(***************************************************************************)
EXTENDS Integers, Sequences

CONSTANTS
  PLACES,      \* places searched: 8192 in the BIOS area, then 64 in the EBDA
  MAX_ENTRIES, \* bound on the entries of the RSDT
  Packages     \* \_S5 packages: see Encode

\* An element of a package is a byte behind a prefix, or ZeroOp or OneOp.
ASSUME AcpiAssumption ==
  /\ PLACES \in Nat \ {0} /\ MAX_ENTRIES \in Nat \ {0}
  /\ Packages # {}
  /\ \A p \in Packages : /\ p.follow \in 0 .. 3
                         /\ p.a \in 0 .. 7 /\ p.b \in 0 .. 7
                         /\ p.a_prefix \in BOOLEAN /\ p.b_prefix \in BOOLEAN
                         /\ p.a > 1 => p.a_prefix
                         /\ p.b > 1 => p.b_prefix

\* What a place holds: no signature, a wrong checksum, a pointer that is zero,
\* or one to something that is or is not a valid RSDT.
Contents == {"none", "badsum", "null", "badroot", "root"}

\* A table of the RSDT: no valid FACP ("other"), a FACP whose DSDT is of no
\* use, or one whose DSDT has a \_S5 package.  canEnable: SMI_CMD and
\* ACPI_ENABLE are not zero; PM1b: there is a second control block.
Tables ==
  [kind : {"S5"}, canEnable : BOOLEAN, PM1b : BOOLEAN, pkg : Packages] \union
  [kind : {"other", "badDSDT", "noS5", "badS5"}, canEnable : {FALSE},
   PM1b : {FALSE}, pkg : {CHOOSE p \in Packages : TRUE}]

Blocks == {"a", "b"}
Unwritten == -1
SLP_EN == 8192   \* 1 << 13

VARIABLES
  places, entries,     \* the firmware's memory
  sci,                 \* the enable bit of the control blocks
  sent,                \* the enable command was sent
  pc,
  place, ptr, entrys,  \* the counters of acpiGetRSDPtr and initAcpi
  facp,                \* the entry the globals were taken from, 0 if none
  SLP_TYP,             \* SLP_TYPa and SLP_TYPb
  written              \* the last value written to each control block

memory == <<places, entries>>
counters == <<place, ptr, entrys>>
globals == <<facp, SLP_TYP>>
acpiVars == <<places, entries, sci, sent, pc, place, ptr, entrys, facp, SLP_TYP,
              written>>

FACP == entries[facp]

\* The global SCI_EN, set with the other globals.
SCI_EN == IF facp = 0 THEN 0 ELSE 1

AcpiInit ==
  /\ places \in [1 .. PLACES -> Contents]
  /\ entries \in UNION {[1 .. n -> Tables] : n \in 0 .. MAX_ENTRIES}
  /\ sci \in [Blocks -> BOOLEAN]
  /\ sent = FALSE
  /\ pc = "search"
  /\ place = 1 /\ ptr = 1 /\ entrys = 0
  /\ facp = 0 /\ SLP_TYP = [b \in Blocks |-> 0]
  /\ written = [b \in Blocks |-> Unwritten]

(***************************************************************************)
(* The bytes of a package behind its name: PackageOp, the length (its      *)
(* first byte says in the upper two bits how many follow), the number of   *)
(* elements, and the elements.                                             *)
(***************************************************************************)
Element(value, prefix) == IF prefix THEN <<10, value>> ELSE <<value>>

Encode(p) ==
  <<18, p.follow * 64>> \o [i \in 1 .. p.follow |-> 0] \o <<4>>
    \o Element(p.a, p.a_prefix) \o Element(p.b, p.b_prefix) \o <<0, 0>>

\* Variant: the bytes of the length that follow are not skipped.
SleepTypesShortLength(aml) ==
  LET first == IF aml[4] = 10 THEN 5 ELSE 4
      second == IF aml[first + 1] = 10 THEN first + 2 ELSE first + 1
  IN [a |-> aml[first] * 1024, b |-> aml[second] * 1024]

\* Variant: the prefix of the second element is not skipped.
SleepTypesNoPrefix(aml) ==
  LET at == 2 + (aml[2] \div 64) + 2
      first == IF aml[at] = 10 THEN at + 1 ELSE at
  IN [a |-> aml[first] * 1024, b |-> aml[first + 1] * 1024]

\* The two sleep types, shifted to their place in the register.
SleepTypes(aml) ==
  LET at == 2 + (aml[2] \div 64) + 2
      first == IF aml[at] = 10 THEN at + 1 ELSE at
      second == IF aml[first + 1] = 10 THEN first + 2 ELSE first + 1
  IN [a |-> aml[first] * 1024, b |-> aml[second] * 1024]

----------------------------------------------------------------------------
(* initAcpi *)

\* A step that only moves on.
Goto(point) == pc' = point /\ UNCHANGED <<memory, sci, sent, counters, globals, written>>

\* acpiGetRSDPtr: the next place, if this one has no pointer.
NextPlace ==
  /\ pc = "search" /\ place <= PLACES
  /\ places[place] \in {"none", "badsum", "null"}
  /\ place' = place + 1
  /\ UNCHANGED <<memory, sci, sent, pc, ptr, entrys, globals, written>>

NoAcpi ==
  /\ pc = "search"
  /\ place <= PLACES => places[place] = "badroot"
  /\ Goto("halted")

FoundRoot ==
  /\ pc = "search" /\ place <= PLACES /\ places[place] = "root"
  /\ pc' = "tables"
  /\ entrys' = Len(entries) /\ ptr' = 1
  /\ UNCHANGED <<memory, sci, sent, place, globals, written>>

\* Variant: a FACP without a usable DSDT does not end the loop.
OtherTableGoOn ==
  /\ pc = "tables" /\ entrys > 0 /\ entries[ptr].kind # "S5"
  /\ entrys' = entrys - 1
  /\ ptr' = ptr + 1
  /\ UNCHANGED <<memory, sci, sent, pc, place, globals, written>>

\* A FACP without a usable DSDT sets the counter to -2, which ends the loop.
OtherTable ==
  /\ pc = "tables" /\ entrys > 0 /\ entries[ptr].kind # "S5"
  /\ entrys' = IF entries[ptr].kind = "other" THEN entrys - 1 ELSE -2
  /\ ptr' = ptr + 1
  /\ UNCHANGED <<memory, sci, sent, pc, place, globals, written>>

NoFacp == pc = "tables" /\ entrys <= 0 /\ Goto("halted")

TakeTable ==
  /\ pc = "tables" /\ entrys > 0 /\ entries[ptr].kind = "S5"
  /\ entrys' = -2
  /\ facp' = ptr
  /\ SLP_TYP' = SleepTypes(Encode(entries[ptr].pkg))
  /\ pc' = "power"
  /\ UNCHANGED <<memory, sci, sent, place, ptr, written>>

initAcpi == NextPlace \/ NoAcpi \/ FoundRoot \/ OtherTable \/ NoFacp \/ TakeTable

----------------------------------------------------------------------------
(* acpiPowerOff *)

\* The first test of acpiEnable.  Its result is not looked at: without a way to
\* enable ACPI the writes follow as well.
CheckEnabled ==
  /\ pc = "power" /\ SCI_EN # 0
  /\ IF ~sci["a"] /\ FACP.canEnable
       THEN sent' = TRUE /\ pc' = "waitA"
       ELSE sent' = sent /\ pc' = "writeA"
  /\ UNCHANGED <<memory, sci, counters, globals, written>>

\* One round of a waiting loop: sleep does not return.
Poll(block, next) == Goto(IF sci[block] THEN next ELSE "asleep")

\* Variant: only the first control block is waited for.
WaitAOnly == pc = "waitA" /\ Poll("a", "writeA")

WaitA == pc = "waitA" /\ Poll("a", IF FACP.PM1b THEN "waitB" ELSE "writeA")

WaitB == pc = "waitB" /\ Poll("b", "writeA")

WriteBlock(block) ==
  /\ written' = [written EXCEPT ![block] = SLP_TYP[block] + SLP_EN]
  /\ UNCHANGED <<memory, sci, sent, counters, globals>>

\* Variant: the second block is forgotten.
WriteAOnly == pc = "writeA" /\ pc' = "halted" /\ WriteBlock("a")

WriteA ==
  /\ pc = "writeA"
  /\ pc' = IF FACP.PM1b THEN "writeB" ELSE "halted"
  /\ WriteBlock("a")

\* "acpi poweroff failed", and kernel_main returns.
WriteB == pc = "writeB" /\ pc' = "halted" /\ WriteBlock("b")

acpiPowerOff == CheckEnabled \/ WaitA \/ WaitB \/ WriteA \/ WriteB

\* The firmware answers the enable command, block by block.
FirmwareEnables(block) ==
  /\ sent /\ ~sci[block]
  /\ sci' = [sci EXCEPT ![block] = TRUE]
  /\ UNCHANGED <<memory, sent, pc, counters, globals, written>>

AcpiNext == initAcpi \/ acpiPowerOff \/ \E block \in Blocks : FirmwareEnables(block)

\* The command is a sequential program that goes on while it can.
AcpiSpec == AcpiInit /\ [][AcpiNext]_acpiVars /\ WF_acpiVars(initAcpi \/ acpiPowerOff)

(***************************************************************************)
(* Properties                                                              *)
(***************************************************************************)
AcpiTypeOK ==
  /\ sci \in [Blocks -> BOOLEAN] /\ sent \in BOOLEAN
  /\ pc \in {"search", "tables", "power", "waitA", "waitB", "writeA", "writeB",
             "asleep", "halted"}
  /\ place \in 1 .. PLACES + 1
  /\ ptr \in 1 .. MAX_ENTRIES + 1 /\ entrys \in -2 .. MAX_ENTRIES
  /\ facp \in 0 .. Len(entries)
  /\ SLP_TYP \in [Blocks -> 0 .. 7 * 1024]
  /\ written \in [Blocks -> {Unwritten} \union (SLP_EN .. SLP_EN + 7 * 1024)]

\* The index of the first element with a property, 0 if there is none.
FirstIndex(s, P(_)) ==
  IF \E i \in DOMAIN s : P(s[i])
  THEN CHOOSE i \in DOMAIN s : P(s[i]) /\ \A j \in 1 .. i - 1 : ~P(s[j])
  ELSE 0

\* The table to use: the first FACP under the first pointer, if it is usable.
ReferenceTable ==
  LET pointer == FirstIndex(places, LAMBDA c : c \in {"badroot", "root"})
      table == FirstIndex(entries, LAMBDA t : t.kind # "other")
  IN IF pointer # 0 /\ table # 0 /\ places[pointer] = "root" /\ entries[table].kind = "S5"
     THEN table ELSE 0

(***************************************************************************)
(* The search ends with the values of the first FACP under the first       *)
(* pointer or with none at all: a later table never stands in for a broken *)
(* one, and no mixture of tables is used (acpi.c:82-109, 174-254).         *)
(***************************************************************************)
TakesFirstTable == pc \notin {"search", "tables"} => facp = ReferenceTable

(***************************************************************************)
(* A control block that is written gets the sleep type the firmware's      *)
(* package declares for it, however the package is encoded, and only the   *)
(* blocks the FACP has are written, the first one first (acpi.c:208-220,   *)
(* 266-268).                                                               *)
(***************************************************************************)
WritesDeclaredTypes ==
  \A b \in Blocks : written[b] # Unwritten =>
    /\ facp # 0
    /\ written[b] = SLP_EN + 1024 * FACP.pkg[b]
    /\ b = "b" => FACP.PM1b /\ written["a"] # Unwritten

(***************************************************************************)
(* Where ACPI had to be enabled first, the machine is put to sleep only    *)
(* after every control block of the FACP reported it as enabled, although  *)
(* the result of acpiEnable is ignored (acpi.c:137-157, 263).              *)
(***************************************************************************)
SleepsOnlyEnabled ==
  sent /\ written["a"] # Unwritten => sci["a"] /\ (FACP.PM1b => sci["b"])

(***************************************************************************)
(* A machine whose ACPI is on already, or cannot be turned on, is never    *)
(* kept waiting: if it has usable tables the command comes to an end with  *)
(* every control block of the FACP written (acpi.c:134-173, 257-271).      *)
(***************************************************************************)
PowersOff ==
  (ReferenceTable # 0 /\ ~sent /\ (sci["a"] \/ ~entries[ReferenceTable].canEnable))
    ~> (/\ pc = "halted" /\ written["a"] # Unwritten
        /\ FACP.PM1b => written["b"] # Unwritten)
=============================================================================
