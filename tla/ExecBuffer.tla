----------------------------- MODULE ExecBuffer -----------------------------
(***************************************************************************)
(* execute_buffer of kernel.c: the text is executed line by line.  The     *)
(* newline behind a line is a NUL while the interpreter works on the line, *)
(* so it is the interpreter and this loop together that decide which part  *)
(* of the text is executed.                                                *)
(*                                                                         *)
(* In this commit nothing writes editor_buffer (see RunRunsText of module  *)
(* Console), so the program executed is always empty; Fill stands for the  *)
(* editor that would fill it.                                              *)
(***************************************************************************)
EXTENDS Microshell, FiniteSets

CONSTANT Programs    \* texts that fit editor_buffer with a NUL or fill it

ASSUME ExecAssumption ==
  \A p \in Programs : p \in Seq(Tokens \ {NUL}) /\ Len(p) <= CODE_SIZE

VARIABLES
  editor_buffer_pos,
  current, line_start,
  overall_success,
  last,        \* msh_execute was called for the last line
  program,     \* history: the text when execute_buffer was called
  returned     \* history: the lines for which msh_execute returned

execVars == <<editor_buffer_pos, current, line_start, overall_success, last, program, returned>>
allVars == <<heapVars, mshVars, execVars>>

Blank == [i \in 0 .. CODE_SIZE - 1 |-> NUL]

ExecInit ==
  /\ MshInit
  /\ code = Blank
  /\ editor_buffer_pos = 0
  /\ current = 0 /\ line_start = 0
  /\ overall_success = TRUE /\ last = FALSE
  /\ program = Blank /\ returned = {}

\* An editor fills the buffer with another text.
Fill ==
  /\ at = "idle"
  /\ \E p \in Programs :
       /\ code' = [i \in 0 .. CODE_SIZE - 1 |-> IF i < Len(p) THEN p[i + 1] ELSE NUL]
       /\ editor_buffer_pos' = Len(p)
  /\ UNCHANGED <<heapVars, pc, had_error, vars, buf, stack, value, low, at, equals, assigned,
                 current, line_start, overall_success, last, program, returned>>

\* The call: the text is terminated and the loop starts.
execute_buffer ==
  /\ at = "idle"
  /\ LET exec_len == IF editor_buffer_pos >= CODE_SIZE THEN CODE_SIZE - 1 ELSE editor_buffer_pos
     IN code' = [code EXCEPT ![exec_len] = NUL]
  /\ program' = code'
  /\ overall_success' = TRUE
  /\ current' = 0 /\ line_start' = 0
  /\ returned' = {} /\ assigned' = <<>>
  /\ at' = "line"
  /\ UNCHANGED <<heapVars, pc, had_error, vars, buf, stack, value, low, equals,
                 editor_buffer_pos, last>>

\* Where the loop stops that starts at p: the newline behind the line, or the
\* end of the text.
LineEnd(p) ==
  CHOOSE q \in p .. CODE_SIZE - 1 : /\ code[q] \in {NL, NUL}
                                    /\ \A r \in p .. q - 1 : code[r] \notin {NL, NUL}

\* An empty line is not executed.
EmptyLine ==
  /\ at = "line" /\ code[line_start] = NL
  /\ line_start' = line_start + 1
  /\ UNCHANGED <<heapVars, mshVars, editor_buffer_pos, current, overall_success, last,
                 program, returned>>

\* Variant: the newline stays while the line is executed.
ExecuteLineOpen ==
  /\ at = "line"
  /\ current' = LineEnd(line_start)
  /\ code[current'] = NL /\ line_start < current'
  /\ code' = code
  /\ msh_execute(line_start)
  /\ last' = FALSE
  /\ UNCHANGED <<assigned, editor_buffer_pos, line_start, overall_success, program, returned>>

\* The newline becomes a NUL, and the line is executed.
ExecuteLine ==
  /\ at = "line"
  /\ current' = LineEnd(line_start)
  /\ code[current'] = NL /\ line_start < current'
  /\ code' = [code EXCEPT ![current'] = NUL]
  /\ msh_execute(line_start)
  /\ last' = FALSE
  /\ UNCHANGED <<assigned, editor_buffer_pos, line_start, overall_success, program, returned>>

LineReturns ==
  /\ Returns /\ ~last
  /\ returned' = returned \union {line_start}
  /\ UNCHANGED <<assigned, editor_buffer_pos, program>>

\* Variant: the newline is not restored.
LineSucceedsNoRestore ==
  /\ LineReturns /\ ~had_error
  /\ line_start' = current + 1
  /\ at' = "line"
  /\ UNCHANGED <<heapVars, code, pc, had_error, vars, buf, stack, value, low, equals,
                 current, overall_success, last>>

\* The newline is restored and the loop goes on.
LineSucceeds ==
  /\ LineReturns /\ ~had_error
  /\ code' = [code EXCEPT ![current] = NL]
  /\ line_start' = current + 1
  /\ at' = "line"
  /\ UNCHANGED <<heapVars, pc, had_error, vars, buf, stack, value, low, equals,
                 current, overall_success, last>>

\* Variant: the loop does not end at a line that fails.
LineFailsGoesOn ==
  /\ LineReturns /\ had_error
  /\ overall_success' = FALSE
  /\ code' = [code EXCEPT ![current] = NL]
  /\ line_start' = current + 1
  /\ at' = "line"
  /\ UNCHANGED <<heapVars, pc, had_error, vars, buf, stack, value, low, equals,
                 current, last>>

\* The loop ends with the newline still a NUL.  What follows takes the line
\* for a last one without a newline and executes it once more.
LineFails ==
  /\ LineReturns /\ had_error
  /\ overall_success' = FALSE
  /\ msh_execute(line_start)
  /\ last' = TRUE
  /\ UNCHANGED <<code, current, line_start>>

\* The loop is at the end of the text, behind a line without a newline.
ExecuteLast ==
  /\ at = "line"
  /\ current' = LineEnd(line_start)
  /\ code[current'] = NUL /\ line_start < current'
  /\ msh_execute(line_start)
  /\ last' = TRUE
  /\ UNCHANGED <<code, assigned, editor_buffer_pos, line_start, overall_success,
                 program, returned>>

LastReturns ==
  /\ Returns /\ last
  /\ overall_success' = (overall_success /\ ~had_error)
  /\ returned' = returned \union {line_start}
  /\ at' = "report"
  /\ UNCHANGED <<heapVars, code, pc, had_error, vars, buf, stack, value, low, equals, assigned,
                 editor_buffer_pos, current, line_start, last, program>>

\* The loop is at the end of a text that ends with a newline, or is empty.
NoLast ==
  /\ at = "line" /\ code[line_start] = NUL
  /\ at' = "report"
  /\ UNCHANGED <<heapVars, code, pc, had_error, vars, buf, stack, value, low, equals, assigned,
                 execVars>>

\* What is reported is overall_success.  Everything the next call assigns
\* before it reads it is forgotten here.
Report ==
  /\ at = "report"
  /\ at' = "idle"
  /\ pc' = 0 /\ had_error' = FALSE /\ value' = None
  /\ current' = 0 /\ line_start' = 0 /\ overall_success' = TRUE /\ last' = FALSE
  /\ equals' = 0 /\ assigned' = <<>> /\ returned' = {} /\ program' = Blank
  /\ UNCHANGED <<heapVars, code, vars, buf, stack, low, editor_buffer_pos>>

ExecStep ==
  \/ EmptyLine \/ ExecuteLine \/ LineSucceeds \/ LineFails
  \/ ExecuteLast \/ LastReturns \/ NoLast \/ Report
  \/ MshStep /\ UNCHANGED execVars

ExecNext == Fill \/ execute_buffer \/ ExecStep

\* Once called, the kernel works on; calls are never forced.
ExecSpec == ExecInit /\ [][ExecNext]_allVars /\ WF_allVars(ExecStep)

(***************************************************************************)
(* Properties                                                              *)
(***************************************************************************)
NulPositions == {p \in DOMAIN program : program[p] = NUL}
Inside == {p \in DOMAIN program : \A e \in NulPositions : p < e}

\* Where the lines that are not empty start.
Lines ==
  {p \in Inside : program[p] # NL /\ (p = 0 \/ program[p - 1] = NL)}

Runner == INSTANCE ProgramRun WITH
  running <- at # "idle",
  lines <- Cardinality(Lines),
  done <- Cardinality(returned),
  ok <- overall_success

(***************************************************************************)
(* execute_buffer runs a program as ProgramRun says: every line that is    *)
(* not empty is executed and counted once, in a successful run all of      *)
(* them, none after one that failed, and that verdict stands although the  *)
(* failing line is executed a second time (kernel.c:424-466).              *)
(***************************************************************************)
ImplementsRunner == Runner!RunSpec

\* No blank stands before a newline or the end of the text.
Tidy == \A p \in Inside : program[p] = " " => p + 1 \in Inside /\ program[p + 1] # NL

\* The places where an assignment may be: a name with a "=" behind it.
Assignments ==
  {p \in Inside : program[p] = "=" /\ \E q \in Inside :
     q < p /\ program[q] \in Names /\ \A r \in q + 1 .. p - 1 : program[r] = " "}

\* Those with no other "=" before them on their line: a later one may belong
\* to the expression that is assigned, or to a string in it.
FirstAssignments ==
  {p \in Assignments : \A q \in 0 .. p - 1 :
     program[q] = "=" => \E r \in q .. p : program[r] = NL}

(***************************************************************************)
(* A run that reports success has left the text as it was, for the next    *)
(* run: every NUL that stood for a newline has been taken away again       *)
(* (kernel.c:433, 450).                                                    *)
(***************************************************************************)
TextKept == at = "report" /\ overall_success => code = program

(***************************************************************************)
(* Unless a line ends in a blank, a run that reports success has gone      *)
(* through the assignments of the text in their order, has done none twice *)
(* and nothing else, and has left out no line's first one: the interpreter *)
(* stops at the NUL that the loop puts behind a line (kernel.c:432-450,    *)
(* 456-461, microshell.c:363-391).                                         *)
(***************************************************************************)
SuccessRunsOnce ==
  at = "report" /\ overall_success /\ Tidy =>
    /\ \A i \in DOMAIN assigned : assigned[i] \in Assignments
    /\ \A i, j \in DOMAIN assigned : i < j => assigned[i] < assigned[j]
    /\ \A p \in FirstAssignments : \E i \in DOMAIN assigned : assigned[i] = p

(***************************************************************************)
(* Every run comes to its report, whatever the text is, unless the         *)
(* processor faults, address 0 is copied behind itself without end, or a   *)
(* text that fills the array lets the interpreter out of it                *)
(* (kernel.c:430-453, microshell.c:292-294, 363-364).  The C stack is      *)
(* taken to hold the calls of eval_expr, one per operator: boot.s gives it *)
(* 16 KiB, which an expression of the text's 4096 characters can exceed.   *)
(***************************************************************************)
ExecutionEnds == at = "line" ~> at \in {"idle", "fault", "corrupt", "runaway"}
=============================================================================
