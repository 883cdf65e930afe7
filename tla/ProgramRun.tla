----------------------------- MODULE ProgramRun -----------------------------
(***************************************************************************)
(* What execute_buffer promises about a program: its lines are executed    *)
(* one after the other until one fails, each counts once, and the run is   *)
(* over when a line failed or none is left.                                *)
(***************************************************************************)
EXTENDS Naturals

VARIABLES
  running,
  lines,    \* how many lines the program has
  done,     \* how many of them were executed
  ok        \* none of them failed

runVars == <<running, lines, done, ok>>

RunInit == running = FALSE /\ lines = 0 /\ done = 0 /\ ok = TRUE

Begin ==
  /\ ~running
  /\ running' = TRUE
  /\ lines' \in Nat
  /\ done' = 0
  /\ ok' = TRUE

RunLine ==
  /\ running /\ ok
  /\ done < lines
  /\ done' = done + 1
  /\ ok' \in BOOLEAN
  /\ UNCHANGED <<running, lines>>

Finish ==
  /\ running
  /\ ~ok \/ done = lines
  /\ running' = FALSE /\ lines' = 0 /\ done' = 0 /\ ok' = TRUE

RunNext == Begin \/ RunLine \/ Finish

RunSpec == RunInit /\ [][RunNext]_runVars
=============================================================================
