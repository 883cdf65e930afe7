----------------------------- MODULE ExecProofs -----------------------------
(***************************************************************************)
(* What holds of execute_buffer and the interpreter for every text, every  *)
(* size of the buffer, of the heap and of the table of variables: the      *)
(* interpreter stays inside the buffer, a successful run leaves the text   *)
(* as it was, the lines are executed as ProgramRun says, a successful run  *)
(* has done the assignments of the text in their order, and the values of  *)
(* the interpreter have strings that nothing else uses.                    *)
(***************************************************************************)
EXTENDS ExecBuffer, TLAPS, FiniteSetTheorems, WellFoundedInduction

Places == 0 .. CODE_SIZE - 1
Calling == {"statement", "operand", "operator", "return"}
Stuck == {"fault", "corrupt", "runaway"}

----------------------------------------------------------------------------
(* Searching the text *)

Descents == {ss \in Nat \X Nat : ss[1] < ss[2]}

\* A set of natural numbers that is not empty has a least element.
LEMMA LeastElement ==
  ASSUME NEW T \in SUBSET Nat, T # {}
  PROVE  \E m \in T : \A k \in T : m <= k
<1>1. IsWellFoundedOn(Descents, Nat)
  <2>1. Descents = OpToRel(<, Nat)
    BY Zenon DEF Descents, OpToRel
  <2> QED BY <2>1, NatLessThanWellFounded, Zenon
<1>2. PICK m \in T : \A k \in T : ~(<<k, m>> \in Descents)
  BY WFMin, <1>1, Zenon
<1>3. \A k \in T : ~(k < m)
  BY <1>2 DEF Descents
<1> QED BY <1>3

\* From anywhere on there is a first position that passes a test, if one does.
LEMMA FirstFrom ==
  ASSUME NEW p \in Nat, NEW n \in Nat, NEW S \in SUBSET (p .. n), S # {}
  PROVE  \E q \in p .. n : q \in S /\ \A r \in p .. q - 1 : r \notin S
<1>1. S \in SUBSET Nat
  OBVIOUS
<1>2. PICK q \in S : \A k \in S : q <= k
  BY <1>1, LeastElement
<1> QED BY <1>2

\* The text is an array that ends with a NUL.
Ended(f) == f \in [Places -> Tokens] /\ f[CODE_SIZE - 1] = NUL

LEMMA SizePositive == CODE_SIZE \in Nat \ {0}
BY MshAssumption

LEMMA NulIsNoBlank == NUL \notin Blanks /\ NL \in Blanks /\ NUL # NL /\ NUL # Quote /\ NUL # "="
BY DEF NUL, NL, Quote, Blanks

\* skip_whitespace stops inside the array, at the first character that is no
\* blank (microshell.c:87-89).
LEMMA SkipSound ==
  ASSUME Ended(code), NEW p \in Places
  PROVE  /\ skip_whitespace(p) \in p .. CODE_SIZE - 1
         /\ skip_whitespace(p) \in Places
         /\ code[skip_whitespace(p)] \notin Blanks
         /\ \A r \in p .. skip_whitespace(p) - 1 : code[r] \in Blanks
<1> DEFINE S == {q \in p .. CODE_SIZE - 1 : code[q] \notin Blanks}
           Found(q) == code[q] \notin Blanks /\ \A r \in p .. q - 1 : code[r] \in Blanks
<1>1. CODE_SIZE - 1 \in S
  BY SizePositive, NulIsNoBlank DEF Ended, Places
<1>2. \E q \in p .. CODE_SIZE - 1 : q \in S /\ \A r \in p .. q - 1 : r \notin S
  <2>1. p \in Nat /\ CODE_SIZE - 1 \in Nat /\ S \in SUBSET (p .. CODE_SIZE - 1) /\ S # {}
    BY <1>1, SizePositive DEF Places
  <2> HIDE DEF S
  <2> QED BY <2>1, FirstFrom
<1>3. \E q \in p .. CODE_SIZE - 1 : Found(q)
  BY <1>2, SizePositive DEF Places
<1>4. skip_whitespace(p) = CHOOSE q \in p .. CODE_SIZE - 1 : Found(q)
  BY DEF skip_whitespace
<1>5. skip_whitespace(p) \in p .. CODE_SIZE - 1 /\ Found(skip_whitespace(p))
  <2> HIDE DEF Found
  <2> QED BY <1>3, <1>4
<1> QED BY <1>5, SizePositive DEF Places

\* The end of a string literal is inside the array (microshell.c:196).
LEMMA LiteralSound ==
  ASSUME Ended(code), NEW p \in Places, p < CODE_SIZE - 1
  PROVE  /\ literal_end(p) \in p + 1 .. CODE_SIZE - 1
         /\ code[literal_end(p)] \in {Quote, NUL}
         /\ \A r \in p + 1 .. literal_end(p) - 1 : code[r] \notin {Quote, NUL}
<1> DEFINE S == {q \in p + 1 .. CODE_SIZE - 1 : code[q] \in {Quote, NUL}}
           Found(q) == code[q] \in {Quote, NUL} /\ \A r \in p + 1 .. q - 1 : code[r] \notin {Quote, NUL}
<1>1. CODE_SIZE - 1 \in S
  BY SizePositive DEF Ended, Places
<1>2. \E q \in p + 1 .. CODE_SIZE - 1 : q \in S /\ \A r \in p + 1 .. q - 1 : r \notin S
  <2>1. p + 1 \in Nat /\ CODE_SIZE - 1 \in Nat /\ S \in SUBSET (p + 1 .. CODE_SIZE - 1) /\ S # {}
    BY <1>1, SizePositive DEF Places
  <2> HIDE DEF S
  <2> QED BY <2>1, FirstFrom
<1>3. \E q \in p + 1 .. CODE_SIZE - 1 : Found(q)
  BY <1>2, SizePositive DEF Places
<1>4. literal_end(p) = CHOOSE q \in p + 1 .. CODE_SIZE - 1 : Found(q)
  BY DEF literal_end
<1>5. literal_end(p) \in p + 1 .. CODE_SIZE - 1 /\ Found(literal_end(p))
  <2> HIDE DEF Found
  <2> QED BY <1>3, <1>4
<1> QED BY <1>5

\* The loop over a line stops inside the array (kernel.c:431-453).
LEMMA LineEndSound ==
  ASSUME Ended(code), NEW p \in Places
  PROVE  /\ LineEnd(p) \in p .. CODE_SIZE - 1
         /\ LineEnd(p) \in Places
         /\ code[LineEnd(p)] \in {NL, NUL}
         /\ \A r \in p .. LineEnd(p) - 1 : code[r] \notin {NL, NUL}
<1> DEFINE S == {q \in p .. CODE_SIZE - 1 : code[q] \in {NL, NUL}}
           Found(q) == code[q] \in {NL, NUL} /\ \A r \in p .. q - 1 : code[r] \notin {NL, NUL}
<1>1. CODE_SIZE - 1 \in S
  BY SizePositive DEF Ended, Places
<1>2. \E q \in p .. CODE_SIZE - 1 : q \in S /\ \A r \in p .. q - 1 : r \notin S
  <2>1. p \in Nat /\ CODE_SIZE - 1 \in Nat /\ S \in SUBSET (p .. CODE_SIZE - 1) /\ S # {}
    BY <1>1, SizePositive DEF Places
  <2> HIDE DEF S
  <2> QED BY <2>1, FirstFrom
<1>3. \E q \in p .. CODE_SIZE - 1 : Found(q)
  BY <1>2, SizePositive DEF Places
<1>4. LineEnd(p) = CHOOSE q \in p .. CODE_SIZE - 1 : Found(q)
  BY DEF LineEnd
<1>5. LineEnd(p) \in p .. CODE_SIZE - 1 /\ Found(LineEnd(p))
  <2> HIDE DEF Found
  <2> QED BY <1>3, <1>4
<1> QED BY <1>5, SizePositive DEF Places

----------------------------------------------------------------------------
(* The interpreter *)

\* Where the interpreter is while it works.
PcOK == at \in Calling => pc \in Places

(***************************************************************************)
(* A step of the interpreter leaves the text alone and stays inside it, or *)
(* ends in one of the places it does not come back from; it leaves the     *)
(* array only if the last character before the NUL is a blank              *)
(* (microshell.c:177-355, 363-464).                                        *)
(***************************************************************************)
LEMMA MshStepStays ==
  ASSUME Ended(code), PcOK, MshStep
  PROVE  /\ code' = code
         /\ at' \in Calling \union Stuck
         /\ PcOK' /\ pc' \in 0 .. CODE_SIZE
         /\ at' = "runaway" => code[CODE_SIZE - 2] # NUL
<1> USE SizePositive DEF PcOK, Calling, Stuck
<1>1. ASSUME NEW p \in Places, code[p] # NUL PROVE p + 1 \in Places
  BY <1>1 DEF Places, Ended
<1>2. ASSUME NEW n \in Names \union DOMAIN NumberOf PROVE n # NUL
  BY MshAssumption DEF NUL
<1>3. CASE NameStatement
  <2> DEFINE first == skip_whitespace(pc)
             next == skip_whitespace(first + 1)
  <2>1. at = "statement" /\ pc \in Places /\ code[first] \in Names
    BY <1>3 DEF NameStatement, AtStatement
  <2>2. first \in Places /\ first + 1 \in Places
    BY <2>1, <1>1, <1>2, SkipSound
  <2>3. next \in Places
    BY <2>2, SkipSound
  <2> HIDE DEF first, next
  <2>4. /\ code' = code
        /\ \/ code[next] = "=" /\ pc' = next + 1 /\ at' = "operand"
           \/ pc' = next /\ at' = at
    BY <1>3 DEF NameStatement, first, next
  <2> QED BY <2>1, <2>3, <2>4, <1>1, NulIsNoBlank DEF Places
<1>4. CASE OtherStatement
  <2> DEFINE first == skip_whitespace(pc)
  <2>1. at = "statement" /\ pc \in Places /\ code[pc] # NUL
    BY <1>4 DEF OtherStatement, AtStatement, Returns
  <2>2. /\ first \in pc .. CODE_SIZE - 1 /\ first \in Places
        /\ \A r \in pc .. first - 1 : code[r] \in Blanks
    BY <2>1, SkipSound
  <2> HIDE DEF first
  <2>3. code' = code /\ pc' = first + 1 /\ at' = IF pc' = CODE_SIZE THEN "runaway" ELSE at
    BY <1>4 DEF OtherStatement, first
  <2>4. CASE first = CODE_SIZE - 1
    <3>1. pc # CODE_SIZE - 1
      BY <2>1 DEF Ended
    <3>2. CODE_SIZE - 2 \in pc .. first - 1
      BY <3>1, <2>1, <2>4 DEF Places
    <3> QED BY <3>2, <2>1, <2>2, <2>3, <2>4, NulIsNoBlank
  <2>5. CASE first # CODE_SIZE - 1
    BY <2>1, <2>2, <2>3, <2>5 DEF Places
  <2> QED BY <2>4, <2>5
<1>5. CASE NumberOperand
  <2>1. PICK p \in 0 .. CODE_SIZE - 1, number \in DOMAIN NumberOf :
          Operand(p, number) /\ pc' = p + 1
    BY <1>5 DEF NumberOperand
  <2>2. at = "operand" /\ code[p] # NUL /\ code' = code /\ p \in Places
    BY <2>1, <1>2 DEF Operand, Places
  <2> QED BY <1>5, <2>1, <2>2, <1>1 DEF NumberOperand
<1>6. CASE StringOperand
  <2>1. PICK p \in 0 .. CODE_SIZE - 1 :
          /\ Operand(p, Quote)
          /\ \/ pc' = literal_end(p) /\ at' = "return"
             \/ code[literal_end(p)] # NUL /\ pc' = literal_end(p) + 1 /\ at' = "operator"
    BY <1>6 DEF StringOperand
  <2>2. at = "operand" /\ code[p] = Quote /\ code' = code /\ p \in Places /\ p < CODE_SIZE - 1
    BY <2>1, NulIsNoBlank DEF Operand, Places, Ended
  <2>3. literal_end(p) \in Places
    BY <2>2, LiteralSound DEF Places
  <2> QED BY <2>1, <2>2, <2>3, <1>1 DEF Places
<1>7. CASE NameOperand
  <2>1. PICK p \in 0 .. CODE_SIZE - 1, name \in Names : Operand(p, name) /\ pc' = p + 1
    BY <1>7 DEF NameOperand
  <2>2. at = "operand" /\ code[p] # NUL /\ code' = code /\ p \in Places
    BY <2>1, <1>2 DEF Operand, Places
  <2> QED BY <1>7, <2>1, <2>2, <1>1 DEF NameOperand
<1>8. CASE NoOperand
  BY <1>8 DEF NoOperand, Operand, Places
<1>9. CASE Operator
  <2> DEFINE p == skip_whitespace(pc)
  <2>1. at = "operator" /\ p \in Places
    BY <1>9, SkipSound DEF Operator
  <2> HIDE DEF p
  <2>2. /\ code' = code
        /\ \/ code[p] \in Operators /\ pc' = p + 1 /\ at' = "operand"
           \/ pc' = p /\ at' = "return"
    BY <1>9 DEF Operator, p
  <2>3. NUL \notin Operators
    BY DEF NUL, Operators
  <2> QED BY <2>1, <2>2, <2>3, <1>1 DEF Places
<1>10. CASE CombineInts
  BY <1>10 DEF CombineInts, Combine, Places
<1>11. CASE CombineError
  BY <1>11 DEF CombineError, Combine, Places
<1>12. CASE Concatenate
  BY <1>12 DEF Concatenate, Combine, Places
<1>13. CASE CombineNothing
  BY <1>13 DEF CombineNothing, Combine, Places
<1>14. CASE Assign
  BY <1>14 DEF Assign, Places
<1> QED
  BY <1>3, <1>4, <1>5, <1>6, <1>7, <1>8, <1>9, <1>10, <1>11, <1>12, <1>13, <1>14 DEF MshStep

----------------------------------------------------------------------------
(* The loop over the lines *)

\* A line starts at p, and the text did not end before.
AtStart(p) ==
  /\ p \in Places
  /\ p = 0 \/ program[p - 1] = NL
  /\ \A r \in 0 .. p - 1 : program[r] # NUL

Before(p) == {l \in Lines : l < p}

\* Behind the text, and at the end of the array, there is a NUL.
TailOK(f) == \A p \in Places : p >= editor_buffer_pos \/ p = CODE_SIZE - 1 => f[p] = NUL

TypeInv ==
  /\ at \in {"idle", "line", "report"} \union Calling \union Stuck
  /\ editor_buffer_pos \in Nat
  /\ code \in [Places -> Tokens] /\ program \in [Places -> Tokens]
  /\ overall_success \in BOOLEAN /\ last \in BOOLEAN
  /\ PcOK
  /\ returned \in SUBSET Lines

IdleInv ==
  at = "idle" =>
    /\ \A p \in Places : p >= editor_buffer_pos => code[p] = NUL
    /\ program = Blank /\ returned = {} /\ overall_success = TRUE

RunInv == at # "idle" => TailOK(code) /\ TailOK(program)

LineInv ==
  at = "line" =>
    /\ code = program
    /\ overall_success = TRUE
    /\ AtStart(line_start)
    /\ returned = Before(line_start)

\* A line is being executed.  The text differs from the program only by the
\* NUL that ends the line, unless a line has failed.
CallInv ==
  at \in Calling =>
    /\ AtStart(line_start)
    /\ current \in Places /\ line_start < current
    /\ \A r \in line_start .. current - 1 : program[r] \notin {NL, NUL}
    /\ ~last => /\ program[current] = NL
                /\ code = [program EXCEPT ![current] = NUL]
    /\ last /\ overall_success => program[current] = NUL /\ code = program
    /\ last \/ overall_success
    /\ overall_success => returned = Before(line_start)
    /\ ~overall_success => line_start \in returned

ReportInv == at = "report" /\ overall_success => code = program /\ returned = Lines

ExecInv ==
  TypeInv /\ IdleInv /\ RunInv /\ LineInv /\ CallInv /\ ReportInv /\ ReadsStayInside

\* The line being executed is the only one up to its end that was not before.
LEMMA CalledLine ==
  ASSUME program \in [Places -> Tokens], AtStart(line_start),
         NEW c \in Places, line_start < c,
         \A r \in line_start .. c - 1 : program[r] \notin {NL, NUL}
  PROVE  /\ line_start \in Lines
         /\ line_start \notin Before(line_start)
         /\ Before(c + 1) \ {c} = Before(line_start) \union {line_start}
         /\ program[c] \in {NL, NUL} => c \notin Lines
<1> USE SizePositive DEF AtStart, Places
<1>1. line_start \in line_start .. c - 1
  OBVIOUS
<1>2. line_start \in Inside
  BY <1>1 DEF Inside, NulPositions
<1>3. line_start \in Lines
  BY <1>1, <1>2 DEF Lines
<1>4. ASSUME NEW l \in Lines, l < c PROVE l <= line_start
  <2>1. l \in Places /\ (l = 0 \/ program[l - 1] = NL)
    BY DEF Lines, Inside
  <2>2. CASE l > line_start
    <3>1. l - 1 \in line_start .. c - 1 /\ l # 0
      BY <1>4, <2>1, <2>2
    <3> QED BY <3>1, <2>1
  <2> QED BY <2>1, <2>2
<1>5. \A l \in Lines : l \in Nat
  BY DEF Lines, Inside
<1>6. program[c] \in {NL, NUL} => c \notin Lines
  <2>1. program[c] = NUL => c \notin Inside
    BY DEF Inside, NulPositions
  <2> QED BY <2>1 DEF Lines
<1>7. ASSUME NEW l \in Lines PROVE l < c + 1 /\ l # c <=> l < line_start \/ l = line_start
  BY <1>4, <1>5, <1>7
<1>8. ~(line_start < line_start)
  OBVIOUS
<1>9. Before(c + 1) \ {c} = Before(line_start) \union {line_start}
  <2>1. ASSUME NEW x \in Lines
        PROVE  x \in Before(c + 1) \ {c} <=> x \in Before(line_start) \union {line_start}
    BY <1>7, Zenon DEF Before
  <2>2. Before(c + 1) \subseteq Lines /\ Before(line_start) \subseteq Lines
    BY DEF Before
  <2> QED BY <1>3, <2>1, <2>2, Zenon
<1>10. line_start \notin Before(line_start)
  BY <1>8, Zenon DEF Before
<1> QED BY <1>3, <1>6, <1>9, <1>10, Zenon

\* At the end of the text there are no more lines.
LEMMA NoMoreLines ==
  ASSUME program \in [Places -> Tokens], NEW c \in Places, program[c] = NUL
  PROVE  Before(c) = Lines
<1>1. \A l \in Lines : l < c
  BY DEF Lines, Inside, NulPositions
<1> QED BY <1>1 DEF Before

LEMMA BlankHasNoLines == program = Blank => Lines = {}
<1> SUFFICES ASSUME program = Blank PROVE Lines = {}
  OBVIOUS
<1>1. \A p \in DOMAIN program : p \in NulPositions /\ ~(p < p)
  BY SizePositive DEF NulPositions, Blank
<1> QED BY <1>1 DEF Lines, Inside

LEMMA ExecInitInv == ExecInit => ExecInv
<1> SUFFICES ASSUME ExecInit PROVE ExecInv
  OBVIOUS
<1>1. Blank \in [Places -> Tokens] /\ \A p \in Places : Blank[p] = NUL
  BY DEF Blank, Places, Tokens
<1>2. at = "idle" /\ code = Blank /\ program = Blank
  BY DEF ExecInit, MshInit
<1> QED
  BY <1>1, <1>2 DEF ExecInit, ExecInv, TypeInv, IdleInv, RunInv, LineInv, CallInv, ReportInv,
     ReadsStayInside, PcOK, Calling

\* What depends on the program alone.
LEMMA SameProgram ==
  ASSUME program' = program
  PROVE  Lines' = Lines /\ (\A p : Before(p)' = Before(p)) /\ (\A p : AtStart(p)' = AtStart(p))
BY DEF Lines, Inside, NulPositions, Before, AtStart

\* The interpreter works only while it is called, and never ends a run itself.
LEMMA MshStepIsCalling ==
  ASSUME ExecInv, MshStep
  PROVE  /\ at \in Calling /\ at' \in Calling \union Stuck
         /\ code' = code /\ PcOK'
         /\ at' = "runaway" => code[CODE_SIZE - 2] # NUL
<1>1. at \in Calling
  BY DEF MshStep, NameStatement, OtherStatement, AtStatement, NumberOperand, StringOperand,
     NameOperand, NoOperand, Operand, Operator, CombineInts, CombineError, Concatenate,
     CombineNothing, Assign, Calling
<1>2. Ended(code) /\ PcOK
  BY <1>1, SizePositive DEF ExecInv, TypeInv, RunInv, TailOK, Ended, Places, Calling
<1> QED BY <1>1, <1>2, MshStepStays

LEMMA MshKeepsInv == ASSUME ExecInv, MshStep, UNCHANGED execVars PROVE ExecInv'
<1>1. TypeInv /\ RunInv /\ CallInv
  BY DEF ExecInv
<1>2. /\ editor_buffer_pos' = editor_buffer_pos /\ current' = current
      /\ line_start' = line_start /\ overall_success' = overall_success
      /\ last' = last /\ program' = program /\ returned' = returned
  BY DEF execVars
<1>3. at \in Calling
  BY MshStepIsCalling
<1>4. /\ code' = code /\ at' \in Calling \union Stuck /\ PcOK'
      /\ at' = "runaway" => code[CODE_SIZE - 2] # NUL
  BY MshStepIsCalling
<1>5. TypeInv'
  <2>1. at' \in {"idle", "line", "report"} \union Calling \union Stuck
    BY <1>4
  <2>2. Lines' = Lines
    BY <1>2, SameProgram
  <2> QED BY <1>1, <1>2, <1>4, <2>1, <2>2 DEF TypeInv
<1>6. RunInv'
  BY <1>1, <1>2, <1>3, <1>4 DEF RunInv, TailOK, Calling
<1>7. CallInv'
  BY <1>1, <1>2, <1>3, <1>4, SameProgram DEF CallInv
<1>8. at' \notin {"idle", "line", "report"}
  BY <1>4 DEF Calling, Stuck
<1> QED
  BY <1>4, <1>5, <1>6, <1>7, <1>8 DEF ExecInv, IdleInv, LineInv, ReportInv, ReadsStayInside

\* Filling the buffer, or calling execute_buffer.
LEMMA FillKeepsInv == ASSUME ExecInv, Fill PROVE ExecInv'
<1> USE SizePositive
<1>1. PICK p \in Programs :
        /\ code' = [i \in 0 .. CODE_SIZE - 1 |-> IF i < Len(p) THEN p[i + 1] ELSE NUL]
        /\ editor_buffer_pos' = Len(p)
  BY DEF Fill
<1>2. p \in Seq(Tokens \ {NUL})
  BY ExecAssumption
<1>3. /\ code' \in [Places -> Tokens] /\ editor_buffer_pos' \in Nat
      /\ \A i \in Places : i >= editor_buffer_pos' => code'[i] = NUL
  <2>1. NUL \in Tokens
    BY DEF Tokens
  <2>2. \A i \in Places : i < Len(p) => p[i + 1] \in Tokens
    BY <1>2 DEF Places
  <2>3. Len(p) \in Nat
    BY <1>2
  <2> QED BY <1>1, <2>1, <2>2, <2>3 DEF Places
<1>4. /\ at = "idle" /\ at' = at /\ program' = program /\ returned' = returned
      /\ overall_success' = overall_success /\ last' = last
  BY DEF Fill
<1>5. Lines' = Lines
  BY <1>4, SameProgram
<1>6. TypeInv'
  BY <1>3, <1>4, <1>5 DEF ExecInv, TypeInv, PcOK, Calling
<1> QED
  BY <1>3, <1>4, <1>6 DEF ExecInv, IdleInv, RunInv, LineInv, CallInv, ReportInv,
     ReadsStayInside, Calling, Blank

LEMMA CallKeepsInv == ASSUME ExecInv, execute_buffer PROVE ExecInv'
<1> USE SizePositive
<1> DEFINE len == IF editor_buffer_pos >= CODE_SIZE THEN CODE_SIZE - 1 ELSE editor_buffer_pos
<1>1. /\ at = "idle" /\ at' = "line" /\ code' = [code EXCEPT ![len] = NUL] /\ program' = code'
      /\ overall_success' = TRUE /\ line_start' = 0 /\ returned' = {}
      /\ editor_buffer_pos' = editor_buffer_pos /\ last' = last
  BY DEF execute_buffer
<1>2. /\ editor_buffer_pos \in Nat /\ code \in [Places -> Tokens] /\ last \in BOOLEAN
      /\ \A p \in Places : p >= editor_buffer_pos => code[p] = NUL
  BY <1>1 DEF ExecInv, TypeInv, IdleInv
<1>3. len \in Places
  BY <1>2 DEF Places
<1>4. code' \in [Places -> Tokens]
  BY <1>1, <1>2 DEF Tokens
<1>5. TailOK(code)'
  BY <1>1, <1>2, <1>3 DEF TailOK, Places
<1>6. LineInv'
  <2>1. Before(line_start)' = {}
    <3>1. \A l \in Lines' : l \in Nat
      BY <1>1, <1>4 DEF Lines, Inside, Places
    <3> QED BY <3>1, <1>1 DEF Before
  <2>2. AtStart(line_start)'
    BY <1>1 DEF AtStart, Places
  <2> QED BY <1>1, <2>1, <2>2 DEF LineInv
<1>7. RunInv'
  BY <1>1, <1>5 DEF RunInv, TailOK
<1>8. TypeInv'
  BY <1>1, <1>2, <1>4 DEF TypeInv, PcOK, Calling
<1> QED
  BY <1>1, <1>6, <1>7, <1>8 DEF ExecInv, IdleInv, CallInv, ReportInv, ReadsStayInside, Calling

\* Where the loop is about to look at a line.
LEMMA AtLine ==
  ASSUME ExecInv, at = "line"
  PROVE  /\ Ended(code) /\ TailOK(code)
         /\ code = program
         /\ overall_success = TRUE
         /\ AtStart(line_start) /\ line_start \in Places
         /\ returned = Before(line_start)
         /\ last \in BOOLEAN /\ editor_buffer_pos \in Nat
BY SizePositive DEF ExecInv, TypeInv, RunInv, LineInv, AtStart, TailOK, Ended, Places

\* Behind a newline another line starts.
LEMMA NextStart ==
  ASSUME NEW p \in Places, NEW q \in Places, q = p + 1,
         program[p] = NL, \A r \in 0 .. p : program[r] # NUL
  PROVE  AtStart(q)
<1>1. q - 1 = p
  BY SizePositive DEF Places
<1> QED BY <1>1 DEF AtStart

LEMMA EmptyLineKeepsInv == ASSUME ExecInv, EmptyLine PROVE ExecInv'
<1> USE SizePositive
<1>1. /\ at = "line" /\ at' = "line" /\ code[line_start] = NL /\ line_start' = line_start + 1
      /\ code' = code /\ program' = program /\ returned' = returned
      /\ overall_success' = overall_success /\ last' = last
      /\ editor_buffer_pos' = editor_buffer_pos
  BY DEF EmptyLine, mshVars
<1>2. /\ Ended(program) /\ code = program /\ program[line_start] = NL
      /\ line_start \in Places /\ AtStart(line_start)
  BY <1>1, AtLine
<1>3. AtStart(line_start + 1)
  <2>1. line_start # CODE_SIZE - 1 /\ program[line_start] # NUL
    BY <1>2, NulIsNoBlank DEF Ended
  <2>2. line_start + 1 \in Places
    BY <1>2, <2>1 DEF Places
  <2>3. \A r \in 0 .. line_start : program[r] # NUL
    BY <1>2, <2>1 DEF AtStart, Places
  <2> QED BY <1>2, <2>2, <2>3, NextStart
<1>4. Before(line_start + 1) = Before(line_start)
  <2>1. line_start \notin Lines
    BY <1>2 DEF Lines
  <2>2. ASSUME NEW l \in Lines PROVE l < line_start + 1 <=> l < line_start
    <3>1. l \in Places /\ l # line_start
      BY <2>1, <1>2 DEF Lines, Inside, Ended
    <3> QED BY <1>2, <3>1 DEF Places
  <2> QED BY <2>2, Zenon DEF Before
<1>5. LineInv'
  BY <1>1, <1>3, <1>4, AtLine, SameProgram DEF LineInv
<1>6. TypeInv' /\ RunInv'
  BY <1>1, SameProgram DEF ExecInv, TypeInv, RunInv, TailOK, PcOK, Calling
<1> QED
  BY <1>1, <1>5, <1>6 DEF ExecInv, IdleInv, CallInv, ReportInv, ReadsStayInside, Calling

\* The call of the interpreter for the line that starts at line_start.
LEMMA ExecuteKeepsInv == ASSUME ExecInv, ExecuteLine \/ ExecuteLast PROVE ExecInv'
<1> USE SizePositive
<1> DEFINE c == LineEnd(line_start)
<1>1. /\ at = "line" /\ at' = "statement" /\ current' = c /\ line_start < c
      /\ line_start' = line_start /\ program' = program /\ returned' = returned
      /\ overall_success' = overall_success /\ editor_buffer_pos' = editor_buffer_pos
      /\ pc' = line_start
      /\ \/ code[c] = NL /\ code' = [code EXCEPT ![c] = NUL] /\ last' = FALSE
         \/ code[c] = NUL /\ code' = code /\ last' = TRUE
  BY DEF ExecuteLine, ExecuteLast, msh_execute
<1>2. /\ c \in Places
      /\ \A r \in line_start .. c - 1 : code[r] \notin {NL, NUL}
  BY <1>1, AtLine, LineEndSound
<1> HIDE DEF c
<1>3. TypeInv'
  <2>1. code' \in [Places -> Tokens]
    BY <1>1, AtLine DEF Ended, Tokens
  <2> QED BY <1>1, <2>1, AtLine, SameProgram DEF ExecInv, TypeInv, PcOK, Calling
<1>4. RunInv'
  BY <1>1, <1>2, AtLine DEF RunInv, TailOK, Ended
<1>5. CallInv'
  BY <1>1, <1>2, AtLine, SameProgram DEF CallInv
<1> QED
  BY <1>1, <1>3, <1>4, <1>5 DEF ExecInv, IdleInv, LineInv, ReportInv, ReadsStayInside

\* Where the interpreter has returned.
LEMMA AtReturn ==
  ASSUME ExecInv, Returns
  PROVE  /\ at = "statement" /\ at \in Calling
         /\ code \in [Places -> Tokens] /\ program \in [Places -> Tokens]
         /\ TailOK(code) /\ TailOK(program) /\ program[CODE_SIZE - 1] = NUL
         /\ AtStart(line_start) /\ line_start \in Places
         /\ current \in Places /\ line_start < current
         /\ \A r \in line_start .. current - 1 : program[r] \notin {NL, NUL}
         /\ ~last => /\ program[current] = NL
                     /\ code = [program EXCEPT ![current] = NUL]
         /\ last /\ overall_success => program[current] = NUL /\ code = program
         /\ last \/ overall_success
         /\ overall_success => returned = Before(line_start)
         /\ ~overall_success => line_start \in returned
         /\ last \in BOOLEAN /\ overall_success \in BOOLEAN /\ editor_buffer_pos \in Nat
         /\ returned \in SUBSET Lines
         /\ line_start \in Lines /\ line_start \notin Before(line_start)
         /\ program[current] \in {NL, NUL} => current \notin Lines
         /\ Before(current + 1) \ {current} = Before(line_start) \union {line_start}
<1> USE SizePositive
<1>1. at = "statement" /\ at \in Calling /\ TypeInv /\ RunInv /\ CallInv
  BY DEF ExecInv, Returns, Calling
<1>2. AtStart(line_start) /\ line_start \in Places
  BY <1>1 DEF CallInv, AtStart
<1>3. TailOK(code) /\ TailOK(program) /\ program[CODE_SIZE - 1] = NUL
  BY <1>1 DEF RunInv, TailOK, Places
<1>4. /\ current \in Places /\ line_start < current
      /\ \A r \in line_start .. current - 1 : program[r] \notin {NL, NUL}
      /\ program \in [Places -> Tokens]
  BY <1>1 DEF CallInv, TypeInv
<1>5. /\ line_start \in Lines /\ line_start \notin Before(line_start)
      /\ program[current] \in {NL, NUL} => current \notin Lines
      /\ Before(current + 1) \ {current} = Before(line_start) \union {line_start}
  BY <1>2, <1>4, CalledLine
<1> QED BY <1>1, <1>2, <1>3, <1>4, <1>5 DEF CallInv, TypeInv

LEMMA LineSucceedsKeepsInv == ASSUME ExecInv, LineSucceeds PROVE ExecInv'
<1> USE SizePositive
<1>1. /\ Returns /\ ~last /\ at' = "line"
      /\ code' = [code EXCEPT ![current] = NL]
      /\ line_start' = current + 1 /\ program' = program
      /\ returned' = returned \union {line_start}
      /\ overall_success' = overall_success /\ last' = last
      /\ editor_buffer_pos' = editor_buffer_pos
  BY DEF LineSucceeds, LineReturns
<1>2. /\ program[current] = NL /\ current \in Places /\ line_start \in Places
      /\ line_start < current
      /\ code = [program EXCEPT ![current] = NUL]
      /\ code \in [Places -> Tokens] /\ program \in [Places -> Tokens]
      /\ overall_success = TRUE /\ returned = Before(line_start)
      /\ AtStart(line_start) /\ TailOK(program) /\ program[CODE_SIZE - 1] = NUL
      /\ \A r \in line_start .. current - 1 : program[r] \notin {NL, NUL}
  BY <1>1, AtReturn
<1>3. code' = program
  BY <1>1, <1>2
<1>4. AtStart(current + 1)
  <2>1. \A r \in 0 .. current : program[r] # NUL
    BY <1>2, NulIsNoBlank DEF AtStart, Places
  <2>2. current + 1 \in Places
    BY <1>2, NulIsNoBlank DEF Places
  <2> QED BY <1>2, <2>1, <2>2, NextStart
<1>5. returned' = Before(current + 1)
  <2>1. current \notin Lines /\ Before(current + 1) \ {current} = returned'
    BY <1>1, <1>2, AtReturn
  <2>2. current \notin Before(current + 1)
    BY <2>1 DEF Before
  <2> QED BY <2>1, <2>2
<1>6. LineInv'
  BY <1>1, <1>2, <1>3, <1>4, <1>5, SameProgram DEF LineInv
<1>7. TypeInv' /\ RunInv'
  <2>1. returned' \in SUBSET Lines
    BY <1>5 DEF Before
  <2> QED BY <1>1, <1>2, <1>3, <2>1, SameProgram, AtReturn
             DEF TypeInv, RunInv, TailOK, PcOK, Calling
<1> QED
  BY <1>1, <1>6, <1>7 DEF ExecInv, IdleInv, CallInv, ReportInv, ReadsStayInside, Calling

LEMMA LineFailsKeepsInv == ASSUME ExecInv, LineFails PROVE ExecInv'
<1> USE SizePositive
<1>1. /\ Returns /\ ~last /\ at' = "statement" /\ pc' = line_start
      /\ code' = code /\ line_start' = line_start /\ current' = current /\ program' = program
      /\ returned' = returned \union {line_start}
      /\ overall_success' = FALSE /\ last' = TRUE
      /\ editor_buffer_pos' = editor_buffer_pos
  BY DEF LineFails, LineReturns, msh_execute
<1>2. /\ line_start \in Lines /\ returned \in SUBSET Lines
      /\ line_start \in Places /\ current \in Places /\ line_start < current
      /\ code \in [Places -> Tokens] /\ program \in [Places -> Tokens]
      /\ AtStart(line_start) /\ TailOK(program) /\ TailOK(code)
      /\ \A r \in line_start .. current - 1 : program[r] \notin {NL, NUL}
      /\ editor_buffer_pos \in Nat
  BY <1>1, AtReturn
<1>3. TypeInv' /\ RunInv'
  BY <1>1, <1>2, SameProgram DEF TypeInv, RunInv, TailOK, PcOK, Calling
<1>4. CallInv'
  BY <1>1, <1>2, SameProgram DEF CallInv
<1> QED
  BY <1>1, <1>3, <1>4 DEF ExecInv, IdleInv, LineInv, ReportInv, ReadsStayInside

LEMMA LastReturnsKeepsInv == ASSUME ExecInv, LastReturns PROVE ExecInv'
<1> USE SizePositive
<1>1. /\ Returns /\ last /\ at' = "report"
      /\ code' = code /\ program' = program
      /\ returned' = returned \union {line_start}
      /\ overall_success' = (overall_success /\ ~had_error) /\ last' = last
      /\ editor_buffer_pos' = editor_buffer_pos
  BY DEF LastReturns
<1>2. /\ line_start \in Lines /\ returned \in SUBSET Lines /\ last \in BOOLEAN
      /\ code \in [Places -> Tokens] /\ program \in [Places -> Tokens]
      /\ TailOK(program) /\ TailOK(code) /\ editor_buffer_pos \in Nat
  BY <1>1, AtReturn
<1>3. TypeInv' /\ RunInv'
  BY <1>1, <1>2, SameProgram DEF TypeInv, RunInv, TailOK, PcOK, Calling
<1>4. overall_success => code = program /\ returned' = Lines
  <2> SUFFICES ASSUME overall_success PROVE code = program /\ returned' = Lines
    OBVIOUS
  <2>1. /\ program[current] = NUL /\ code = program /\ current \in Places
        /\ returned = Before(line_start) /\ current \notin Lines
        /\ Before(current + 1) \ {current} = Before(line_start) \union {line_start}
    BY <1>1, AtReturn
  <2>2. Before(current) = Lines
    BY <1>2, <2>1, NoMoreLines
  <2>3. \A l \in Lines : l < current + 1 /\ l # current
    <3>1. \A l \in Lines : l \in Nat /\ l < current
      BY <1>2, <2>2 DEF Before, Lines, Inside, Places
    <3> QED BY <2>1, <3>1 DEF Places
  <2>4. Before(current + 1) \ {current} = Lines
    BY <2>3, Zenon DEF Before
  <2> QED BY <1>1, <2>1, <2>4
<1>5. ReportInv'
  BY <1>1, <1>4, SameProgram DEF ReportInv
<1> QED
  BY <1>1, <1>3, <1>5 DEF ExecInv, IdleInv, LineInv, CallInv, ReadsStayInside, Calling

LEMMA NoLastKeepsInv == ASSUME ExecInv, NoLast PROVE ExecInv'
<1>1. /\ at = "line" /\ at' = "report" /\ code[line_start] = NUL
      /\ code' = code /\ program' = program /\ returned' = returned
      /\ overall_success' = overall_success /\ last' = last
      /\ editor_buffer_pos' = editor_buffer_pos
  BY DEF NoLast, execVars
<1>2. /\ Ended(program) /\ code = program /\ line_start \in Places
      /\ returned = Before(line_start)
  BY <1>1, AtLine
<1>3. returned = Lines
  BY <1>1, <1>2, NoMoreLines DEF Ended
<1>4. TypeInv' /\ RunInv'
  BY <1>1, SameProgram DEF ExecInv, TypeInv, RunInv, TailOK, PcOK, Calling
<1> QED
  BY <1>1, <1>2, <1>3, <1>4, SameProgram
     DEF ExecInv, IdleInv, LineInv, CallInv, ReportInv, ReadsStayInside, Calling

LEMMA ReportKeepsInv == ASSUME ExecInv, Report PROVE ExecInv'
<1>1. /\ at = "report" /\ at' = "idle" /\ code' = code
      /\ program' = Blank /\ returned' = {} /\ overall_success' = TRUE /\ last' = FALSE
      /\ editor_buffer_pos' = editor_buffer_pos
  BY DEF Report
<1>2. Blank' = Blank /\ Blank \in [Places -> Tokens]
  BY DEF Blank, Places, Tokens
<1>3. TypeInv'
  BY <1>1, <1>2 DEF ExecInv, TypeInv, PcOK, Calling
<1>4. IdleInv'
  BY <1>1, <1>2 DEF ExecInv, RunInv, TailOK, IdleInv
<1> QED
  BY <1>1, <1>3, <1>4 DEF ExecInv, RunInv, LineInv, CallInv, ReportInv, ReadsStayInside, Calling

LEMMA NextKeepsInv == ExecInv /\ [ExecNext]_allVars => ExecInv'
<1> SUFFICES ASSUME ExecInv, [ExecNext]_allVars PROVE ExecInv'
  OBVIOUS
<1>1. CASE Fill
  BY <1>1, FillKeepsInv
<1>2. CASE execute_buffer
  BY <1>2, CallKeepsInv
<1>3. CASE EmptyLine
  BY <1>3, EmptyLineKeepsInv
<1>4. CASE ExecuteLine \/ ExecuteLast
  BY <1>4, ExecuteKeepsInv
<1>5. CASE LineSucceeds
  BY <1>5, LineSucceedsKeepsInv
<1>6. CASE LineFails
  BY <1>6, LineFailsKeepsInv
<1>7. CASE LastReturns
  BY <1>7, LastReturnsKeepsInv
<1>8. CASE NoLast
  BY <1>8, NoLastKeepsInv
<1>9. CASE Report
  BY <1>9, ReportKeepsInv
<1>10. CASE MshStep /\ UNCHANGED execVars
  BY <1>10, MshKeepsInv
<1>11. CASE UNCHANGED allVars
  <2>1. /\ at' = at /\ code' = code /\ pc' = pc
        /\ editor_buffer_pos' = editor_buffer_pos /\ current' = current
        /\ line_start' = line_start /\ overall_success' = overall_success
        /\ last' = last /\ program' = program /\ returned' = returned
    BY <1>11 DEF allVars, mshVars, execVars
  <2>2. TypeInv' /\ RunInv' /\ IdleInv'
    BY <2>1, SameProgram DEF ExecInv, TypeInv, RunInv, TailOK, IdleInv, PcOK, Blank
  <2>3. LineInv' /\ CallInv' /\ ReportInv' /\ ReadsStayInside'
    BY <2>1, SameProgram DEF ExecInv, LineInv, CallInv, ReportInv, ReadsStayInside
  <2> QED BY <2>2, <2>3 DEF ExecInv
<1> QED
  BY <1>1, <1>2, <1>3, <1>4, <1>5, <1>6, <1>7, <1>8, <1>9, <1>10, <1>11 DEF ExecNext, ExecStep

THEOREM ExecInvariant == ExecSpec => []ExecInv
BY ExecInitInv, NextKeepsInv, PTL DEF ExecSpec

(***************************************************************************)
(* Whatever the text, the interpreter reads only characters of the buffer, *)
(* except when the text fills the buffer and ends in a blank               *)
(* (microshell.c:363-364, 461-463).                                        *)
(***************************************************************************)
THEOREM InterpreterStaysInside == ExecSpec => []ReadsStayInside
<1>1. ExecInv => ReadsStayInside
  BY DEF ExecInv
<1> QED BY <1>1, ExecInvariant, PTL

(***************************************************************************)
(* A run of execute_buffer that reports success has put back every newline *)
(* it took away (kernel.c:433, 450).                                       *)
(***************************************************************************)
THEOREM SuccessKeepsText == ExecSpec => []TextKept
<1>1. ExecInv => TextKept
  BY DEF ExecInv, ReportInv, TextKept
<1> QED BY <1>1, ExecInvariant, PTL

----------------------------------------------------------------------------
(* The refinement *)

LEMMA LinesFinite ==
  ASSUME TypeInv
  PROVE  /\ IsFiniteSet(Lines) /\ Cardinality(Lines) \in Nat
         /\ IsFiniteSet(returned) /\ Cardinality(returned) \in Nat
<1>1. IsFiniteSet(Places)
  BY FS_Interval, SizePositive DEF Places
<1>2. Lines \in SUBSET Places
  BY DEF TypeInv, Lines, Inside
<1>3. IsFiniteSet(Lines)
  BY <1>1, <1>2, FS_Subset
<1>4. IsFiniteSet(returned)
  BY <1>3, FS_Subset DEF TypeInv
<1> QED BY <1>3, <1>4, FS_CardinalityType

LEMMA LinesCounted == TypeInv => Cardinality(Lines) \in Nat
BY LinesFinite

\* A line that is executed for the first time is one more.
LEMMA OneMore ==
  ASSUME TypeInv, NEW l \in Lines, l \notin returned
  PROVE  /\ Cardinality(returned \union {l}) = Cardinality(returned) + 1
         /\ Cardinality(returned) < Cardinality(Lines)
<1>1. Cardinality(returned \union {l}) = Cardinality(returned) + 1
  BY LinesFinite, FS_AddElement
<1>2. returned \union {l} \in SUBSET Lines
  BY DEF TypeInv
<1>3. Cardinality(returned \union {l}) <= Cardinality(Lines)
  BY <1>2, LinesFinite, FS_Subset
<1> QED BY <1>1, <1>3, LinesFinite

\* The interpreter returns: a line is executed, or the failed one once more.
LEMMA ReturnImplements ==
  ASSUME ExecInv, Returns, program' = program, returned' = returned \union {line_start},
         overall_success' = FALSE \/ overall_success' = overall_success, at' # "idle"
  PROVE  [Runner!RunNext]_(Runner!runVars)
<1>1. /\ TypeInv /\ at # "idle" /\ Lines' = Lines
      /\ line_start \in Lines /\ line_start \notin Before(line_start)
      /\ overall_success \in BOOLEAN
      /\ overall_success => returned = Before(line_start)
      /\ ~overall_success => line_start \in returned
  BY AtReturn, SameProgram DEF ExecInv
<1>2. CASE overall_success
  <2>1. /\ Cardinality(returned') = Cardinality(returned) + 1
        /\ Cardinality(returned) < Cardinality(Lines)
    BY <1>1, <1>2, OneMore
  <2>2. Runner!RunLine
    BY <1>1, <1>2, <2>1 DEF Runner!RunLine
  <2> QED BY <2>2 DEF Runner!RunNext
<1>3. CASE ~overall_success
  <2>1. returned' = returned /\ overall_success' = overall_success
    BY <1>1, <1>3
  <2> QED BY <1>1, <2>1 DEF Runner!runVars
<1> QED BY <1>2, <1>3

\* Any other step before the report changes nothing of what ProgramRun sees.
LEMMA StutterImplements ==
  ASSUME at # "idle" <=> at' # "idle", program' = program, returned' = returned,
         overall_success' = overall_success
  PROVE  UNCHANGED Runner!runVars
BY SameProgram DEF Runner!runVars

LEMMA NextImplements ==
  ASSUME ExecInv, [ExecNext]_allVars
  PROVE  [Runner!RunNext]_(Runner!runVars)
<1>1. TypeInv
  BY DEF ExecInv
<1>2. CASE Fill
  BY <1>2, StutterImplements DEF Fill
<1>3. CASE execute_buffer
  <2>1. /\ at = "idle" /\ at' # "idle" /\ returned' = {} /\ overall_success' = TRUE
    BY <1>3 DEF execute_buffer
  <2>2. TypeInv'
    BY <1>3, CallKeepsInv DEF ExecInv
  <2>3. Cardinality(Lines)' \in Nat
    <3>1. (TypeInv => Cardinality(Lines) \in Nat)'
      BY LinesCounted, PTL
    <3> QED BY <2>2, <3>1
  <2>4. Runner!Begin
    BY <2>1, <2>3, FS_EmptySet DEF Runner!Begin
  <2> QED BY <2>4 DEF Runner!RunNext
<1>4. CASE EmptyLine
  BY <1>4, StutterImplements DEF EmptyLine, mshVars
<1>5. CASE ExecuteLine \/ ExecuteLast
  BY <1>5, StutterImplements DEF ExecuteLine, ExecuteLast, msh_execute
<1>6. CASE LineSucceeds
  BY <1>6, ReturnImplements DEF LineSucceeds, LineReturns
<1>7. CASE LineFails
  BY <1>7, ReturnImplements DEF LineFails, LineReturns, msh_execute
<1>8. CASE LastReturns
  <2>1. overall_success \in BOOLEAN
    BY DEF ExecInv, TypeInv
  <2> QED BY <1>8, <2>1, ReturnImplements DEF LastReturns
<1>9. CASE NoLast
  BY <1>9, StutterImplements DEF NoLast, execVars
<1>10. CASE Report
  <2>1. at = "report" /\ at' = "idle" /\ returned' = {} /\ overall_success' = TRUE
        /\ program' = Blank
    BY <1>10 DEF Report
  <2>2. ~overall_success \/ Cardinality(returned) = Cardinality(Lines)
    BY <2>1 DEF ExecInv, ReportInv
  <2>3. Lines' = {}
    <3>1. program' = Blank'
      BY <2>1 DEF Blank
    <3>2. (program = Blank => Lines = {})'
      BY BlankHasNoLines, PTL
    <3> QED BY <3>1, <3>2
  <2>4. Runner!Finish
    BY <2>1, <2>2, <2>3, FS_EmptySet DEF Runner!Finish
  <2> QED BY <2>4 DEF Runner!RunNext
<1>11. CASE MshStep /\ UNCHANGED execVars
  <2>1. at # "idle" /\ at' # "idle"
    BY <1>11, MshStepIsCalling DEF Calling, Stuck
  <2> QED BY <1>11, <2>1, StutterImplements DEF execVars
<1>12. CASE UNCHANGED allVars
  BY <1>12, StutterImplements DEF allVars, mshVars, execVars
<1> QED
  BY <1>2, <1>3, <1>4, <1>5, <1>6, <1>7, <1>8, <1>9, <1>10, <1>11, <1>12 DEF ExecNext, ExecStep

(***************************************************************************)
(* execute_buffer and the interpreter together run a program as ProgramRun *)
(* says: each line that is not empty once, none after one that failed, all *)
(* of them if the run succeeds (kernel.c:424-466).                         *)
(***************************************************************************)
THEOREM RunsAsPromised == ExecSpec => ImplementsRunner
<1>1. ExecInit => Runner!RunInit
  <2> SUFFICES ASSUME ExecInit PROVE Runner!RunInit
    OBVIOUS
  <2>1. at = "idle" /\ program = Blank /\ returned = {} /\ overall_success = TRUE
    BY DEF ExecInit, MshInit
  <2>2. Lines = {}
    BY <2>1, BlankHasNoLines
  <2> QED BY <2>1, <2>2, FS_EmptySet DEF Runner!RunInit
<1>2. ExecInv /\ [ExecNext]_allVars => [Runner!RunNext]_(Runner!runVars)
  BY NextImplements
<1> QED
  BY <1>1, <1>2, ExecInvariant, PTL DEF ExecSpec, ImplementsRunner, Runner!RunSpec

----------------------------------------------------------------------------
(* The assignments of a successful run *)

\* The line being executed, if no line has failed and none ends in a blank.
CleanLine ==
  /\ line_start \in Places /\ current \in Places /\ line_start < current
  /\ Ended(code) /\ code[current] = NUL
  /\ \A r \in line_start .. current - 1 :
       code[r] = program[r] /\ program[r] \notin {NL, NUL} /\ r \in Inside
  /\ program[current - 1] # " "

LEMMA CalledCleanLine ==
  ASSUME ExecInv, Tidy, overall_success, at \in Calling
  PROVE  CleanLine /\ program[current] \in {NL, NUL}
<1> USE SizePositive DEF Places
<1>1. TypeInv /\ RunInv /\ CallInv
  BY DEF ExecInv
<1>2. /\ AtStart(line_start) /\ line_start \in Places /\ current \in Places /\ line_start < current
      /\ \A r \in line_start .. current - 1 : program[r] \notin {NL, NUL}
      /\ program \in [Places -> Tokens] /\ code \in [Places -> Tokens]
  BY <1>1 DEF CallInv, AtStart, TypeInv
<1>3. \/ program[current] = NL /\ code = [program EXCEPT ![current] = NUL]
      \/ program[current] = NUL /\ code = program
  BY <1>1 DEF CallInv, TypeInv
<1>4. Ended(code)
  <2>1. at # "idle"
    BY DEF Calling
  <2> QED BY <1>1, <1>2, <2>1 DEF RunInv, TailOK, Ended
<1>5. code[current] = NUL /\ \A r \in line_start .. current - 1 : code[r] = program[r]
  BY <1>2, <1>3
<1>6. ASSUME NEW r \in line_start .. current - 1 PROVE r \in Inside
  <2>1. \A e \in 0 .. current - 1 : program[e] # NUL
    BY <1>2 DEF AtStart
  <2>2. \A e \in NulPositions : r < e
    BY <1>2, <2>1 DEF NulPositions
  <2> QED BY <1>2, <2>2 DEF Inside
<1>7. program[current - 1] # " "
  <2>1. current - 1 \in line_start .. current - 1 /\ current - 1 + 1 = current
    BY <1>2
  <2>2. current - 1 \in Inside
    BY <1>6, <2>1
  <2>3. program[current] = NUL => current \notin Inside
    <3>1. ~(current < current) /\ current \in DOMAIN program
      BY <1>2
    <3> QED BY <3>1, Zenon DEF Inside, NulPositions
  <2> QED BY <1>3, <2>1, <2>2, <2>3 DEF Tidy
<1> QED BY <1>2, <1>3, <1>4, <1>5, <1>6, <1>7 DEF CleanLine

LEMMA CleanNumbers ==
  ASSUME CleanLine
  PROVE  /\ line_start \in Nat /\ current \in Nat /\ line_start < current
         /\ CODE_SIZE \in Nat /\ current <= CODE_SIZE - 1
         /\ Ended(code) /\ code[current] = NUL
         /\ \A p \in line_start .. current : p \in Nat /\ p \in Places
<1>1. line_start \in 0 .. CODE_SIZE - 1 /\ current \in 0 .. CODE_SIZE - 1 /\ line_start < current
  BY DEF CleanLine, Places
<1>2. CODE_SIZE \in Nat /\ CODE_SIZE >= 1
  BY SizePositive
<1>3. Ended(code) /\ code[current] = NUL
  BY DEF CleanLine
<1>4. \A p \in line_start .. current : p \in Nat /\ p \in Places
  BY <1>1, <1>2 DEF Places
<1> QED BY <1>1, <1>2, <1>3, <1>4

\* On such a line skip_whitespace stops before the end, or at it if it starts there.
LEMMA SkipInLine ==
  ASSUME CleanLine, NEW p \in line_start .. current
  PROVE  /\ skip_whitespace(p) \in p .. current /\ skip_whitespace(p) \in Places
         /\ p < current => skip_whitespace(p) < current
         /\ \A r \in p .. skip_whitespace(p) - 1 : program[r] = " "
         /\ skip_whitespace(p) < current =>
              /\ code[skip_whitespace(p)] = program[skip_whitespace(p)]
              /\ skip_whitespace(p) \in Inside
         /\ code[skip_whitespace(p)] # NUL => skip_whitespace(p) < current
         /\ code[skip_whitespace(p)] \notin Blanks
<1> DEFINE s == skip_whitespace(p)
<1>1. p \in Places /\ Ended(code) /\ p \in Nat /\ current \in Nat /\ line_start \in Nat
  BY CleanNumbers
<1>2. /\ s \in p .. CODE_SIZE - 1 /\ s \in Places /\ code[s] \notin Blanks
      /\ \A r \in p .. s - 1 : code[r] \in Blanks
  BY <1>1, SkipSound
<1> HIDE DEF s
<1>3. s \in Nat /\ p <= s
  BY <1>1, <1>2, CleanNumbers
<1>4. s <= current
  <2>1. CASE current < s
    <3>1. current \in p .. s - 1
      BY <1>1, <1>3, <2>1
    <3> QED BY <1>2, <3>1, NulIsNoBlank, CleanNumbers
  <2> QED BY <1>1, <1>3, <2>1
<1>5. \A r \in p .. s - 1 : program[r] = " "
  <2> SUFFICES ASSUME NEW r \in p .. s - 1 PROVE program[r] = " "
    OBVIOUS
  <2>1. r \in line_start .. current - 1
    BY <1>1, <1>3, <1>4
  <2> QED BY <1>2, <2>1 DEF CleanLine, Blanks
<1>6. p < current => s < current
  <2>1. CASE p < current /\ s = current
    <3>1. current - 1 \in p .. s - 1
      BY <1>1, <2>1
    <3> QED BY <1>5, <3>1 DEF CleanLine
  <2> QED BY <1>1, <1>3, <1>4, <2>1
<1>7. s < current => code[s] = program[s] /\ s \in Inside
  <2>1. s < current => s \in line_start .. current - 1
    BY <1>1, <1>3
  <2> QED BY <2>1 DEF CleanLine
<1>8. code[s] # NUL => s < current
  <2>1. code[current] = NUL
    BY CleanNumbers
  <2> QED BY <1>1, <1>3, <1>4, <2>1
<1>9. s \in p .. current
  BY <1>1, <1>3, <1>4
<1> QED BY <1>2, <1>5, <1>6, <1>7, <1>8, <1>9 DEF s

LEMMA LiteralInLine ==
  ASSUME CleanLine, NEW p \in line_start .. current - 1
  PROVE  /\ literal_end(p) \in p + 1 .. current
         /\ code[literal_end(p)] # NUL => literal_end(p) < current
<1> DEFINE e == literal_end(p)
<1>1. p \in Places /\ p < CODE_SIZE - 1 /\ Ended(code) /\ p \in Nat /\ current \in Nat
  BY CleanNumbers
<1>2. e \in p + 1 .. CODE_SIZE - 1 /\ \A r \in p + 1 .. e - 1 : code[r] \notin {Quote, NUL}
  BY <1>1, LiteralSound
<1> HIDE DEF e
<1>3. e \in Nat /\ p + 1 <= e
  BY <1>1, <1>2
<1>4. e <= current
  <2>1. CASE current < e
    <3>1. current \in p + 1 .. e - 1
      BY <1>1, <1>3, <2>1
    <3> QED BY <1>2, <3>1, CleanNumbers
  <2> QED BY <1>1, <1>3, <2>1
<1>5. code[e] # NUL => e < current
  <2>1. code[current] = NUL
    BY CleanNumbers
  <2> QED BY <1>1, <1>3, <1>4, <2>1
<1>6. e \in p + 1 .. current
  BY <1>1, <1>3, <1>4
<1> QED BY <1>5, <1>6 DEF e

\* The assignment at p was done.
Did(p) == \E i \in DOMAIN assigned : assigned[i] = p

AllBelow(p) == \A i \in DOMAIN assigned : assigned[i] < p

InOrder ==
  /\ assigned \in Seq(Assignments)
  /\ \A i, j \in DOMAIN assigned : i < j => assigned[i] < assigned[j]

\* A name stands at q, and behind it there are blanks up to p.
Named(q, p) ==
  /\ q \in Inside /\ q < p /\ program[q] \in Names
  /\ \A r \in q + 1 .. p - 1 : program[r] = " "

\* The assignment at p is still to come.
Ahead(p) == \E q \in Inside : pc <= q /\ Named(q, p)

(***************************************************************************)
(* What a run that can still succeed has done at each place: the           *)
(* assignments are behind one another, those of earlier lines are done,    *)
(* and the first one of this line is done, being done, or ahead.           *)
(***************************************************************************)
OrderInv ==
  Tidy /\ overall_success =>
    /\ at \in {"line", "report"} \union Calling => InOrder
    /\ at = "line" => AllBelow(line_start) /\ \A p \in FirstAssignments : p < line_start => Did(p)
    /\ at \in Calling => pc \in line_start .. current
    /\ at = "statement" =>
         /\ AllBelow(pc)
         /\ ~had_error => \A p \in FirstAssignments : p < current => Did(p) \/ Ahead(p)
    /\ at \in {"operand", "operator", "return"} =>
         /\ equals \in Assignments /\ equals < pc /\ AllBelow(equals)
         /\ \A p \in FirstAssignments : p < current => Did(p) \/ p = equals
    /\ at = "report" => \A p \in FirstAssignments : Did(p)

LEMMA AssignmentFacts ==
  ASSUME TypeInv
  PROVE  /\ Assignments = {p \in Inside : program[p] = "=" /\ \E q \in Inside : Named(q, p)}
         /\ Inside \subseteq Places /\ FirstAssignments \subseteq Assignments
         /\ \A p \in Places : p \in Nat /\ p < CODE_SIZE
<1>1. Inside \subseteq Places
  BY DEF TypeInv, Inside
<1>2. \A p \in Places : p \in Nat /\ p < CODE_SIZE
  BY SizePositive DEF Places
<1>3. Assignments = {p \in Inside : program[p] = "=" /\ \E q \in Inside : Named(q, p)}
  BY DEF Assignments, Named
<1>4. FirstAssignments \subseteq Assignments
  BY DEF FirstAssignments
<1> QED BY <1>1, <1>2, <1>3, <1>4

\* A name is neither a blank nor "=".
LEMMA NamesApart == \A n \in Names : n \notin Blanks /\ n # "=" /\ n # " " /\ n # NL /\ n # NUL
BY MshAssumption DEF Blanks, NL, NUL

\* On the line being executed, no "=" comes before the first assignment.
LEMMA FirstOnLine ==
  ASSUME TypeInv, CleanLine, NEW p \in FirstAssignments, p < current,
         NEW e \in line_start .. current - 1, program[e] = "="
  PROVE  p <= e
<1>1. p \in Nat /\ e \in Nat /\ current \in Nat /\ line_start \in Nat
  BY AssignmentFacts, CleanNumbers
<1>2. CASE e < p
  <2>1. e \in 0 .. p - 1
    BY <1>1, <1>2
  <2>2. PICK r \in e .. p : program[r] = NL
    BY <2>1 DEF FirstAssignments
  <2>3. r \in line_start .. current - 1
    BY <1>1, <2>2
  <2> QED BY <2>2, <2>3 DEF CleanLine
<1> QED BY <1>1, <1>2

\* Where a statement begins that starts with a name.
LEMMA NameOrder ==
  ASSUME ExecInv, OrderInv, NameStatement, UNCHANGED execVars, Tidy, overall_success
  PROVE  OrderInv'
<1> DEFINE first == skip_whitespace(pc)
           next == skip_whitespace(first + 1)
<1>1. /\ at = "statement" /\ at \in Calling /\ ~had_error /\ code[first] \in Names
      /\ code' = code /\ assigned' = assigned /\ had_error' = had_error
      /\ line_start' = line_start /\ current' = current /\ program' = program
      /\ \/ code[next] = "=" /\ pc' = next + 1 /\ at' = "operand" /\ equals' = next
         \/ code[next] # "=" /\ pc' = next /\ at' = at
  BY DEF NameStatement, AtStatement, Returns, Calling, execVars
<1>2. CleanLine /\ TypeInv
  BY <1>1, CalledCleanLine DEF ExecInv
<1>3. pc \in line_start .. current /\ AllBelow(pc) /\ InOrder
      /\ \A p \in FirstAssignments : p < current => Did(p) \/ Ahead(p)
  BY <1>1 DEF OrderInv
<1>4. /\ line_start \in Nat /\ current \in Nat /\ line_start < current
  BY <1>2, CleanNumbers
<1>5. /\ first \in pc .. current /\ first < current /\ code[first] = program[first]
      /\ first \in Inside
      /\ \A r \in pc .. first - 1 : program[r] = " "
  <2>1. code[first] # NUL
    BY <1>1, NamesApart
  <2> QED BY <1>2, <1>3, <2>1, SkipInLine
<1> HIDE DEF first
<1>6. pc \in Nat /\ first \in Nat /\ pc <= first /\ first + 1 \in line_start .. current
  <2>1. pc \in line_start .. current /\ first \in pc .. current /\ first < current
    BY <1>3, <1>5
  <2> QED BY <1>4, <2>1
<1>7. /\ next \in first + 1 .. current
      /\ \A r \in first + 1 .. next - 1 : program[r] = " "
      /\ next < current => code[next] = program[next] /\ next \in Inside
      /\ code[next] # NUL => next < current
  BY <1>2, <1>6, SkipInLine
<1> HIDE DEF next
<1>8. next \in Nat /\ first < next /\ next <= current
  <2>1. next \in first + 1 .. current
    BY <1>7
  <2> QED BY <1>4, <1>6, <2>1
<1>9. Assignments' = Assignments /\ FirstAssignments' = FirstAssignments
      /\ \A p : Did(p)' = Did(p)
  BY <1>1 DEF Assignments, FirstAssignments, Inside, NulPositions, Did
<1>10. ASSUME NEW i \in DOMAIN assigned PROVE assigned[i] \in Nat /\ assigned[i] < pc
  <2>1. assigned[i] \in Assignments
    BY <1>3 DEF InOrder
  <2> QED BY <1>2, <1>3, <2>1, AssignmentFacts DEF AllBelow
\* The name of a first assignment that is ahead is this one or behind next.
<1>11. ASSUME NEW p \in FirstAssignments, p < current, ~Did(p)
       PROVE  \E q \in Inside : Named(q, p) /\ (q = first \/ (next <= q /\ code[next] # "="))
  <2>1. PICK q \in Inside : pc <= q /\ Named(q, p)
    BY <1>3, <1>11 DEF Ahead
  <2>2. q \in Nat /\ p \in Nat /\ q < p /\ program[q] \in Names
    BY <1>2, <2>1, AssignmentFacts DEF Named
  <2>3. first <= q
    <3>1. CASE q < first
      <4>1. q \in pc .. first - 1
        BY <1>6, <2>1, <2>2, <3>1
      <4> QED BY <1>5, <2>2, <4>1, NamesApart
    <3> QED BY <1>6, <2>2, <3>1
  <2>4. CASE q # first
    <3>1. next <= q
      <4>1. CASE q < next
        <5>1. q \in first + 1 .. next - 1
          BY <1>6, <1>8, <2>2, <2>3, <2>4, <4>1
        <5> QED BY <1>7, <2>2, <5>1, NamesApart
      <4> QED BY <1>8, <2>2, <4>1
    <3>2. code[next] # "="
      <4>1. CASE code[next] = "="
        <5>1. next < current /\ program[next] = "="
          BY <1>7, <4>1, NulIsNoBlank
        <5>2. next \in line_start .. current - 1
          BY <1>4, <1>6, <1>8, <5>1
        <5>3. p <= next
          BY <1>2, <1>11, <5>1, <5>2, FirstOnLine
        <5> QED BY <1>8, <2>2, <3>1, <5>3
      <4> QED BY <4>1
    <3> QED BY <2>1, <3>1, <3>2
  <2> QED BY <2>1, <2>4
\* If its name is this one, it is at next.
<1>12. ASSUME NEW p \in FirstAssignments, p < current, Named(first, p)
       PROVE  p = next /\ code[next] = "="
  <2>1. p \in Nat /\ first < p /\ program[p] = "=" /\ \A r \in first + 1 .. p - 1 : program[r] = " "
    BY <1>2, <1>12, AssignmentFacts DEF Named
  <2>5. p \in Nat /\ first < p /\ p < current
    BY <1>12, <2>1
  <2>2. CASE p < next
    <3>1. p \in first + 1 .. next - 1
      BY <1>6, <1>8, <2>2, <2>5
    <3> QED BY <1>7, <2>1, <3>1
  <2>3. CASE next < p
    <3>1. next \in first + 1 .. p - 1 /\ next < current
      BY <1>4, <1>6, <1>8, <2>3, <2>5
    <3>2. code[next] = " "
      BY <1>7, <2>1, <3>1
    <3>3. code[next] \notin Blanks
      BY <1>2, <1>6, SkipInLine DEF next
    <3> QED BY <3>2, <3>3 DEF Blanks
  <2>4. CASE p = next
    BY <1>7, <1>12, <2>1, <2>4
  <2>6. p = next
    BY <1>8, <2>2, <2>3, <2>5
  <2> QED BY <2>4, <2>6
<1>13. InOrder' /\ \A p : AllBelow(p)' = (\A i \in DOMAIN assigned : assigned[i] < p')
  BY <1>1, <1>3, <1>9 DEF InOrder, AllBelow
<1>14. CASE code[next] = "=" /\ pc' = next + 1 /\ at' = "operand" /\ equals' = next
  <2>1. next < current /\ program[next] = "=" /\ next \in Inside
    BY <1>7, <1>14, NulIsNoBlank
  <2>2. next \in Assignments
    <3>1. program[first] \in Names
      BY <1>1, <1>5
    <3>2. Named(first, next)
      BY <1>5, <1>7, <1>8, <3>1 DEF Named
    <3> QED BY <1>2, <1>5, <2>1, <3>2, AssignmentFacts
  <2>3. \A p \in FirstAssignments : p < current => Did(p) \/ p = next
    BY <1>11, <1>12, <1>14
  <2>4. AllBelow(equals)'
    BY <1>1, <1>6, <1>8, <1>10, <1>14 DEF AllBelow
  <2>5. pc' \in line_start' .. current' /\ equals' < pc'
    BY <1>1, <1>3, <1>4, <1>6, <1>8, <1>14, <2>1
  <2> QED BY <1>1, <1>9, <1>13, <1>14, <2>2, <2>3, <2>4, <2>5 DEF OrderInv
<1>15. CASE code[next] # "=" /\ pc' = next /\ at' = at
  <2>1. AllBelow(pc)'
    BY <1>1, <1>6, <1>8, <1>10, <1>15 DEF AllBelow
  <2>2. pc' \in line_start' .. current'
    BY <1>1, <1>3, <1>4, <1>6, <1>8, <1>15
  <2>3. ASSUME NEW p \in FirstAssignments, p < current, ~Did(p)
        PROVE  Ahead(p)'
    <3>1. PICK q \in Inside : Named(q, p) /\ next <= q
      BY <1>11, <1>12, <1>15, <2>3
    <3>2. q \in Inside' /\ Named(q, p)'
      BY <1>1, <3>1 DEF Named, Inside, NulPositions
    <3> QED BY <1>15, <3>1, <3>2 DEF Ahead
  <2> QED BY <1>1, <1>9, <1>13, <1>15, <2>1, <2>2, <2>3 DEF OrderInv
<1> QED BY <1>1, <1>14, <1>15

LEMMA OtherOrder ==
  ASSUME ExecInv, OrderInv, OtherStatement, UNCHANGED execVars, Tidy, overall_success
  PROVE  OrderInv'
<1> DEFINE first == skip_whitespace(pc)
<1>1. /\ at = "statement" /\ at \in Calling /\ ~had_error /\ code[first] \notin Names
      /\ code[pc] # NUL
      /\ code' = code /\ assigned' = assigned /\ had_error' = had_error
      /\ line_start' = line_start /\ current' = current /\ program' = program
      /\ pc' = first + 1 /\ at' \in {"statement", "runaway"}
  BY DEF OtherStatement, AtStatement, Returns, Calling, execVars
<1>2. CleanLine /\ TypeInv
  BY <1>1, CalledCleanLine DEF ExecInv
<1>3. pc \in line_start .. current /\ AllBelow(pc) /\ InOrder
      /\ \A p \in FirstAssignments : p < current => Did(p) \/ Ahead(p)
  BY <1>1 DEF OrderInv
<1>4. /\ line_start \in Nat /\ current \in Nat /\ line_start < current /\ code[current] = NUL
  BY <1>2, CleanNumbers
<1>5. /\ first \in pc .. current /\ first < current /\ code[first] = program[first]
      /\ \A r \in pc .. first - 1 : program[r] = " "
  <2>1. pc < current
    BY <1>1, <1>3, <1>4
  <2> QED BY <1>2, <1>3, <2>1, SkipInLine
<1> HIDE DEF first
<1>6. pc \in Nat /\ first \in Nat /\ pc <= first /\ first < current /\ pc' \in line_start .. current
  <2>1. pc \in line_start .. current /\ first \in pc .. current /\ first < current
    BY <1>3, <1>5
  <2> QED BY <1>1, <1>4, <2>1
<1>7. Assignments' = Assignments /\ FirstAssignments' = FirstAssignments
      /\ \A p : Did(p)' = Did(p)
  BY <1>1 DEF Assignments, FirstAssignments, Inside, NulPositions, Did
<1>8. ASSUME NEW i \in DOMAIN assigned PROVE assigned[i] < pc'
  <2>1. assigned[i] \in Assignments
    BY <1>3 DEF InOrder
  <2>2. assigned[i] \in Nat /\ assigned[i] < pc
    BY <1>2, <1>3, <2>1, AssignmentFacts DEF AllBelow
  <2> QED BY <1>1, <1>6, <2>2
<1>9. ASSUME NEW p \in FirstAssignments, p < current, ~Did(p)
      PROVE  Ahead(p)'
  <2>1. PICK q \in Inside : pc <= q /\ Named(q, p)
    BY <1>3, <1>9 DEF Ahead
  <2>2. q \in Nat /\ program[q] \in Names
    BY <1>2, <2>1, AssignmentFacts DEF Named
  <2>3. CASE q < first
    <3>1. q \in pc .. first - 1
      <4>1. q \in Nat /\ pc <= q
        BY <2>1, <2>2
      <4> QED BY <1>6, <2>3, <4>1
    <3> QED BY <1>5, <2>2, <3>1, NamesApart
  <2>4. CASE q = first
    BY <1>1, <1>5, <2>2, <2>4
  <2>5. CASE first < q
    <3>1. pc' <= q
      BY <1>1, <1>6, <2>2, <2>5
    <3>2. q \in Inside' /\ Named(q, p)'
      BY <1>1, <2>1 DEF Named, Inside, NulPositions
    <3> QED BY <3>1, <3>2 DEF Ahead
  <2>6. q < first \/ q = first \/ first < q
    BY <1>6, <2>2
  <2> QED BY <2>3, <2>4, <2>5, <2>6
<1>10. InOrder' /\ AllBelow(pc)' /\ pc' \in line_start' .. current'
  BY <1>1, <1>3, <1>6, <1>7, <1>8 DEF InOrder, AllBelow
<1> QED BY <1>1, <1>7, <1>9, <1>10 DEF OrderInv, Calling

\* While an expression is evaluated, the place in the line only moves on.
LEMMA EvalMoves ==
  ASSUME CleanLine, pc \in line_start .. current, MshStep, at # "statement", ~Assign
  PROVE  /\ pc' \in pc .. current
         /\ at \in {"operand", "operator", "return"}
         /\ at' \in {"operand", "operator", "return"} \union Stuck
         /\ equals' = equals /\ assigned' = assigned
<1> USE DEF Stuck
<1> DEFINE p == skip_whitespace(pc)
<1>1. pc \in Nat /\ current \in Nat /\ line_start \in Nat /\ pc <= current
  BY CleanNumbers
<1>2. /\ p \in pc .. current
      /\ code[p] # NUL => p < current
  BY SkipInLine
<1>3. ~NameStatement /\ ~OtherStatement
  BY DEF NameStatement, OtherStatement, AtStatement
<1> HIDE DEF p
<1>4. p \in Nat /\ pc <= p /\ p <= current
  BY <1>1, <1>2
<1>5. code[p] # NUL => p + 1 \in pc .. current /\ p \in line_start .. current - 1
  BY <1>1, <1>2, <1>4
<1>6. CASE NumberOperand
  <2>1. /\ at = "operand" /\ at' = "operator" /\ equals' = equals /\ assigned' = assigned
        /\ code[p] \in DOMAIN NumberOf /\ pc' = p + 1
    BY <1>6 DEF NumberOperand, Operand, p
  <2>2. code[p] # NUL
    BY <2>1, MshAssumption DEF NUL
  <2> QED BY <1>5, <2>1, <2>2
<1>7. CASE StringOperand
  <2>1. /\ at = "operand" /\ at' \in {"operator", "return"} /\ equals' = equals
        /\ assigned' = assigned /\ code[p] = Quote
        /\ \/ pc' = literal_end(p)
           \/ code[literal_end(p)] # NUL /\ pc' = literal_end(p) + 1
    BY <1>7 DEF StringOperand, Operand, p
  <2>2. p \in line_start .. current - 1
    BY <1>5, <2>1, NulIsNoBlank
  <2>3. /\ literal_end(p) \in p + 1 .. current
        /\ code[literal_end(p)] # NUL => literal_end(p) < current
    BY <2>2, LiteralInLine
  <2>4. literal_end(p) \in pc .. current /\ (literal_end(p) < current => literal_end(p) + 1 \in pc .. current)
    BY <1>1, <1>4, <2>3
  <2> QED BY <2>1, <2>3, <2>4
<1>8. CASE NameOperand
  <2>1. /\ at = "operand" /\ at' = "operator" /\ equals' = equals /\ assigned' = assigned
        /\ code[p] \in Names /\ pc' = p + 1
    BY <1>8 DEF NameOperand, Operand, p
  <2> QED BY <1>5, <2>1, NamesApart
<1>9. CASE NoOperand
  <2>1. /\ at = "operand" /\ at' = "operator" /\ equals' = equals /\ assigned' = assigned
        /\ pc' = p
    BY <1>9 DEF NoOperand, Operand, p
  <2> QED BY <1>2, <2>1
<1>10. CASE Operator
  <2>1. /\ at = "operator" /\ at' \in {"operand", "return"} /\ equals' = equals /\ assigned' = assigned
        /\ \/ pc' = p
           \/ code[p] \in Operators /\ pc' = p + 1
    BY <1>10 DEF Operator, p
  <2>2. NUL \notin Operators
    BY DEF NUL, Operators
  <2> QED BY <1>2, <1>5, <2>1, <2>2
<1>11. CASE CombineInts \/ CombineError \/ Concatenate \/ CombineNothing
  <2>1. /\ at = "return" /\ at' \in {"return", "fault", "corrupt"} /\ pc' = pc
        /\ equals' = equals /\ assigned' = assigned
    BY <1>11 DEF CombineInts, CombineError, Concatenate, CombineNothing, Combine
  <2> QED BY <1>1, <2>1
<1> QED BY <1>3, <1>6, <1>7, <1>8, <1>9, <1>10, <1>11 DEF MshStep

LEMMA EvalOrder ==
  ASSUME ExecInv, OrderInv, MshStep, at # "statement", ~Assign, UNCHANGED execVars,
         Tidy, overall_success
  PROVE  OrderInv'
<1>1. at \in Calling /\ line_start' = line_start /\ current' = current /\ program' = program
  BY MshStepIsCalling DEF execVars
<1>2. CleanLine /\ TypeInv /\ pc \in line_start .. current
  BY <1>1, CalledCleanLine DEF ExecInv, OrderInv
<1>3. /\ pc' \in pc .. current
      /\ at \in {"operand", "operator", "return"}
      /\ at' \in {"operand", "operator", "return"} \union Stuck
      /\ equals' = equals /\ assigned' = assigned
  BY <1>2, EvalMoves
<1>4. /\ equals \in Assignments /\ equals < pc /\ AllBelow(equals) /\ InOrder
      /\ \A p \in FirstAssignments : p < current => Did(p) \/ p = equals
  BY <1>1, <1>3 DEF OrderInv
<1>5. Assignments' = Assignments /\ FirstAssignments' = FirstAssignments
      /\ \A p : Did(p)' = Did(p)
  BY <1>1, <1>3 DEF Assignments, FirstAssignments, Inside, NulPositions, Did
<1>6. equals < pc' /\ pc' \in line_start .. current
  <2>1. equals \in Nat
    BY <1>2, <1>4, AssignmentFacts
  <2>2. line_start \in Nat /\ current \in Nat
    BY <1>2, CleanNumbers
  <2>3. equals < pc
    BY <1>4
  <2> QED BY <1>2, <1>3, <2>1, <2>2, <2>3
<1>7. InOrder' /\ AllBelow(equals)'
  BY <1>3, <1>4, <1>5 DEF InOrder, AllBelow
<1>8. at' \notin {"line", "statement", "report"}
  BY <1>3 DEF Stuck
<1> QED BY <1>1, <1>3, <1>4, <1>5, <1>6, <1>7, <1>8 DEF OrderInv

LEMMA AssignOrder ==
  ASSUME ExecInv, OrderInv, Assign, UNCHANGED execVars, Tidy, overall_success
  PROVE  OrderInv'
<1>1. /\ at = "return" /\ at' = "statement" /\ at \in Calling /\ pc' = pc
      /\ line_start' = line_start /\ current' = current /\ program' = program
      /\ \/ assigned' = Append(assigned, equals)
         \/ assigned' = assigned /\ had_error' = TRUE
  BY DEF Assign, Calling, execVars
<1>2. CleanLine /\ TypeInv /\ pc \in line_start .. current
  BY <1>1, CalledCleanLine DEF ExecInv, OrderInv
<1>3. /\ equals \in Assignments /\ equals < pc /\ AllBelow(equals) /\ InOrder
      /\ \A p \in FirstAssignments : p < current => Did(p) \/ p = equals
  BY <1>1 DEF OrderInv
<1>4. Assignments' = Assignments /\ FirstAssignments' = FirstAssignments
  BY <1>1 DEF Assignments, FirstAssignments, Inside, NulPositions
<1>5. equals \in Nat /\ equals < pc /\ pc \in Nat
  <2>1. line_start \in Nat /\ current \in Nat
    BY <1>2, CleanNumbers
  <2> QED BY <1>2, <1>3, <2>1, AssignmentFacts
<1>6. \A i \in DOMAIN assigned : assigned[i] \in Nat /\ assigned[i] < equals /\ assigned[i] < pc
  <2> SUFFICES ASSUME NEW i \in DOMAIN assigned
               PROVE  assigned[i] \in Nat /\ assigned[i] < equals /\ assigned[i] < pc
    OBVIOUS
  <2>1. assigned[i] \in Assignments /\ assigned[i] < equals
    BY <1>3 DEF InOrder, AllBelow
  <2>2. assigned[i] \in Nat
    BY <1>2, <2>1, AssignmentFacts
  <2> QED BY <1>5, <2>1, <2>2
<1>7. CASE assigned' = assigned /\ had_error' = TRUE
  <2>1. InOrder' /\ AllBelow(pc)'
    BY <1>1, <1>3, <1>4, <1>6, <1>7 DEF InOrder, AllBelow
  <2> QED BY <1>1, <1>2, <1>7, <2>1 DEF OrderInv
<1>8. CASE assigned' = Append(assigned, equals)
  <2>1. /\ assigned \in Seq(Assignments) /\ assigned' \in Seq(Assignments)
        /\ DOMAIN assigned = 1 .. Len(assigned) /\ DOMAIN assigned' = 1 .. Len(assigned) + 1
        /\ Len(assigned) \in Nat
        /\ assigned'[Len(assigned) + 1] = equals
        /\ \A i \in DOMAIN assigned : assigned'[i] = assigned[i]
    BY <1>3, <1>8 DEF InOrder
  <2>2. \A i \in DOMAIN assigned' : i \in DOMAIN assigned \/ i = Len(assigned) + 1
    BY <2>1
  <2>3. AllBelow(pc)'
    BY <1>1, <1>5, <1>6, <2>1, <2>2 DEF AllBelow
  <2>4. InOrder'
    <3> SUFFICES ASSUME NEW i \in DOMAIN assigned', NEW j \in DOMAIN assigned', i < j
                 PROVE  assigned'[i] < assigned'[j]
      BY <1>4, <2>1 DEF InOrder
    <3>1. i \in DOMAIN assigned
      BY <2>1
    <3>2. CASE j \in DOMAIN assigned
      BY <1>3, <2>1, <3>1, <3>2 DEF InOrder
    <3>3. CASE j = Len(assigned) + 1
      BY <1>6, <2>1, <3>1, <3>3
    <3> QED BY <2>2, <3>2, <3>3
  <2>5. \A p \in FirstAssignments : p < current => Did(p)'
    <3>1. \A p : Did(p) => Did(p)'
      <4> SUFFICES ASSUME NEW p, Did(p) PROVE Did(p)'
        OBVIOUS
      <4>1. PICK i \in DOMAIN assigned : assigned[i] = p
        BY DEF Did
      <4>2. i \in DOMAIN assigned' /\ assigned'[i] = p
        BY <2>1, <4>1
      <4> QED BY <4>2 DEF Did
    <3>2. \A p : p = equals => Did(p)'
      <4>1. Len(assigned) + 1 \in DOMAIN assigned'
        BY <2>1
      <4>2. \E i \in DOMAIN assigned' : assigned'[i] = equals
        BY <2>1, <4>1
      <4> QED BY <4>2 DEF Did
    <3> QED BY <1>3, <3>1, <3>2
  <2> QED BY <1>1, <1>2, <1>4, <2>3, <2>4, <2>5 DEF OrderInv
<1> QED BY <1>1, <1>7, <1>8

\* A step of the interpreter, whether the run can still succeed or not.
LEMMA MshOrder ==
  ASSUME ExecInv, OrderInv, MshStep, UNCHANGED execVars
  PROVE  OrderInv'
<1>1. overall_success' = overall_success /\ program' = program
  BY DEF execVars
<1>2. Tidy' = Tidy
  BY <1>1 DEF Tidy, Inside, NulPositions
<1>3. CASE ~(Tidy /\ overall_success)
  BY <1>1, <1>2, <1>3 DEF OrderInv
<1>4. CASE Tidy /\ overall_success /\ at = "statement"
  <2>1. NameStatement \/ OtherStatement
    BY <1>4 DEF MshStep, NumberOperand, StringOperand, NameOperand, NoOperand, Operand, Operator,
       CombineInts, CombineError, Concatenate, CombineNothing, Assign
  <2> QED BY <1>4, <2>1, NameOrder, OtherOrder
<1>5. CASE Tidy /\ overall_success /\ at # "statement"
  BY <1>5, EvalOrder, AssignOrder
<1> QED BY <1>3, <1>4, <1>5

\* A run that may succeed is about to look at a line.
LEMMA OrderAtLine ==
  ASSUME ExecInv, OrderInv, at = "line", Tidy
  PROVE  /\ InOrder /\ AllBelow(line_start) /\ line_start \in Nat /\ overall_success
         /\ \A p \in FirstAssignments : p < line_start => Did(p)
         /\ \A i \in DOMAIN assigned : assigned[i] \in Nat /\ assigned[i] < line_start
         /\ TypeInv /\ code = program /\ AtStart(line_start)
<1>1. /\ overall_success /\ TypeInv /\ code = program /\ AtStart(line_start) /\ line_start \in Places
  BY AtLine DEF ExecInv
<1>2. InOrder /\ AllBelow(line_start) /\ \A p \in FirstAssignments : p < line_start => Did(p)
  BY <1>1 DEF OrderInv
<1>3. \A i \in DOMAIN assigned : assigned[i] \in Nat /\ assigned[i] < line_start
  <2> SUFFICES ASSUME NEW i \in DOMAIN assigned
               PROVE  assigned[i] \in Nat /\ assigned[i] < line_start
    OBVIOUS
  <2>1. assigned[i] \in Assignments
    BY <1>2 DEF InOrder
  <2> QED BY <1>1, <1>2, <2>1, AssignmentFacts DEF AllBelow
<1> QED BY <1>1, <1>2, <1>3, AssignmentFacts

\* What depends only on the program and on what was assigned.
LEMMA SameOrder ==
  ASSUME program' = program, assigned' = assigned
  PROVE  /\ Assignments' = Assignments /\ FirstAssignments' = FirstAssignments /\ Tidy' = Tidy
         /\ InOrder' = InOrder /\ Inside' = Inside
         /\ \A p : Did(p)' = Did(p)
         /\ \A q, p : Named(q, p)' = Named(q, p)
BY DEF Assignments, FirstAssignments, Inside, NulPositions, Tidy, InOrder, Did, Named

LEMMA EmptyLineOrder == ASSUME ExecInv, OrderInv, EmptyLine PROVE OrderInv'
<1>1. /\ at = "line" /\ at' = "line" /\ code[line_start] = NL /\ line_start' = line_start + 1
      /\ program' = program /\ assigned' = assigned /\ overall_success' = overall_success
  BY DEF EmptyLine, mshVars
<1> SUFFICES ASSUME Tidy, overall_success PROVE OrderInv'
  BY <1>1, SameOrder DEF OrderInv
<1>2. AllBelow(line_start)'
  <2>1. \A i \in DOMAIN assigned : assigned[i] < line_start + 1
    BY <1>1, OrderAtLine
  <2> QED BY <1>1, <2>1 DEF AllBelow
<1>3. ASSUME NEW p \in FirstAssignments, p < line_start + 1 PROVE Did(p)
  <2>1. p # line_start
    <3>1. program[p] = "=" /\ program[line_start] = NL
      BY <1>1, OrderAtLine, AssignmentFacts
    <3> QED BY <3>1 DEF NL
  <2>2. p \in Nat /\ line_start \in Nat
    BY <1>1, OrderAtLine, AssignmentFacts
  <2>3. p < line_start
    BY <1>3, <2>1, <2>2
  <2> QED BY <1>1, <2>3, OrderAtLine
<1> QED BY <1>1, <1>2, <1>3, OrderAtLine, SameOrder DEF OrderInv, Calling

LEMMA ExecuteOrder == ASSUME ExecInv, OrderInv, ExecuteLine \/ ExecuteLast PROVE OrderInv'
<1>1. /\ at = "line" /\ at' = "statement" /\ pc' = line_start /\ line_start' = line_start
      /\ program' = program /\ assigned' = assigned /\ overall_success' = overall_success
      /\ line_start < current' /\ had_error' = FALSE
  BY DEF ExecuteLine, ExecuteLast, msh_execute
<1> SUFFICES ASSUME Tidy, overall_success PROVE OrderInv'
  BY <1>1, SameOrder DEF OrderInv
<1>2. AllBelow(pc)'
  <2>1. \A i \in DOMAIN assigned : assigned[i] < line_start
    BY <1>1, OrderAtLine
  <2> QED BY <1>1, <2>1 DEF AllBelow
<1>3. pc' \in line_start' .. current'
  <2>1. LineEnd(line_start) \in line_start .. CODE_SIZE - 1 /\ current' = LineEnd(line_start)
    BY <1>1, AtLine, LineEndSound DEF ExecuteLine, ExecuteLast
  <2>2. line_start \in Nat /\ CODE_SIZE \in Nat
    BY <1>1, OrderAtLine, SizePositive
  <2> HIDE DEF LineEnd
  <2> QED BY <1>1, <2>1, <2>2
<1>4. ASSUME NEW p \in FirstAssignments, ~Did(p) PROVE Ahead(p)'
  <2>1. PICK q \in Inside : Named(q, p)
    BY <1>1, OrderAtLine, AssignmentFacts
  <2>2. p \in Nat /\ q \in Nat /\ q < p /\ program[q] \in Names
    BY <1>1, <2>1, OrderAtLine, AssignmentFacts DEF Named
  <2>3. line_start \in Nat /\ line_start <= p
    <3>1. ~(p < line_start)
      BY <1>1, <1>4, OrderAtLine
    <3> QED BY <1>1, <2>2, <3>1, OrderAtLine
  <2>4. line_start <= q
    <3>1. CASE q < line_start
      <4>1. program[line_start - 1] = NL
        BY <1>1, <2>2, <3>1, OrderAtLine DEF AtStart
      <4>2. q = line_start - 1 \/ line_start - 1 \in q + 1 .. p - 1
        BY <2>2, <2>3, <3>1
      <4>3. q # line_start - 1
        BY <2>2, <4>1, NamesApart
      <4>4. program[line_start - 1] = " "
        BY <2>1, <4>2, <4>3 DEF Named
      <4> QED BY <4>1, <4>4 DEF NL
    <3> QED BY <2>2, <2>3, <3>1
  <2>5. q \in Inside' /\ Named(q, p)' /\ pc' <= q
    BY <1>1, <2>1, <2>4, SameOrder
  <2> QED BY <2>5 DEF Ahead
<1> QED BY <1>1, <1>2, <1>3, <1>4, OrderAtLine, SameOrder DEF OrderInv, Calling

\* The interpreter has returned without an error: the line is done.
LEMMA LineDone ==
  ASSUME ExecInv, OrderInv, Returns, ~had_error, Tidy, overall_success
  PROVE  /\ InOrder /\ TypeInv /\ current \in Nat /\ program[current] \in {NL, NUL}
         /\ \A i \in DOMAIN assigned : assigned[i] < current
         /\ \A p \in FirstAssignments : p <= current => Did(p)
<1>1. at = "statement" /\ at \in Calling /\ code[pc] = NUL
  BY DEF Returns, Calling
<1>2. CleanLine /\ TypeInv /\ program[current] \in {NL, NUL}
  BY <1>1, CalledCleanLine DEF ExecInv
<1>3. /\ pc \in line_start .. current /\ InOrder /\ AllBelow(pc)
      /\ \A p \in FirstAssignments : p < current => Did(p) \/ Ahead(p)
  BY <1>1 DEF OrderInv
<1>4. current \in Nat /\ line_start \in Nat
  BY <1>2, CleanNumbers
<1>5. pc = current
  <2>1. CASE pc \in line_start .. current - 1
    BY <1>1, <1>2, <2>1 DEF CleanLine
  <2> QED BY <1>3, <1>4, <2>1
<1>6. ASSUME NEW p \in FirstAssignments, p <= current PROVE Did(p)
  <2>1. p \in Nat /\ program[p] = "="
    BY <1>2, AssignmentFacts
  <2>2. p # current
    BY <1>2, <2>1 DEF NL, NUL
  <2>3. p < current
    BY <1>4, <1>6, <2>1, <2>2
  <2>4. CASE Ahead(p)
    <3>1. PICK q \in Inside : pc <= q /\ q < p
      BY <2>4 DEF Ahead, Named
    <3>2. q \in Nat
      BY <1>2, AssignmentFacts
    <3> QED BY <1>4, <1>5, <2>1, <2>3, <3>1, <3>2
  <2> QED BY <1>3, <2>3, <2>4
<1> QED BY <1>2, <1>3, <1>4, <1>5, <1>6 DEF AllBelow

LEMMA LineSucceedsOrder == ASSUME ExecInv, OrderInv, LineSucceeds PROVE OrderInv'
<1>1. /\ Returns /\ ~had_error /\ at' = "line" /\ line_start' = current + 1
      /\ program' = program /\ assigned' = assigned /\ overall_success' = overall_success
  BY DEF LineSucceeds, LineReturns
<1> SUFFICES ASSUME Tidy, overall_success PROVE OrderInv'
  BY <1>1, SameOrder DEF OrderInv
<1>2. TypeInv /\ InOrder /\ current \in Nat
  BY <1>1, LineDone
<1>3. AllBelow(line_start)'
  <2>1. ASSUME NEW i \in DOMAIN assigned PROVE assigned[i] < current + 1
    <3>1. assigned[i] \in Assignments
      BY <1>2 DEF InOrder
    <3>2. assigned[i] \in Nat /\ assigned[i] < current
      BY <1>1, <1>2, <3>1, LineDone, AssignmentFacts
    <3> QED BY <1>2, <3>2
  <2> QED BY <1>1, <2>1 DEF AllBelow
<1>4. ASSUME NEW p \in FirstAssignments, p < current + 1 PROVE Did(p)
  <2>1. p \in Nat
    BY <1>2, AssignmentFacts
  <2>2. p <= current
    BY <1>2, <1>4, <2>1
  <2> QED BY <1>1, <2>2, LineDone
<1> QED BY <1>1, <1>2, <1>3, <1>4, SameOrder DEF OrderInv, Calling

LEMMA LastReturnsOrder == ASSUME ExecInv, OrderInv, LastReturns PROVE OrderInv'
<1>1. /\ Returns /\ last /\ at' = "report" /\ overall_success' = (overall_success /\ ~had_error)
      /\ program' = program /\ assigned' = assigned
  BY DEF LastReturns
<1> SUFFICES ASSUME Tidy, overall_success, ~had_error PROVE OrderInv'
  BY <1>1, SameOrder DEF OrderInv
<1>2. TypeInv /\ InOrder /\ current \in Nat
  BY <1>1, LineDone
<1>3. program[current] = NUL /\ current \in Places
  BY <1>1, AtReturn
<1>4. ASSUME NEW p \in FirstAssignments PROVE Did(p)
  <2>1. p \in Inside /\ p \in Nat
    BY <1>2, AssignmentFacts DEF Assignments
  <2>2. current \in NulPositions
    BY <1>2, <1>3 DEF NulPositions, TypeInv
  <2>3. p < current
    BY <2>1, <2>2 DEF Inside
  <2>4. p <= current
    BY <1>2, <2>1, <2>3
  <2> QED BY <1>1, <2>4, LineDone
<1> QED BY <1>1, <1>2, <1>4, SameOrder DEF OrderInv, Calling

LEMMA NoLastOrder == ASSUME ExecInv, OrderInv, NoLast PROVE OrderInv'
<1>1. /\ at = "line" /\ code[line_start] = NUL /\ at' = "report"
      /\ overall_success' = overall_success /\ program' = program /\ assigned' = assigned
  BY DEF NoLast, execVars
<1> SUFFICES ASSUME Tidy, overall_success PROVE OrderInv'
  BY <1>1, SameOrder DEF OrderInv
<1>2. TypeInv /\ InOrder /\ program[line_start] = NUL /\ line_start \in Places
  BY <1>1, OrderAtLine DEF AtStart
<1>3. ASSUME NEW p \in FirstAssignments PROVE Did(p)
  <2>1. p \in Inside
    BY <1>2, AssignmentFacts DEF Assignments
  <2>2. line_start \in NulPositions
    BY <1>2 DEF NulPositions, TypeInv
  <2>3. p < line_start
    BY <2>1, <2>2 DEF Inside
  <2> QED BY <1>1, <2>3, OrderAtLine
<1> QED BY <1>1, <1>2, <1>3, SameOrder DEF OrderInv, Calling

LEMMA FirstAreNat == TypeInv => \A p \in FirstAssignments : p \in Nat
BY AssignmentFacts

LEMMA CallOrder == ASSUME ExecInv, execute_buffer PROVE OrderInv'
<1>1. at' = "line" /\ line_start' = 0 /\ assigned' = <<>>
  BY DEF execute_buffer
<1>2. TypeInv'
  BY CallKeepsInv DEF ExecInv
<1>3. InOrder' /\ AllBelow(line_start)'
  BY <1>1 DEF InOrder, AllBelow
<1>4. \A p \in FirstAssignments' : p \in Nat
  <2>1. (TypeInv => \A p \in FirstAssignments : p \in Nat)'
    BY FirstAreNat, PTL
  <2> QED BY <1>2, <2>1
<1>5. \A p \in FirstAssignments' : ~(p < 0)
  BY <1>4
<1> QED BY <1>1, <1>3, <1>5 DEF OrderInv, Calling

LEMMA OrderInvariant == ExecSpec => [](ExecInv /\ OrderInv)
<1>1. ExecInit => OrderInv
  BY DEF ExecInit, MshInit, OrderInv, Calling
<1>2. ExecInv /\ OrderInv /\ [ExecNext]_allVars => OrderInv'
  <2> SUFFICES ASSUME ExecInv, OrderInv, [ExecNext]_allVars PROVE OrderInv'
    OBVIOUS
  <2>1. CASE Fill \/ Report
    <3>1. at' = "idle"
      BY <2>1 DEF Fill, Report
    <3> QED BY <3>1 DEF OrderInv, Calling
  <2>2. CASE LineFails
    BY <2>2 DEF LineFails, OrderInv
  <2>3. CASE UNCHANGED allVars
    <3>1. /\ program' = program /\ assigned' = assigned /\ overall_success' = overall_success
          /\ at' = at /\ pc' = pc /\ equals' = equals /\ had_error' = had_error
          /\ line_start' = line_start /\ current' = current
      BY <2>3 DEF allVars, mshVars, execVars
    <3>2. AllBelow(line_start)' = AllBelow(line_start) /\ AllBelow(pc)' = AllBelow(pc)
          /\ AllBelow(equals)' = AllBelow(equals)
      BY <3>1 DEF AllBelow
    <3>3. \A p : Ahead(p)' = Ahead(p)
      BY <3>1, SameOrder DEF Ahead
    <3> QED BY <3>1, <3>2, <3>3, SameOrder DEF OrderInv
  <2>4. CASE MshStep /\ UNCHANGED execVars
    BY <2>4, MshOrder
  <2> QED
    BY <2>1, <2>2, <2>3, <2>4, CallOrder, EmptyLineOrder, ExecuteOrder, LineSucceedsOrder,
       LastReturnsOrder, NoLastOrder DEF ExecNext, ExecStep
<1> QED BY <1>1, <1>2, ExecInitInv, NextKeepsInv, PTL DEF ExecSpec

(***************************************************************************)
(* Unless a line ends in a blank, a run of execute_buffer that reports     *)
(* success has done assignments of the text only, in their order and none  *)
(* twice, and every line's first one (kernel.c:432-450, 456-461,           *)
(* microshell.c:363-391).                                                  *)
(***************************************************************************)
THEOREM SuccessMeansDone == ExecSpec => []SuccessRunsOnce
<1>1. ExecInv /\ OrderInv => SuccessRunsOnce
  BY DEF OrderInv, InOrder, Did, SuccessRunsOnce
<1> QED BY <1>1, OrderInvariant, PTL

----------------------------------------------------------------------------
(* The values of the interpreter *)

IntRange == -INT_MAX - 1 .. INT_MAX

\* What the interpreter makes: an address only in a string, a text only with
\* an address.
SoundValues ==
  {v \in Values : /\ v.str = NULL => v.text = <<>>
                  /\ v.str # NULL => v.type = "str"}

Frames == [left : SoundValues, op : Operators]

LEMMA IntMax == INT_MAX \in Nat /\ INT_MAX >= 1
<1>1. INT_MAX \in Nat \ {0}
  BY MshAssumption
<1> QED BY <1>1

LEMMA NumbersFit == \A n \in DOMAIN NumberOf : NumberOf[n] \in IntRange
BY MshAssumption DEF IntRange

LEMMA EmptyText == <<>> \in Texts /\ Len(<<>>) = 0
BY DEF Texts

LEMMA ValueFields ==
  ASSUME NEW v \in SoundValues
  PROVE  /\ v.name \in Names \union {""} /\ v.type \in {"none", "int", "str"}
         /\ v.int \in IntRange /\ v.str \in Nat \union {NULL}
         /\ v.text \in Texts /\ Len(v.text) \in Nat
         /\ v.str = NULL => v.text = <<>>
         /\ v.str # NULL => v.type = "str"
<1>1. v \in Values
  BY DEF SoundValues
<1>2. v.text \in Texts
  BY <1>1 DEF Values
<1>3. Len(v.text) \in Nat
  BY <1>2 DEF Texts
<1> QED BY <1>1, <1>2, <1>3 DEF SoundValues, Values, IntRange

LEMMA NoneSound == None \in SoundValues /\ None.str = NULL /\ None.text = <<>>
<1>1. 0 \in -INT_MAX - 1 .. INT_MAX
  BY IntMax
<1> QED BY <1>1, EmptyText DEF SoundValues, Values, None, NULL

LEMMA IntSound ==
  ASSUME NEW n \in IntRange
  PROVE  /\ IntValue(n) \in SoundValues
         /\ IntValue(n).type = "int" /\ IntValue(n).int = n
         /\ IntValue(n).str = NULL /\ IntValue(n).text = <<>>
BY IntMax, EmptyText DEF SoundValues, Values, None, NULL, IntValue, IntRange

LEMMA StrSound ==
  ASSUME NEW addr \in Nat \union {NULL}, NEW text \in Texts
  PROVE  /\ StrValue(addr, text) \in SoundValues
         /\ StrValue(addr, text).str = addr
         /\ StrValue(addr, text).text = IF addr = NULL THEN <<>> ELSE text
<1>1. (IF addr = NULL THEN <<>> ELSE text) \in Texts
  BY EmptyText
<1>2. 0 \in -INT_MAX - 1 .. INT_MAX
  BY IntMax
<1> QED BY <1>1, <1>2 DEF SoundValues, Values, None, NULL, StrValue

LEMMA NamedSound ==
  ASSUME NEW v \in SoundValues, NEW n \in Names \union {""}
  PROVE  /\ [v EXCEPT !.name = n] \in SoundValues
         /\ [v EXCEPT !.name = n].str = v.str
         /\ [v EXCEPT !.name = n].text = v.text
BY DEF SoundValues, Values

----------------------------------------------------------------------------
(* The arithmetic stays in the range of an int *)

LEMMA WrapRange == ASSUME NEW n \in Int PROVE wrap(n) \in IntRange
<1> DEFINE d == 2 * INT_MAX + 2
<1>1. d \in Nat \ {0} /\ n + INT_MAX + 1 \in Int
  BY IntMax
<1>2. (n + INT_MAX + 1) % d \in 0 .. d - 1
  <2> HIDE DEF d
  <2>1. \A k \in Int : k % d \in 0 .. d - 1
    BY <1>1
  <2> QED BY <1>1, <2>1
<1> QED BY <1>2, IntMax DEF wrap, IntRange

\* A quotient is never larger than what was divided, and smaller by half
\* unless the divisor is one.
LEMMA DivBound ==
  ASSUME NEW a \in Nat, NEW b \in Nat \ {0}
  PROVE  /\ a \div b \in Nat /\ a \div b <= a
         /\ b >= 2 => 2 * (a \div b) <= a
<1> DEFINE q == a \div b  r == a % b
<1>1. q \in Nat /\ r \in 0 .. b - 1 /\ a = b * q + r
  OBVIOUS
<1> HIDE DEF q, r
<1>2. ASSUME NEW k \in Nat, k <= b PROVE k * q <= b * q
  <2>1. b = k + (b - k) /\ b - k \in Nat
    BY <1>2
  <2>2. b * q = k * q + (b - k) * q /\ (b - k) * q \in Nat /\ k * q \in Nat
    BY <2>1, <1>1
  <2> QED BY <2>2
<1>3. 1 * q <= b * q /\ (b >= 2 => 2 * q <= b * q)
  BY <1>2
<1>4. b * q \in Nat /\ b * q <= a
  BY <1>1
<1> QED BY <1>1, <1>3, <1>4 DEF q

LEMMA QuotientRange ==
  ASSUME NEW a \in IntRange, NEW b \in IntRange, b # 0, ~(a = -INT_MAX - 1 /\ b = -1)
  PROVE  quotient(a, b) \in IntRange
<1> DEFINE x == IF a < 0 THEN -a ELSE a
           y == IF b < 0 THEN -b ELSE b
           q == x \div y
<1>1. x \in Nat /\ y \in Nat \ {0} /\ x <= INT_MAX + 1
  BY IntMax DEF IntRange
<1>2. q \in Nat /\ q <= x /\ (y >= 2 => 2 * q <= x)
  <2> HIDE DEF x, y
  <2> QED BY <1>1, DivBound
<1>3. quotient(a, b) = IF (a < 0) = (b < 0) THEN q ELSE -q
  BY DEF quotient
<1>4. CASE (a < 0) = (b < 0)
  <2>1. q <= INT_MAX
    <3> HIDE DEF q
    <3>1. x <= INT_MAX \/ y >= 2
      BY <1>4, IntMax DEF IntRange
    <3>2. x \in Nat /\ x <= INT_MAX + 1
      BY <1>1
    <3> HIDE DEF x, y
    <3> QED BY <1>2, <3>1, <3>2, IntMax
  <2> QED BY <2>1, <1>2, <1>3, <1>4, IntMax DEF IntRange
<1>5. CASE ~((a < 0) = (b < 0))
  <2>1. q <= INT_MAX + 1 /\ q \in Nat
    <3> HIDE DEF x, y, q
    <3> QED BY <1>1, <1>2, IntMax
  <2> HIDE DEF q
  <2> QED BY <2>1, <1>3, <1>5, IntMax DEF IntRange
<1> QED BY <1>4, <1>5

LEMMA AtoiRange == ASSUME NEW text PROVE atoi(text) \in IntRange
<1> DEFINE from == CHOOSE i \in 1 .. Len(text) + 1 :
                     /\ i <= Len(text) => text[i] \notin Blanks
                     /\ \A j \in 1 .. i - 1 : text[j] \in Blanks
           signed == from <= Len(text) /\ text[from] \in {"+", "-"}
           digits == IF signed THEN from + 1 ELSE from
           number == IF digits <= Len(text) /\ text[digits] \in DOMAIN NumberOf
                     THEN NumberOf[text[digits]] ELSE 0
<1>1. atoi(text) = IF signed /\ text[from] = "-" THEN wrap(-number) ELSE number
  BY DEF atoi
<1> HIDE DEF from
<1>2. number \in IntRange
  <2>1. 0 \in IntRange
    BY IntMax DEF IntRange
  <2> HIDE DEF digits
  <2> QED BY <2>1, NumbersFit
<1> HIDE DEF number
<1>3. wrap(-number) \in IntRange
  <2>1. -number \in Int
    BY <1>2, IntMax DEF IntRange
  <2> QED BY <2>1, WrapRange
<1> QED BY <1>1, <1>2, <1>3

LEMMA ConvertedSound ==
  ASSUME NEW v \in SoundValues
  PROVE  convert_var(v) \in SoundValues /\ convert_var(v).int \in IntRange
BY AtoiRange, IntSound, ValueFields DEF convert_var

----------------------------------------------------------------------------
(* Who owns which string *)

Apart(v, w) == v.str = w.str => v.str = NULL

\* The string of v is a block of its length below h, or it is NULL.
Owned(v, h, bl) ==
  v.str # NULL =>
    /\ v.str + Len(v.text) + 1 <= h
    /\ \E b \in DOMAIN bl : bl[b].addr = v.str /\ bl[b].size = Len(v.text) + 1

\* The variables vs, the values of the waiting calls st and the current value
\* cur have a string each that no other has.
Strings(vs, st, cur, h, bl) ==
  /\ \A i \in DOMAIN vs : Owned(vs[i], h, bl)
  /\ \A k \in DOMAIN st : Owned(st[k].left, h, bl)
  /\ Owned(cur, h, bl)
  /\ \A i, j \in DOMAIN vs : i # j => Apart(vs[i], vs[j])
  /\ \A k, l \in DOMAIN st : k # l => Apart(st[k].left, st[l].left)
  /\ \A i \in DOMAIN vs, k \in DOMAIN st : Apart(vs[i], st[k].left)
  /\ \A i \in DOMAIN vs : Apart(vs[i], cur)
  /\ \A k \in DOMAIN st : Apart(st[k].left, cur)

LEMMA DropString ==
  ASSUME NEW vs, NEW st, NEW cur, NEW h, NEW bl, NEW w,
         Strings(vs, st, cur, h, bl), w.str = NULL
  PROVE  Strings(vs, st, w, h, bl)
BY DEF Strings, Owned, Apart

LEMMA SameString ==
  ASSUME NEW vs, NEW st, NEW cur, NEW h, NEW bl, NEW w,
         Strings(vs, st, cur, h, bl), w.str = cur.str, w.text = cur.text
  PROVE  Strings(vs, st, w, h, bl)
BY DEF Strings, Owned, Apart

LEMMA PushString ==
  ASSUME NEW vs \in Seq(SoundValues), NEW st \in Seq(Frames), NEW cur \in SoundValues,
         NEW h, NEW bl, NEW op \in Operators, Strings(vs, st, cur, h, bl)
  PROVE  /\ <<[left |-> cur, op |-> op]>> \o st \in Seq(Frames)
         /\ Strings(vs, <<[left |-> cur, op |-> op]>> \o st, None, h, bl)
<1> DEFINE f == [left |-> cur, op |-> op]
           st2 == <<f>> \o st
<1>1. f \in Frames /\ f.left = cur
  BY DEF Frames
<1>2. st2 \in Seq(Frames) /\ Len(st2) = Len(st) + 1 /\ st2[1] = f
  BY <1>1
<1>3. \A k \in DOMAIN st2 : k # 1 => k - 1 \in DOMAIN st /\ st2[k] = st[k - 1]
  BY <1>1
<1>4. \A k \in DOMAIN st2 : 
          \/ k = 1 /\ st2[k].left = cur
          \/ k # 1 /\ k - 1 \in DOMAIN st /\ st2[k].left = st[k - 1].left
  BY <1>1, <1>2, <1>3
<1>5. \A k, l \in DOMAIN st2 : k # l => k - 1 # l - 1
  BY <1>2
<1> HIDE DEF f, st2
<1>6. Strings(vs, st2, None, h, bl)
  <2>1. \A k \in DOMAIN st2 : Owned(st2[k].left, h, bl)
    BY <1>4 DEF Strings
  <2>2. \A k, l \in DOMAIN st2 : k # l => Apart(st2[k].left, st2[l].left)
    <3> SUFFICES ASSUME NEW k \in DOMAIN st2, NEW l \in DOMAIN st2, k # l
                 PROVE  Apart(st2[k].left, st2[l].left)
      OBVIOUS
    <3>1. k - 1 # l - 1
      BY <1>5
    <3>2. CASE k = 1
      BY <1>4, <3>2 DEF Strings, Apart
    <3>3. CASE l = 1
      BY <1>4, <3>3 DEF Strings, Apart
    <3>4. CASE k # 1 /\ l # 1
      BY <1>4, <3>1, <3>4 DEF Strings
    <3> QED BY <3>2, <3>3, <3>4
  <2>3. \A i \in DOMAIN vs, k \in DOMAIN st2 : Apart(vs[i], st2[k].left)
    BY <1>4 DEF Strings
  <2> QED BY <2>1, <2>2, <2>3, NoneSound DEF Strings, Owned, Apart
<1> QED BY <1>2, <1>6 DEF st2, f

LEMMA PopString ==
  ASSUME NEW vs \in Seq(SoundValues), NEW st \in Seq(Frames), st # <<>>,
         NEW cur, NEW h, NEW bl, Strings(vs, st, cur, h, bl)
  PROVE  /\ Tail(st) \in Seq(Frames)
         /\ Strings(vs, Tail(st), st[1].left, h, bl)
<1>1. /\ Tail(st) \in Seq(Frames) /\ 1 \in DOMAIN st
      /\ \A k \in DOMAIN Tail(st) : k + 1 \in DOMAIN st /\ k + 1 # 1 /\ Tail(st)[k] = st[k + 1]
      /\ \A k, l \in DOMAIN Tail(st) : k # l => k + 1 # l + 1
  OBVIOUS
<1> QED BY <1>1 DEF Strings

LEMMA FreshString ==
  ASSUME NEW vs, NEW st, NEW cur, NEW h \in Nat, NEW bl \in Seq(Block),
         NEW w, NEW size \in Nat, Len(w.text) + 1 = size, w.str = h,
         \A i \in DOMAIN vs : vs[i] \in SoundValues,
         \A k \in DOMAIN st : st[k].left \in SoundValues,
         Strings(vs, st, cur, h, bl)
  PROVE  Strings(vs, st, w, h + size, Append(bl, [addr |-> h, size |-> size]))
<1> DEFINE bl2 == Append(bl, [addr |-> h, size |-> size])
<1>1. /\ \A b \in DOMAIN bl : b \in DOMAIN bl2 /\ bl2[b] = bl[b]
      /\ Len(bl) + 1 \in DOMAIN bl2
      /\ bl2[Len(bl) + 1].addr = h /\ bl2[Len(bl) + 1].size = size
  OBVIOUS
<1> HIDE DEF bl2
<1>2. ASSUME NEW v \in SoundValues, Owned(v, h, bl)
      PROVE  Owned(v, h + size, bl2) /\ Apart(v, w)
  <2>1. CASE v.str = NULL
    BY <2>1 DEF Owned, Apart
  <2>2. CASE v.str # NULL
    <3>1. v.str \in Nat /\ Len(v.text) \in Nat /\ v.str + Len(v.text) + 1 <= h
      BY <1>2, <2>2, ValueFields DEF Owned
    <3>2. PICK b \in DOMAIN bl : bl[b].addr = v.str /\ bl[b].size = Len(v.text) + 1
      BY <1>2, <2>2 DEF Owned
    <3>3. Owned(v, h + size, bl2)
      BY <1>1, <3>1, <3>2 DEF Owned
    <3>4. Apart(v, w)
      BY <3>1 DEF Apart
    <3> QED BY <3>3, <3>4
  <2> QED BY <2>1, <2>2
<1>3. Owned(w, h + size, bl2)
  BY <1>1 DEF Owned
<1> QED BY <1>2, <1>3 DEF Strings, bl2

LEMMA StoreString ==
  ASSUME NEW vs \in Seq(SoundValues), NEW st, NEW cur \in SoundValues, NEW h, NEW bl,
         NEW vs2, \/ vs2 = Append(vs, cur)
                  \/ \E i \in DOMAIN vs : vs2 = [vs EXCEPT ![i] = cur],
         Strings(vs, st, cur, h, bl)
  PROVE  vs2 \in Seq(SoundValues) /\ Strings(vs2, st, None, h, bl)
<1>1. CASE vs2 = Append(vs, cur)
  <2>1. \A i \in DOMAIN vs2 : (vs2[i] = cur /\ i = Len(vs) + 1) \/ (i \in DOMAIN vs /\ vs2[i] = vs[i])
    BY <1>1
  <2> QED BY <1>1, <2>1, NoneSound DEF Strings, Apart, Owned
<1>2. CASE \E i \in DOMAIN vs : vs2 = [vs EXCEPT ![i] = cur]
  <2>1. PICK i \in DOMAIN vs : vs2 = [vs EXCEPT ![i] = cur]
    BY <1>2
  <2>2. \A k \in DOMAIN vs2 : (vs2[k] = cur /\ k = i) \/ (k \in DOMAIN vs /\ vs2[k] = vs[k])
    BY <2>1
  <2>3. vs2 \in Seq(SoundValues)
    BY <2>1
  <2> DEFINE Old(k) == k \in DOMAIN vs /\ vs2[k] = vs[k]
  <2>4. \A k \in DOMAIN vs2 : Owned(vs2[k], h, bl)
    BY <2>2 DEF Strings
  <2>5. \A k, l \in DOMAIN vs2 : k # l => Apart(vs2[k], vs2[l])
    <3> SUFFICES ASSUME NEW k \in DOMAIN vs2, NEW l \in DOMAIN vs2, k # l
                 PROVE  Apart(vs2[k], vs2[l])
      OBVIOUS
    <3>1. CASE Old(k) /\ Old(l)
      BY <3>1 DEF Strings
    <3>2. CASE ~Old(k) /\ Old(l)
      <4>1. vs2[k] = cur
        BY <2>2, <3>2
      <4> QED BY <3>2, <4>1 DEF Strings, Apart
    <3>3. CASE Old(k) /\ ~Old(l)
      <4>1. vs2[l] = cur
        BY <2>2, <3>3
      <4> QED BY <3>3, <4>1 DEF Strings, Apart
    <3>4. CASE ~Old(k) /\ ~Old(l)
      BY <2>2, <3>4
    <3> QED BY <3>1, <3>2, <3>3, <3>4
  <2>6. \A k \in DOMAIN vs2, l \in DOMAIN st : Apart(vs2[k], st[l].left)
    BY <2>2 DEF Strings, Apart
  <2> QED BY <2>3, <2>4, <2>5, <2>6, NoneSound DEF Strings, Apart, Owned
<1> QED BY <1>1, <1>2

----------------------------------------------------------------------------
(* How long strings get *)

\* c[k] bounds the texts of the calls that wait behind the k-th.  A text at
\* address 0 only grows by what was taken from the heap.
Bound(st, n, lo, h) ==
  \E c \in [1 .. Len(st) + 1 -> Nat], t \in LowTexts :
    /\ \A k \in 1 .. Len(st) : c[k + 1] + Len(st[k].left.text) <= c[k]
    /\ c[1] + n <= h
    /\ lo + c[1] + n <= Len(t) + CODE_SIZE - 1 + h

LEMMA LowLength == \A t \in LowTexts : Len(t) \in Nat /\ 3 * HEAP_SIZE + 2 * (CODE_SIZE + Len(t)) < WORD
BY TextAssumption DEF Texts

LEMMA BoundFits ==
  ASSUME NEW st \in Seq(Frames), NEW n \in Nat, NEW lo \in Nat, NEW h \in Nat, h <= HEAP_SIZE,
         NEW a \in Nat, NEW b \in Nat, a <= h \/ a <= lo \/ a <= CODE_SIZE, b <= h \/ b <= lo,
         Bound(st, n, lo, h)
  PROVE  h + a + b + 1 < WORD
<1>1. PICK c \in [1 .. Len(st) + 1 -> Nat], t \in LowTexts :
        lo + c[1] + n <= Len(t) + CODE_SIZE - 1 + h
  BY DEF Bound
<1>2. c[1] \in Nat
  OBVIOUS
<1> DEFINE len == Len(t)
<1>3. len \in Nat /\ 3 * HEAP_SIZE + 2 * (CODE_SIZE + len) < WORD
  BY LowLength
<1>4. WORD \in Nat /\ HEAP_SIZE \in Nat /\ CODE_SIZE \in Nat \ {0}
  BY HeapAssumption, MshAssumption
<1>5. lo <= len + CODE_SIZE - 1 + h
  BY <1>1, <1>2, <1>3, <1>4
<1> HIDE DEF len
<1> QED BY <1>3, <1>4, <1>5

LEMMA BoundPush ==
  ASSUME NEW st \in Seq(Frames), NEW cur \in SoundValues, NEW lo \in Nat, NEW h \in Nat,
         NEW op \in Operators, Bound(st, Len(cur.text), lo, h)
  PROVE  Bound(<<[left |-> cur, op |-> op]>> \o st, 0, lo, h)
<1> DEFINE f == [left |-> cur, op |-> op]
           st2 == <<f>> \o st
           n == Len(cur.text)
<1>1. PICK c \in [1 .. Len(st) + 1 -> Nat], t \in LowTexts :
        /\ \A k \in 1 .. Len(st) : c[k + 1] + Len(st[k].left.text) <= c[k]
        /\ c[1] + n <= h
        /\ lo + c[1] + n <= Len(t) + CODE_SIZE - 1 + h
  BY DEF Bound
<1>2. n \in Nat /\ c[1] \in Nat /\ Len(t) \in Nat /\ f.left = cur /\ f \in Frames
  <2>1. n \in Nat
    BY ValueFields
  <2>2. c[1] \in Nat /\ Len(t) \in Nat
    BY LowLength
  <2>3. f.left = cur /\ f \in Frames
    BY DEF Frames
  <2> QED BY <2>1, <2>2, <2>3
<1>3. Len(st2) = Len(st) + 1 /\ st2[1] = f /\ \A k \in 2 .. Len(st2) : st2[k] = st[k - 1]
  BY <1>2
<1> DEFINE c2 == [k \in 1 .. Len(st2) + 1 |-> IF k = 1 THEN c[1] + n ELSE c[k - 1]]
<1>4. c2 \in [1 .. Len(st2) + 1 -> Nat] /\ c2[1] = c[1] + n
  <2> HIDE DEF n, st2
  <2> QED BY <1>2, <1>3
<1>5. \A k \in 1 .. Len(st2) : c2[k + 1] = c[k]
  BY <1>3
<1>6. ASSUME NEW k \in 1 .. Len(st2) PROVE c2[k + 1] + Len(st2[k].left.text) <= c2[k]
  <2>1. CASE k = 1
    <3>1. c2[k + 1] = c[1] /\ Len(st2[k].left.text) = n
      BY <1>2, <1>3, <1>5, <2>1
    <3> HIDE DEF c2, n, st2
    <3> QED BY <1>2, <1>4, <2>1, <3>1
  <2>2. CASE k # 1
    <3>1. k - 1 \in 1 .. Len(st) /\ c2[k] = c[k - 1] /\ c2[k + 1] = c[k] /\ st2[k] = st[k - 1]
      BY <1>3, <1>5, <2>2
    <3> HIDE DEF c2, n, st2
    <3> QED BY <1>1, <3>1
  <2> QED BY <2>1, <2>2
<1>7. c2[1] + 0 <= h /\ lo + c2[1] + 0 <= Len(t) + CODE_SIZE - 1 + h
  <2> HIDE DEF c2, n
  <2> QED BY <1>1, <1>2, <1>4, SizePositive
<1> HIDE DEF c2, st2
<1>8. Bound(st2, 0, lo, h)
  BY <1>4, <1>6, <1>7 DEF Bound
<1> QED BY <1>8 DEF st2, f

LEMMA BoundStays ==
  ASSUME NEW st \in Seq(Frames), NEW n \in Nat, NEW lo \in Nat, NEW h \in Nat, Bound(st, n, lo, h),
         NEW n2 \in Nat, NEW lo2 \in Nat, NEW h2 \in Nat, n2 + h <= n + h2,
         \/ lo2 + n2 + h <= lo + n + h2
         \/ lo2 + n2 + h <= CODE_SIZE - 1 + h2
  PROVE  Bound(st, n2, lo2, h2)
<1>1. PICK c \in [1 .. Len(st) + 1 -> Nat], t \in LowTexts :
        /\ \A k \in 1 .. Len(st) : c[k + 1] + Len(st[k].left.text) <= c[k]
        /\ c[1] + n <= h
        /\ lo + c[1] + n <= Len(t) + CODE_SIZE - 1 + h
  BY DEF Bound
<1>2. c[1] \in Nat /\ Len(t) \in Nat
  BY LowLength
<1>3. c[1] + n2 <= h2 /\ lo2 + c[1] + n2 <= Len(t) + CODE_SIZE - 1 + h2
  <2>1. PICK x, y \in Nat : x = c[1] /\ y = Len(t)
    BY <1>2
  <2>2. x + n <= h /\ lo + x + n <= y + CODE_SIZE - 1 + h
    BY <1>1, <2>1
  <2>3. x + n2 <= h2 /\ lo2 + x + n2 <= y + CODE_SIZE - 1 + h2
    BY <2>2, SizePositive
  <2> QED BY <2>1, <2>3
<1> QED BY <1>1, <1>3 DEF Bound

LEMMA BoundPop ==
  ASSUME NEW st \in Seq(Frames), st # <<>>,
         NEW n \in Nat, NEW lo \in Nat, NEW h \in Nat, Bound(st, n, lo, h),
         NEW m, m = Len(st[1].left.text),
         NEW n2 \in Nat, NEW lo2 \in Nat, NEW h2 \in Nat, n2 + h <= m + n + h2,
         \/ lo2 + n2 + h <= lo + m + n + h2
         \/ lo2 + n2 + h <= m + n + h2
  PROVE  Bound(Tail(st), n2, lo2, h2)
<1>1. PICK c \in [1 .. Len(st) + 1 -> Nat], t \in LowTexts :
        /\ \A k \in 1 .. Len(st) : c[k + 1] + Len(st[k].left.text) <= c[k]
        /\ c[1] + n <= h
        /\ lo + c[1] + n <= Len(t) + CODE_SIZE - 1 + h
  BY DEF Bound
<1>2. st[1] \in Frames
  OBVIOUS
<1>3. m \in Nat
  BY <1>2, ValueFields DEF Frames
<1>4. c[1] \in Nat /\ c[2] \in Nat /\ Len(t) \in Nat /\ c[2] + m <= c[1]
  <2>1. 1 \in 1 .. Len(st) /\ 1 + 1 = 2 /\ 1 \in 1 .. Len(st) + 1 /\ 2 \in 1 .. Len(st) + 1
    OBVIOUS
  <2>2. c[1 + 1] + Len(st[1].left.text) <= c[1]
    BY <1>1, <2>1
  <2> QED BY <2>1, <2>2, LowLength
<1>5. c[2] + n2 <= h2 /\ lo2 + c[2] + n2 <= Len(t) + CODE_SIZE - 1 + h2
  <2>1. CODE_SIZE \in Nat /\ CODE_SIZE >= 1
    BY SizePositive
  <2>2. c[1] + n <= h /\ lo + c[1] + n <= Len(t) + CODE_SIZE - 1 + h
    BY <1>1
  <2> DEFINE c1 == c[1]  cc == c[2]  len == Len(t)
  <2>3. c1 \in Nat /\ cc \in Nat /\ len \in Nat /\ cc + m <= c1
        /\ c1 + n <= h /\ lo + c1 + n <= len + CODE_SIZE - 1 + h
    BY <1>4, <2>2
  <2> HIDE DEF c1, cc, len
  <2>4. cc + n2 <= h2 /\ lo2 + cc + n2 <= len + CODE_SIZE - 1 + h2
    <3>1. cc + n2 <= h2
      BY <1>3, <2>3
    <3>2. lo2 + cc + n2 <= len + CODE_SIZE - 1 + h2
      BY <1>3, <2>1, <2>3
    <3> QED BY <3>1, <3>2
  <2> QED BY <2>4 DEF c1, cc, len
<1> DEFINE c2 == [k \in 1 .. Len(Tail(st)) + 1 |-> c[k + 1]]
<1>6. /\ c2 \in [1 .. Len(Tail(st)) + 1 -> Nat] /\ c2[1] = c[2]
      /\ \A k \in 1 .. Len(Tail(st)) : /\ c2[k] = c[k + 1] /\ c2[k + 1] = c[k + 1 + 1]
                                      /\ Tail(st)[k] = st[k + 1] /\ k + 1 \in 1 .. Len(st)
  OBVIOUS
<1> HIDE DEF c2
<1>7. \A k \in 1 .. Len(Tail(st)) : c2[k + 1] + Len(Tail(st)[k].left.text) <= c2[k]
  BY <1>1, <1>6
<1> QED BY <1>5, <1>6, <1>7 DEF Bound

----------------------------------------------------------------------------
(* The inductive invariant *)

\* The value that eval_expr has so far, while it has one.
Current == IF at \in {"operator", "return"} THEN value ELSE None

StoreInv ==
  /\ heap_index \in Nat /\ heap_index <= HEAP_SIZE /\ blocks \in Seq(Block)
  /\ vars \in Seq(SoundValues) /\ Len(vars) <= MAX_VARS
  /\ stack \in Seq(Frames)
  /\ value \in SoundValues
  /\ low \in Texts
  /\ Strings(vars, stack, Current, heap_index, blocks)
  /\ Bound(stack, Len(Current.text), Len(low), heap_index)

LEMMA CurrentSound ==
  ASSUME StoreInv
  PROVE  /\ Current \in SoundValues /\ Len(Current.text) \in Nat /\ Len(low) \in Nat
         /\ at \in {"operator", "return"} => Current = value
         /\ at \notin {"operator", "return"} => Current = None
<1>1. Current \in SoundValues
  BY NoneSound DEF StoreInv, Current
<1>2. Len(Current.text) \in Nat
  BY <1>1, ValueFields
<1> QED BY <1>1, <1>2 DEF StoreInv, Current, Texts

\* malloc of a size that does not wrap.
LEMMA MallocCases ==
  ASSUME heap_index \in Nat, heap_index <= HEAP_SIZE, NEW size \in Nat, size # 0,
         heap_index + size < WORD, malloc(size)
  PROVE  \/ /\ result' = heap_index /\ result' \in Nat /\ result' # NULL
            /\ heap_index' = heap_index + size /\ heap_index' <= HEAP_SIZE
            /\ blocks' = Append(blocks, [addr |-> heap_index, size |-> size])
         \/ result' = NULL /\ heap_index' = heap_index /\ blocks' = blocks
<1>1. heap_index + size \in Nat /\ WORD \in Nat /\ heap_index + size < WORD
  BY HeapAssumption
<1>2. (heap_index + size) % WORD = heap_index + size
  BY <1>1
<1>3. NULL = -1
  BY DEF NULL
<1> QED BY <1>1, <1>2, <1>3 DEF malloc, Fits, Take

LEMMA BlockAdded ==
  ASSUME NEW bl \in Seq(Block), NEW h \in Nat, NEW size \in Nat
  PROVE  Append(bl, [addr |-> h, size |-> size]) \in Seq(Block)
BY DEF Block

\* Steps that leave the memory of the interpreter alone.
LEMMA StoreUnchanged ==
  ASSUME StoreInv, heap_index' = heap_index, blocks' = blocks, vars' = vars, stack' = stack,
         low' = low, value' \in SoundValues,
         Current'.str = NULL, Current'.text = <<>>
  PROVE  StoreInv'
<1>1. Strings(vars, stack, Current', heap_index, blocks)
  BY DropString DEF StoreInv
<1>2. Bound(stack, 0, Len(low), heap_index)
  BY CurrentSound, BoundStays DEF StoreInv
<1>3. Len(Current'.text) = 0
  BY EmptyText
<1> QED BY <1>1, <1>2, <1>3 DEF StoreInv

\* A new string becomes the current value.
LEMMA StoreTakes ==
  ASSUME heap_index \in Nat, heap_index <= HEAP_SIZE, blocks \in Seq(Block),
         NEW vs \in Seq(SoundValues), NEW st \in Seq(Frames), NEW cur, NEW w \in SoundValues,
         Strings(vs, st, cur, heap_index, blocks),
         w.str = heap_index, NEW size, size = Len(w.text) + 1,
         heap_index' = heap_index + size,
         blocks' = Append(blocks, [addr |-> heap_index, size |-> size])
  PROVE  /\ Strings(vs, st, w, heap_index', blocks')
         /\ heap_index' \in Nat /\ blocks' \in Seq(Block)
<1>1. size \in Nat
  <2>1. Len(w.text) \in Nat
    BY ValueFields
  <2> QED BY <2>1
<1>2. /\ \A i \in DOMAIN vs : vs[i] \in SoundValues
      /\ \A k \in DOMAIN st : st[k].left \in SoundValues
  <2>1. \A k \in DOMAIN st : st[k] \in Frames
    OBVIOUS
  <2> QED BY <2>1 DEF Frames
<1> DEFINE h == heap_index
<1>3. Strings(vs, st, w, h + size, Append(blocks, [addr |-> h, size |-> size]))
  <2>1. h \in Nat /\ w.str = h /\ Strings(vs, st, cur, h, blocks) /\ Len(w.text) + 1 = size
    OBVIOUS
  <2> HIDE DEF h
  <2> QED BY <1>1, <1>2, <2>1, FreshString
<1> QED BY <1>1, <1>3, BlockAdded

LEMMA NameText == ASSUME NEW v \in SoundValues, low \in Texts
                  PROVE  Text(v) \in Texts /\ Len(Text(v)) \in Nat
<1>1. Text(v) \in Texts
  BY ValueFields DEF Text
<1> QED BY <1>1 DEF Texts

LEMMA StatementStores ==
  ASSUME StoreInv, NameStatement \/ OtherStatement
  PROVE  StoreInv'
<1>1. /\ heap_index' = heap_index /\ blocks' = blocks /\ vars' = vars /\ stack' = stack
      /\ low' = low /\ value' = value /\ at' \notin {"operator", "return"}
  BY DEF NameStatement, OtherStatement, AtStatement, heapVars
<1>2. Current' = None
  BY <1>1 DEF Current
<1>3. value' \in SoundValues
  BY <1>1 DEF StoreInv
<1> QED BY <1>1, <1>2, <1>3, NoneSound, StoreUnchanged

LEMMA SmallOperandStores ==
  ASSUME StoreInv, NumberOperand \/ NoOperand
  PROVE  StoreInv'
<1>1. /\ heap_index' = heap_index /\ blocks' = blocks /\ vars' = vars /\ stack' = stack
      /\ low' = low /\ at' = "operator"
      /\ \/ \E number \in DOMAIN NumberOf : value' = IntValue(NumberOf[number])
         \/ value' = None
  BY DEF NumberOperand, NoOperand, Operand, heapVars
<1>2. value' \in SoundValues /\ value'.str = NULL /\ value'.text = <<>>
  BY <1>1, NumbersFit, IntSound, NoneSound
<1>3. Current' = value'
  BY <1>1 DEF Current
<1> QED BY <1>1, <1>2, <1>3, StoreUnchanged

LEMMA OperatorStores ==
  ASSUME StoreInv, Operator
  PROVE  StoreInv'
<1>1. /\ heap_index' = heap_index /\ blocks' = blocks /\ vars' = vars
      /\ low' = low /\ value' = value /\ at = "operator"
  BY DEF Operator, heapVars
<1>2. Current = value
  BY <1>1 DEF Current
<1>3. CASE at' = "return" /\ stack' = stack
  <2>1. Current' = Current
    BY <1>1, <1>2, <1>3 DEF Current
  <2> QED BY <1>1, <1>3, <2>1 DEF StoreInv
<1>4. CASE at' = "operand" /\ \E op \in Operators : stack' = <<[left |-> value, op |-> op]>> \o stack
  <2>1. PICK op \in Operators : stack' = <<[left |-> value, op |-> op]>> \o stack
    BY <1>4
  <2>2. Current' = None
    BY <1>4 DEF Current
  <2>3. stack' \in Seq(Frames) /\ Strings(vars, stack', None, heap_index, blocks)
    BY <1>2, <2>1, PushString DEF StoreInv
  <2>4. Bound(stack', 0, Len(low), heap_index)
    <3>1. Len(low) \in Nat
      BY CurrentSound
    <3> QED BY <1>2, <2>1, <3>1, BoundPush DEF StoreInv
  <2>5. Len(Current'.text) = 0
    BY <2>2, NoneSound, EmptyText
  <2> QED BY <1>1, <2>2, <2>3, <2>4, <2>5 DEF StoreInv
<1> QED BY <1>3, <1>4 DEF Operator

LEMMA TableLength ==
  ASSUME StoreInv
  PROVE  /\ vars \in Seq(SoundValues) /\ Len(vars) \in Nat /\ Len(vars) <= MAX_VARS
         /\ MAX_VARS \in Nat
<1>1. vars \in Seq(SoundValues) /\ Len(vars) <= MAX_VARS
  BY DEF StoreInv
<1>2. MAX_VARS \in Nat \ {0}
  BY MshAssumption
<1> QED BY <1>1, <1>2

LEMMA AssignStores ==
  ASSUME StoreInv, Assign
  PROVE  StoreInv'
<1>1. /\ heap_index' = heap_index /\ blocks' = blocks /\ stack' = stack
      /\ low' = low /\ value' = None /\ at = "return" /\ at' = "statement"
  BY DEF Assign, heapVars
<1>2. Current = value /\ Current' = None
  BY <1>1 DEF Current
<1>3. CASE vars' = vars
  BY <1>1, <1>2, <1>3, NoneSound, StoreUnchanged
<1>4. CASE vars' # vars
  <2>1. \/ vars' = Append(vars, value) /\ Len(vars) < MAX_VARS
        \/ \E i \in DOMAIN vars : vars' = [vars EXCEPT ![i] = value]
    <3>1. CASE find_var(buf) = {}
      <4>1. Len(vars) \in Nat /\ MAX_VARS \in Nat
        BY TableLength
      <4> QED BY <1>4, <3>1, <4>1 DEF Assign
    <3>2. CASE find_var(buf) # {}
      <4>1. (CHOOSE i \in find_var(buf) : TRUE) \in DOMAIN vars
        BY <3>2 DEF find_var
      <4> HIDE DEF find_var
      <4> QED BY <1>4, <3>2, <4>1 DEF Assign
    <3> QED BY <3>1, <3>2
  <2>2. vars' \in Seq(SoundValues) /\ Strings(vars', stack, None, heap_index, blocks)
    <3>1. vars \in Seq(SoundValues) /\ value \in SoundValues
          /\ Strings(vars, stack, value, heap_index, blocks)
      BY <1>2 DEF StoreInv
    <3> QED BY <2>1, <3>1, StoreString
  <2>3. Len(vars') <= MAX_VARS
    <3>1. Len(vars) \in Nat /\ MAX_VARS \in Nat /\ Len(vars) <= MAX_VARS /\ vars \in Seq(SoundValues)
      BY TableLength
    <3> QED BY <2>1, <3>1
  <2>4. Bound(stack, 0, Len(low), heap_index)
    BY CurrentSound, BoundStays DEF StoreInv
  <2>5. Len(Current'.text) = 0
    BY <1>2, NoneSound, EmptyText
  <2>6. value' \in SoundValues
    BY <1>1, NoneSound
  <2> QED BY <1>1, <1>2, <2>2, <2>3, <2>4, <2>5, <2>6 DEF StoreInv
<1> QED BY <1>3, <1>4

\* The text of a literal is a string without a NUL that the array has room for.
LEMMA LiteralText ==
  ASSUME Ended(code), NEW p \in Places, p < CODE_SIZE - 1
  PROVE  literal(p) \in Texts /\ Len(literal(p)) \in Nat /\ Len(literal(p)) < CODE_SIZE - 1
<1> DEFINE e == literal_end(p)
<1>1. e \in p + 1 .. CODE_SIZE - 1 /\ \A r \in p + 1 .. e - 1 : code[r] \notin {Quote, NUL}
  BY LiteralSound
<1> HIDE DEF e
<1> DEFINE n == e - p - 1
<1>2. p \in Nat /\ n \in Nat /\ n < CODE_SIZE - 1
  BY <1>1, SizePositive DEF Places
<1>3. \A i \in 1 .. n : p + i \in p + 1 .. e - 1 /\ p + i \in Places
  BY <1>1, <1>2, SizePositive DEF Places
<1>4. \A i \in 1 .. n : code[p + i] \in Tokens \ {NUL}
  BY <1>1, <1>3 DEF Ended
<1>5. literal(p) = [i \in 1 .. n |-> code[p + i]]
  BY DEF literal, e
<1> HIDE DEF n
<1>6. literal(p) \in Seq(Tokens \ {NUL}) /\ Len(literal(p)) = n
  BY <1>2, <1>4, <1>5
<1> QED BY <1>2, <1>6 DEF Texts

\* The current value becomes a copy of a text, at a fresh place or nowhere.
LEMMA CopyStores ==
  ASSUME StoreInv, at \notin {"operator", "return"}, at' \in {"operator", "return"},
         vars' = vars, stack' = stack,
         NEW text \in Texts, NEW size, size = Len(text) + 1,
         size <= CODE_SIZE \/ size <= HEAP_SIZE, heap_index + size < WORD,
         malloc(size),
         value' \in SoundValues, value'.str = result',
         value'.text = IF result' = NULL THEN <<>> ELSE text,
         \/ low' = low
         \/ result' = NULL /\ low' = text /\ size <= CODE_SIZE
  PROVE  StoreInv'
<1>1. Current = None /\ Current' = value'
  BY DEF Current
<1> DEFINE len == Len(text)  lo == Len(low)
<1>2. len \in Nat /\ lo \in Nat /\ size = len + 1 /\ size \in Nat /\ size # 0
  BY CurrentSound DEF Texts
<1>3. Strings(vars, stack, None, heap_index, blocks) /\ Bound(stack, 0, lo, heap_index)
  BY <1>1, NoneSound, EmptyText DEF StoreInv
<1>4. heap_index \in Nat /\ heap_index <= HEAP_SIZE
  BY DEF StoreInv
<1> HIDE DEF len
<1>5. CASE /\ result' = heap_index /\ result' # NULL /\ heap_index' = heap_index + size
           /\ heap_index' <= HEAP_SIZE
           /\ blocks' = Append(blocks, [addr |-> heap_index, size |-> size])
  <2>1. value'.str = heap_index /\ size = Len(value'.text) + 1 /\ Len(value'.text) = len /\ low' = low
    BY <1>5 DEF len
  <2>2. /\ Strings(vars, stack, value', heap_index', blocks')
        /\ heap_index' \in Nat /\ blocks' \in Seq(Block)
    BY <1>3, <1>5, <2>1, StoreTakes DEF StoreInv
  <2>3. Bound(stack, len, lo, heap_index')
    <3>1. len + heap_index <= 0 + heap_index' /\ lo + len + heap_index <= lo + 0 + heap_index'
      BY <1>2, <1>4, <1>5
    <3> HIDE DEF lo
    <3> QED BY <1>2, <1>3, <1>4, <2>2, <3>1, BoundStays DEF StoreInv
  <2> QED BY <1>1, <1>5, <2>1, <2>2, <2>3 DEF StoreInv
<1>6. CASE result' = NULL /\ heap_index' = heap_index /\ blocks' = blocks
  <2>1. value'.str = NULL /\ value'.text = <<>> /\ Len(value'.text) = 0
    BY <1>6, EmptyText
  <2>2. Strings(vars, stack, value', heap_index, blocks)
    BY <1>3, <2>1, DropString
  <2>3. low' \in Texts /\ Bound(stack, 0, Len(low'), heap_index)
    <3>1. CASE low' = low
      BY <1>3, <3>1 DEF StoreInv
    <3>2. CASE low' = text /\ size <= CODE_SIZE
      <4>1. Len(low') = len /\ len + 0 + heap_index <= CODE_SIZE - 1 + heap_index
        BY <1>2, <1>4, <3>2, SizePositive DEF len
      <4> HIDE DEF lo
      <4>2. Bound(stack, 0, len, heap_index)
        <5>1. 0 + heap_index <= 0 + heap_index
          BY <1>4
        <5> QED BY <1>2, <1>3, <1>4, <4>1, <5>1, BoundStays DEF StoreInv
      <4> QED BY <3>2, <4>1, <4>2
    <3> QED BY <3>1, <3>2
  <2> QED BY <1>1, <1>6, <2>1, <2>2, <2>3 DEF StoreInv
<1>7. \/ /\ result' = heap_index /\ result' # NULL /\ heap_index' = heap_index + size
         /\ heap_index' <= HEAP_SIZE
         /\ blocks' = Append(blocks, [addr |-> heap_index, size |-> size])
      \/ result' = NULL /\ heap_index' = heap_index /\ blocks' = blocks
  BY <1>2, <1>4, MallocCases
<1> QED BY <1>5, <1>6, <1>7

LEMMA SizeFits ==
  ASSUME StoreInv, NEW a \in Nat, NEW b \in Nat,
         a <= heap_index \/ a <= Len(low) \/ a <= CODE_SIZE, b <= heap_index \/ b <= Len(low)
  PROVE  heap_index + a + b + 1 < WORD
<1> DEFINE n == Len(Current.text)  lo == Len(low)  h == heap_index
<1>1. /\ n \in Nat /\ lo \in Nat /\ h \in Nat /\ h <= HEAP_SIZE /\ stack \in Seq(Frames)
      /\ Bound(stack, n, lo, h)
      /\ a <= h \/ a <= lo \/ a <= CODE_SIZE
      /\ b <= h \/ b <= lo
  BY CurrentSound DEF StoreInv
<1> HIDE DEF n, lo, h
<1>2. h + a + b + 1 < WORD
  BY <1>1, BoundFits
<1> QED BY <1>2 DEF h

LEMMA StringOperandStores ==
  ASSUME StoreInv, Ended(code), StringOperand
  PROVE  StoreInv'
<1>1. PICK p \in 0 .. CODE_SIZE - 1 :
        /\ Operand(p, Quote)
        /\ \/ /\ value' = None /\ at' = "return"
              /\ heap_index' = heap_index /\ blocks' = blocks /\ low' = low
           \/ /\ malloc(Len(literal(p)) + 1)
              /\ low' = IF result' = NULL THEN literal(p) ELSE low
              /\ value' = StrValue(result', literal(p))
              /\ at' = "operator"
  BY DEF StringOperand, heapVars
<1>2. /\ at = "operand" /\ vars' = vars /\ stack' = stack
      /\ code[p] = Quote /\ p \in Places
  BY <1>1 DEF Operand, Places
<1>3. p < CODE_SIZE - 1
  BY <1>2, NulIsNoBlank, SizePositive DEF Ended, Places
<1>4. CASE /\ value' = None /\ at' = "return"
           /\ heap_index' = heap_index /\ blocks' = blocks /\ low' = low
  <2>1. Current' = None
    BY <1>4 DEF Current
  <2> QED BY <1>2, <1>4, <2>1, NoneSound, StoreUnchanged
<1>5. CASE /\ malloc(Len(literal(p)) + 1)
           /\ low' = IF result' = NULL THEN literal(p) ELSE low
           /\ value' = StrValue(result', literal(p))
           /\ at' = "operator"
  <2> DEFINE text == literal(p)  len == Len(text)  size == len + 1
  <2>1. text \in Texts /\ len \in Nat /\ len < CODE_SIZE - 1
    BY <1>2, <1>3, LiteralText
  <2>2. size <= CODE_SIZE /\ heap_index + size < WORD /\ size \in Nat /\ size # 0
    <3> HIDE DEF len
    <3>1. len \in Nat /\ len <= CODE_SIZE /\ heap_index \in Nat /\ 0 <= heap_index
      BY <2>1, SizePositive DEF StoreInv
    <3>2. heap_index + len + 0 + 1 < WORD
      BY <3>1, SizeFits
    <3>3. WORD \in Nat
      BY HeapAssumption
    <3> QED BY <2>1, <3>1, <3>2, <3>3, SizePositive
  <2>3. heap_index \in Nat /\ heap_index <= HEAP_SIZE /\ malloc(size)
    BY <1>5 DEF StoreInv
  <2>4. size = Len(text) + 1
    OBVIOUS
  <2> HIDE DEF size
  <2>5. result' \in Nat \union {NULL}
    BY <2>2, <2>3, MallocCases
  <2> HIDE DEF text
  <2>6. /\ value' \in SoundValues /\ value'.str = result'
        /\ value'.text = IF result' = NULL THEN <<>> ELSE text
    BY <1>5, <2>1, <2>5, StrSound DEF text
  <2>7. \/ low' = low
        \/ result' = NULL /\ low' = text /\ size <= CODE_SIZE
    BY <1>5, <2>2 DEF text
  <2> QED BY <1>2, <1>5, <2>1, <2>2, <2>3, <2>4, <2>6, <2>7, CopyStores
<1> QED BY <1>1, <1>4, <1>5

LEMMA NameOperandStores ==
  ASSUME StoreInv, NameOperand
  PROVE  StoreInv'
<1>1. PICK p \in 0 .. CODE_SIZE - 1, name \in Names :
        /\ Operand(p, name)
        /\ LET found == find_var(name)
               var == vars[CHOOSE i \in found : \A j \in found : i <= j]
           IN IF found = {}
                THEN value' = None /\ had_error' = TRUE /\ UNCHANGED heapVars
                ELSE /\ UNCHANGED had_error
                     /\ IF var.type = "str" /\ var.str # NULL
                          THEN /\ malloc(Len(Text(var)) + 1)
                               /\ value' = [StrValue(result', Text(var)) EXCEPT !.name = name]
                          ELSE value' = var /\ UNCHANGED heapVars
  BY DEF NameOperand
<1>2. /\ at = "operand" /\ at' = "operator" /\ vars' = vars /\ stack' = stack /\ low' = low
  BY <1>1 DEF Operand, NameOperand
<1>3. Current' = value'
  BY <1>2 DEF Current
<1> DEFINE found == find_var(name)
           i == CHOOSE i \in found : \A j \in found : i <= j
           var == vars[i]
<1>4. CASE found = {}
  <2>1. value' = None /\ heap_index' = heap_index /\ blocks' = blocks
    BY <1>1, <1>4 DEF heapVars
  <2> QED BY <1>2, <1>3, <2>1, NoneSound, StoreUnchanged
<1>5. CASE found # {}
  <2>1. i \in DOMAIN vars /\ vars \in Seq(SoundValues)
    <3>1. found \in SUBSET Nat /\ found \subseteq DOMAIN vars
      BY TableLength DEF find_var
    <3>2. \E m \in found : \A j \in found : m <= j
      BY <1>5, <3>1, LeastElement
    <3> HIDE DEF found
    <3>3. i \in found
      BY <3>2
    <3> HIDE DEF i
    <3> QED BY <3>1, <3>3, TableLength
  <2>2. \/ /\ var.type = "str" /\ var.str # NULL
           /\ malloc(Len(Text(var)) + 1)
           /\ value' = [StrValue(result', Text(var)) EXCEPT !.name = name]
        \/ /\ ~(var.type = "str" /\ var.str # NULL)
           /\ value' = var /\ heap_index' = heap_index /\ blocks' = blocks
    BY <1>1, <1>5 DEF heapVars
  <2> HIDE DEF i
  <2>3. var \in SoundValues /\ Owned(var, heap_index, blocks)
    BY <2>1 DEF StoreInv, Strings
  <2> HIDE DEF var
  <2>4. CASE /\ ~(var.type = "str" /\ var.str # NULL)
             /\ value' = var /\ heap_index' = heap_index /\ blocks' = blocks
    <3>1. var.str = NULL /\ var.text = <<>>
      BY <2>3, <2>4, ValueFields
    <3> QED BY <1>2, <1>3, <2>3, <2>4, <3>1, StoreUnchanged
  <2>5. CASE /\ var.type = "str" /\ var.str # NULL
             /\ malloc(Len(Text(var)) + 1)
             /\ value' = [StrValue(result', Text(var)) EXCEPT !.name = name]
    <3> DEFINE text == var.text  len == Len(text)  size == len + 1
    <3>1. Text(var) = text /\ text \in Texts /\ len \in Nat /\ var.str \in Nat
      BY <2>3, <2>5, ValueFields DEF Text
    <3>2. heap_index \in Nat /\ heap_index <= HEAP_SIZE /\ malloc(size)
      BY <2>5, <3>1 DEF StoreInv
    <3>3. var.str + len + 1 <= heap_index
      BY <2>3, <2>5 DEF Owned
    <3> HIDE DEF len
    <3>4. size \in Nat /\ size # 0 /\ size <= HEAP_SIZE /\ len <= heap_index
      BY <3>1, <3>2, <3>3, HeapAssumption
    <3>5. heap_index + size < WORD
      <4>0. 0 \in Nat /\ 0 <= heap_index /\ len \in Nat /\ len <= heap_index
        BY <3>1, <3>2, <3>4
      <4>1. heap_index + len + 0 + 1 < WORD
        BY <4>0, SizeFits
      <4> QED BY <3>1, <3>2, <4>1, HeapAssumption
    <3>6. size = Len(text) + 1
      BY DEF len
    <3> HIDE DEF size, text
    <3>7. result' \in Nat \union {NULL}
      BY <3>2, <3>4, <3>5, MallocCases
    <3> DEFINE copy == StrValue(result', text)
    <3>8. /\ copy \in SoundValues /\ copy.str = result'
          /\ copy.text = IF result' = NULL THEN <<>> ELSE text
      BY <3>1, <3>7, StrSound
    <3>9. value' = [copy EXCEPT !.name = name]
      BY <2>5, <3>1
    <3> HIDE DEF copy
    <3>10. /\ value' \in SoundValues /\ value'.str = result'
           /\ value'.text = IF result' = NULL THEN <<>> ELSE text
      BY <3>8, <3>9, NamedSound
    <3> QED BY <1>2, <3>1, <3>2, <3>4, <3>5, <3>6, <3>10, CopyStores
  <2> QED BY <2>2, <2>4, <2>5
<1> QED BY <1>4, <1>5

\* The waiting call goes on with a value that is its left operand or has no
\* string.
LEMMA LeftStores ==
  ASSUME StoreInv, at = "return", stack # <<>>, stack' = Tail(stack), vars' = vars,
         heap_index' = heap_index, blocks' = blocks, low' = low,
         value' \in SoundValues,
         \/ Current'.str = NULL /\ Current'.text = <<>>
         \/ Current'.str = stack[1].left.str /\ Current'.text = stack[1].left.text
  PROVE  StoreInv'
<1> DEFINE left == stack[1].left
           n == Len(Current.text)  m == Len(left.text)  n2 == Len(Current'.text)
           lo == Len(low)  h == heap_index
<1>1. stack \in Seq(Frames) /\ left \in SoundValues
  <2>1. stack \in Seq(Frames) /\ stack[1] \in Frames
    BY DEF StoreInv
  <2> QED BY <2>1 DEF Frames
<1>2. Tail(stack) \in Seq(Frames) /\ Strings(vars, Tail(stack), left, heap_index, blocks)
  BY PopString DEF StoreInv
<1>3. Strings(vars, Tail(stack), Current', heap_index, blocks)
  <2> HIDE DEF left
  <2>1. CASE Current'.str = NULL
    BY <1>2, <2>1, DropString
  <2>2. CASE Current'.str = left.str /\ Current'.text = left.text
    BY <1>2, <2>2, SameString
  <2> QED BY <2>1, <2>2 DEF left
<1>4. m \in Nat /\ n \in Nat /\ lo \in Nat /\ h \in Nat /\ (n2 = 0 \/ n2 = m)
  BY <1>1, CurrentSound, ValueFields, EmptyText DEF StoreInv
<1>5. Bound(stack, n, lo, h)
  BY DEF StoreInv
<1>6. Bound(Tail(stack), n2, lo, h)
  <2> HIDE DEF n, n2, lo, h
  <2>1. m = Len(stack[1].left.text)
    OBVIOUS
  <2> HIDE DEF m
  <2>2. n2 \in Nat /\ n2 + h <= m + n + h /\ lo + n2 + h <= lo + m + n + h
    BY <1>4
  <2> QED BY <1>1, <1>4, <1>5, <2>1, <2>2, BoundPop
<1> QED BY <1>2, <1>3, <1>6 DEF StoreInv

LEMMA CombineIntsStores ==
  ASSUME StoreInv, CombineInts
  PROVE  StoreInv'
<1> DEFINE first == stack[1].left
           left == convert_var(first)
           right == convert_var(value)
           op == stack[1].op
<1>1. /\ at = "return" /\ stack # <<>> /\ stack' = Tail(stack) /\ vars' = vars
      /\ heap_index' = heap_index /\ blocks' = blocks /\ low' = low
  BY DEF CombineInts, Combine, heapVars
<1>2. /\ first \in SoundValues /\ value \in SoundValues /\ op \in Operators
  <2>1. stack \in Seq(Frames) /\ stack[1] \in Frames /\ value \in SoundValues
    BY <1>1 DEF StoreInv
  <2> QED BY <2>1 DEF Frames
<1>3. left.int \in IntRange /\ right.int \in IntRange /\ left.int \in Int /\ right.int \in Int
  <2> HIDE DEF first
  <2>1. left.int \in IntRange /\ right.int \in IntRange
    BY <1>2, ConvertedSound
  <2> QED BY <2>1, IntMax DEF IntRange
<1>4. /\ op = "/" => right.int # 0
      /\ \/ at' = "fault" /\ value' = value
         \/ /\ ~(op = "/" /\ left.int = -INT_MAX - 1 /\ right.int = -1)
            /\ at' = at
            /\ value' = [IntValue(CASE op = "+" -> wrap(left.int + right.int)
                                    [] op = "-" -> wrap(left.int - right.int)
                                    [] op = "*" -> wrap(left.int * right.int)
                                    [] op = "/" -> quotient(left.int, right.int))
                         EXCEPT !.name = first.name]
  BY DEF CombineInts
<1> HIDE DEF left, right
<1>5. CASE at' = "fault" /\ value' = value
  <2>1. Current' = None
    BY <1>5 DEF Current
  <2> QED BY <1>1, <1>2, <1>5, <2>1, NoneSound, LeftStores
<1>6. CASE /\ ~(op = "/" /\ left.int = -INT_MAX - 1 /\ right.int = -1)
           /\ at' = at
           /\ \E n \in IntRange : value' = [IntValue(n) EXCEPT !.name = first.name]
  <2>1. PICK n \in IntRange : value' = [IntValue(n) EXCEPT !.name = first.name]
    BY <1>6
  <2>2. first.name \in Names \union {""}
    BY <1>2, ValueFields
  <2>3. value' \in SoundValues /\ value'.str = NULL /\ value'.text = <<>>
    <3>1. IntValue(n) \in SoundValues /\ IntValue(n).str = NULL /\ IntValue(n).text = <<>>
      BY IntSound
    <3> QED BY <2>1, <2>2, <3>1, NamedSound
  <2>4. Current' = value'
    BY <1>1, <1>6 DEF Current
  <2> QED BY <1>1, <2>3, <2>4, LeftStores
<1>7. \A a, b \in Int : a + b \in Int /\ a - b \in Int /\ a * b \in Int
  OBVIOUS
<1>8. CASE ~(op = "/" /\ left.int = -INT_MAX - 1 /\ right.int = -1)
  <2>1. op = "/" => quotient(left.int, right.int) \in IntRange
    BY <1>3, <1>4, <1>8, QuotientRange
  <2>2. /\ wrap(left.int + right.int) \in IntRange /\ wrap(left.int - right.int) \in IntRange
        /\ wrap(left.int * right.int) \in IntRange
    BY <1>3, <1>7, WrapRange
  <2> HIDE DEF op
  <2>3. (CASE op = "+" -> wrap(left.int + right.int)
           [] op = "-" -> wrap(left.int - right.int)
           [] op = "*" -> wrap(left.int * right.int)
           [] op = "/" -> quotient(left.int, right.int)) \in IntRange
    BY <1>2, <2>1, <2>2 DEF Operators
  <2> QED BY <1>4, <1>5, <1>6, <1>8, <2>3
<1> QED BY <1>4, <1>5, <1>8

LEMMA CombineOtherStores ==
  ASSUME StoreInv, CombineError \/ CombineNothing
  PROVE  StoreInv'
<1> DEFINE first == stack[1].left
<1>1. /\ at = "return" /\ at' = "return" /\ stack # <<>> /\ stack' = Tail(stack) /\ vars' = vars
      /\ heap_index' = heap_index /\ blocks' = blocks /\ low' = low
      /\ value' = first \/ \E n \in Word(first) : value' = IntValue(n)
  BY DEF CombineError, CombineNothing, Combine, heapVars
<1>2. first \in SoundValues
  <2>1. stack \in Seq(Frames) /\ stack[1] \in Frames
    BY <1>1 DEF StoreInv
  <2> QED BY <2>1 DEF Frames
<1>3. Current' = value'
  BY <1>1 DEF Current
<1>4. CASE value' = first
  BY <1>1, <1>2, <1>3, <1>4, LeftStores
<1>5. CASE \E n \in Word(first) : value' = IntValue(n)
  <2>1. PICK n \in Word(first) : value' = IntValue(n)
    BY <1>5
  <2>2. n \in IntRange
    <3>1. 0 \in IntRange /\ 1 .. INT_MAX \subseteq IntRange
      BY IntMax DEF IntRange
    <3>2. first.int \in IntRange
      BY <1>2, ValueFields
    <3> HIDE DEF first
    <3> QED BY <2>1, <3>1, <3>2 DEF Word
  <2> QED BY <1>1, <1>3, <2>1, <2>2, IntSound, LeftStores
<1> QED BY <1>1, <1>4, <1>5

LEMMA ConcatenateStores ==
  ASSUME StoreInv, Concatenate
  PROVE  StoreInv'
<1> DEFINE left == stack[1].left
           a == Text(left)  b == Text(value)
           joined == a \o b
           size == Len(joined) + 1
           n == Len(value.text)  m == Len(left.text)  lo == Len(low)  h == heap_index
<1>1. /\ at = "return" /\ stack # <<>> /\ stack' = Tail(stack) /\ vars' = vars
      /\ malloc(size)
      /\ value' = [StrValue(result', joined) EXCEPT !.name = left.name]
      /\ \/ result' # NULL /\ low' = low /\ at' = at
         \/ result' = NULL /\ value.str # NULL /\ low' = joined /\ at' = at
         \/ result' = NULL /\ value.str = NULL /\ low' = a /\ (at' = at \/ at' = "corrupt")
  BY DEF Concatenate, Combine
<1>2. /\ stack \in Seq(Frames) /\ left \in SoundValues /\ value \in SoundValues /\ low \in Texts
      /\ h \in Nat /\ h <= HEAP_SIZE /\ blocks \in Seq(Block) /\ vars \in Seq(SoundValues)
      /\ Len(vars) <= MAX_VARS
  <2>1. stack \in Seq(Frames) /\ stack[1] \in Frames
    BY <1>1 DEF StoreInv
  <2> QED BY <2>1 DEF Frames, StoreInv
<1>3. /\ Strings(vars, stack, value, h, blocks) /\ Bound(stack, n, lo, h)
  BY <1>1 DEF StoreInv, Current
<1>4. /\ a \in Texts /\ b \in Texts /\ joined \in Texts /\ lo \in Nat
      /\ Len(a) \in Nat /\ Len(b) \in Nat /\ Len(joined) = Len(a) + Len(b)
      /\ m \in Nat /\ n \in Nat
  <2>1. a \in Texts /\ b \in Texts /\ m \in Nat /\ n \in Nat
    BY <1>2, NameText, ValueFields
  <2> HIDE DEF a, b
  <2> QED BY <1>2, <2>1 DEF Texts
<1>5. /\ left.str = NULL => a = low /\ m = 0
      /\ left.str # NULL => a = left.text /\ Len(a) = m
      /\ value.str = NULL => b = low /\ n = 0
      /\ value.str # NULL => b = value.text /\ Len(b) = n
  BY <1>2, ValueFields, EmptyText DEF Text
<1>6. /\ Tail(stack) \in Seq(Frames) /\ Strings(vars, Tail(stack), left, h, blocks)
      /\ Owned(left, h, blocks) /\ Owned(value, h, blocks)
  <2>1. Tail(stack) \in Seq(Frames) /\ Strings(vars, Tail(stack), left, h, blocks)
    BY <1>1, <1>2, <1>3, PopString
  <2> QED BY <1>3, <2>1 DEF Strings
<1>7. m <= h /\ n <= h
  <2>1. left.str \in Nat \union {NULL} /\ value.str \in Nat \union {NULL}
    BY <1>2, ValueFields
  <2>2. left.str # NULL => left.str + m + 1 <= h
    BY <1>6 DEF Owned
  <2>3. value.str # NULL => value.str + n + 1 <= h
    BY <1>6 DEF Owned
  <2> HIDE DEF m, n, h, left
  <2> QED BY <1>2, <1>4, <1>5, <2>1, <2>2, <2>3
<1>8. Len(a) <= h \/ Len(a) <= lo
  BY <1>4, <1>5, <1>7
<1>9. Len(b) <= h \/ Len(b) <= lo
  BY <1>4, <1>5, <1>7
<1>10. /\ h + size < WORD /\ size \in Nat /\ size # 0
       /\ size = Len(a) + Len(b) + 1
  <2> DEFINE la == Len(a)  lb == Len(b)
  <2>1. la \in Nat /\ lb \in Nat /\ size = la + lb + 1
    BY <1>4
  <2> HIDE DEF la, lb, size
  <2>2. heap_index + la + lb + 1 < WORD
    BY <1>8, <1>9, <2>1, SizeFits DEF la, lb
  <2> QED BY <1>2, <2>1, <2>2, HeapAssumption DEF la, lb
<1>11. m = Len(stack[1].left.text)
  OBVIOUS
<1>12. left.name \in Names \union {""}
  BY <1>2, ValueFields
<1> DEFINE copy == StrValue(result', joined)
<1>13. result' \in Nat \union {NULL}
  <2> HIDE DEF size
  <2> QED BY <1>1, <1>2, <1>10, MallocCases
<1>14. /\ value' \in SoundValues /\ value'.str = result'
       /\ value'.text = IF result' = NULL THEN <<>> ELSE joined
  <2>1. value' = [copy EXCEPT !.name = left.name]
    BY <1>1
  <2> HIDE DEF joined, left
  <2>2. /\ copy \in SoundValues /\ copy.str = result'
        /\ copy.text = IF result' = NULL THEN <<>> ELSE joined
    BY <1>4, <1>13, StrSound
  <2> HIDE DEF copy
  <2> QED BY <1>12, <2>1, <2>2, NamedSound
\* The new string is a block of its own.
<1>15. CASE /\ result' = heap_index /\ result' # NULL /\ heap_index' = heap_index + size
            /\ heap_index' <= HEAP_SIZE
            /\ blocks' = Append(blocks, [addr |-> heap_index, size |-> size])
  <2> DEFINE n2 == Len(value'.text)
  <2>1. /\ value'.str = heap_index /\ size = n2 + 1 /\ low' = low /\ at' = at
        /\ n2 \in Nat
    <3>1. low' = low /\ at' = at
      BY <1>1, <1>15
    <3>2. value'.str = heap_index /\ value'.text = joined
      BY <1>14, <1>15
    <3> HIDE DEF joined
    <3>3. size = n2 + 1 /\ n2 \in Nat
      BY <1>4, <3>2
    <3> QED BY <3>1, <3>2, <3>3
  <2> HIDE DEF size
  <2>2. Current' = value'
    BY <1>1, <2>1 DEF Current
  <2>3. /\ Strings(vars, Tail(stack), value', heap_index', blocks')
        /\ heap_index' \in Nat /\ blocks' \in Seq(Block)
    <3> HIDE DEF left
    <3> QED BY <1>2, <1>6, <1>14, <1>15, <2>1, StoreTakes
  <2>4. Bound(Tail(stack), n2, lo, heap_index')
    <3>1. heap_index' = h + n2 + 1 /\ heap_index' \in Nat
      BY <1>2, <1>15, <2>1, <2>3
    <3> HIDE DEF n2, lo, n, h, m
    <3>2. n2 + h <= m + n + heap_index' /\ lo + n2 + h <= lo + m + n + heap_index'
      BY <1>2, <1>4, <2>1, <3>1
    <3> QED BY <1>1, <1>2, <1>3, <1>4, <1>11, <2>1, <3>1, <3>2, BoundPop
  <2> QED BY <1>1, <1>2, <1>6, <1>14, <1>15, <2>1, <2>2, <2>3, <2>4 DEF StoreInv
\* There is no room, and what is at address 0 changes.
<1>16. CASE result' = NULL /\ heap_index' = heap_index /\ blocks' = blocks
  <2> DEFINE lo2 == Len(low')
  <2>1. Current'.str = NULL /\ Current'.text = <<>> /\ Len(Current'.text) = 0
    BY <1>14, <1>16, NoneSound, EmptyText DEF Current
  <2>2. Strings(vars, Tail(stack), Current', h, blocks)
    <3> HIDE DEF left
    <3> QED BY <1>6, <2>1, DropString
  <2>3. low' \in Texts /\ lo2 \in Nat /\ (lo2 <= lo + m + n \/ lo2 <= m + n)
    <3>1. CASE value.str # NULL /\ low' = joined
      <4>1. lo2 = Len(a) + Len(b)
        BY <1>4, <3>1
      <4>2. Len(b) = n /\ (Len(a) = lo \/ Len(a) = m)
        BY <1>5, <3>1
      <4> HIDE DEF lo2, a, b, n, m, lo
      <4> QED BY <1>4, <3>1, <4>1, <4>2
    <3>2. CASE value.str = NULL /\ low' = a
      <4>1. lo2 = lo \/ lo2 = m
        BY <1>5, <3>2
      <4> HIDE DEF lo2, a, b, n, m, lo
      <4> QED BY <1>4, <3>2, <4>1
    <3> QED BY <1>1, <1>16, <3>1, <3>2
  <2>4. Bound(Tail(stack), 0, lo2, h)
    <3> HIDE DEF lo2, lo, n, h, m
    <3>1. /\ 0 + h <= m + n + h
          /\ \/ lo2 + 0 + h <= lo + m + n + h
             \/ lo2 + 0 + h <= m + n + h
      BY <1>2, <1>4, <2>3
    <3> QED BY <1>1, <1>2, <1>3, <1>4, <1>11, <2>3, <3>1, BoundPop
  <2> QED BY <1>1, <1>2, <1>6, <1>14, <1>16, <2>1, <2>2, <2>3, <2>4 DEF StoreInv
<1>17. \/ /\ result' = heap_index /\ result' # NULL /\ heap_index' = heap_index + size
          /\ heap_index' <= HEAP_SIZE
          /\ blocks' = Append(blocks, [addr |-> heap_index, size |-> size])
       \/ result' = NULL /\ heap_index' = heap_index /\ blocks' = blocks
  <2> HIDE DEF size
  <2> QED BY <1>1, <1>2, <1>10, MallocCases
<1> QED BY <1>15, <1>16, <1>17

\* Every step of the interpreter.
LEMMA MshStores == ASSUME ExecInv, StoreInv, MshStep PROVE StoreInv'
<1>1. Ended(code)
  BY MshStepIsCalling, SizePositive
     DEF ExecInv, TypeInv, RunInv, TailOK, Ended, Places, Calling
<1> QED
  BY <1>1, StatementStores, SmallOperandStores, StringOperandStores, NameOperandStores,
     OperatorStores, CombineIntsStores, CombineOtherStores, ConcatenateStores, AssignStores
     DEF MshStep

StringsInv == ExecInv /\ StoreInv /\ pc \in 0 .. CODE_SIZE

LEMMA StringsInit == ExecInit => StringsInv
<1> SUFFICES ASSUME ExecInit PROVE StringsInv
  OBVIOUS
<1>1. /\ heap_index = 0 /\ blocks = <<>> /\ vars = <<>> /\ stack = <<>> /\ value = None
      /\ low \in LowTexts /\ pc = 0 /\ at = "idle"
  BY DEF ExecInit, MshInit, HeapInit
<1>2. Current = None
  BY <1>1 DEF Current
<1>3. Strings(<<>>, <<>>, None, 0, <<>>)
  BY NoneSound DEF Strings, Owned
<1>4. Bound(<<>>, 0, Len(low), 0)
  <2> DEFINE c == [k \in 1 .. Len(<<>>) + 1 |-> 0]
  <2>1. c \in [1 .. Len(<<>>) + 1 -> Nat] /\ c[1] = 0 /\ 1 .. Len(<<>>) = {}
    OBVIOUS
  <2>2. Len(low) \in Nat
    BY <1>1, LowLength
  <2>3. Len(low) + 0 + 0 <= Len(low) + CODE_SIZE - 1 + 0
    BY <2>2, SizePositive
  <2> HIDE DEF c
  <2> QED BY <1>1, <2>1, <2>2, <2>3 DEF Bound
<1>5. low \in Texts
  BY <1>1, TextAssumption
<1>6. Len(None.text) = 0
  BY NoneSound, EmptyText
<1>7. StoreInv
  <2>1. HEAP_SIZE \in Nat /\ MAX_VARS \in Nat /\ Len(<<>>) = 0
    BY HeapAssumption, MshAssumption
  <2> QED BY <1>1, <1>2, <1>3, <1>4, <1>5, <1>6, <2>1, NoneSound DEF StoreInv
<1>8. 0 \in 0 .. CODE_SIZE
  BY SizePositive
<1> QED BY <1>1, <1>7, <1>8, ExecInitInv DEF StringsInv

\* Outside the interpreter only its place changes.
LEMMA LoopStores ==
  ASSUME StringsInv,
         \/ Fill \/ execute_buffer \/ EmptyLine \/ ExecuteLine \/ LineSucceeds \/ LineFails
         \/ ExecuteLast \/ LastReturns \/ NoLast \/ Report
  PROVE  StoreInv' /\ pc' \in 0 .. CODE_SIZE
<1> USE DEF StringsInv
<1>1. /\ heap_index' = heap_index /\ blocks' = blocks /\ vars' = vars /\ stack' = stack
      /\ low' = low /\ (value' = value \/ value' = None)
      /\ at' \notin {"operator", "return"}
      /\ pc' = pc \/ pc' = 0 \/ pc' = line_start
      /\ pc' = line_start => at = "line" \/ Returns \/ pc' = pc \/ pc' = 0
  BY DEF Fill, execute_buffer, EmptyLine, ExecuteLine, LineSucceeds, LineFails, ExecuteLast,
     LastReturns, NoLast, Report, LineReturns, Returns, msh_execute, heapVars, mshVars
<1>2. Current' = None
  BY <1>1 DEF Current
<1>3. value' \in SoundValues
  BY <1>1, NoneSound DEF StoreInv
<1>4. StoreInv'
  BY <1>1, <1>2, <1>3, NoneSound, StoreUnchanged
<1>5. at = "line" \/ Returns => line_start \in Places
  BY AtLine, AtReturn
<1> QED BY <1>1, <1>4, <1>5, SizePositive DEF Places

LEMMA StringsInvariant == ExecSpec => []StringsInv
<1>1. StringsInv /\ [ExecNext]_allVars => StringsInv'
  <2> SUFFICES ASSUME StringsInv, [ExecNext]_allVars PROVE StringsInv'
    OBVIOUS
  <2>1. ExecInv'
    BY NextKeepsInv DEF StringsInv
  <2>2. CASE MshStep /\ UNCHANGED execVars
    <3>1. pc' \in 0 .. CODE_SIZE
      <4>1. Ended(code) /\ PcOK
        BY <2>2, MshStepIsCalling, SizePositive
           DEF StringsInv, ExecInv, TypeInv, RunInv, TailOK, Ended, Places, Calling
      <4> QED BY <2>2, <4>1, MshStepStays
    <3> QED BY <2>1, <2>2, <3>1, MshStores DEF StringsInv
  <2>3. CASE UNCHANGED allVars
    BY <2>1, <2>3 DEF StringsInv, StoreInv, Current, allVars, heapVars, mshVars
  <2> QED BY <2>1, <2>2, <2>3, LoopStores DEF StringsInv, ExecNext, ExecStep
<1> QED BY <1>1, StringsInit, PTL DEF ExecSpec

(***************************************************************************)
(* Whatever program is executed, the interpreter's table never has more    *)
(* than MAX_VARS entries, every int is one of the machine's after all the  *)
(* arithmetic, and every string is a text (microshell.c:95-104, 177-355).  *)
(***************************************************************************)
THEOREM InterpreterKeepsTypes == ExecSpec => []MshTypeOK
<1>1. StringsInv => MshTypeOK
  <2> SUFFICES ASSUME StringsInv PROVE MshTypeOK
    OBVIOUS
  <2>1. code \in [0 .. CODE_SIZE - 1 -> Tokens] /\ pc \in 0 .. CODE_SIZE
    BY DEF StringsInv, ExecInv, TypeInv, Places
  <2>2. SoundValues \subseteq Values
    BY DEF SoundValues
  <2>3. /\ vars \in Seq(SoundValues) /\ Len(vars) <= MAX_VARS
        /\ value \in SoundValues /\ low \in Texts /\ stack \in Seq(Frames)
    BY DEF StringsInv, StoreInv
  <2>4. vars \in Seq(Values)
    BY <2>2, <2>3
  <2>5. ASSUME NEW i \in DOMAIN stack PROVE stack[i].left \in Values /\ stack[i].op \in Operators
    <3>1. stack[i] \in Frames
      BY <2>3
    <3> QED BY <2>2, <3>1 DEF Frames
  <2> QED BY <2>1, <2>2, <2>3, <2>4, <2>5 DEF MshTypeOK
<1> QED BY <1>1, StringsInvariant, PTL

(***************************************************************************)
(* No two variables ever share a string, and each string has a block of    *)
(* the heap that was made for it and is long enough, whatever expressions  *)
(* they were computed by and however full the heap is                      *)
(* (microshell.c:201-207, 214-217, 317-322, 383-389).                      *)
(***************************************************************************)
THEOREM StringsStayOwned == ExecSpec => []StringsOwned
<1>1. StringsInv => StringsOwned
  BY DEF StringsInv, StoreInv, Strings, Owned, Apart, StringsOwned
<1> QED BY <1>1, StringsInvariant, PTL
=============================================================================
