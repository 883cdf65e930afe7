----------------------------- MODULE Microshell -----------------------------
(***************************************************************************)
(* The interpreter of microshell.c: msh_execute runs the statements of a   *)
(* text up to its NUL, eval_expr evaluates an expression from the right,   *)
(* calling itself behind every operator, and strings live on the heap.     *)
(*                                                                         *)
(* A character of the text is a letter-like token here: a whole name or a  *)
(* whole number counts as one.  Both msh_execute and eval_expr ask for a   *)
(* letter first, so print, if, while, True, False, inw, outw and input are *)
(* names like any other; the branches behind are never taken, and there    *)
(* are neither Booleans nor floats.                                        *)
(***************************************************************************)
EXTENDS Heap

CONSTANTS
  CODE_SIZE,    \* size of the array that holds the text
  MAX_VARS,     \* 64 in the code
  INT_MAX,
  Names,        \* names a text may contain
  NumberOf,     \* the value of each number a text may contain
  LowTexts      \* strings that address 0 may hold at first

ASSUME MshAssumption ==
  /\ CODE_SIZE \in Nat \ {0} /\ MAX_VARS \in Nat \ {0} /\ INT_MAX \in Nat \ {0}
  /\ \A n \in DOMAIN NumberOf : NumberOf[n] \in -INT_MAX - 1 .. INT_MAX
  /\ Names \intersect DOMAIN NumberOf = {}
  /\ (Names \union DOMAIN NumberOf) \intersect
       {" ", "NL", "NUL", "quote", "+", "-", "*", "/", "=", ")"} = {}

NUL == "NUL"
NL == "NL"
Quote == "quote"
Blanks == {" ", NL}
Operators == {"+", "-", "*", "/"}
Tokens == Names \union DOMAIN NumberOf \union Blanks \union Operators
            \union {NUL, Quote, "=", ")"}
Texts == Seq(Tokens \ {NUL})

\* No string gets so long that the sum in malloc wraps, the one at address 0
\* included: a size_t has 32 bits, the heap 1 MB.
ASSUME TextAssumption ==
  \A t \in LowTexts : t \in Texts /\ 3 * HEAP_SIZE + 2 * (CODE_SIZE + Len(t)) < WORD

VARIABLES
  code,        \* the array that ctx.code points into
  pc,          \* ctx.pc, as an index of the array
  had_error,
  vars,        \* ctx.vars, var_count of them
  buf,         \* the static array of parse_ident: the last name it read
  stack,       \* the calls of eval_expr that wait for their right operand
  value,       \* left, or what eval_expr returns
  low,         \* the string at address 0
  at,          \* where the program is
  equals,      \* history: where the "=" of the current assignment is
  assigned     \* history: the assignments done in this run

mshVars == <<code, pc, had_error, vars, buf, stack, value, low, at, equals, assigned>>

----------------------------------------------------------------------------
(* Values *)

None == [name |-> "", type |-> "none", int |-> 0, str |-> NULL, text |-> <<>>]
IntValue(n) == [None EXCEPT !.type = "int", !.int = n]
StrValue(addr, text) ==
  [None EXCEPT !.type = "str", !.str = addr, !.text = IF addr = NULL THEN <<>> ELSE text]

\* int_val and str_val are one word; each value here keeps the part that its
\* type names.

\* What a string pointer points to.  A block is never handed out again, so its
\* text stays; NULL is address 0, which can be read and written.
Text(v) == IF v.str = NULL THEN low ELSE v.text

\* A 32-bit int in the code.
wrap(n) == ((n + INT_MAX + 1) % (2 * INT_MAX + 2)) - INT_MAX - 1

quotient(a, b) ==
  LET q == (IF a < 0 THEN -a ELSE a) \div (IF b < 0 THEN -b ELSE b)
  IN IF (a < 0) = (b < 0) THEN q ELSE -q

\* Blanks, a sign, a number; anything else ends it.
atoi(text) ==
  LET from == CHOOSE i \in 1 .. Len(text) + 1 :
                /\ i <= Len(text) => text[i] \notin Blanks
                /\ \A j \in 1 .. i - 1 : text[j] \in Blanks
      signed == from <= Len(text) /\ text[from] \in {"+", "-"}
      digits == IF signed THEN from + 1 ELSE from
      number == IF digits <= Len(text) /\ text[digits] \in DOMAIN NumberOf
                THEN NumberOf[text[digits]] ELSE 0
  IN IF signed /\ text[from] = "-" THEN wrap(-number) ELSE number

\* convert_var to an int, the only conversion asked for.
convert_var(v) == IF v.type = "str" THEN IntValue(atoi(Text(v))) ELSE v

common_type(left, right) ==
  IF left.type # right.type /\ "int" \in {left.type, right.type} THEN "int" ELSE left.type

find_var(name) == {i \in DOMAIN vars : vars[i].name = name}

----------------------------------------------------------------------------
(* The text *)

\* The first position from p on that holds no blank.
skip_whitespace(p) ==
  CHOOSE q \in p .. CODE_SIZE - 1 : /\ code[q] \notin Blanks
                                    /\ \A r \in p .. q - 1 : code[r] \in Blanks

\* Where a string literal that starts behind p ends, or the text does.
literal_end(p) ==
  CHOOSE q \in p + 1 .. CODE_SIZE - 1 : /\ code[q] \in {Quote, NUL}
                                        /\ \A r \in p + 1 .. q - 1 : code[r] \notin {Quote, NUL}

literal(p) == [i \in 1 .. literal_end(p) - p - 1 |-> code[p + i]]

----------------------------------------------------------------------------
(* msh_execute *)

MshInit ==
  /\ HeapInit
  /\ pc = 0 /\ had_error = FALSE
  /\ vars = <<>> /\ buf = ""
  /\ stack = <<>> /\ value = None
  /\ low \in LowTexts
  /\ at = "idle"
  /\ equals = 0 /\ assigned = <<>>

\* The call: the loop starts at the first character of the text.
msh_execute(text) ==
  /\ at' = "statement"
  /\ pc' = text
  /\ had_error' = FALSE
  /\ UNCHANGED <<heapVars, vars, buf, stack, value, low, equals>>

\* The loop of msh_execute is over and it returns.
Returns == at = "statement" /\ (code[pc] = NUL \/ had_error)

AtStatement(token) ==
  /\ at = "statement" /\ ~Returns
  /\ token = code[skip_whitespace(pc)]

\* A name: the start of an assignment if "=" comes next, nothing otherwise.
NameStatement ==
  /\ \E name \in Names : AtStatement(name) /\ buf' = name
  /\ LET next == skip_whitespace(skip_whitespace(pc) + 1)
     IN IF code[next] = "="
          THEN pc' = next + 1 /\ at' = "operand" /\ equals' = next
          ELSE pc' = next /\ UNCHANGED <<at, equals>>
  /\ UNCHANGED <<heapVars, code, had_error, vars, stack, value, low, assigned>>

\* Variant: two characters are skipped.
OtherStatementTwo ==
  /\ \E token \in Tokens \ Names : AtStatement(token)
  /\ pc' = skip_whitespace(pc) + 2
  /\ at' = IF pc' >= CODE_SIZE THEN "runaway" ELSE at
  /\ UNCHANGED <<heapVars, code, had_error, vars, buf, stack, value, low, equals, assigned>>

\* Variant: the character is not skipped.
OtherStatementStays ==
  /\ \E token \in Tokens \ Names : AtStatement(token)
  /\ pc' = skip_whitespace(pc)
  /\ UNCHANGED <<heapVars, code, had_error, vars, buf, stack, value, low, at, equals, assigned>>

\* Anything else is one character to skip.  That includes the NUL behind
\* trailing blanks, and the loop then goes on behind the end of the text.
OtherStatement ==
  /\ \E token \in Tokens \ Names : AtStatement(token)
  /\ pc' = skip_whitespace(pc) + 1
  /\ at' = IF pc' = CODE_SIZE THEN "runaway" ELSE at
  /\ UNCHANGED <<heapVars, code, had_error, vars, buf, stack, value, low, equals, assigned>>

----------------------------------------------------------------------------
(* eval_expr *)

\* The operand of eval_expr; its first character is at p.
Operand(p, token) ==
  /\ at = "operand"
  /\ p = skip_whitespace(pc)
  /\ token = code[p]
  /\ UNCHANGED <<code, vars, stack, equals, assigned>>

NumberOperand ==
  /\ \E p \in 0 .. CODE_SIZE - 1, number \in DOMAIN NumberOf :
       /\ Operand(p, number)
       /\ value' = IntValue(NumberOf[number])
       /\ pc' = p + 1
  /\ at' = "operator"
  /\ UNCHANGED <<heapVars, had_error, buf, low>>

\* Variant: no room is asked for the NUL of the string.
StringOperandNoNul ==
  \E p \in 0 .. CODE_SIZE - 1 :
    /\ Operand(p, Quote)
    /\ IF code[literal_end(p)] = NUL
         THEN /\ had_error' = TRUE
              /\ value' = None
              /\ pc' = literal_end(p)
              /\ at' = "return"
              /\ UNCHANGED <<heapVars, low>>
         ELSE /\ malloc(Len(literal(p)))
              /\ low' = IF result' = NULL THEN literal(p) ELSE low
              /\ value' = StrValue(result', literal(p))
              /\ pc' = literal_end(p) + 1
              /\ at' = "operator"
              /\ UNCHANGED had_error
    /\ UNCHANGED buf

\* A string is copied to the heap, or to address 0 if that is full; a string
\* that is not closed ends eval_expr at once.
StringOperand ==
  \E p \in 0 .. CODE_SIZE - 1 :
    /\ Operand(p, Quote)
    /\ IF code[literal_end(p)] = NUL
         THEN /\ had_error' = TRUE
              /\ value' = None
              /\ pc' = literal_end(p)
              /\ at' = "return"
              /\ UNCHANGED <<heapVars, low>>
         ELSE /\ malloc(Len(literal(p)) + 1)
              /\ low' = IF result' = NULL THEN literal(p) ELSE low
              /\ value' = StrValue(result', literal(p))
              /\ pc' = literal_end(p) + 1
              /\ at' = "operator"
              /\ UNCHANGED had_error
    /\ UNCHANGED buf

\* A variable is copied, its string with strdup; an unknown one is an error,
\* which does not keep the rest of the expression from being evaluated.
NameOperand ==
  /\ \E p \in 0 .. CODE_SIZE - 1, name \in Names :
       /\ Operand(p, name)
       /\ pc' = p + 1
       /\ buf' = name
       /\ LET found == find_var(name)
              var == vars[CHOOSE i \in found : \A j \in found : i <= j]
          IN IF found = {}
               THEN value' = None /\ had_error' = TRUE /\ UNCHANGED heapVars
               ELSE /\ UNCHANGED had_error
                    /\ IF var.type = "str" /\ var.str # NULL
                         THEN /\ malloc(Len(Text(var)) + 1)
                              /\ value' = [StrValue(result', Text(var)) EXCEPT !.name = name]
                         ELSE value' = var /\ UNCHANGED heapVars
  /\ at' = "operator"
  /\ UNCHANGED low

\* No operand: the value stays zero, without a type.
NoOperand ==
  /\ \E p \in 0 .. CODE_SIZE - 1, token \in Tokens \ (Names \union DOMAIN NumberOf \union {Quote}) :
       Operand(p, token) /\ pc' = p
  /\ value' = None
  /\ at' = "operator"
  /\ UNCHANGED <<heapVars, had_error, buf, low>>

\* Behind an operator eval_expr calls itself for the right operand; without
\* one it returns.
Operator ==
  /\ at = "operator"
  /\ LET p == skip_whitespace(pc)
     IN IF code[p] \in Operators
          THEN /\ stack' = <<[left |-> value, op |-> code[p]]>> \o stack
               /\ pc' = p + 1
               /\ at' = "operand"
          ELSE pc' = p /\ at' = "return" /\ UNCHANGED stack
  /\ UNCHANGED <<heapVars, code, had_error, vars, buf, value, low, equals, assigned>>

\* A waiting call gets the value of its right operand.
Combine(left, right, op, type) ==
  /\ at = "return" /\ stack # <<>>
  /\ left = stack[1].left /\ right = value /\ op = stack[1].op
  /\ type = common_type(left, right)
  /\ stack' = Tail(stack)
  /\ UNCHANGED <<code, pc, vars, buf, equals, assigned>>

CombineInts ==
  /\ at = "return" /\ stack # <<>>
  /\ LET left == convert_var(stack[1].left)
         right == convert_var(value)
         op == stack[1].op
     IN /\ Combine(stack[1].left, value, op, "int")
        /\ op = "/" => right.int # 0
        /\ IF op = "/" /\ left.int = -INT_MAX - 1 /\ right.int = -1
             THEN at' = "fault" /\ UNCHANGED value   \* the processor's divide error
             ELSE /\ at' = at
                  /\ value' = [IntValue(CASE op = "+" -> wrap(left.int + right.int)
                                          [] op = "-" -> wrap(left.int - right.int)
                                          [] op = "*" -> wrap(left.int * right.int)
                                          [] op = "/" -> quotient(left.int, right.int))
                               EXCEPT !.name = stack[1].left.name]
  /\ UNCHANGED <<heapVars, had_error, low>>

\* The word of a value, read as an int: for a string that is its address,
\* which is some positive number unless it is NULL.
Word(v) ==
  IF v.type # "str" THEN {v.int} ELSE IF v.str = NULL THEN {0} ELSE 1 .. INT_MAX

\* Division by zero, or of anything but ints.  The result is what the left
\* operand was, under the common type.
CombineError ==
  /\ \E type \in {"none", "int", "str"} :
       /\ at = "return" /\ stack # <<>>
       /\ Combine(stack[1].left, value, "/", type)
       /\ type = "int" => convert_var(value).int = 0
       /\ IF type = "int" THEN \E n \in Word(stack[1].left) : value' = IntValue(n)
          ELSE value' = stack[1].left
  /\ had_error' = TRUE
  /\ UNCHANGED <<heapVars, low, at>>

\* strcpy and strcat into a new string.  With no memory left both write to
\* address 0; a right operand that is there too would be copied behind itself
\* without end.
Concatenate ==
  /\ at = "return" /\ stack # <<>>
  /\ LET left == stack[1].left
         joined == Text(left) \o Text(value)
     IN /\ Combine(left, value, "+", "str")
        /\ malloc(Len(joined) + 1)
        /\ value' = [StrValue(result', joined) EXCEPT !.name = left.name]
        /\ IF result' # NULL THEN UNCHANGED <<low, at>>
           ELSE IF value.str # NULL THEN low' = joined /\ UNCHANGED at
           ELSE low' = Text(left) /\ at' = IF Text(left) = <<>> THEN at ELSE "corrupt"
  /\ UNCHANGED had_error

\* The other operators leave the result what it was, the left operand.
CombineNothing ==
  /\ at = "return" /\ stack # <<>>
  /\ \E type \in {"none", "str"}, op \in {"+", "-", "*"} :
       /\ <<type, op>> # <<"str", "+">>
       /\ Combine(stack[1].left, value, op, type)
  /\ value' = stack[1].left
  /\ UNCHANGED <<heapVars, had_error, low, at>>

----------------------------------------------------------------------------
(* The end of an assignment *)

\* Variant: the bound of the table off by one.
AssignOneMore ==
  /\ at = "return" /\ stack = <<>>
  /\ at' = "statement" /\ value' = None
  /\ IF had_error THEN UNCHANGED <<vars, had_error, assigned>>
     ELSE IF find_var(buf) = {} /\ Len(vars) > MAX_VARS
     THEN had_error' = TRUE /\ UNCHANGED <<vars, assigned>>
     ELSE /\ vars' = IF find_var(buf) = {} THEN Append(vars, value)
                     ELSE [vars EXCEPT ![CHOOSE i \in find_var(buf) : TRUE] = value]
          /\ assigned' = Append(assigned, equals)
          /\ UNCHANGED had_error
  /\ UNCHANGED <<heapVars, code, pc, buf, stack, low, equals>>

\* The variable is looked up by what parse_ident read last.  The value is
\* stored as a whole structure, with its own name instead of the variable's.
Assign ==
  /\ at = "return" /\ stack = <<>>
  /\ at' = "statement" /\ value' = None
  /\ IF had_error THEN UNCHANGED <<vars, had_error, assigned>>
     ELSE IF find_var(buf) = {} /\ Len(vars) >= MAX_VARS
     THEN had_error' = TRUE /\ UNCHANGED <<vars, assigned>>
     ELSE /\ vars' = IF find_var(buf) = {} THEN Append(vars, value)
                     ELSE [vars EXCEPT ![CHOOSE i \in find_var(buf) : TRUE] = value]
          /\ assigned' = Append(assigned, equals)
          /\ UNCHANGED had_error
  /\ UNCHANGED <<heapVars, code, pc, buf, stack, low, equals>>

MshStep ==
  \/ NameStatement \/ OtherStatement
  \/ NumberOperand \/ StringOperand \/ NameOperand \/ NoOperand \/ Operator
  \/ CombineInts \/ CombineError \/ Concatenate \/ CombineNothing
  \/ Assign

(***************************************************************************)
(* Properties                                                              *)
(***************************************************************************)
Values == [name : Names \union {""}, type : {"none", "int", "str"},
           int : -INT_MAX - 1 .. INT_MAX, str : Nat \union {NULL}, text : Texts]

MshTypeOK ==
  /\ code \in [0 .. CODE_SIZE - 1 -> Tokens]
  /\ pc \in 0 .. CODE_SIZE
  /\ vars \in Seq(Values) /\ Len(vars) <= MAX_VARS
  /\ value \in Values
  /\ \A i \in DOMAIN stack : stack[i].left \in Values /\ stack[i].op \in Operators
  /\ low \in Texts

(***************************************************************************)
(* Every string a variable holds is a block of the heap of its own, made   *)
(* for it and long enough for its text and the NUL, unless it is NULL      *)
(* because the heap was full: no two variables share a string, whatever    *)
(* expressions they were computed by (microshell.c:201-207, 214-217,       *)
(* 317-322, 383-389).                                                      *)
(***************************************************************************)
StringsOwned ==
  LET strings == {i \in DOMAIN vars : vars[i].type = "str" /\ vars[i].str # NULL}
  IN /\ \A i \in strings : \E b \in DOMAIN blocks :
          /\ blocks[b].addr = vars[i].str
          /\ blocks[b].size = Len(vars[i].text) + 1
     /\ \A i, j \in strings : vars[i].str = vars[j].str => i = j

(***************************************************************************)
(* The interpreter reads past the array only when the text fills it: the   *)
(* one position it may go behind a NUL is still inside otherwise           *)
(* (microshell.c:363-364, 461-463).                                        *)
(***************************************************************************)
ReadsStayInside == at = "runaway" => code[CODE_SIZE - 2] # NUL
=============================================================================
