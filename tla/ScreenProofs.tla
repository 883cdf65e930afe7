---------------------------- MODULE ScreenProofs ----------------------------
(***************************************************************************)
(* Proofs about the terminal, for every screen size and every character    *)
(* set that SizeAssumption and InkAssumption allow: the cursor stays on the screen, and   *)
(* the terminal implements the ring of cells.                              *)
(***************************************************************************)
EXTENDS Screen, TLAPS, WellFoundedInduction

\* Ring position of a screen record.
PositionOf(s) == s.row * VGA_WIDTH + s.col

-----------------------------------------------------------------------------
(* Arithmetic on rows and columns *)

\* A remainder of a number below the modulus is the number: no size_t wraps
\* while the cursor is on the screen.
LEMMA ModSmall ==
  ASSUME NEW n \in Nat, NEW m \in Nat, n < m
  PROVE  n % m = n
  BY SMT

\* Where row r, column c of a w by h screen lies in row-major order, the index
\* arithmetic of terminal_putentryat.
LEMMA RowMajor ==
  ASSUME NEW w \in Nat \ {0}, NEW h \in Nat \ {0},
         NEW r \in Nat, NEW c \in Nat, r < h, c < w
  PROVE  /\ r * w + c \in Nat
         /\ r * w + c < w * h
         /\ r + 1 = h => (r * w + c) + w >= w * h
         /\ r + 1 = h => r * w + w = w * h
         /\ r + 1 # h => (r + 1) * w + w <= w * h
         /\ (r + 1) * w = r * w + w
  BY SMT

\* Column 0 of a row other than the first comes right after the last column of
\* the row above, and only row 0, column 0 is at index 0.
LEMMA RowBefore ==
  ASSUME NEW w \in Nat \ {0}, NEW r \in Nat, NEW c \in Nat
  PROVE  /\ r > 0 => (r - 1) * w + (w - 1) = r * w - 1
         /\ (r * w + c = 0) <=> (r = 0 /\ c = 0)
  BY SMT

-----------------------------------------------------------------------------
(* What the screen operators do to an on-screen record *)

\* A write at an on-screen cursor hits the cell at the ring position, and no
\* other: the size_t index does not wrap (kernel.c:77-81).
LEMMA PutEntryAtCursor ==
  ASSUME NEW s \in OnScreen, NEW c \in Ink
  PROVE  /\ PositionOf(s) \in Cells
         /\ terminal_putentryat(s, c, s.col, s.row)
              = [s EXCEPT !.cells = [s.cells EXCEPT ![PositionOf(s)] = c]]
<1>1. /\ s.row \in Nat /\ s.row < VGA_HEIGHT
      /\ s.col \in Nat /\ s.col < VGA_WIDTH
      /\ s.cells \in [Cells -> Ink]
  BY SizeAssumption DEF OnScreen
<1>2. /\ PositionOf(s) \in Nat
      /\ PositionOf(s) < VGA_WIDTH * VGA_HEIGHT
  BY <1>1, RowMajor, SizeAssumption DEF PositionOf
<1>3. PositionOf(s) % SIZE_T = PositionOf(s)
  BY <1>2, ModSmall, SizeAssumption
<1>4. PositionOf(s) \in Cells
  BY <1>2, SizeAssumption DEF Cells
<1> QED
  BY <1>3, <1>4 DEF terminal_putentryat, PositionOf, OnScreen

LEMMA NewlineStep ==
  ASSUME NEW s \in OnScreen
  PROVE  /\ putNewline(s) \in OnScreen
         /\ putNewline(s).cells = s.cells
         /\ PositionOf(putNewline(s))
              = IF s.row + 1 = VGA_HEIGHT THEN 0 ELSE PositionOf(s) - s.col + VGA_WIDTH
<1>1. /\ s.row \in Nat /\ s.row < VGA_HEIGHT
      /\ s.col \in Nat /\ s.col < VGA_WIDTH
  BY SizeAssumption DEF OnScreen
<1>2. inc(s.row) = s.row + 1
  BY <1>1, ModSmall, SizeAssumption DEF inc
<1>3. nextRow(s.row) \in 0 .. VGA_HEIGHT - 1
  BY <1>1, <1>2, SizeAssumption DEF nextRow
<1>4. /\ putNewline(s) \in OnScreen
      /\ putNewline(s).cells = s.cells
      /\ putNewline(s).col = 0
      /\ putNewline(s).row = nextRow(s.row)
  <2>1. 0 \in 0 .. VGA_WIDTH - 1
    BY SizeAssumption
  <2>2. putNewline(s) = [s EXCEPT !.col = 0, !.row = nextRow(s.row)]
    BY DEF putNewline
  <2> HIDE DEF nextRow
  <2> QED BY <1>3, <2>1, <2>2 DEF OnScreen
<1>5. PositionOf(putNewline(s)) = nextRow(s.row) * VGA_WIDTH
  BY <1>3, <1>4, SizeAssumption DEF PositionOf
<1>6. (s.row + 1) * VGA_WIDTH = PositionOf(s) - s.col + VGA_WIDTH
  BY <1>1, RowMajor, SizeAssumption DEF PositionOf
<1>7. 0 * VGA_WIDTH = 0
  BY SizeAssumption
<1> QED
  BY <1>2, <1>4, <1>5, <1>6, <1>7 DEF nextRow

LEMMA BackspaceStep ==
  ASSUME NEW s \in OnScreen
  PROVE  LET p == IF PositionOf(s) = 0 THEN 0 ELSE PositionOf(s) - 1
         IN /\ putBackspace(s) \in OnScreen
            /\ PositionOf(putBackspace(s)) = p
            /\ putBackspace(s).cells = [s.cells EXCEPT ![p] = Blank]
<1> DEFINE b == backOne(s)
<1>1. /\ s.row \in Nat /\ s.row < VGA_HEIGHT
      /\ s.col \in Nat /\ s.col < VGA_WIDTH
      /\ s.cells \in [Cells -> Ink]
  BY SizeAssumption DEF OnScreen
<1>2. b \in OnScreen /\ b.cells = s.cells
  <2>1. CASE s.col > 0
    <3>1. b = [s EXCEPT !.col = s.col - 1]
      BY <2>1 DEF backOne
    <3>2. s.col - 1 \in 0 .. VGA_WIDTH - 1
      BY <2>1, <1>1, SizeAssumption
    <3> QED BY <3>1, <3>2 DEF OnScreen
  <2>2. CASE ~(s.col > 0) /\ s.row > 0
    <3>1. b = [s EXCEPT !.row = s.row - 1, !.col = VGA_WIDTH - 1]
      BY <2>2 DEF backOne
    <3>2. s.row - 1 \in 0 .. VGA_HEIGHT - 1 /\ VGA_WIDTH - 1 \in 0 .. VGA_WIDTH - 1
      BY <2>2, <1>1, SizeAssumption
    <3> QED BY <3>1, <3>2 DEF OnScreen
  <2>3. CASE ~(s.col > 0) /\ ~(s.row > 0)
    BY <2>3 DEF backOne
  <2> QED BY <2>1, <2>2, <2>3
<1>3. PositionOf(b) = IF PositionOf(s) = 0 THEN 0 ELSE PositionOf(s) - 1
  <2>1. CASE s.col > 0
    <3>1. b.row = s.row /\ b.col = s.col - 1
      BY <2>1 DEF backOne, OnScreen
    <3>2. s.row * VGA_WIDTH \in Nat
      BY <1>1, SizeAssumption
    <3> QED
      BY <2>1, <3>1, <3>2, <1>1 DEF PositionOf
  <2>2. CASE ~(s.col > 0) /\ s.row > 0
    <3>1. b.row = s.row - 1 /\ b.col = VGA_WIDTH - 1
      BY <2>2 DEF backOne, OnScreen
    <3>2. PositionOf(s) = s.row * VGA_WIDTH
      BY <2>2, <1>1, SizeAssumption DEF PositionOf
    <3> QED
      BY <2>2, <3>1, <3>2, <1>1, RowBefore, SizeAssumption DEF PositionOf
  <2>3. CASE ~(s.col > 0) /\ ~(s.row > 0)
    <3>1. b = s
      BY <2>3 DEF backOne
    <3> QED
      BY <2>3, <3>1, <1>1, RowBefore, SizeAssumption DEF PositionOf
  <2> QED
    BY <2>1, <2>2, <2>3
<1>4. Blank \in Ink
  BY InkAssumption DEF Blank
<1>5. /\ PositionOf(b) \in Cells
      /\ putBackspace(s) = [b EXCEPT !.cells = [b.cells EXCEPT ![PositionOf(b)] = Blank]]
  BY <1>2, <1>4, PutEntryAtCursor DEF putBackspace
<1>6. /\ putBackspace(s) \in OnScreen
      /\ putBackspace(s).row = b.row
      /\ putBackspace(s).col = b.col
      /\ putBackspace(s).cells = [s.cells EXCEPT ![PositionOf(b)] = Blank]
  BY <1>2, <1>4, <1>5 DEF OnScreen
<1>7. PositionOf(putBackspace(s)) = PositionOf(b)
  BY <1>6 DEF PositionOf
<1> QED
  BY <1>3, <1>6, <1>7

LEMMA InkStep ==
  ASSUME NEW s \in OnScreen, NEW c \in Ink
  PROVE  /\ putInk(s, c) \in OnScreen
         /\ PositionOf(putInk(s, c))
              = IF PositionOf(s) + 1 = VGA_WIDTH * VGA_HEIGHT THEN 0 ELSE PositionOf(s) + 1
         /\ putInk(s, c).cells = [s.cells EXCEPT ![PositionOf(s)] = c]
<1> DEFINE w == terminal_putentryat(s, c, s.col, s.row)
           t == putInk(s, c)
<1>1. /\ s.row \in Nat /\ s.row < VGA_HEIGHT
      /\ s.col \in Nat /\ s.col < VGA_WIDTH
  BY SizeAssumption DEF OnScreen
<1>2. inc(s.row) = s.row + 1 /\ inc(s.col) = s.col + 1
  BY <1>1, ModSmall, SizeAssumption DEF inc
<1>3. /\ PositionOf(s) \in Cells
      /\ w = [s EXCEPT !.cells = [s.cells EXCEPT ![PositionOf(s)] = c]]
  BY PutEntryAtCursor
<1>4. /\ w \in OnScreen /\ w.row = s.row /\ w.col = s.col
      /\ w.cells = [s.cells EXCEPT ![PositionOf(s)] = c]
  BY <1>3 DEF OnScreen
<1>5. CASE s.col + 1 = VGA_WIDTH
  <2>1. t = [w EXCEPT !.col = 0, !.row = nextRow(s.row)]
    BY <1>2, <1>5 DEF putInk
  <2>2. nextRow(s.row) = IF s.row + 1 = VGA_HEIGHT THEN 0 ELSE s.row + 1
    BY <1>2 DEF nextRow
  <2>3. t \in OnScreen /\ t.row = nextRow(s.row) /\ t.col = 0 /\ t.cells = w.cells
    <3>1. nextRow(s.row) \in 0 .. VGA_HEIGHT - 1 /\ 0 \in 0 .. VGA_WIDTH - 1
      BY <1>1, <2>2, SizeAssumption
    <3> QED BY <1>4, <2>1, <3>1 DEF OnScreen
  <2>4. PositionOf(s) + 1 = s.row * VGA_WIDTH + VGA_WIDTH
    BY <1>1, <1>5, SizeAssumption DEF PositionOf
  <2>5. CASE s.row + 1 = VGA_HEIGHT
    <3>1. PositionOf(s) + 1 = VGA_WIDTH * VGA_HEIGHT
      BY <1>1, <2>4, <2>5, RowMajor, SizeAssumption
    <3>2. PositionOf(t) = 0
      BY <2>2, <2>3, <2>5, SizeAssumption DEF PositionOf
    <3> QED BY <3>1, <3>2, <2>3, <1>4
  <2>6. CASE s.row + 1 # VGA_HEIGHT
    <3>1. s.row * VGA_WIDTH + VGA_WIDTH = (s.row + 1) * VGA_WIDTH
      BY <1>1, RowMajor, SizeAssumption
    <3>2. (s.row + 1) * VGA_WIDTH + VGA_WIDTH <= VGA_WIDTH * VGA_HEIGHT
      BY <1>1, <2>6, RowMajor, SizeAssumption
    <3>3. PositionOf(s) + 1 # VGA_WIDTH * VGA_HEIGHT
      BY <3>1, <3>2, <2>4, <1>1, SizeAssumption
    <3>4. PositionOf(t) = (s.row + 1) * VGA_WIDTH
      BY <2>2, <2>3, <2>6, <1>1, SizeAssumption DEF PositionOf
    <3> QED BY <3>1, <3>3, <3>4, <2>3, <2>4, <1>4
  <2> QED BY <2>5, <2>6
<1>6. CASE s.col + 1 # VGA_WIDTH
  <2>1. t = [w EXCEPT !.col = s.col + 1]
    BY <1>2, <1>6 DEF putInk
  <2>2. t \in OnScreen /\ t.row = s.row /\ t.col = s.col + 1 /\ t.cells = w.cells
    <3>1. s.col + 1 \in 0 .. VGA_WIDTH - 1
      BY <1>1, <1>6, SizeAssumption
    <3> QED BY <1>4, <2>1, <3>1 DEF OnScreen
  <2>3. s.row * VGA_WIDTH + (s.col + 1) < VGA_WIDTH * VGA_HEIGHT
    <3>1. s.col + 1 \in Nat /\ s.col + 1 < VGA_WIDTH
      BY <1>1, <1>6, SizeAssumption
    <3> QED BY <1>1, <3>1, RowMajor, SizeAssumption
  <2>4. PositionOf(t) = PositionOf(s) + 1
    BY <1>1, <2>2, SizeAssumption DEF PositionOf
  <2>5. PositionOf(s) + 1 # VGA_WIDTH * VGA_HEIGHT
    BY <2>3, <1>1, SizeAssumption DEF PositionOf
  <2> QED BY <2>2, <2>4, <2>5, <1>4
<1> QED
  BY <1>5, <1>6

\* Every character leaves the cursor on the screen (kernel.c:83-109).
LEMMA PutCharOnScreen ==
  ASSUME NEW s \in OnScreen, NEW c \in Chars
  PROVE  terminal_putchar(s, c) \in OnScreen
<1>1. CASE c = NL
  BY <1>1, NewlineStep DEF terminal_putchar
<1>2. CASE c = BS
  BY <1>2, BackspaceStep DEF terminal_putchar, NL, BS
<1>3. CASE c \in Ink
  <2>1. c # NL /\ c # BS
    BY <1>3, InkAssumption DEF NL, BS
  <2> QED BY <1>3, <2>1, InkStep DEF terminal_putchar
<1> QED
  BY <1>1, <1>2, <1>3 DEF Chars

-----------------------------------------------------------------------------
(* Writing a text: terminal_write folds terminal_putchar over it *)

Descents == {ss \in Nat \X Nat : ss[1] < ss[2]}

\* A set of natural numbers that is not empty has a least element.
LEMMA LeastElement ==
  ASSUME NEW T \in SUBSET Nat, T # {}
  PROVE  \E m \in T : \A k \in T : m <= k
<1>1. IsWellFoundedOn(Descents, Nat)
  <2>1. Descents = OpToRel(<, Nat)
    BY Zenon DEF Descents, OpToRel
  <2> QED BY <2>1, NatLessThanWellFounded, Zenon
<1>2. PICK m \in T : \A k \in T : ~(<<k, m>> \in Descents)
  BY WFMin, <1>1, Zenon
<1>3. \A k \in T : ~(k < m)
  BY <1>2 DEF Descents
<1> QED BY <1>3

\* One unfolding of the recursion of FoldLeft: what the table g of the folds
\* over subsets of the positions 1 .. n has to be.
Unfold(g, n, s, data) ==
  [t \in SUBSET (1 .. n) |->
     IF t = {} THEN s ELSE terminal_putchar(g[t \ {Max(t)}], data[Max(t)])]

\* terminal_write reads its result from the table (kernel.c:111-115).
LEMMA WriteIsFold ==
  ASSUME NEW s, NEW data \in Seq(Chars)
  PROVE  terminal_write(s, data) =
           (CHOOSE g : g = Unfold(g, Len(data), s, data))[1 .. Len(data)]
<1>1. DOMAIN data = 1 .. Len(data)
  OBVIOUS
<1>2. terminal_write(s, data) = FoldLeft(terminal_putchar, s, data)
  BY DEF terminal_write
<1> QED BY <1>1, <1>2, Zenon DEF FoldLeft, MapThenFoldSet, Unfold

\* The largest position of a set that holds n and no larger one.
LEMMA MaxIs ==
  ASSUME NEW n \in Nat, NEW t \in SUBSET (1 .. n), n \in t
  PROVE  Max(t) = n
<1>1. \A y \in t : n >= y
  OBVIOUS
<1>2. \A x \in t : (\A y \in t : x >= y) => x = n
  OBVIOUS
<1> QED BY <1>1, <1>2 DEF Max

\* The table exists, by induction on the number of positions.
LEMMA TableExists ==
  ASSUME NEW s, NEW data
  PROVE  \A n \in Nat : \E g : g = Unfold(g, n, s, data)
<1> DEFINE Has(n) == \E g : g = Unfold(g, n, s, data)
<1>1. Has(0)
  <2> DEFINE g == [t \in SUBSET (1 .. 0) |-> s]
  <2>1. \A t \in SUBSET (1 .. 0) : t = {}
    OBVIOUS
  <2>2. g = Unfold(g, 0, s, data)
    BY <2>1 DEF Unfold
  <2> QED BY <2>2
<1>2. ASSUME NEW n \in Nat, Has(n)
      PROVE  Has(n + 1)
  <2>1. PICK g : g = Unfold(g, n, s, data)
    BY <1>2
  <2> DEFINE h == [t \in SUBSET (1 .. n + 1) |->
                     IF n + 1 \in t THEN terminal_putchar(g[t \ {n + 1}], data[n + 1]) ELSE g[t]]
             Step(t) == IF t = {} THEN s ELSE terminal_putchar(h[t \ {Max(t)}], data[Max(t)])
  <2>2. ASSUME NEW t \in SUBSET (1 .. n)
        PROVE  t \in SUBSET (1 .. n + 1) /\ h[t] = g[t]
    <3>1. n + 1 \notin t
      BY <2>2
    <3>2. t \in SUBSET (1 .. n + 1)
      OBVIOUS
    <3> QED BY <3>1, <3>2
  <2>3. ASSUME NEW t \in SUBSET (1 .. n + 1), n + 1 \in t
        PROVE  h[t] = Step(t)
    <3>1. Max(t) = n + 1
      BY <2>3, MaxIs
    <3>2. t \ {n + 1} \in SUBSET (1 .. n)
      OBVIOUS
    <3>3. h[t \ {n + 1}] = g[t \ {n + 1}]
      BY <3>2, <2>2
    <3>4. h[t] = terminal_putchar(g[t \ {n + 1}], data[n + 1])
      BY <2>3
    <3>5. t # {}
      BY <2>3
    <3> HIDE DEF h
    <3> QED BY <3>1, <3>3, <3>4, <3>5
  <2>4. ASSUME NEW t \in SUBSET (1 .. n + 1), n + 1 \notin t
        PROVE  h[t] = Step(t)
    <3>1. t \in SUBSET (1 .. n)
      BY <2>4
    <3>2. h[t] = g[t]
      BY <3>1, <2>2
    <3>3. g[t] = IF t = {} THEN s ELSE terminal_putchar(g[t \ {Max(t)}], data[Max(t)])
      BY <2>1, <3>1, Zenon DEF Unfold
    <3>4. h[t \ {Max(t)}] = g[t \ {Max(t)}]
      <4>1. t \ {Max(t)} \in SUBSET (1 .. n)
        BY <3>1
      <4> HIDE DEF h
      <4> QED BY <4>1, <2>2
    <3> HIDE DEF h
    <3> QED BY <3>2, <3>3, <3>4
  <2>5. h = [t \in SUBSET (1 .. n + 1) |-> Step(t)]
    <3>1. \A t \in SUBSET (1 .. n + 1) : h[t] = Step(t)
      BY <2>3, <2>4
    <3> HIDE DEF Step
    <3> QED BY <3>1
  <2>6. h = Unfold(h, n + 1, s, data)
    <3> HIDE DEF h
    <3> QED BY <2>5 DEF Unfold
  <2> QED BY <2>6, Zenon
<1> HIDE DEF Has
<1> DEFINE None == {n \in Nat : ~Has(n)}
<1>3. None = {}
  <2> SUFFICES ASSUME None # {} PROVE FALSE
    OBVIOUS
  <2>1. PICK m \in None : \A k \in None : m <= k
    BY LeastElement
  <2>2. m # 0 /\ m \in Nat
    BY <1>1, <2>1
  <2>3. m - 1 \in Nat /\ Has(m - 1)
    BY <2>1, <2>2
  <2>4. Has(m - 1 + 1)
    BY <1>2, <2>3
  <2>5. m - 1 + 1 = m
    BY <2>2
  <2> QED BY <2>1, <2>4, <2>5
<1>4. \A n \in Nat : Has(n)
  BY <1>3
<1> QED BY <1>4 DEF Has

\* What is on the screen after each character of the text.
Writes(f, s, data) ==
  /\ f[0] = s
  /\ \A k \in 1 .. Len(data) : f[k] = terminal_putchar(f[k - 1], data[k])

LEMMA WriteTable ==
  ASSUME NEW s, NEW data \in Seq(Chars)
  PROVE  \E f : Writes(f, s, data) /\ terminal_write(s, data) = f[Len(data)]
<1> DEFINE n == Len(data)
           g == CHOOSE h : h = Unfold(h, n, s, data)
           f == [k \in 0 .. n |-> g[1 .. k]]
<1>1. n \in Nat
  OBVIOUS
<1>2. g = Unfold(g, n, s, data)
  BY <1>1, TableExists
<1> HIDE DEF g
<1>3. ASSUME NEW k \in 0 .. n
      PROVE  g[1 .. k] =
               IF 1 .. k = {} THEN s
               ELSE terminal_putchar(g[(1 .. k) \ {Max(1 .. k)}], data[Max(1 .. k)])
  <2>1. 1 .. k \in SUBSET (1 .. n)
    BY <1>1
  <2> QED BY <1>2, <2>1, Zenon DEF Unfold
<1>4. f[0] = s
  <2>1. 1 .. 0 = {} /\ 0 \in 0 .. n
    BY <1>1
  <2> QED BY <1>3, <2>1
<1>5. ASSUME NEW k \in 1 .. n
      PROVE  f[k] = terminal_putchar(f[k - 1], data[k])
  <2>1. k \in 0 .. n /\ k - 1 \in 0 .. n /\ k \in Nat
    BY <1>1
  <2>2. Max(1 .. k) = k
    BY <2>1, MaxIs
  <2>3. (1 .. k) \ {k} = 1 .. k - 1 /\ 1 .. k # {}
    <3>1. \A m \in Nat \ {0} : (1 .. m) \ {m} = 1 .. m - 1 /\ m \in 1 .. m
      OBVIOUS
    <3>2. k \in Nat \ {0}
      BY <1>1
    <3> QED BY <3>1, <3>2, Zenon
  <2> QED BY <1>3, <2>1, <2>2, <2>3
<1>6. terminal_write(s, data) = g[1 .. n]
  BY WriteIsFold, Zenon DEF g
<1>7. terminal_write(s, data) = f[n]
  BY <1>1, <1>6
<1>8. Writes(f, s, data)
  BY <1>4, <1>5 DEF Writes
<1> QED BY <1>7, <1>8

(***************************************************************************)
(* Whatever text is written, the cursor stays on the screen                *)
(* (kernel.c:111-115).                                                     *)
(***************************************************************************)
LEMMA WriteOnScreen ==
  ASSUME NEW s \in OnScreen, NEW data \in Seq(Chars)
  PROVE  terminal_write(s, data) \in OnScreen
<1>1. PICK f : Writes(f, s, data) /\ terminal_write(s, data) = f[Len(data)]
  BY WriteTable, Zenon
<1> DEFINE n == Len(data)
           Off == {k \in 0 .. n : f[k] \notin OnScreen}
<1>2. n \in Nat /\ \A k \in 1 .. n : data[k] \in Chars
  OBVIOUS
<1>3. Off = {}
  <2> SUFFICES ASSUME Off # {} PROVE FALSE
    OBVIOUS
  <2>1. Off \in SUBSET Nat
    OBVIOUS
  <2>2. PICK k \in Off : \A j \in Off : k <= j
    BY <2>1, LeastElement
  <2>3. k # 0
    BY <1>1, <2>2 DEF Writes
  <2>4. k \in 1 .. n /\ k - 1 \in 0 .. n /\ k - 1 \notin Off
    BY <1>2, <2>2, <2>3
  <2>5. f[k] = terminal_putchar(f[k - 1], data[k])
    BY <1>1, <2>4 DEF Writes
  <2>6. f[k - 1] \in OnScreen /\ data[k] \in Chars
    BY <2>4, <1>2
  <2> QED BY <2>2, <2>5, <2>6, PutCharOnScreen
<1> QED BY <1>1, <1>2, <1>3

\* Writing one character more is writing the text and then the character.
LEMMA WriteStep ==
  ASSUME NEW s, NEW d \in Seq(Chars), NEW e \in Seq(Chars),
         Len(e) = Len(d) + 1, \A k \in 1 .. Len(d) : e[k] = d[k]
  PROVE  terminal_write(s, e) = terminal_putchar(terminal_write(s, d), e[Len(e)])
<1>1. PICK f : Writes(f, s, d) /\ terminal_write(s, d) = f[Len(d)]
  BY WriteTable, Zenon
<1>2. PICK g : Writes(g, s, e) /\ terminal_write(s, e) = g[Len(e)]
  BY WriteTable, Zenon
<1> DEFINE n == Len(d)
           Off == {k \in 0 .. n : g[k] # f[k]}
<1>3. n \in Nat
  OBVIOUS
<1>4. Off = {}
  <2> SUFFICES ASSUME Off # {} PROVE FALSE
    OBVIOUS
  <2>1. Off \in SUBSET Nat
    OBVIOUS
  <2>2. PICK k \in Off : \A j \in Off : k <= j
    BY <2>1, LeastElement
  <2>3. k # 0
    BY <1>1, <1>2, <2>2 DEF Writes
  <2>4. k \in 1 .. n /\ k - 1 \in 0 .. n /\ k - 1 \notin Off /\ k \in 1 .. Len(e)
    BY <1>3, <2>2, <2>3
  <2>5. f[k] = terminal_putchar(f[k - 1], d[k]) /\ g[k] = terminal_putchar(g[k - 1], e[k])
    BY <1>1, <1>2, <2>4 DEF Writes
  <2>6. g[k - 1] = f[k - 1] /\ e[k] = d[k]
    BY <2>4
  <2> QED BY <2>2, <2>5, <2>6
<1>5. n \in 0 .. n /\ n + 1 \in 1 .. Len(e) /\ (n + 1) - 1 = n
  BY <1>3
<1>6. g[n] = f[n]
  BY <1>4, <1>5
<1>7. g[n + 1] = terminal_putchar(g[(n + 1) - 1], e[n + 1])
  BY <1>2, <1>5 DEF Writes
<1> QED BY <1>1, <1>2, <1>5, <1>6, <1>7

LEMMA WriteEmpty ==
  ASSUME NEW s, NEW d \in Seq(Chars), Len(d) = 0
  PROVE  terminal_write(s, d) = s
<1>1. PICK f : Writes(f, s, d) /\ terminal_write(s, d) = f[Len(d)]
  BY WriteTable, Zenon
<1> QED BY <1>1 DEF Writes

-----------------------------------------------------------------------------
(* The terminal *)

\* The record of the variables is on the screen when the invariant holds.
LEMMA ScreenIsOnScreen == (ScreenTypeOK /\ CursorOnScreen) => screen \in OnScreen
  BY SizeAssumption DEF ScreenTypeOK, CursorOnScreen, screen, OnScreen

\* Showing an on-screen record establishes the invariant.
LEMMA ShowOnScreen ==
  ASSUME NEW s \in OnScreen, Show(s)
  PROVE  (ScreenTypeOK /\ CursorOnScreen)'
<1>1. /\ s.row \in 0 .. VGA_HEIGHT - 1
      /\ s.col \in 0 .. VGA_WIDTH - 1
      /\ s.cells \in [Cells -> Ink]
  BY DEF OnScreen
<1> QED
  BY <1>1, SizeAssumption DEF Show, ScreenTypeOK, CursorOnScreen

LEMMA BlankScreen == terminal_initialize \in OnScreen
<1>1. 0 \in 0 .. VGA_HEIGHT - 1 /\ 0 \in 0 .. VGA_WIDTH - 1
  BY SizeAssumption
<1>2. [i \in Cells |-> Blank] \in [Cells -> Ink]
  BY InkAssumption DEF Blank
<1> QED
  BY <1>1, <1>2 DEF terminal_initialize, OnScreen

(***************************************************************************)
(* Whatever is printed, in whatever order, the cursor of the terminal      *)
(* stays on the screen and the cells hold printable characters: the        *)
(* equality tests of terminal_putchar (kernel.c:83-109) never miss.        *)
(***************************************************************************)
THEOREM CursorStaysOnScreen == ScreenSpec => [](ScreenTypeOK /\ CursorOnScreen)
<1> DEFINE Inv == ScreenTypeOK /\ CursorOnScreen
<1>1. ScreenInit => Inv
  <2>1. [i \in Cells |-> Blank] \in [Cells -> Ink]
    BY InkAssumption DEF Blank
  <2> QED
    BY <2>1, SizeAssumption DEF ScreenInit, ScreenTypeOK, CursorOnScreen
<1>2. Inv /\ [ScreenNext]_screenVars => Inv'
  <2> SUFFICES ASSUME Inv, [ScreenNext]_screenVars
               PROVE  Inv'
    OBVIOUS
  <2>1. screen \in OnScreen
    BY ScreenIsOnScreen
  <2>2. CASE Initialize
    BY <2>2, BlankScreen, ShowOnScreen DEF Initialize
  <2>3. ASSUME NEW c \in Chars, PutChar(c)
        PROVE  Inv'
    BY <2>1, <2>3, PutCharOnScreen, ShowOnScreen DEF PutChar
  <2>4. CASE UNCHANGED screenVars
    BY <2>4 DEF screenVars, ScreenTypeOK, CursorOnScreen
  <2> QED
    BY <2>2, <2>3, <2>4 DEF ScreenNext
<1> QED
  BY <1>1, <1>2, PTL DEF ScreenSpec

(***************************************************************************)
(* The terminal implements RingScreen: every call of terminal_putchar and  *)
(* terminal_initialize is one step of the ring.                            *)
(***************************************************************************)
THEOREM TerminalImplementsRing == ScreenSpec => ImplementsRing
<1> DEFINE Inv == ScreenTypeOK /\ CursorOnScreen
<1>1. ScreenInit => Ring!Init
  <2>1. 0 * VGA_WIDTH + 0 = 0
    BY SizeAssumption
  <2> QED
    BY <2>1 DEF ScreenInit, Ring!Init, Position, Cells, Ring!Cells, Ring!Size, Blank, Ring!Blank
<1>2. Inv /\ [ScreenNext]_screenVars => [Ring!Next]_<<Position, terminal_buffer>>
  <2> SUFFICES ASSUME Inv, [ScreenNext]_screenVars
               PROVE  [Ring!Next]_<<Position, terminal_buffer>>
    OBVIOUS
  <2>1. /\ screen \in OnScreen
        /\ Position = PositionOf(screen)
        /\ terminal_buffer = screen.cells
    BY ScreenIsOnScreen DEF Position, PositionOf, screen
  <2>2. ASSUME NEW s, Show(s)
        PROVE  Position' = PositionOf(s) /\ terminal_buffer' = s.cells
    BY <2>2 DEF Show, Position, PositionOf
  <2>3. CASE Initialize
    <3>1. PositionOf(terminal_initialize) = 0
      BY SizeAssumption DEF PositionOf, terminal_initialize
    <3>2. Position' = 0 /\ terminal_buffer' = [i \in Cells |-> Blank]
      BY <2>2, <2>3, <3>1 DEF Initialize, terminal_initialize
    <3> QED
      BY <3>2 DEF Ring!Next, Ring!Clear, Cells, Ring!Cells, Ring!Size, Blank, Ring!Blank
  <2>4. ASSUME NEW c \in Ink, PutChar(c)
        PROVE  Ring!Next
    <3>1. terminal_putchar(screen, c) = putInk(screen, c)
      BY InkAssumption DEF terminal_putchar, NL, BS
    <3>2. Show(putInk(screen, c))
      BY <2>4, <3>1 DEF PutChar
    <3>3. Ring!Write(c)
      BY <2>1, <2>2, <3>2, InkStep DEF Ring!Write, Ring!Size
    <3> QED
      BY <3>3 DEF Ring!Next
  <2>5. CASE PutChar(NL)
    <3> DEFINE t == putNewline(screen)
    <3>1. Show(t)
      BY <2>5 DEF PutChar, terminal_putchar
    <3>2. /\ terminal_buffer' = terminal_buffer
          /\ Position' = IF terminal_row + 1 = VGA_HEIGHT THEN 0
                          ELSE Position - terminal_column + VGA_WIDTH
      BY <2>1, <2>2, <3>1, NewlineStep DEF screen
    <3>3. /\ terminal_row \in Nat /\ terminal_row < VGA_HEIGHT
          /\ terminal_column \in Nat /\ terminal_column < VGA_WIDTH
      BY SizeAssumption DEF ScreenTypeOK, CursorOnScreen
    <3>4. CASE terminal_row + 1 = VGA_HEIGHT
      <4>1. VGA_WIDTH * VGA_HEIGHT <= Position + VGA_WIDTH
        BY <3>3, <3>4, RowMajor, SizeAssumption DEF Position
      <4>2. 0 \in Ring!LineStarts
        <5>1. 0 = 0 * VGA_WIDTH /\ 0 \in 0 .. VGA_HEIGHT - 1
          BY SizeAssumption
        <5> QED BY <5>1 DEF Ring!LineStarts
      <4> QED
        BY <3>2, <3>4, <4>1, <4>2 DEF Ring!Next, Ring!NewLine, Ring!Size
    <3>5. CASE terminal_row + 1 # VGA_HEIGHT
      <4>1. Position' = (terminal_row + 1) * VGA_WIDTH
        BY <3>2, <3>3, <3>5, RowMajor, SizeAssumption DEF Position
      <4>2. terminal_row + 1 \in 0 .. VGA_HEIGHT - 1
        BY <3>3, <3>5, SizeAssumption
      <4>3. Position' \in Ring!LineStarts
        BY <4>1, <4>2 DEF Ring!LineStarts
      <4>4. Position \in Nat
        BY <3>3, RowMajor, SizeAssumption DEF Position
      <4>5. Position < Position' /\ Position' <= Position + VGA_WIDTH
        BY <3>2, <3>3, <3>5, <4>4, SizeAssumption
      <4> QED
        BY <3>2, <4>3, <4>5 DEF Ring!Next, Ring!NewLine
    <3> QED
      BY <3>4, <3>5
  <2>6. CASE PutChar(BS)
    <3>1. Show(putBackspace(screen))
      BY <2>6 DEF PutChar, terminal_putchar, NL, BS
    <3>2. Ring!Erase
      BY <2>1, <2>2, <3>1, BackspaceStep DEF Ring!Erase, Blank, Ring!Blank
    <3> QED
      BY <3>2 DEF Ring!Next
  <2>7. CASE UNCHANGED screenVars
    BY <2>7 DEF screenVars, Position
  <2> QED
    BY <2>3, <2>4, <2>5, <2>6, <2>7 DEF ScreenNext, Chars
<1> QED
  BY <1>1, <1>2, CursorStaysOnScreen, PTL DEF ScreenSpec, ImplementsRing, Ring!Spec
=============================================================================
