------------------------------ MODULE TermProofs ------------------------------
(***************************************************************************)
(* Proofs about the terminal: for every size of the screen, every set of   *)
(* words and any number of keys, Term keeps its types, implements the line *)
(* editor and shows the line that is typed.                                *)
(***************************************************************************)
EXTENDS Term, SequenceTheorems, FiniteSetTheorems, WellFoundedInduction, TLAPS

-----------------------------------------------------------------------------
(* Cells of the screen and their numbers. *)

\* Division with remainder.
LEMMA Quotient ==
    ASSUME NEW p \in Nat, NEW s \in Nat \ {0}
    PROVE  /\ p \div s \in Nat /\ p % s \in 0 .. (s - 1)
           /\ p = s * (p \div s) + (p % s)
OBVIOUS

\* Quotient and remainder are unique.
LEMMA QuotientIs ==
    ASSUME NEW p \in Nat, NEW s \in Nat \ {0}, NEW q \in Nat, NEW r \in 0 .. (s - 1),
           p = s * q + r
    PROVE  p \div s = q /\ p % s = r
<1>1. p \div s \in Nat /\ p % s \in 0 .. (s - 1) /\ p = s * (p \div s) + (p % s)
  BY Quotient
<1> DEFINE a == p \div s
           b == p % s
<1>2. a \in Nat /\ b \in 0 .. (s - 1) /\ s * a + b = s * q + r
  BY <1>1
<1> HIDE DEF a, b
<1>3. ~(a < q)
  <2> SUFFICES ASSUME a < q PROVE FALSE
    OBVIOUS
  <2>1. q - a \in Nat \ {0} /\ s * q = s * a + s * (q - a)
    BY <1>2
  <2>2. s * (q - a) >= s
    BY <2>1
  <2> QED BY <1>2, <2>1, <2>2
<1>4. ~(q < a)
  <2> SUFFICES ASSUME q < a PROVE FALSE
    OBVIOUS
  <2>1. a - q \in Nat \ {0} /\ s * a = s * q + s * (a - q)
    BY <1>2
  <2>2. s * (a - q) >= s
    BY <2>1
  <2> QED BY <1>2, <2>1, <2>2
<1>5. a = q /\ b = r
  BY <1>2, <1>3, <1>4
<1> QED BY <1>5 DEF a, b

\* What the assumption on the screen says, in the form the proofs need.
LEMMA Sizes ==
    /\ COLS \in Nat \ {0} /\ ROWS \in Nat \ {0, 1} /\ FIFO \in Nat \ {0} /\ KEYS \in Nat
    /\ COLS * (ROWS - 1) \in Nat /\ KEYS + 2 <= COLS * (ROWS - 1)
    /\ COLS * ROWS = COLS * (ROWS - 1) + COLS
BY SizeAssumption

\* Keys with a character are none of the control characters.
LEMMA Characters ==
    /\ " " \in Printable /\ NUL \notin Printable /\ "\n" \notin Printable /\ "bs" \notin Printable
    /\ NUL # "\n" /\ NUL # "bs" /\ "bs" # "\n"
BY WordsAssumption DEF Printable, NUL

-----------------------------------------------------------------------------
(* The cursor. *)

\* term_init, term_scrollup and the backspace leave the cursor on the screen.
CursorOK == /\ tty.x \in 0..(COLS - 1) /\ tty.y \in 0..(ROWS - 1) /\ tty.moved \in BOOLEAN

\* A cell of the screen has a number below COLS * ROWS, and the other way round.
LEMMA CellNumber ==
    ASSUME NEW x \in 0..(COLS - 1), NEW y \in 0..(ROWS - 1)
    PROVE  x + y * COLS \in Nat /\ x + y * COLS < COLS * ROWS /\ COLS * (y + 1) <= COLS * ROWS
           /\ COLS * (y + 1) >= x + y * COLS /\ COLS * (y + 1) \in Nat
<1> DEFINE d == ROWS - (y + 1)
<1>1. COLS \in Nat \ {0} /\ d \in Nat /\ y \in Nat /\ x \in Nat /\ x < COLS /\ ROWS = (y + 1) + d
  BY Sizes
<1> HIDE DEF d
<1>2. /\ COLS * ((y + 1) + d) = COLS * (y + 1) + COLS * d /\ COLS * (y + 1) = y * COLS + COLS
      /\ COLS * d \in Nat /\ y * COLS \in Nat
  BY <1>1
<1> QED BY <1>1, <1>2

\* A number below COLS * ROWS is that of one cell of the screen.
LEMMA NumberCell ==
    ASSUME NEW i \in Nat, i < COLS * ROWS
    PROVE  i % COLS \in 0..(COLS - 1) /\ i \div COLS \in 0..(ROWS - 1)
           /\ (i % COLS) + (i \div COLS) * COLS = i
<1> DEFINE q == i \div COLS
           r == i % COLS
<1>1. COLS \in Nat \ {0} /\ ROWS \in Nat
  BY Sizes
<1>2. q \in Nat /\ r \in 0 .. (COLS - 1) /\ i = COLS * q + r
  <2>1. \A p \in Nat, s \in Nat \ {0} :
           p \div s \in Nat /\ p % s \in 0 .. (s - 1) /\ p = s * (p \div s) + (p % s)
    BY Quotient
  <2> QED BY <1>1, <2>1, Zenon
<1> HIDE DEF q, r
<1>3. q < ROWS
  <2> SUFFICES ASSUME q >= ROWS PROVE FALSE
    BY <1>1, <1>2
  <2> DEFINE d == q - ROWS
  <2>1. d \in Nat /\ q = ROWS + d
    BY <1>1, <1>2
  <2> HIDE DEF d
  <2>2. COLS * (ROWS + d) = COLS * ROWS + COLS * d /\ COLS * d \in Nat /\ COLS * ROWS \in Nat
    BY <1>1, <2>1
  <2> QED BY <1>2, <2>1, <2>2
<1>4. r + q * COLS = i
  <2>1. COLS * q = q * COLS /\ q * COLS \in Nat
    BY <1>1, <1>2
  <2> QED BY <1>2, <2>1
<1> QED BY <1>1, <1>2, <1>3, <1>4 DEF q, r

\* Where the cursor goes: to the cell that was asked for, or to the first of
\* the last row when that is below the screen; only then the pixels move.
LEMMA Scrolls ==
    ASSUME NEW px, NEW index \in Nat, index <= COLS * ROWS, tty.moved \in BOOLEAN,
           term_scrollup(px, index)
    PROVE  /\ CursorOK'
           /\ ~tty'.moved => ~tty.moved /\ tty'.px = px /\ Index' = index
           /\ Index' = index \/ Index' = COLS * (ROWS - 1)
<1> DEFINE over == index >= COLS * ROWS
<1>1. tty' = [px |-> IF over THEN Scrolled(px) ELSE px, x |-> index % COLS,
              y |-> IF over THEN ROWS - 1 ELSE index \div COLS, moved |-> tty.moved \/ over]
  BY DEF term_scrollup
<1>2. Index' = tty'.x + tty'.y * COLS
  BY DEF Index
<1>3. COLS \in Nat \ {0} /\ ROWS \in Nat \ {0, 1}
  BY Sizes
<1>4. CASE ~over
  <2>1. index < COLS * ROWS
    BY <1>3, <1>4
  <2>2. /\ tty'.x = index % COLS /\ tty'.y = index \div COLS /\ tty'.moved = tty.moved
        /\ tty'.px = px
    BY <1>1, <1>4
  <2>3. index % COLS \in 0..(COLS - 1) /\ index \div COLS \in 0..(ROWS - 1)
        /\ (index % COLS) + (index \div COLS) * COLS = index
    BY <2>1, NumberCell
  <2> QED BY <1>2, <2>2, <2>3 DEF CursorOK
<1>5. CASE over
  <2>1. index = COLS * ROWS + 0 /\ 0 \in 0 .. (COLS - 1) /\ ROWS \in Nat
    BY <1>3, <1>5
  <2>2. \A p \in Nat, s \in Nat \ {0} : \A q \in Nat : \A r \in 0 .. (s - 1) :
           p = s * q + r => p % s = r
    BY QuotientIs
  <2>3. index % COLS = 0
    BY <1>3, <2>1, <2>2, Zenon
  <2>4. tty'.x = index % COLS /\ tty'.y = ROWS - 1 /\ tty'.moved = TRUE
    BY <1>1, <1>5
  <2>5. tty'.x = 0
    BY <2>3, <2>4, Zenon
  <2>6. 0 + (ROWS - 1) * COLS = COLS * (ROWS - 1)
    BY <1>3
  <2>7. Index' = COLS * (ROWS - 1)
    BY <1>2, <2>4, <2>5, <2>6, Zenon
  <2>8. 0 \in 0..(COLS - 1) /\ ROWS - 1 \in 0..(ROWS - 1)
    BY <1>3
  <2>9. CursorOK'
    BY <2>4, <2>5, <2>8, Zenon DEF CursorOK
  <2> QED BY <2>4, <2>7, <2>9
<1> QED BY <1>4, <1>5

-----------------------------------------------------------------------------
(* The invariant. *)

Typing == at \notin {"print", "program"}

\* A line is no longer than the keys that were read, and the keyboard's codes
\* come on top of them.
Room == /\ count + queued <= KEYS
        /\ index_logs + (IF at \in {"clear", "key"} THEN 1 ELSE 0) <= count
        /\ at = "read" => queued > 0
        /\ ~Typing => index_logs = 0

\* The prompt and the line are in front of the cursor.
InFront == Typing => Index >= index_logs + 1

\* The line in the buffer ends where index_logs says; before the first key it is
\* what the heap held.
Terminated ==
    IF clean THEN Typing => /\ logs[index_logs] = NUL
                            /\ \A j \in 0..(index_logs - 1) : logs[j] # NUL
    ELSE Typing /\ index_logs = 0 /\ \A j \in 1..(KEYS + 1) : logs[j] = NUL

\* The number of the cell that a pixel lies in.
Placed(q) == q[1] \div 4 \in Nat /\ q[2] \in 0..(COLS - 1)
Place(q) == COLS * (q[1] \div 4) + q[2]
Cell(px, i) == {q \in px : Place(q) = i}

\* Nothing is drawn at the cursor or behind it, as long as nothing has scrolled.
Behind == ~tty.moved => \A q \in tty.px : Placed(q) /\ Place(q) < Index

\* What a character looks like in the colour of the text.
Look(c, i, color) == IF color = "black" THEN {} ELSE Glyph(c, i % COLS, i \div COLS)

LineShown == Typing /\ ~tty.moved =>
    LET p == Index - index_logs - 1
    IN  /\ Cell(tty.px, p) = Look(">", p, text_color)
        /\ \A i \in 1..index_logs : Cell(tty.px, p + i) = Look(logs[i - 1], p + i, text_color)

TermInv == /\ TypeOK /\ tty.moved \in BOOLEAN
           /\ Room /\ InFront /\ Terminated /\ Behind /\ LineShown

\* The bounds that the invariant gives.
LEMMA TermFields ==
    ASSUME TermInv
    PROVE  /\ CursorOK /\ Index \in Nat /\ Index < COLS * ROWS
           /\ COLS * (tty.y + 1) \in Nat /\ COLS * (tty.y + 1) <= COLS * ROWS
           /\ COLS * (tty.y + 1) >= Index
           /\ count \in Nat /\ queued \in Nat /\ index_logs \in Nat /\ index_logs <= KEYS
           /\ index_logs <= count /\ count <= KEYS
           /\ logs \in [Buffer -> Printable \cup {NUL}] /\ text_color \in {"white", "black"}
           /\ clean \in BOOLEAN /\ key \in Decoded
<1>1. CursorOK
  BY DEF TermInv, TypeOK, CursorOK
<1>2. /\ tty.x + tty.y * COLS \in Nat /\ tty.x + tty.y * COLS < COLS * ROWS
      /\ COLS * (tty.y + 1) <= COLS * ROWS /\ COLS * (tty.y + 1) >= tty.x + tty.y * COLS
      /\ COLS * (tty.y + 1) \in Nat
  BY <1>1, CellNumber DEF CursorOK
<1>3. count \in 0..KEYS /\ queued \in 0..FIFO /\ index_logs \in 0..KEYS
  BY DEF TermInv, TypeOK
<1>4. /\ logs \in [Buffer -> Printable \cup {NUL}] /\ text_color \in {"white", "black"}
      /\ clean \in BOOLEAN /\ key \in Decoded
  BY DEF TermInv, TypeOK
<1>5. count \in Nat /\ queued \in Nat /\ index_logs \in Nat /\ index_logs <= KEYS /\ count <= KEYS
  BY <1>3, Sizes
<1>6. index_logs <= count
  <2>1. index_logs + (IF at \in {"clear", "key"} THEN 1 ELSE 0) <= count
    BY DEF TermInv, Room
  <2> QED BY <1>5, <2>1
<1> QED BY <1>1, <1>2, <1>4, <1>5, <1>6 DEF Index

\* A step that leaves the line, the screen and the colour alone.
LEMMA Unseen ==
    ASSUME TermInv, UNCHANGED <<logs, index_logs, clean, tty, text_color>>,
           TypeOK', Room', Typing' = Typing
    PROVE  TermInv'
BY DEF TermInv, InFront, Terminated, Behind, LineShown, Index, Look

\* A scan code arrives in the keyboard's buffer.
LEMMA PressStep ==
    ASSUME TermInv, Press
    PROVE  TermInv'
<1>1. /\ queued < FIFO /\ count + queued < KEYS /\ queued' = queued + 1
      /\ irq1' = (irq1 \/ queued = 0) /\ at' = at /\ count' = count /\ key' = key
      /\ ps2_is_output_serve' = ps2_is_output_serve
      /\ UNCHANGED <<logs, index_logs, clean, tty, text_color>>
  BY DEF Press, lineVars, screenVars
<1>2. queued \in Nat /\ count \in Nat /\ KEYS \in Nat /\ FIFO \in Nat
  BY TermFields, Sizes
<1>3. queued' \in 0..FIFO /\ count' + queued' <= KEYS /\ (at' = "read" => queued' > 0)
  BY <1>1, <1>2
<1>4. TypeOK'
  BY <1>1, <1>3 DEF TermInv, TypeOK
<1>5. Room' /\ Typing' = Typing
  BY <1>1, <1>3 DEF TermInv, Room, Typing
<1> QED BY <1>1, <1>4, <1>5, Unseen

\* The steps that touch neither the line nor the screen.
LEMMA InterruptStep ==
    ASSUME TermInv, keyboard_handle \/ getchar \/ ClearFlag \/ TaskReads \/ ExecReturns
    PROVE  TermInv'
<1>1. /\ queued' = queued /\ count' = count /\ key' = key
      /\ UNCHANGED <<logs, index_logs, clean, tty, text_color>>
      /\ irq1' \in {irq1, FALSE}
      /\ ps2_is_output_serve' \in {ps2_is_output_serve, queued > 0, FALSE}
  BY DEF keyboard_handle, getchar, ClearFlag, TaskReads, ExecReturns, lineVars, screenVars,
         taskVars, Stay
<1>2. \/ at' = at \/ (at = "poll" /\ at' = "read" /\ queued > 0)
      \/ (at = "clear" /\ at' = "key") \/ (at = "program" /\ at' = "print")
  <2>1. CASE keyboard_handle
    BY <2>1 DEF keyboard_handle
  <2>2. CASE getchar
    BY <2>2 DEF getchar, keyboard_is_output_serve
  <2>3. CASE ClearFlag
    BY <2>3 DEF ClearFlag
  <2>4. CASE TaskReads
    BY <2>4 DEF TaskReads
  <2>5. CASE ExecReturns
    BY <2>5 DEF ExecReturns
  <2> QED BY <2>1, <2>2, <2>3, <2>4, <2>5
<1>3. TypeOK'
  <2>1. TypeOK
    BY DEF TermInv
  <2>2. at' \in {"poll", "read", "clear", "key", "print", "program"}
    BY <1>2, <2>1 DEF TypeOK
  <2>3. (queued > 0) \in BOOLEAN
    OBVIOUS
  <2>4. irq1' \in BOOLEAN /\ ps2_is_output_serve' \in BOOLEAN
    BY <1>1, <2>1, <2>3, Zenon DEF TypeOK
  <2> QED BY <1>1, <2>1, <2>2, <2>4, Zenon DEF TypeOK
<1>4. Room' /\ Typing' = Typing
  BY <1>1, <1>2 DEF TermInv, Room, Typing
<1> QED BY <1>1, <1>3, <1>4, Unseen

\* A key is read: there is still room for it in the line.
LEMMA ReadDataStep ==
    ASSUME TermInv, ReadData
    PROVE  TermInv'
<1>1. /\ at = "read" /\ at' = "clear" /\ count' = count + 1 /\ queued' = queued - 1
      /\ irq1' = (irq1 \/ queued > 1) /\ key' \in Decoded
      /\ ps2_is_output_serve' = ps2_is_output_serve
      /\ UNCHANGED <<logs, index_logs, clean, tty, text_color>>
  BY DEF ReadData, lineVars, screenVars
<1>2. /\ queued \in Nat /\ queued <= FIFO /\ count \in Nat /\ KEYS \in Nat /\ FIFO \in Nat
      /\ index_logs \in Nat /\ index_logs <= count
  BY TermFields, Sizes DEF TermInv, TypeOK
<1>3. queued > 0 /\ count + queued <= KEYS
  BY <1>1 DEF TermInv, Room
<1>4. /\ queued' \in 0..FIFO /\ count' \in 0..KEYS /\ count' + queued' <= KEYS
      /\ index_logs' + 1 <= count'
  BY <1>1, <1>2, <1>3
<1>5. TypeOK'
  BY <1>1, <1>4 DEF TermInv, TypeOK
<1>6. Room' /\ Typing' = Typing
  BY <1>1, <1>4 DEF TermInv, Room, Typing
<1> QED BY <1>1, <1>5, <1>6, Unseen

\* A key without a character, or a backspace on an empty line.
LEMMA IgnoredStep ==
    ASSUME TermInv, KeyIgnored
    PROVE  TermInv'
<1>1. /\ at = "key" /\ at' = "poll" /\ UNCHANGED <<queued, irq1, ps2_is_output_serve, key, count>>
      /\ UNCHANGED <<logs, index_logs, clean, tty, text_color>>
  BY DEF KeyIgnored, Stay, lineVars, screenVars
<1>2. index_logs \in Nat /\ index_logs <= count
  BY TermFields
<1>3. TypeOK'
  BY <1>1 DEF TermInv, TypeOK
<1>4. Room' /\ Typing' = Typing
  BY <1>1, <1>2 DEF TermInv, Room, Typing
<1> QED BY <1>1, <1>3, <1>4, Unseen

-----------------------------------------------------------------------------
(* Drawing. *)

\* A glyph's pixels lie in its cell.
LEMMA GlyphPlaced ==
    ASSUME NEW c, NEW i \in Nat, NEW q \in Glyph(c, i % COLS, i \div COLS)
    PROVE  Placed(q) /\ Place(q) = i
<1> DEFINE x == i % COLS
           y == i \div COLS
<1>1. COLS \in Nat \ {0}
  BY Sizes
<1>2. y \in Nat /\ x \in 0 .. (COLS - 1) /\ i = COLS * y + x
  <2>1. \A p \in Nat, s \in Nat \ {0} :
           p \div s \in Nat /\ p % s \in 0 .. (s - 1) /\ p = s * (p \div s) + (p % s)
    BY Quotient
  <2> QED BY <1>1, <2>1, Zenon
<1>3. q \in Glyph(c, x, y)
  OBVIOUS
<1> HIDE DEF x, y
<1>4. PICK p \in 0..3 : q = <<4 * y + p, x, c, p>>
  BY <1>3 DEF Glyph
<1>5. q[1] = 4 * y + p /\ q[2] = x
  BY <1>4
<1>6. (4 * y + p) \div 4 = y
  BY <1>2
<1>7. q[1] \div 4 = y
  BY <1>5, <1>6, Zenon
<1> QED BY <1>2, <1>5, <1>7 DEF Placed, Place

\* A character drawn at the cursor, where nothing is: it is what its cell shows,
\* and no other cell changes.
Drawing(px, n, c, color) ==
    IF color = "black" THEN px \ Glyph(c, n % COLS, n \div COLS)
    ELSE px \cup Glyph(c, n % COLS, n \div COLS)

\* Where nothing was drawn before, a character is all that its cell shows.
LEMMA Drawn ==
    ASSUME NEW px, NEW n \in Nat, NEW c, NEW color, NEW new, new = Drawing(px, n, c, color),
           \A q \in px : Placed(q) /\ Place(q) < n
    PROVE  /\ \A q \in new : Placed(q) /\ Place(q) < n + 1
           /\ Cell(new, n) = Look(c, n, color)
           /\ \A i \in Nat : i < n => Cell(new, i) = Cell(px, i)
<1> DEFINE g == Glyph(c, n % COLS, n \div COLS)
<1>1. \A q \in g : Placed(q) /\ Place(q) = n
  BY GlyphPlaced
<1>2. new = (IF color = "black" THEN px \ g ELSE px \cup g)
      /\ Look(c, n, color) = IF color = "black" THEN {} ELSE g
  BY DEF Look, Drawing
<1>3. \A q \in px : Place(q) \in Int
  BY Sizes DEF Placed, Place
<1> HIDE DEF g
<1>4. \A q \in px : Place(q) # n /\ q \notin g /\ Place(q) < n + 1
  BY <1>1, <1>3
<1>5. \A q \in new : Placed(q) /\ Place(q) < n + 1
  <2>1. n < n + 1
    OBVIOUS
  <2> QED BY <1>1, <1>2, <1>4, <2>1, Zenon
<1>6. Cell(new, n) = Look(c, n, color)
  BY <1>1, <1>2, <1>4 DEF Cell
<1>7. \A i \in Nat : i < n => Cell(new, i) = Cell(px, i)
  <2>1. \A i \in Nat : i < n => i # n
    OBVIOUS
  <2> QED BY <1>1, <1>2, <1>4, <2>1 DEF Cell
<1> QED BY <1>5, <1>6, <1>7

\* A backspace: the last cell's pixels are the glyph's, so nothing is left there.
LEMMA Erased ==
    ASSUME NEW px, NEW n \in Nat, NEW c, NEW color, NEW new,
           \A q \in px : Placed(q) /\ Place(q) < n + 1,
           Cell(px, n) = Look(c, n, color),
           new = px \ Glyph(c, n % COLS, n \div COLS)
    PROVE  /\ \A q \in new : Placed(q) /\ Place(q) < n
           /\ \A i \in Nat : i < n => Cell(new, i) = Cell(px, i)
<1> DEFINE g == Glyph(c, n % COLS, n \div COLS)
<1>1. \A q \in g : Placed(q) /\ Place(q) = n
  BY GlyphPlaced
<1>2. new = px \ g /\ Cell(px, n) \subseteq g
  BY DEF Look
<1>3. \A q \in px : Place(q) \in Int
  BY Sizes DEF Placed, Place
<1> HIDE DEF g
<1>4. \A q \in new : q \in px /\ Place(q) # n
  BY <1>2 DEF Cell
<1>5. \A q \in new : Placed(q) /\ Place(q) < n
  BY <1>3, <1>4
<1>6. \A i \in Nat : i < n => Cell(new, i) = Cell(px, i)
  <2>1. \A i \in Nat : i < n => i # n
    OBVIOUS
  <2> QED BY <1>1, <1>2, <2>1 DEF Cell
<1> QED BY <1>5, <1>6

-----------------------------------------------------------------------------
(* The keys and the commands. *)

\* term_init and the start of term_run.
LEMMA TermStart == Init => TermInv
<1> SUFFICES ASSUME Init PROVE TermInv
  OBVIOUS
<1>1. /\ at = "poll" /\ queued = 0 /\ irq1 = FALSE /\ ps2_is_output_serve = TRUE
      /\ key = NUL /\ index_logs = 0 /\ clean = FALSE /\ text_color = "white" /\ count = 0
      /\ tty = [px |-> Glyph(">", 0, 0), x |-> 1 % COLS, y |-> 1 \div COLS, moved |-> FALSE]
  BY DEF Init
<1>2. PICK b \in {NUL} \cup Words : logs = [i \in Buffer |-> IF i = 0 THEN b ELSE NUL]
  BY DEF Init
<1>3. COLS \in Nat \ {0} /\ ROWS \in Nat \ {0, 1} /\ FIFO \in Nat \ {0} /\ KEYS \in Nat
      /\ 1 < COLS * ROWS
  <2>1. COLS * (ROWS - 1) >= 2 /\ COLS * ROWS = COLS * (ROWS - 1) + COLS
    BY Sizes
  <2>2. COLS \in Nat \ {0} /\ COLS * (ROWS - 1) \in Nat
    BY Sizes
  <2>3. \A a \in Nat, b_1 \in Nat, c \in Nat \ {0} : a >= 2 /\ b_1 = a + c => 1 < b_1
    OBVIOUS
  <2>4. COLS * ROWS \in Nat
    BY Sizes
  <2>5. 1 < COLS * ROWS
    BY <2>1, <2>2, <2>3, <2>4, Zenon
  <2> QED BY <2>5, Sizes
<1>4. 1 % COLS \in 0..(COLS - 1) /\ 1 \div COLS \in 0..(ROWS - 1)
      /\ (1 % COLS) + (1 \div COLS) * COLS = 1
  BY <1>3, NumberCell
<1>5. Index = 1 /\ tty.px = Glyph(">", 0, 0) /\ tty.moved = FALSE
      /\ tty.x \in 0..(COLS - 1) /\ tty.y \in 0..(ROWS - 1)
  <2>1. /\ tty.x = 1 % COLS /\ tty.y = 1 \div COLS /\ tty.px = Glyph(">", 0, 0)
        /\ tty.moved = FALSE
    BY <1>1
  <2>2. Index = (1 % COLS) + (1 \div COLS) * COLS
    BY <2>1, Zenon DEF Index
  <2> QED BY <1>4, <2>1, <2>2, Zenon
<1>6. logs \in [Buffer -> Printable \cup {NUL}] /\ \A j \in 1..(KEYS + 1) : logs[j] = NUL
  <2>1. \A j \in 1..(KEYS + 1) : j \in Buffer /\ j # 0
    BY <1>3 DEF Buffer
  <2>2. \A i \in Buffer : logs[i] = IF i = 0 THEN b ELSE NUL
    BY <1>2
  <2>3. b \in Printable \cup {NUL}
    BY DEF Printable
  <2>4. \A i \in Buffer : logs[i] \in Printable \cup {NUL}
    BY <2>2, <2>3
  <2>5. logs = [i \in Buffer |-> logs[i]]
    BY <1>2
  <2>6. logs \in [Buffer -> Printable \cup {NUL}]
    BY <2>4, <2>5, Zenon
  <2> QED BY <2>1, <2>2, <2>6
<1>7. TypeOK
  <2>1. 0 \in 0..FIFO /\ 0 \in 0..KEYS
    BY <1>3
  <2>2. NUL \in Decoded
    BY DEF Decoded
  <2> QED BY <1>1, <1>5, <1>6, <2>1, <2>2, Zenon DEF TypeOK
<1>8. Room /\ InFront /\ Terminated
  BY <1>1, <1>3, <1>5, <1>6 DEF Room, InFront, Terminated, Typing
<1>9. Glyph(">", 0, 0) = Glyph(">", 0 % COLS, 0 \div COLS)
  <2>1. \A p \in Nat, s \in Nat \ {0} : \A q \in Nat : \A r \in 0 .. (s - 1) :
           p = s * q + r => p \div s = q /\ p % s = r
    BY QuotientIs
  <2>2. 0 \in 0 .. (COLS - 1) /\ 0 = COLS * 0 + 0 /\ 0 \in Nat
    BY <1>3
  <2>3. 0 % COLS = 0 /\ 0 \div COLS = 0
    BY <1>3, <2>1, <2>2, Zenon
  <2> QED BY <2>3, Zenon
<1>10. \A q \in tty.px : Placed(q) /\ Place(q) = 0
  <2>1. \A q \in Glyph(">", 0 % COLS, 0 \div COLS) : Placed(q) /\ Place(q) = 0
    BY GlyphPlaced
  <2> QED BY <1>5, <1>9, <2>1, Zenon
<1>11. Behind
  BY <1>5, <1>10 DEF Behind
<1>12. LineShown
  <2>1. Cell(tty.px, 0) = Look(">", 0, text_color)
    BY <1>1, <1>5, <1>9, <1>10 DEF Cell, Look
  <2>2. Index - index_logs - 1 = 0
    BY <1>1, <1>5
  <2>3. 1..index_logs = {}
    BY <1>1
  <2> QED BY <2>1, <2>2, <2>3 DEF LineShown
<1> QED BY <1>1, <1>5, <1>7, <1>8, <1>11, <1>12 DEF TermInv

\* The cell at the cursor in the two ways the code counts.
LEMMA CursorCell ==
    ASSUME CursorOK
    PROVE  Index % COLS = tty.x /\ Index \div COLS = tty.y
<1>1. COLS \in Nat \ {0} /\ tty.x \in 0 .. (COLS - 1) /\ tty.y \in Nat /\ Index \in Nat
  BY Sizes, CellNumber DEF CursorOK, Index
<1>2. Index = COLS * tty.y + tty.x
  <2>1. tty.y * COLS = COLS * tty.y /\ COLS * tty.y \in Nat
    BY <1>1
  <2> QED BY <1>1, <2>1 DEF Index
<1>3. \A p \in Nat, s \in Nat \ {0} : \A q \in Nat : \A r \in 0 .. (s - 1) :
           p = s * q + r => p \div s = q /\ p % s = r
  BY QuotientIs
<1> QED BY <1>1, <1>2, <1>3, Zenon

\* A character other than a new line drawn at the cursor.
LEMMA DrawnAtCursor ==
    ASSUME TermInv, NEW c, c # "\n", term_drawChar(c, text_color)
    PROVE  /\ CursorOK'
           /\ Index' = Index + 1 \/ Index' = COLS * (ROWS - 1)
           /\ ~tty'.moved =>
                 /\ ~tty.moved /\ Index' = Index + 1
                 /\ \A q \in tty'.px : Placed(q) /\ Place(q) < Index'
                 /\ Cell(tty'.px, Index) = Look(c, Index, text_color)
                 /\ \A i \in Nat : i < Index => Cell(tty'.px, i) = Cell(tty.px, i)
<1> DEFINE new == video_driver_drawChar(c, tty.x, tty.y, text_color)
           n == Index
<1>1. term_scrollup(new, n + 1)
  BY DEF term_drawChar
<1>2. CursorOK /\ n \in Nat /\ n < COLS * ROWS /\ tty.moved \in BOOLEAN
  BY TermFields DEF TermInv
<1>3. COLS * ROWS \in Nat
  BY Sizes
<1>4. n + 1 \in Nat /\ n + 1 <= COLS * ROWS
  BY <1>2, <1>3
<1>5. n % COLS = tty.x /\ n \div COLS = tty.y
  BY <1>2, CursorCell
<1>6. new = Drawing(tty.px, n, c, text_color)
  BY <1>5, Zenon DEF video_driver_drawChar, Drawing
<1>7. ~tty.moved => \A q \in tty.px : Placed(q) /\ Place(q) < n
  BY DEF TermInv, Behind
<1> HIDE DEF new, n
<1>8. /\ CursorOK'
      /\ ~tty'.moved => ~tty.moved /\ tty'.px = new /\ Index' = n + 1
      /\ Index' = n + 1 \/ Index' = COLS * (ROWS - 1)
  BY <1>1, <1>2, <1>4, Scrolls
<1>9. ~tty.moved => /\ \A q \in new : Placed(q) /\ Place(q) < n + 1
                    /\ Cell(new, n) = Look(c, n, text_color)
                    /\ \A i \in Nat : i < n => Cell(new, i) = Cell(tty.px, i)
  <2> SUFFICES ASSUME ~tty.moved
               PROVE  /\ \A q \in new : Placed(q) /\ Place(q) < n + 1
                      /\ Cell(new, n) = Look(c, n, text_color)
                      /\ \A i \in Nat : i < n => Cell(new, i) = Cell(tty.px, i)
    OBVIOUS
  <2> DEFINE px == tty.px
  <2>1. \A q \in px : Placed(q) /\ Place(q) < n
    BY <1>7
  <2>2. new = Drawing(px, n, c, text_color)
    BY <1>6
  <2> HIDE DEF px
  <2>3. /\ \A q \in new : Placed(q) /\ Place(q) < n + 1
        /\ Cell(new, n) = Look(c, n, text_color)
        /\ \A i \in Nat : i < n => Cell(new, i) = Cell(px, i)
    BY <1>2, <2>1, <2>2, Drawn
  <2> QED BY <2>3 DEF px
<1> QED BY <1>8, <1>9, Zenon DEF n

\* A new line moves the cursor to a cell behind the one it was in.
LEMMA Newlined ==
    ASSUME TermInv, Newline
    PROVE  /\ CursorOK'
           /\ ~tty'.moved => ~tty.moved /\ \A q \in tty'.px : Placed(q) /\ Place(q) < Index'
<1> DEFINE i == COLS * (tty.y + 1)
<1>1. term_scrollup(tty.px, i)
  BY DEF Newline
<1>2. i \in Nat /\ i <= COLS * ROWS /\ i >= Index /\ Index \in Nat /\ tty.moved \in BOOLEAN
  BY TermFields DEF TermInv
<1> HIDE DEF i
<1>3. CursorOK' /\ (~tty'.moved => ~tty.moved /\ tty'.px = tty.px /\ Index' = i)
  BY <1>1, <1>2, Scrolls
<1>4. ~tty.moved => \A q \in tty.px : Placed(q) /\ Place(q) < Index /\ Place(q) \in Int
  BY Sizes DEF TermInv, Behind, Placed, Place
<1>5. ~tty.moved => \A q \in tty.px : Placed(q) /\ Place(q) < i
  BY <1>2, <1>4
<1> QED BY <1>3, <1>5, Zenon

\* A backspace takes the last key from the line and from the screen.
LEMMA BackspaceStep ==
    ASSUME TermInv, KeyBackspace
    PROVE  TermInv'
<1> DEFINE n == Index - 1
           k == index_logs - 1
           c == logs[k]
           new == video_driver_drawChar(c, n % COLS, n \div COLS, "black")
<1>1. /\ at = "key" /\ at' = "poll" /\ index_logs > 0
      /\ logs' = [logs EXCEPT ![k] = NUL] /\ index_logs' = k
      /\ tty' = [px |-> new, x |-> n % COLS, y |-> n \div COLS, moved |-> tty.moved]
      /\ text_color' = text_color /\ clean' = clean
      /\ UNCHANGED <<queued, irq1, ps2_is_output_serve, key, count>>
  BY DEF KeyBackspace, Stay
<1>2. Typing /\ Typing'
  BY <1>1 DEF Typing
<1>3. /\ Index \in Nat /\ Index < COLS * ROWS /\ index_logs \in Nat /\ index_logs <= KEYS
      /\ index_logs <= count /\ logs \in [Buffer -> Printable \cup {NUL}] /\ KEYS \in Nat
      /\ Index >= index_logs + 1 /\ COLS * ROWS \in Nat /\ tty.moved \in BOOLEAN
      /\ text_color \in {"white", "black"}
  BY <1>2, TermFields, Sizes DEF TermInv, InFront
<1>4. n \in Nat /\ n < COLS * ROWS /\ k \in Nat /\ k + 1 = index_logs /\ n + 1 = Index
  BY <1>1, <1>3
<1>5. /\ tty'.px = new /\ tty'.moved = tty.moved
      /\ tty'.x = n % COLS /\ tty'.y = n \div COLS
  BY <1>1
<1>6. CursorOK' /\ Index' = n
  <2>1. n % COLS \in 0..(COLS - 1) /\ n \div COLS \in 0..(ROWS - 1)
        /\ (n % COLS) + (n \div COLS) * COLS = n
    BY <1>4, NumberCell
  <2> QED BY <1>3, <1>5, <2>1, Zenon DEF CursorOK, Index
<1>7. new = tty.px \ Glyph(c, n % COLS, n \div COLS)
  BY DEF video_driver_drawChar
<1>8. /\ logs' \in [Buffer -> Printable \cup {NUL}] /\ logs'[k] = NUL
      /\ \A j \in 0..(k - 1) : logs'[j] = logs[j]
  <2>1. k \in Buffer /\ \A j \in 0..(k - 1) : j \in Buffer /\ j # k
    BY <1>3, <1>4 DEF Buffer
  <2> QED BY <1>1, <1>3, <2>1
<1> HIDE DEF new, n
<1>9. TypeOK'
  <2>1. index_logs' \in 0..KEYS
    BY <1>1, <1>3, <1>4
  <2> QED BY <1>1, <1>6, <1>8, <2>1 DEF TermInv, TypeOK, CursorOK
<1>10. Room' /\ InFront'
  <2>1. count + queued <= KEYS /\ count \in Nat
    BY TermFields DEF TermInv, Room
  <2> QED BY <1>1, <1>2, <1>3, <1>4, <1>6, <2>1 DEF Room, InFront
<1>11. Terminated'
  <2>1. clean /\ \A j \in 0..(index_logs - 1) : logs[j] # NUL
    BY <1>1, <1>2 DEF TermInv, Terminated
  <2>2. \A j \in 0..(k - 1) : j \in 0..(index_logs - 1)
    BY <1>4
  <2>3. \A j \in 0..(k - 1) : logs'[j] # NUL
    BY <1>8, <2>1, <2>2
  <2> HIDE DEF k
  <2> QED BY <1>1, <1>8, <2>1, <2>3 DEF Terminated
<1>12. ASSUME ~tty.moved
       PROVE  /\ \A q \in new : Placed(q) /\ Place(q) < n
              /\ \A i \in Nat : i < n => Cell(new, i) = Cell(tty.px, i)
  <2> DEFINE px == tty.px
             p == Index - index_logs - 1
  <2>1. \A q \in px : Placed(q) /\ Place(q) < n + 1
    BY <1>4, <1>12 DEF TermInv, Behind
  <2>2. Cell(px, n) = Look(c, n, text_color)
    <3>1. index_logs \in 1..index_logs /\ p + index_logs = n
      BY <1>1, <1>3 DEF n
    <3>2. \A i \in 1..index_logs : Cell(px, p + i) = Look(logs[i - 1], p + i, text_color)
      BY <1>2, <1>12 DEF TermInv, LineShown
    <3> HIDE DEF p, px
    <3>3. Cell(px, p + index_logs) = Look(logs[index_logs - 1], p + index_logs, text_color)
      BY <3>1, <3>2
    <3> QED BY <3>1, <3>3
  <2> HIDE DEF px, c
  <2>3. new = px \ Glyph(c, n % COLS, n \div COLS)
    BY <1>7 DEF px
  <2>4. /\ \A q \in new : Placed(q) /\ Place(q) < n
        /\ \A i \in Nat : i < n => Cell(new, i) = Cell(px, i)
    BY <1>4, <2>1, <2>2, <2>3, Erased
  <2> QED BY <2>4 DEF px
<1>13. Behind'
  BY <1>5, <1>6, <1>12 DEF Behind
<1>14. LineShown'
  <2> SUFFICES ASSUME ~tty.moved
               PROVE  /\ Cell(new, n - k - 1) = Look(">", n - k - 1, text_color)
                      /\ \A i \in 1..k : Cell(new, n - k - 1 + i)
                                           = Look(logs'[i - 1], n - k - 1 + i, text_color)
    BY <1>1, <1>5, <1>6 DEF LineShown, Look
  <2> DEFINE p == Index - index_logs - 1
  <2>1. p = n - k - 1 /\ p \in Nat /\ p < n /\ n - k - 1 \in Nat
    BY <1>3, <1>4
  <2>2. /\ Cell(tty.px, p) = Look(">", p, text_color)
        /\ \A i \in 1..index_logs : Cell(tty.px, p + i) = Look(logs[i - 1], p + i, text_color)
    BY <1>2 DEF TermInv, LineShown
  <2> HIDE DEF p
  <2>3. Cell(new, p) = Look(">", p, text_color)
    BY <1>12, <2>1, <2>2
  <2>4. ASSUME NEW i \in 1..k
        PROVE  Cell(new, p + i) = Look(logs'[i - 1], p + i, text_color)
    <3>1. i \in 1..index_logs /\ p + i \in Nat /\ p + i < n /\ i - 1 \in 0..(k - 1)
      BY <1>4, <2>1
    <3>2. Cell(new, p + i) = Cell(tty.px, p + i)
      BY <1>12, <3>1
    <3>3. logs'[i - 1] = logs[i - 1]
      BY <1>8, <3>1
    <3> QED BY <2>2, <3>1, <3>2, <3>3
  <2> QED BY <2>1, <2>3, <2>4
<1> QED BY <1>3, <1>5, <1>9, <1>10, <1>11, <1>13, <1>14 DEF TermInv

\* A key with a character is appended to the line and drawn.
LEMMA PrintableStep ==
    ASSUME TermInv, KeyPrintable
    PROVE  TermInv'
<1> DEFINE n == Index
           k == index_logs
<1>1. /\ at = "key" /\ at' = "poll" /\ key \in Printable
      /\ logs' = [logs EXCEPT ![k] = key, ![k + 1] = NUL]
      /\ index_logs' = k + 1 /\ clean' = TRUE /\ text_color' = text_color
      /\ UNCHANGED <<queued, irq1, ps2_is_output_serve, key, count>>
      /\ term_drawChar(key, text_color)
  BY DEF KeyPrintable, Stay
<1>2. Typing /\ Typing'
  BY <1>1 DEF Typing
<1>3. /\ n \in Nat /\ k \in Nat /\ KEYS \in Nat /\ count \in Nat /\ count <= KEYS /\ k + 1 <= count
      /\ logs \in [Buffer -> Printable \cup {NUL}] /\ n >= k + 1
      /\ COLS * (ROWS - 1) \in Nat /\ KEYS + 2 <= COLS * (ROWS - 1)
  <2>1. k + 1 <= count
    BY <1>1 DEF TermInv, Room
  <2> QED BY <1>2, <2>1, TermFields, Sizes DEF TermInv, InFront
<1>4. /\ CursorOK'
      /\ Index' = n + 1 \/ Index' = COLS * (ROWS - 1)
      /\ ~tty'.moved =>
            /\ ~tty.moved /\ Index' = n + 1
            /\ \A q \in tty'.px : Placed(q) /\ Place(q) < Index'
            /\ Cell(tty'.px, n) = Look(key, n, text_color)
            /\ \A i \in Nat : i < n => Cell(tty'.px, i) = Cell(tty.px, i)
  <2>1. key # "\n"
    BY <1>1, Characters
  <2> QED BY <1>1, <2>1, DrawnAtCursor
<1> HIDE DEF n
<1>5. /\ logs' \in [Buffer -> Printable \cup {NUL}] /\ logs'[k + 1] = NUL /\ logs'[k] = key
      /\ \A j \in 0..(k - 1) : logs'[j] = logs[j]
  <2>1. k \in Buffer /\ k + 1 \in Buffer /\ k # k + 1
        /\ \A j \in 0..(k - 1) : j \in Buffer /\ j # k /\ j # k + 1
    BY <1>3 DEF Buffer
  <2>2. DOMAIN logs = Buffer
    BY <1>3
  <2> HIDE DEF k
  <2>3. logs'[k + 1] = NUL /\ logs'[k] = key
    BY <1>1, <2>1, <2>2, Zenon
  <2>4. \A j \in 0..(k - 1) : logs'[j] = logs[j]
    BY <1>1, <2>1, <2>2
  <2>5. logs' \in [Buffer -> Printable \cup {NUL}]
    BY <1>1, <1>3, <2>1
  <2> QED BY <2>3, <2>4, <2>5
<1>6. TypeOK'
  <2>1. index_logs' \in 0..KEYS
    BY <1>1, <1>3
  <2> QED BY <1>1, <1>4, <1>5, <2>1 DEF TermInv, TypeOK, CursorOK
<1>7. Room' /\ InFront'
  <2>1. count + queued <= KEYS
    BY DEF TermInv, Room
  <2> QED BY <1>1, <1>2, <1>3, <1>4, <2>1 DEF Room, InFront
<1>8. Terminated'
  <2>1. \A j \in 0..(k - 1) : logs[j] # NUL
    <3>1. CASE clean
      BY <1>2, <3>1 DEF TermInv, Terminated
    <3>2. CASE ~clean
      <4>1. k = 0
        BY <1>2, <3>2 DEF TermInv, Terminated
      <4> QED BY <4>1
    <3> QED BY <3>1, <3>2
  <2>2. \A j \in 0..k : j = k \/ j \in 0..(k - 1)
    BY <1>3
  <2>3. key # NUL
    BY <1>1, Characters
  <2>4. \A j \in 0..k : logs'[j] # NUL
    BY <1>5, <2>1, <2>2, <2>3
  <2>5. (k + 1) - 1 = k
    BY <1>3
  <2> HIDE DEF k
  <2> QED BY <1>1, <1>5, <2>4, <2>5 DEF Terminated
<1>9. Behind' /\ tty'.moved \in BOOLEAN
  BY <1>4 DEF Behind, CursorOK
<1>10. LineShown'
  <2> DEFINE p == n - k - 1
  <2> SUFFICES ASSUME ~tty'.moved
               PROVE  /\ Cell(tty'.px, p) = Look(">", p, text_color)
                      /\ \A i \in 1..(k + 1) : Cell(tty'.px, p + i)
                                                 = Look(logs'[i - 1], p + i, text_color)
    <3>1. ~tty'.moved => Index' - index_logs' - 1 = p
      BY <1>1, <1>3, <1>4
    <3> HIDE DEF p, k
    <3> QED BY <1>1, <3>1, Zenon DEF LineShown, Look
  <2>1. p \in Nat /\ p < n /\ p + (k + 1) = n
    BY <1>3
  <2>2. /\ Cell(tty.px, p) = Look(">", p, text_color)
        /\ \A i \in 1..k : Cell(tty.px, p + i) = Look(logs[i - 1], p + i, text_color)
    BY <1>2, <1>4 DEF TermInv, LineShown, n
  <2> HIDE DEF p, k
  <2>3. Cell(tty'.px, p) = Look(">", p, text_color)
    BY <1>4, <2>1, <2>2
  <2>4. ASSUME NEW i \in 1..(k + 1)
        PROVE  Cell(tty'.px, p + i) = Look(logs'[i - 1], p + i, text_color)
    <3>1. CASE i = k + 1
      <4>1. p + i = n /\ i - 1 = k
        BY <1>3, <2>1, <3>1
      <4> QED BY <1>4, <1>5, <4>1
    <3>2. CASE i # k + 1
      <4>1. i \in 1..k /\ p + i \in Nat /\ p + i < n /\ i - 1 \in 0..(k - 1)
        BY <1>3, <2>1, <3>2
      <4>2. Cell(tty'.px, p + i) = Cell(tty.px, p + i)
        BY <1>4, <4>1
      <4>3. logs'[i - 1] = logs[i - 1]
        BY <1>5, <4>1
      <4> QED BY <2>2, <4>1, <4>2, <4>3
    <3> QED BY <3>1, <3>2
  <2> QED BY <2>3, <2>4
<1> QED BY <1>6, <1>7, <1>8, <1>9, <1>10 DEF TermInv

\* A step that leaves term_run printing.
LEMMA PrintingStep ==
    ASSUME TermInv, TypeOK', CursorOK', ~Typing', index_logs' = 0, clean',
           count' = count, queued' = queued, at' # "read",
           ~tty'.moved => \A q \in tty'.px : Placed(q) /\ Place(q) < Index'
    PROVE  TermInv'
<1>1. count + queued <= KEYS /\ count \in Nat /\ KEYS \in Nat
  BY TermFields, Sizes DEF TermInv, Room
<1>2. Room'
  <2>1. at' \notin {"clear", "key"}
    BY DEF Typing
  <2> QED BY <1>1, <2>1 DEF Room
<1> QED BY <1>2 DEF TermInv, InFront, Terminated, Behind, LineShown, CursorOK

\* The return key: the line is split and a command begins.
LEMMA EnterStep ==
    ASSUME TermInv, term_exec
    PROVE  TermInv'
<1>1. /\ at = "key" /\ key = "\n" /\ at' \in {"print", "program"} /\ index_logs' = 0
      /\ clean' = TRUE /\ logs' = cmd
      /\ text_color' \in {text_color, "black", "white"}
      /\ UNCHANGED <<queued, irq1, ps2_is_output_serve, key, count>>
  BY DEF term_exec, PrintOnly, Clear, SetTextColor, Exec, Task, Enter, Stay
<1>2. CursorOK' /\ (~tty'.moved => \A q \in tty'.px : Placed(q) /\ Place(q) < Index')
  <2>1. CASE Newline
    BY <2>1, Newlined
  <2>2. CASE Clear
    <3>1. tty' = [px |-> {}, x |-> 0, y |-> 0, moved |-> FALSE]
      BY <2>2 DEF Clear
    <3>2. 0 \in 0..(COLS - 1) /\ 0 \in 0..(ROWS - 1)
      BY Sizes
    <3> QED BY <3>1, <3>2 DEF CursorOK
  <2> QED BY <2>1, <2>2 DEF term_exec, PrintOnly, SetTextColor, Exec, Task
<1>3. logs' \in [Buffer -> Printable \cup {NUL}] /\ 0 \in 0..KEYS
  <2>1. logs \in [Buffer -> Printable \cup {NUL}] /\ KEYS \in Nat
    BY TermFields, Sizes
  <2> DEFINE e(i) == IF i < strsize(logs) /\ logs[i] = " " THEN NUL ELSE logs[i]
  <2>2. cmd = [i \in Buffer |-> e(i)]
    BY <2>1 DEF cmd, Split
  <2>3. \A i \in Buffer : e(i) \in Printable \cup {NUL}
    BY <2>1
  <2> HIDE DEF e
  <2>4. cmd \in [Buffer -> Printable \cup {NUL}]
    BY <2>2, <2>3
  <2> QED BY <1>1, <2>1, <2>4
<1>4. TypeOK'
  <2>1. text_color' \in {"white", "black"}
    BY <1>1, TermFields
  <2>2. at' \in {"poll", "read", "clear", "key", "print", "program"} /\ TypeOK
    BY <1>1 DEF TermInv
  <2> QED BY <1>1, <1>2, <1>3, <2>1, <2>2, Zenon DEF TypeOK, CursorOK
<1>5. ~Typing' /\ at' # "read"
  BY <1>1 DEF Typing
<1> QED BY <1>1, <1>2, <1>4, <1>5, PrintingStep

\* A command prints a character.
LEMMA PrintStep ==
    ASSUME TermInv, print
    PROVE  TermInv'
<1> DEFINE c == Head(out)
<1>1. /\ at = "print" /\ at' = at /\ term_drawChar(c, text_color)
      /\ logs' = logs /\ index_logs' = index_logs /\ clean' = clean /\ text_color' = text_color
      /\ UNCHANGED <<queued, irq1, ps2_is_output_serve, key, count>>
  BY DEF print, Stay, lineVars
<1> HIDE DEF c
<1>2. CursorOK' /\ (~tty'.moved => \A q \in tty'.px : Placed(q) /\ Place(q) < Index')
  <2>1. CASE c = "\n"
    <3>1. Newline
      BY <1>1, <2>1 DEF term_drawChar
    <3> QED BY <3>1, Newlined
  <2>2. CASE c # "\n"
    BY <1>1, <2>2, DrawnAtCursor
  <2> QED BY <2>1, <2>2
<1>3. TypeOK'
  BY <1>1, <1>2 DEF TermInv, TypeOK, CursorOK
<1>4. ~Typing' /\ at' # "read" /\ index_logs' = 0 /\ clean'
  <2>1. ~Typing
    BY <1>1 DEF Typing
  <2>2. index_logs = 0 /\ clean
    BY <2>1 DEF TermInv, Room, Terminated
  <2> QED BY <1>1, <2>2 DEF Typing
<1> QED BY <1>1, <1>2, <1>3, <1>4, PrintingStep

\* The prompt is drawn and the line is empty again.
LEMMA PromptStep ==
    ASSUME TermInv, Prompt
    PROVE  TermInv'
<1> DEFINE n == Index
<1>1. /\ at = "print" /\ at' = "poll" /\ term_drawChar(">", text_color)
      /\ logs' = [logs EXCEPT ![0] = NUL] /\ index_logs' = index_logs /\ clean' = clean
      /\ text_color' = text_color
      /\ UNCHANGED <<queued, irq1, ps2_is_output_serve, key, count>>
  BY DEF Prompt, Stay
<1>2. index_logs = 0 /\ count + queued <= KEYS
  BY <1>1 DEF TermInv, Room, Typing
<1>3. /\ CursorOK'
      /\ Index' = n + 1 \/ Index' = COLS * (ROWS - 1)
      /\ ~tty'.moved =>
            /\ ~tty.moved /\ Index' = n + 1
            /\ \A q \in tty'.px : Placed(q) /\ Place(q) < Index'
            /\ Cell(tty'.px, n) = Look(">", n, text_color)
            /\ \A i \in Nat : i < n => Cell(tty'.px, i) = Cell(tty.px, i)
  <2>1. ">" # "\n"
    OBVIOUS
  <2> QED BY <1>1, <2>1, DrawnAtCursor
<1>4. n \in Nat /\ KEYS \in Nat /\ COLS * (ROWS - 1) \in Nat /\ KEYS + 2 <= COLS * (ROWS - 1)
      /\ logs \in [Buffer -> Printable \cup {NUL}] /\ count \in Nat
  BY TermFields, Sizes
<1> HIDE DEF n
<1>5. logs' \in [Buffer -> Printable \cup {NUL}] /\ logs'[0] = NUL
  <2>1. 0 \in Buffer
    BY <1>4 DEF Buffer
  <2> QED BY <1>1, <1>4, <2>1
<1>6. TypeOK'
  BY <1>1, <1>3, <1>5 DEF TermInv, TypeOK, CursorOK
<1>7. Room' /\ InFront'
  BY <1>1, <1>2, <1>3, <1>4 DEF Room, InFront, Typing
<1>8. Terminated'
  <2>1. clean
    BY <1>1 DEF TermInv, Terminated, Typing
  <2>2. 0..(0 - 1) = {}
    OBVIOUS
  <2> QED BY <1>1, <1>2, <1>5, <2>1, <2>2 DEF Terminated
<1>9. Behind' /\ tty'.moved \in BOOLEAN
  BY <1>3 DEF Behind, CursorOK
<1>10. LineShown'
  <2>1. ~tty'.moved => Index' - index_logs' - 1 = n
    BY <1>1, <1>2, <1>3, <1>4
  <2>2. 1..0 = {}
    OBVIOUS
  <2> QED BY <1>1, <1>2, <1>3, <2>1, <2>2 DEF LineShown, Look
<1> QED BY <1>6, <1>7, <1>8, <1>9, <1>10 DEF TermInv

\* Every step keeps the invariant.
LEMMA TermStep == TermInv /\ [Next]_vars => TermInv'
<1> SUFFICES ASSUME TermInv, [Next]_vars PROVE TermInv'
  OBVIOUS
<1>1. CASE Press
  BY <1>1, PressStep
<1>2. CASE keyboard_handle
  BY <1>2, InterruptStep
<1>3. CASE term_run
  BY <1>3, InterruptStep, ReadDataStep, IgnoredStep, BackspaceStep, PrintableStep, EnterStep,
     PrintStep, PromptStep DEF term_run, keyboard_getchar
<1>4. CASE ExecReturns \/ TaskReads
  BY <1>4, InterruptStep
<1>5. CASE UNCHANGED vars
  <2>1. UNCHANGED <<at, queued, irq1, ps2_is_output_serve, key, logs, index_logs, tty,
                    text_color, clean, count>>
    BY <1>5 DEF vars
  <2>2. TypeOK' /\ Room' /\ Typing' = Typing
    BY <2>1 DEF TermInv, TypeOK, Room, Typing
  <2> QED BY <2>1, <2>2, Unseen
<1> QED BY <1>1, <1>2, <1>3, <1>4, <1>5 DEF Next

\* The invariant holds in every reachable state.
LEMMA TermInvariant == Spec => []TermInv
BY TermStart, TermStep, PTL DEF Spec

\* The line, the cursor and the counters keep their types: the cursor stays on the
\* screen and the line in its buffer, for any size of screen and number of keys
\* (term.c:51-101, 125-156).
THEOREM TermTyped == Spec => []TypeOK
<1>1. TermInv => TypeOK
  BY DEF TermInv
<1> QED BY <1>1, TermInvariant, PTL

\* As long as nothing has scrolled, the cells before the cursor show the prompt and
\* the line, and the cell at the cursor is empty: drawing, the end of a row and the
\* backspace fit together for any line and any size of screen (term.c:65-98, 103-156).
THEOREM LineStaysShown == Spec => []ScreenShowsLine
<1>1. ASSUME TermInv
      PROVE  ScreenShowsLine
  <2> SUFFICES ASSUME Typing, text_color = "white", ~tty.moved
               PROVE  Displayed
    BY DEF ScreenShowsLine, Typing
  <2> DEFINE n == Index
             p == n - index_logs - 1
  <2>1. n \in Nat /\ index_logs \in Nat /\ n >= index_logs + 1
    BY <1>1, TermFields DEF TermInv, InFront
  <2>2. \A q \in tty.px : Placed(q) /\ Place(q) < n
    BY <1>1 DEF TermInv, Behind
  <2>3. /\ Cell(tty.px, p) = Glyph(">", p % COLS, p \div COLS)
        /\ \A i \in 1..index_logs :
              Cell(tty.px, p + i) = Glyph(logs[i - 1], (p + i) % COLS, (p + i) \div COLS)
    BY <1>1 DEF TermInv, LineShown, Look
  <2> HIDE DEF n
  <2>4. ASSUME NEW i \in Nat
        PROVE  Cell(tty.px, i) = {q \in tty.px : q[1] \div 4 = i \div COLS /\ q[2] = i % COLS}
    <3>1. COLS \in Nat \ {0}
      BY Sizes
    <3>2. \A a \in Nat, s \in Nat \ {0} : a = s * (a \div s) + (a % s)
      BY Quotient
    <3>3. \A a \in Nat, s \in Nat \ {0} : \A b \in Nat : \A r \in 0 .. (s - 1) :
             a = s * b + r => a \div s = b /\ a % s = r
      BY QuotientIs
    <3>4. i = COLS * (i \div COLS) + (i % COLS)
      BY <3>1, <3>2, Zenon
    <3>5. ASSUME NEW q \in tty.px
          PROVE  Place(q) = i <=> q[1] \div 4 = i \div COLS /\ q[2] = i % COLS
      <4> DEFINE b == q[1] \div 4
                 r == q[2]
      <4>1. b \in Nat /\ r \in 0 .. (COLS - 1) /\ Place(q) = COLS * b + r
        BY <2>2 DEF Placed, Place
      <4> HIDE DEF b, r
      <4>2. i = COLS * b + r => i \div COLS = b /\ i % COLS = r
        BY <3>1, <3>3, <4>1, Zenon
      <4>3. b = i \div COLS /\ r = i % COLS => i = COLS * b + r
        BY <3>4, Zenon
      <4> QED BY <4>1, <4>2, <4>3, Zenon DEF b, r
    <3> QED BY <3>5 DEF Cell
  <2>5. p \in Nat /\ \A i \in 1..index_logs : p + i \in Nat
    BY <2>1
  <2> HIDE DEF p
  <2>6. Shows(p, ">") /\ \A i \in 1..index_logs : Shows(p + i, logs[i - 1])
    <3>1. Shows(p, ">")
      BY <2>3, <2>4, <2>5, Zenon DEF Shows
    <3>2. ASSUME NEW i \in 1..index_logs
          PROVE  Shows(p + i, logs[i - 1])
      BY <2>3, <2>4, <2>5, Zenon DEF Shows
    <3> QED BY <3>1, <3>2
  <2>7. Shows(n, " ")
    <3>1. Cell(tty.px, n) = {}
      <4>1. \A q \in tty.px : Place(q) \in Int
        BY <2>2, Sizes DEF Placed, Place
      <4> QED BY <2>1, <2>2, <4>1 DEF Cell
    <3>2. Glyph(" ", n % COLS, n \div COLS) = {}
      BY DEF Glyph
    <3> QED BY <2>1, <2>4, <3>1, <3>2, Zenon DEF Shows
  <2>8. p >= 0
    BY <2>5
  <2> QED BY <2>6, <2>7, <2>8 DEF Displayed, p, n
<1> QED BY <1>1, TermInvariant, PTL

-----------------------------------------------------------------------------
(* The line editor. *)

Line == IF at \in {"print", "program"} THEN <<>> ELSE CString(logs)

\* The size of the string is where its first NUL is.
LEMMA StringSize ==
    ASSUME NEW b, NEW S, b \in [Buffer -> S], NEW n \in Buffer,
           b[n] = NUL, \A j \in 0..(n - 1) : b[j] # NUL
    PROVE  strsize(b) = n /\ CString(b) = [i \in 1..n |-> b[i - 1]]
<1>1. n \in DOMAIN b /\ DOMAIN b \subseteq Nat
  BY DEF Buffer
<1>2. \A m \in DOMAIN b : b[m] = NUL /\ (\A j \in 0..(m - 1) : b[j] # NUL) => m = n
  <2> SUFFICES ASSUME NEW m \in DOMAIN b, b[m] = NUL, \A j \in 0..(m - 1) : b[j] # NUL
               PROVE  m = n
    OBVIOUS
  <2>1. m \in Nat /\ n \in Nat
    BY <1>1
  <2>2. ~(m < n)
    <3>1. m < n => m \in 0..(n - 1)
      BY <2>1
    <3> QED BY <3>1
  <2>3. ~(n < m)
    <3>1. n < m => n \in 0..(m - 1)
      BY <2>1
    <3> QED BY <3>1
  <2> QED BY <2>1, <2>2, <2>3
<1>3. strsize(b) = n
  BY <1>1, <1>2, Zenon DEF strsize
<1> QED BY <1>3 DEF CString

\* There is a terminator in the buffer whenever a line is typed.
LEMMA LineEnds ==
    ASSUME TermInv, Typing
    PROVE  /\ clean => /\ index_logs \in Buffer /\ logs[index_logs] = NUL
                       /\ \A j \in 0..(index_logs - 1) : logs[j] # NUL
           /\ \E n \in Buffer : logs[n] = NUL /\ \A j \in 0..(n - 1) : logs[j] # NUL
<1>1. /\ index_logs \in Nat /\ index_logs <= KEYS /\ KEYS \in Nat
  BY TermFields, Sizes
<1>2. CASE clean
  <2>1. index_logs \in Buffer
    BY <1>1 DEF Buffer
  <2> QED BY <1>2, <2>1 DEF TermInv, Terminated
<1>3. CASE ~clean
  <2>1. index_logs = 0 /\ \A j \in 1..(KEYS + 1) : logs[j] = NUL
    BY <1>3 DEF TermInv, Terminated
  <2>2. 0 \in Buffer /\ 1 \in Buffer /\ 1 \in 1..(KEYS + 1)
        /\ (\A j \in 0..(0 - 1) : FALSE) /\ (\A j \in 0..(1 - 1) : j = 0)
    BY <1>1 DEF Buffer
  <2> QED BY <1>3, <2>1, <2>2
<1> QED BY <1>2, <1>3

\* The string in the buffer is the line up to index_logs, once a key was stored.
LEMMA LineIs ==
    ASSUME TermInv, Typing
    PROVE  /\ clean => Line = [i \in 1..index_logs |-> logs[i - 1]]
           /\ ~clean => index_logs = 0
           /\ Line \in Seq(Printable)
<1>1. /\ logs \in [Buffer -> Printable \cup {NUL}] /\ index_logs \in Nat /\ index_logs <= KEYS
      /\ KEYS \in Nat /\ clean \in BOOLEAN
  BY TermFields, Sizes
<1>2. Line = CString(logs)
  BY DEF Line, Typing
<1>3. ASSUME NEW n \in Buffer, logs[n] = NUL, \A j \in 0..(n - 1) : logs[j] # NUL
      PROVE  Line = [i \in 1..n |-> logs[i - 1]] /\ Line \in Seq(Printable)
  <2>1. Line = [i \in 1..n |-> logs[i - 1]]
    BY <1>1, <1>2, <1>3, StringSize
  <2>2. n \in Nat /\ \A i \in 1..n : i - 1 \in 0..(n - 1) /\ i - 1 \in Buffer
    BY <1>1 DEF Buffer
  <2>3. \A i \in 1..n : logs[i - 1] \in Printable
    BY <1>1, <1>3, <2>2
  <2> QED BY <2>1, <2>2, <2>3
<1>4. CASE clean
  <2>1. /\ index_logs \in Buffer /\ logs[index_logs] = NUL
        /\ \A j \in 0..(index_logs - 1) : logs[j] # NUL
    BY <1>4, LineEnds
  <2> QED BY <1>3, <1>4, <2>1
<1>5. CASE ~clean
  <2>1. index_logs = 0
    BY <1>5 DEF TermInv, Terminated
  <2> QED BY <1>3, <1>5, <2>1, LineEnds
<1> QED BY <1>4, <1>5

\* The same of the next state.
LEMMA LineIsNext ==
    (TermInv /\ Typing /\ clean)' => Line' = [i \in 1..index_logs' |-> logs'[i - 1]]
<1>1. TermInv /\ Typing /\ clean => Line = [i \in 1..index_logs |-> logs[i - 1]]
  BY LineIs
<1>2. (TermInv /\ Typing /\ clean => Line = [i \in 1..index_logs |-> logs[i - 1]])'
  BY <1>1, PTL
<1> QED BY <1>2

\* Sequences by their elements.
LEMMA AppendIs ==
    ASSUME NEW S, NEW s \in Seq(S), NEW e \in S, NEW k \in Nat, NEW f,
           s = [i \in 1..k |-> f[i]]
    PROVE  Append(s, e) = [i \in 1..(k + 1) |-> IF i = k + 1 THEN e ELSE f[i]]
<1> DEFINE a == Append(s, e)
           g == [i \in 1..(k + 1) |-> IF i = k + 1 THEN e ELSE f[i]]
<1>1. Len(s) = k /\ \A i \in 1..k : s[i] = f[i]
  <2>1. DOMAIN s = 1..Len(s) /\ DOMAIN s = 1..k /\ Len(s) \in Nat
    BY LenProperties
  <2> QED BY <2>1
<1>2. a \in Seq(S) /\ Len(a) = k + 1 /\ a[k + 1] = e /\ \A i \in 1..k : a[i] = s[i]
  BY <1>1, AppendProperties
<1> HIDE DEF a
<1>3. a = [i \in 1..(k + 1) |-> a[i]]
  <2>1. a = [i \in 1..Len(a) |-> a[i]]
    BY <1>2
  <2> QED BY <1>2, <2>1
<1>4. \A i \in 1..(k + 1) : i = k + 1 \/ i \in 1..k
  OBVIOUS
<1>5. \A i \in 1..k : i # k + 1
  OBVIOUS
<1>6. \A i \in 1..(k + 1) : a[i] = IF i = k + 1 THEN e ELSE f[i]
  BY <1>1, <1>2, <1>4, <1>5
<1>7. a = g
  BY <1>3, <1>6
<1> QED BY <1>7 DEF a

\* A sequence without its last element, by its elements.
LEMMA FrontIs ==
    ASSUME NEW S, NEW s \in Seq(S), s # <<>>
    PROVE  Front(s) = [i \in 1..(Len(s) - 1) |-> s[i]]
<1>1. Len(s) \in Nat
  OBVIOUS
<1> DEFINE k == Len(s)
<1>2. SubSeq(s, 1, k - 1) = [i \in 1..(k - 1 - 1 + 1) |-> s[i + 1 - 1]]
  OBVIOUS
<1>3. SubSeq(s, 1, k - 1) = [i \in 1..(k - 1) |-> s[i]]
  BY <1>1, <1>2
<1> QED BY <1>3 DEF Front

\* What the heap left in the buffer is a line to start from.
LEMMA LineStart == Init => Editor!Init
<1> SUFFICES ASSUME Init PROVE Editor!Init
  OBVIOUS
<1>1. TermInv /\ Typing /\ clean = FALSE /\ command = <<>>
  BY TermStart DEF Init, Typing
<1>2. Line \in Seq(Printable)
  BY <1>1, LineIs
<1> QED BY <1>1, <1>2 DEF Editor!Init, Line

\* What a step does to the line, as the abstract editor has it.
LEMMA TypeStep ==
    ASSUME TermInv, TermInv', KeyPrintable
    PROVE  Editor!Type
<1> DEFINE k == index_logs
<1>1. /\ at = "key" /\ at' = "poll" /\ key \in Printable
      /\ logs' = [logs EXCEPT ![k] = key, ![k + 1] = NUL]
      /\ index_logs' = k + 1 /\ clean' = TRUE /\ command' = command
  BY DEF KeyPrintable
<1>2. Typing /\ Typing'
  BY <1>1 DEF Typing
<1>3. k \in Nat /\ logs \in [Buffer -> Printable \cup {NUL}] /\ KEYS \in Nat /\ k + 1 <= KEYS
  <2>1. k + 1 <= count
    BY <1>1 DEF TermInv, Room
  <2> QED BY <2>1, TermFields, Sizes
<1>4. /\ clean => Line = [i \in 1..k |-> logs[i - 1]]
      /\ ~clean => k = 0
      /\ Line \in Seq(Printable)
  BY <1>2, LineIs
<1>5. Line' = [i \in 1..(k + 1) |-> logs'[i - 1]]
  <2>1. clean'
    BY <1>1
  <2>2. Line' = [i \in 1..index_logs' |-> logs'[i - 1]]
    BY <1>2, <2>1, LineIsNext
  <2> QED BY <1>1, <2>2
<1>6. \A i \in 1..(k + 1) : logs'[i - 1] = IF i = k + 1 THEN key ELSE logs[i - 1]
  <2>1. \A i \in 1..(k + 1) : i - 1 \in Buffer /\ i - 1 # k + 1 /\ (i - 1 = k <=> i = k + 1)
    BY <1>3 DEF Buffer
  <2> QED BY <1>1, <1>3, <2>1
<1>7. CASE clean
  <2> DEFINE f == [i \in 1..(k + 1) |-> logs[i - 1]]
  <2>1. Line = [i \in 1..k |-> f[i]]
    <3>1. \A i \in 1..k : f[i] = logs[i - 1]
      BY <1>3
    <3> QED BY <1>4, <1>7, <3>1
  <2>2. \A i \in 1..(k + 1) : f[i] = logs[i - 1]
    OBVIOUS
  <2> HIDE DEF f
  <2>3. Append(Line, key) = [i \in 1..(k + 1) |-> IF i = k + 1 THEN key ELSE f[i]]
    BY <1>1, <1>3, <1>4, <2>1, AppendIs
  <2>4. Line' = Append(Line, key)
    BY <1>5, <1>6, <2>2, <2>3
  <2> QED BY <1>1, <1>7, <2>4 DEF Editor!Type, Line
<1>8. CASE ~clean
  <2>1. k = 0
    BY <1>4, <1>8
  <2>2. Line' = [i \in 1..1 |-> key]
    <3>1. \A i \in 1..1 : i = 0 + 1
      OBVIOUS
    <3> QED BY <1>5, <1>6, <2>1, <3>1
  <2>3. [i \in 1..1 |-> key] = <<key>>
    OBVIOUS
  <2> QED BY <1>1, <1>8, <2>2, <2>3 DEF Editor!Type, Line
<1> QED BY <1>7, <1>8

\* A backspace takes the last key of the abstract editor's line.
LEMMA EraseStep ==
    ASSUME TermInv, TermInv', KeyBackspace
    PROVE  Editor!Erase
<1> DEFINE k == index_logs
<1>1. /\ at = "key" /\ at' = "poll" /\ k > 0
      /\ logs' = [logs EXCEPT ![k - 1] = NUL] /\ index_logs' = k - 1
      /\ clean' = clean /\ command' = command
  BY DEF KeyBackspace
<1>2. Typing /\ Typing'
  BY <1>1 DEF Typing
<1>3. k \in Nat /\ logs \in [Buffer -> Printable \cup {NUL}] /\ KEYS \in Nat /\ k <= KEYS
  BY TermFields, Sizes
<1>4. clean /\ Line = [i \in 1..k |-> logs[i - 1]] /\ Line \in Seq(Printable)
  <2>1. /\ clean => Line = [i \in 1..index_logs |-> logs[i - 1]]
        /\ ~clean => index_logs = 0
        /\ Line \in Seq(Printable)
    BY <1>2, LineIs
  <2> QED BY <1>1, <2>1
<1>5. Line' = [i \in 1..(k - 1) |-> logs'[i - 1]]
  <2>1. clean'
    BY <1>1, <1>4
  <2>2. Line' = [i \in 1..index_logs' |-> logs'[i - 1]]
    BY <1>2, <2>1, LineIsNext
  <2> QED BY <1>1, <2>2
<1>6. \A i \in 1..(k - 1) : logs'[i - 1] = logs[i - 1]
  <2>1. \A i \in 1..(k - 1) : i - 1 \in Buffer /\ i - 1 # k - 1
    BY <1>3 DEF Buffer
  <2> QED BY <1>1, <1>3, <2>1
<1>7. Line # <<>> /\ Front(Line) = [i \in 1..(k - 1) |-> logs[i - 1]]
  <2>1. k \in Nat \ {0} /\ DOMAIN Line = 1..k /\ \A i \in 1..k : Line[i] = logs[i - 1]
    BY <1>1, <1>3, <1>4
  <2>2. Len(Line) = k /\ Line # <<>>
    BY <1>4, <2>1, LenProperties
  <2>3. Front(Line) = [i \in 1..(k - 1) |-> Line[i]]
    BY ZenonT(30), <1>4, <2>2, FrontIs
  <2>4. \A i \in 1..(k - 1) : i \in 1..k
    BY <2>1
  <2> QED BY <2>1, <2>2, <2>3, <2>4
<1>8. Line' = Front(Line)
  BY <1>5, <1>6, <1>7
<1> QED BY <1>1, <1>4, <1>7, <1>8 DEF Editor!Erase, Line, Front, Editor!Front

\* Each command submits the line.
LEMMA SubmitStep ==
    ASSUME TermInv, term_exec
    PROVE  Editor!Submit
<1>1. /\ at = "key" /\ at' \in {"print", "program"} /\ clean' = TRUE /\ command' = CString(logs)
  BY DEF term_exec, PrintOnly, Clear, SetTextColor, Exec, Task, Enter
<1> QED BY <1>1 DEF Editor!Submit

\* No other step changes the line; the prompt finds it empty.
LEMMA LineRests ==
    ASSUME TermInv, [Next]_vars, ~KeyPrintable, ~KeyBackspace, ~term_exec
    PROVE  Line' = Line /\ clean' = clean /\ command' = command
<1>1. CASE Prompt
  <2>1. /\ at = "print" /\ at' = "poll" /\ logs' = [logs EXCEPT ![0] = NUL]
        /\ clean' = clean /\ command' = command
    BY <1>1 DEF Prompt
  <2>2. 0 \in Buffer /\ logs \in [Buffer -> Printable \cup {NUL}]
    BY TermFields, Sizes DEF Buffer
  <2>3. logs' \in [Buffer -> Printable \cup {NUL}] /\ logs'[0] = NUL
    BY <2>1, <2>2
  <2>4. \A j \in 0..(0 - 1) : logs'[j] # NUL
    OBVIOUS
  <2>5. CString(logs') = [i \in 1..0 |-> logs'[i - 1]]
    BY <2>2, <2>3, <2>4, StringSize
  <2>6. CString(logs') = <<>>
    BY <2>5
  <2> QED BY <2>1, <2>6 DEF Line
<1>2. CASE Press \/ keyboard_handle \/ getchar \/ keyboard_getchar \/ KeyIgnored \/ print
           \/ TaskReads \/ ExecReturns \/ UNCHANGED vars
  <2>1. logs' = logs /\ clean' = clean /\ command' = command
    BY <1>2 DEF Press, keyboard_handle, getchar, keyboard_getchar, ReadData, ClearFlag,
                KeyIgnored, print, TaskReads, ExecReturns, vars, lineVars
  <2>2. at' \in {"print", "program"} <=> at \in {"print", "program"}
    BY <1>2 DEF Press, keyboard_handle, getchar, keyboard_getchar, ReadData, ClearFlag,
                KeyIgnored, print, TaskReads, ExecReturns, vars
  <2> QED BY <2>1, <2>2 DEF Line
<1> QED BY <1>1, <1>2 DEF Next, term_run

\* The line, from key to key and over the return key, is the abstract editor's: what
\* term_exec is given is what was typed, or, when nothing was typed yet, what the
\* heap had left in the buffer (term.c:63-98).
THEOREM EditorRefines == Spec => ImplementsEditor
<1>1. ASSUME TermInv, TermInv', [Next]_vars
      PROVE  [Editor!Next]_(Editor!evars)
  <2>1. CASE KeyPrintable
    BY <1>1, <2>1, TypeStep DEF Editor!Next
  <2>2. CASE KeyBackspace
    BY <1>1, <2>2, EraseStep DEF Editor!Next
  <2>3. CASE term_exec
    BY <1>1, <2>3, SubmitStep DEF Editor!Next
  <2>4. CASE ~KeyPrintable /\ ~KeyBackspace /\ ~term_exec
    <3>1. Line' = Line /\ clean' = clean /\ command' = command
      BY <1>1, <2>4, LineRests
    <3> QED BY <3>1 DEF Editor!evars, Line
  <2> QED BY <2>1, <2>2, <2>3, <2>4
<1> QED BY <1>1, LineStart, TermInvariant, PTL DEF Spec, ImplementsEditor, Editor!Spec

-----------------------------------------------------------------------------
(* The arguments of a command. *)

\* A set of numbers has a least one.
LEMMA Smallest ==
    ASSUME NEW T \in SUBSET Nat, T # {}
    PROVE  \E m \in T : \A x \in T : m <= x
<1> DEFINE R == {p \in Nat \X Nat : p[1] < p[2]}
<1>1. \A k, l \in Nat : k < l <=> <<k, l>> \in R
  OBVIOUS
<1>2. IsWellFoundedOn(R, Nat)
  BY NatLessThanWellFounded DEF OpToRel
<1> HIDE DEF R
<1>3. PICK m \in T : \A x \in T : <<x, m>> \notin R
  BY <1>2, WFMin
<1>4. \A x \in T : m <= x
  <2> TAKE x \in T
  <2>1. m \in Nat /\ x \in Nat /\ ~(x < m)
    BY <1>1, <1>3
  <2> QED BY <2>1
<1> QED BY <1>4

\* FlattenSeq gives the last of the partial results, whatever function lists them.
Flattens(g, s, k) == g = [i \in 1..k |-> IF i = 1 THEN s[i] ELSE g[i - 1] \o s[i]]

LEMMA Flattened ==
    ASSUME NEW s, NEW k \in Nat \ {0}, Len(s) = k, NEW g, Flattens(g, s, k)
    PROVE  FlattenSeq(s) = g[k]
<1> DEFINE F(h) == h = [i \in 1..Len(s) |-> IF i = 1 THEN s[i] ELSE h[i - 1] \o s[i]]
           f == CHOOSE h : F(h)
<1>1. FlattenSeq(s) = f[Len(s)]
  BY DEF FlattenSeq
<1>2. F(g)
  BY DEF Flattens
<1>3. F(f)
  BY <1>2
<1>4. /\ \A i \in 1..k : f[i] = IF i = 1 THEN s[i] ELSE f[i - 1] \o s[i]
      /\ \A i \in 1..k : g[i] = IF i = 1 THEN s[i] ELSE g[i - 1] \o s[i]
  <2>1. \A h : F(h) => \A i \in 1..k : h[i] = IF i = 1 THEN s[i] ELSE h[i - 1] \o s[i]
    <3> TAKE h
    <3> DEFINE e(i) == IF i = 1 THEN s[i] ELSE h[i - 1] \o s[i]
    <3>1. F(h) => h = [i \in 1..k |-> e(i)]
      OBVIOUS
    <3> HIDE DEF e, F
    <3>2. F(h) => \A i \in 1..k : h[i] = e(i)
      BY <3>1
    <3> QED BY <3>2 DEF e
  <2> HIDE DEF F, f
  <2> QED BY <1>2, <1>3, <2>1
<1> HIDE DEF F, f
<1>5. \A i \in 1..k : f[i] = g[i]
  <2> DEFINE B == {i \in 1..k : f[i] # g[i]}
  <2> SUFFICES ASSUME B # {} PROVE FALSE
    OBVIOUS
  <2>1. PICK m \in B : \A x \in B : m <= x
    <3>1. B \in SUBSET Nat
      OBVIOUS
    <3> HIDE DEF B
    <3> QED BY <3>1, Smallest
  <2>2. m \in 1..k /\ f[m] # g[m]
    OBVIOUS
  <2>3. m # 1
    BY <1>4, <2>2
  <2>4. m - 1 \in 1..k /\ m - 1 \notin B
    BY <2>1, <2>2, <2>3
  <2>5. f[m - 1] = g[m - 1]
    BY <2>4
  <2> QED BY <1>4, <2>2, <2>3, <2>5
<1> QED BY <1>1, <1>5

\* The line in b ends at n.
Ends(b, n) == /\ b \in [Buffer -> Printable \cup {NUL}] /\ n \in Buffer
              /\ b[n] = NUL /\ \A j \in 0..(n - 1) : b[j] # NUL

\* How many arguments begin before s, and the first p characters.
Rank(b, s) == Cardinality({r \in Starts(b) : r < s})
Prefix(b, p) == [i \in 1..p |-> b[i - 1]]

\* A space, which ends an argument.
Blank == " "

\* Where arguments begin.
LEMMA StartsAre ==
    ASSUME NEW b, NEW n, Ends(b, n)
    PROVE  /\ strsize(b) = n /\ CString(b) = Prefix(b, n) /\ n \in Nat /\ 0..n \subseteq Buffer
           /\ Starts(b) \subseteq 0..n /\ 0 \in Starts(b) /\ IsFiniteSet(Starts(b))
           /\ \A s \in Starts(b) : s = 0 \/ b[s - 1] = Blank
           /\ \A j \in 0..(n - 1) : b[j] = Blank => j + 1 \in Starts(b)
<1>1. n \in Nat /\ n <= KEYS + 1 /\ KEYS \in Nat /\ 0..n \subseteq Buffer
  BY Sizes DEF Ends, Buffer
<1>2. strsize(b) = n /\ CString(b) = Prefix(b, n)
  BY StringSize DEF Ends, Prefix
<1>3. Starts(b) = {0} \cup {i + 1 : i \in {j \in 0..(n - 1) : b[j] = Blank}}
  BY <1>2, Zenon DEF Starts, Blank
<1>4. Starts(b) \subseteq 0..n /\ 0 \in Starts(b)
  BY <1>1, <1>3
<1>5. IsFiniteSet(Starts(b))
  <2>1. IsFiniteSet(0..n)
    BY <1>1, FS_Interval
  <2> QED BY <1>4, <2>1, FS_Subset
<1>6. \A s \in Starts(b) : s = 0 \/ b[s - 1] = Blank
  <2> TAKE s \in Starts(b)
  <2>1. s = 0 \/ \E i \in 0..(n - 1) : b[i] = Blank /\ s = i + 1
    BY <1>3
  <2>2. \A i \in 0..(n - 1) : (i + 1) - 1 = i
    OBVIOUS
  <2> QED BY <2>1, <2>2
<1>7. \A j \in 0..(n - 1) : b[j] = Blank => j + 1 \in Starts(b)
  BY <1>3
<1> QED BY <1>1, <1>2, <1>4, <1>5, <1>6, <1>7

\* An argument ends before the next space, behind which another begins, or at the
\* end of the line.
LEMMA ArgumentEnds ==
    ASSUME NEW b, NEW n, Ends(b, n), NEW a \in Starts(b)
    PROVE  \E e \in a..n :
              /\ StringAt(Split(b), a) = [i \in 1..(e - a) |-> b[a + i - 1]]
              /\ \/ e = n /\ \A t \in Starts(b) : t <= a
                 \/ /\ e < n /\ b[e] = Blank /\ e + 1 \in Starts(b)
                    /\ \A t \in Starts(b) : t <= a \/ t >= e + 1
<1>1. /\ strsize(b) = n /\ n \in Nat /\ Starts(b) \subseteq 0..n /\ a \in 0..n /\ a \in Nat
      /\ 0..n \subseteq Buffer
  BY StartsAre
<1>2. Split(b) = [i \in DOMAIN b |-> IF i < n /\ b[i] = Blank THEN NUL ELSE b[i]]
  BY <1>1, Zenon DEF Split, Blank
<1>3. /\ DOMAIN Split(b) = Buffer /\ Buffer \subseteq Nat
      /\ \A i \in 0..n : Split(b)[i] = IF i < n /\ b[i] = Blank THEN NUL ELSE b[i]
  BY <1>1, <1>2 DEF Ends, Buffer
<1> DEFINE X == {i \in a..n : i = n \/ b[i] = Blank}
<1>4. PICK e \in X : \A x \in X : e <= x
  <2>1. X \in SUBSET Nat /\ n \in X
    BY <1>1
  <2> HIDE DEF X
  <2> QED BY <2>1, Smallest
<1>5. e \in a..n /\ e \in Nat /\ (e = n \/ b[e] = Blank) /\ e \in Buffer
  BY <1>1
<1>6. \A i \in a..(e - 1) : i \in 0..(n - 1) /\ b[i] # Blank /\ b[i] # NUL /\ Split(b)[i] = b[i]
  <2> TAKE i \in a..(e - 1)
  <2>1. i \in a..n /\ i \in 0..n /\ i \in 0..(n - 1) /\ i < e
    BY <1>1, <1>5
  <2>2. i \notin X
    BY <1>4, <1>5, <2>1
  <2>3. b[i] # Blank
    BY <2>1, <2>2
  <2>4. b[i] # NUL
    BY <2>1 DEF Ends
  <2> QED BY <1>3, <2>1, <2>3, <2>4
<1> HIDE DEF X
<1>7. Split(b)[e] = NUL
  <2>1. b[n] = NUL /\ e \in 0..n
    BY <1>1, <1>5 DEF Ends
  <2> QED BY <1>1, <1>3, <1>5, <2>1
<1>8. StringAt(Split(b), a) = [i \in 1..(e - a) |-> b[a + i - 1]]
  <2> DEFINE c == Split(b)
             P(i) == i >= a /\ c[i] = NUL /\ \A j \in a..(i - 1) : c[j] # NUL
  <2>1. e \in DOMAIN c /\ P(e)
    BY <1>1, <1>3, <1>5, <1>6, <1>7
  <2>2. ASSUME NEW i \in DOMAIN c, P(i) PROVE i = e
    <3>1. i \in Nat
      BY <1>3
    <3>2. ~(i < e)
      <4>1. i < e => i \in a..(e - 1)
        BY <1>5, <2>2, <3>1
      <4> QED BY <1>6, <2>2, <4>1
    <3>3. ~(e < i)
      <4>1. e < i => e \in a..(i - 1)
        BY <1>1, <1>5, <3>1
      <4> QED BY <1>7, <2>2, <4>1
    <3> QED BY <1>5, <3>1, <3>2, <3>3
  <2> HIDE DEF P, c
  <2>3. (CHOOSE i \in DOMAIN c : P(i)) = e
    BY <2>1, <2>2
  <2>4. StringAt(c, a) = [i \in 1..(e - a) |-> c[a + i - 1]]
    BY <2>3 DEF StringAt, P
  <2>5. \A i \in 1..(e - a) : a + i - 1 \in a..(e - 1)
    BY <1>1, <1>5
  <2>6. \A i \in 1..(e - a) : c[a + i - 1] = b[a + i - 1]
    BY <1>6, <2>5 DEF c
  <2> QED BY <2>4, <2>6 DEF c
<1>9. ASSUME NEW t \in Starts(b), t > a PROVE t >= e + 1
  <2>1. t \in Nat /\ b[t - 1] = Blank /\ t - 1 \in Nat /\ t - 1 >= a
    BY <1>1, <1>9, StartsAre
  <2>2. t - 1 \notin a..(e - 1)
    BY <1>6, <2>1
  <2> QED BY <1>1, <1>5, <2>1, <2>2
<1>10. \A t \in Starts(b) : t <= a \/ t >= e + 1
  <2> TAKE t \in Starts(b)
  <2>1. t \in Nat
    BY <1>1
  <2> QED BY <1>1, <1>9, <2>1
<1>11. CASE e = n
  <2>1. \A t \in Starts(b) : t <= a
    <3> TAKE t \in Starts(b)
    <3>1. t \in Nat /\ t <= n
      BY <1>1
    <3> QED BY <1>1, <1>10, <1>11, <3>1
  <2> QED BY <1>5, <1>8, <1>11, <2>1
<1>12. CASE e # n
  <2>1. e < n /\ b[e] = Blank /\ e \in 0..(n - 1)
    BY <1>1, <1>5, <1>12
  <2>2. e + 1 \in Starts(b)
    BY <2>1, StartsAre
  <2> QED BY <1>5, <1>8, <1>10, <2>1, <2>2
<1> QED BY <1>11, <1>12

\* The ranks of two arguments differ by the arguments between them.
LEMMA Ranks ==
    ASSUME NEW b, NEW n, Ends(b, n)
    PROVE  /\ Cardinality(Starts(b)) \in Nat /\ Rank(b, 0) = 0
           /\ \A s \in Starts(b) : Rank(b, s) \in Nat /\ Rank(b, s) < Cardinality(Starts(b))
           /\ \A s, t \in Starts(b) : Rank(b, s) = Rank(b, t) => s = t
           /\ \A s, t \in Starts(b) :
                 s < t /\ (\A x \in Starts(b) : x <= s \/ x >= t) => Rank(b, t) = Rank(b, s) + 1
           /\ \A s \in Starts(b) :
                 (\A x \in Starts(b) : x <= s) => Cardinality(Starts(b)) = Rank(b, s) + 1
<1> DEFINE S == Starts(b)
           B(s) == {r \in S : r < s}
<1>1. IsFiniteSet(S) /\ S \subseteq Nat /\ 0 \in S /\ \A s : Rank(b, s) = Cardinality(B(s))
  BY StartsAre DEF Rank
<1> HIDE DEF S
<1>2. ASSUME NEW s
      PROVE  /\ IsFiniteSet(B(s)) /\ Cardinality(B(s)) \in Nat /\ Cardinality(S) \in Nat
             /\ Cardinality(B(s)) <= Cardinality(S)
             /\ Cardinality(B(s)) = Cardinality(S) => B(s) = S
             /\ s \in S => Cardinality(B(s) \cup {s}) = Cardinality(B(s)) + 1
  <2>1. B(s) \in SUBSET S
    OBVIOUS
  <2>2. s \in S => s \notin B(s)
    BY <1>1
  <2> HIDE DEF B
  <2> DEFINE T == B(s)
  <2>3. T \in SUBSET S
    BY <2>1
  <2> HIDE DEF T
  <2>4. IsFiniteSet(T) /\ Cardinality(T) <= Cardinality(S) /\ (Cardinality(T) = Cardinality(S) => T = S)
    BY <1>1, <2>3, FS_Subset
  <2>5. Cardinality(T) \in Nat /\ Cardinality(S) \in Nat
    BY <1>1, <2>4, FS_CardinalityType
  <2>6. s \notin T => Cardinality(T \cup {s}) = Cardinality(T) + 1
    BY <2>4, FS_AddElement
  <2> QED BY <2>2, <2>4, <2>5, <2>6 DEF T
<1>3. B(0) = {}
  <2>1. \A r \in S : ~(r < 0)
    BY <1>1
  <2> QED BY <2>1
<1>4. Rank(b, 0) = 0
  BY <1>1, <1>3, FS_EmptySet
<1>5. ASSUME NEW s \in S PROVE Rank(b, s) \in Nat /\ Rank(b, s) < Cardinality(S)
  <2>1. s \notin B(s)
    BY <1>1
  <2> HIDE DEF B
  <2>2. B(s) # S
    BY <2>1
  <2>3. /\ Cardinality(B(s)) \in Nat /\ Cardinality(S) \in Nat
        /\ Cardinality(B(s)) <= Cardinality(S) /\ Cardinality(B(s)) # Cardinality(S)
    BY <1>2, <2>2
  <2>4. Rank(b, s) = Cardinality(B(s))
    BY <1>1
  <2> QED BY <2>3, <2>4
<1>6. ASSUME NEW s \in S, NEW t \in S, s < t PROVE Rank(b, s) < Rank(b, t)
  <2>1. (B(s) \cup {s}) \in SUBSET B(t)
    <3>1. s \in Nat /\ t \in Nat /\ \A r \in S : r \in Nat /\ (r < s => r < t)
      BY <1>1, <1>6
    <3> QED BY <1>6, <3>1
  <2> HIDE DEF B
  <2>2. Cardinality(B(s) \cup {s}) <= Cardinality(B(t))
    <3> DEFINE T == B(t)
               U == B(s) \cup {s}
    <3>1. IsFiniteSet(T) /\ U \in SUBSET T
      BY <1>2, <2>1
    <3> HIDE DEF T, U
    <3>2. Cardinality(U) <= Cardinality(T)
      BY <3>1, FS_Subset
    <3> QED BY <3>2 DEF T, U
  <2>3. /\ Cardinality(B(s)) \in Nat /\ Cardinality(B(t)) \in Nat
        /\ Cardinality(B(s) \cup {s}) = Cardinality(B(s)) + 1
    BY <1>2
  <2>4. Rank(b, s) = Cardinality(B(s)) /\ Rank(b, t) = Cardinality(B(t))
    BY <1>1
  <2> QED BY <2>2, <2>3, <2>4
<1>7. \A s, t \in S : Rank(b, s) = Rank(b, t) => s = t
  <2> TAKE s, t \in S
  <2>1. s \in Nat /\ t \in Nat /\ Rank(b, s) \in Nat /\ Rank(b, t) \in Nat
    BY <1>1, <1>5
  <2> QED BY <1>6, <2>1
<1>8. ASSUME NEW s \in S, NEW t \in S, s < t, \A x \in S : x <= s \/ x >= t
      PROVE  Rank(b, t) = Rank(b, s) + 1
  <2>1. B(t) = B(s) \cup {s}
    <3>1. \A r \in S : r < t <=> r < s \/ r = s
      BY <1>1, <1>8
    <3> QED BY <1>8, <3>1
  <2> HIDE DEF B
  <2> QED BY <1>1, <1>2, <2>1
<1>9. ASSUME NEW s \in S, \A x \in S : x <= s
      PROVE  Cardinality(S) = Rank(b, s) + 1
  <2>1. S = B(s) \cup {s}
    <3>1. \A r \in S : r < s \/ r = s
      BY <1>1, <1>9
    <3> QED BY <1>9, <3>1
  <2> HIDE DEF B
  <2> QED BY <1>1, <1>2, <2>1
<1> QED BY <1>2, <1>4, <1>5, <1>7, <1>8, <1>9 DEF S

\* There is an argument of each rank.
LEMMA EveryRank ==
    ASSUME NEW b, NEW n, Ends(b, n), NEW j \in 0..(Cardinality(Starts(b)) - 1)
    PROVE  \E s \in Starts(b) : Rank(b, s) = j
<1> DEFINE S == Starts(b)
           k == Cardinality(S)
           X == {i \in 0..(k - 1) : \A s \in S : Rank(b, s) # i}
<1>1. k \in Nat /\ 0 \in S /\ Rank(b, 0) = 0 /\ \A s \in S : Rank(b, s) \in Nat
  BY StartsAre, Ranks
<1> SUFFICES ASSUME X # {} PROVE FALSE
  OBVIOUS
<1>2. PICK m \in X : \A x \in X : m <= x
  <2>1. X \in SUBSET Nat
    OBVIOUS
  <2> HIDE DEF X
  <2> QED BY <2>1, Smallest
<1> HIDE DEF k
<1>3. m \in 0..(k - 1) /\ (\A s \in S : Rank(b, s) # m) /\ m # 0
  BY <1>1
<1>4. m - 1 \in 0..(k - 1) /\ ~(m <= m - 1)
  BY <1>1, <1>3
<1>5. PICK s \in S : Rank(b, s) = m - 1
  BY <1>2, <1>4
<1> HIDE DEF X
<1>6. PICK e \in s..n : \/ e = n /\ \A t \in Starts(b) : t <= s
                        \/ e + 1 \in Starts(b) /\ \A t \in Starts(b) : t <= s \/ t >= e + 1
  BY ArgumentEnds
<1>7. s \in Nat /\ e \in Nat /\ s <= e
  BY StartsAre
<1>8. CASE \A t \in Starts(b) : t <= s
  <2>1. k = Rank(b, s) + 1
    BY <1>8, Ranks DEF k
  <2> QED BY <1>1, <1>3, <1>5, <2>1
<1>9. CASE e + 1 \in Starts(b) /\ \A t \in Starts(b) : t <= s \/ t >= e + 1
  <2>1. s < e + 1
    BY <1>7
  <2>2. Rank(b, e + 1) = Rank(b, s) + 1
    BY <1>9, <2>1, Ranks
  <2>3. Rank(b, e + 1) = m
    BY <1>3, <1>5, <2>2
  <2> QED BY <1>3, <1>9, <2>3
<1> QED BY <1>6, <1>8, <1>9

\* The arguments of the line: one begins behind the space that ends the one before,
\* the first at 0, and the last ends where the line does.
LEMMA ArgumentsFollow ==
    ASSUME NEW n, Ends(logs, n)
    PROVE  /\ argc \in Nat \ {0} /\ args(0) = 0
           /\ \A i \in 0..(argc - 1) :
                 LET e == IF i = argc - 1 THEN n ELSE args(i + 1) - 1
                 IN  /\ args(i) \in 0..n /\ e \in args(i)..n
                     /\ Arg(i) = [x \in 1..(e - args(i)) |-> logs[args(i) + x - 1]]
                     /\ i # argc - 1 => logs[e] = Blank
<1> DEFINE S == Starts(logs)
<1>1. argc = Cardinality(S) /\ argc \in Nat /\ n \in Nat /\ 0 \in S /\ S \subseteq 0..n
  BY StartsAre, Ranks DEF argc
<1>2. argc \in Nat \ {0}
  BY <1>1, Ranks
<1>3. \A s \in S : args(Rank(logs, s)) = s
  <2> TAKE s \in S
  <2>1. args(Rank(logs, s)) = CHOOSE t \in S : Rank(logs, t) = Rank(logs, s)
    BY DEF args, Rank
  <2> QED BY <2>1, Ranks
<1>4. args(0) = 0
  BY <1>1, <1>3, Ranks
<1>5. ASSUME NEW i \in 0..(argc - 1), NEW e, e = IF i = argc - 1 THEN n ELSE args(i + 1) - 1
      PROVE  /\ args(i) \in 0..n /\ e \in args(i)..n
             /\ Arg(i) = [x \in 1..(e - args(i)) |-> logs[args(i) + x - 1]]
             /\ i # argc - 1 => logs[e] = Blank
  <2>1. PICK s \in S : Rank(logs, s) = i
    BY <1>1, EveryRank
  <2>2. args(i) = s /\ s \in Nat
    BY <1>1, <1>3, <2>1
  <2>3. PICK d \in s..n :
              /\ StringAt(Split(logs), s) = [x \in 1..(d - s) |-> logs[s + x - 1]]
              /\ \/ d = n /\ \A t \in S : t <= s
                 \/ /\ d < n /\ logs[d] = Blank /\ d + 1 \in S
                    /\ \A t \in S : t <= s \/ t >= d + 1
    BY ArgumentEnds
  <2>4. d \in Nat /\ s <= d
    BY <1>1, <2>2
  <2>5. d = e /\ (i # argc - 1 => logs[e] = Blank)
    <3>1. CASE d = n /\ \A t \in S : t <= s
      <4>1. argc = i + 1
        BY <1>1, <2>1, <3>1, Ranks
      <4> QED BY <1>5, <3>1, <4>1
    <3>2. CASE /\ d < n /\ logs[d] = Blank /\ d + 1 \in S
               /\ \A t \in S : t <= s \/ t >= d + 1
      <4>1. s < d + 1
        BY <2>2, <2>4
      <4>2. Rank(logs, d + 1) = i + 1
        BY <2>1, <3>2, <4>1, Ranks
      <4>3. args(i + 1) = d + 1
        BY <1>3, <3>2, <4>2
      <4>4. i + 1 < argc
        BY <1>1, <3>2, <4>2, Ranks
      <4>5. i # argc - 1 /\ (d + 1) - 1 = d
        BY <1>1, <2>4, <4>4
      <4> QED BY <1>5, <3>2, <4>3, <4>5
    <3> QED BY <2>3, <3>1, <3>2
  <2>6. Arg(i) = StringAt(Split(logs), s)
    BY <2>2 DEF Arg, cmd
  <2> QED BY <1>1, <2>2, <2>3, <2>5, <2>6
<1> QED BY <1>2, <1>4, <1>5

\* The characters from p on follow the first p.
LEMMA PrefixGrows ==
    ASSUME NEW b, NEW n, Ends(b, n), NEW p \in 0..n, NEW q \in p..n
    PROVE  Prefix(b, p) \o [x \in 1..(q - p) |-> b[p + x - 1]] = Prefix(b, q)
<1> DEFINE s == Prefix(b, p)
           r == [x \in 1..(q - p) |-> b[p + x - 1]]
           t == Prefix(b, q)
<1>1. n \in Nat /\ p \in Nat /\ q \in Nat /\ p <= q /\ q <= n
  BY StartsAre
<1>2. \A i \in 0..(n - 1) : b[i] \in Printable
  <2>1. 0..n \subseteq Buffer
    BY StartsAre
  <2> QED BY <1>1, <2>1 DEF Ends
<1>3. s \in Seq(Printable) /\ Len(s) = p
  <2>1. \A i \in 1..p : i - 1 \in 0..(n - 1)
    BY <1>1
  <2> QED BY <1>1, <1>2, <2>1 DEF Prefix
<1>4. t \in Seq(Printable) /\ Len(t) = q
  <2>1. \A i \in 1..q : i - 1 \in 0..(n - 1)
    BY <1>1
  <2> QED BY <1>1, <1>2, <2>1 DEF Prefix
<1>5. r \in Seq(Printable) /\ Len(r) = q - p
  <2> DEFINE d == q - p
  <2>1. d \in Nat /\ \A x \in 1..d : p + x - 1 \in 0..(n - 1)
    BY <1>1
  <2>2. \A x \in 1..d : b[p + x - 1] \in Printable
    BY <1>2, <2>1
  <2> HIDE DEF d
  <2>3. [x \in 1..d |-> b[p + x - 1]] \in Seq(Printable) /\ Len([x \in 1..d |-> b[p + x - 1]]) = d
    BY <2>1, <2>2
  <2> QED BY <2>3 DEF d
<1>6. \A i \in 1..q : (s \o r)[i] = t[i]
  <2> TAKE i \in 1..q
  <2>1. CASE i <= p
    BY <1>1, <1>3, <1>5, <2>1, ConcatProperties DEF Prefix
  <2>2. CASE i > p
    <3>1. i \in Nat /\ i <= q
      BY <1>1
    <3>2. i - p \in 1..(q - p) /\ p + (i - p) - 1 = i - 1
      <4> HIDE DEF s, r, t
      <4> QED BY <1>1, <2>2, <3>1
    <3>3. r[i - p] = b[i - 1] /\ t[i] = b[i - 1]
      BY <3>2 DEF Prefix
    <3> HIDE DEF s, r, t
    <3>4. i \in 1..(Len(s) + Len(r)) /\ ~(i <= Len(s))
      BY <1>1, <1>3, <1>5, <2>2, <3>1
    <3>5. (s \o r)[i] = r[i - Len(s)]
      <4>1. \A z \in 1..(Len(s) + Len(r)) : (s \o r)[z] = IF z <= Len(s) THEN s[z] ELSE r[z - Len(s)]
        BY <1>3, <1>5, ConcatProperties
      <4> QED BY <3>4, <4>1
    <3>6. r[i - Len(s)] = r[i - p]
      BY <1>3
    <3> QED BY <3>3, <3>5, <3>6
  <2>3. i <= p \/ i > p
    BY <1>1
  <2> HIDE DEF s, r, t
  <2> QED BY <2>1, <2>2, <2>3
<1>7. s \o r \in Seq(Printable) /\ Len(s \o r) = q
  BY <1>1, <1>3, <1>5, ConcatProperties
<1> HIDE DEF s, r, t
<1>8. s \o r = t
  BY <1>4, <1>6, <1>7, SeqEqual
<1> QED BY <1>8 DEF s, r, t

\* An even and an odd number halved.
LEMMA Halves ==
    ASSUME NEW j \in Nat
    PROVE  /\ (2 * j) % 2 = 0 /\ (2 * j) \div 2 = j
           /\ (2 * j + 1) % 2 = 1 /\ (2 * j + 1) \div 2 = j
  OBVIOUS

\* Every number is one or the other.
LEMMA Half ==
    ASSUME NEW i \in Nat
    PROVE  \E j \in Nat : i = 2 * j \/ i = 2 * j + 1
<1>1. i \div 2 \in Nat /\ (i = 2 * (i \div 2) \/ i = 2 * (i \div 2) + 1)
  OBVIOUS
<1> QED BY <1>1

\* The arguments joined by spaces are the line.
LEMMA JoinedIsLine ==
    ASSUME NEW n, Ends(logs, n)
    PROVE  Joined = CString(logs)
<1> DEFINE k == 2 * argc - 1
           s == [i \in 1..k |-> IF i % 2 = 0 THEN <<Blank>> ELSE Arg(i \div 2)]
           E(j) == IF j = argc - 1 THEN n ELSE args(j + 1) - 1
           P(i) == IF i % 2 = 0 THEN args(i \div 2) ELSE E(i \div 2)
           g == [i \in 1..k |-> Prefix(logs, P(i))]
<1>1. Joined = FlattenSeq(s)
  BY Zenon DEF Joined, Blank
<1>2. /\ argc \in Nat \ {0} /\ args(0) = 0 /\ n \in Nat
      /\ \A j \in 0..(argc - 1) :
            /\ args(j) \in 0..n /\ E(j) \in args(j)..n
            /\ Arg(j) = [x \in 1..(E(j) - args(j)) |-> logs[args(j) + x - 1]]
            /\ j # argc - 1 => logs[E(j)] = Blank
  BY ArgumentsFollow, StartsAre
<1>3. k \in Nat \ {0} /\ Len(s) = k
  BY <1>2
<1>4. ASSUME NEW i \in 1..k
      PROVE  g[i] = IF i = 1 THEN s[i] ELSE g[i - 1] \o s[i]
  <2>1. PICK j \in Nat : i = 2 * j \/ i = 2 * j + 1
    <3>1. i \in Nat
      BY <1>3
    <3> QED BY <3>1, Half
  <2>2. CASE i = 2 * j
    <3>1. j \in 0..(argc - 1) /\ j - 1 \in 0..(argc - 1) /\ j - 1 # argc - 1 /\ (j - 1) + 1 = j
      BY <1>2, <2>2
    <3>2. i # 1 /\ i - 1 = 2 * (j - 1) + 1 /\ i - 1 \in 1..k
      BY <1>2, <2>2, <3>1
    <3>3. i % 2 = 0 /\ i \div 2 = j /\ (i - 1) % 2 = 1 /\ (i - 1) \div 2 = j - 1
      BY <2>2, <3>1, <3>2, Halves
    <3>4. s[i] = <<Blank>> /\ g[i] = Prefix(logs, P(i)) /\ g[i - 1] = Prefix(logs, P(i - 1))
      BY <3>2, <3>3
    <3> DEFINE a == args(j)
    <3>5. P(i) = a /\ P(i - 1) = a - 1 /\ E(j - 1) = a - 1
      BY <3>1, <3>3
    <3>6. a - 1 \in 0..n /\ a \in 0..n /\ logs[a - 1] = Blank
      <4> HIDE DEF E
      <4>1. args(j - 1) \in 0..n /\ E(j - 1) \in args(j - 1)..n /\ logs[E(j - 1)] = Blank /\ a \in 0..n
        BY <1>2, <3>1
      <4>2. args(j - 1) \in Nat /\ a - 1 \in args(j - 1)..n /\ logs[a - 1] = Blank
        BY <1>2, <3>5, <4>1
      <4> HIDE DEF a
      <4> QED BY <1>2, <4>1, <4>2
    <3> HIDE DEF a, s, g, P, E, k
    <3>7. a \in (a - 1)..n /\ a - (a - 1) = 1 /\ (a - 1) + 1 - 1 = a - 1
      BY <1>2, <3>6
    <3>8. <<Blank>> = [x \in 1..(a - (a - 1)) |-> logs[(a - 1) + x - 1]]
      <4>1. \A x \in 1..1 : logs[(a - 1) + x - 1] = Blank
        BY <3>6, <3>7
      <4> QED BY <3>7, <4>1
    <3>9. Prefix(logs, a - 1) \o <<Blank>> = Prefix(logs, a)
      <4>1. Prefix(logs, a - 1) \o [x \in 1..(a - (a - 1)) |-> logs[(a - 1) + x - 1]] = Prefix(logs, a)
        BY <3>6, <3>7, PrefixGrows
      <4> QED BY <3>8, <4>1
    <3> QED BY <3>2, <3>4, <3>5, <3>9
  <2>3. CASE i = 2 * j + 1
    <3>1. j \in 0..(argc - 1) /\ (i = 1 <=> j = 0)
      BY <1>2, <2>3
    <3>2. i % 2 = 1 /\ i \div 2 = j
      BY <2>3, Halves
    <3>3. i # 1 => i - 1 = 2 * j /\ i - 1 \in 1..k
      BY <1>2, <2>3, <3>1
    <3>4. i # 1 => (i - 1) % 2 = 0 /\ (i - 1) \div 2 = j
      BY <3>3, Halves
    <3>5. s[i] = Arg(j) /\ g[i] = Prefix(logs, P(i)) /\ (i # 1 => g[i - 1] = Prefix(logs, P(i - 1)))
      BY <3>2, <3>3
    <3> DEFINE a == args(j)
               e == E(j)
    <3>6. P(i) = e /\ (i # 1 => P(i - 1) = a)
      BY <3>2, <3>4
    <3>7. a \in 0..n /\ e \in a..n /\ Arg(j) = [x \in 1..(e - a) |-> logs[a + x - 1]]
      BY <1>2, <3>1
    <3>8. j = 0 => a = 0
      BY <1>2
    <3> HIDE DEF a, e, s, g, P, E, k
    <3>9. Prefix(logs, a) \o Arg(j) = Prefix(logs, e)
      BY <3>7, PrefixGrows
    <3>10. a = 0 => Arg(j) = Prefix(logs, e)
      <4>1. a = 0 => e - a = e /\ \A x \in 1..e : a + x - 1 = x - 1
        BY <1>2, <3>7
      <4> QED BY <3>7, <4>1 DEF Prefix
    <3> QED BY <3>1, <3>5, <3>6, <3>8, <3>9, <3>10
  <2> QED BY <2>1, <2>2, <2>3
<1>5. g[k] = Prefix(logs, n)
  <2>1. k % 2 # 0 /\ k \div 2 = argc - 1 /\ k \in 1..k
    BY <1>2
  <2> QED BY <2>1
<1>6. g = [i \in 1..k |-> IF i = 1 THEN s[i] ELSE g[i - 1] \o s[i]]
  <2>1. g = [i \in 1..k |-> g[i]]
    OBVIOUS
  <2> HIDE DEF g, s
  <2> QED BY <1>4, <2>1
<1> DEFINE m == k
<1>7. m \in Nat \ {0} /\ Len(s) = m
  BY <1>3
<1>8. Flattens(g, s, m)
  BY <1>6 DEF Flattens
<1>9. g[m] = Prefix(logs, n)
  BY <1>5
<1> HIDE DEF g, s, k, m
<1>10. FlattenSeq(s) = g[m]
  BY <1>7, <1>8, Flattened
<1>11. CString(logs) = Prefix(logs, n)
  BY StartsAre
<1> QED BY <1>1, <1>9, <1>10, <1>11

\* A command's arguments are the words of its line, in order and with nothing lost,
\* wherever its spaces are (term.c:36-49, 107-123).
THEOREM ArgumentsRight == Spec => []ArgsAreTheLine
<1>1. ASSUME TermInv PROVE ArgsAreTheLine
  <2> SUFFICES ASSUME Typing PROVE Joined = CString(logs)
    BY DEF ArgsAreTheLine, Typing
  <2>1. PICK n \in Buffer : logs[n] = NUL /\ \A j \in 0..(n - 1) : logs[j] # NUL
    BY <1>1, LineEnds
  <2>2. Ends(logs, n)
    BY <1>1, <2>1, TermFields DEF Ends
  <2> QED BY <2>2, JoinedIsLine
<1> QED BY <1>1, TermInvariant, PTL
=============================================================================
