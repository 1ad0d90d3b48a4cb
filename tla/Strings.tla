------------------------------ MODULE Strings -------------------------------
(***************************************************************************)
(* kernel/string.c and string.S, and the copies of them that programs link *)
(* (shared/sources/string.c).  A C string is a sequence of characters;     *)
(* a digit is its value (its code less that of 0), and so is the sign.     *)
(* An int has W bits.  The loops are recursive functions on the number of  *)
(* turns that are left.                                                    *)
(***************************************************************************)
EXTENDS Integers, Sequences, SequencesExt

CONSTANT W          \* bits of an int (32) and of a qword (64)

ASSUME WidthAssumption == W \in Nat /\ W > 1 /\ W % 4 = 0

Wrap(n) == LET m == n % 2^W IN IF m < 2^(W - 1) THEN m ELSE m - 2^W
IntMin == -(2^(W - 1))
Ints == IntMin .. (2^(W - 1) - 1)

Minus == -3        \* '-' - '0'

\* strrev swaps the ends inwards: the sequence backwards.
strrev(s) == [i \in 1 .. Len(s) |-> s[Len(s) + 1 - i]]

-----------------------------------------------------------------------------
\* Mutant: the loop stops at the last digit.
Digits_short(n, base) ==
    LET d[v \in 0 .. n] == IF v < base THEN <<>> ELSE <<v % base>> \o d[v \div base]
    IN  IF n > 0 THEN d[n] ELSE <<>>

\* The digits of n, the last one first; none for 0 and below.
Digits(n, base) ==
    LET d[v \in 0 .. n] == IF v = 0 THEN <<>> ELSE <<v % base>> \o d[v \div base]
    IN  IF n > 0 THEN d[n] ELSE <<>>

\* A value of IntMin is negated to itself, has no digits and leaves the sign.
intstr(value) ==
    LET v == IF value >= 0 THEN value ELSE Wrap(-value)
        n == IF v # 0 THEN Digits(v, 10) ELSE <<0>>
    IN  strrev(IF value >= 0 THEN n ELSE Append(n, Minus))

\* Of a value of up to W / 4 digits all are written, and two of zero.
hexstr(value) == strrev(IF value = 0 THEN <<0, 0>> ELSE Digits(value, 16))

\* A sign in front, then every character as a digit; the product wraps.
strint(text) ==
    LET neg == text # <<>> /\ text[1] = Minus
        n == Len(text)
        first == IF neg THEN 1 ELSE 0
        v[i \in first .. n] == IF i = first THEN 0 ELSE Wrap(v[i - 1] * 10 + text[i])
    IN  IF neg THEN Wrap(-v[n]) ELSE v[n]

-----------------------------------------------------------------------------
\* The loop compares size characters and does not stop at the end of a string.
strncmp(c1, c2, size) == IF \E i \in 1 .. size : c1[i] # c2[i] THEN 1 ELSE 0

strcmp(c1, c2) == IF Len(c1) # Len(c2) THEN 1 ELSE strncmp(c1, c2, Len(c1))

-----------------------------------------------------------------------------
\* The characters of a format, as digits are: their codes less that of 0.
Percent == -11
I == 57     X == 72     S == 67     C == 51
Directives == {I, X, S, C}

\* An argument is the text it points to, or a number alone.  Junk are the words
\* behind those that a caller passed.
Junk == [k \in 1 .. 4 |-> <<1>>]

\* What the loop over a format writes; String is what it makes of a text.  (A
\* format that ends in % is read beyond its end.)
Formatted(format, args, String(_)) ==
    LET w[i \in 1 .. (Len(format) + 2), k \in 1 .. (Len(args) + 1)] ==
            IF i > Len(format) THEN <<>>
            ELSE IF format[i] # Percent THEN <<format[i]>> \o w[i + 1, k]
            ELSE LET d == format[i + 1]
                 IN  IF d \notin Directives THEN <<Percent, d>> \o w[i + 2, k]
                     ELSE (IF d = I THEN intstr(args[k][1]) ELSE IF d = X THEN hexstr(args[k][1])
                           ELSE IF d = S THEN String(args[k]) ELSE args[k])
                              \o w[i + 2, k + 1]
    IN  w[1, 1]

\* The serial line's loop and the programs' library print a text as it is; the
\* kernel's takes it for a format of its own, which has no arguments.
Text(t) == t
Nested(t) == Formatted(t, Junk, Text)
serial_printf(format, args) == Formatted(format, args, Text)
printf_impl(format, args) == Formatted(format, args, Nested)
library_printf(format, args) == Formatted(format, args, Text)

-----------------------------------------------------------------------------
\* Memory is a function on addresses.
memzero(m, buffer, size) ==
    [a \in DOMAIN m |-> IF a \in buffer .. (buffer + size - 1) THEN 0 ELSE m[a]]

\* One byte after the other, upwards.
memcopy(m, dest, src, size) ==
    LET c[i \in 0 .. size] == IF i = 0 THEN m
                              ELSE [c[i - 1] EXCEPT ![dest + i - 1] = c[i - 1][src + i - 1]]
    IN  c[size]

-----------------------------------------------------------------------------
\* One call of the library: a number, two texts, or a copy in memory.
VARIABLE call

NoCall == [of |-> "nothing"]
Texts == UNION {[1 .. n -> {"a", "b"}] : n \in 0 .. 3}

\* A format is pieces: characters of its own, directives with their arguments,
\* and directives that are not known.
Piece(own, args, out) == [own |-> own, args |-> args, out |-> out]
Pieces == {Piece(<<49>>, <<>>, <<49>>), Piece(<<Percent, Percent>>, <<>>, <<Percent, Percent>>)}
              \cup {Piece(<<Percent, I>>, <<<<v>>>>, intstr(v)) : v \in {0, 12, -5, IntMin}}
              \cup {Piece(<<Percent, X>>, <<<<v>>>>, hexstr(v)) : v \in {0, 255}}
              \cup {Piece(<<Percent, C>>, <<<<v>>>>, <<v>>) : v \in {7, Percent}}
              \cup {Piece(<<Percent, S>>, <<t>>, t) : t \in {<<>>, <<49, 50>>, <<Percent, I>>}}
Formats == UNION {[1 .. n -> Pieces] : n \in 0 .. 3}

Calls == [of : {"int"}, value : Ints] \cup [of : {"hex"}, value : 0 .. (2^W - 1)]
            \cup [of : {"texts"}, c1 : Texts, c2 : Texts]
            \cup [of : {"format"}, pieces : Formats]
            \cup [of : {"copy"}, m : [0 .. 4 -> 0 .. 1], dest : 0 .. 2, gap : 0 .. 1, size : 0 .. 2]
StringsInit == call \in {NoCall} \cup Calls

-----------------------------------------------------------------------------
(* Properties.                                                             *)

\* What intstr writes strint reads back, at every boundary of the int, and of
\* the smallest int only the sign is left (string.c:75-78).
IntRoundTrip ==
    call.of = "int" => strint(intstr(call.value)) = IF call.value = IntMin THEN 0 ELSE call.value

\* hexstr writes the value: its digits sum up to it, with no zero in front
\* except of zero itself.
HexWritesValue ==
    call.of = "hex" =>
        LET s == hexstr(call.value)
            sum[i \in 0 .. Len(s)] == IF i = 0 THEN 0 ELSE 16 * sum[i - 1] + s[i]
        IN  /\ s # <<>> /\ sum[Len(s)] = call.value
            /\ s[1] = 0 => call.value = 0

\* Two texts compare equal when they are the same: term_exec tells its commands
\* apart by it (term.c:183-231).
CompareTellsApart == call.of = "texts" => ((strcmp(call.c1, call.c2) = 0) <=> (call.c1 = call.c2))

\* The kernel's printf, the serial line's and the library's write each piece of
\* a format with its own argument and nothing else, the kernel's as long as no
\* text has a directive in it (io.c:36 against serial.c:29).
FormatWrites ==
    call.of = "format" =>
        LET of(part(_)) == FlattenSeq([i \in DOMAIN call.pieces |-> part(call.pieces[i])])
            format == of(LAMBDA p : p.own)
            args == of(LAMBDA p : p.args)
            out == of(LAMBDA p : p.out)
            plain == \A i \in DOMAIN call.pieces : call.pieces[i].args # <<<<Percent, I>>>>
        IN  /\ serial_printf(format, args) = out /\ library_printf(format, args) = out
            /\ plain => printf_impl(format, args) = out

\* A copy downwards may overlap: the rows of the screen move up by it
\* (term.c:145), each byte to where the one a row below it was; memzero clears
\* the bytes it is given and no other (term.c:150).
CopyDownwards ==
    call.of = "copy" =>
        LET to == call.dest .. (call.dest + call.size - 1)
            moved == memcopy(call.m, call.dest, call.dest + call.gap, call.size)
        IN  \A a \in DOMAIN call.m :
                /\ moved[a] = call.m[IF a \in to THEN a + call.gap ELSE a]
                /\ memzero(moved, call.dest, call.size)[a] = IF a \in to THEN 0 ELSE call.m[a]

\* Every call of the library gives what its callers take it to give.
LibraryRight == /\ IntRoundTrip /\ HexWritesValue /\ CompareTellsApart
                /\ FormatWrites /\ CopyDownwards
=============================================================================
