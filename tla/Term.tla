-------------------------------- MODULE Term --------------------------------
(***************************************************************************)
(* The terminal: term_run of kernel/term.c with its line buffer and its    *)
(* cursor, the drawing and scrolling of characters, the keyboard driver    *)
(* and getchar of io.c, and the commands of term_exec.                     *)
(*                                                                         *)
(* A word (a command, a file name) is one key and takes one cell.  A text  *)
(* row is 16 scan lines, here four strips of four; a pixel is its strip,   *)
(* its column, and the glyph and the part of it that was drawn there.      *)
(* Which key a scan code stands for is chosen when it is read, so that the *)
(* keyboard's buffer is its length.  What other tasks print is left out.   *)
(***************************************************************************)
EXTENDS Integers, FiniteSets, Sequences, SequencesExt

CONSTANTS
    COLS, ROWS,     \* max_char_width, max_char_height
    Words,          \* the words that can be typed: commands, names, numbers
    FIFO,           \* scan codes the keyboard and its controller hold
    KEYS            \* bound: keys read

\* term_run bounds neither the line (1024 bytes) nor a backspace that runs out
\* of the screen; both need a line longer than the one screen of the bound.
ASSUME SizeAssumption == /\ COLS \in Nat \ {0} /\ ROWS \in Nat \ {0, 1}
                         /\ FIFO \in Nat \ {0} /\ KEYS \in 0..(COLS * (ROWS - 1) - 2)
ASSUME WordsAssumption == {" ", "NUL", "\n", "bs"} \cap Words = {}

VARIABLES
    at,             \* where the kernel's task is
    queued,         \* scan codes in the keyboard's buffer
    irq1,           \* the controller's interrupt is requested
    ps2_is_output_serve,
    key,            \* term_run's local
    logs, index_logs,
    tty,            \* ttext_cursor, the pixels, and whether scrolling moved them
    text_color,
    out,            \* characters that print and printf still have to draw
    clean,          \* a key was stored in logs since it was allocated
    command,        \* the last line handed to term_exec
    tasks,          \* tasks that TASK created and that have not read their name
    opened,         \* <<name asked for, name the task read>>
    count

vars == <<at, queued, irq1, ps2_is_output_serve, key, logs, index_logs, tty,
          text_color, out, clean, command, tasks, opened, count>>
screenVars == <<tty, text_color, out>>
lineVars == <<logs, index_logs, clean, command>>
taskVars == <<tasks, opened>>

NUL == "NUL"
Printable == Words \cup {" "}
Buffer == 0..(KEYS + 1)

-----------------------------------------------------------------------------
(* Drawing *)

\* The glyph's own pixels are set, or cleared when the colour is that of the
\* background; the cell's other pixels stay.  A space has none of its own.
Glyph(c, x, y) == IF c = " " THEN {} ELSE {<<4 * y + p, x, c, p>> : p \in 0..3}
video_driver_drawChar(c, x, y, color) ==
    IF color = "black" THEN tty.px \ Glyph(c, x, y) ELSE tty.px \cup Glyph(c, x, y)

Index == tty.x + tty.y * COLS

\* The copy moves width * 16 * 3 bytes per row, three of the four strips that a
\* row of 4-byte pixels has, and clears as many where it takes the last row to be.
Scrolled(px) == {<<q[1] - 3, q[2], q[3], q[4]>> : q \in {r \in px : r[1] \in 3..(3 * ROWS - 1)}}
                    \cup {q \in px : q[1] >= 3 * ROWS}

\* Mutant: the cursor stays below the screen.
term_scrollup_below(px, index) ==
    LET over == index >= COLS * ROWS
    IN  tty' = [px |-> IF over THEN Scrolled(px) ELSE px, x |-> index % COLS,
                y |-> index \div COLS, moved |-> tty.moved \/ over]

\* The cursor is set to cell index, and term_scrollup called.
term_scrollup(px, index) ==
    LET over == index >= COLS * ROWS
    IN  tty' = [px |-> IF over THEN Scrolled(px) ELSE px, x |-> index % COLS,
                y |-> IF over THEN ROWS - 1 ELSE index \div COLS, moved |-> tty.moved \/ over]

Newline == term_scrollup(tty.px, COLS * (tty.y + 1))
term_drawChar(c, color) ==
    IF c = "\n" THEN Newline
    ELSE term_scrollup(video_driver_drawChar(c, tty.x, tty.y, color), Index + 1)

-----------------------------------------------------------------------------
(* The line as a C string, and its arguments *)

strsize(b) == CHOOSE i \in DOMAIN b : b[i] = NUL /\ \A j \in 0..(i - 1) : b[j] # NUL
CString(b) == [i \in 1..strsize(b) |-> b[i - 1]]

\* Mutant: a space at the end of the line begins no argument.
Starts_inside(b) == {0} \cup {i + 1 : i \in {j \in 0..(strsize(b) - 2) : b[j] = " "}}

\* Where the arguments begin: at the start and behind every space.
Starts(b) == {0} \cup {i + 1 : i \in {j \in 0..(strsize(b) - 1) : b[j] = " "}}
Split(b) == [i \in DOMAIN b |-> IF i < strsize(b) /\ b[i] = " " THEN NUL ELSE b[i]]
StringAt(b, a) ==
    LET end == CHOOSE i \in DOMAIN b : i >= a /\ b[i] = NUL /\ \A j \in a..(i - 1) : b[j] # NUL
    IN  [i \in 1..(end - a) |-> b[a + i - 1]]

-----------------------------------------------------------------------------
(* The keyboard *)

\* A scan code reaches the controller's output register when it is empty; then,
\* and when the register is filled again after a read, IRQ 1 is requested.
Press == /\ queued < FIFO /\ count + queued < KEYS
         /\ queued' = queued + 1 /\ irq1' = (irq1 \/ queued = 0)
         /\ UNCHANGED <<at, ps2_is_output_serve, key, lineVars, screenVars, taskVars, count>>

\* The driver looks at the controller's status, and nothing reads what it noted.
keyboard_handle == /\ irq1 /\ irq1' = FALSE
                   /\ ps2_is_output_serve' = (queued > 0)
                   /\ UNCHANGED <<at, queued, key, lineVars, screenVars, taskVars, count>>

\* Mutant: getchar waits for what the interrupt noted.
keyboard_is_output_serve_noted == ps2_is_output_serve
keyboard_is_output_serve == queued > 0

getchar == /\ at = "poll" /\ keyboard_is_output_serve /\ at' = "read"
           /\ UNCHANGED <<queued, irq1, ps2_is_output_serve, key, lineVars, screenVars,
                          taskVars, count>>

\* What scancode_set_1 makes of a code: a released key and the keys without a
\* character give 0, escape gives a new line, and a code from 60 on whatever
\* follows the table.
Decoded == Printable \cup {NUL, "\n", "bs"}

ReadData == /\ at = "read" /\ at' = "clear" /\ count' = count + 1
            /\ queued' = queued - 1 /\ irq1' = (irq1 \/ queued > 1)
            /\ key' \in Decoded
            /\ UNCHANGED <<ps2_is_output_serve, lineVars, screenVars, taskVars>>
ClearFlag == /\ at = "clear" /\ at' = "key" /\ ps2_is_output_serve' = FALSE
             /\ UNCHANGED <<queued, irq1, key, lineVars, screenVars, taskVars, count>>
keyboard_getchar == ReadData \/ ClearFlag

-----------------------------------------------------------------------------
(* term_run: what it does with a key *)

Stay == UNCHANGED <<queued, irq1, ps2_is_output_serve, key, count>>

KeyIgnored == /\ at = "key" /\ at' = "poll"
              /\ key = NUL \/ (key = "bs" /\ index_logs <= 0)
              /\ Stay /\ UNCHANGED <<lineVars, screenVars, taskVars>>

\* Mutant: the character stays on the screen.
KeyBackspace_shown ==
    /\ at = "key" /\ at' = "poll" /\ key = "bs" /\ index_logs > 0
    /\ logs' = [logs EXCEPT ![index_logs - 1] = NUL] /\ index_logs' = index_logs - 1
    /\ term_scrollup(tty.px, Index - 1)
    /\ Stay /\ UNCHANGED <<text_color, out, clean, command, taskVars>>

\* The last character is drawn again, in black, one cell before the cursor.
KeyBackspace ==
    /\ at = "key" /\ at' = "poll" /\ key = "bs" /\ index_logs > 0
    /\ logs' = [logs EXCEPT ![index_logs - 1] = NUL] /\ index_logs' = index_logs - 1
    /\ LET i == Index - 1 IN
       tty' = [px |-> video_driver_drawChar(logs[index_logs - 1], i % COLS, i \div COLS, "black"),
               x |-> i % COLS, y |-> i \div COLS, moved |-> tty.moved]
    /\ Stay /\ UNCHANGED <<text_color, out, clean, command, taskVars>>

\* Mutant: the terminator is not written.
KeyPrintable_open ==
    /\ at = "key" /\ at' = "poll" /\ key \in Printable
    /\ logs' = [logs EXCEPT ![index_logs] = key]
    /\ index_logs' = index_logs + 1 /\ clean' = TRUE
    /\ term_drawChar(key, text_color)
    /\ Stay /\ UNCHANGED <<text_color, out, command, taskVars>>

KeyPrintable ==
    /\ at = "key" /\ at' = "poll" /\ key \in Printable
    /\ logs' = [logs EXCEPT ![index_logs] = key, ![index_logs + 1] = NUL]
    /\ index_logs' = index_logs + 1 /\ clean' = TRUE
    /\ term_drawChar(key, text_color)
    /\ Stay /\ UNCHANGED <<text_color, out, command, taskVars>>

-----------------------------------------------------------------------------
(* The commands of term_exec, from the return key to the next prompt *)

cmd == Split(logs)
argc == Cardinality(Starts(logs))
args(i) == CHOOSE s \in Starts(logs) : Cardinality({r \in Starts(logs) : r < s}) = i
Arg(i) == StringAt(cmd, args(i))
Is(word) == Arg(0) = <<word>>

\* The commands that only print are told apart by what they print; the others
\* print too when they refuse their arguments.
Clears == Is("CLEAR")
Execs == Is("EXEC") /\ argc = 2
Tasks_ == Is("TASK") /\ argc > 1
Colours == Is("SETTEXTCOLOR") /\ argc = 4
Answer == IF Is("HELP") THEN <<"o", "\n", "o", "\n">>
          ELSE IF Is("LTASK") \/ Is("MEMSIZE") \/ Is("SETTEXTCOLOR") THEN <<"o", "\n">>
          ELSE IF Is("EXEC") \/ Is("TASK") THEN <<"o">>
          ELSE Arg(0) \o <<"o", "\n">>

Enter == /\ at = "key" /\ key = "\n"
         /\ command' = CString(logs) /\ clean' = TRUE /\ index_logs' = 0
         /\ logs' = cmd /\ Stay

PrintOnly == /\ Enter /\ ~(Clears \/ Execs \/ Tasks_ \/ Colours)
             /\ Newline /\ out' = Answer /\ at' = "print"
             /\ UNCHANGED <<text_color, taskVars>>

\* video_driver_clearScreen, and the cursor back at the first cell.
Clear == /\ Enter /\ Clears /\ at' = "print"
         /\ tty' = [px |-> {}, x |-> 0, y |-> 0, moved |-> FALSE]
         /\ UNCHANGED <<text_color, out, taskVars>>

\* strint of an empty argument is 0: a colour of three zeros is black on black.
SetTextColor == /\ Enter /\ Colours /\ at' = "print" /\ Newline
                /\ text_color' = IF \A i \in 1..3 : Arg(i) \in {<<>>, <<"0">>}
                                 THEN "black" ELSE "white"
                /\ UNCHANGED <<out, taskVars>>

\* elf64_load prints and runs the program before it returns, if it does.
Exec == /\ Enter /\ Execs /\ at' = "program" /\ Newline
        /\ UNCHANGED <<text_color, out, taskVars>>
ExecReturns == /\ at = "program" /\ at' = "print" /\ Stay
               /\ out' \in {<<"p">>, <<"p", "\n">>}
               /\ UNCHANGED <<lineVars, tty, text_color, taskVars>>

\* print and printf: one character after the other.
print == /\ at = "print" /\ out # <<>>
         /\ term_drawChar(Head(out), text_color) /\ out' = Tail(out)
         /\ Stay /\ UNCHANGED <<at, lineVars, text_color, taskVars>>

\* Behind term_exec: the line is empty and the prompt drawn.
Prompt == /\ at = "print" /\ out = <<>> /\ at' = "poll"
          /\ logs' = [logs EXCEPT ![0] = NUL] /\ term_drawChar(">", text_color)
          /\ Stay /\ UNCHANGED <<index_logs, clean, command, text_color, out, taskVars>>

\* task_create pushes the registers and task_create_impl gives words 3 to 6 of
\* them to the new task.  The first optional argument of a C call is in rdx.
JUNK == 0 - 1
task_create(rdi, rsi, rdx, rcx, r8, r9) == <<rdi, rsi, rcx, rdx, r8, r9>>
task_create_impl(words) == [rdi |-> words[3], rsi |-> words[4], rcx |-> words[5], rdx |-> words[6]]

Task == /\ Enter /\ Tasks_ /\ tasks = {} /\ at' = "print" /\ Newline
        /\ tasks' = {[regs |-> task_create_impl(task_create(JUNK, 1, args(1), JUNK, JUNK, JUNK)),
                      asked |-> Arg(1)]}
        /\ UNCHANGED <<text_color, out, opened>>

\* elf64_load in the new task reads the string its rdi points to.
TaskReads == \E t \in tasks :
    /\ tasks' = tasks \ {t}
    /\ opened' = [asked |-> t.asked,
                  read |-> IF t.regs.rdi = JUNK THEN <<"junk">> ELSE StringAt(logs, t.regs.rdi)]
    /\ UNCHANGED <<at, queued, irq1, ps2_is_output_serve, key, lineVars, screenVars, count>>

-----------------------------------------------------------------------------
\* term_init and the start of term_run; the buffer's bytes are those of a block
\* that the heap gave out before, here a word and then nothing.
Init ==
    /\ at = "poll" /\ queued = 0 /\ irq1 = FALSE /\ ps2_is_output_serve = TRUE
    /\ key = NUL /\ index_logs = 0 /\ clean = FALSE /\ command = <<>>
    /\ \E b \in {NUL} \cup Words : logs = [i \in Buffer |-> IF i = 0 THEN b ELSE NUL]
    /\ text_color = "white" /\ tasks = {} /\ opened = [asked |-> <<>>, read |-> <<>>]
    /\ count = 0
    /\ out = <<>> /\ tty = [px |-> Glyph(">", 0, 0), x |-> 1 % COLS, y |-> 1 \div COLS, moved |-> FALSE]

term_exec == PrintOnly \/ Clear \/ SetTextColor \/ Exec \/ Task
term_run == getchar \/ keyboard_getchar \/ KeyIgnored \/ KeyBackspace \/ KeyPrintable
                \/ term_exec \/ print \/ Prompt
Next == Press \/ keyboard_handle \/ term_run \/ ExecReturns \/ TaskReads

\* The kernel's task is scheduled again and again, and the interrupt is taken.
\* A program need not return.
Spec == Init /\ [][Next]_vars /\ WF_vars(term_run) /\ WF_vars(keyboard_handle)

-----------------------------------------------------------------------------
(* Properties *)

TypeOK ==
    /\ at \in {"poll", "read", "clear", "key", "print", "program"} /\ queued \in 0..FIFO
    /\ irq1 \in BOOLEAN /\ ps2_is_output_serve \in BOOLEAN /\ key \in Decoded
    /\ logs \in [Buffer -> Printable \cup {NUL}] /\ index_logs \in 0..KEYS
    /\ tty.x \in 0..(COLS - 1) /\ tty.y \in 0..(ROWS - 1)
    /\ text_color \in {"white", "black"} /\ clean \in BOOLEAN /\ count \in 0..KEYS

\* The line that term_exec is given is the line that was typed: the buffer's
\* terminator follows every key and every backspace.
Editor == INSTANCE LineEditor WITH
              Keys <- Printable, line <- IF at \in {"print", "program"} THEN <<>> ELSE CString(logs)
ImplementsEditor == Editor!Spec

\* The cells before the cursor, in reading order, and the one at the cursor.
Shows(i, c) == {q \in tty.px : q[1] \div 4 = i \div COLS /\ q[2] = i % COLS}
                    = Glyph(c, i % COLS, i \div COLS)
Displayed ==
    LET p == Index - index_logs - 1 IN
    /\ p >= 0 /\ Shows(p, ">")
    /\ \A i \in 1..index_logs : Shows(p + i, logs[i - 1])
    /\ Shows(Index, " ")

\* As long as nothing has scrolled, the screen shows the prompt, the line that
\* is being typed and an empty cell at the cursor, over the end of a row and
\* back by backspace.
ScreenShowsLine ==
    at \notin {"print", "program"} /\ text_color = "white" /\ ~tty.moved => Displayed

\* The same of every line: scrolling "clear[s] pixels at last line".
EveryLineShown == at \notin {"print", "program"} /\ text_color = "white" => Displayed

\* The arguments are the words of the line, in order and with nothing lost.
Joined == FlattenSeq([i \in 1..(2 * argc - 1) |->
                          IF i % 2 = 0 THEN <<" ">> ELSE Arg(i \div 2)])
ArgsAreTheLine == at = "key" => Joined = CString(logs)

\* A task started by TASK opens the file it was given.
TaskOpensItsFile == opened.asked = opened.read

\* No key waits for ever: the terminal polls the controller's status, so that an
\* interrupt it missed costs nothing, unless a program keeps the kernel's task.  (A
\* program that makes the exit call, syscall.c:51-56, would stop every task with
\* interrupts off; the programs here return.)
KeyServed == queued > 0 ~> (queued = 0 \/ at = "program")
=============================================================================
