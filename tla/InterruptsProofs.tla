-------------------------- MODULE InterruptsProofs --------------------------
(***************************************************************************)
(* Proofs about interrupts, for any lines and processor exceptions.        *)
(***************************************************************************)
EXTENDS Interrupts, SequenceTheorems, TLAPS

\* The words of a stack and the values of the registers.
Names == {"cr0", "cr2", "cr3", "cr4", "rip", "cs", "rflags", "rsp0", "ss",
          "error", "code", "junk", "frame"} \cup Registers
Words == Names \X Nat

\* The words that can lie on the stack.
LEMMA Word == /\ \A n \in Nat : /\ <<"cr0", n>> \in Words /\ <<"cr2", n>> \in Words
                                /\ <<"cr3", n>> \in Words /\ <<"cr4", n>> \in Words
                                /\ <<"rip", n>> \in Words /\ <<"cs", n>> \in Words
                                /\ <<"rflags", n>> \in Words /\ <<"rsp0", n>> \in Words
                                /\ <<"ss", n>> \in Words /\ <<"error", n>> \in Words
                                /\ <<"code", n>> \in Words /\ <<"junk", n>> \in Words
                                /\ <<"frame", n>> \in Words
              /\ \A r \in Registers, n \in Nat : <<r, n>> \in Words
BY DEF Words, Names

\* The sixteen general registers.
LEMMA RegisterSet ==
    /\ "rax" \in Registers /\ "rcx" \in Registers /\ "rdx" \in Registers /\ "rbx" \in Registers
    /\ "rsp" \in Registers /\ "rbp" \in Registers /\ "rdi" \in Registers /\ "rsi" \in Registers
    /\ "r8" \in Registers /\ "r9" \in Registers /\ "r10" \in Registers /\ "r11" \in Registers
    /\ "r12" \in Registers /\ "r13" \in Registers /\ "r14" \in Registers /\ "r15" \in Registers
BY DEF Registers, Scratch

\* The indices of cpu_register_t's 27 words that name a register of the program.
RegisterWords == (5 .. 20) \ {9}

(* The layout of a frame. *)

\* cpu_register_t has 27 fields with different names (cpu.h).
LEMMA Layout ==
    /\ Len(cpu_register_t) = 27
    /\ \A i, j \in 1 .. 27 : cpu_register_t[i] = cpu_register_t[j] => i = j
BY DEF cpu_register_t

\* A field's place is where its name is.
LEMMA FieldOf == \A i \in 1 .. 27 : Field(cpu_register_t[i]) = i
<1> TAKE i \in 1 .. 27
<1>1. \E j \in 1 .. Len(cpu_register_t) : cpu_register_t[j] = cpu_register_t[i]
  BY Layout
<1>2. \A j \in 1 .. Len(cpu_register_t) : cpu_register_t[j] = cpu_register_t[i] <=> j = i
  BY Layout
<1> QED BY <1>1, <1>2 DEF Field

\* The places of the fields that are not general registers.
LEMMA FieldNames ==
    /\ Field("cr4") = 1 /\ Field("cr3") = 2 /\ Field("cr2") = 3 /\ Field("cr0") = 4
    /\ Field("rsp") = 9 /\ Field("interrupt_code") = 21 /\ Field("error_code") = 22
    /\ Field("rip") = 23 /\ Field("cs") = 24 /\ Field("rflags") = 25
    /\ Field("rsp0") = 26 /\ Field("ss") = 27
<1>1. /\ cpu_register_t[1] = "cr4" /\ cpu_register_t[2] = "cr3" /\ cpu_register_t[3] = "cr2"
      /\ cpu_register_t[4] = "cr0" /\ cpu_register_t[9] = "rsp"
      /\ cpu_register_t[21] = "interrupt_code" /\ cpu_register_t[22] = "error_code"
      /\ cpu_register_t[23] = "rip" /\ cpu_register_t[24] = "cs" /\ cpu_register_t[25] = "rflags"
      /\ cpu_register_t[26] = "rsp0" /\ cpu_register_t[27] = "ss"
  BY DEF cpu_register_t
<1>2. 1 \in 1 .. 27 /\ 2 \in 1 .. 27 /\ 3 \in 1 .. 27 /\ 4 \in 1 .. 27 /\ 9 \in 1 .. 27
      /\ 21 \in 1 .. 27 /\ 22 \in 1 .. 27 /\ 23 \in 1 .. 27
      /\ 24 \in 1 .. 27 /\ 25 \in 1 .. 27 /\ 26 \in 1 .. 27 /\ 27 \in 1 .. 27
  OBVIOUS
<1> QED BY <1>1, <1>2, FieldOf

\* Each general register but rsp has a field that POPX64 restores.
LEMMA RegisterNames ==
    \A f \in Registers \ {"rsp"} : \E i \in RegisterWords : cpu_register_t[i] = f
BY DEF cpu_register_t, Registers, Scratch, RegisterWords

\* The fields among those of POPX64 are general registers.
LEMMA RegisterWord == \A i \in RegisterWords : cpu_register_t[i] \in Registers
<1>1. /\ cpu_register_t[5] \in Registers /\ cpu_register_t[6] \in Registers
      /\ cpu_register_t[7] \in Registers /\ cpu_register_t[8] \in Registers
      /\ cpu_register_t[10] \in Registers /\ cpu_register_t[11] \in Registers
      /\ cpu_register_t[12] \in Registers /\ cpu_register_t[13] \in Registers
      /\ cpu_register_t[14] \in Registers /\ cpu_register_t[15] \in Registers
      /\ cpu_register_t[16] \in Registers /\ cpu_register_t[17] \in Registers
      /\ cpu_register_t[18] \in Registers /\ cpu_register_t[19] \in Registers
      /\ cpu_register_t[20] \in Registers
  BY DEF cpu_register_t, Registers, Scratch
<1>2. RegisterWords = {5, 6, 7, 8, 10, 11, 12, 13, 14, 15, 16, 17, 18, 19, 20}
  BY DEF RegisterWords
<1> QED BY <1>1, <1>2

\* POPX64 takes each register from its own field.
LEMMA RegisterFields ==
    \A f \in Registers \ {"rsp"} :
        /\ Field(f) \in RegisterWords /\ cpu_register_t[Field(f)] = f
        /\ (CHOOSE k \in 1 .. 16 : POPX64[k] = f) = Field(f) - 4
<1> TAKE f \in Registers \ {"rsp"}
<1>1. PICK i \in RegisterWords : cpu_register_t[i] = f
  BY RegisterNames
<1>2. i \in 1 .. 27 /\ i - 4 \in 1 .. 16
  BY DEF RegisterWords
<1>3. Field(f) = i
  BY <1>1, <1>2, FieldOf
<1>4. \A k \in 1 .. 16 : POPX64[k] = cpu_register_t[k + 4]
  BY DEF POPX64, cpu_register_t
<1>5. \A k \in 1 .. 16 : POPX64[k] = f <=> k = i - 4
  <2> TAKE k \in 1 .. 16
  <2>1. k + 4 \in 1 .. 27
    OBVIOUS
  <2>2. POPX64[k] = cpu_register_t[k + 4] /\ (k + 4 = i <=> k = i - 4)
    BY <1>2, <1>4
  <2> QED BY <1>1, <1>2, <2>1, <2>2, Layout
<1> QED BY <1>1, <1>2, <1>3, <1>5

\* What PUSHX64 leaves on a stack of words s.
LEMMA Pushx64 ==
    ASSUME NEW s \in Seq(Words), reg \in [Registers -> Words]
    PROVE  /\ PUSHX64(s) \in Seq(Words) /\ Len(PUSHX64(s)) = Len(s) + 20
           /\ \A i \in 1 .. 4 : PUSHX64(s)[i][1] = cpu_register_t[i]
           /\ PUSHX64(s)[9] = <<"rsp", Len(s) + 11>>
           /\ \A i \in RegisterWords : PUSHX64(s)[i] = reg[cpu_register_t[i]]
           /\ \A i \in 1 .. Len(s) : PUSHX64(s)[i + 20] = s[i]
<1> DEFINE t == <<<<"cr4", 0>>, <<"cr3", 0>>, <<"cr2", 0>>, <<"cr0", 0>>,
                  reg["rax"], reg["rcx"], reg["rdx"], reg["rbx"], <<"rsp", Len(s) + 11>>,
                  reg["rbp"], reg["rdi"], reg["rsi"], reg["r8"], reg["r9"], reg["r10"],
                  reg["r11"], reg["r12"], reg["r13"], reg["r14"], reg["r15"]>>
<1>1. Len(s) \in Nat
  BY LenProperties
<1>2. \A r \in Registers : reg[r] \in Words
  OBVIOUS
<1>3. t \in Seq(Words) /\ Len(t) = 20
  <2>1. /\ <<"cr4", 0>> \in Words /\ <<"cr3", 0>> \in Words
        /\ <<"cr2", 0>> \in Words /\ <<"cr0", 0>> \in Words
    BY Word
  <2>2. <<"rsp", Len(s) + 11>> \in Words
    <3>1. Len(s) + 11 \in Nat /\ "rsp" \in Registers
      BY <1>1, RegisterSet
    <3> QED BY <3>1, Word
  <2> HIDE DEF Words
  <2> QED BY <1>2, <2>1, <2>2, RegisterSet
<1>4. /\ \A i \in 1 .. 4 : t[i][1] = cpu_register_t[i]
      /\ t[9] = <<"rsp", Len(s) + 11>>
  <2>1. \A i \in 1 .. 4 : i = 1 \/ i = 2 \/ i = 3 \/ i = 4
    OBVIOUS
  <2>2. /\ t[1][1] = cpu_register_t[1] /\ t[2][1] = cpu_register_t[2]
        /\ t[3][1] = cpu_register_t[3] /\ t[4][1] = cpu_register_t[4]
    BY DEF cpu_register_t
  <2>3. t[9] = <<"rsp", Len(s) + 11>>
    OBVIOUS
  <2> HIDE DEF t
  <2> QED BY <2>1, <2>2, <2>3
<1>5. \A i \in RegisterWords : t[i] = reg[cpu_register_t[i]]
  <2>1. /\ t[5] = reg[cpu_register_t[5]] /\ t[6] = reg[cpu_register_t[6]]
        /\ t[7] = reg[cpu_register_t[7]] /\ t[8] = reg[cpu_register_t[8]]
        /\ t[10] = reg[cpu_register_t[10]] /\ t[11] = reg[cpu_register_t[11]]
        /\ t[12] = reg[cpu_register_t[12]] /\ t[13] = reg[cpu_register_t[13]]
        /\ t[14] = reg[cpu_register_t[14]] /\ t[15] = reg[cpu_register_t[15]]
        /\ t[16] = reg[cpu_register_t[16]] /\ t[17] = reg[cpu_register_t[17]]
        /\ t[18] = reg[cpu_register_t[18]] /\ t[19] = reg[cpu_register_t[19]]
        /\ t[20] = reg[cpu_register_t[20]]
    BY DEF cpu_register_t
  <2>2. RegisterWords = {5, 6, 7, 8, 10, 11, 12, 13, 14, 15, 16, 17, 18, 19, 20}
    BY DEF RegisterWords
  <2> HIDE DEF t
  <2> QED BY <2>1, <2>2
<1>6. PUSHX64(s) = t \o s
  BY DEF PUSHX64
<1> HIDE DEF t
<1>7. /\ t \o s \in Seq(Words) /\ Len(t \o s) = Len(t) + Len(s)
      /\ \A i \in 1 .. Len(t) + Len(s) : (t \o s)[i] = IF i <= Len(t) THEN t[i] ELSE s[i - Len(t)]
  BY <1>3, ConcatProperties
<1>8. \A i \in 1 .. 20 : (t \o s)[i] = t[i]
  BY <1>1, <1>3, <1>7
<1>9. \A i \in 1 .. Len(s) : (t \o s)[i + 20] = s[i]
  <2> TAKE i \in 1 .. Len(s)
  <2> DEFINE k == i + 20
  <2>1. k \in 1 .. Len(t) + Len(s) /\ ~(k <= Len(t)) /\ k - Len(t) = i
    BY <1>1, <1>3
  <2> HIDE DEF k
  <2>2. (t \o s)[k] = s[i]
    BY <1>7, <2>1
  <2> QED BY <2>2 DEF k
<1>10. /\ \A i \in 1 .. 4 : i \in 1 .. 20
       /\ 9 \in 1 .. 20 /\ \A i \in RegisterWords : i \in 1 .. 20
  BY DEF RegisterWords
<1>11. (t \o s)[9] = <<"rsp", Len(s) + 11>> /\ \A i \in 1 .. 4 : (t \o s)[i][1] = cpu_register_t[i]
  BY <1>4, <1>8, <1>10
<1>12. \A i \in RegisterWords : (t \o s)[i] = reg[cpu_register_t[i]]
  BY <1>5, <1>8, <1>10
<1>13. Len(t \o s) = Len(s) + 20
  BY <1>1, <1>3, <1>7
<1> QED BY <1>6, <1>7, <1>9, <1>11, <1>12, <1>13

\* The elements of a sequence with others pushed in front of it.
LEMMA Prefix ==
    ASSUME NEW S, NEW t \in Seq(S), NEW s \in Seq(S)
    PROVE  /\ t \o s \in Seq(S) /\ Len(t \o s) = Len(t) + Len(s)
           /\ \A i \in 1 .. Len(t) : (t \o s)[i] = t[i]
           /\ \A i \in 1 .. Len(s) : (t \o s)[i + Len(t)] = s[i]
<1>1. Len(s) \in Nat /\ Len(t) \in Nat
  BY LenProperties
<1>2. /\ t \o s \in Seq(S) /\ Len(t \o s) = Len(t) + Len(s)
      /\ \A i \in 1 .. Len(t) + Len(s) : (t \o s)[i] = IF i <= Len(t) THEN t[i] ELSE s[i - Len(t)]
  BY ConcatProperties
<1>3. \A i \in 1 .. Len(t) : (t \o s)[i] = t[i]
  BY <1>1, <1>2
<1>4. \A i \in 1 .. Len(s) : (t \o s)[i + Len(t)] = s[i]
  <2> TAKE i \in 1 .. Len(s)
  <2> DEFINE k == i + Len(t)
  <2>1. k \in 1 .. Len(t) + Len(s) /\ ~(k <= Len(t)) /\ k - Len(t) = i
    BY <1>1
  <2> HIDE DEF k
  <2>2. (t \o s)[k] = s[i]
    BY <1>2, <2>1
  <2> QED BY <2>2 DEF k
<1> QED BY <1>2, <1>3, <1>4

-----------------------------------------------------------------------------
(* What the processor and the stub push before it. *)

\* The processor's five words lie at n + 1 .. n + 5 of s; its flags word is f.
CpuWords(s, n, f) == /\ s[n + 1][1] = "rip" /\ s[n + 2][1] = "cs"
                     /\ s[n + 3] = <<"rflags", f>>
                     /\ s[n + 4][1] = "rsp0" /\ s[n + 5][1] = "ss"

Flags == IF int_flag THEN 1 ELSE 0

\* What the processor pushes: five words, and the error code of some vectors.
LEMMA PushedWords ==
    ASSUME NEW v \in Nat, NEW s \in Seq(Words)
    PROVE  LET e == Pushed(v) \o s
               n == Len(ErrorCode(v))
           IN  /\ e \in Seq(Words) /\ Len(e) = n + 5 + Len(s) /\ n \in {0, 1}
               /\ CpuWords(e, n, Flags) /\ (n = 1 => e[1][1] = "error")
<1> DEFINE u == ErrorCode(v)
           w == <<<<"rip", 0>>, <<"cs", 0>>, <<"rflags", Flags>>, <<"rsp0", 0>>, <<"ss", 0>>>>
           p == u \o w
           e == p \o s
<1>1. u \in Seq(Words) /\ Len(u) \in {0, 1} /\ (Len(u) = 1 => u[1][1] = "error")
  <2>1. <<"error", v>> \in Words
    BY Word
  <2>2. << >> \in Seq(Words) /\ Len(<< >>) = 0
    OBVIOUS
  <2>3. <<<<"error", v>>>> \in Seq(Words) /\ Len(<<<<"error", v>>>>) = 1
    BY <2>1
  <2> QED BY <2>2, <2>3 DEF ErrorCode
<1>2. w \in Seq(Words) /\ Len(w) = 5
      /\ w[1][1] = "rip" /\ w[2][1] = "cs" /\ w[3] = <<"rflags", Flags>>
      /\ w[4][1] = "rsp0" /\ w[5][1] = "ss"
  <2>1. Flags \in Nat /\ 0 \in Nat
    BY DEF Flags
  <2>2. /\ <<"rip", 0>> \in Words /\ <<"cs", 0>> \in Words /\ <<"rflags", Flags>> \in Words
        /\ <<"rsp0", 0>> \in Words /\ <<"ss", 0>> \in Words
    BY <2>1, Word
  <2> QED BY <2>2
<1>3. p = Pushed(v)
  BY DEF Pushed, Flags
<1> HIDE DEF w, u
<1>4. /\ p \in Seq(Words) /\ Len(p) = Len(u) + 5
      /\ \A i \in 1 .. 5 : p[i + Len(u)] = w[i]
      /\ \A i \in 1 .. Len(u) : p[i] = u[i]
  <2>1. /\ p \in Seq(Words) /\ Len(p) = Len(u) + Len(w)
        /\ \A i \in 1 .. Len(w) : p[i + Len(u)] = w[i]
        /\ \A i \in 1 .. Len(u) : p[i] = u[i]
    <3>1. u \in Seq(Words) /\ w \in Seq(Words)
      BY <1>1, <1>2
    <3> QED BY <3>1, Prefix
  <2> HIDE DEF p
  <2> QED BY <1>2, <2>1
<1> HIDE DEF p
<1>5. /\ e \in Seq(Words) /\ Len(e) = Len(p) + Len(s)
      /\ \A i \in 1 .. Len(p) : e[i] = p[i]
  <2>1. p \in Seq(Words)
    BY <1>4
  <2> QED BY <2>1, Prefix
<1> HIDE DEF e
<1>6. \A i \in 1 .. 5 : e[Len(u) + i] = w[i]
  <2> TAKE i \in 1 .. 5
  <2>1. i + Len(u) = Len(u) + i /\ Len(u) + i \in 1 .. Len(p)
    BY <1>1, <1>4
  <2> QED BY <1>4, <1>5, <2>1
<1>7. CpuWords(e, Len(u), Flags)
  BY SMTT(30), <1>2, <1>6 DEF CpuWords
<1>8. Len(s) \in Nat
  BY LenProperties
<1>9. Len(e) = Len(u) + 5 + Len(s)
  BY <1>1, <1>4, <1>5, <1>8
<1>10. Len(u) = 1 => e[1][1] = "error"
  <2>1. Len(u) = 1 => 1 \in 1 .. Len(u) /\ 1 \in 1 .. Len(p)
    BY <1>4
  <2> QED BY <1>1, <1>4, <1>5, <2>1
<1> QED BY <1>1, <1>3, <1>5, <1>7, <1>9, <1>10 DEF u, e

-----------------------------------------------------------------------------
(* The inductive invariant. *)

Setup == {"gates", "syscall", "pic", "time", "keyboard", "lidt", "sti"}
Framed == {"isr", "irq", "irq_return", "switch_return", "syscall_handle", "syscall_return"}
Places == Setup \cup Framed \cup {"kernel", "stub", "halted", "exited"}
IrqVectors == 32 .. 47

None == [c \in Chips |-> {}]

Types == /\ at \in Places /\ int_flag \in BOOLEAN /\ focus_interrupt \in BOOLEAN
         /\ idt_entries \in [Vectors -> Nat] /\ DOMAIN handlers = Vectors
         /\ irr \in [Chips -> SUBSET (0 .. 7)] /\ isr \in [Chips -> SUBSET (0 .. 7)]
         /\ stack \in Seq(Words) /\ reg \in [Registers -> Words]
         /\ int_flag <=> at = "kernel"

\* What idt_init has done so far.
Tables ==
    /\ at # "gates" => \A v \in 0 .. 47 : idt_entries[v] = v
    /\ at \notin {"gates", "syscall"} => idt_entries[SYSCALL] = SYSCALL
    /\ at \notin {"gates", "syscall", "pic"} => base["master"] = 32 /\ base["slave"] = 40
    /\ at \notin {"gates", "syscall", "pic", "time"} => handlers[32] = "irq_time_handle"
    /\ at \notin {"gates", "syscall", "pic", "time", "keyboard"} =>
          handlers[33] = "keyboard_handle"
    /\ at \notin Setup \ {"sti"} => idt_desc

\* Which vectors are served where.
Served ==
    /\ at \in Setup => code = 0
    /\ at \in {"irq", "irq_return", "switch_return"} => code \in IrqVectors
    /\ at \in {"syscall_handle", "syscall_return"} => code = SYSCALL
    /\ at = "isr" => code \in Faults
    /\ at = "stub" => code \in Faults \cup IrqVectors \cup {SYSCALL}

\* At most one level of each controller is in service, and only on the way to
\* irq_handle; what is owed is the line being served.
InService ==
    /\ at \in {"stub", "irq"} /\ code \in IrqVectors =>
          /\ \A c \in Chips : \E n \in 0 .. 7 : isr[c] \subseteq {n}
          /\ code < 40 => isr["slave"] = {}
          /\ owed \subseteq {code - 32} \cap {0, 1}
    /\ at \in Setup \cup {"kernel", "irq_return", "switch_return", "syscall_handle",
                       "syscall_return"}
            \/ (at = "stub" /\ code = SYSCALL) =>
          isr = None /\ owed = {}
    /\ focus_interrupt => \/ at \in {"isr", "halted"}
                          \/ at = "stub" /\ code \in Faults

\* The words a handler finds.
FrameWords(s, c) ==
    /\ Len(s) >= 27
    /\ \A i \in 1 .. 4 : s[i][1] = cpu_register_t[i]
    /\ s[9][1] = "rsp" /\ s[21] = <<"code", c>> /\ s[22][1] = "error"
    /\ \E f \in {0, 1} : CpuWords(s, 22, f)
    /\ c >= 32 => /\ Len(s) = 27 /\ s[9] = <<"rsp", 18>> /\ CpuWords(s, 22, 1)
                  /\ \A i \in RegisterWords : s[i] = <<cpu_register_t[i], 0>>

StackShape ==
    /\ at \in Setup \cup {"kernel"} => stack = << >>
    /\ at = "stub" =>
          /\ Len(stack) >= Len(ErrorCode(code)) + 5
          /\ \E f \in {0, 1} : CpuWords(stack, Len(ErrorCode(code)), f)
          /\ Len(ErrorCode(code)) = 1 => stack[1][1] = "error"
          /\ code >= 32 => /\ Len(stack) = 5 /\ CpuWords(stack, 0, 1)
                           /\ \A r \in Registers : reg[r] = <<r, 0>>
    /\ at \in Framed => FrameWords(stack, code)
    /\ at \in {"syscall_handle", "syscall_return"} =>
          \A r \in Registers \ Scratch : reg[r] = <<r, 0>>
    /\ at = "kernel" /\ code # 0 =>
          \A r \in Registers \ {"rsp"} : reg[r] = <<r, 0>> \/ (code = SYSCALL /\ r \in Scratch)

IInv == Types /\ Tables /\ Served /\ InService /\ StackShape

\* The firmware's state, before idt_init.
LEMMA InitIInv == Init => IInv
<1> SUFFICES ASSUME Init PROVE IInv
  OBVIOUS
<1>1. at = "gates" /\ int_flag = FALSE /\ focus_interrupt = FALSE /\ code = 0 /\ owed = {}
      /\ isr = None /\ stack = << >>
  BY DEF Init, None
<1>2. reg \in [Registers -> Words]
  BY Word DEF Init
<1>3. Types
  <2>0. stack \in Seq(Words) /\ at \in Places /\ at # "kernel"
    BY <1>1 DEF Places, Setup
  <2>0a. int_flag \in BOOLEAN /\ ~int_flag /\ focus_interrupt \in BOOLEAN
    BY <1>1
  <2>1. idt_entries \in [Vectors -> Nat] /\ DOMAIN handlers = Vectors
    BY DEF Init, NoGate
  <2>2. irr \in [Chips -> SUBSET (0 .. 7)] /\ isr \in [Chips -> SUBSET (0 .. 7)]
    BY DEF Init
  <2> QED BY <1>2, <2>0, <2>0a, <2>1, <2>2 DEF Types
<1> QED BY <1>1, <1>3 DEF IInv, Tables, Served, InService, StackShape, Setup, Framed

\* A statement of idt_init: it changes at, the tables and the controllers only.
LEMMA SetupStep ==
    ASSUME IInv, idt_init
    PROVE  IInv'
<1>1. /\ at \in Setup /\ UNCHANGED <<focus_interrupt, stack, reg, code, owed>>
      /\ \/ at' \in Setup /\ int_flag' = int_flag
         \/ at' = "kernel" /\ int_flag' = TRUE
  <2>1. at \in Setup
    BY DEF idt_init, InstallGates, interrupt_setEntry, pic_remapped, time_init, keyboard_init,
           idt_install, Sti, Setup
  <2>2. still
    BY DEF idt_init, InstallGates, interrupt_setEntry, pic_remapped, time_init, keyboard_init,
           idt_install, Sti, interrupt_register
  <2>3. \/ at' \in Setup /\ int_flag' = int_flag
        \/ at' = "kernel" /\ int_flag' = TRUE
    BY DEF idt_init, InstallGates, interrupt_setEntry, pic_remapped, time_init, keyboard_init,
           idt_install, Sti, interrupt_register, Setup
  <2> QED BY <2>1, <2>2, <2>3 DEF still
<1>2. /\ code = 0 /\ isr = None /\ owed = {} /\ stack = << >> /\ ~focus_interrupt
  BY <1>1 DEF IInv, Served, InService, StackShape, Types, Setup
<1>3. isr' = None
  BY <1>2 DEF idt_init, InstallGates, interrupt_setEntry, pic_remapped, time_init, keyboard_init,
         idt_install, Sti, interrupt_register, pic, None
<1>4. Served' /\ InService' /\ StackShape'
  BY <1>1, <1>2, <1>3 DEF Served, InService, StackShape, Setup, Framed
<1>5. irr' \in [Chips -> SUBSET (0 .. 7)]
  <2>1. irr' = irr \/ irr' = [c \in Chips |-> {}]
    BY DEF idt_init, InstallGates, interrupt_setEntry, pic_remapped, time_init, keyboard_init,
           idt_install, Sti, interrupt_register, pic
  <2> QED BY <2>1 DEF IInv, Types
<1>6. /\ idt_entries' \in [Vectors -> Nat] /\ DOMAIN handlers' = Vectors
  <2>1. idt_entries \in [Vectors -> Nat] /\ DOMAIN handlers = Vectors
    BY DEF IInv, Types
  <2>2. \/ idt_entries' = idt_entries
        \/ idt_entries' = [v \in Vectors |-> IF v < 48 THEN v ELSE idt_entries[v]]
        \/ idt_entries' = [idt_entries EXCEPT ![SYSCALL] = SYSCALL]
    BY DEF idt_init, InstallGates, interrupt_setEntry, pic_remapped, time_init, keyboard_init,
           idt_install, Sti, interrupt_register, tables
  <2>3. \/ handlers' = handlers
        \/ handlers' = [v \in Vectors |-> IF v < 48 THEN "none" ELSE handlers[v]]
        \/ \E i, h : handlers' = [handlers EXCEPT ![i] = h]
    BY DEF idt_init, InstallGates, interrupt_setEntry, pic_remapped, time_init, keyboard_init,
           idt_install, Sti, interrupt_register, tables
  <2>4. \A v \in Vectors : v \in Nat
    BY DEF Vectors
  <2>5. idt_entries' \in [Vectors -> Nat]
    BY <2>1, <2>2, <2>4 DEF SYSCALL
  <2>6. DOMAIN handlers' = Vectors
    BY <2>1, <2>3
  <2> QED BY <2>5, <2>6
<1>7. isr' \in [Chips -> SUBSET (0 .. 7)]
  BY <1>3 DEF None
<1>8. Types'
  <2>1. at' \in Places /\ int_flag' \in BOOLEAN /\ (int_flag' <=> at' = "kernel")
    <3>1. int_flag \in BOOLEAN /\ ~int_flag
      BY <1>1 DEF IInv, Types, Setup
    <3>2. CASE at' \in Setup /\ int_flag' = int_flag
      <4>1. at' \in Places /\ at' # "kernel"
        BY <3>2 DEF Places, Setup
      <4> QED BY <3>1, <3>2, <4>1
    <3>3. CASE at' = "kernel" /\ int_flag' = TRUE
      BY <3>3 DEF Places
    <3> QED BY <1>1, <3>2, <3>3
  <2> QED BY <1>1, <1>5, <1>6, <1>7, <2>1 DEF IInv, Types
<1>9. Tables'
  <2>0. /\ idt_entries \in [Vectors -> Nat] /\ DOMAIN handlers = Vectors /\ Tables
        /\ 0 .. 47 \subseteq Vectors /\ SYSCALL \in Vectors /\ SYSCALL \notin 0 .. 47
        /\ 32 \in Vectors /\ 33 \in Vectors
    BY DEF IInv, Types, Vectors, SYSCALL
  <2>1. CASE InstallGates
    BY <2>0, <2>1 DEF InstallGates, Tables, Setup
  <2>2. CASE interrupt_setEntry
    BY <2>0, <2>2 DEF interrupt_setEntry, Tables, Setup
  <2>3. CASE pic_remapped
    BY <2>0, <2>3 DEF pic_remapped, Tables, Setup, tables, Chips
  <2>4. CASE time_init
    BY <2>0, <2>4 DEF time_init, interrupt_register, Tables, Setup, pic
  <2>5. CASE keyboard_init
    BY <2>0, <2>5 DEF keyboard_init, interrupt_register, Tables, Setup, pic
  <2>6. CASE idt_install
    <3>1. at = "lidt" /\ at' = "sti" /\ UNCHANGED <<idt_entries, handlers, base>>
      BY <2>6 DEF idt_install, pic
    <3>2. idt_desc'
      BY <2>6, Zenon DEF idt_install
    <3> QED BY <2>0, <3>1, <3>2 DEF Tables, Setup
  <2>7. CASE Sti
    BY <2>0, <2>7 DEF Sti, Tables, Setup, pic, tables
  <2> QED BY <2>1, <2>2, <2>3, <2>4, <2>5, <2>6, <2>7 DEF idt_init
<1> QED BY <1>4, <1>8, <1>9 DEF IInv

\* What a gate does, whichever interrupt it is: the stub starts on its words.
LEMMA TakeStep ==
    ASSUME IInv, NEW v \in Faults \cup IrqVectors \cup {SYSCALL}, Take(v),
           at \in {"kernel", "irq", "syscall_handle", "isr"},
           v \notin Faults => at = "kernel"
    PROVE  /\ at' = "stub" /\ int_flag' = FALSE /\ code' = v
           /\ stack' \in Seq(Words) /\ reg' \in [Registers -> Words]
           /\ UNCHANGED <<tables, focus_interrupt, base>>
           /\ StackShape' /\ Tables' /\ Served'
<1>1. /\ code' = v /\ stack' = Pushed(v) \o stack /\ int_flag' = FALSE
      /\ at' = (IF idt_desc /\ idt_entries[v] # NoGate THEN "stub" ELSE "lost")
      /\ reg' = (IF at = "kernel" THEN [r \in Registers |-> <<r, 0>>] ELSE reg)
      /\ UNCHANGED <<tables, focus_interrupt, base>>
  BY DEF Take
<1>2. v \in Nat /\ (v \in Faults <=> v < 32) /\ (v \notin Faults => ErrorCode(v) = << >>)
  BY LinesAssumption DEF IrqVectors, SYSCALL, ErrorCode
<1>3. /\ Types /\ Tables /\ at \notin Setup
  BY DEF IInv, Setup
<1>4. idt_desc /\ idt_entries[v] # NoGate
  <2>1. v \in 0 .. 47 \/ v = SYSCALL
    BY LinesAssumption DEF IrqVectors
  <2>2. idt_desc
    BY <1>3, Zenon DEF Tables
  <2>3. idt_entries[v] = v
    BY <1>3, <2>1 DEF Tables, Setup
  <2> QED BY <2>1, <2>2, <2>3 DEF NoGate, SYSCALL
<1>5. at' = "stub"
  BY <1>1, <1>4
<1>6. stack \in Seq(Words) /\ reg' \in [Registers -> Words]
  BY <1>1, <1>3, Word DEF Types
<1>7. /\ stack' \in Seq(Words) /\ Len(stack') = Len(ErrorCode(v)) + 5 + Len(stack)
      /\ CpuWords(stack', Len(ErrorCode(v)), Flags) /\ Len(ErrorCode(v)) \in {0, 1}
      /\ Len(ErrorCode(v)) = 1 => stack'[1][1] = "error"
  BY <1>1, <1>2, <1>6, PushedWords
<1>8. Len(stack) \in Nat /\ Flags \in {0, 1}
  BY <1>6, LenProperties DEF Flags
<1>9. ASSUME v >= 32
      PROVE  Len(stack') = 5 /\ CpuWords(stack', 0, 1) /\ \A r \in Registers : reg'[r] = <<r, 0>>
  <2>1. v \notin Faults /\ at = "kernel" /\ stack = << >> /\ int_flag
    BY <1>2, <1>3, <1>9 DEF IInv, StackShape, Types
  <2>2. Len(ErrorCode(v)) = 0 /\ Len(stack) = 0 /\ Flags = 1
    BY <1>2, <2>1 DEF Flags
  <2>3. Len(stack') = 5 /\ CpuWords(stack', 0, 1)
    BY <1>7, <2>2
  <2> QED BY <1>1, <2>1, <2>3
<1>10. StackShape'
  <2>1. Len(stack') >= Len(ErrorCode(v)) + 5
    BY <1>7, <1>8
  <2>2. \E f \in {0, 1} : CpuWords(stack', Len(ErrorCode(v)), f)
    BY <1>7, <1>8
  <2>3. /\ ErrorCode(code)' = ErrorCode(v)
        /\ \A n, f : CpuWords(stack, n, f)' <=> CpuWords(stack', n, f)
    BY <1>1 DEF ErrorCode, CpuWords
  <2> QED BY <1>1, <1>5, <1>7, <1>9, <2>1, <2>2, <2>3 DEF StackShape, Setup, Framed
<1>11. Tables'
  <2>1. UNCHANGED <<idt_entries, handlers, base>> /\ (idt_desc' <=> idt_desc)
    BY <1>1 DEF tables
  <2> QED BY <1>3, <1>5, <2>1 DEF IInv, Tables, Setup
<1>12. Served'
  BY <1>1, <1>5 DEF Served, Setup
<1> QED BY <1>1, <1>5, <1>6, <1>7, <1>10, <1>11, <1>12

\* The processor takes vector v while nothing is in service; h is what is in
\* service afterwards, o what is owed.
LEMMA IrqTaken ==
    ASSUME IInv, at = "kernel", NEW v \in IrqVectors, Take(v),
           irr' \in [Chips -> SUBSET (0 .. 7)], isr' \in [Chips -> SUBSET (0 .. 7)],
           \A c \in Chips : \E n \in 0 .. 7 : isr'[c] \subseteq {n},
           v < 40 => isr'["slave"] = {},
           owed' \subseteq {v - 32} \cap {0, 1}
    PROVE  IInv'
<1>1. /\ at' = "stub" /\ int_flag' = FALSE /\ code' = v
      /\ stack' \in Seq(Words) /\ reg' \in [Registers -> Words]
      /\ UNCHANGED <<tables, focus_interrupt, base>>
      /\ StackShape' /\ Tables' /\ Served'
  BY TakeStep
<1>2. v \notin Faults /\ v # SYSCALL
  BY LinesAssumption DEF IrqVectors, SYSCALL
<1>3. ~focus_interrupt /\ focus_interrupt \in BOOLEAN
  BY DEF IInv, InService, Types
<1>4. InService'
  BY <1>1, <1>2, <1>3 DEF InService, Setup
<1>5. Types'
  BY <1>1, <1>3 DEF IInv, Types, Places, tables
<1> QED BY <1>1, <1>4, <1>5 DEF IInv

\* In the kernel, with the gates set, nothing is in service.
LEMMA Empty ==
    ASSUME IInv, at = "kernel"
    PROVE  /\ isr = None /\ owed = {} /\ base["master"] = 32 /\ base["slave"] = 40
           /\ irr \in [Chips -> SUBSET (0 .. 7)] /\ isr \in [Chips -> SUBSET (0 .. 7)]
           /\ isr["master"] = {} /\ isr["slave"] = {}
BY ZenonT(30) DEF IInv, InService, Tables, Types, None, Chips

\* The processor takes the request of highest priority.
LEMMA DeliverStep ==
    ASSUME IInv, Deliver
    PROVE  IInv'
<1>1. at = "kernel"
  BY DEF Deliver, IInv, Types
<1>2. /\ isr = None /\ owed = {} /\ base["master"] = 32 /\ base["slave"] = 40
      /\ irr \in [Chips -> SUBSET (0 .. 7)] /\ isr \in [Chips -> SUBSET (0 .. 7)]
      /\ isr["master"] = {} /\ isr["slave"] = {}
  BY <1>1, Empty
<1>3. ASSUME NEW chip \in Chips, NEW n \in 0 .. 7, Serve(chip, n)
      PROVE  /\ irr' \in [Chips -> SUBSET (0 .. 7)] /\ isr' \in [Chips -> SUBSET (0 .. 7)]
             /\ \A c \in Chips : \E m \in 0 .. 7 : isr'[c] \subseteq {m}
             /\ chip = "master" => isr'["slave"] = {}
  <2>1. isr' = [c \in Chips |-> IF c = chip THEN {n} ELSE IF chip = "slave" THEN {2} ELSE {}]
    BY <1>2, <1>3 DEF Serve, Chips
  <2>2. irr' = [irr EXCEPT ![chip] = @ \ {n}]
    BY <1>3 DEF Serve
  <2>3. irr' \in [Chips -> SUBSET (0 .. 7)]
    BY <1>2, <2>2
  <2> QED BY <2>1, <2>3 DEF Chips
<1>4. ASSUME NEW n \in Lowest(MasterPending) \ {2}, Serve("master", n),
             Accept(n, base["master"] + n)
      PROVE  IInv'
  <2>1. n \in 0 .. 7
    BY <1>2 DEF Lowest, MasterPending, Pending, Chips
  <2>2. 32 + n \in IrqVectors /\ 32 + n < 40 /\ (32 + n) - 32 = n
    BY <2>1 DEF IrqVectors
  <2>3. Take(32 + n) /\ owed' = {n} \cap {0, 1}
    BY <1>2, <1>4 DEF Accept
  <2>4. "master" \in Chips
    BY DEF Chips
  <2> DEFINE v == 32 + n
  <2>5. /\ v \in IrqVectors /\ Take(v) /\ owed' \subseteq {v - 32} \cap {0, 1}
        /\ v < 40 => isr'["slave"] = {}
    BY <1>3, <1>4, <2>1, <2>2, <2>3, <2>4
  <2>6. /\ irr' \in [Chips -> SUBSET (0 .. 7)] /\ isr' \in [Chips -> SUBSET (0 .. 7)]
        /\ \A c \in Chips : \E m \in 0 .. 7 : isr'[c] \subseteq {m}
    BY <1>3, <1>4, <2>1, <2>4
  <2> HIDE DEF v
  <2> QED BY <1>1, <2>5, <2>6, IrqTaken
<1>5. ASSUME NEW n \in Lowest(Pending("slave")), Serve("slave", n),
             Accept(n + 8, base["slave"] + n)
      PROVE  IInv'
  <2>1. n \in 0 .. 7
    BY <1>2 DEF Lowest, Pending, Chips
  <2>2. 40 + n \in IrqVectors /\ ~(40 + n < 40)
    BY <2>1 DEF IrqVectors
  <2>3. Take(40 + n) /\ owed' = {}
    BY <1>2, <1>5, <2>1 DEF Accept
  <2>4. "slave" \in Chips
    BY DEF Chips
  <2> DEFINE v == 40 + n
  <2>5. /\ v \in IrqVectors /\ Take(v) /\ owed' \subseteq {v - 32} \cap {0, 1}
        /\ v < 40 => isr'["slave"] = {}
    BY <2>2, <2>3
  <2>6. /\ irr' \in [Chips -> SUBSET (0 .. 7)] /\ isr' \in [Chips -> SUBSET (0 .. 7)]
        /\ \A c \in Chips : \E m \in 0 .. 7 : isr'[c] \subseteq {m}
    BY <1>3, <1>5, <2>1, <2>4
  <2> HIDE DEF v
  <2> QED BY <1>1, <2>5, <2>6, IrqTaken
<1> QED BY <1>4, <1>5 DEF Deliver

\* A spurious interrupt: level 7 of a controller, which does not put it in service.
LEMMA SpuriousStep ==
    ASSUME IInv, NEW chip \in Chips, Spurious(chip)
    PROVE  IInv'
<1>1. at = "kernel"
  BY DEF Spurious, IInv, Types
<1>2. /\ isr = None /\ owed = {} /\ base["master"] = 32 /\ base["slave"] = 40
      /\ irr \in [Chips -> SUBSET (0 .. 7)] /\ isr \in [Chips -> SUBSET (0 .. 7)]
      /\ isr["master"] = {} /\ isr["slave"] = {}
  BY <1>1, Empty
<1> DEFINE v == base[chip] + 7
<1>3. /\ Take(v) /\ owed' = {} /\ irr' = irr
      /\ isr' = [isr EXCEPT !["master"] = IF chip = "slave" THEN {2} ELSE {}]
  BY <1>2 DEF Spurious, Accept
<1>4. v \in IrqVectors
  BY <1>2 DEF Chips, IrqVectors
<1>5. /\ isr' \in [Chips -> SUBSET (0 .. 7)]
      /\ \A c \in Chips : \E n \in 0 .. 7 : isr'[c] \subseteq {n}
      /\ isr'["slave"] = {}
  <2>1. isr'["slave"] = {} /\ isr'["master"] \subseteq {2} /\ isr' \in [Chips -> SUBSET (0 .. 7)]
    BY <1>2, <1>3 DEF Chips
  <2> QED BY <2>1 DEF Chips
<1> HIDE DEF v
<1>6. irr' \in [Chips -> SUBSET (0 .. 7)] /\ owed' \subseteq {v - 32} \cap {0, 1}
  BY <1>2, <1>3
<1> QED BY <1>1, <1>3, <1>4, <1>5, <1>6, IrqTaken

\* int 0x80 pushes no error code.
LEMMA SyscallStep ==
    ASSUME IInv, Syscall
    PROVE  IInv'
<1>1. at = "kernel" /\ Take(SYSCALL) /\ UNCHANGED <<irr, isr, owed>>
  BY DEF Syscall
<1>2. /\ at' = "stub" /\ int_flag' = FALSE /\ code' = SYSCALL
      /\ stack' \in Seq(Words) /\ reg' \in [Registers -> Words]
      /\ UNCHANGED <<tables, focus_interrupt, base>>
      /\ StackShape' /\ Tables' /\ Served'
  BY <1>1, TakeStep
<1>3. SYSCALL \notin IrqVectors
  BY DEF IrqVectors, SYSCALL
<1>4. ~focus_interrupt /\ focus_interrupt \in BOOLEAN /\ isr = None /\ owed = {}
  BY <1>1 DEF IInv, InService, Types
<1>5. InService'
  BY <1>1, <1>2, <1>3, <1>4 DEF InService, Setup, None
<1>6. Types'
  BY <1>1, <1>2, <1>4 DEF IInv, Types, Places, tables
<1> QED BY <1>2, <1>5, <1>6 DEF IInv

\* An exception in the kernel or in a handler pushes its own frame.
LEMMA FaultStep ==
    ASSUME IInv, NEW v \in Faults, Fault(v)
    PROVE  IInv'
<1>1. at \in {"kernel", "irq", "syscall_handle", "isr"} /\ Take(v) /\ UNCHANGED <<irr, isr, owed>>
  BY DEF Fault
<1>2. /\ at' = "stub" /\ int_flag' = FALSE /\ code' = v
      /\ stack' \in Seq(Words) /\ reg' \in [Registers -> Words]
      /\ UNCHANGED <<tables, focus_interrupt, base>>
      /\ StackShape' /\ Tables' /\ Served'
  BY <1>1, TakeStep
<1>3. v \notin IrqVectors /\ v # SYSCALL
  BY LinesAssumption DEF IrqVectors, SYSCALL
<1>4. InService'
  BY <1>2, <1>3 DEF InService, Setup
<1>5. Types'
  BY <1>1, <1>2 DEF IInv, Types, Places, tables
<1> QED BY <1>2, <1>4, <1>5 DEF IInv

\* A device raises a line.
LEMMA RaiseStep ==
    ASSUME IInv, NEW n \in Lines, Raise(n)
    PROVE  IInv'
<1>1. /\ irr' = [irr EXCEPT ![IF n < 8 THEN "master" ELSE "slave"] = @ \cup {n % 8}]
      /\ UNCHANGED <<at, int_flag, idt_entries, idt_desc, handlers, focus_interrupt, isr, base,
                    stack, reg, code, owed>>
  BY DEF Raise, tables
<1>2. n % 8 \in 0 .. 7
  BY LinesAssumption
<1>3. irr' \in [Chips -> SUBSET (0 .. 7)]
  BY <1>1, <1>2 DEF IInv, Types
<1>4. Types'
  BY <1>1, <1>3 DEF IInv, Types
<1>5. Tables' /\ Served'
  BY <1>1 DEF IInv, Tables, Served
<1>6. InService'
  BY <1>1 DEF IInv, InService, None
<1>7. StackShape'
  BY ZenonT(60), <1>1 DEF IInv, StackShape, FrameWords, CpuWords, ErrorCode
<1> QED BY <1>4, <1>5, <1>6, <1>7 DEF IInv

-----------------------------------------------------------------------------
(* The stubs and the handlers. *)

\* The stub's own words, above what the processor pushed, end up two words deep.
LEMMA StubWords ==
    ASSUME NEW v \in Nat, v < 48 \/ v = SYSCALL, v \notin {17, 21, 29, 30},
           NEW s \in Seq(Words), Len(s) >= Len(ErrorCode(v)) + 5,
           Len(ErrorCode(v)) = 1 => s[1][1] = "error"
    PROVE  LET e == Stub(v) \o s
           IN  /\ e \in Seq(Words) /\ e[1] = <<"code", v>> /\ e[2][1] = "error"
               /\ Len(e) = Len(s) + 2 - Len(ErrorCode(v))
               /\ \A f : CpuWords(s, Len(ErrorCode(v)), f) => CpuWords(e, 2, f)
<1> DEFINE u == Stub(v)
           m == Len(ErrorCode(v))
           e == u \o s
<1>1. m \in {0, 1} /\ (m = 1 <=> v \in {8} \cup 10 .. 14)
  BY DEF ErrorCode
<1>2. u \in Seq(Words) /\ Len(u) = 2 - m /\ u[1] = <<"code", v>>
      /\ (m = 0 => u[2][1] = "error")
  <2>1. CASE v \in {8} \cup 10 .. 14
    <3>1. <<"code", v>> \in Words
      BY Word
    <3>2. u = <<<<"code", v>>>> /\ m = 1
      BY <1>1, <2>1 DEF Stub, isr_error
    <3> QED BY <3>1, <3>2
  <2>2. CASE v \notin {8} \cup 10 .. 14
    <3>1. m = 0
      BY <1>1, <2>2
    <3>2. \E x \in Nat : u = <<<<"code", v>>, <<"error", x>>>>
      BY <2>2 DEF Stub, isr_no_error, irq__, SYSCALL
    <3>3. PICK x \in Nat : u = <<<<"code", v>>, <<"error", x>>>>
      BY <3>2
    <3>4. <<"code", v>> \in Words /\ <<"error", x>> \in Words
      BY Word
    <3> QED BY <3>1, <3>3, <3>4
  <2> QED BY <2>1, <2>2
<1> HIDE DEF u
<1>3. /\ e \in Seq(Words) /\ Len(e) = Len(u) + Len(s)
      /\ \A i \in 1 .. Len(u) : e[i] = u[i]
      /\ \A i \in 1 .. Len(s) : e[i + Len(u)] = s[i]
  <2>1. u \in Seq(Words)
    BY <1>2
  <2> QED BY <2>1, Prefix
<1>4. Len(s) \in Nat /\ Len(s) >= m + 5
  BY LenProperties
<1> HIDE DEF e, m
<1>5. e[1] = <<"code", v>> /\ Len(e) = Len(s) + 2 - m
  <2>1. 1 \in 1 .. Len(u)
    BY <1>1, <1>2
  <2> QED BY <1>1, <1>2, <1>3, <1>4, <2>1
<1>5a. e[2][1] = "error"
  <2>1. CASE m = 0
    <3>1. 2 \in 1 .. Len(u)
      BY <1>2, <2>1
    <3> QED BY <1>2, <1>3, <2>1, <3>1
  <2>2. CASE m = 1
    <3>1. 1 \in 1 .. Len(s) /\ 1 + Len(u) = 2
      BY <1>2, <1>4, <2>2
    <3>2. e[1 + Len(u)] = s[1] /\ s[1][1] = "error"
      BY <1>3, <2>2, <3>1 DEF m
    <3> QED BY <3>1, <3>2
  <2> QED BY <1>1, <2>1, <2>2
<1>6. \A k \in 1 .. 5 : e[2 + k] = s[m + k]
  <2> TAKE k \in 1 .. 5
  <2> DEFINE i == m + k
  <2>1. i \in 1 .. Len(s) /\ i + Len(u) = 2 + k
    BY <1>1, <1>2, <1>4
  <2> HIDE DEF i
  <2>2. e[i + Len(u)] = s[i]
    BY <1>3, <2>1
  <2> QED BY <2>1, <2>2 DEF i
<1> HIDE DEF m
<1>7. ASSUME NEW f, CpuWords(s, m, f)
      PROVE  CpuWords(e, 2, f)
  BY SMTT(30), <1>6, <1>7 DEF CpuWords
<1> QED BY <1>3, <1>5, <1>5a, <1>7 DEF u, e, m

\* The frame a handler is given.
LEMMA FrameMade ==
    ASSUME NEW v \in Nat, v < 48 \/ v = SYSCALL, v \notin {17, 21, 29, 30},
           NEW s \in Seq(Words), Len(s) >= Len(ErrorCode(v)) + 5,
           reg \in [Registers -> Words],
           \E f \in {0, 1} : CpuWords(s, Len(ErrorCode(v)), f),
           Len(ErrorCode(v)) = 1 => s[1][1] = "error",
           v >= 32 => /\ Len(s) = 5 /\ CpuWords(s, 0, 1)
                      /\ \A r \in Registers : reg[r] = <<r, 0>>
    PROVE  PUSHX64(Stub(v) \o s) \in Seq(Words) /\ FrameWords(PUSHX64(Stub(v) \o s), v)
<1> DEFINE e == Stub(v) \o s
           w == PUSHX64(e)
<1>0. /\ e \in Seq(Words) /\ e[1] = <<"code", v>> /\ e[2][1] = "error"
      /\ Len(e) = Len(s) + 2 - Len(ErrorCode(v))
      /\ \A f : CpuWords(s, Len(ErrorCode(v)), f) => CpuWords(e, 2, f)
  BY StubWords
<1>1. /\ Len(ErrorCode(v)) \in {0, 1} /\ Len(s) \in Nat
      /\ v >= 32 => Len(ErrorCode(v)) = 0
  BY LenProperties DEF ErrorCode, SYSCALL
<1> HIDE DEF e
<1> DEFINE m == Len(ErrorCode(v))
<1>1a. /\ m \in {0, 1} /\ Len(s) \in Nat /\ (v >= 32 => m = 0) /\ (v >= 32 => Len(s) = 5)
       /\ Len(e) = Len(s) + 2 - m /\ Len(s) >= m + 5
  BY <1>0, <1>1
<1> HIDE DEF m
<1>2. /\ w \in Seq(Words) /\ Len(w) = Len(e) + 20
      /\ \A i \in 1 .. 4 : w[i][1] = cpu_register_t[i]
      /\ w[9] = <<"rsp", Len(e) + 11>>
      /\ \A i \in RegisterWords : w[i] = reg[cpu_register_t[i]]
      /\ \A i \in 1 .. Len(e) : w[i + 20] = e[i]
  BY <1>0, Pushx64
<1> HIDE DEF w
<1>3. Len(e) >= 7 /\ Len(e) \in Nat /\ (v >= 32 => Len(e) = 7)
  <2> DEFINE a == Len(s)
             b == Len(e)
  <2>1. m \in {0, 1} /\ a \in Nat /\ b = a + 2 - m /\ a >= m + 5
    BY <1>1a
  <2>2. v >= 32 => m = 0 /\ a = 5
    BY <1>1a
  <2> HIDE DEF a, b
  <2>3. b \in Nat /\ b >= 7
    BY <2>1
  <2>4. v >= 32 => b = 7
    BY <2>1, <2>2
  <2> QED BY <2>3, <2>4 DEF b
<1>4. Len(w) >= 27 /\ (v >= 32 => Len(w) = 27 /\ w[9] = <<"rsp", 18>>)
  <2> DEFINE b == Len(e)
             a == Len(w)
  <2>1. b >= 7 /\ b \in Nat /\ (v >= 32 => b = 7) /\ a = b + 20
    BY <1>2, <1>3
  <2> HIDE DEF a, b
  <2>2. a >= 27 /\ (v >= 32 => a = 27 /\ b + 11 = 18)
    BY <2>1
  <2> QED BY <1>2, <2>2 DEF a, b
<1>5. w[9][1] = "rsp" /\ w[21] = <<"code", v>>
  <2>1. 1 \in 1 .. Len(e) /\ 1 + 20 = 21
    BY <1>3
  <2>2. w[1 + 20] = e[1]
    BY <1>2, <2>1
  <2> QED BY SMTT(30), <1>0, <1>2, <2>1, <2>2
<1>5a. w[22][1] = "error"
  <2>1. 2 \in 1 .. Len(e) /\ 2 + 20 = 22
    BY <1>3
  <2>2. w[2 + 20] = e[2]
    BY <1>2, <2>1
  <2> QED BY <1>0, <2>1, <2>2
<1>6. ASSUME NEW f, CpuWords(e, 2, f)
      PROVE  CpuWords(w, 22, f)
  <2>1. \A k \in 1 .. 5 : w[22 + k] = e[2 + k]
    <3> TAKE k \in 1 .. 5
    <3> DEFINE i == 2 + k
    <3>1. i \in 1 .. Len(e) /\ i + 20 = 22 + k
      BY <1>3
    <3> HIDE DEF i
    <3>2. w[i + 20] = e[i]
      BY <1>2, <3>1
    <3> QED BY <3>1, <3>2 DEF i
  <2> QED BY SMTT(60), <1>6, <2>1 DEF CpuWords
<1>7. \E f \in {0, 1} : CpuWords(w, 22, f)
  BY <1>0, <1>6
<1>8. v >= 32 => CpuWords(w, 22, 1)
  BY <1>0, <1>1, <1>6
<1>9. v >= 32 => \A i \in RegisterWords : w[i] = <<cpu_register_t[i], 0>>
  <2>1. \A i \in RegisterWords : cpu_register_t[i] \in Registers
    BY RegisterWord
  <2> QED BY <1>2, <2>1
<1>10. FrameWords(w, v)
  BY <1>2, <1>4, <1>5, <1>5a, <1>7, <1>8, <1>9 DEF FrameWords
<1> QED BY <1>2, <1>10 DEF e, w

\* The stub pushes the registers and the code (idt.asm).
LEMMA EnterStep ==
    ASSUME IInv, Enter
    PROVE  IInv'
<1>1. /\ at = "stub" /\ UNCHANGED <<int_flag, tables, focus_interrupt, pic, code, owed>>
      /\ stack' = PUSHX64(Stub(idt_entries[code]) \o stack)
      /\ reg' = (IF idt_entries[code] = SYSCALL THEN [reg EXCEPT !["rax"] = reg["rcx"]]
                 ELSE [reg EXCEPT !["rax"] = <<"cr4", 0>>, !["rdi"] = <<"frame", 0>>])
      /\ at' = (IF idt_entries[code] < 32 THEN "isr"
                ELSE IF idt_entries[code] < 48 THEN "irq" ELSE "syscall_handle")
  BY DEF Enter
<1>2. Types /\ Tables /\ Served /\ InService /\ StackShape
  BY DEF IInv
<1>3. /\ code \in Faults \cup IrqVectors \cup {SYSCALL}
      /\ code \in Nat /\ (code < 48 \/ code = SYSCALL) /\ code \notin {17, 21, 29, 30}
  BY <1>1, <1>2, LinesAssumption DEF Served, Setup, IrqVectors, SYSCALL
<1>4. idt_entries[code] = code
  BY <1>1, <1>2, <1>3 DEF Tables, Setup
<1>5. /\ stack \in Seq(Words) /\ reg \in [Registers -> Words]
      /\ Len(stack) >= Len(ErrorCode(code)) + 5
      /\ \E f \in {0, 1} : CpuWords(stack, Len(ErrorCode(code)), f)
      /\ Len(ErrorCode(code)) = 1 => stack[1][1] = "error"
      /\ code >= 32 => /\ Len(stack) = 5 /\ CpuWords(stack, 0, 1)
                       /\ \A r \in Registers : reg[r] = <<r, 0>>
  BY <1>1, <1>2 DEF Types, StackShape, Setup, Framed
<1>6. stack' \in Seq(Words) /\ FrameWords(stack', code)
  BY <1>1, <1>3, <1>4, <1>5, FrameMade
<1>7. /\ reg' \in [Registers -> Words]
      /\ code = SYSCALL => \A r \in Registers \ Scratch : reg'[r] = <<r, 0>>
  <2>1. <<"cr4", 0>> \in Words /\ <<"frame", 0>> \in Words /\ reg["rcx"] \in Words
    BY <1>5, Word, RegisterSet
  <2>2. reg' \in [Registers -> Words]
    BY <1>1, <1>5, <2>1
  <2>3. ASSUME code = SYSCALL, NEW r \in Registers \ Scratch
        PROVE  reg'[r] = <<r, 0>>
    <3>1. reg' = [reg EXCEPT !["rax"] = reg["rcx"]] /\ r # "rax"
      BY <1>1, <1>4, <2>3 DEF Scratch
    <3> QED BY <1>5, <2>3, <3>1 DEF SYSCALL
  <2> QED BY <2>2, <2>3
<1>8. /\ at' \in {"isr", "irq", "syscall_handle"}
      /\ at' = "isr" <=> code \in Faults
      /\ at' = "irq" <=> code \in IrqVectors
      /\ at' = "syscall_handle" <=> code = SYSCALL
  BY <1>1, <1>3, <1>4, LinesAssumption DEF IrqVectors, SYSCALL
<1>9. StackShape'
  <2>1. (\A r \in Registers \ Scratch : reg[r] = <<r, 0>>)'
          <=> \A r \in Registers \ Scratch : reg'[r] = <<r, 0>>
    OBVIOUS
  <2>2. FrameWords(stack, code)'
    BY <1>1, <1>6 DEF FrameWords, CpuWords
  <2> QED BY <1>1, <1>7, <1>8, <2>1, <2>2 DEF StackShape, Setup
<1>10. Tables'
  <2>1. UNCHANGED <<idt_entries, handlers, base>> /\ (idt_desc' <=> idt_desc)
    BY <1>1 DEF tables, pic
  <2> QED BY <1>1, <1>2, <1>8, <2>1 DEF Tables, Setup
<1>11. Served'
  BY <1>1, <1>8 DEF Served, Setup
<1>12. InService'
  <2>1. UNCHANGED <<isr, owed, code>> /\ (focus_interrupt' <=> focus_interrupt)
    BY <1>1 DEF pic
  <2>2. code \in Faults => code \notin IrqVectors /\ code # SYSCALL
    BY LinesAssumption DEF IrqVectors, SYSCALL
  <2> QED BY <1>1, <1>2, <1>8, <2>1, <2>2 DEF InService, Setup, None
<1>13. Types'
  BY <1>1, <1>2, <1>6, <1>7, <1>8 DEF Types, Places, Framed, tables, pic
<1> QED BY <1>9, <1>10, <1>11, <1>12, <1>13 DEF IInv

\* irq_handle acknowledges both controllers of the line it is called for.
LEMMA IrqHandleStep ==
    ASSUME IInv, irq_handle
    PROVE  IInv'
<1>1. Types /\ Tables /\ Served /\ InService /\ StackShape
  BY DEF IInv
<1>2. at = "irq" /\ at' \in {"irq_return", "switch_return"} /\ code \in IrqVectors
  BY <1>1 DEF irq_handle, Served
<1>3. stack[Field("interrupt_code")][2] = code
  BY <1>1, <1>2, FieldNames DEF StackShape, Framed, FrameWords
<1>4. /\ isr' = (IF code < 32 THEN isr ELSE pic_endofinterrupt(code - 32, isr))
      /\ owed' = (IF code < 32 \/ handlers[code] = "none" \/ focus_interrupt THEN owed
                  ELSE owed \ (IF handlers[code] = "irq_time_handle" THEN {0} ELSE {1}))
      /\ reg' = Called
      /\ UNCHANGED <<int_flag, tables, focus_interrupt, irr, base, stack, code>>
  BY <1>3 DEF irq_handle
<1>5. code \in Nat /\ ~(code < 32)
  BY <1>2 DEF IrqVectors
<1>6. /\ \A c \in Chips : \E n \in 0 .. 7 : isr[c] \subseteq {n}
      /\ code < 40 => isr["slave"] = {}
      /\ owed \subseteq {code - 32} \cap {0, 1} /\ ~focus_interrupt
  BY <1>1, <1>2 DEF InService, Setup
<1>7. isr' = None
  <2>1. ASSUME NEW c \in Chips
        PROVE  isr[c] \ Lowest(isr[c]) = {}
    <3>1. PICK n \in 0 .. 7 : isr[c] \subseteq {n}
      BY <1>6
    <3> QED BY <3>1 DEF Lowest
  <2>2. isr' = [c \in Chips |-> IF c = "master" \/ code - 32 >= 8
                                THEN isr[c] \ Lowest(isr[c]) ELSE isr[c]]
    BY <1>4, <1>5 DEF pic_endofinterrupt
  <2>3. ~(code - 32 >= 8) => code < 40
    BY <1>5
  <2>4. \A c \in Chips : c # "master" => c = "slave"
    BY DEF Chips
  <2> QED BY <1>6, <2>1, <2>2, <2>3, <2>4 DEF None
<1>8. owed' = {}
  <2>1. handlers[32] = "irq_time_handle" /\ handlers[33] = "keyboard_handle"
    BY <1>1, <1>2 DEF Tables
  <2>2. owed \subseteq {code - 32} \cap {0, 1} /\ code \in Nat
    BY <1>5, <1>6
  <2>3. owed' = (IF handlers[code] = "none" THEN owed
                 ELSE owed \ (IF handlers[code] = "irq_time_handle" THEN {0} ELSE {1}))
    BY <1>4, <1>5, <1>6
  <2>4. CASE code = 32
    BY <2>1, <2>2, <2>3, <2>4
  <2>5. CASE code = 33
    BY <2>1, <2>2, <2>3, <2>5
  <2>6. CASE code \notin {32, 33}
    <3>1. owed = {}
      BY <2>2, <2>6
    <3> QED BY <2>3, <3>1
  <2> QED BY <2>4, <2>5, <2>6
<1>9. reg' \in [Registers -> Words]
  BY <1>1, <1>4, Word DEF Called, Types
<1>10. Types'
  <2>1. isr' \in [Chips -> SUBSET (0 .. 7)]
    BY <1>7 DEF None
  <2> QED BY <1>1, <1>2, <1>4, <1>9, <2>1 DEF Types, Places, Framed, tables
<1>11. Tables'
  <2>1. UNCHANGED <<idt_entries, handlers, base>> /\ (idt_desc' <=> idt_desc)
    BY <1>4 DEF tables
  <2> QED BY <1>1, <1>2, <2>1 DEF Tables, Setup
<1>12. Served' /\ InService'
  BY <1>2, <1>4, <1>6, <1>7, <1>8 DEF Served, InService, Setup, None
<1>13. StackShape'
  <2>1. FrameWords(stack, code)
    BY <1>1, <1>2 DEF StackShape, Framed
  <2>2. FrameWords(stack, code)'
    BY <1>4, <2>1 DEF FrameWords, CpuWords
  <2> QED BY <1>2, <2>2 DEF StackShape, Setup
<1> QED BY <1>10, <1>11, <1>12, <1>13 DEF IInv

\* int_syscall sees the frame of its own type.
LEMMA SyscallHandleStep ==
    ASSUME IInv, syscall_handle
    PROVE  IInv'
<1>1. Types /\ Tables /\ Served /\ InService /\ StackShape
  BY DEF IInv
<1>2. /\ at = "syscall_handle" /\ at' \in {"syscall_return", "exited"} /\ reg' = Called
      /\ UNCHANGED <<int_flag, tables, focus_interrupt, pic, stack, code, owed>>
  BY DEF syscall_handle
<1>3. reg' \in [Registers -> Words]
  BY <1>1, <1>2, Word DEF Called, Types
<1>4. \A r \in Registers \ Scratch : reg'[r] = <<r, 0>>
  BY <1>1, <1>2 DEF StackShape, Called
<1>5. Types'
  BY <1>1, <1>2, <1>3 DEF Types, Places, Framed, tables, pic
<1>6. Tables'
  <2>1. UNCHANGED <<idt_entries, handlers, base>> /\ (idt_desc' <=> idt_desc)
    BY <1>2 DEF tables, pic
  <2> QED BY <1>1, <1>2, <2>1 DEF Tables, Setup
<1>7. Served' /\ InService'
  BY <1>1, <1>2 DEF Served, InService, Setup, None, pic
<1>8. StackShape'
  <2>1. FrameWords(stack, code)
    BY <1>1, <1>2 DEF StackShape, Framed
  <2>2. FrameWords(stack, code)'
    BY <1>2, <2>1 DEF FrameWords, CpuWords
  <2> QED BY <1>2, <1>4, <2>2 DEF StackShape, Setup
<1> QED BY <1>5, <1>6, <1>7, <1>8 DEF IInv

\* isr_handle prints and never returns.
LEMMA IsrHandleStep ==
    ASSUME IInv, isr_handle
    PROVE  IInv'
<1>1. Types /\ Tables /\ Served /\ InService /\ StackShape
  BY DEF IInv
<1>2. /\ at = "isr" /\ UNCHANGED <<int_flag, tables, pic, stack, reg, code, owed>>
      /\ at' \in {"isr", "halted"} /\ focus_interrupt' \in BOOLEAN
  BY <1>1 DEF isr_handle, Types
<1>3. Types'
  BY <1>1, <1>2 DEF Types, Places, Framed, tables, pic
<1>4. Tables'
  <2>1. UNCHANGED <<idt_entries, handlers, base>> /\ (idt_desc' <=> idt_desc)
    BY <1>2 DEF tables, pic
  <2> QED BY <1>1, <1>2, <2>1 DEF Tables, Setup
<1>5. Served' /\ InService'
  BY <1>1, <1>2 DEF Served, InService, Setup
<1>6. StackShape'
  <2>1. FrameWords(stack, code)
    BY <1>1, <1>2 DEF StackShape, Framed
  <2>2. FrameWords(stack, code)'
    BY <1>2, <2>1 DEF FrameWords, CpuWords
  <2> QED BY <1>2, <2>2 DEF StackShape, Setup
<1> QED BY <1>3, <1>4, <1>5, <1>6 DEF IInv

\* The elements of a stack after words were popped.
LEMMA FromWords ==
    ASSUME NEW s \in Seq(Words), NEW i \in 1 .. Len(s) + 1
    PROVE  /\ From(s, i) \in Seq(Words) /\ Len(From(s, i)) = Len(s) - i + 1
           /\ \A j \in 1 .. Len(s) - i + 1 : From(s, i)[j] = s[i + j - 1]
BY LenProperties, SubSeqProperties DEF From

\* iretq on the five words of a kernel that was interrupted with interrupts on.
LEMMA Iret ==
    ASSUME NEW s \in Seq(Words), Len(s) = 5, s[3] = <<"rflags", 1>>, iretq(s)
    PROVE  stack' = << >> /\ int_flag' = TRUE /\ at' = "kernel"
<1>1. From(s, 6) \in Seq(Words) /\ Len(From(s, 6)) = 0
  <2>1. 6 \in 1 .. Len(s) + 1 /\ Len(s) - 6 + 1 = 0
    OBVIOUS
  <2> QED BY <2>1, FromWords
<1>2. stack' = << >>
  BY <1>1, EmptySeq DEF iretq
<1> QED BY <1>2 DEF iretq

\* The rest of what a return to the kernel needs.
LEMMA Returned ==
    ASSUME IInv, at \in {"irq_return", "switch_return", "syscall_return"},
           UNCHANGED <<tables, focus_interrupt, pic, code, owed>>,
           stack' = << >>, int_flag' = TRUE, at' = "kernel", reg' \in [Registers -> Words],
           \A r \in Registers \ {"rsp"} : reg'[r] = <<r, 0>> \/ (code = SYSCALL /\ r \in Scratch)
    PROVE  IInv'
<1>1. Types /\ Tables /\ Served /\ InService /\ StackShape
  BY DEF IInv
<1>2. Types'
  BY <1>1 DEF Types, Places, tables, pic
<1>3. Tables'
  <2>1. UNCHANGED <<idt_entries, handlers, base>> /\ (idt_desc' <=> idt_desc)
    BY DEF tables, pic
  <2> QED BY <1>1, <2>1 DEF Tables, Setup
<1>4. Served' /\ InService'
  BY <1>1 DEF Served, InService, Setup, None, pic
<1>5. StackShape'
  BY DEF StackShape, Setup, Framed
<1> QED BY <1>2, <1>3, <1>4, <1>5 DEF IInv

\* The system call's stub restores the registers and returns (syscall.S).
LEMMA SyscallReturnStep ==
    ASSUME IInv, syscall_return
    PROVE  IInv'
<1>1. Types /\ Served /\ StackShape
  BY DEF IInv
<1>2. /\ at = "syscall_return" /\ iretq(From(stack, 23))
      /\ UNCHANGED <<tables, focus_interrupt, pic, reg, code, owed>>
  BY DEF syscall_return
<1>3. code = SYSCALL /\ stack \in Seq(Words) /\ reg \in [Registers -> Words]
      /\ Len(stack) = 27 /\ stack[25] = <<"rflags", 1>>
  BY <1>1, <1>2 DEF Served, StackShape, Framed, FrameWords, CpuWords, Types, SYSCALL, Setup
<1>4. From(stack, 23) \in Seq(Words) /\ Len(From(stack, 23)) = 5
      /\ From(stack, 23)[3] = <<"rflags", 1>>
  <2>1. 23 \in 1 .. Len(stack) + 1 /\ Len(stack) - 23 + 1 = 5 /\ 3 \in 1 .. 5 /\ 23 + 3 - 1 = 25
    BY <1>3
  <2>2. /\ From(stack, 23) \in Seq(Words) /\ Len(From(stack, 23)) = Len(stack) - 23 + 1
        /\ \A j \in 1 .. Len(stack) - 23 + 1 : From(stack, 23)[j] = stack[23 + j - 1]
    BY <1>3, <2>1, FromWords
  <2>3. From(stack, 23)[3] = stack[23 + 3 - 1]
    BY <2>1, <2>2
  <2> QED BY <1>3, <2>1, <2>2, <2>3
<1>5. stack' = << >> /\ int_flag' = TRUE /\ at' = "kernel"
  BY <1>2, <1>4, Iret
<1>6. \A r \in Registers \ {"rsp"} : reg'[r] = <<r, 0>> \/ (code = SYSCALL /\ r \in Scratch)
  BY <1>1, <1>2, <1>3 DEF StackShape
<1> QED BY <1>2, <1>3, <1>5, <1>6, Returned

\* The interrupt's stub restores the registers and returns (idt.asm).
LEMMA IrqReturnStep ==
    ASSUME IInv, irq_return
    PROVE  IInv'
<1>1. Types /\ Served /\ StackShape
  BY DEF IInv
<1> DEFINE under == From(stack, Len(stack) - stack[9][2] + 1)
           saved == SubSeq(stack, 5, 9)
           popped == saved \o under
<1>2. /\ at = "irq_return" /\ UNCHANGED <<tables, focus_interrupt, pic, code, owed>>
      /\ reg' = [r \in Registers |-> popped[CHOOSE i \in 1 .. 16 : POPX64[i] = r]]
      /\ iretq(From(popped, 19))
  BY DEF irq_return
<1>3. /\ stack \in Seq(Words) /\ Len(stack) = 27 /\ stack[9] = <<"rsp", 18>>
      /\ stack[25] = <<"rflags", 1>>
      /\ \A i \in RegisterWords : stack[i] = <<cpu_register_t[i], 0>>
  <2>1. stack \in Seq(Words) /\ FrameWords(stack, code) /\ code >= 32
    BY SMTT(30), <1>1, <1>2 DEF Served, IrqVectors, StackShape, Framed, Setup, Types
  <2>2. stack[22 + 3] = <<"rflags", 1>>
    BY <2>1 DEF FrameWords, CpuWords
  <2>3. 22 + 3 = 25
    OBVIOUS
  <2> QED BY <2>1, <2>2, <2>3 DEF FrameWords
<1>4. under \in Seq(Words) /\ Len(under) = 18 /\ \A j \in 1 .. 18 : under[j] = stack[9 + j]
  <2>1. Len(stack) - stack[9][2] + 1 = 10
    BY <1>3
  <2>2. 10 \in 1 .. Len(stack) + 1 /\ Len(stack) - 10 + 1 = 18
    BY <1>3
  <2>3. From(stack, 10) \in Seq(Words) /\ Len(From(stack, 10)) = 18
        /\ \A j \in 1 .. 18 : From(stack, 10)[j] = stack[10 + j - 1]
    BY ZenonT(30), <1>3, <2>2, FromWords
  <2>4. \A j \in 1 .. 18 : 10 + j - 1 = 9 + j
    OBVIOUS
  <2> QED BY <2>1, <2>3, <2>4
<1>5. saved \in Seq(Words) /\ Len(saved) = 5 /\ \A j \in 1 .. 5 : saved[j] = stack[4 + j]
  <2>1. ASSUME NEW m \in 1 .. 27, NEW n \in m .. 27
        PROVE  /\ SubSeq(stack, m, n) \in Seq(Words) /\ Len(SubSeq(stack, m, n)) = n - m + 1
               /\ \A j \in 1 .. n - m + 1 : SubSeq(stack, m, n)[j] = stack[m + j - 1]
    <3>1. m \in Int /\ n \in Int /\ m <= n
      OBVIOUS
    <3>2. \A i \in m .. n : stack[i] \in Words
      <4>1. \A i \in 1 .. Len(stack) : stack[i] \in Words
        BY <1>3, ElementOfSeq
      <4>2. \A i \in m .. n : i \in 1 .. Len(stack)
        BY <1>3
      <4> QED BY <4>1, <4>2
    <3> QED BY <3>1, <3>2, SubSeqProperties
  <2>2. saved \in Seq(Words) /\ Len(saved) = 9 - 5 + 1
        /\ \A j \in 1 .. 9 - 5 + 1 : saved[j] = stack[5 + j - 1]
    <3>1. 5 \in 1 .. 27 /\ 9 \in 5 .. 27
      OBVIOUS
    <3> QED BY <2>1, <3>1, Zenon
  <2>3. 9 - 5 + 1 = 5 /\ \A j \in 1 .. 5 : 5 + j - 1 = 4 + j
    OBVIOUS
  <2> QED BY <2>2, <2>3
<1> HIDE DEF under, saved
<1>6. /\ popped \in Seq(Words) /\ Len(popped) = Len(saved) + Len(under)
      /\ \A j \in 1 .. Len(saved) : popped[j] = saved[j]
      /\ \A j \in 1 .. Len(under) : popped[j + Len(saved)] = under[j]
  <2>1. saved \in Seq(Words) /\ under \in Seq(Words)
    BY <1>4, <1>5
  <2> QED BY <2>1, Prefix
<1> HIDE DEF popped
<1>7. Len(popped) = 23 /\ \A j \in 1 .. 23 : popped[j] = stack[4 + j]
  <2>1. ASSUME NEW j \in 1 .. 23
        PROVE  popped[j] = stack[4 + j]
    <3>1. CASE j <= 5
      <4>1. j \in 1 .. 5
        BY <3>1
      <4> QED BY <1>5, <1>6, <4>1
    <3>2. CASE j > 5
      <4> DEFINE k == j - 5
      <4>1. k \in 1 .. 18 /\ k + 5 = j /\ 9 + k = 4 + j
        BY <3>2
      <4> HIDE DEF k
      <4>2. popped[k + 5] = under[k] /\ under[k] = stack[9 + k]
        BY <1>4, <1>5, <1>6, <4>1
      <4> QED BY <4>1, <4>2
    <3> QED BY <3>1, <3>2
  <2> QED BY <1>4, <1>5, <1>6, <2>1
<1>8. ASSUME NEW r \in Registers \ {"rsp"}
      PROVE  reg'[r] = <<r, 0>>
  <2>1. /\ Field(r) \in RegisterWords /\ cpu_register_t[Field(r)] = r
        /\ (CHOOSE k \in 1 .. 16 : POPX64[k] = r) = Field(r) - 4
    BY RegisterFields
  <2>2. reg'[r] = popped[CHOOSE k \in 1 .. 16 : POPX64[k] = r]
    BY <1>2
  <2> DEFINE j == Field(r) - 4
  <2>3. j \in 1 .. 23 /\ 4 + j = Field(r)
    BY <2>1 DEF RegisterWords
  <2>4. reg'[r] = popped[j]
    BY <2>1, <2>2
  <2> HIDE DEF j
  <2> QED BY <1>3, <1>7, <2>1, <2>3, <2>4
<1>9. reg'["rsp"] \in Words
  <2>1. (CHOOSE i \in 1 .. 16 : POPX64[i] = "rsp") = 5
    <3>1. \A i \in 1 .. 16 : POPX64[i] = "rsp" <=> i = 5
      BY DEF POPX64
    <3> QED BY <3>1
  <2>2. reg'["rsp"] = popped[5] /\ popped[5] = stack[9]
    BY <1>2, <1>7, <2>1, RegisterSet
  <2> QED BY ZenonT(60), <1>3, <2>2, Word, RegisterSet
<1>10. reg' \in [Registers -> Words]
  <2>1. \A r \in Registers : reg'[r] \in Words
    BY <1>8, <1>9, Word
  <2>2. DOMAIN reg' = Registers /\ reg' = [r \in Registers |-> reg'[r]]
    BY <1>2
  <2> QED BY <2>1, <2>2
<1>11. From(popped, 19) \in Seq(Words) /\ Len(From(popped, 19)) = 5
       /\ From(popped, 19)[3] = <<"rflags", 1>>
  <2>1. 19 \in 1 .. Len(popped) + 1 /\ Len(popped) - 19 + 1 = 5 /\ 3 \in 1 .. 5
        /\ 19 + 3 - 1 = 21 /\ 21 \in 1 .. 23 /\ 4 + 21 = 25
    BY <1>7
  <2>2. popped[21] = stack[25]
    BY <1>7, <2>1
  <2>3. /\ From(popped, 19) \in Seq(Words) /\ Len(From(popped, 19)) = Len(popped) - 19 + 1
        /\ \A j \in 1 .. Len(popped) - 19 + 1 : From(popped, 19)[j] = popped[19 + j - 1]
    BY <1>6, <2>1, FromWords
  <2>4. From(popped, 19)[3] = popped[19 + 3 - 1]
    BY <2>1, <2>3
  <2> QED BY <1>3, <2>1, <2>2, <2>3, <2>4
<1>12. stack' = << >> /\ int_flag' = TRUE /\ at' = "kernel"
  BY <1>2, <1>11, Iret
<1> QED BY <1>2, <1>8, <1>10, <1>12, Returned

\* switch_task's own way back restores the registers and returns (task.S:45-67).
LEMMA SwitchReturnStep ==
    ASSUME IInv, switch_return
    PROVE  IInv'
<1>1. Types /\ Served /\ StackShape
  BY DEF IInv
<1>2. /\ at = "switch_return" /\ iretq(From(stack, 23))
      /\ UNCHANGED <<tables, focus_interrupt, pic, code, owed>>
      /\ reg' = [r \in Registers |->
                    IF r = "rsp" THEN reg[r]
                    ELSE stack[4 + CHOOSE i \in 1 .. 16 : POPX64[i] = r]]
  BY DEF switch_return
<1>3. /\ stack \in Seq(Words) /\ reg \in [Registers -> Words] /\ Len(stack) = 27
      /\ stack[25] = <<"rflags", 1>>
      /\ \A i \in RegisterWords : stack[i] = <<cpu_register_t[i], 0>>
  <2>1. /\ stack \in Seq(Words) /\ reg \in [Registers -> Words]
        /\ FrameWords(stack, code) /\ code >= 32
    BY SMTT(30), <1>1, <1>2 DEF Served, IrqVectors, StackShape, Framed, Setup, Types
  <2>2. stack[22 + 3] = <<"rflags", 1>>
    BY <2>1 DEF FrameWords, CpuWords
  <2>3. 22 + 3 = 25
    OBVIOUS
  <2> QED BY <2>1, <2>2, <2>3 DEF FrameWords
<1>4. From(stack, 23) \in Seq(Words) /\ Len(From(stack, 23)) = 5
      /\ From(stack, 23)[3] = <<"rflags", 1>>
  <2>1. 23 \in 1 .. Len(stack) + 1 /\ Len(stack) - 23 + 1 = 5 /\ 3 \in 1 .. 5 /\ 23 + 3 - 1 = 25
    BY <1>3
  <2>2. /\ From(stack, 23) \in Seq(Words) /\ Len(From(stack, 23)) = Len(stack) - 23 + 1
        /\ \A j \in 1 .. Len(stack) - 23 + 1 : From(stack, 23)[j] = stack[23 + j - 1]
    BY <1>3, <2>1, FromWords
  <2>3. From(stack, 23)[3] = stack[23 + 3 - 1]
    BY <2>1, <2>2
  <2> QED BY <1>3, <2>1, <2>2, <2>3
<1>5. stack' = << >> /\ int_flag' = TRUE /\ at' = "kernel"
  BY <1>2, <1>4, Iret
<1>6. ASSUME NEW r \in Registers \ {"rsp"}
      PROVE  reg'[r] = <<r, 0>>
  <2>1. /\ Field(r) \in RegisterWords /\ cpu_register_t[Field(r)] = r
        /\ (CHOOSE k \in 1 .. 16 : POPX64[k] = r) = Field(r) - 4
    BY RegisterFields
  <2>2. reg'[r] = stack[4 + CHOOSE k \in 1 .. 16 : POPX64[k] = r]
    BY <1>2
  <2>3. 4 + (Field(r) - 4) = Field(r)
    BY <2>1 DEF RegisterWords
  <2>4. reg'[r] = stack[Field(r)]
    BY <2>1, <2>2, <2>3
  <2> QED BY <1>3, <2>1, <2>4
<1>7. reg' \in [Registers -> Words]
  <2>1. reg'["rsp"] \in Words
    BY <1>2, <1>3, RegisterSet
  <2>2. \A r \in Registers : reg'[r] \in Words
    BY <1>6, <2>1, Word
  <2>3. DOMAIN reg' = Registers /\ reg' = [r \in Registers |-> reg'[r]]
    BY <1>2
  <2> QED BY <2>2, <2>3
<1> QED BY <1>2, <1>5, <1>6, <1>7, Returned

\* The invariant says nothing of locals, nor of the edges so far.
LEMMA SameState ==
    ASSUME IInv, UNCHANGED <<at, int_flag, idt_entries, idt_desc, handlers, focus_interrupt,
                             irr, isr, base, stack, reg, code, owed>>
    PROVE  IInv'
<1>1. Types' /\ Tables' /\ Served'
  BY DEF IInv, Types, Tables, Served
<1>2. InService'
  BY DEF IInv, InService, None
<1>3. StackShape'
  <2> USE DEF IInv
  <2>1. at \in Framed => FrameWords(stack, code)'
    BY DEF StackShape, FrameWords, CpuWords
  <2> QED BY <2>1 DEF StackShape, CpuWords, ErrorCode
<1> QED BY <1>1, <1>2, <1>3 DEF IInv

\* Every step keeps the invariant.
LEMMA NextIInv == IInv /\ [Next]_vars => IInv'
<1> SUFFICES ASSUME IInv, [Next]_vars PROVE IInv'
  OBVIOUS
<1>1. CASE idt_init
  BY <1>1, SetupStep
<1>2. CASE Enter
  BY <1>2, EnterStep
<1>3. CASE irq_handle
  BY <1>3, IrqHandleStep
<1>4. CASE syscall_handle
  BY <1>4, SyscallHandleStep
<1>5. CASE isr_handle
  BY <1>5, IsrHandleStep
<1>6. CASE irq_return
  BY <1>6, IrqReturnStep
<1>7. CASE syscall_return
  BY <1>7, SyscallReturnStep
<1>7a. CASE switch_return
  BY <1>7a, SwitchReturnStep
<1>7b. CASE Leaf
  <2>1. UNCHANGED <<at, int_flag, idt_entries, idt_desc, handlers, focus_interrupt, irr, isr, base,
                    stack, reg, code, owed>>
    BY <1>7b DEF Leaf, tables, pic
  <2> QED BY <2>1, SameState
<1>8. CASE Deliver
  BY <1>8, DeliverStep
<1>9. CASE Syscall
  BY <1>9, SyscallStep
<1>10. CASE \E n \in Lines : Raise(n)
  BY <1>10, RaiseStep
<1>11. CASE \E chip \in Chips : Spurious(chip)
  BY <1>11, SpuriousStep
<1>12. CASE \E v \in Faults : Fault(v)
  BY <1>12, FaultStep
<1>13. CASE UNCHANGED vars
  <2>1. UNCHANGED <<at, int_flag, idt_entries, idt_desc, handlers, focus_interrupt, irr, isr, base,
                    stack, reg, code, owed>>
    BY <1>13 DEF vars, tables, pic
  <2> QED BY <2>1, SameState
<1> QED BY <1>1, <1>2, <1>3, <1>4, <1>5, <1>6, <1>7, <1>7a, <1>7b, <1>8, <1>9, <1>10, <1>11,
           <1>12, <1>13
        DEF Next, Cpu

\* The invariant holds in every reachable state.
LEMMA Inductive == Spec => []IInv
BY InitIInv, NextIInv, PTL DEF Spec

-----------------------------------------------------------------------------
(* What the invariant says of the system. *)

\* Whenever interrupts are on, no level is left in service at either controller:
\* irq_handle (idt.c:204-220) acknowledges both controllers of a line of the slave,
\* spurious ones included, so that no line stays blocked.
THEOREM AllAcknowledged == Spec => []Acknowledged
<1>1. IInv => Acknowledged
  BY DEF IInv, Types, InService, Acknowledged, None
<1> QED BY <1>1, Inductive, PTL

\* Every interrupt that is taken finds its stub, in every order of edges, spurious
\* interrupts, system calls and exceptions (idt.c:57-115).
THEOREM NoneLost == Spec => []NeverLost
<1>1. IInv => NeverLost
  BY DEF IInv, Types, NeverLost, Places, Setup, Framed
<1> QED BY <1>1, Inductive, PTL

\* Each interrupt of the timer or the keyboard has run its driver by the time the
\* kernel goes on (idt.c:204-220).
THEOREM DriversCalled == Spec => []DriverCalled
<1>1. IInv => DriverCalled
  BY DEF IInv, InService, DriverCalled
<1> QED BY <1>1, Inductive, PTL

\* The frame of every handler is laid out as cpu_register_t says (cpu.h), whichever
\* gate and stub pushed it (idt.asm:67-175, syscall.S:4-45).
THEOREM FramesAsDeclared == Spec => []FrameAsDeclared
<1>1. IInv => FrameAsDeclared
  <2> SUFFICES ASSUME IInv, at \in {"isr", "irq", "syscall_handle"}
               PROVE  /\ \A f \in {"cr0", "cr2", "cr3", "cr4", "rip", "cs", "rflags", "rsp0",
                                  "ss", "rsp"} :
                           stack[Field(f)][1] = f
                      /\ stack[Field("error_code")][1] = "error"
                      /\ \A f \in Registers \ {"rsp"} :
                           code >= 32 => stack[Field(f)] = <<f, 0>>
                      /\ stack[Field("interrupt_code")] = <<"code", code>>
    BY DEF FrameAsDeclared
  <2>1. FrameWords(stack, code)
    BY DEF IInv, StackShape, Framed
  <2>2. PICK n \in {0, 1} : CpuWords(stack, 22, n)
    BY <2>1 DEF FrameWords
  <2>3. /\ stack[1][1] = "cr4" /\ stack[2][1] = "cr3" /\ stack[3][1] = "cr2"
        /\ stack[4][1] = "cr0" /\ stack[9][1] = "rsp"
        /\ stack[21] = <<"code", code>> /\ stack[22][1] = "error"
    <3>1. /\ stack[1][1] = cpu_register_t[1] /\ stack[2][1] = cpu_register_t[2]
          /\ stack[3][1] = cpu_register_t[3] /\ stack[4][1] = cpu_register_t[4]
      BY <2>1 DEF FrameWords
    <3>2. /\ cpu_register_t[1] = "cr4" /\ cpu_register_t[2] = "cr3"
          /\ cpu_register_t[3] = "cr2" /\ cpu_register_t[4] = "cr0"
      BY DEF cpu_register_t
    <3> QED BY <2>1, <3>1, <3>2 DEF FrameWords
  <2>4. /\ stack[23][1] = "rip" /\ stack[24][1] = "cs" /\ stack[25][1] = "rflags"
        /\ stack[26][1] = "rsp0" /\ stack[27][1] = "ss"
    <3>1. 22 + 1 = 23 /\ 22 + 2 = 24 /\ 22 + 3 = 25 /\ 22 + 4 = 26 /\ 22 + 5 = 27
      OBVIOUS
    <3> QED BY <2>2, <3>1 DEF CpuWords
  <2>5. ASSUME NEW f \in Registers \ {"rsp"}, code >= 32
        PROVE  stack[Field(f)] = <<f, 0>>
    <3>1. Field(f) \in RegisterWords /\ cpu_register_t[Field(f)] = f
      BY RegisterFields
    <3>2. stack[Field(f)] = <<cpu_register_t[Field(f)], 0>>
      BY <2>1, <2>5, <3>1 DEF FrameWords
    <3> QED BY <3>1, <3>2
  <2> QED BY <2>3, <2>4, <2>5, FieldNames
<1> QED BY <1>1, Inductive, PTL

\* The interrupted kernel goes on with its own registers and its stack from rsp up,
\* through any of the three returns; a system call changes no register that a function
\* call keeps (idt.asm:3-105, task.S:45-67, syscall.S:4-45).  The locals of a leaf
\* function, below rsp, are not among what it says: an interrupt overwrites them.
THEOREM KernelResumes == Spec => []Resumes
<1>1. IInv => Resumes
  BY DEF IInv, Types, StackShape, Resumes
<1> QED BY <1>1, Inductive, PTL
=============================================================================
