----------------------------- MODULE Interrupts -----------------------------
(***************************************************************************)
(* Interrupts: idt_init of kernel/cpu/idt.c, the stubs of idt.asm and      *)
(* syscall.S, irq_handle and isr_handle, and the two 8259A controllers as  *)
(* pic.c programs them.                                                    *)
(*                                                                         *)
(* The stack is a sequence of words whose head is the word rsp points at;  *)
(* a word is <<name, number>>, so that a register is its own value and a   *)
(* word in the wrong place shows.  A gate, a stub and a handler are steps  *)
(* of their own, because a processor exception may come in any of them.    *)
(* Which task's frame the timer's handler returns through is the module    *)
(* Tasks; here it is that of the task it interrupted, when its turn comes. *)
(*                                                                         *)
(* The kernel is compiled with a red zone (Makefile:7 has no               *)
(* -mno-red-zone): a leaf function keeps locals below rsp, where an        *)
(* interrupt's words go: locals says whether it has lost them.             *)
(***************************************************************************)
EXTENDS Naturals, Sequences

CONSTANTS
    Lines,      \* the interrupt lines that devices raise
    Faults,     \* the processor exceptions that occur
    RAISES,     \* bound: edges on all lines together
    DEPTH       \* bound: no exception starts on a stack deeper than this

\* 17, 21, 29 and 30 push an error code, which their stubs (isr_no_error) do
\* not expect; they need ring 3, shadow stacks or a hypervisor.
ASSUME LinesAssumption == /\ Lines \subseteq (0..15) \ {2}
                          /\ Faults \subseteq (0..31) \ {17, 21, 29, 30}
ASSUME BoundsAssumption == RAISES \in Nat /\ DEPTH \in Nat

VARIABLES
    at,         \* where the processor is: a statement of idt_init, "kernel", ...
    int_flag,
    idt_entries, idt_desc, handlers, focus_interrupt,
    irr, isr, base,     \* each controller: requests, in service, first vector
    stack, reg,
    locals,     \* what the running function keeps below rsp: "none", "kept" or "overwritten"
    code,       \* the vector being served
    owed,       \* lines with a driver, taken by the processor, handler not run yet
    raised      \* edges so far

tables == <<idt_entries, idt_desc, handlers>>
pic == <<irr, isr, base>>
vars == <<at, int_flag, tables, focus_interrupt, pic, stack, reg, locals, code, owed, raised>>

Chips == {"master", "slave"}
Vectors == 0..255
NoGate == 256           \* an absent entry
SYSCALL == 128

-----------------------------------------------------------------------------
(* Registers and frames *)

Scratch == {"rax", "rcx", "rdx", "rsi", "rdi", "r8", "r9", "r10", "r11"}
Registers == Scratch \cup {"rbx", "rbp", "rsp", "r12", "r13", "r14", "r15"}

\* Mutant: rdi and rsi are taken off in the other order.
POPX64_swapped == <<"rax", "rcx", "rdx", "rbx", "rsp", "rbp", "rsi", "rdi",
                    "r8", "r9", "r10", "r11", "r12", "r13", "r14", "r15">>

\* The registers in the order POPX64 takes them off the stack.
POPX64 == <<"rax", "rcx", "rdx", "rbx", "rsp", "rbp", "rdi", "rsi",
            "r8", "r9", "r10", "r11", "r12", "r13", "r14", "r15">>

\* The words that PUSHX64 puts on a stack s: rsp is the address of the word
\* under it, here the number of words below; cr0 to cr4 pass through rax.
PUSHX64(s) ==
    <<<<"cr4", 0>>, <<"cr3", 0>>, <<"cr2", 0>>, <<"cr0", 0>>,
      reg["rax"], reg["rcx"], reg["rdx"], reg["rbx"], <<"rsp", Len(s) + 11>>,
      reg["rbp"], reg["rdi"], reg["rsi"], reg["r8"], reg["r9"], reg["r10"],
      reg["r11"], reg["r12"], reg["r13"], reg["r14"], reg["r15"]>> \o s

\* What the processor pushes: the error code of some exceptions is on top.
ErrorCode(v) == IF v \in {8, 17, 21, 29, 30} \cup 10..14 THEN <<<<"error", v>>>> ELSE <<>>
Pushed(v) == ErrorCode(v) \o
    <<<<"rip", 0>>, <<"cs", 0>>, <<"rflags", IF int_flag THEN 1 ELSE 0>>, <<"rsp0", 0>>, <<"ss", 0>>>>

\* cpu_register_t: the words of a frame by name, from its lowest address.
cpu_register_t ==
    <<"cr4", "cr3", "cr2", "cr0", "rax", "rcx", "rdx", "rbx", "rsp", "rbp", "rdi", "rsi",
      "r8", "r9", "r10", "r11", "r12", "r13", "r14", "r15",
      "interrupt_code", "error_code", "rip", "cs", "rflags", "rsp0", "ss">>
Field(f) == CHOOSE i \in 1..Len(cpu_register_t) : cpu_register_t[i] = f

\* The stubs by the vector whose stub they are: isr_error pushes the vector
\* alone, isr_no_error a zero and the vector, irq__ the line and the vector.
isr_error(v) == <<<<"code", v>>>>
isr_no_error(v) == <<<<"code", v>>, <<"error", 0>>>>
\* Mutant: the two words are pushed in the other order.
irq__swapped(v) == <<<<"error", v - 32>>, <<"code", v>>>>
irq__(v) == <<<<"code", v>>, <<"error", v - 32>>>>
Stub(v) == IF v \in {8} \cup 10..14 THEN isr_error(v)
           ELSE IF v < 32 THEN isr_no_error(v)
           ELSE IF v < 48 THEN irq__(v)
           ELSE <<<<"code", SYSCALL>>, <<"error", 0>>>>

-----------------------------------------------------------------------------
(* The controllers *)

Lowest(S) == {n \in S : \A k \in S : n <= k}

\* In fully nested mode a request waits while its own or a higher level is
\* in service.  pic_remapped leaves no line masked.
Pending(chip) == {n \in irr[chip] : \A k \in isr[chip] : n < k}
MasterPending == Pending("master") \cup
    {n \in {2} : Pending("slave") # {} /\ \A k \in isr["master"] : n < k}

Serve(chip, n) == /\ irr' = [irr EXCEPT ![chip] = @ \ {n}]
                  /\ isr' = [c \in Chips |->
                        IF c = chip THEN isr[c] \cup {n}
                        ELSE IF chip = "slave" THEN isr[c] \cup {2} ELSE isr[c]]

\* Mutant: the slave is not told of its first line.
pic_endofinterrupt_above(line, in) ==
    [chip \in Chips |-> IF chip = "master" \/ line > 8
                        THEN in[chip] \ Lowest(in[chip]) ELSE in[chip]]

\* An end-of-interrupt command clears the highest level in service.
pic_endofinterrupt(line, in) ==
    [chip \in Chips |-> IF chip = "master" \/ line >= 8
                        THEN in[chip] \ Lowest(in[chip]) ELSE in[chip]]

-----------------------------------------------------------------------------
(* idt_init: the state after its cli, on the firmware's tables *)

Init ==
    /\ at = "gates" /\ int_flag = FALSE
    /\ idt_entries = [v \in Vectors |-> NoGate] /\ idt_desc = FALSE
    /\ handlers = [v \in Vectors |-> "none"] /\ focus_interrupt = FALSE
    /\ irr = [c \in Chips |-> {}] /\ isr = [c \in Chips |-> {}]
    /\ base = [c \in Chips |-> IF c = "master" THEN 8 ELSE 112]
    /\ stack = <<>> /\ reg = [r \in Registers |-> <<r, 0>>] /\ locals = "none"
    /\ code = 0 /\ owed = {} /\ raised = 0

still == UNCHANGED <<focus_interrupt, stack, reg, locals, code, owed, raised>>

InstallGates ==
    /\ at = "gates" /\ at' = "syscall"
    /\ idt_entries' = [v \in Vectors |-> IF v < 48 THEN v ELSE idt_entries[v]]
    /\ handlers' = [v \in Vectors |-> IF v < 48 THEN "none" ELSE handlers[v]]
    /\ UNCHANGED <<int_flag, idt_desc, pic>> /\ still

interrupt_setEntry ==
    /\ at = "syscall" /\ at' = "pic"
    /\ idt_entries' = [idt_entries EXCEPT ![SYSCALL] = SYSCALL]
    /\ UNCHANGED <<int_flag, idt_desc, handlers, pic>> /\ still

\* Mutant: only the master is given new vectors.
pic_remapped_once ==
    /\ at = "pic" /\ at' = "time"
    /\ base' = [c \in Chips |-> IF c = "master" THEN 32 ELSE 112]
    /\ irr' = [c \in Chips |-> {}] /\ isr' = [c \in Chips |-> {}]
    /\ UNCHANGED <<int_flag, tables>> /\ still
\* ICW1 forgets the requests; the edges that come later are kept.
pic_remapped ==
    /\ at = "pic" /\ at' = "time"
    /\ base' = [c \in Chips |-> IF c = "master" THEN 32 ELSE 40]
    /\ irr' = [c \in Chips |-> {}] /\ isr' = [c \in Chips |-> {}]
    /\ UNCHANGED <<int_flag, tables>> /\ still

interrupt_register(index, handler) ==
    /\ handlers' = [handlers EXCEPT ![index] = handler]
    /\ UNCHANGED <<int_flag, idt_entries, idt_desc, pic>> /\ still

\* Mutant: the timer is registered under its line, not its vector.
time_init_line == at = "time" /\ at' = "keyboard" /\ interrupt_register(0, "irq_time_handle")
time_init == at = "time" /\ at' = "keyboard" /\ interrupt_register(32, "irq_time_handle")
keyboard_init == at = "keyboard" /\ at' = "lidt" /\ interrupt_register(33, "keyboard_handle")

idt_install == /\ at = "lidt" /\ at' = "sti" /\ idt_desc' = TRUE
               /\ UNCHANGED <<int_flag, idt_entries, handlers, pic>> /\ still

Sti == /\ at = "sti" /\ at' = "kernel" /\ int_flag' = TRUE
       /\ UNCHANGED <<tables, pic>> /\ still

idt_init == \/ InstallGates \/ interrupt_setEntry \/ pic_remapped \/ time_init
            \/ keyboard_init \/ idt_install \/ Sti

-----------------------------------------------------------------------------
(* A device raises its line; the processor takes an interrupt *)

Raise(n) ==
    /\ raised < RAISES /\ raised' = raised + 1
    /\ irr' = [irr EXCEPT ![IF n < 8 THEN "master" ELSE "slave"] = @ \cup {n % 8}]
    /\ UNCHANGED <<at, int_flag, tables, focus_interrupt, isr, base, stack, reg, locals, code, owed>>

\* The kernel, or a program, enters a function that calls no other and keeps its
\* locals below rsp, and returns from it.
Leaf == /\ at = "kernel"
        /\ locals' = IF locals = "none" THEN "kept" ELSE "none"
        /\ UNCHANGED <<at, int_flag, tables, focus_interrupt, pic, stack, reg, code, owed, raised>>

\* The gate is an interrupt gate: the flag is off in the stub.  A vector
\* without a gate stops the machine.  The registers of the program that is
\* interrupted are named at that moment.  The words go where a leaf function
\* has its locals.
Take(v) ==
    /\ code' = v /\ stack' = Pushed(v) \o stack /\ int_flag' = FALSE
    /\ at' = IF idt_desc /\ idt_entries[v] # NoGate THEN "stub" ELSE "lost"
    /\ reg' = IF at = "kernel" THEN [r \in Registers |-> <<r, 0>>] ELSE reg
    /\ locals' = IF locals = "none" THEN "none" ELSE "overwritten"
    /\ UNCHANGED <<tables, focus_interrupt, base>>

Accept(line, v) == Take(v) /\ owed' = owed \cup ({line} \cap {0, 1})

Deliver ==
    /\ int_flag
    /\ \/ \E n \in Lowest(MasterPending) \ {2} :
             Serve("master", n) /\ Accept(n, base["master"] + n)
       \/ /\ 2 \in Lowest(MasterPending)
          /\ \E n \in Lowest(Pending("slave")) :
                Serve("slave", n) /\ Accept(n + 8, base["slave"] + n)
    /\ UNCHANGED raised

\* A request that is gone when the processor asks for its vector is answered
\* with level 7, which is then not in service.
Spurious(chip) ==
    /\ int_flag /\ raised < RAISES /\ raised' = raised + 1
    /\ isr["master"] = {}
    /\ isr' = [isr EXCEPT !["master"] = IF chip = "slave" THEN {2} ELSE {}]
    /\ Accept(7, base[chip] + 7) /\ UNCHANGED irr

\* int $0x80, in a stub of syscall.S, which keeps nothing below rsp.
Syscall == /\ at = "kernel" /\ locals = "none"
           /\ Take(SYSCALL) /\ UNCHANGED <<irr, isr, owed, raised>>

\* A processor exception in the kernel, a handler or the exception's own.
Fault(v) == /\ at \in {"kernel", "irq", "syscall_handle", "isr"} /\ Len(stack) <= DEPTH
            /\ Take(v) /\ UNCHANGED <<irr, isr, owed, raised>>

-----------------------------------------------------------------------------
(* The stubs and the handlers *)

\* The stub pushes its own words, then every register, and calls its handler
\* with the frame's address in rdi; int_syscall loads a word of the frame into
\* rax instead, where nothing looks for it.
Enter ==
    /\ at = "stub"
    /\ stack' = PUSHX64(Stub(idt_entries[code]) \o stack)
    /\ reg' = IF idt_entries[code] = SYSCALL THEN [reg EXCEPT !["rax"] = reg["rcx"]]
              ELSE [reg EXCEPT !["rax"] = <<"cr4", 0>>, !["rdi"] = <<"frame", 0>>]
    /\ at' = IF idt_entries[code] < 32 THEN "isr"
             ELSE IF idt_entries[code] < 48 THEN "irq" ELSE "syscall_handle"
    /\ UNCHANGED <<int_flag, tables, focus_interrupt, pic, locals, code, owed, raised>>

\* A C function gives back the registers it must and leaves junk in the others.
Called == [r \in Registers |-> IF r \in Scratch THEN <<"junk", 0>> ELSE reg[r]]

\* Mutant: a line without a driver is returned from before the acknowledge.
irq_handle_first ==
    LET c == stack[Field("interrupt_code")][2] IN
    /\ at = "irq" /\ at' = "irq_return"
    /\ isr' = IF handlers[c] = "none" THEN isr ELSE pic_endofinterrupt(c - 32, isr)
    /\ owed' = IF handlers[c] = "none" \/ focus_interrupt THEN owed
               ELSE owed \ (IF handlers[c] = "irq_time_handle" THEN {0} ELSE {1})
    /\ reg' = Called
    /\ UNCHANGED <<int_flag, tables, focus_interrupt, irr, base, stack, locals, code, raised>>

\* irq_handle(creg): acknowledge first, then the driver, if there is one.  The
\* timer's returns, or leaves the frame for switch_task to return through.
irq_handle ==
    LET c == stack[Field("interrupt_code")][2]
        driver == IF c < 32 \/ focus_interrupt THEN "none" ELSE handlers[c] IN
    /\ at = "irq"
    /\ \/ at' = "irq_return"
       \/ driver = "irq_time_handle" /\ at' = "switch_return"
    /\ isr' = IF c < 32 THEN isr ELSE pic_endofinterrupt(c - 32, isr)
    /\ owed' = IF driver = "none" THEN owed
               ELSE owed \ (IF driver = "irq_time_handle" THEN {0} ELSE {1})
    /\ reg' = Called
    /\ UNCHANGED <<int_flag, tables, focus_interrupt, irr, base, stack, locals, code, raised>>

\* Of the system calls the exit of a task does not return: task_exit spins, with
\* interrupts off behind the cli of int_syscall.
syscall_handle == /\ at = "syscall_handle" /\ at' \in {"syscall_return", "exited"} /\ reg' = Called
                  /\ UNCHANGED <<int_flag, tables, focus_interrupt, pic, stack, locals, code, owed, raised>>

\* isr_handle prints and never returns.
isr_handle ==
    \/ /\ at = "isr" /\ ~focus_interrupt /\ focus_interrupt' = TRUE
       /\ UNCHANGED <<at, int_flag, tables, pic, stack, reg, locals, code, owed, raised>>
    \/ /\ at = "isr" /\ focus_interrupt /\ at' = "halted"
       /\ UNCHANGED <<int_flag, tables, focus_interrupt, pic, stack, reg, locals, code, owed, raised>>

From(s, i) == SubSeq(s, i, Len(s))

\* sti takes effect behind iretq, which pops five words.
iretq(s) == stack' = From(s, 6) /\ int_flag' = (s[3] = <<"rflags", 1>>) /\ at' = "kernel"

\* pop %rsp moves the stack to the words under the saved rsp.
irq_return ==
    LET under == From(stack, Len(stack) - stack[9][2] + 1)
        popped == SubSeq(stack, 5, 9) \o under IN
    /\ at = "irq_return"
    /\ reg' = [r \in Registers |-> popped[CHOOSE i \in 1..16 : POPX64[i] = r]]
    /\ iretq(From(popped, 19))
    /\ UNCHANGED <<tables, focus_interrupt, pic, locals, code, owed, raised>>

\* The end of switch_task, in the turn of the task: the same words, but the
\* saved rsp is passed over.
switch_return ==
    /\ at = "switch_return"
    /\ reg' = [r \in Registers |->
                  IF r = "rsp" THEN reg[r]
                  ELSE stack[4 + CHOOSE i \in 1..16 : POPX64[i] = r]]
    /\ iretq(From(stack, 23))
    /\ UNCHANGED <<tables, focus_interrupt, pic, locals, code, owed, raised>>

\* int_syscall drops its 22 words and returns with the handler's rax.
syscall_return == /\ at = "syscall_return" /\ iretq(From(stack, 23))
                  /\ UNCHANGED <<tables, focus_interrupt, pic, reg, locals, code, owed, raised>>

Cpu == idt_init \/ Enter \/ irq_handle \/ syscall_handle \/ isr_handle
                \/ irq_return \/ switch_return \/ syscall_return
Next == \/ Cpu \/ Deliver \/ Syscall \/ Leaf
        \/ \E n \in Lines : Raise(n)
        \/ \E chip \in Chips : Spurious(chip)
        \/ \E v \in Faults : Fault(v)

\* The processor goes on, and takes a request while it accepts one again and
\* again: the controller keeps its output high until it is asked.
Spec == Init /\ [][Next]_vars /\ WF_vars(Cpu) /\ SF_vars(Deliver)

-----------------------------------------------------------------------------
(* Properties *)

\* Whenever interrupts are on, no level is left in service at either
\* controller, so no line is blocked: irq_handle acknowledges both controllers
\* of a line of the slave, also lines that have no driver.
Acknowledged == int_flag => isr = [c \in Chips |-> {}]

\* Every interrupt taken leads to a stub: idt_init fills the gates and moves
\* the controllers' vectors before interrupts are turned on.
NeverLost == at # "lost"

\* The frame a handler is given is laid out as cpu_register_t says: each field
\* read by isr_handle, irq_handle or switch_task is the word of that name, and
\* interrupt_code is the vector.
FrameAsDeclared ==
    at \in {"isr", "irq", "syscall_handle"} =>
        /\ \A f \in {"cr0", "cr2", "cr3", "cr4", "rip", "cs", "rflags", "rsp0", "ss", "rsp"} :
              stack[Field(f)][1] = f
        /\ stack[Field("error_code")][1] = "error"
        /\ \A f \in Registers \ {"rsp"} :
              code >= 32 => stack[Field(f)] = <<f, 0>>
        /\ stack[Field("interrupt_code")] = <<"code", code>>

\* The interrupted program goes on with its own registers, except those that a
\* function call may change after a system call, and with its stack from rsp up,
\* through irq_stub's tail, switch_task's or int_syscall's.  What a leaf function
\* keeps below rsp (locals) is lost, and not claimed.
Resumes ==
    at = "kernel" /\ code # 0 =>
        /\ stack = <<>> /\ int_flag
        /\ \A r \in Registers \ {"rsp"} :
              reg[r] = <<r, 0>> \/ (code = SYSCALL /\ r \in Scratch)

\* Each interrupt of the timer or the keyboard has run its driver by the time
\* the interrupted program goes on: the vectors the controllers send are those
\* time_init and keyboard_init register.
DriverCalled == at = "kernel" => owed = {}

\* A line that a device raised is taken, unless an exception stopped the machine
\* or a task has made the exit call: its loop runs with interrupts off, for ever.
LineServed ==
    \A n \in Lines :
        (n % 8) \in irr[IF n < 8 THEN "master" ELSE "slave"]
            ~> \/ (n % 8) \notin irr[IF n < 8 THEN "master" ELSE "slave"]
               \/ at \in {"halted", "exited"}
=============================================================================
