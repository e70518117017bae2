--------------------------------- MODULE Boot ---------------------------------
(****************************************************************************)
(* Start-up and interrupts: the loader (src/kernel-entrypoint.s),            *)
(* kernel_setup (src/kernel.c), and from the moment interrupts are on the    *)
(* way of every interrupt, system call and exception through the tables that *)
(* kernel_setup is still filling: PIC, IDT, GDT, TSS (src/interrupt.c,       *)
(* src/idt.c, src/gdt.c, src/intsetup.s).                                    *)
(*                                                                           *)
(* The processor, the PIC (its master: the slave is masked and never asks),  *)
(* the timer and the keyboard are external.  A processor that cannot deliver *)
(* an interrupt resets: the state "dead".                                    *)
(*                                                                           *)
(* Assumed: no key is struck before pic_remap.  ICW1 forgets its edge, and   *)
(* with the scancode unread the keyboard never raises another.               *)
(****************************************************************************)
EXTENDS Integers, Sequences

IRQ_TIMER == 0
IRQ_KEYBOARD == 1
Irq == {IRQ_TIMER, IRQ_KEYBOARD}
BIOS_OFFSET == 8            \* what the firmware leaves in the PIC
PIC1_OFFSET == 32
PAGE_FAULT == 14
SYSCALL == 48
ISR_STUB_TABLE_LIMIT == 64  \* gates 0 .. 63

VARIABLES
    at,             \* the step of Setup the kernel is at; one past the last is the user
    ready,          \* the tables that are in place, see Tables
    page0,          \* what the first 4 MiB are mapped to
    program,        \* what lies at address 0
    disk,           \* whether the disk holds a shell
    iflag, cpl,        \* processor: interrupts enabled, privilege
    frames,         \* interrupts being served, innermost last
    offset, mask, irr, isr,  \* PIC: vector of IRQ 0, masked, requested, in service
    full,           \* the keyboard's data port holds a scancode nobody has read
    keyboard_input_on,
    dead

memory == <<page0, program, disk>>
cpu == <<iflag, cpl, frames, dead>>
pic == <<offset, mask, irr, isr>>
keyboard == <<full, keyboard_input_on>>
vars == <<at, ready, memory, cpu, pic, keyboard>>

\* GDT loaded, IDT filled, IDT loaded, the TSS's base in the GDT, the TSS loaded,
\* its kernel stack set.
Tables == {"gdt", "gates", "idtr", "base", "tr", "esp0"}

BugSetup ==       \* the PIC is set up after interrupts are on
    <<"enable_paging", "loader_virtual", "load_gdt", "set_interrupt_gates", "lidt",
      "sti", "pic_remap", "activate_keyboard_interrupt", "gdt_install_tss",
      "set_tss_register", "allocate", "read", "set_tss_kernel_current_stack",
      "kernel_execute_user_program">>
BugSetupPage ==   \* the shell is read before there is a page for it
    <<"enable_paging", "loader_virtual", "load_gdt", "pic_remap", "set_interrupt_gates",
      "lidt", "sti", "activate_keyboard_interrupt", "gdt_install_tss",
      "set_tss_register", "read", "allocate", "set_tss_kernel_current_stack",
      "kernel_execute_user_program">>
\* The steps of the loader and of kernel_setup that these tables see.
Setup ==
    <<"enable_paging", "loader_virtual", "load_gdt", "pic_remap", "set_interrupt_gates",
      "lidt", "sti", "activate_keyboard_interrupt", "gdt_install_tss",
      "set_tss_register", "allocate", "read", "set_tss_kernel_current_stack",
      "kernel_execute_user_program">>
User == Len(Setup) + 1

Init ==
    /\ at = 1 /\ ready = {}
    /\ page0 = "none" /\ program = "none" /\ disk \in BOOLEAN
    /\ iflag = FALSE /\ cpl = 0 /\ frames = <<>> /\ dead = FALSE
    /\ offset = BIOS_OFFSET /\ mask = {} /\ irr = {} /\ isr = {}
    /\ full = FALSE /\ keyboard_input_on = FALSE

-----------------------------------------------------------------------------
(* The processor *)

\* The PIC asks for the lowest request that is not masked and not behind one in service.
Asked == {q \in irr \ mask : \A p \in isr : q < p}
Interrupted == iflag /\ Asked # {}

\* Between two instructions, with no interrupt to take first.
Ready == ~dead /\ ~Interrupted
Running(s) == Ready /\ frames = <<>> /\ at < User /\ Setup[at] = s

\* A vector can be delivered: its gate is there and open to the caller, and from
\* user mode there is a kernel stack to change to.  A device interrupt on a vector
\* of the processor's own has no error code where the stub expects one.
Deliverable(vector, device) ==
    /\ {"gdt", "gates", "idtr"} \subseteq ready
    /\ vector \in 0 .. ISR_STUB_TABLE_LIMIT - 1
    /\ device => vector >= PIC1_OFFSET
    /\ cpl = 3 => {"tr", "esp0"} \subseteq ready

Push(vector) ==
    frames' = Append(frames, [vector |-> vector, cpl |-> cpl, if |-> iflag, todo |-> "handle"])

BugRaise(vector, device) ==   \* a trap gate
    IF Deliverable(vector, device)
    THEN /\ Push(vector) /\ cpl' = 0 /\ UNCHANGED <<iflag, dead>>
    ELSE dead' = TRUE /\ UNCHANGED <<frames, cpl, iflag>>
\* All gates are interrupt gates: the flag is off until iret.
Raise(vector, device) ==
    IF Deliverable(vector, device)
    THEN /\ Push(vector) /\ cpl' = 0 /\ iflag' = FALSE /\ UNCHANGED dead
    ELSE dead' = TRUE /\ UNCHANGED <<frames, cpl, iflag>>

TakeInterrupt ==
    /\ ~dead /\ Interrupted
    /\ LET q == CHOOSE q \in Asked : \A p \in Asked : q <= p IN
       /\ Raise(offset + q, TRUE)
       /\ isr' = isr \cup {q} /\ irr' = irr \ {q}
    /\ UNCHANGED <<at, ready, memory, offset, mask, keyboard>>

-----------------------------------------------------------------------------
(* Devices *)

Tick == /\ IRQ_TIMER \notin irr /\ irr' = irr \cup {IRQ_TIMER}
        /\ UNCHANGED <<at, ready, memory, cpu, offset, mask, isr, keyboard>>

Strike ==
    /\ offset = PIC1_OFFSET /\ ~full
    /\ full' = TRUE /\ irr' = irr \cup {IRQ_KEYBOARD}
    /\ UNCHANGED <<at, ready, memory, cpu, offset, mask, isr, keyboard_input_on>>

-----------------------------------------------------------------------------
(* Loader and kernel_setup *)

Step(s) == Running(s) /\ at' = at + 1

\* Page directory with pages 0 and 0x300 on the kernel, 4 MiB pages, CR0.PG.
enable_paging ==
    /\ Step("enable_paging") /\ page0' = "kernel"
    /\ UNCHANGED <<ready, program, disk, cpu, pic, keyboard>>
\* In the higher half: the identity mapping goes.
loader_virtual ==
    /\ Step("loader_virtual") /\ page0' = "none"
    /\ UNCHANGED <<ready, program, disk, cpu, pic, keyboard>>

InPlace(what) == ready' = ready \cup what /\ UNCHANGED <<memory, pic, keyboard>>
load_gdt ==
    /\ Step("load_gdt") /\ InPlace({"gdt"})
    /\ iflag' = FALSE /\ UNCHANGED <<cpl, frames, dead>>
set_interrupt_gates == Step("set_interrupt_gates") /\ InPlace({"gates"}) /\ UNCHANGED cpu
lidt == Step("lidt") /\ InPlace({"idtr"}) /\ UNCHANGED cpu
gdt_install_tss == Step("gdt_install_tss") /\ InPlace({"base"}) /\ UNCHANGED cpu
\* ltr copies the descriptor as it stands.
set_tss_register ==
    /\ Step("set_tss_register") /\ InPlace(IF "base" \in ready THEN {"tr"} ELSE {})
    /\ UNCHANGED cpu
set_tss_kernel_current_stack ==
    /\ Step("set_tss_kernel_current_stack") /\ InPlace({"esp0"}) /\ UNCHANGED cpu

\* ICW1 to ICW4, then all is masked.
pic_remap ==
    /\ Step("pic_remap")
    /\ offset' = PIC1_OFFSET /\ mask' = Irq /\ irr' = {} /\ isr' = {}
    /\ UNCHANGED <<ready, memory, cpu, keyboard>>
sti ==
    /\ Step("sti") /\ iflag' = TRUE
    /\ UNCHANGED <<ready, memory, cpl, frames, dead, pic, keyboard>>
BugActivate ==                \* all interrupts are let in
    /\ Step("activate_keyboard_interrupt") /\ mask' = {}
    /\ UNCHANGED <<ready, memory, cpu, offset, irr, isr, keyboard>>
activate_keyboard_interrupt ==
    /\ Step("activate_keyboard_interrupt") /\ mask' = mask \ {IRQ_KEYBOARD}
    /\ UNCHANGED <<ready, memory, cpu, offset, irr, isr, keyboard>>

allocate ==
    /\ Step("allocate") /\ page0' = "user" /\ program' = "unset"
    /\ UNCHANGED <<ready, disk, cpu, pic, keyboard>>
\* The shell is read to address 0; the code of read is dropped.  Without a shell on
\* the disk nothing is read; without a page the store would fault, for ever.
read ==
    /\ Running("read")
    /\ IF disk /\ page0 # "user"
       THEN Raise(PAGE_FAULT, FALSE) /\ UNCHANGED <<at, program>>
       ELSE /\ at' = at + 1 /\ program' = IF disk THEN "shell" ELSE program
            /\ UNCHANGED cpu
    /\ UNCHANGED <<ready, page0, disk, pic, keyboard>>
kernel_execute_user_program ==
    /\ Step("kernel_execute_user_program") /\ cpl' = 3
    /\ UNCHANGED <<ready, memory, iflag, frames, dead, pic, keyboard>>

-----------------------------------------------------------------------------
(* The user program *)

InUser == Ready /\ frames = <<>> /\ at = User

Int0x30 ==
    /\ InUser /\ program = "shell"
    /\ Raise(SYSCALL, FALSE) /\ UNCHANGED <<at, ready, memory, pic, keyboard>>
\* Whatever is no program runs off its page; the handler of the fault does
\* nothing and it faults again.
RunOff ==
    /\ InUser /\ program # "shell"
    /\ Raise(PAGE_FAULT, FALSE) /\ UNCHANGED <<at, ready, memory, pic, keyboard>>

-----------------------------------------------------------------------------
(* Handlers *)

Top == frames[Len(frames)]
Handling(what) == Ready /\ frames # <<>> /\ Top.todo = what
ThenDo(what) == frames' = [frames EXCEPT ![Len(frames)].todo = what]

BugKeyboardIsr ==             \* off, it does not even acknowledge
    /\ Handling("handle") /\ Top.vector = PIC1_OFFSET + IRQ_KEYBOARD
    /\ full' = FALSE /\ ThenDo(IF keyboard_input_on THEN "ack" ELSE "return")
    /\ UNCHANGED <<at, ready, memory, iflag, cpl, dead, pic, keyboard_input_on>>
\* keyboard_isr up to the acknowledgement: the scancode is read, wanted or not.
keyboard_isr ==
    /\ Handling("handle") /\ Top.vector = PIC1_OFFSET + IRQ_KEYBOARD
    /\ full' = FALSE /\ ThenDo("ack")
    /\ UNCHANGED <<at, ready, memory, iflag, cpl, dead, pic, keyboard_input_on>>

\* A non-specific end of interrupt: it ends what has the highest priority.
pic_ack ==
    /\ Handling("ack") /\ ThenDo("return")
    /\ isr' = {q \in isr : \E p \in isr : p < q}
    /\ UNCHANGED <<at, ready, memory, iflag, cpl, dead, offset, mask, irr, keyboard>>

\* The calls this module sees are KEYBOARD_ACTIVATE, all others that return, and a
\* delete whose walk along a chain has left the FAT: it comes to the page of the
\* shell, where it is empty, reads cluster 0 there and stays at cluster 0.
syscall ==
    /\ Handling("handle") /\ Top.vector = SYSCALL
    /\ \/ ThenDo("return") /\ keyboard_input_on' \in {keyboard_input_on, TRUE}
       \/ ThenDo("walk") /\ UNCHANGED keyboard_input_on
    /\ UNCHANGED <<at, ready, memory, iflag, cpl, dead, pic, full>>

\* From there on: the loop's next turn, with interrupts off, changes nothing.
Walk == Handling("walk") /\ UNCHANGED vars

\* main_interrupt_handler knows no other vector, and acknowledges none.
Ignore ==
    /\ Handling("handle") /\ Top.vector \notin {PIC1_OFFSET + IRQ_KEYBOARD, SYSCALL}
    /\ ThenDo("return")
    /\ UNCHANGED <<at, ready, memory, iflag, cpl, dead, pic, keyboard>>

\* sti takes effect after the instruction that follows it, which is iret.
iret ==
    /\ Handling("return")
    /\ iflag' = Top.if /\ cpl' = Top.cpl /\ frames' = SubSeq(frames, 1, Len(frames) - 1)
    /\ UNCHANGED <<at, ready, memory, dead, pic, keyboard>>

-----------------------------------------------------------------------------
KernelSetup ==
    \/ enable_paging \/ loader_virtual \/ load_gdt \/ pic_remap \/ set_interrupt_gates
    \/ lidt \/ sti \/ activate_keyboard_interrupt \/ gdt_install_tss
    \/ set_tss_register \/ allocate \/ read
    \/ set_tss_kernel_current_stack \/ kernel_execute_user_program
Handler == keyboard_isr \/ pic_ack \/ syscall \/ Walk \/ Ignore \/ iret
Processor == KernelSetup \/ Int0x30 \/ RunOff \/ Handler \/ TakeInterrupt

Next == Processor \/ Tick \/ Strike

Spec == Init /\ [][Next]_vars

\* The processor never stops, a loop without end has a next turn too.  Nobody need
\* strike a key.
FairSpec == Spec /\ WF_vars(Processor)

-----------------------------------------------------------------------------
(* What makes the start-up right *)

Frame == [vector : 0 .. ISR_STUB_TABLE_LIMIT - 1, cpl : {0, 3}, if : BOOLEAN,
          todo : {"handle", "ack", "walk", "return"}]

\* Every variable has a value of its type, and only the keyboard is ever in
\* service: nobody would acknowledge the timer.
TypeOK ==
    /\ at \in 1 .. User /\ ready \subseteq Tables
    /\ disk \in BOOLEAN /\ iflag \in BOOLEAN /\ dead \in BOOLEAN
    /\ full \in BOOLEAN /\ keyboard_input_on \in BOOLEAN
    /\ page0 \in {"none", "kernel", "user"}
    /\ program \in {"none", "unset", "shell"} /\ cpl \in {0, 3}
    /\ frames \in Seq(Frame)
    /\ offset \in {BIOS_OFFSET, PIC1_OFFSET} /\ mask \subseteq Irq /\ irr \subseteq Irq
    /\ isr \subseteq {IRQ_KEYBOARD}

\* Whatever is raised at whatever step of the start-up or of the shell, the tables
\* it goes through are in place: gates, vectors, segments and kernel stack.
NeverDead == ~dead

\* Handlers do not nest: a system call is not interrupted and a key is not handled
\* within another.  (This is why FAT32 and Console take a handler for one step.)
OneHandler == Len(frames) <= 1

\* A delete is walking for ever.
NeverReturns == frames # <<>> /\ Top.todo = "walk"

\* A key struck at any time, during start-up, a system call or an endless fault, is
\* taken from the keyboard and none blocks those after it, unless a system call
\* never returns: with the gates closed that is the end of all input.
KeysServed == full ~> (~full \/ NeverReturns)

\* If the disk has a shell the start-up ends with the shell running in user mode,
\* unless keys are struck for ever: each is served before the next instruction.
ShellStarts ==
    []<><<Strike>>_vars \/ ((disk /\ at < User) ~> (cpl = 3 /\ program = "shell"))
=============================================================================
