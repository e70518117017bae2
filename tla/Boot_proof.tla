------------------------------ MODULE Boot_proof ------------------------------
(* Start-up and interrupts: no interrupt, fault or call ever meets a table     *)
(* that is not in place, and handlers do not nest.                             *)
EXTENDS Boot, TLAPS

\* Which tables the steps before at have put in place.
TablesInOrder ==
    /\ at > 3 => "gdt" \in ready
    /\ at > 5 => "gates" \in ready
    /\ at > 6 => "idtr" \in ready
    /\ at > 9 => "base" \in ready
    /\ at > 10 => "tr" \in ready
    /\ at > 13 => "esp0" \in ready

\* What is let in: nothing before the gates are there, and from the PIC only the
\* keyboard, on its own vector.
LetIn ==
    /\ iflag \/ frames # <<>> => at > 7
    /\ at > 4 => offset = PIC1_OFFSET /\ IRQ_TIMER \in mask
    /\ cpl = 3 => at = User

\* A handler runs alone and with interrupts off.
Alone ==
    /\ frames = <<>>
       \/ \E f \in Frame : frames = <<f>> /\ ~iflag /\ (f.cpl = 3 => at = User)

BootInv == TypeOK /\ TablesInOrder /\ LetIn /\ Alone /\ NeverDead

\* The steps of Setup by number.
LEMMA SetupOrder ==
    /\ User = 15
    /\ \A k \in 1 .. 14 :
        /\ Setup[k] = "enable_paging" => k = 1
        /\ Setup[k] = "loader_virtual" => k = 2
        /\ Setup[k] = "load_gdt" => k = 3
        /\ Setup[k] = "pic_remap" => k = 4
        /\ Setup[k] = "set_interrupt_gates" => k = 5
        /\ Setup[k] = "lidt" => k = 6
        /\ Setup[k] = "sti" => k = 7
        /\ Setup[k] = "activate_keyboard_interrupt" => k = 8
        /\ Setup[k] = "gdt_install_tss" => k = 9
        /\ Setup[k] = "set_tss_register" => k = 10
        /\ Setup[k] = "allocate" => k = 11
        /\ Setup[k] = "read" => k = 12
        /\ Setup[k] = "set_tss_kernel_current_stack" => k = 13
        /\ Setup[k] = "kernel_execute_user_program" => k = 14
  BY DEF User, Setup

LEMMA BootInit == Init => BootInv
<1> SUFFICES ASSUME Init PROVE BootInv
  OBVIOUS
<1> USE DEF Init
<1>1. disk \in BOOLEAN /\ iflag \in BOOLEAN /\ dead \in BOOLEAN
      /\ full \in BOOLEAN /\ keyboard_input_on \in BOOLEAN
  BY Zenon
<1>2. frames \in Seq(Frame)
  OBVIOUS
<1>3. at \in 1 .. User /\ ready \subseteq Tables /\ page0 \in {"none", "kernel", "user"}
      /\ program \in {"none", "unset", "shell"} /\ cpl \in {0, 3}
      /\ offset \in {BIOS_OFFSET, PIC1_OFFSET} /\ mask \subseteq Irq /\ irr \subseteq Irq
      /\ isr \subseteq {IRQ_KEYBOARD}
  BY SetupOrder
<1>4. TypeOK
  BY <1>1, <1>2, <1>3 DEF TypeOK
<1>5. TablesInOrder /\ LetIn
  BY DEF TablesInOrder, LetIn
<1>6. Alone /\ NeverDead
  BY DEF Alone, NeverDead
<1> QED  BY <1>4, <1>5, <1>6 DEF BootInv

LEMMA RunningAt ==
  ASSUME at \in 1 .. User, NEW s, Running(s)
  PROVE  at \in 1 .. 14 /\ Setup[at] = s /\ frames = <<>>
  BY SetupOrder DEF Running

\* What a statement of the start-up does to the variables, the tables aside.
Statement(k) ==
    /\ at = k /\ at' = k + 1
    /\ frames = <<>> /\ frames' = frames /\ UNCHANGED <<dead, disk, keyboard>>
    /\ iflag' = iflag \/ iflag' = FALSE \/ (iflag' = TRUE /\ k = 7)
    /\ cpl' = cpl \/ (cpl' = 3 /\ k = 14)
    /\ page0' \in {page0, "none", "kernel", "user"}
    /\ program' \in {program, "unset", "shell"}
    /\ offset' = offset \/ offset' = PIC1_OFFSET
    /\ k = 4 => offset' = PIC1_OFFSET /\ mask' = Irq
    /\ mask' \in {mask, Irq, mask \ {IRQ_KEYBOARD}}
    /\ irr' \in {irr, {}} /\ isr' \in {isr, {}}

LEMMA StatementKeeps ==
  ASSUME BootInv, NEW k \in 1 .. 14, Statement(k),
         ready' \subseteq Tables, TablesInOrder'
  PROVE  BootInv'
<1> USE SetupOrder DEF BootInv, Statement
<1>1. disk' \in BOOLEAN /\ iflag' \in BOOLEAN /\ dead' \in BOOLEAN
      /\ full' \in BOOLEAN /\ keyboard_input_on' \in BOOLEAN
  BY Zenon DEF TypeOK, keyboard
<1>2. frames' \in Seq(Frame) /\ at' \in 1 .. User
  BY DEF TypeOK
<1>3. page0' \in {"none", "kernel", "user"} /\ program' \in {"none", "unset", "shell"}
      /\ cpl' \in {0, 3}
  BY DEF TypeOK
<1>4. offset' \in {BIOS_OFFSET, PIC1_OFFSET} /\ mask' \subseteq Irq /\ irr' \subseteq Irq
      /\ isr' \subseteq {IRQ_KEYBOARD}
  BY DEF TypeOK
<1>5. TypeOK'
  BY <1>1, <1>2, <1>3, <1>4 DEF TypeOK
<1>6. LetIn'
  BY DEF LetIn, Irq, IRQ_TIMER, IRQ_KEYBOARD
<1>7. Alone' /\ NeverDead'
  BY DEF Alone, NeverDead
<1> QED
  BY <1>5, <1>6, <1>7

LEMMA SetupKeeps ==
  ASSUME BootInv, KernelSetup, ~read
  PROVE  BootInv'
<1> USE DEF memory, cpu, pic, keyboard
<1>1. at \in 1 .. User /\ ready \subseteq Tables /\ TablesInOrder
  BY DEF BootInv, TypeOK
<1>2. CASE enable_paging
  <2>1. at = 1 /\ frames = <<>>
    BY <1>1, <1>2, SetupOrder, RunningAt DEF enable_paging, Step
  <2>2. Statement(1)
    BY <1>2, <2>1 DEF enable_paging, Step, Statement
  <2>3. ready' \subseteq Tables /\ TablesInOrder'
    BY <1>1, <1>2, <2>1 DEF enable_paging, Step, TablesInOrder, Tables
  <2> QED
    BY <2>2, <2>3, StatementKeeps
<1>3. CASE loader_virtual
  <2>1. at = 2 /\ frames = <<>>
    BY <1>1, <1>3, SetupOrder, RunningAt DEF loader_virtual, Step
  <2>2. Statement(2)
    BY <1>3, <2>1 DEF loader_virtual, Step, Statement
  <2>3. ready' \subseteq Tables /\ TablesInOrder'
    BY <1>1, <1>3, <2>1 DEF loader_virtual, Step, TablesInOrder, Tables
  <2> QED
    BY <2>2, <2>3, StatementKeeps
<1>4. CASE load_gdt
  <2>1. at = 3 /\ frames = <<>>
    BY <1>1, <1>4, SetupOrder, RunningAt DEF load_gdt, Step
  <2>2. Statement(3)
    BY <1>4, <2>1 DEF load_gdt, Step, Statement, InPlace
  <2>3. ready' \subseteq Tables /\ TablesInOrder'
    BY <1>1, <1>4, <2>1 DEF load_gdt, Step, TablesInOrder, Tables, InPlace
  <2> QED
    BY <2>2, <2>3, StatementKeeps
<1>5. CASE pic_remap
  <2>1. at = 4 /\ frames = <<>>
    BY <1>1, <1>5, SetupOrder, RunningAt DEF pic_remap, Step
  <2>2. Statement(4)
    BY <1>5, <2>1 DEF pic_remap, Step, Statement
  <2>3. ready' \subseteq Tables /\ TablesInOrder'
    BY <1>1, <1>5, <2>1 DEF pic_remap, Step, TablesInOrder, Tables
  <2> QED
    BY <2>2, <2>3, StatementKeeps
<1>6. CASE set_interrupt_gates
  <2>1. at = 5 /\ frames = <<>>
    BY <1>1, <1>6, SetupOrder, RunningAt DEF set_interrupt_gates, Step
  <2>2. Statement(5)
    BY <1>6, <2>1 DEF set_interrupt_gates, Step, Statement, InPlace
  <2>3. ready' \subseteq Tables /\ TablesInOrder'
    BY <1>1, <1>6, <2>1 DEF set_interrupt_gates, Step, TablesInOrder, Tables, InPlace
  <2> QED
    BY <2>2, <2>3, StatementKeeps
<1>7. CASE lidt
  <2>1. at = 6 /\ frames = <<>>
    BY <1>1, <1>7, SetupOrder, RunningAt DEF lidt, Step
  <2>2. Statement(6)
    BY <1>7, <2>1 DEF lidt, Step, Statement, InPlace
  <2>3. ready' \subseteq Tables /\ TablesInOrder'
    BY <1>1, <1>7, <2>1 DEF lidt, Step, TablesInOrder, Tables, InPlace
  <2> QED
    BY <2>2, <2>3, StatementKeeps
<1>8. CASE sti
  <2>1. at = 7 /\ frames = <<>>
    BY <1>1, <1>8, SetupOrder, RunningAt DEF sti, Step
  <2>2. Statement(7)
    BY <1>8, <2>1 DEF sti, Step, Statement
  <2>3. ready' \subseteq Tables /\ TablesInOrder'
    BY <1>1, <1>8, <2>1 DEF sti, Step, TablesInOrder, Tables
  <2> QED
    BY <2>2, <2>3, StatementKeeps
<1>9. CASE activate_keyboard_interrupt
  <2>1. at = 8 /\ frames = <<>>
    BY <1>1, <1>9, SetupOrder, RunningAt DEF activate_keyboard_interrupt, Step
  <2>2. Statement(8)
    BY <1>9, <2>1 DEF activate_keyboard_interrupt, Step, Statement
  <2>3. ready' \subseteq Tables /\ TablesInOrder'
    BY <1>1, <1>9, <2>1 DEF activate_keyboard_interrupt, Step, TablesInOrder, Tables
  <2> QED
    BY <2>2, <2>3, StatementKeeps
<1>10. CASE gdt_install_tss
  <2>1. at = 9 /\ frames = <<>>
    BY <1>1, <1>10, SetupOrder, RunningAt DEF gdt_install_tss, Step
  <2>2. Statement(9)
    BY <1>10, <2>1 DEF gdt_install_tss, Step, Statement, InPlace
  <2>3. ready' \subseteq Tables /\ TablesInOrder'
    BY <1>1, <1>10, <2>1 DEF gdt_install_tss, Step, TablesInOrder, Tables, InPlace
  <2> QED
    BY <2>2, <2>3, StatementKeeps
<1>11. CASE set_tss_register
  <2>1. at = 10 /\ frames = <<>>
    BY <1>1, <1>11, SetupOrder, RunningAt DEF set_tss_register, Step
  <2>2. Statement(10)
    BY <1>11, <2>1 DEF set_tss_register, Step, Statement, InPlace
  <2>3. ready' \subseteq Tables /\ TablesInOrder'
    BY <1>1, <1>11, <2>1 DEF set_tss_register, Step, TablesInOrder, Tables, InPlace
  <2> QED
    BY <2>2, <2>3, StatementKeeps
<1>12. CASE allocate
  <2>1. at = 11 /\ frames = <<>>
    BY <1>1, <1>12, SetupOrder, RunningAt DEF allocate, Step
  <2>2. Statement(11)
    BY <1>12, <2>1 DEF allocate, Step, Statement
  <2>3. ready' \subseteq Tables /\ TablesInOrder'
    BY <1>1, <1>12, <2>1 DEF allocate, Step, TablesInOrder, Tables
  <2> QED
    BY <2>2, <2>3, StatementKeeps
<1>13. CASE set_tss_kernel_current_stack
  <2>1. at = 13 /\ frames = <<>>
    BY <1>1, <1>13, SetupOrder, RunningAt DEF set_tss_kernel_current_stack, Step
  <2>2. Statement(13)
    BY <1>13, <2>1 DEF set_tss_kernel_current_stack, Step, Statement, InPlace
  <2>3. ready' \subseteq Tables /\ TablesInOrder'
    BY <1>1, <1>13, <2>1 DEF set_tss_kernel_current_stack, Step, TablesInOrder, Tables, InPlace
  <2> QED
    BY <2>2, <2>3, StatementKeeps
<1>14. CASE kernel_execute_user_program
  <2>1. at = 14 /\ frames = <<>>
    BY <1>1, <1>14, SetupOrder, RunningAt DEF kernel_execute_user_program, Step
  <2>2. Statement(14)
    BY <1>14, <2>1 DEF kernel_execute_user_program, Step, Statement
  <2>3. ready' \subseteq Tables /\ TablesInOrder'
    BY <1>1, <1>14, <2>1 DEF kernel_execute_user_program, Step, TablesInOrder, Tables
  <2> QED
    BY <2>2, <2>3, StatementKeeps
<1> QED
  BY <1>2, <1>3, <1>4, <1>5, <1>6, <1>7, <1>8, <1>9, <1>10, <1>11, <1>12, <1>13, <1>14 DEF KernelSetup

\* What is raised ends at a handler that is alone and cannot be interrupted.
AtHandler ==
    /\ dead' = dead /\ iflag' = FALSE /\ cpl' = 0
    /\ \E f \in Frame : frames' = <<f>> /\ (f.cpl = 3 => at = User)

\* So does whatever is raised from the eighth step on.
LEMMA RaiseDelivers ==
  ASSUME BootInv, at > 7, frames = <<>>, NEW device \in BOOLEAN,
         NEW vector \in 0 .. ISR_STUB_TABLE_LIMIT - 1,
         device => vector >= PIC1_OFFSET, Raise(vector, device)
  PROVE  AtHandler
<1> DEFINE f == [vector |-> vector, cpl |-> cpl, if |-> iflag, todo |-> "handle"]
<1>0. at \in 1 .. User
  BY DEF BootInv, TypeOK
<1>1. Deliverable(vector, device)
  <2>1. {"gdt", "gates", "idtr"} \subseteq ready
    BY <1>0, SetupOrder DEF BootInv, TablesInOrder
  <2>2. cpl = 3 => {"tr", "esp0"} \subseteq ready
    BY <1>0, SetupOrder DEF BootInv, TablesInOrder, LetIn
  <2> QED
    BY <2>1, <2>2 DEF Deliverable
<1>2. dead' = dead /\ iflag' = FALSE /\ cpl' = 0 /\ frames' = <<f>>
  BY <1>1 DEF Raise, Push
<1>3. iflag \in BOOLEAN /\ cpl \in {0, 3}
  BY DEF BootInv, TypeOK
<1>4. f \in Frame
  BY <1>3 DEF Frame
<1>5. f.cpl = 3 => at = User
  BY DEF BootInv, LetIn
<1> QED
  BY <1>2, <1>4, <1>5 DEF AtHandler

\* What the processor raises itself, and what a device raises.
LEMMA FaultDelivers ==
  ASSUME BootInv, at > 7, frames = <<>>,
         NEW vector \in {PAGE_FAULT, SYSCALL}, Raise(vector, FALSE)
  PROVE  AtHandler
<1>1. vector \in 0 .. ISR_STUB_TABLE_LIMIT - 1
  BY DEF PAGE_FAULT, SYSCALL, ISR_STUB_TABLE_LIMIT
<1>2. FALSE \in BOOLEAN /\ (FALSE => vector >= PIC1_OFFSET)
  OBVIOUS
<1> QED
  BY <1>1, <1>2, RaiseDelivers, Zenon

LEMMA KeyDelivers ==
  ASSUME BootInv, at > 7, frames = <<>>, Raise(PIC1_OFFSET + IRQ_KEYBOARD, TRUE)
  PROVE  AtHandler
<1>1. /\ PIC1_OFFSET + IRQ_KEYBOARD \in 0 .. ISR_STUB_TABLE_LIMIT - 1
      /\ PIC1_OFFSET + IRQ_KEYBOARD >= PIC1_OFFSET
  BY DEF PIC1_OFFSET, IRQ_KEYBOARD, ISR_STUB_TABLE_LIMIT
<1>2. TRUE \in BOOLEAN
  OBVIOUS
<1> QED
  BY <1>1, <1>2, RaiseDelivers, Zenon

\* A step after the eighth that leaves the tables alone and at most one handler.
LEMMA LaterKeeps ==
  ASSUME BootInv, at > 7, UNCHANGED <<ready, page0, disk, offset, mask>>,
         at' = at \/ (frames = <<>> /\ cpl = 0 /\ at = 12 /\ at' = 13),
         program' \in {program, "shell"},
         iflag' \in BOOLEAN, dead' = dead, full' \in BOOLEAN,
         keyboard_input_on' \in BOOLEAN,
         irr' \subseteq Irq, isr' \subseteq {IRQ_KEYBOARD},
         cpl' \in {0, 3}, cpl' = 3 => at' = User,
         Alone'
  PROVE  BootInv'
<1> USE SetupOrder DEF BootInv
<1>1. disk' \in BOOLEAN /\ iflag' \in BOOLEAN /\ dead' \in BOOLEAN
      /\ full' \in BOOLEAN /\ keyboard_input_on' \in BOOLEAN
  BY Zenon DEF TypeOK
<1>2. frames' \in Seq(Frame)
  <2>1. CASE frames' = <<>>
    BY <2>1
  <2>2. CASE \E f \in Frame : frames' = <<f>>
    BY <2>2
  <2> QED
    BY <2>1, <2>2 DEF Alone
<1>3. at' \in 1 .. User /\ ready' \subseteq Tables
      /\ program' \in {"none", "unset", "shell"} /\ page0' \in {"none", "kernel", "user"}
      /\ offset' \in {BIOS_OFFSET, PIC1_OFFSET} /\ mask' \subseteq Irq
  BY DEF TypeOK
<1>4. TypeOK'
  BY <1>1, <1>2, <1>3 DEF TypeOK
<1>5. TablesInOrder' /\ LetIn' /\ NeverDead'
  BY <1>3 DEF TablesInOrder, LetIn, NeverDead
<1> QED
  BY <1>4, <1>5

\* A step that goes to a handler and leaves the start-up where it is.
LEMMA DeliveryKeeps ==
  ASSUME BootInv, at > 7, AtHandler,
         UNCHANGED <<at, ready, page0, program, disk, offset, mask, full, keyboard_input_on>>,
         irr' \subseteq Irq, isr' \subseteq {IRQ_KEYBOARD}
  PROVE  BootInv'
<1>1. full' \in BOOLEAN /\ keyboard_input_on' \in BOOLEAN
  BY Zenon DEF BootInv, TypeOK
<1>2. iflag' \in BOOLEAN /\ dead' = dead
  BY Zenon DEF AtHandler
<1>3. cpl' \in {0, 3} /\ (cpl' = 3 => at' = User)
  BY DEF AtHandler
<1>4. Alone'
  BY SetupOrder DEF AtHandler, Alone, User
<1> QED
  BY <1>1, <1>2, <1>3, <1>4, LaterKeeps

LEMMA ReadKeeps == ASSUME BootInv, read PROVE BootInv'
<1> USE DEF memory, cpu, pic, keyboard
<1>1. at \in 1 .. User /\ irr \subseteq Irq /\ isr \subseteq {IRQ_KEYBOARD}
  BY DEF BootInv, TypeOK
<1>2. at = 12 /\ frames = <<>>
  BY <1>1, SetupOrder, RunningAt DEF read
<1>3. cpl = 0
  BY <1>1, <1>2, SetupOrder DEF BootInv, TypeOK, LetIn
<1>4. CASE disk /\ page0 # "user"
  <2>1. Raise(PAGE_FAULT, FALSE) /\ UNCHANGED <<at, program>>
    BY <1>4, Zenon DEF read
  <2>2. UNCHANGED <<ready, page0, disk, pic, keyboard>>
    BY DEF read
  <2>3. AtHandler
    <3>1. at > 7 /\ PAGE_FAULT \in {PAGE_FAULT, SYSCALL}
      BY <1>2
    <3> QED
      BY <1>2, <2>1, <3>1, FaultDelivers, Zenon
  <2> QED
    BY <1>1, <1>2, <2>1, <2>2, <2>3, DeliveryKeeps
<1>5. CASE ~(disk /\ page0 # "user")
  <2>1. /\ at' = at + 1 /\ program' \in {program, "shell"} /\ UNCHANGED cpu
        /\ UNCHANGED <<ready, page0, disk, pic, keyboard>>
    BY <1>5 DEF read
  <2>2. Alone'
    BY <1>2, <2>1 DEF Alone
  <2> QED
    BY <1>2, <1>3, <2>1, <2>2, LaterKeeps DEF BootInv, TypeOK
<1> QED
  BY <1>4, <1>5

\* A call or a fault in user mode.
LEMMA UserKeeps == ASSUME BootInv, Int0x30 \/ RunOff PROVE BootInv'
<1> USE DEF memory, cpu, pic, keyboard
<1>1. at = 15 /\ frames = <<>>
  BY SetupOrder DEF Int0x30, RunOff, InUser
<1>2. UNCHANGED <<at, ready, memory, pic, keyboard>>
  BY DEF Int0x30, RunOff
<1>3. Raise(PAGE_FAULT, FALSE) \/ Raise(SYSCALL, FALSE)
  BY DEF Int0x30, RunOff
<1>4. AtHandler
  <2>1. at > 7 /\ PAGE_FAULT \in {PAGE_FAULT, SYSCALL} /\ SYSCALL \in {PAGE_FAULT, SYSCALL}
    BY <1>1
  <2> QED
    BY <1>1, <1>3, <2>1, FaultDelivers, Zenon
<1>5. irr' \subseteq Irq /\ isr' \subseteq {IRQ_KEYBOARD}
  BY <1>2 DEF BootInv, TypeOK
<1> QED
  BY <1>1, <1>2, <1>4, <1>5, DeliveryKeeps

\* Of the two lines only the keyboard's is ever asked for.
LEMMA TakeInterruptKeeps == ASSUME BootInv, TakeInterrupt PROVE BootInv'
<1> USE DEF memory, cpu, pic, keyboard
<1>1. iflag /\ Asked # {}
  BY DEF TakeInterrupt, Interrupted
<1>2. at > 7 /\ frames = <<>>
  BY <1>1 DEF BootInv, LetIn, Alone
<1>3. at \in 1 .. User /\ irr \subseteq Irq
  BY DEF BootInv, TypeOK
<1>4. offset = PIC1_OFFSET /\ Asked = {IRQ_KEYBOARD}
  BY <1>1, <1>2, <1>3 DEF BootInv, LetIn, Asked, Irq
<1>5. (CHOOSE q \in Asked : \A p \in Asked : q <= p) = IRQ_KEYBOARD
  BY <1>4 DEF IRQ_KEYBOARD
<1>6. /\ Raise(offset + IRQ_KEYBOARD, TRUE)
      /\ isr' = isr \cup {IRQ_KEYBOARD} /\ irr' = irr \ {IRQ_KEYBOARD}
      /\ UNCHANGED <<at, ready, memory, offset, mask, keyboard>>
  BY <1>5 DEF TakeInterrupt
<1>7. AtHandler
  BY <1>2, <1>4, <1>6, KeyDelivers
<1>8. irr' \subseteq Irq /\ isr' \subseteq {IRQ_KEYBOARD}
  BY <1>3, <1>6 DEF BootInv, TypeOK
<1> QED
  BY <1>2, <1>6, <1>7, <1>8, DeliveryKeeps

\* A request changes what the PIC and the keyboard hold and nothing else.
LEMMA DevicesKeep == ASSUME BootInv, Tick \/ Strike PROVE BootInv'
<1> USE DEF memory, cpu, pic, keyboard
<1>1. UNCHANGED <<at, ready, memory, cpu, offset, mask, isr, keyboard_input_on>>
  BY DEF Tick, Strike
<1>2. irr' \subseteq Irq
  BY DEF Tick, Strike, BootInv, TypeOK, Irq
<1>3. full' \in BOOLEAN
  BY Zenon DEF Tick, Strike, BootInv, TypeOK
<1>4. disk' \in BOOLEAN /\ iflag' \in BOOLEAN /\ dead' \in BOOLEAN
      /\ keyboard_input_on' \in BOOLEAN
  BY <1>1, Zenon DEF BootInv, TypeOK
<1>5. TypeOK'
  BY <1>1, <1>2, <1>3, <1>4, SetupOrder DEF BootInv, TypeOK
<1>6. TablesInOrder' /\ LetIn' /\ Alone' /\ NeverDead'
  BY <1>1, SetupOrder DEF BootInv, TablesInOrder, LetIn, Alone, NeverDead, User
<1> QED
  BY <1>5, <1>6 DEF BootInv

\* While a handler runs it is the only frame.
LEMMA HandlingAlone ==
  ASSUME BootInv, NEW what, Handling(what)
  PROVE  /\ at > 7 /\ Len(frames) = 1 /\ frames = <<Top>>
         /\ Top \in Frame /\ (Top.cpl = 3 => at = User)
<1>1. PICK f \in Frame : frames = <<f>> /\ (f.cpl = 3 => at = User)
  BY DEF Handling, BootInv, Alone
<1>2. Len(frames) = 1 /\ Top = f
  BY <1>1 DEF Top
<1> QED
  BY <1>1, <1>2 DEF Handling, BootInv, LetIn

\* A handler's own step: what it leaves to do.
LEMMA ThenDoKeeps ==
  ASSUME BootInv, NEW what, Handling(what), NEW next \in {"ack", "walk", "return"}, ThenDo(next),
         UNCHANGED <<at, ready, memory, iflag, cpl, dead, offset, mask, irr>>,
         isr' \subseteq {IRQ_KEYBOARD}, full' \in BOOLEAN, keyboard_input_on' \in BOOLEAN
  PROVE  BootInv'
<1> USE DEF memory
<1>1. /\ at > 7 /\ Len(frames) = 1 /\ frames = <<Top>>
      /\ Top \in Frame /\ (Top.cpl = 3 => at = User)
  BY HandlingAlone
<1> DEFINE g == [Top EXCEPT !.todo = next]
<1>2. g \in Frame /\ g.cpl = Top.cpl
  BY <1>1 DEF Frame
<1>3. frames' = <<g>>
  BY <1>1 DEF ThenDo
<1>4. ~iflag
  BY <1>1 DEF BootInv, Alone
<1>5. ~iflag' /\ at' = at
  BY <1>4, Zenon
<1>6. Alone'
  BY <1>1, <1>2, <1>3, <1>5 DEF Alone, User
<1>7. iflag' \in BOOLEAN
  BY Zenon DEF BootInv, TypeOK
<1>8. irr' \subseteq Irq /\ cpl' \in {0, 3} /\ (cpl' = 3 => at' = User)
  BY DEF BootInv, TypeOK, LetIn, User
<1> QED
  BY <1>1, <1>6, <1>7, <1>8, LaterKeeps

LEMMA IretKeeps == ASSUME BootInv, iret PROVE BootInv'
<1> USE DEF memory, pic, keyboard
<1>1. /\ at > 7 /\ Len(frames) = 1 /\ frames = <<Top>>
      /\ Top \in Frame /\ (Top.cpl = 3 => at = User)
  BY HandlingAlone DEF iret
<1>2. frames' = <<>>
  BY <1>1 DEF iret
<1>3. iflag' \in BOOLEAN /\ cpl' \in {0, 3} /\ (cpl' = 3 => at' = User)
  BY <1>1 DEF iret, Frame, User
<1>4. full' \in BOOLEAN /\ keyboard_input_on' \in BOOLEAN /\ dead' = dead
  BY Zenon DEF iret, BootInv, TypeOK
<1>5. Alone'
  BY <1>2 DEF Alone
<1> QED
  BY <1>1, <1>3, <1>4, <1>5, LaterKeeps DEF iret, BootInv, TypeOK

LEMMA HandlersKeep == ASSUME BootInv, Handler PROVE BootInv'
<1> USE DEF memory, pic, keyboard
<1>1. isr \subseteq {IRQ_KEYBOARD} /\ {"ack", "walk", "return"} \subseteq {"ack", "walk", "return"}
  BY DEF BootInv, TypeOK
<1>2. full \in BOOLEAN /\ keyboard_input_on \in BOOLEAN
  BY Zenon DEF BootInv, TypeOK
<1>3. CASE keyboard_isr
  <2>1. full' \in BOOLEAN /\ keyboard_input_on' \in BOOLEAN
    BY <1>2, <1>3, Zenon DEF keyboard_isr
  <2> QED
    BY <1>1, <1>3, <2>1, ThenDoKeeps DEF keyboard_isr
<1>4. CASE pic_ack
  <2>1. full' \in BOOLEAN /\ keyboard_input_on' \in BOOLEAN
    BY <1>2, <1>4, Zenon DEF pic_ack
  <2> QED
    BY <1>1, <1>4, <2>1, ThenDoKeeps DEF pic_ack
<1>5. CASE syscall
  <2>1. full' \in BOOLEAN /\ keyboard_input_on' \in BOOLEAN
    BY <1>2, <1>5, Zenon DEF syscall
  <2>2. ThenDo("return") \/ ThenDo("walk")
    BY <1>5, Zenon DEF syscall
  <2>3. /\ Handling("handle")
        /\ UNCHANGED <<at, ready, memory, iflag, cpl, dead, pic>>
    BY <1>5 DEF syscall
  <2> QED
    BY <1>1, <2>1, <2>2, <2>3, ThenDoKeeps
<1>6. CASE Ignore
  <2>1. full' \in BOOLEAN /\ keyboard_input_on' \in BOOLEAN
    BY <1>2, <1>6, Zenon DEF Ignore
  <2> QED
    BY <1>1, <1>6, <2>1, ThenDoKeeps DEF Ignore
<1>7. CASE Walk
  BY <1>7 DEF Walk, vars, memory, cpu, pic, keyboard, BootInv, TypeOK, TablesInOrder,
     LetIn, Alone, NeverDead, User
<1> QED
  BY <1>3, <1>4, <1>5, <1>6, <1>7, IretKeeps DEF Handler

LEMMA BootStep == BootInv /\ [Next]_vars => BootInv'
<1> SUFFICES ASSUME BootInv, [Next]_vars PROVE BootInv'
  OBVIOUS
<1>1. CASE KernelSetup
  <2>1. CASE read
    BY <2>1, ReadKeeps
  <2>2. CASE ~read
    BY <1>1, <2>2, SetupKeeps
  <2> QED
    BY <2>1, <2>2
<1>2. CASE Int0x30 \/ RunOff
  BY <1>2, UserKeeps
<1>3. CASE Handler
  BY <1>3, HandlersKeep
<1>4. CASE TakeInterrupt
  BY <1>4, TakeInterruptKeeps
<1>5. CASE Tick \/ Strike
  BY <1>5, DevicesKeep
<1>6. CASE UNCHANGED vars
  BY <1>6 DEF vars, memory, cpu, pic, keyboard, BootInv, TypeOK, TablesInOrder, LetIn,
     Alone, NeverDead, User
<1> QED
  BY <1>1, <1>2, <1>3, <1>4, <1>5, <1>6 DEF Next, Processor

LEMMA BootAlways == Spec => []BootInv
  BY BootInit, BootStep, PTL DEF Spec

\* Every variable of the start-up keeps its type, and of the two interrupt lines
\* only the keyboard's is ever in service, after any number of ticks, keys and calls.
THEOREM StartUpTyped == Spec => []TypeOK
<1>1. BootInv => TypeOK
  BY DEF BootInv
<1> QED
  BY <1>1, BootAlways, PTL

\* Each statement of kernel_setup comes after the tables that what can be raised by
\* then goes through: no interrupt, fault or system call resets the processor.
THEOREM TablesAlwaysInPlace == Spec => []NeverDead
<1>1. BootInv => NeverDead
  BY DEF BootInv
<1> QED
  BY <1>1, BootAlways, PTL

\* The gates turn interrupts off and iret alone restores them: no handler, system
\* calls included, is ever interrupted by another.
THEOREM HandlersNeverNest == Spec => []OneHandler
<1>1. ASSUME BootInv PROVE OneHandler
  <2>1. CASE frames = <<>>
    BY <2>1 DEF OneHandler
  <2>2. CASE \E f \in Frame : frames = <<f>>
    BY <2>2 DEF OneHandler
  <2> QED
    BY <1>1, <2>1, <2>2 DEF BootInv, Alone
<1> QED
  BY <1>1, BootAlways, PTL
=============================================================================
