------------------------------- MODULE ATADisk -------------------------------
(****************************************************************************)
(* The disk driver (src/disk.c) at the ports of the ATA controller: it polls *)
(* the status, sets address and count, gives the command and moves each      *)
(* block word by word.  The controller is external: it has BSY set while it  *)
(* works, DRQ while it wants words moved, and RDY at all times.              *)
(*                                                                           *)
(* Nothing else touches these ports and no interrupt comes of them (the PIC  *)
(* masks IRQ 14): the only other actors are the controller and the power.    *)
(****************************************************************************)
EXTENDS Integers, Sequences

CONSTANTS
    HALF_BLOCK_SIZE, \* words in a block; 256
    DIGIT,           \* values of an address register; 256
    HEAD,            \* values of the address bits in the drive register; 16
    Word,
    Noise,           \* a word nobody wrote: a port read without a request for it
    Calls,           \* what clients ask: [op, lba, count, data], data in blocks
    Disks,           \* the media the machine may start with
    Faults           \* "error": an operation may end in ERR; "power": power may fail

Lba == 0 .. HEAD * (DIGIT * (DIGIT * DIGIT)) - 1
Block == [1 .. HALF_BLOCK_SIZE -> Word]

ASSUME DiskAssumption ==
    /\ HALF_BLOCK_SIZE \in Nat \ {0} /\ DIGIT \in Nat \ {0, 1} /\ HEAD \in Nat \ {0}
    /\ Noise \notin Word
    /\ Calls \subseteq
          [op : {"read"}, lba : Nat, count : Nat \ {0}]
          \cup [op : {"write"}, lba : Nat, count : Nat \ {0}, data : Seq(Block)]
    /\ \A c \in Calls :
          /\ c.lba + c.count - 1 \in Lba
          /\ c.op = "write" => Len(c.data) = c.count
    /\ Disks \subseteq [Lba -> Block]
    /\ Faults \subseteq {"error", "power"}

VARIABLES
    media,                          \* the blocks on the disk
    ctl, job, at, left, buffer,     \* controller: state, command, block, blocks to go, words
    regs,                           \* its address and count registers
    call, pc, i, j, mem             \* driver: the call, where it is, its counters, its memory

controller == <<ctl, job, at, left, buffer, regs>>
driver == <<call, pc, i, j, mem>>
vars == <<media, controller, driver>>

NoCall == [op |-> "none", lba |-> 0, count |-> 0]
NoRegs == [lo |-> 0, mid |-> 0, hi |-> 0, head |-> 0, count |-> 0]

PoweredUp ==
    /\ ctl' = "idle" /\ job' = "none" /\ at' = 0 /\ left' = 0 /\ buffer' = <<>>
    /\ regs' = NoRegs
    /\ call' = NoCall /\ pc' = "idle" /\ i' = 0 /\ j' = 0 /\ mem' = <<>>

Init ==
    /\ media \in Disks
    /\ ctl = "idle" /\ job = "none" /\ at = 0 /\ left = 0 /\ buffer = <<>>
    /\ regs = NoRegs
    /\ call = NoCall /\ pc = "idle" /\ i = 0 /\ j = 0 /\ mem = <<>>

\* Nothing on its way to the disk is remembered.
PowerFail == "power" \in Faults /\ PoweredUp /\ UNCHANGED media

-----------------------------------------------------------------------------
(* The controller *)

Status ==
    CASE ctl = "idle" -> {"RDY"}
      [] ctl = "busy" -> {"RDY", "BSY"}
      [] ctl = "data" -> {"RDY", "DRQ"}
      [] ctl = "error" -> {"RDY", "ERR"}

\* A block has come from the medium and waits to be read.
FetchBlock ==
    /\ ctl = "busy" /\ job = "read"
    /\ ctl' = "data" /\ buffer' = media[at]
    /\ UNCHANGED <<media, job, at, left, regs, driver>>

\* The first block of a write is wanted.
AskForBlock ==
    /\ ctl = "busy" /\ job = "write" /\ buffer = <<>>
    /\ ctl' = "data"
    /\ UNCHANGED <<media, job, at, left, buffer, regs, driver>>

\* A block is on the medium; the next is wanted, if there is one.
PersistBlock ==
    /\ ctl = "busy" /\ job = "write" /\ buffer # <<>>
    /\ media' = [media EXCEPT ![at] = buffer]
    /\ at' = at + 1 /\ left' = left - 1 /\ buffer' = <<>>
    /\ ctl' = IF left = 1 THEN "idle" ELSE "data"
    /\ UNCHANGED <<job, regs, driver>>

\* The operation ends in an error, the block being worked on is dropped.
FailBlock ==
    /\ "error" \in Faults /\ ctl = "busy"
    /\ ctl' = "error" /\ buffer' = <<>>
    /\ UNCHANGED <<media, job, at, left, regs, driver>>

\* What the controller does when a word is read from the data port...
WordRead ==
    IF ctl = "data" /\ job = "read"
    THEN LET rest == Tail(buffer) IN
         /\ buffer' = rest
         /\ IF rest # <<>> THEN UNCHANGED <<ctl, at, left>>
            ELSE /\ at' = at + 1 /\ left' = left - 1
                 /\ ctl' = IF left = 1 THEN "idle" ELSE "busy"
    ELSE UNCHANGED <<ctl, at, left, buffer>>
\* ... and when one is written to it.
WordWritten(w) ==
    IF ctl = "data" /\ job = "write"
    THEN /\ buffer' = Append(buffer, w)
         /\ ctl' = IF Len(buffer) + 1 = HALF_BLOCK_SIZE THEN "busy" ELSE "data"
         /\ UNCHANGED <<at, left>>
    ELSE UNCHANGED <<ctl, at, left, buffer>>

-----------------------------------------------------------------------------
(* The driver *)

\* A client calls read_blocks or write_blocks.
Call(c) ==
    /\ pc = "idle"
    /\ call' = c /\ pc' = "claim" /\ i' = 0 /\ j' = 0
    /\ mem' = [k \in 1 .. c.count * HALF_BLOCK_SIZE |-> Noise]
    /\ UNCHANGED <<media, controller>>

ATA_busy_wait == "BSY" \notin Status
ATA_DRQ_wait == "RDY" \in Status

BugClaim ==              \* DRQ is awaited before the command
    /\ pc = "claim" /\ "DRQ" \in Status
    /\ pc' = "select"
    /\ UNCHANGED <<media, controller, call, i, j, mem>>
\* The controller may still be at the last block of the call before.
Claim ==
    /\ pc = "claim" /\ ATA_busy_wait
    /\ pc' = "select"
    /\ UNCHANGED <<media, controller, call, i, j, mem>>

Register(lba, count) ==
    LET rest == lba \div DIGIT
        top == rest \div DIGIT
    IN [lo |-> lba % DIGIT, mid |-> rest % DIGIT, hi |-> top % DIGIT,
        head |-> (top \div DIGIT) % HEAD, count |-> count]
Address == regs.lo + DIGIT * (regs.mid + DIGIT * (regs.hi + DIGIT * regs.head))

Select ==
    /\ pc = "select"
    /\ regs' = Register(call.lba, call.count) /\ pc' = "command"
    /\ UNCHANGED <<media, ctl, job, at, left, buffer, call, i, j, mem>>

Command ==
    /\ pc = "command"
    /\ ctl' = "busy" /\ job' = call.op /\ at' = Address /\ left' = regs.count
    /\ buffer' = <<>> /\ pc' = "await"
    /\ UNCHANGED <<media, regs, call, i, j, mem>>

BugAwaitBlock ==         \* the busy bit is not looked at
    /\ pc = "await" /\ ATA_DRQ_wait
    /\ pc' = "move"
    /\ UNCHANGED <<media, controller, call, i, j, mem>>
\* Per block: busy wait, then the wait that tests RDY where DRQ is meant.
AwaitBlock ==
    /\ pc = "await" /\ ATA_busy_wait /\ ATA_DRQ_wait
    /\ pc' = "move"
    /\ UNCHANGED <<media, controller, call, i, j, mem>>

BugNextWord ==           \* one word too many
    IF j < HALF_BLOCK_SIZE
    THEN j' = j + 1 /\ UNCHANGED <<i, pc>>
    ELSE /\ j' = 0 /\ i' = i + 1
         /\ pc' = IF i + 1 < call.count THEN "await" ELSE "idle"
\* The loops' counters after a word; the call returns after the last.
NextWord ==
    IF j + 1 < HALF_BLOCK_SIZE
    THEN j' = j + 1 /\ UNCHANGED <<i, pc>>
    ELSE /\ j' = 0 /\ i' = i + 1
         /\ pc' = IF i + 1 < call.count THEN "await" ELSE "idle"

Target == HALF_BLOCK_SIZE * i + j + 1

ReadWord ==
    /\ pc = "move" /\ call.op = "read"
    /\ mem' = [mem EXCEPT ![Target] =
                  IF ctl = "data" /\ job = "read" THEN Head(buffer) ELSE Noise]
    /\ WordRead /\ NextWord
    /\ UNCHANGED <<media, job, regs, call>>

BugWriteWord ==          \* every block is taken from the start of the memory
    /\ pc = "move" /\ call.op = "write"
    /\ WordWritten(call.data[1][j + 1]) /\ NextWord
    /\ UNCHANGED <<media, job, regs, call, mem>>
WriteWord ==
    /\ pc = "move" /\ call.op = "write"
    /\ WordWritten(call.data[i + 1][j + 1]) /\ NextWord
    /\ UNCHANGED <<media, job, regs, call, mem>>

-----------------------------------------------------------------------------
DriverStep == Claim \/ Select \/ Command \/ AwaitBlock \/ ReadWord \/ WriteWord
ControllerStep == FetchBlock \/ AskForBlock \/ PersistBlock \/ FailBlock

Next == (\E c \in Calls : Call(c)) \/ DriverStep \/ ControllerStep \/ PowerFail

Spec == Init /\ [][Next]_vars

\* The driver has the processor until it returns; the controller ends what it
\* began, well or in an error.
FairSpec == Spec /\ WF_vars(DriverStep) /\ WF_vars(ControllerStep)

-----------------------------------------------------------------------------
(* What makes the driver right *)

TypeOK ==
    /\ media \in [Lba -> Block]
    /\ ctl \in {"idle", "busy", "data", "error"} /\ job \in {"none", "read", "write"}
    /\ at \in Nat /\ left \in Nat /\ buffer \in Seq(Word)
    /\ regs \in [lo : Nat, mid : Nat, hi : Nat, head : Nat, count : Nat]
    /\ call \in Calls \cup {NoCall}
    /\ pc \in {"idle", "claim", "select", "command", "await", "move"}
    /\ i \in Nat /\ j \in 0 .. HALF_BLOCK_SIZE - 1
    /\ mem \in [1 .. call.count * HALF_BLOCK_SIZE -> Word \cup {Noise}]

\* The wait for data tests RDY, which a controller that asks for nothing has set
\* too, and nothing counts the words together: driver and controller each run a
\* loop of their own.  While words are moved and the drive has not failed, the two
\* are at the same word of the same block of the same command.
InStep ==
    pc = "move" /\ ctl # "error" =>
        /\ ctl = "data" /\ job = call.op
        /\ at = call.lba + i /\ left = call.count - i
        /\ Len(buffer) = IF job = "read" THEN HALF_BLOCK_SIZE - j ELSE j

BlocksRead ==
    [b \in 1 .. i |-> [k \in 1 .. HALF_BLOCK_SIZE |-> mem[HALF_BLOCK_SIZE * (b - 1) + k]]]

Device == INSTANCE BlockDevice WITH
    Noise <- [k \in 1 .. HALF_BLOCK_SIZE |-> Noise],
    MayFail <- "error" \in Faults,
    request <- IF pc = "idle" THEN <<>> ELSE call,
    taken <- i,
    answer <- IF call.op = "read" THEN BlocksRead ELSE <<>>,
    pending <- IF ctl = "busy" /\ job = "write" /\ buffer # <<>>
               THEN [lba |-> at, block |-> buffer] ELSE <<>>,
    failed <- ctl = "error"

\* The driver and its controller are a disk of blocks: what is read is what the
\* disk holds, blocks reach the medium whole, in ascending order and only those
\* asked for, and no call begins on the drive while a block is still on its way.
ImplementsDevice == Device!Spec

\* A call returns, whether the drive fails in it or not.
CallsReturn == (pc = "claim") ~> (pc = "idle")
=============================================================================
