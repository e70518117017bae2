---------------------------- MODULE ATADisk_proof ----------------------------
(****************************************************************************)
(* That the disk driver and the controller keep in step word by word, and    *)
(* that together they are the disk of blocks of BlockDevice: for every block *)
(* size, every range of addresses, every set of calls and any faults.        *)
(****************************************************************************)
EXTENDS ATADisk, SequenceTheorems, TLAPS

H == HALF_BLOCK_SIZE

-----------------------------------------------------------------------------
(* The inductive invariant: what the controller is doing, by where the driver *)
(* is.                                                                        *)

Rests == ctl \in {"idle", "error"}

\* The block passed over last is still on its way to the medium.
Settles(last, togo) ==
    /\ ctl = "busy" /\ job = "write" /\ buffer \in Block
    /\ at = last /\ at \in Lba /\ left = togo

\* The controller stands at block i of the call.
AtBlock == job = call.op /\ at = call.lba + i /\ left = call.count - i

CountersInv ==
    /\ pc # "idle" => call \in Calls
    /\ pc \in {"claim", "select", "command"} => i = 0
    /\ pc # "move" => j = 0
    /\ pc \in {"await", "move"} => i < call.count

\* Outside a call, and until it has claimed the drive.
BetweenInv == pc \in {"idle", "claim"} => Rests \/ Settles(at, 1)

ClaimedInv ==
    /\ pc \in {"select", "command"} => Rests
    /\ pc = "command" => regs = Register(call.lba, call.count)

AwaitInv ==
    pc = "await" =>
        \/ ctl = "error"
        \/ AtBlock /\ job = "read" /\ ctl = "busy"
        \/ AtBlock /\ job = "read" /\ ctl = "data" /\ buffer = media[at]
        \/ AtBlock /\ job = "write" /\ ctl = "data" /\ buffer = <<>>
        \/ AtBlock /\ job = "write" /\ ctl = "busy" /\ buffer = <<>> /\ i = 0
        \/ /\ call.op = "write" /\ i > 0
           /\ Settles(call.lba + i - 1, call.count - i + 1)

\* The words of a block that are still to be read, or that have been written.
MoveInv ==
    pc = "move" =>
        \/ ctl = "error"
        \/ /\ AtBlock /\ ctl = "data" /\ job = "read"
           /\ buffer = [k \in 1 .. H - j |-> media[at][j + k]]
        \/ /\ AtBlock /\ ctl = "data" /\ job = "write"
           /\ buffer = [k \in 1 .. j |-> call.data[i + 1][k]]

\* The words already in memory of the block that is being read.
MemoryInv ==
    pc = "move" /\ call.op = "read" =>
        \A k \in 1 .. j :
            mem[H * i + k] = IF ctl = "error" THEN Noise ELSE media[call.lba + i][k]

Inv ==
    /\ TypeOK /\ CountersInv /\ BetweenInv /\ ClaimedInv
    /\ AwaitInv /\ MoveInv /\ MemoryInv

-----------------------------------------------------------------------------
(* The operators of the model *)

\* What the assumption on the clients says of one call.
LEMMA CallShape ==
    ASSUME NEW c \in Calls
    PROVE  /\ c \in Calls \cup {NoCall} /\ c # <<>>
           /\ c.op \in {"read", "write"} /\ c.count \in Nat \ {0} /\ c.lba \in Lba
           /\ \A k \in 0 .. c.count - 1 : c.lba + k \in Lba
           /\ c.op = "write" => \A b \in 1 .. c.count : c.data[b] \in Block
<1>1. c \in [op : {"read"}, lba : Nat, count : Nat \ {0}]
           \cup [op : {"write"}, lba : Nat, count : Nat \ {0}, data : Seq(Block)]
    BY DiskAssumption
<1>2. c.lba + c.count - 1 \in Lba /\ (c.op = "write" => Len(c.data) = c.count)
    BY DiskAssumption
<1>3. c # <<>> /\ c.op \in {"read", "write"} /\ c.count \in Nat \ {0} /\ c.lba \in Nat
    BY <1>1
<1>4. c.op = "write" => c.data \in Seq(Block)
    BY <1>1
<1>5. HEAD * (DIGIT * (DIGIT * DIGIT)) \in Nat
    BY DiskAssumption
<1>6. \A k \in 0 .. c.count - 1 : c.lba + k \in Lba
    BY <1>2, <1>3, <1>5 DEF Lba
<1>7. c.lba \in Lba
    BY <1>3, <1>6
<1> QED
    BY <1>2, <1>3, <1>4, <1>6, <1>7

\* A number is its last digit and the rest.
LEMMA LastDigit ==
    ASSUME NEW n \in Nat
    PROVE  /\ n \div DIGIT \in Nat /\ n % DIGIT \in 0 .. DIGIT - 1
           /\ n = DIGIT * (n \div DIGIT) + (n % DIGIT)
<1>1. DIGIT \in Nat \ {0}
    BY DiskAssumption
<1> QED
    BY <1>1

LEMMA TimesKeepsOrder ==
    ASSUME NEW d \in Nat, NEW x \in Nat, NEW y \in Nat, x >= y
    PROVE  d * x \in Nat /\ d * y \in Nat /\ d * x >= d * y
<1>1. PICK e \in Nat : x = y + e
    OBVIOUS
<1>2. d * x = d * y + d * e /\ d * e \in Nat
    BY <1>1
<1> QED
    BY <1>2

\* The registers hold all of a block's address: nothing of it is cut off, and
\* the block the controller works on is the one that was asked for.
LEMMA AddressKept ==
    ASSUME NEW lba \in Lba, NEW count, regs = Register(lba, count)
    PROVE  Address = lba /\ regs.count = count
<1> DEFINE a == lba \div DIGIT
           b == a \div DIGIT
           c == b \div DIGIT
<1>0. lba \in Nat /\ DIGIT \in Nat \ {0} /\ HEAD \in Nat \ {0}
    BY DiskAssumption DEF Lba
<1>1. /\ a \in Nat /\ lba % DIGIT \in 0 .. DIGIT - 1
      /\ lba = DIGIT * a + (lba % DIGIT)
    BY <1>0, LastDigit
<1>2. /\ b \in Nat /\ a % DIGIT \in 0 .. DIGIT - 1
      /\ a = DIGIT * b + (a % DIGIT)
    BY <1>1, LastDigit
<1>3. /\ c \in Nat /\ b % DIGIT \in 0 .. DIGIT - 1
      /\ b = DIGIT * c + (b % DIGIT)
    BY <1>2, LastDigit
<1>4. c \in 0 .. HEAD - 1
  <2> HIDE DEF a, b, c
  <2>1. SUFFICES ASSUME c >= HEAD PROVE FALSE
      BY <1>0, <1>3
  <2>2. DIGIT * HEAD \in Nat /\ b >= DIGIT * HEAD
    <3>1. DIGIT * c \in Nat /\ DIGIT * HEAD \in Nat /\ DIGIT * c >= DIGIT * HEAD
        BY <1>0, <1>3, <2>1, TimesKeepsOrder
    <3> QED
        BY <3>1, <1>0, <1>2, <1>3
  <2>3. DIGIT * (DIGIT * HEAD) \in Nat /\ a >= DIGIT * (DIGIT * HEAD)
    <3>1. /\ DIGIT * b \in Nat /\ DIGIT * (DIGIT * HEAD) \in Nat
          /\ DIGIT * b >= DIGIT * (DIGIT * HEAD)
        BY <1>0, <1>2, <2>2, TimesKeepsOrder
    <3> QED
        BY <3>1, <1>0, <1>1, <1>2
  <2>4. lba >= DIGIT * (DIGIT * (DIGIT * HEAD))
    <3>1. /\ DIGIT * a \in Nat /\ DIGIT * (DIGIT * (DIGIT * HEAD)) \in Nat
          /\ DIGIT * a >= DIGIT * (DIGIT * (DIGIT * HEAD))
        BY <1>0, <1>1, <2>3, TimesKeepsOrder
    <3> QED
        BY <3>1, <1>0, <1>1
  <2>5. DIGIT * (DIGIT * (DIGIT * HEAD)) = HEAD * (DIGIT * (DIGIT * DIGIT))
      BY <1>0
  <2> QED
      BY <2>4, <2>5, <1>0 DEF Lba
<1>5. c % HEAD = c
  <2> HIDE DEF c
  <2> QED
      BY <1>0, <1>4
<1>6. /\ regs.lo = lba % DIGIT /\ regs.mid = a % DIGIT /\ regs.hi = b % DIGIT
      /\ regs.head = c /\ regs.count = count
    BY <1>5 DEF Register
<1> HIDE DEF a, b, c
<1>7. regs.hi + DIGIT * regs.head = b
    BY <1>3, <1>6, DiskAssumption
<1>8. regs.mid + DIGIT * (regs.hi + DIGIT * regs.head) = a
    BY <1>2, <1>6, <1>7, DiskAssumption
<1>9. regs.lo + DIGIT * (regs.mid + DIGIT * (regs.hi + DIGIT * regs.head)) = lba
    BY <1>1, <1>6, <1>8, DiskAssumption
<1> QED
    BY <1>6, <1>9 DEF Address

\* Word n of block b of a call lies in the memory of the call, in the place of
\* no word of a block before it, and the blocks follow each other.
LEMMA WordPlace ==
    ASSUME NEW count \in Nat, NEW b \in Nat, b < count, NEW n \in 1 .. H
    PROVE  /\ H \in Nat \ {0} /\ count * H \in Nat /\ H * b \in Nat
           /\ H * b + n \in 1 .. count * H
           /\ H * (b + 1) = H * b + H
           /\ \A a \in 1 .. b : \A m \in 1 .. H : H * (a - 1) + m < H * b + n
<1>1. H \in Nat \ {0}
    BY DiskAssumption DEF H
<1>2. PICK d \in Nat : count = b + 1 + d
    OBVIOUS
<1>3. count * H = H * b + H + d * H /\ d * H \in Nat /\ H * b \in Nat
    BY <1>1, <1>2
<1>4. ASSUME NEW a \in 1 .. b, NEW m \in 1 .. H
      PROVE  H * (a - 1) + m < H * b + n
  <2>1. PICK e \in Nat : b = (a - 1) + 1 + e
      BY <1>4
  <2>2. H * b = H * (a - 1) + H + H * e /\ H * e \in Nat /\ H * (a - 1) \in Nat
      BY <1>1, <2>1
  <2> QED
      BY <1>1, <2>2
<1> QED
    BY <1>1, <1>3, <1>4

-----------------------------------------------------------------------------
(* The invariant holds at first and is kept by every step *)

\* Memory of a call that has none yet.
LEMMA NothingRead ==
    <<>> \in [1 .. NoCall.count * HALF_BLOCK_SIZE -> Word \cup {Noise}]
<1>1. NoCall.count * HALF_BLOCK_SIZE = 0
    BY DiskAssumption DEF NoCall
<1> QED
    BY <1>1

LEMMA InitInv == Init => Inv
<1> SUFFICES ASSUME Init PROVE Inv
    OBVIOUS
<1>1. TypeOK
  <2>1. media \in [Lba -> Block]
      BY DiskAssumption DEF Init
  <2>2. mem \in [1 .. call.count * HALF_BLOCK_SIZE -> Word \cup {Noise}]
      BY NothingRead DEF Init
  <2>3. j \in 0 .. HALF_BLOCK_SIZE - 1
      BY DiskAssumption DEF Init
  <2> QED
      BY <2>1, <2>2, <2>3 DEF Init, TypeOK, NoRegs
<1> QED
    BY <1>1 DEF Init, Inv, CountersInv, BetweenInv, Rests, ClaimedInv, AwaitInv,
                MoveInv, MemoryInv

LEMMA PowerFailInv == ASSUME Inv, PowerFail PROVE Inv'
<1>1. TypeOK'
  <2>1. (mem \in [1 .. call.count * HALF_BLOCK_SIZE -> Word \cup {Noise}])'
      BY NothingRead DEF PowerFail, PoweredUp
  <2>2. (j \in 0 .. HALF_BLOCK_SIZE - 1)'
      BY DiskAssumption DEF PowerFail, PoweredUp
  <2> QED
      BY <2>1, <2>2 DEF Inv, PowerFail, PoweredUp, TypeOK, NoRegs
<1> QED
    BY <1>1 DEF PowerFail, PoweredUp, Inv, CountersInv, BetweenInv, Rests, ClaimedInv,
                AwaitInv, MoveInv, MemoryInv

\* A step of the controller finds the driver outside a call, or in front of a
\* block: while words are moved the controller is not busy.
LEMMA BusyWhere ==
    ASSUME Inv, ctl = "busy"
    PROVE  /\ pc \in {"idle", "claim", "await"} /\ j = 0
           /\ pc # "await" => Settles(at, 1)
           /\ pc = "await" =>
                 \/ AtBlock /\ job = "read"
                 \/ AtBlock /\ job = "write" /\ buffer = <<>> /\ i = 0
                 \/ /\ call.op = "write" /\ i > 0
                    /\ Settles(call.lba + i - 1, call.count - i + 1)
<1>1. pc # "move" /\ pc \notin {"select", "command"}
    BY DEF Inv, MoveInv, ClaimedInv, Rests
<1>2. pc \in {"idle", "claim", "await"} /\ j = 0
    BY <1>1 DEF Inv, TypeOK, CountersInv
<1>3. pc # "await" => Settles(at, 1)
    BY <1>2 DEF Inv, BetweenInv, Rests
<1> QED
    BY <1>2, <1>3 DEF Inv, AwaitInv

\* The block the driver stands at is one of its call.
LEMMA BlockInCall ==
    ASSUME Inv, pc \in {"await", "move"}
    PROVE  /\ call \in Calls /\ i \in Nat /\ i < call.count
           /\ call.count \in Nat \ {0} /\ call.lba \in Lba /\ call.lba \in Nat
           /\ call.op \in {"read", "write"} /\ call # <<>>
           /\ call.lba + i \in Lba /\ (i > 0 => call.lba + i - 1 \in Lba)
           /\ call.op = "write" => call.data[i + 1] \in Block
<1>1. call \in Calls /\ i \in Nat /\ i < call.count
    BY DEF Inv, TypeOK, CountersInv
<1>2. /\ call.count \in Nat \ {0} /\ call.lba \in Lba /\ call # <<>>
      /\ call.op \in {"read", "write"}
      /\ \A k \in 0 .. call.count - 1 : call.lba + k \in Lba
      /\ call.op = "write" => \A b \in 1 .. call.count : call.data[b] \in Block
    BY <1>1, CallShape
<1>3. call.lba \in Nat
    BY <1>2 DEF Lba
<1>4. i > 0 => i - 1 \in 0 .. call.count - 1 /\ call.lba + (i - 1) = call.lba + i - 1
    BY <1>1, <1>2, <1>3
<1>5. i \in 0 .. call.count - 1 /\ i + 1 \in 1 .. call.count
    BY <1>1, <1>2
<1> QED
    BY <1>1, <1>2, <1>3, <1>4, <1>5

LEMMA FetchBlockInv == ASSUME Inv, FetchBlock PROVE Inv'
<1>1. /\ ctl = "busy" /\ job = "read" /\ ctl' = "data" /\ buffer' = media[at]
      /\ UNCHANGED <<media, job, at, left, regs, call, pc, i, j, mem>>
    BY DEF FetchBlock, driver
<1>2. pc = "await" /\ AtBlock /\ job = "read"
    BY <1>1, BusyWhere DEF Settles
<1>3. at \in Lba
    BY <1>2, BlockInCall DEF AtBlock
<1>4. buffer' \in Block /\ buffer' \in Seq(Word)
    BY <1>1, <1>3, DiskAssumption DEF Inv, TypeOK, Block
<1>5. TypeOK'
    BY <1>1, <1>4 DEF Inv, TypeOK
<1>6. CountersInv'
    BY <1>1 DEF Inv, CountersInv
<1>7. (BetweenInv /\ ClaimedInv /\ MoveInv /\ MemoryInv)'
    BY <1>1, <1>2 DEF BetweenInv, ClaimedInv, MoveInv, MemoryInv
<1>8. AwaitInv'
    BY <1>1, <1>2 DEF AwaitInv, AtBlock
<1> QED
    BY <1>5, <1>6, <1>7, <1>8 DEF Inv

LEMMA AskForBlockInv == ASSUME Inv, AskForBlock PROVE Inv'
<1>1. /\ ctl = "busy" /\ job = "write" /\ buffer = <<>> /\ ctl' = "data"
      /\ UNCHANGED <<media, job, at, left, buffer, regs, call, pc, i, j, mem>>
    BY DEF AskForBlock, driver
<1>2. buffer \notin Block
    BY <1>1, DiskAssumption DEF Block
<1>3. pc = "await" /\ AtBlock
    BY <1>1, <1>2, BusyWhere DEF Settles
<1>4. TypeOK' /\ CountersInv'
    BY <1>1 DEF Inv, TypeOK, CountersInv
<1>5. (BetweenInv /\ ClaimedInv /\ MoveInv /\ MemoryInv)'
    BY <1>1, <1>3 DEF BetweenInv, ClaimedInv, MoveInv, MemoryInv
<1>6. AwaitInv'
    BY <1>1, <1>3 DEF AwaitInv, AtBlock
<1> QED
    BY <1>4, <1>5, <1>6 DEF Inv

LEMMA PersistBlockInv == ASSUME Inv, PersistBlock PROVE Inv'
<1>1. /\ ctl = "busy" /\ job = "write" /\ buffer # <<>>
      /\ media' = [media EXCEPT ![at] = buffer]
      /\ at' = at + 1 /\ left' = left - 1 /\ buffer' = <<>>
      /\ ctl' = IF left = 1 THEN "idle" ELSE "data"
      /\ UNCHANGED <<job, regs, call, pc, i, j, mem>>
    BY DEF PersistBlock, driver
<1>2. at \in Nat /\ left \in Nat
    BY DEF Inv, TypeOK
<1>3. pc \in {"idle", "claim", "await"}
    BY <1>1, BusyWhere
<1>4. CASE pc # "await"
  <2>1. Settles(at, 1)
      BY <1>1, <1>4, BusyWhere
  <2>2. buffer \in Block /\ at \in Lba /\ left = 1
      BY <2>1 DEF Settles
  <2>3. (media \in [Lba -> Block])' /\ (left \in Nat)' /\ ctl' = "idle"
      BY <1>1, <2>2 DEF Inv, TypeOK
  <2>4. TypeOK'
      BY <1>1, <1>2, <2>3 DEF Inv, TypeOK
  <2>5. CountersInv'
      BY <1>1 DEF Inv, CountersInv
  <2> QED
      BY <1>1, <1>3, <1>4, <2>3, <2>4, <2>5
      DEF Inv, BetweenInv, Rests, ClaimedInv, AwaitInv, MoveInv, MemoryInv
<1>5. CASE pc = "await"
  <2>1. /\ call.op = "write" /\ i > 0
        /\ Settles(call.lba + i - 1, call.count - i + 1)
      BY <1>1, <1>5, BusyWhere
  <2>2. /\ i \in Nat /\ i < call.count /\ call.count \in Nat \ {0} /\ call.lba \in Nat
      BY <1>5, BlockInCall
  <2>3. buffer \in Block /\ at \in Lba /\ at = call.lba + i - 1 /\ left = call.count - i + 1
      BY <2>1 DEF Settles
  <2>4. /\ ctl' = "data" /\ at' = call.lba + i /\ left' = call.count - i
        /\ at' \in Nat /\ left' \in Nat
    <3>1. left # 1 /\ left - 1 = call.count - i /\ left - 1 \in Nat
        BY <2>2, <2>3
    <3>2. at + 1 = call.lba + i /\ at + 1 \in Nat
        BY <2>2, <2>3
    <3> QED
        BY <1>1, <3>1, <3>2
  <2>5. (media \in [Lba -> Block])'
      BY <1>1, <2>3 DEF Inv, TypeOK
  <2>6. TypeOK'
      BY <1>1, <2>4, <2>5 DEF Inv, TypeOK
  <2>7. CountersInv'
      BY <1>1 DEF Inv, CountersInv
  <2>8. AwaitInv'
      BY <1>1, <1>5, <2>1, <2>4 DEF AwaitInv, AtBlock
  <2> QED
      BY <1>1, <1>5, <2>6, <2>7, <2>8
      DEF Inv, BetweenInv, ClaimedInv, MoveInv, MemoryInv
<1> QED
    BY <1>3, <1>4, <1>5

LEMMA FailBlockInv == ASSUME Inv, FailBlock PROVE Inv'
<1>1. /\ ctl = "busy" /\ ctl' = "error" /\ buffer' = <<>>
      /\ UNCHANGED <<media, job, at, left, regs, call, pc, i, j, mem>>
    BY DEF FailBlock, driver
<1>2. pc \in {"idle", "claim", "await"}
    BY <1>1, BusyWhere
<1>3. TypeOK' /\ CountersInv'
    BY <1>1 DEF Inv, TypeOK, CountersInv
<1> QED
    BY <1>1, <1>2, <1>3 DEF Inv, BetweenInv, Rests, ClaimedInv, AwaitInv, MoveInv, MemoryInv

LEMMA CallIsMade == ASSUME Inv, NEW c \in Calls, Call(c) PROVE Inv'
<1>1. /\ pc = "idle" /\ call' = c /\ pc' = "claim" /\ i' = 0 /\ j' = 0
      /\ mem' = [k \in 1 .. c.count * HALF_BLOCK_SIZE |-> Noise]
      /\ UNCHANGED <<media, ctl, job, at, left, buffer, regs>>
    BY DEF Call, controller
<1>2. mem' \in [1 .. c.count * HALF_BLOCK_SIZE -> Word \cup {Noise}]
    BY <1>1
<1>3. j' \in 0 .. HALF_BLOCK_SIZE - 1 /\ call' \in Calls \cup {NoCall}
    BY <1>1, DiskAssumption
<1>4. TypeOK'
    BY <1>1, <1>2, <1>3 DEF Inv, TypeOK
<1>5. CountersInv'
    BY <1>1 DEF CountersInv
<1>6. BetweenInv'
    BY <1>1 DEF Inv, BetweenInv, Rests, Settles
<1> QED
    BY <1>1, <1>4, <1>5, <1>6 DEF Inv, ClaimedInv, AwaitInv, MoveInv, MemoryInv

LEMMA ClaimInv == ASSUME Inv, Claim PROVE Inv'
<1>1. /\ pc = "claim" /\ ctl # "busy" /\ pc' = "select"
      /\ UNCHANGED <<media, ctl, job, at, left, buffer, regs, call, i, j, mem>>
    BY DEF Claim, ATA_busy_wait, Status, controller
<1>2. TypeOK' /\ CountersInv'
    BY <1>1 DEF Inv, TypeOK, CountersInv
<1>3. ClaimedInv'
    BY <1>1 DEF Inv, BetweenInv, Settles, ClaimedInv, Rests
<1> QED
    BY <1>1, <1>2, <1>3 DEF Inv, BetweenInv, AwaitInv, MoveInv, MemoryInv

LEMMA SelectInv == ASSUME Inv, Select PROVE Inv'
<1>1. /\ pc = "select" /\ pc' = "command" /\ regs' = Register(call.lba, call.count)
      /\ UNCHANGED <<media, ctl, job, at, left, buffer, call, i, j, mem>>
    BY DEF Select
<1>2. call \in Calls
    BY <1>1 DEF Inv, CountersInv
<1>3. call.lba \in Nat /\ call.count \in Nat
    BY <1>2, CallShape DEF Lba
<1>4. regs' \in [lo : Nat, mid : Nat, hi : Nat, head : Nat, count : Nat]
  <2>1. /\ call.lba % DIGIT \in Nat /\ call.lba \div DIGIT \in Nat
      BY <1>3, LastDigit
  <2>2. /\ (call.lba \div DIGIT) % DIGIT \in Nat /\ (call.lba \div DIGIT) \div DIGIT \in Nat
      BY <2>1, LastDigit
  <2>3. /\ ((call.lba \div DIGIT) \div DIGIT) % DIGIT \in Nat
        /\ ((call.lba \div DIGIT) \div DIGIT) \div DIGIT \in Nat
      BY <2>2, LastDigit
  <2>4. (((call.lba \div DIGIT) \div DIGIT) \div DIGIT) % HEAD \in Nat
    <3>1. HEAD \in Nat \ {0}
        BY DiskAssumption
    <3> DEFINE top == ((call.lba \div DIGIT) \div DIGIT) \div DIGIT
    <3> HIDE DEF top
    <3>2. top \in Nat => top % HEAD \in Nat
        BY <3>1
    <3> QED
        BY <2>3, <3>2 DEF top
  <2> QED
      BY <1>1, <1>3, <2>1, <2>2, <2>3, <2>4 DEF Register
<1>5. TypeOK' /\ CountersInv'
    BY <1>1, <1>4 DEF Inv, TypeOK, CountersInv
<1>6. ClaimedInv'
    BY <1>1 DEF Inv, ClaimedInv, Rests, Register
<1> QED
    BY <1>1, <1>5, <1>6 DEF Inv, BetweenInv, AwaitInv, MoveInv, MemoryInv

LEMMA CommandInv == ASSUME Inv, Command PROVE Inv'
<1>1. /\ pc = "command" /\ ctl' = "busy" /\ job' = call.op /\ at' = Address
      /\ left' = regs.count /\ buffer' = <<>> /\ pc' = "await"
      /\ UNCHANGED <<media, regs, call, i, j, mem>>
    BY DEF Command
<1>2. call \in Calls /\ i = 0 /\ j = 0 /\ regs = Register(call.lba, call.count)
    BY <1>1 DEF Inv, CountersInv, ClaimedInv
<1>3. /\ call.op \in {"read", "write"} /\ call.count \in Nat \ {0}
      /\ call.lba \in Lba /\ call.lba \in Nat
    BY <1>2, CallShape DEF Lba
<1>4. at' = call.lba /\ left' = call.count
    BY <1>1, <1>2, <1>3, AddressKept
<1>5. TypeOK'
    BY <1>1, <1>3, <1>4 DEF Inv, TypeOK
<1>6. CountersInv'
    BY <1>1, <1>2, <1>3 DEF CountersInv
<1>7. AtBlock'
    BY <1>1, <1>2, <1>3, <1>4 DEF AtBlock
<1>8. AwaitInv'
    BY <1>1, <1>2, <1>3, <1>7 DEF AwaitInv
<1> QED
    BY <1>1, <1>5, <1>6, <1>8 DEF Inv, BetweenInv, ClaimedInv, MoveInv, MemoryInv

LEMMA AwaitBlockInv == ASSUME Inv, AwaitBlock PROVE Inv'
<1>1. /\ pc = "await" /\ ctl # "busy" /\ pc' = "move"
      /\ UNCHANGED <<media, ctl, job, at, left, buffer, regs, call, i, j, mem>>
    BY DEF AwaitBlock, ATA_busy_wait, Status, controller
<1>2. TypeOK' /\ CountersInv'
    BY <1>1 DEF Inv, TypeOK, CountersInv
<1>3. j = 0 /\ at \in Nat
    BY <1>1 DEF Inv, TypeOK, CountersInv
<1>4. \/ ctl = "error"
      \/ AtBlock /\ job = "read" /\ ctl = "data" /\ buffer = media[at]
      \/ AtBlock /\ job = "write" /\ ctl = "data" /\ buffer = <<>>
    BY <1>1 DEF Inv, AwaitInv, Settles
<1>5. MoveInv'
  <2>1. CASE ctl = "error"
      BY <1>1, <2>1 DEF MoveInv
  <2>2. CASE AtBlock /\ job = "read" /\ ctl = "data" /\ buffer = media[at]
    <3>1. at \in Lba
        BY <1>1, <2>2, BlockInCall DEF AtBlock
    <3>2. media[at] \in [1 .. H -> Word] /\ H \in Nat
        BY <3>1, DiskAssumption DEF Inv, TypeOK, Block, H
    <3>3. media[at] = [k \in 1 .. H - 0 |-> media[at][0 + k]]
        BY <3>2
    <3>4. buffer' = [k \in 1 .. H - j |-> media[at][j + k]]'
        BY <1>1, <1>3, <2>2, <3>3
    <3> QED
        BY <1>1, <2>2, <3>4 DEF MoveInv, AtBlock
  <2>3. CASE AtBlock /\ job = "write" /\ ctl = "data" /\ buffer = <<>>
    <3>1. <<>> = [k \in 1 .. 0 |-> call.data[i + 1][k]]
        OBVIOUS
    <3>2. buffer' = [k \in 1 .. j |-> call.data[i + 1][k]]'
        BY <1>1, <1>3, <2>3, <3>1
    <3> QED
        BY <1>1, <2>3, <3>2 DEF MoveInv, AtBlock
  <2> QED
      BY <1>4, <2>1, <2>2, <2>3
<1>6. MemoryInv'
    BY <1>1, <1>3 DEF MemoryInv
<1> QED
    BY <1>1, <1>2, <1>5, <1>6 DEF Inv, BetweenInv, ClaimedInv, AwaitInv

\* A word is read into its place, and no word before it is touched.
LEMMA WordStored ==
    ASSUME Inv, ReadWord
    PROVE  /\ j \in 0 .. H - 1 /\ H \in Nat \ {0} /\ i \in Nat /\ H * i \in Nat
           /\ H * i + j + 1 \in DOMAIN mem
           /\ \A k \in 1 .. j : H * i + k \in DOMAIN mem /\ mem'[H * i + k] = mem[H * i + k]
           /\ \A a \in 1 .. i : \A m \in 1 .. H : mem'[H * (a - 1) + m] = mem[H * (a - 1) + m]
           /\ mem'[H * i + j + 1] =
                 IF ctl = "data" /\ job = "read" THEN Head(buffer) ELSE Noise
<1>1. pc = "move" /\ j \in 0 .. H - 1 /\ H \in Nat \ {0}
    BY DiskAssumption DEF ReadWord, Inv, TypeOK, H
<1>2. call.count \in Nat /\ i \in Nat /\ i < call.count
    BY <1>1, BlockInCall
<1>3. mem' = [mem EXCEPT ![H * i + j + 1] =
                  IF ctl = "data" /\ job = "read" THEN Head(buffer) ELSE Noise]
    BY DEF ReadWord, Target, H
<1>4. mem \in [1 .. call.count * H -> Word \cup {Noise}]
    BY DEF Inv, TypeOK, H
<1>5. DOMAIN mem = 1 .. call.count * H
    BY <1>4
<1>6. H * i \in Nat
    BY <1>1, <1>2
<1>7. \A n \in 1 .. H : H * i + n \in DOMAIN mem
    BY <1>2, <1>5, WordPlace
<1>8. j + 1 \in 1 .. H /\ H * i + (j + 1) = H * i + j + 1
    BY <1>1, <1>6
<1>9. H * i + j + 1 \in DOMAIN mem
    BY <1>7, <1>8
<1>10. ASSUME NEW a \in 1 .. i, NEW m \in 1 .. H
       PROVE  mem'[H * (a - 1) + m] = mem[H * (a - 1) + m]
  <2>1. H * (a - 1) + m < H * i + (j + 1)
      BY <1>2, <1>8, <1>10, WordPlace
  <2>2. a - 1 \in Nat /\ a - 1 < call.count
      BY <1>2, <1>10
  <2>3. H * (a - 1) + m \in DOMAIN mem
      BY <1>2, <1>5, <1>10, <2>2, WordPlace
  <2>4. H * (a - 1) + m # H * i + j + 1
      BY <2>1, <2>3, <1>5, <1>8, <1>6, <1>1
  <2> QED
      BY <1>3, <2>3, <2>4
<1>11. ASSUME NEW k \in 1 .. j
       PROVE  H * i + k \in DOMAIN mem /\ mem'[H * i + k] = mem[H * i + k]
  <2>1. k \in 1 .. H /\ H * i + k # H * i + j + 1
      BY <1>1, <1>6, <1>11
  <2> QED
      BY <1>3, <1>7, <2>1
<1> QED
    BY <1>1, <1>2, <1>3, <1>6, <1>9, <1>10, <1>11

\* What the controller has in store for the driver when the next word is read.
LEMMA WordAwaits ==
    ASSUME Inv, pc = "move", call.op = "read", ctl # "error"
    PROVE  /\ ctl = "data" /\ job = "read" /\ AtBlock /\ at \in Lba /\ at \in Nat
           /\ left = call.count - i /\ at + 1 = call.lba + (i + 1)
           /\ left - 1 = call.count - (i + 1) /\ left - 1 \in Nat
           /\ (left = 1 <=> ~ (i + 1 < call.count))
           /\ media[at] \in [1 .. H -> Word]
           /\ Head(buffer) = media[at][j + 1] /\ Head(buffer) \in Word
           /\ Tail(buffer) \in Seq(Word) /\ Len(Tail(buffer)) = H - (j + 1)
           /\ Tail(buffer) = [k \in 1 .. H - (j + 1) |-> media[at][(j + 1) + k]]
<1>1. /\ ctl = "data" /\ job = "read" /\ AtBlock
      /\ buffer = [k \in 1 .. H - j |-> media[at][j + k]]
    BY DEF Inv, MoveInv, AtBlock
<1>2. /\ i \in Nat /\ i < call.count /\ call.count \in Nat \ {0} /\ call.lba \in Nat
      /\ at \in Lba /\ at = call.lba + i /\ left = call.count - i
    BY <1>1, BlockInCall DEF AtBlock
<1>3. /\ at \in Nat /\ at + 1 = call.lba + (i + 1) /\ left - 1 = call.count - (i + 1)
      /\ left - 1 \in Nat /\ (left = 1 <=> ~ (i + 1 < call.count))
    BY <1>2
<1>4. media[at] \in [1 .. H -> Word]
    BY <1>2 DEF Inv, TypeOK, Block, H
<1>5. j \in 0 .. H - 1 /\ H \in Nat \ {0} /\ buffer \in Seq(Word)
    BY DiskAssumption DEF Inv, TypeOK, H
<1>6. Len(buffer) = H - j /\ buffer # <<>>
    BY <1>1, <1>5
<1>7. Head(buffer) = media[at][j + 1] /\ Head(buffer) \in Word
    BY <1>1, <1>5, <1>6
<1>8. Tail(buffer) \in Seq(Word) /\ Len(Tail(buffer)) = H - (j + 1)
    BY <1>5, <1>6
<1>9. ASSUME NEW k \in 1 .. H - (j + 1)
      PROVE  Tail(buffer)[k] = media[at][(j + 1) + k]
  <2>1. Tail(buffer)[k] = buffer[k + 1]
      BY <1>5, <1>6, <1>8, <1>9
  <2>2. k + 1 \in 1 .. H - j /\ j + (k + 1) = (j + 1) + k
      BY <1>5, <1>9
  <2> QED
      BY <1>1, <2>1, <2>2
<1>10. Tail(buffer) = [k \in 1 .. H - (j + 1) |-> media[at][(j + 1) + k]]
  <2>1. DOMAIN Tail(buffer) = 1 .. H - (j + 1)
      BY <1>8
  <2>2. Tail(buffer) \in [1 .. Len(Tail(buffer)) -> Word]
      BY <1>8, LenProperties
  <2> QED
      BY <2>1, <2>2, <1>9
<1> QED
    BY <1>1, <1>2, <1>3, <1>4, <1>7, <1>8, <1>10

LEMMA ReadWordInv == ASSUME Inv, ReadWord PROVE Inv'
<1>1. /\ pc = "move" /\ call.op = "read" /\ WordRead /\ NextWord
      /\ UNCHANGED <<media, job, regs, call>>
    BY DEF ReadWord
<1>2. /\ j \in 0 .. H - 1 /\ H \in Nat \ {0} /\ i \in Nat /\ H * i \in Nat
      /\ H * i + j + 1 \in DOMAIN mem
      /\ \A k \in 1 .. j : H * i + k \in DOMAIN mem /\ mem'[H * i + k] = mem[H * i + k]
      /\ mem'[H * i + j + 1] =
             IF ctl = "data" /\ job = "read" THEN Head(buffer) ELSE Noise
    BY WordStored
<1>3. call \in Calls /\ i < call.count /\ call.count \in Nat \ {0}
    BY <1>1, BlockInCall
<1>4. mem' \in [1 .. call.count * HALF_BLOCK_SIZE -> Word \cup {Noise}]
  <2>1. (IF ctl = "data" /\ job = "read" THEN Head(buffer) ELSE Noise) \in Word \cup {Noise}
      BY <1>1, WordAwaits
  <2> QED
      BY <2>1 DEF Inv, TypeOK, ReadWord
<1>5. /\ ctl = "error" => UNCHANGED <<ctl, at, left, buffer>>
      /\ ctl # "error" =>
            /\ buffer' = Tail(buffer)
            /\ IF Tail(buffer) # <<>> THEN UNCHANGED <<ctl, at, left>>
               ELSE /\ at' = at + 1 /\ left' = left - 1
                    /\ ctl' = IF left = 1 THEN "idle" ELSE "busy"
    BY <1>1, WordAwaits DEF WordRead
<1>6. CASE j + 1 < H
  <2>1. j' = j + 1 /\ i' = i /\ pc' = "move" /\ j + 1 \in 0 .. H - 1
      BY <1>1, <1>2, <1>6 DEF NextWord, H
  <2>2. ASSUME ctl # "error" PROVE Tail(buffer) # <<>>
    <3>1. Len(Tail(buffer)) = H - (j + 1)
        BY <1>1, <2>2, WordAwaits
    <3>2. H - (j + 1) # 0
        BY <1>2, <1>6
    <3>3. Len(Tail(buffer)) # 0
        BY <3>1, <3>2
    <3> QED
        BY <3>3
  <2>3. UNCHANGED <<ctl, at, left>>
      BY <1>5, <2>2
  <2>4. buffer' \in Seq(Word)
      BY <1>1, <1>5, WordAwaits DEF Inv, TypeOK
  <2>5. TypeOK'
      BY <1>1, <1>4, <2>1, <2>3, <2>4 DEF Inv, TypeOK, H
  <2>6. CountersInv'
      BY <1>1, <1>3, <2>1 DEF CountersInv
  <2>7. MoveInv'
    <3>1. CASE ctl = "error"
        BY <2>3, <3>1 DEF MoveInv
    <3>2. CASE ctl # "error"
      <4>1. buffer' = [k \in 1 .. H - (j + 1) |-> media[at][(j + 1) + k]]
          BY <1>1, <1>5, <3>2, WordAwaits
      <4>2. buffer' = [k \in 1 .. H - j |-> media[at][j + k]]'
          BY <1>1, <2>1, <2>3, <4>1
      <4>3. ctl = "data" /\ job = "read" /\ AtBlock
          BY <1>1, <3>2, WordAwaits
      <4>4. AtBlock'
          BY <1>1, <2>1, <2>3, <4>3 DEF AtBlock
      <4> QED
          BY <1>1, <2>3, <4>2, <4>3, <4>4 DEF MoveInv
    <3> QED
        BY <3>1, <3>2
  <2>8. MemoryInv'
    <3>1. ASSUME NEW k \in 1 .. j + 1
          PROVE  mem'[H * i + k] = IF ctl = "error" THEN Noise ELSE media[call.lba + i][k]
      <4>1. CASE k \in 1 .. j
          BY <1>1, <1>2, <4>1 DEF Inv, MemoryInv
      <4>2. CASE k = j + 1
        <5>1. H * i + k = H * i + j + 1
            BY <1>2, <4>2
        <5>2. CASE ctl = "error"
            BY <1>2, <5>1, <5>2
        <5>3. CASE ctl # "error"
          <6>1. /\ ctl = "data" /\ job = "read" /\ at = call.lba + i
                /\ Head(buffer) = media[at][j + 1]
              BY <1>1, <5>3, WordAwaits DEF AtBlock
          <6> QED
              BY <1>2, <4>2, <5>1, <5>3, <6>1
        <5> QED
            BY <5>2, <5>3
      <4> QED
          BY <1>2, <3>1, <4>1, <4>2
    <3> QED
        BY <1>1, <2>1, <2>3, <3>1 DEF MemoryInv
  <2> QED
      BY <2>1, <2>5, <2>6, <2>7, <2>8 DEF Inv, BetweenInv, ClaimedInv, AwaitInv
<1>7. CASE ~ (j + 1 < H)
  <2>1. /\ j' = 0 /\ i' = i + 1 /\ j + 1 = H
        /\ pc' = IF i + 1 < call.count THEN "await" ELSE "idle"
      BY <1>1, <1>2, <1>7 DEF NextWord, H
  <2>2. ASSUME ctl # "error"
        PROVE  /\ at' = at + 1 /\ left' = left - 1
               /\ ctl' = IF left = 1 THEN "idle" ELSE "busy"
    <3>1. Len(Tail(buffer)) = H - (j + 1) /\ Tail(buffer) \in Seq(Word)
        BY <1>1, <2>2, WordAwaits
    <3>2. Len(Tail(buffer)) = 0
      <4>1. H - (j + 1) = 0
          BY <1>2, <2>1
      <4> QED
          BY <3>1, <4>1
    <3>3. Tail(buffer) = <<>>
        BY <3>1, <3>2, EmptySeq
    <3> QED
        BY <1>5, <2>2, <3>3
  <2>3. buffer' \in Seq(Word)
      BY <1>1, <1>5, WordAwaits DEF Inv, TypeOK
  <2>4. /\ at' \in Nat /\ left' \in Nat /\ ctl' \in {"idle", "busy", "data", "error"}
    <3>1. CASE ctl = "error"
        BY <1>5, <3>1 DEF Inv, TypeOK
    <3>2. CASE ctl # "error"
        BY <1>1, <2>2, <3>2, WordAwaits
    <3> QED
        BY <3>1, <3>2
  <2>5. TypeOK'
      BY <1>1, <1>2, <1>4, <2>1, <2>3, <2>4 DEF Inv, TypeOK, H
  <2>6. CountersInv'
      BY <1>1, <1>2, <1>3, <2>1 DEF CountersInv
  <2>7. BetweenInv' /\ AwaitInv'
    <3>1. CASE ctl = "error"
        BY <1>5, <3>1 DEF BetweenInv, Rests, AwaitInv
    <3>2. CASE ctl # "error"
      <4>1. /\ job = "read" /\ AtBlock /\ at + 1 = call.lba + (i + 1)
            /\ left - 1 = call.count - (i + 1) /\ (left = 1 <=> ~ (i + 1 < call.count))
          BY <1>1, <3>2, WordAwaits
      <4>2. AtBlock' /\ job' = "read"
          BY <1>1, <2>1, <2>2, <3>2, <4>1 DEF AtBlock
      <4>3. pc' = "await" => ctl' = "busy"
          BY <2>1, <2>2, <3>2, <4>1
      <4>4. pc' = "idle" => ctl' = "idle"
          BY <2>1, <2>2, <3>2, <4>1
      <4> QED
          BY <2>1, <4>2, <4>3, <4>4 DEF BetweenInv, Rests, AwaitInv
    <3> QED
        BY <3>1, <3>2
  <2> QED
      BY <2>1, <2>5, <2>6, <2>7 DEF Inv, ClaimedInv, MoveInv, MemoryInv
<1> QED
    BY <1>6, <1>7

\* What the drive has of a block when the next word is written to it.
LEMMA WordGoes ==
    ASSUME Inv, WriteWord, ctl # "error"
    PROVE  /\ ctl = "data" /\ job = "write" /\ AtBlock /\ at \in Lba /\ at \in Nat
           /\ Len(buffer) = j /\ buffer' \in Seq(Word) /\ Len(buffer') = j + 1
           /\ buffer' = [k \in 1 .. j + 1 |-> call.data[i + 1][k]]
           /\ ctl' = IF j + 1 = H THEN "busy" ELSE "data"
           /\ at' = at /\ left' = left
<1>1. pc = "move" /\ call.op = "write" /\ WordWritten(call.data[i + 1][j + 1])
    BY DEF WriteWord
<1>2. /\ ctl = "data" /\ job = "write" /\ AtBlock
      /\ buffer = [k \in 1 .. j |-> call.data[i + 1][k]]
    BY <1>1 DEF Inv, MoveInv, AtBlock
<1>3. call.data[i + 1] \in [1 .. H -> Word] /\ at \in Lba /\ at \in Nat
    BY <1>1, <1>2, BlockInCall DEF AtBlock, Block, H, Inv, TypeOK
<1>4. j \in 0 .. H - 1 /\ H \in Nat \ {0} /\ buffer \in Seq(Word)
    BY DiskAssumption DEF Inv, TypeOK, H
<1>5. Len(buffer) = j
    BY <1>2, <1>4
<1>6. /\ buffer' = Append(buffer, call.data[i + 1][j + 1])
      /\ ctl' = IF j + 1 = H THEN "busy" ELSE "data"
      /\ at' = at /\ left' = left
    BY <1>1, <1>2, <1>5 DEF WordWritten, H
<1>7. call.data[i + 1][j + 1] \in Word
    BY <1>3, <1>4
<1>8. buffer' \in Seq(Word) /\ Len(buffer') = j + 1
    BY <1>4, <1>5, <1>6, <1>7
<1>9. ASSUME NEW k \in 1 .. j + 1 PROVE buffer'[k] = call.data[i + 1][k]
  <2>1. CASE k = j + 1
      BY <1>4, <1>5, <1>6, <1>7, <2>1
  <2>2. CASE k # j + 1
    <3>1. k \in 1 .. j
        BY <1>4, <1>9, <2>2
    <3>2. buffer'[k] = buffer[k]
        BY <1>4, <1>5, <1>6, <1>7, <3>1
    <3> QED
        BY <1>2, <3>1, <3>2
  <2> QED
      BY <2>1, <2>2
<1>10. buffer' = [k \in 1 .. j + 1 |-> call.data[i + 1][k]]
  <2>1. buffer' \in [1 .. j + 1 -> Word]
      BY <1>8, LenProperties
  <2> QED
      BY <2>1, <1>9
<1> QED
    BY <1>2, <1>3, <1>5, <1>6, <1>8, <1>10

LEMMA WriteWordInv == ASSUME Inv, WriteWord PROVE Inv'
<1>1. /\ pc = "move" /\ call.op = "write" /\ NextWord
      /\ UNCHANGED <<media, job, regs, call, mem>>
    BY DEF WriteWord
<1>2. /\ i \in Nat /\ i < call.count /\ call.count \in Nat \ {0} /\ call.lba \in Nat
      /\ call \in Calls /\ call.data[i + 1] \in [1 .. H -> Word]
    BY <1>1, BlockInCall DEF Block, H
<1>3. j \in 0 .. H - 1 /\ H \in Nat \ {0}
    BY DiskAssumption DEF Inv, TypeOK, H
<1>4. ctl = "error" => UNCHANGED <<ctl, at, left, buffer>>
    BY DEF WriteWord, WordWritten
<1>5. /\ buffer' \in Seq(Word) /\ at' \in Nat /\ left' \in Nat
      /\ ctl' \in {"idle", "busy", "data", "error"}
  <2>1. CASE ctl = "error"
      BY <1>4, <2>1 DEF Inv, TypeOK
  <2>2. CASE ctl # "error"
      BY <2>2, WordGoes DEF Inv, TypeOK
  <2> QED
      BY <2>1, <2>2
<1>6. CASE j + 1 < H
  <2>1. j' = j + 1 /\ i' = i /\ pc' = "move" /\ j + 1 \in 0 .. H - 1
      BY <1>1, <1>3, <1>6 DEF NextWord, H
  <2>2. TypeOK'
      BY <1>1, <1>5, <2>1 DEF Inv, TypeOK, H
  <2>3. CountersInv'
      BY <1>1, <1>2, <2>1 DEF CountersInv
  <2>4. MoveInv'
    <3>1. CASE ctl = "error"
        BY <1>4, <3>1 DEF MoveInv
    <3>2. CASE ctl # "error"
      <4>1. /\ job = "write" /\ AtBlock /\ at' = at /\ left' = left /\ ctl' = "data"
            /\ buffer' = [k \in 1 .. j + 1 |-> call.data[i + 1][k]]
          BY <1>3, <1>6, <3>2, WordGoes
      <4>2. buffer' = [k \in 1 .. j |-> call.data[i + 1][k]]'
          BY <1>1, <2>1, <4>1
      <4>3. AtBlock' /\ job' = "write"
          BY <1>1, <2>1, <4>1 DEF AtBlock
      <4> QED
          BY <4>1, <4>2, <4>3 DEF MoveInv
    <3> QED
        BY <3>1, <3>2
  <2> QED
      BY <1>1, <2>1, <2>2, <2>3, <2>4
      DEF Inv, BetweenInv, ClaimedInv, AwaitInv, MemoryInv
<1>7. CASE ~ (j + 1 < H)
  <2>1. /\ j' = 0 /\ i' = i + 1 /\ j + 1 = H /\ i + 1 \in Nat /\ i + 1 > 0
        /\ pc' = IF i + 1 < call.count THEN "await" ELSE "idle"
      BY <1>1, <1>2, <1>3, <1>7 DEF NextWord, H
  <2>2. TypeOK'
      BY <1>1, <1>3, <1>5, <2>1 DEF Inv, TypeOK, H
  <2>3. CountersInv'
      BY <1>1, <1>2, <2>1 DEF CountersInv
  <2>4. BetweenInv' /\ AwaitInv'
    <3>1. CASE ctl = "error"
        BY <1>4, <3>1 DEF BetweenInv, Rests, AwaitInv
    <3>2. CASE ctl # "error"
      <4>1. /\ job = "write" /\ AtBlock /\ at \in Lba /\ at' = at /\ left' = left
            /\ ctl' = "busy"
            /\ buffer' = [k \in 1 .. H |-> call.data[i + 1][k]]
          BY <2>1, <3>2, WordGoes
      <4>2. buffer' \in Block
          BY <1>2, <4>1 DEF Block, H
      <4>3. /\ at = call.lba + (i + 1) - 1
            /\ left = call.count - (i + 1) + 1
            /\ i + 1 < call.count \/ left = 1
          BY <1>2, <4>1 DEF AtBlock
      <4>4. Settles(call.lba + i - 1, call.count - i + 1)'
          BY <1>1, <2>1, <4>1, <4>2, <4>3 DEF Settles
      <4>5. pc' = "idle" => left = 1
          BY <2>1, <4>3
      <4>6. pc' = "idle" => Settles(at, 1)'
          BY <1>1, <4>1, <4>2, <4>5 DEF Settles
      <4> QED
          BY <1>1, <2>1, <4>4, <4>6 DEF BetweenInv, AwaitInv
    <3> QED
        BY <3>1, <3>2
  <2> QED
      BY <1>1, <2>1, <2>2, <2>3, <2>4 DEF Inv, ClaimedInv, MoveInv, MemoryInv
<1> QED
    BY <1>3, <1>6, <1>7

LEMMA StutterInv == ASSUME Inv, UNCHANGED vars PROVE Inv'
<1>1. UNCHANGED <<media, ctl, job, at, left, buffer, regs, call, pc, i, j, mem>>
    BY DEF vars, controller, driver
<1>2. TypeOK' /\ CountersInv'
    BY <1>1 DEF Inv, TypeOK, CountersInv
<1>3. BetweenInv' /\ ClaimedInv'
    BY <1>1 DEF Inv, BetweenInv, ClaimedInv, Rests, Settles, Register
<1>4. AwaitInv'
    BY <1>1 DEF Inv, AwaitInv, Settles, AtBlock
<1>5. MoveInv'
    BY <1>1 DEF Inv, MoveInv, AtBlock
<1>6. MemoryInv'
    BY <1>1 DEF Inv, MemoryInv
<1> QED
    BY <1>2, <1>3, <1>4, <1>5, <1>6 DEF Inv

LEMMA NextInv == ASSUME Inv, [Next]_vars PROVE Inv'
<1>1. CASE \E c \in Calls : Call(c)
    BY <1>1, CallIsMade
<1>2. CASE DriverStep
    BY <1>2, ClaimInv, SelectInv, CommandInv, AwaitBlockInv, ReadWordInv, WriteWordInv
    DEF DriverStep
<1>3. CASE ControllerStep
    BY <1>3, FetchBlockInv, AskForBlockInv, PersistBlockInv, FailBlockInv
    DEF ControllerStep
<1>4. CASE PowerFail
    BY <1>4, PowerFailInv
<1>5. CASE UNCHANGED vars
    BY <1>5, StutterInv
<1> QED
    BY <1>1, <1>2, <1>3, <1>4, <1>5 DEF Next

LEMMA InvHolds == Spec => []Inv
<1> QED
    BY InitInv, NextInv, PTL DEF Spec

-----------------------------------------------------------------------------
(* What follows for the driver *)

\* Every register, counter and word of memory keeps its type, and nothing is
\* written but blocks of words of the clients (read_blocks, write_blocks).
THEOREM DiskTyped == Spec => []TypeOK
<1>1. Inv => TypeOK
    BY DEF Inv
<1> QED
    BY <1>1, InvHolds, PTL

\* Although the wait for data tests RDY, which is always set, and nothing counts
\* the words together, the loops of read_blocks and write_blocks move a word only
\* when the controller is at that word of that block of that command.
THEOREM DriverInStep == Spec => []InStep
<1>1. ASSUME Inv, pc = "move", ctl # "error"
      PROVE  /\ ctl = "data" /\ job = call.op
             /\ at = call.lba + i /\ left = call.count - i
             /\ Len(buffer) = IF job = "read" THEN HALF_BLOCK_SIZE - j ELSE j
  <2>1. j \in 0 .. H - 1 /\ H \in Nat \ {0} /\ H = HALF_BLOCK_SIZE
      BY <1>1, DiskAssumption DEF Inv, TypeOK, H
  <2>2. CASE /\ AtBlock /\ ctl = "data" /\ job = "read"
             /\ buffer = [k \in 1 .. H - j |-> media[at][j + k]]
      BY <2>1, <2>2 DEF AtBlock
  <2>3. CASE /\ AtBlock /\ ctl = "data" /\ job = "write"
             /\ buffer = [k \in 1 .. j |-> call.data[i + 1][k]]
      BY <2>1, <2>3 DEF AtBlock
  <2> QED
      BY <1>1, <2>2, <2>3 DEF Inv, MoveInv
<1>2. Inv => InStep
    BY <1>1 DEF InStep
<1> QED
    BY <1>2, InvHolds, PTL

-----------------------------------------------------------------------------
(* The refinement: each step is a step of the disk of blocks, or changes     *)
(* nothing that one sees of it.                                              *)

Request == IF pc = "idle" THEN <<>> ELSE call
Answer == IF call.op = "read" THEN BlocksRead ELSE <<>>
Pending == IF ctl = "busy" /\ job = "write" /\ buffer # <<>>
           THEN [lba |-> at, block |-> buffer] ELSE <<>>
Failed == ctl = "error"
NoisyBlock == [k \in 1 .. HALF_BLOCK_SIZE |-> Noise]

\* Nothing has been read when no block has been passed over.
LEMMA NoBlocksRead ==
    /\ i = 0 => Answer = <<>>
    /\ i' = 0 => Answer' = <<>>
<1>1. i = 0 => BlocksRead = <<>>
    BY DEF BlocksRead
<1>2. i' = 0 => BlocksRead' = <<>>
    BY DEF BlocksRead
<1> QED
    BY <1>1, <1>2 DEF Answer

LEMMA PendingIsSome == ASSUME NEW l, NEW b PROVE [lba |-> l, block |-> b] # <<>>
<1>1. DOMAIN [lba |-> l, block |-> b] = {"lba", "block"}
    OBVIOUS
<1>2. DOMAIN <<>> = {}
    OBVIOUS
<1> QED
    BY <1>1, <1>2

LEMMA InitImplements == Init => Device!Init
<1> SUFFICES ASSUME Init PROVE Device!Init
    OBVIOUS
<1>1. Answer = <<>>
    BY NoBlocksRead DEF Init
<1>2. media \in [Lba -> Block]
    BY DiskAssumption DEF Init
<1> QED
    BY <1>1, <1>2 DEF Init, Device!Init, Device!None, Answer

LEMMA CallImplements ==
    ASSUME Inv, NEW c \in Calls, Call(c) PROVE Device!Next
<1>1. Answer' = <<>>
    BY NoBlocksRead DEF Call
<1>2. Device!Invoke(Request')
    BY <1>1 DEF Call, controller, Device!Invoke, Device!None, Answer, Request
<1> QED
    BY <1>2 DEF Device!Next, Request

LEMMA ClaimImplements == ASSUME Inv, Claim PROVE UNCHANGED Device!vars
<1>1. pc # "idle" /\ pc' # "idle" /\ UNCHANGED <<media, ctl, job, at, buffer, call, i, mem>>
    BY DEF Claim, controller
<1> QED
    BY <1>1 DEF Device!vars, BlocksRead

\* A step within the driver or the controller.
LEMMA NothingSeen ==
    ASSUME UNCHANGED <<media, call, i>>, (pc' = "idle") <=> (pc = "idle"),
           Answer' = Answer, Pending' = Pending, Failed' = Failed
    PROVE  UNCHANGED Device!vars
<1>1. Request' = Request
    BY DEF Request
<1> QED
    BY <1>1 DEF Device!vars, Request, Answer, Pending, Failed

LEMMA SelectImplements == ASSUME Inv, Select PROVE UNCHANGED Device!vars
<1>1. pc # "idle" /\ pc' # "idle" /\ UNCHANGED <<media, ctl, job, at, buffer, call, i, mem>>
    BY DEF Select
<1> QED
    BY <1>1, NothingSeen DEF Answer, BlocksRead, Pending, Failed

LEMMA AwaitBlockImplements == ASSUME Inv, AwaitBlock PROVE UNCHANGED Device!vars
<1>1. pc # "idle" /\ pc' # "idle" /\ UNCHANGED <<media, ctl, job, at, buffer, call, i, mem>>
    BY DEF AwaitBlock, controller
<1> QED
    BY <1>1, NothingSeen DEF Answer, BlocksRead, Pending, Failed

\* The command finds the drive with no write left to do.
LEMMA CommandImplements == ASSUME Inv, Command PROVE Device!Next
<1>1. /\ pc = "command" /\ pc' = "await" /\ ctl' = "busy" /\ buffer' = <<>>
      /\ UNCHANGED <<media, call, i, mem>>
    BY DEF Command
<1>2. call # <<>> /\ i = 0 /\ ctl # "busy"
    BY <1>1, CallShape DEF Inv, CountersInv, ClaimedInv, Rests
<1>3. Device!Begin
    BY <1>1, <1>2 DEF Device!Begin, Device!None, BlocksRead
<1> QED
    BY <1>3 DEF Device!Next

LEMMA FetchBlockImplements == ASSUME Inv, FetchBlock PROVE UNCHANGED Device!vars
<1>1. /\ job = "read" /\ ctl = "busy" /\ ctl' = "data"
      /\ UNCHANGED <<media, job, call, pc, i, mem>>
    BY DEF FetchBlock, driver
<1> QED
    BY <1>1, NothingSeen DEF Answer, BlocksRead, Pending, Failed

LEMMA AskForBlockImplements == ASSUME Inv, AskForBlock PROVE UNCHANGED Device!vars
<1>1. /\ buffer = <<>> /\ ctl = "busy" /\ ctl' = "data"
      /\ UNCHANGED <<media, job, buffer, call, pc, i, mem>>
    BY DEF AskForBlock, driver
<1> QED
    BY <1>1, NothingSeen DEF Answer, BlocksRead, Pending, Failed

LEMMA PersistBlockImplements == ASSUME Inv, PersistBlock PROVE Device!Next
<1>1. /\ ctl = "busy" /\ job = "write" /\ buffer # <<>>
      /\ media' = [media EXCEPT ![at] = buffer] /\ buffer' = <<>>
      /\ ctl' = IF left = 1 THEN "idle" ELSE "data"
      /\ UNCHANGED <<job, call, pc, i, mem>>
    BY DEF PersistBlock, driver
<1>2. Pending = [lba |-> at, block |-> buffer] /\ Pending # <<>> /\ Pending' = <<>>
    BY <1>1, PendingIsSome DEF Pending
<1>3. media' = [media EXCEPT ![Pending.lba] = Pending.block]
    BY <1>1, <1>2
<1>4. UNCHANGED <<Request, i, Answer, Failed>>
    BY <1>1 DEF Request, Answer, BlocksRead, Failed
<1>5. Device!Persist
    BY <1>2, <1>3, <1>4 DEF Device!Persist, Device!None, Request, Answer, Pending, Failed
<1> QED
    BY <1>5 DEF Device!Next

\* A drive fails only while it works for a call, or on a block it has taken over.
LEMMA FailBlockImplements == ASSUME Inv, FailBlock PROVE Device!Next
<1>1. /\ "error" \in Faults /\ ctl = "busy" /\ ctl' = "error" /\ buffer' = <<>>
      /\ UNCHANGED <<media, call, pc, i, mem>>
    BY DEF FailBlock, driver
<1>2. Request # <<>> \/ Pending # <<>>
  <2>1. CASE pc = "await"
      BY <2>1, BlockInCall DEF Request
  <2>2. CASE pc # "await"
    <3>1. job = "write" /\ buffer \in Block
        BY <1>1, <2>2, BusyWhere DEF Settles
    <3>2. buffer # <<>>
        BY <3>1, DiskAssumption DEF Block
    <3> QED
        BY <1>1, <3>1, <3>2, PendingIsSome DEF Pending
  <2> QED
      BY <2>1, <2>2
<1>3. Failed' = TRUE /\ Pending' = <<>>
    BY <1>1 DEF Failed, Pending
<1>4. UNCHANGED <<media, Request, i, Answer>>
    BY <1>1 DEF Request, Answer, BlocksRead
<1>5. Device!Fail
    BY <1>1, <1>2, <1>3, <1>4
    DEF Device!Fail, Device!None, Request, Answer, Pending, Failed
<1> QED
    BY <1>5 DEF Device!Next

LEMMA PowerFailImplements == ASSUME Inv, PowerFail PROVE Device!Next
<1>1. pc' = "idle" /\ i' = 0 /\ ctl' = "idle" /\ UNCHANGED media
    BY DEF PowerFail, PoweredUp
<1>2. Request' = <<>> /\ Answer' = <<>> /\ Pending' = <<>> /\ Failed' = FALSE
    BY <1>1, NoBlocksRead DEF Request, Pending, Failed
<1>3. Device!PowerFail
    BY <1>1, <1>2 DEF Device!PowerFail, Device!None, Request, Answer, Pending, Failed
<1> QED
    BY <1>3 DEF Device!Next

\* The blocks that have been read stay as they are; with its last word the block
\* in hand becomes one of them.
LEMMA BlocksGrow ==
    ASSUME Inv, ReadWord
    PROVE  /\ i' = i => Answer' = Answer
           /\ i' = i + 1 =>
                 Answer' = Append(Answer, [k \in 1 .. HALF_BLOCK_SIZE |-> mem'[H * i + k]])
<1> DEFINE Before(b) == [k \in 1 .. HALF_BLOCK_SIZE |-> mem[HALF_BLOCK_SIZE * (b - 1) + k]]
           After(b) == [k \in 1 .. HALF_BLOCK_SIZE |-> mem'[HALF_BLOCK_SIZE * (b - 1) + k]]
           Last == [k \in 1 .. HALF_BLOCK_SIZE |-> mem'[H * i + k]]
           Any == {Before(b) : b \in 1 .. i} \cup {Last}
<1>1. call.op = "read" /\ call' = call /\ i \in Nat
    BY DEF ReadWord, Inv, TypeOK
<1>2. Answer = [b \in 1 .. i |-> Before(b)]
    BY <1>1 DEF Answer, BlocksRead
<1>3. Answer' = [b \in 1 .. i' |-> After(b)]
    BY <1>1 DEF Answer, BlocksRead
<1>4. ASSUME NEW b \in 1 .. i PROVE After(b) = Before(b)
  <2>1. \A k \in 1 .. HALF_BLOCK_SIZE :
            mem'[HALF_BLOCK_SIZE * (b - 1) + k] = mem[HALF_BLOCK_SIZE * (b - 1) + k]
      BY <1>4, WordStored DEF H
  <2> QED
      BY <2>1
<1>5. After(i + 1) = Last
  <2>1. (i + 1) - 1 = i
      BY <1>1
  <2> QED
      BY <2>1 DEF H
<1>6. \A b \in 1 .. i : Before(b) \in Any
    OBVIOUS
<1>7. Last \in Any
    OBVIOUS
<1> HIDE DEF Before, After, Last, Any
<1>8. i' = i => Answer' = Answer
    BY <1>2, <1>3, <1>4
<1>9. ASSUME i' = i + 1 PROVE Answer' = Append(Answer, Last)
  <2>1. Answer \in Seq(Any) /\ Len(Answer) = i /\ (\A b \in 1 .. i : Answer[b] = Before(b))
      BY <1>1, <1>2, <1>6
  <2>2. /\ Append(Answer, Last) \in Seq(Any) /\ Len(Append(Answer, Last)) = i + 1
        /\ \A b \in 1 .. i : Append(Answer, Last)[b] = Before(b)
        /\ Append(Answer, Last)[i + 1] = Last
      BY <2>1, <1>1, <1>7, AppendProperties
  <2>3. \A b \in 1 .. i + 1 : Append(Answer, Last)[b] = After(b)
    <3>1. \A b \in 1 .. i + 1 : b \in 1 .. i \/ b = i + 1
        BY <1>1
    <3> QED
        BY <3>1, <2>2, <1>4, <1>5
  <2>4. Append(Answer, Last) \in [1 .. i + 1 -> Any]
      BY <2>2, LenProperties
  <2> QED
      BY <1>3, <1>9, <2>3, <2>4
<1> QED
    BY <1>8, <1>9 DEF Last

\* A word within a block is not seen; with the last word the block is given, or
\* passed over if the drive has failed.
LEMMA ReadWordImplements ==
    ASSUME Inv, ReadWord PROVE Device!Next \/ UNCHANGED Device!vars
<1>1. /\ pc = "move" /\ call.op = "read" /\ WordRead /\ NextWord
      /\ UNCHANGED <<media, job, call>>
    BY DEF ReadWord
<1>2. /\ i \in Nat /\ j \in 0 .. H - 1 /\ H \in Nat \ {0} /\ H * i \in Nat /\ H = HALF_BLOCK_SIZE
      /\ \A k \in 1 .. j : mem'[H * i + k] = mem[H * i + k]
      /\ mem'[H * i + j + 1] =
             IF ctl = "data" /\ job = "read" THEN Head(buffer) ELSE Noise
    BY WordStored DEF H
<1>3. /\ i < call.count /\ call.count \in Nat /\ call # <<>> /\ Request = call
    BY <1>1, BlockInCall DEF Request
<1>4. Pending = <<>> /\ Pending' = <<>> /\ Failed' = Failed
  <2>1. CASE ctl = "error"
      BY <1>1, <2>1 DEF WordRead, Pending, Failed
  <2>2. CASE ctl # "error"
    <3>1. ctl = "data" /\ job = "read"
        BY <1>1, <2>2, WordAwaits
    <3>2. ctl' # "error"
        BY <1>1, <3>1 DEF WordRead
    <3> QED
        BY <1>1, <3>1, <3>2 DEF Pending, Failed
  <2> QED
      BY <2>1, <2>2
<1>5. CASE j + 1 < H
  <2>1. i' = i /\ pc' = pc
      BY <1>1, <1>2, <1>5 DEF NextWord
  <2>2. Answer' = Answer
      BY <2>1, BlocksGrow
  <2>3. UNCHANGED Device!vars
      BY <1>1, <1>4, <2>1, <2>2, NothingSeen
  <2> QED
      BY <2>3
<1>6. CASE ~ (j + 1 < H)
  <2>1. /\ i' = i + 1 /\ j + 1 = H
        /\ pc' = IF i + 1 < call.count THEN "await" ELSE "idle"
      BY <1>1, <1>2, <1>6 DEF NextWord
  <2>2. Answer' = Append(Answer, [k \in 1 .. HALF_BLOCK_SIZE |-> mem'[H * i + k]])
      BY <2>1, BlocksGrow
  <2>3. Request' = IF i' = call.count THEN <<>> ELSE Request
      BY <1>1, <1>2, <1>3, <2>1 DEF Request
  <2>4. Device!Advance
      BY <1>3, <2>1, <2>3 DEF Device!Advance, Device!None, Request
  <2>5. CASE ctl = "error"
    <3>1. \A k \in 1 .. j : mem'[H * i + k] = Noise
        BY <1>1, <1>2, <2>5 DEF Inv, MemoryInv
    <3>2. \A k \in 1 .. HALF_BLOCK_SIZE : mem'[H * i + k] = Noise
      <4>1. mem'[H * i + j + 1] = Noise /\ H * i + j + 1 = H * i + HALF_BLOCK_SIZE
          BY <1>2, <2>1, <2>5
      <4>2. \A k \in 1 .. HALF_BLOCK_SIZE : k \in 1 .. j \/ k = HALF_BLOCK_SIZE
          BY <1>2, <2>1
      <4> QED
          BY <3>1, <4>1, <4>2
    <3>3. Answer' = Append(Answer, NoisyBlock)
        BY <2>2, <3>2 DEF NoisyBlock
    <3>4. Device!Skip
        BY <1>1, <1>3, <1>4, <2>4, <2>5, <3>3
        DEF Device!Skip, Request, Answer, Pending, Failed, NoisyBlock
    <3> QED
        BY <3>4 DEF Device!Next
  <2>6. CASE ctl # "error"
    <3>1. /\ ctl = "data" /\ job = "read" /\ at = call.lba + i
          /\ media[at] \in [1 .. H -> Word] /\ Head(buffer) = media[at][j + 1]
        BY <1>1, <2>6, WordAwaits DEF AtBlock
    <3>2. \A k \in 1 .. j : mem'[H * i + k] = media[at][k]
        BY <1>1, <1>2, <2>6, <3>1 DEF Inv, MemoryInv
    <3>3. \A k \in 1 .. HALF_BLOCK_SIZE : mem'[H * i + k] = media[at][k]
      <4>1. /\ mem'[H * i + j + 1] = media[at][HALF_BLOCK_SIZE]
            /\ H * i + j + 1 = H * i + HALF_BLOCK_SIZE
          BY <1>2, <2>1, <3>1
      <4>2. \A k \in 1 .. HALF_BLOCK_SIZE : k \in 1 .. j \/ k = HALF_BLOCK_SIZE
          BY <1>2, <2>1
      <4> QED
          BY <3>2, <4>1, <4>2
    <3>4. [k \in 1 .. HALF_BLOCK_SIZE |-> mem'[H * i + k]] = media[call.lba + i]
        BY <1>2, <3>1, <3>3
    <3>5. Answer' = Append(Answer, media[Request.lba + i])
        BY <1>3, <2>2, <3>4
    <3>6. Device!Give
        BY <1>1, <1>3, <1>4, <2>4, <2>6, <3>5
        DEF Device!Give, Device!None, Device!Target, Request, Answer, Pending, Failed
    <3> QED
        BY <3>6 DEF Device!Next
  <2> QED
      BY <2>5, <2>6
<1> QED
    BY <1>5, <1>6

\* A block written is taken over with its last word.
LEMMA WriteWordImplements ==
    ASSUME Inv, WriteWord PROVE Device!Next \/ UNCHANGED Device!vars
<1>1. /\ pc = "move" /\ call.op = "write" /\ NextWord
      /\ UNCHANGED <<media, job, call, mem>>
    BY DEF WriteWord
<1>2. /\ i \in Nat /\ i < call.count /\ call.count \in Nat \ {0} /\ call # <<>>
      /\ Request = call /\ call.data[i + 1] \in [1 .. H -> Word]
    BY <1>1, BlockInCall DEF Request, Block, H
<1>3. j \in 0 .. H - 1 /\ H \in Nat \ {0} /\ H = HALF_BLOCK_SIZE
    BY DiskAssumption DEF Inv, TypeOK, H
<1>4. Answer' = Answer /\ Pending = <<>>
  <2>1. ctl # "busy"
      BY <1>1, BusyWhere
  <2> QED
      BY <1>1, <2>1 DEF Answer, Pending
<1>5. Failed' = Failed
  <2>1. CASE ctl = "error"
      BY <2>1 DEF WriteWord, WordWritten, Failed
  <2>2. CASE ctl # "error"
      BY <2>2, WordGoes DEF Failed
  <2> QED
      BY <2>1, <2>2
<1>6. CASE j + 1 < H
  <2>1. i' = i /\ pc' = pc
      BY <1>1, <1>3, <1>6 DEF NextWord
  <2>2. ctl' # "busy"
    <3>1. CASE ctl = "error"
        BY <3>1 DEF WriteWord, WordWritten
    <3>2. CASE ctl # "error"
        BY <1>3, <1>6, <3>2, WordGoes
    <3> QED
        BY <3>1, <3>2
  <2>3. Pending' = Pending
      BY <1>4, <2>2 DEF Pending
  <2>4. UNCHANGED Device!vars
      BY <1>1, <1>4, <1>5, <2>1, <2>3, NothingSeen
  <2> QED
      BY <2>4
<1>7. CASE ~ (j + 1 < H)
  <2>1. /\ i' = i + 1 /\ j + 1 = H
        /\ pc' = IF i + 1 < call.count THEN "await" ELSE "idle"
      BY <1>1, <1>3, <1>7 DEF NextWord
  <2>2. Request' = IF i' = call.count THEN <<>> ELSE Request
      BY <1>1, <1>2, <2>1 DEF Request
  <2>3. Device!Advance
      BY <1>2, <2>1, <2>2 DEF Device!Advance, Device!None, Request
  <2>4. CASE ctl = "error"
    <3>1. ctl' = "error"
        BY <2>4 DEF WriteWord, WordWritten
    <3>2. Pending' = Pending
        BY <1>4, <3>1 DEF Pending
    <3>3. Device!Skip
        BY <1>1, <1>2, <1>4, <1>5, <2>3, <2>4, <3>2
        DEF Device!Skip, Request, Answer, Pending, Failed
    <3> QED
        BY <3>3 DEF Device!Next
  <2>5. CASE ctl # "error"
    <3>1. /\ job = "write" /\ at' = call.lba + i /\ ctl' = "busy"
          /\ buffer' = [k \in 1 .. H |-> call.data[i + 1][k]]
        BY <2>1, <2>5, WordGoes DEF AtBlock
    <3>2. buffer' = call.data[i + 1] /\ buffer' # <<>>
        BY <1>2, <1>3, <3>1
    <3>3. Pending' = [lba |-> Request.lba + i, block |-> Request.data[i + 1]]
        BY <1>1, <1>2, <3>1, <3>2 DEF Pending
    <3>4. Device!Take
        BY <1>1, <1>2, <1>4, <1>5, <2>3, <2>5, <3>3
        DEF Device!Take, Device!None, Device!Target, Request, Answer, Pending, Failed
    <3> QED
        BY <3>4 DEF Device!Next
  <2> QED
      BY <2>4, <2>5
<1> QED
    BY <1>6, <1>7

LEMMA StutterImplements == ASSUME UNCHANGED vars PROVE UNCHANGED Device!vars
<1>1. UNCHANGED <<media, ctl, job, at, buffer, call, pc, i, mem>>
    BY DEF vars, controller, driver
<1> QED
    BY <1>1, NothingSeen DEF Answer, BlocksRead, Pending, Failed

LEMMA NextImplements == ASSUME Inv, [Next]_vars PROVE [Device!Next]_(Device!vars)
<1>1. CASE \E c \in Calls : Call(c)
    BY <1>1, CallImplements
<1>2. CASE DriverStep
    BY <1>2, ClaimImplements, SelectImplements, CommandImplements, AwaitBlockImplements,
       ReadWordImplements, WriteWordImplements
    DEF DriverStep
<1>3. CASE ControllerStep
    BY <1>3, FetchBlockImplements, AskForBlockImplements, PersistBlockImplements,
       FailBlockImplements
    DEF ControllerStep
<1>4. CASE PowerFail
    BY <1>4, PowerFailImplements
<1>5. CASE UNCHANGED vars
    BY <1>5, StutterImplements
<1> QED
    BY <1>1, <1>2, <1>3, <1>4, <1>5 DEF Next

\* read_blocks and write_blocks are a disk of blocks: what is read is what the
\* medium holds, each block is passed over whole and in order, and only blocks
\* that were asked for reach the medium.
THEOREM DriverIsDevice == Spec => ImplementsDevice
<1>1. Init => Device!Init
    BY InitImplements
<1>2. Inv /\ [Next]_vars => [Device!Next]_(Device!vars)
    BY NextImplements
<1> QED
    BY <1>1, <1>2, InvHolds, PTL DEF Spec, ImplementsDevice, Device!Spec
=============================================================================
