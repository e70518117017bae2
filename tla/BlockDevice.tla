----------------------------- MODULE BlockDevice -----------------------------
(****************************************************************************)
(* What read_blocks and write_blocks (src/disk.c) promise the file system:   *)
(* a disk of blocks.  A call works on consecutive blocks in ascending order, *)
(* each entirely or not at all.  A written block is first taken over by the  *)
(* drive and then put on the medium; a call may return while the last block  *)
(* it wrote is still on its way.  What is on its way when the power fails is *)
(* lost.  If the drive can fail, a call returns all the same: what it read   *)
(* then is anything, what it wrote is gone.                                  *)
(****************************************************************************)
EXTENDS Integers, Sequences

CONSTANTS
    Lba,        \* block addresses, consecutive numbers
    Block,      \* what a block may hold
    Noise,      \* what is read from a drive that has failed
    MayFail     \* whether the drive can fail

VARIABLES
    media,      \* the blocks on the medium
    request,    \* the call being served, or None
    taken,      \* how many of its blocks have been passed over
    answer,     \* the blocks read so far
    pending,    \* the block the drive holds and the medium does not yet, or None
    failed      \* whether the drive has failed since a call last began on it

vars == <<media, request, taken, answer, pending, failed>>

None == <<>>
Target == request.lba + taken

Init ==
    /\ media \in [Lba -> Block]
    /\ request = None /\ taken = 0 /\ answer = <<>>
    /\ pending = None /\ failed = FALSE

Invoke(r) ==
    /\ request = None
    /\ request' = r /\ taken' = 0 /\ answer' = <<>>
    /\ UNCHANGED <<media, pending, failed>>

\* The drive takes the command: it has no write left, and a failure is forgotten.
Begin ==
    /\ request # None /\ taken = 0 /\ pending = None
    /\ failed' = FALSE
    /\ UNCHANGED <<media, request, taken, answer, pending>>

\* One block has been passed over; the call returns with the last.
Advance ==
    /\ request # None /\ taken' = taken + 1
    /\ request' = IF taken' = request.count THEN None ELSE request

Give ==
    /\ request # None /\ request.op = "read" /\ pending = None /\ ~failed
    /\ answer' = Append(answer, media[Target])
    /\ Advance /\ UNCHANGED <<media, pending, failed>>

Take ==
    /\ request # None /\ request.op = "write" /\ pending = None /\ ~failed
    /\ pending' = [lba |-> Target, block |-> request.data[taken + 1]]
    /\ Advance /\ UNCHANGED <<media, answer, failed>>

Persist ==
    /\ pending # None
    /\ media' = [media EXCEPT ![pending.lba] = pending.block]
    /\ pending' = None
    /\ UNCHANGED <<request, taken, answer, failed>>

Fail ==
    /\ MayFail /\ (request # None \/ pending # None)
    /\ failed' = TRUE /\ pending' = None
    /\ UNCHANGED <<media, request, taken, answer>>

\* A block of a call the drive has failed in.
Skip ==
    /\ failed /\ Advance
    /\ \/ request.op = "write" /\ answer' = answer
       \/ request.op = "read" /\ answer' = Append(answer, Noise)
    /\ UNCHANGED <<media, pending, failed>>

PowerFail ==
    /\ request' = None /\ taken' = 0 /\ answer' = <<>> /\ pending' = None
    /\ failed' = FALSE /\ UNCHANGED media

\* Requests are whatever a client asks for.
Next ==
    \/ Invoke(request') \/ Begin \/ Give \/ Take \/ Persist \/ Fail \/ Skip
    \/ PowerFail

Spec == Init /\ [][Next]_vars
=============================================================================
