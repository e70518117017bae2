------------------------------ MODULE MCATADisk ------------------------------
(* ATADisk on sixteen blocks of two words. *)
EXTENDS ATADisk, TLC

\* A word of the disk as it was, or of what a client wrote.
MCWord == [from : {"disk"} \cup {"client"}, n : 0 .. 15, k : 1 .. 2]
Words(from, n) == [k \in 1 .. 2 |-> [from |-> from, n |-> n, k |-> k]]
MCDisks == {[l \in 0 .. 15 |-> Words("disk", l)]}

\* Addresses with each digit 0 and 1, ranges that carry and that meet.
MCCalls ==
    {[op |-> "read", lba |-> l, count |-> c] : l \in {5, 7, 10}, c \in {1, 2}}
    \cup {[op |-> "write", lba |-> l, count |-> c, data |-> [b \in 1 .. c |-> Words("client", b)]] :
              l \in {5, 7}, c \in {1, 2}}
=============================================================================
