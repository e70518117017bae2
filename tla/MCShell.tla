------------------------------- MODULE MCShell -------------------------------
(* Shell on a small store. *)
EXTENDS Shell, TLC

CONSTANTS root, dirA, dirB

MCDirId == {root, dirA, dirB}
MCSizeOf == [p \in Payload |-> 1]
MCSymmetry ==
    Permutations(Name \ {SHELL}) \cup Permutations({dirA, dirB}) \cup Permutations(Payload)
=============================================================================
