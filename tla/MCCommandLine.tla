---------------------------- MODULE MCCommandLine ----------------------------
(* CommandLine for all lines of up to seven characters. *)
EXTENDS CommandLine

CONSTANTS l, r, v

MCLetter == {l, r, v}
MCWholeLine == {<<l>>}
MCOneWord == {<<r>>, <<r, l>>}
MCTwoWords == {<<v>>}
\* Before the first call, and after one that returned 0.
MCAtAddress0 == {[k \in 0 .. 1 |-> v], [k \in 0 .. 1 |-> IF k = 0 THEN NUL ELSE v]}
=============================================================================
