------------------------------ MODULE MCConsole ------------------------------
(* Console on a small screen. *)
EXTENDS Console, TLC

\* Nothing; on one row, over two rows; a piece longer than a row.
MCOutputs == {<<>>, <<1, 0, 1>>, <<8>>}

MCSymmetry == Permutations(Char)
=============================================================================
