------------------------------- MODULE MCFAT32 -------------------------------
(* Small instances of FAT32 for TLC: values of its constants.                *)
EXTENDS FAT32Claims, FAT32Store, TLC

CONSTANTS nameA, nameB, root, rootLabel, zeroName, small, large, folder

MCName == {nameA, nameB}
\* Nothing tells one name from another.
MCSymmetry == Permutations(MCName)
MCPayload == {small, large}
MCLargeOnly == {large}

\* One cluster and two clusters.
MCClustersOf == (small :> 1) @@ (large :> 2)
MCTwoClusters == large :> 2
=============================================================================
