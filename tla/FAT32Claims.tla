----------------------------- MODULE FAT32Claims -----------------------------
(****************************************************************************)
(* What header/cpu/fat32.h says of the driver and src/fat32.c does not do.   *)
(* Each is refuted by a run of its own.                                      *)
(****************************************************************************)
EXTENDS FAT32Safety

\* fat32.h:165-167: create_fat32 writes a "proper FileAllocationTable (contain
\* CLUSTER_0_VALUE, CLUSTER_1_VALUE, and initialized root directory)".  A root
\* directory that calls accept is one whose FAT entry is END_OF_FILE.
RootDirectoryAllocated == pc = "idle" => fat_table[ROOT] = END_OF_FILE

\* fat32.h:165-173: a disk that carries the signature carries a proper FAT; the
\* driver mounts it unseen.
MountedIsFormatted == pc = "idle" => fat_table[0] = CLUSTER_0_VALUE

\* fat32.h:231: delete of a name that no entry has returns 1.
DeleteReturns == pc = "hung" => req.op # "delete"

\* fat32.h:24,70: the cluster an entry names is a valid cluster, marked in the FAT.
EntryClusterAllocated ==
    pc = "idle" => \A d \in LiveDirs : \A i \in UsedSlots(content[d].table) :
        fat_table[content[d].table[i].cluster] # EMPTY
=============================================================================
