-------------------------------- MODULE Paging --------------------------------
(****************************************************************************)
(* The page-frame manager of kajijOSta (src/paging.c): which 4 MiB frames    *)
(* are in use, how many are left, and the kernel's page directory.           *)
(*                                                                           *)
(* Both calls run in the kernel with no preemption: one step each.  The      *)
(* mapped frame and the user bit are what is kept of a directory entry; the  *)
(* TLB is flushed in the same call as the entry it caches, so it is left out.*)
(****************************************************************************)
EXTENDS Integers, FiniteSets

CONSTANTS
    PAGE_FRAME_MAX_COUNT, \* frames of physical memory; 32
    PAGE_ENTRY_COUNT,     \* pages of the directory; 1024
    KERNEL_PAGE           \* the higher-half kernel's page; 0x300

ASSUME PagingAssumption ==
    /\ PAGE_FRAME_MAX_COUNT \in Nat /\ PAGE_FRAME_MAX_COUNT > 1
    /\ PAGE_ENTRY_COUNT \in Nat /\ PAGE_ENTRY_COUNT > PAGE_FRAME_MAX_COUNT
    /\ KERNEL_PAGE \in PAGE_FRAME_MAX_COUNT .. PAGE_ENTRY_COUNT - 1

Frame == 0 .. PAGE_FRAME_MAX_COUNT - 1
Page == 0 .. PAGE_ENTRY_COUNT - 1

VARIABLES
    page_frame_map,        \* frame -> in use
    free_page_frame_count,
    table                  \* page -> its directory entry

vars == <<page_frame_map, free_page_frame_count, table>>

PageEntry == [present : BOOLEAN, user : BOOLEAN, frame : Frame]
NotPresent(f) == [present |-> FALSE, user |-> FALSE, frame |-> f]
Kernel == [present |-> TRUE, user |-> FALSE, frame |-> 0]
User(f) == [present |-> TRUE, user |-> TRUE, frame |-> f]

\* Frame 0 holds the kernel, mapped at 0 and in the higher half.
Init ==
    /\ page_frame_map = [f \in Frame |-> f = 0]
    /\ free_page_frame_count = PAGE_FRAME_MAX_COUNT - 1
    /\ table = [p \in Page |-> IF p \in {0, KERNEL_PAGE} THEN Kernel ELSE NotPresent(0)]

FreeFrames == {f \in Frame : ~page_frame_map[f]}
UserPages == {p \in Page : table[p].user}

BugFirstFree ==           \* does not look whether the frame is in use
    {f \in Frame : \A g \in 0 .. f - 1 : page_frame_map[g]}
FirstFree == {f \in FreeFrames : \A g \in 0 .. f - 1 : page_frame_map[g]}

\* paging_allocate_user_page_frame at page p, mapped already or not.
Allocate(p) ==
    \E f \in FirstFree :
        /\ page_frame_map' = [page_frame_map EXCEPT ![f] = TRUE]
        /\ free_page_frame_count' = free_page_frame_count - 1
        /\ table' = [table EXCEPT ![p] = User(f)]

BugAllocateRefuse ==      \* counts down before it has found a frame
    /\ FreeFrames = {} /\ free_page_frame_count' = free_page_frame_count - 1
    /\ UNCHANGED <<page_frame_map, table>>
AllocateRefuse == FreeFrames = {} /\ UNCHANGED vars

\* The pages a client frees, all within the frame map's range: those it has mapped,
\* on whatever frame, and those whose number is that of a free frame (refused).
Freeable == {p \in Frame : p \in UserPages \/ ~page_frame_map[p]}

BugFree(p) ==             \* the frame is given back, the entry stays
    /\ page_frame_map[p]
    /\ page_frame_map' = [page_frame_map EXCEPT ![p] = FALSE]
    /\ free_page_frame_count' = free_page_frame_count + 1
    /\ UNCHANGED table

\* paging_free_user_page_frame: the page's number serves as the frame's, so the
\* frame given back may be another page's, or the kernel's.
Free(p) ==
    /\ page_frame_map[p]
    /\ page_frame_map' = [page_frame_map EXCEPT ![p] = FALSE]
    /\ free_page_frame_count' = free_page_frame_count + 1
    /\ table' = [table EXCEPT ![p] = NotPresent(p)]

FreeRefuse(p) == ~page_frame_map[p] /\ UNCHANGED vars

Next ==
    \/ \E p \in Page \ {KERNEL_PAGE} : Allocate(p)
    \/ AllocateRefuse
    \/ \E p \in Freeable : Free(p) \/ FreeRefuse(p)

Spec == Init /\ [][Next]_vars

-----------------------------------------------------------------------------
\* Every variable has a value of its C type.
TypeOK ==
    /\ page_frame_map \in [Frame -> BOOLEAN]
    /\ free_page_frame_count \in Nat
    /\ table \in [Page -> PageEntry]

\* free_page_frame_count is the number of frames not marked in page_frame_map,
\* through any mix of allocations, re-allocations of a mapped page and frees.
CountExact == free_page_frame_count = Cardinality(FreeFrames)

\* No more pages are mapped than frames have been given out: a page that is freed
\* goes from the directory in the call that counts its frame as free, also where
\* the frame given back is the wrong one.  (That two pages never lie on one frame
\* does not hold: after a wrong frame is given back they may.)
NeverOvercommitted ==
    free_page_frame_count + Cardinality(UserPages) < PAGE_FRAME_MAX_COUNT
=============================================================================
