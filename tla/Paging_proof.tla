----------------------------- MODULE Paging_proof -----------------------------
(* Proofs about the page-frame manager, for every number of frames and pages. *)
EXTENDS Paging, FiniteSetTheorems, TLAPS

LEMMA InitType == Init => TypeOK
  BY PagingAssumption
     DEF Init, TypeOK, Frame, Page, PageEntry, Kernel, NotPresent

\* The count is a natural number because it is exact.
CountInv == TypeOK /\ CountExact

LEMMA FreeFinite ==
    ASSUME TypeOK
    PROVE  IsFiniteSet(FreeFrames) /\ Cardinality(FreeFrames) \in Nat
  <1>1. IsFiniteSet(Frame)
    BY PagingAssumption, FS_Interval DEF Frame
  <1>2. FreeFrames \subseteq Frame
    BY DEF FreeFrames
  <1> QED
    BY <1>1, <1>2, FS_Subset, FS_CardinalityType

LEMMA InitMap == Init => \A f \in Frame : page_frame_map[f] <=> f = 0
  BY Zenon DEF Init

LEMMA InitCount == Init => CountExact
  <1> SUFFICES ASSUME Init PROVE CountExact
    OBVIOUS
  <1>1. FreeFrames = 1 .. PAGE_FRAME_MAX_COUNT - 1
    BY PagingAssumption, InitMap DEF FreeFrames, Frame
  <1>2. Cardinality(1 .. PAGE_FRAME_MAX_COUNT - 1) = PAGE_FRAME_MAX_COUNT - 1
    BY PagingAssumption, FS_Interval
  <1> QED
    BY <1>1, <1>2 DEF Init, CountExact

LEMMA NextCount == CountInv /\ [Next]_vars => CountInv'
  <1> SUFFICES ASSUME CountInv, [Next]_vars PROVE CountInv'
    OBVIOUS
  <1> USE DEF CountInv
  <1>1. ASSUME NEW p \in Page, Allocate(p) PROVE CountInv'
    <2>1. PICK f \in FirstFree :
             /\ page_frame_map' = [page_frame_map EXCEPT ![f] = TRUE]
             /\ free_page_frame_count' = free_page_frame_count - 1
             /\ table' = [table EXCEPT ![p] = User(f)]
      BY <1>1 DEF Allocate
    <2>2. f \in FreeFrames /\ f \in Frame
      BY DEF FirstFree, FreeFrames
    <2>3. FreeFrames' = FreeFrames \ {f}
      BY <2>1, <2>2 DEF FreeFrames, TypeOK
    <2>4. Cardinality(FreeFrames') = Cardinality(FreeFrames) - 1
      BY <2>2, <2>3, FreeFinite, FS_RemoveElement
    <2>5. CountExact'
      BY <2>1, <2>4 DEF CountExact
    <2>6. Cardinality(FreeFrames') \in Nat
      BY <2>3, FreeFinite, FS_Subset, FS_CardinalityType
    <2>7. TypeOK'
      BY <2>1, <2>2, <2>5, <2>6 DEF TypeOK, PageEntry, User, CountExact
    <2> QED
      BY <2>5, <2>7
  <1>2. ASSUME NEW p \in Freeable, Free(p) PROVE CountInv'
    <2>1. p \in Frame /\ p \in Page
      BY PagingAssumption DEF Freeable, Frame, Page
    <2>2. FreeFrames' = FreeFrames \cup {p} /\ p \notin FreeFrames
      BY <1>2, <2>1 DEF Free, FreeFrames, TypeOK
    <2>3. Cardinality(FreeFrames') = Cardinality(FreeFrames) + 1
      BY <2>2, FreeFinite, FS_AddElement
    <2>4. CountExact'
      BY <1>2, <2>3 DEF Free, CountExact
    <2>5. TypeOK'
      BY <1>2, <2>1 DEF Free, TypeOK, PageEntry, NotPresent
    <2> QED
      BY <2>4, <2>5
  <1>3. CASE UNCHANGED vars
    BY <1>3 DEF vars, TypeOK, CountExact, FreeFrames
  <1> QED
    BY <1>1, <1>2, <1>3 DEF Next, AllocateRefuse, FreeRefuse

\* The count of free frames is exact whatever pages clients map and free, also
\* when a free hits the wrong frame; so it never wraps below zero.
THEOREM CountCorrect == Spec => []CountExact
  BY InitType, InitCount, NextCount, PTL DEF Spec, CountInv

\* Map, count and directory keep their types: every entry lies on a frame there is,
\* and the count, unsigned in the code, never goes below zero.
THEOREM PagingTyped == Spec => []TypeOK
  BY InitType, InitCount, NextCount, PTL DEF Spec, CountInv

-----------------------------------------------------------------------------
(* Frames and pages *)

LEMMA UserFinite ==
    ASSUME TypeOK
    PROVE  IsFiniteSet(UserPages) /\ Cardinality(UserPages) \in Nat
  <1>1. IsFiniteSet(Page)
    BY PagingAssumption, FS_Interval DEF Page
  <1>2. UserPages \subseteq Page
    BY DEF UserPages
  <1> QED
    BY <1>1, <1>2, FS_Subset, FS_CardinalityType

LEMMA InitNever == Init => NeverOvercommitted
  <1> SUFFICES ASSUME Init PROVE NeverOvercommitted
    OBVIOUS
  <1>1. UserPages = {}
    BY DEF Init, UserPages, Kernel, NotPresent
  <1> QED
    BY <1>1, FS_EmptySet, PagingAssumption DEF Init, NeverOvercommitted

LEMMA NextNever ==
    CountInv /\ NeverOvercommitted /\ [Next]_vars => NeverOvercommitted'
  <1> SUFFICES ASSUME CountInv, NeverOvercommitted, [Next]_vars
               PROVE  NeverOvercommitted'
    OBVIOUS
  <1> USE DEF CountInv
  <1>0. free_page_frame_count \in Nat /\ Cardinality(UserPages) \in Nat
    BY UserFinite DEF TypeOK
  <1>1. ASSUME NEW p \in Page, Allocate(p) PROVE NeverOvercommitted'
    <2>1. PICK f \in Frame : /\ free_page_frame_count' = free_page_frame_count - 1
                             /\ table' = [table EXCEPT ![p] = User(f)]
      BY <1>1 DEF Allocate, FirstFree, FreeFrames
    <2>2. UserPages' = UserPages \cup {p}
      BY <2>1 DEF TypeOK, UserPages, User
    <2>3. Cardinality(UserPages') \in {Cardinality(UserPages), Cardinality(UserPages) + 1}
      BY <2>2, UserFinite, FS_AddElement
    <2> QED
      BY <2>1, <2>3, <1>0, PagingAssumption DEF NeverOvercommitted
  <1>2. ASSUME NEW p \in Freeable, Free(p) PROVE NeverOvercommitted'
    <2>1. p \in UserPages
      BY <1>2 DEF Freeable, Free
    <2>2. UserPages' = UserPages \ {p}
      BY <1>2, <2>1 DEF Free, TypeOK, UserPages, NotPresent
    <2>3. Cardinality(UserPages') = Cardinality(UserPages) - 1
      BY <2>1, <2>2, UserFinite, FS_RemoveElement
    <2>4. free_page_frame_count' = free_page_frame_count + 1
      BY <1>2 DEF Free
    <2> QED
      BY <2>3, <2>4, <1>0, PagingAssumption DEF NeverOvercommitted
  <1>3. CASE UNCHANGED vars
    BY <1>3 DEF vars, NeverOvercommitted, UserPages
  <1> QED
    BY <1>1, <1>2, <1>3 DEF Next, AllocateRefuse, FreeRefuse

\* Pages mapped and frames counted as free together never exceed the frames behind
\* the kernel's, whatever pages clients map again and free, on whatever frames.
THEOREM PagesWithinFrames == Spec => []NeverOvercommitted
  BY InitType, InitCount, NextCount, InitNever, NextNever, PTL DEF Spec, CountInv
=============================================================================
