----------------------------- MODULE Shell_proof -----------------------------
(* Proofs about the shell on the file store, for every set of names, payloads *)
(* and directories: it always knows where it is, and find misses nothing.     *)
EXTENDS Shell, FiniteSetTheorems, WellFoundedInduction, TLAPS

-----------------------------------------------------------------------------
(* The inductive invariant: the store is a tree.                             *)

Node == {FS!File(p) : p \in Payload} \cup {FS!Dir(d) : d \in DirId}
NodeTable == UNION {[N -> Node] : N \in SUBSET Name}
Directory == [label : Name \cup {RootLabel}, nodes : NodeTable]

\* s links directory d to directory x under the name n.
Link(s, d, n, x) ==
    d \in DOMAIN s /\ n \in DOMAIN s[d].nodes /\ s[d].nodes[n] = FS!Dir(x)

StoreType(s) ==
    RootId \in DOMAIN s /\ DOMAIN s \subseteq DirId /\ s \in [DOMAIN s -> Directory]

\* No entry has its directory's own name, every link leads to a directory that
\* goes by the link's name, and to each but the root leads one link.
Linked(s) ==
    /\ s[RootId].label = RootLabel
    /\ \A d \in DOMAIN s : s[d].label \notin DOMAIN s[d].nodes
    /\ \A d, x \in DirId, n \in Name : Link(s, d, n, x) =>
          x \in DOMAIN s /\ x # RootId /\ s[x].label = n
    /\ \A d, e, x \in DirId, n, m \in Name :
          Link(s, d, n, x) /\ Link(s, e, m, x) => d = e

\* A set of directories that holds the root and all that its members link to.
Closed(s, S) ==
    RootId \in S /\ \A d \in S, x \in DirId, n \in Name : Link(s, d, n, x) => x \in S

\* Every directory is reached from the root: no smaller set is closed.
Whole(s) == \A S \in SUBSET DOMAIN s : Closed(s, S) => S = DOMAIN s

Tree(s) == StoreType(s) /\ Linked(s) /\ Whole(s)

-----------------------------------------------------------------------------
(* ... the shell's path names directories of it, each once ...               *)

Path == Append(directory_stack, current_directory)
PathLen == Len(directory_stack) + 1
PathId(k) == Path[k].cluster_number

PathInv ==
    /\ current_directory \in DirectoryState
    /\ directory_stack \in Seq(DirectoryState) /\ Len(directory_stack) <= STACK_SIZE
    /\ Path[1] = RootDirectory
    /\ \A k \in 1 .. PathLen : PathId(k) \in DOMAIN store
    /\ \A k \in 1 .. PathLen - 1 :
          /\ Path[k + 1].parent_cluster_number = PathId(k)
          /\ Link(store, PathId(k), Path[k + 1].name, PathId(k + 1))
    /\ \A k, m \in 1 .. PathLen : PathId(k) = PathId(m) => k = m

-----------------------------------------------------------------------------
(* ... and a call under way is one the running command makes at this step.   *)

Busy == call.op \notin {"none", "off"}

ListsHere == step \in {"cd", "list"} \/ (step = "last" /\ job.op = "ls")
HereListed == [code |-> 0, data |-> [dir |-> FS!Listing(Here)]]

CallTyped ==
    /\ call \in FS!Call \cup {FS!None, FS!Off}
    /\ Busy => call.parent \in DOMAIN store
    /\ call = FS!Off => step = "prompt" /\ directory_stack = <<>>
    /\ step \in {"prompt", "scan"} \/ (step = "last" /\ job.op \in {"cd", "find"}) => ~Busy

\* What may change the store is about the current directory or the one above.
ChangeInv ==
    /\ call.op = "write" =>
          /\ call.parent \in {Here, Above} /\ call.name # store[call.parent].label
          /\ step \in {"save", "last"}
    /\ call.op = "delete" =>
          /\ call.parent \in {Here, Above} /\ call.name # current_directory.name
          /\ step = "last" /\ job.op \in {"rm", "mv"}
    /\ job.op \in {"mv", "cp"} => {job.source, job.destination} \subseteq Elsewhere

AnswerInv ==
    /\ ListsHere =>
          \/ /\ call.op = "read_directory"
             /\ call.parent = Above /\ call.name = current_directory.name
          \/ call = FS!None /\ answer = HereListed
    /\ step \in {"load", "probe"} =>
          \/ call.op = "read"
          \/ call = FS!None /\ (answer.code = 0 => answer.data.file \in Payload)
    /\ step = "find" =>
          \/ call.op = "read_directory"
          \/ /\ call = FS!None
             /\ answer.code = 0 =>
                   \E d \in DOMAIN store : answer.data.dir = FS!Listing(d)

CallInv == CallTyped /\ ChangeInv /\ AnswerInv

ListedNode == {FS!Dir(d) : d \in DirId} \cup {[kind |-> "file", size |-> 1]}
Listings == UNION {[N -> ListedNode] : N \in SUBSET Name}
\* The locals of the running command.
JobInv ==
    /\ job \in Job \cup {NoJob} /\ step \in Steps(job.op)
    /\ filesize \in {0, 1} /\ buf \in Payload \cup {Garbage} /\ ok \in BOOLEAN
    /\ found \in BOOLEAN
    /\ walk \in Seq([next : DirId, entries : Listings])
    /\ walk # <<>> => step \in {"find", "scan"}
    /\ step = "find" => walk # <<>>
    /\ \A k \in DOMAIN walk : \A e \in DOMAIN walk[k].entries \ {job.source} :
          walk[k].entries[e].kind = "dir"

ShellInv == Tree(store) /\ PathInv /\ CallInv /\ JobInv

-----------------------------------------------------------------------------
(* find from the root: what is behind it and what is before it.              *)

Holds(d) == job.source \in DOMAIN store[d].nodes
SomeHolds == \E d \in DOMAIN store : Holds(d)

\* The name is in an entry still to be looked at.
Ahead == \E k \in DOMAIN walk : job.source \in DOMAIN walk[k].entries

\* Directories still to be listed: those in entries, and that of a call under way.
Pending ==
    {x \in DOMAIN store :
        \/ \E k \in DOMAIN walk : \E e \in DOMAIN walk[k].entries \ {job.source} :
              walk[k].entries[e] = FS!Dir(x)
        \/ step = "find" /\ x = Top.next}

\* V has been listed, without meeting the name.
Swept(V) ==
    /\ RootId \in V \cup Pending
    /\ \A d \in V : ~Holds(d)
    /\ \A d \in V, x \in DirId, n \in Name : Link(store, d, n, x) => x \in V \cup Pending

\* The call lists the directory of the innermost activation.
ListsTop ==
    \/ /\ call.op = "read_directory"
       /\ \/ Top.next = RootId /\ call.parent = RootId /\ call.name = RootLabel
          \/ Link(store, call.parent, call.name, Top.next)
    \/ call = FS!None /\ answer = [code |-> 0, data |-> [dir |-> FS!Listing(Top.next)]]

\* The entries still to be looked at are entries of the directory below which they
\* are looked up.
FindEntries ==
    \A k \in DOMAIN walk :
        /\ walk[k].next \in DOMAIN store
        /\ \A e \in DOMAIN walk[k].entries :
              /\ e \in DOMAIN store[walk[k].next].nodes
              /\ walk[k].entries[e] = FS!Listing(walk[k].next)[e]

FindNoFalse == found \/ Ahead => SomeHolds
FindNoMiss == found \/ Ahead \/ \E V \in SUBSET DOMAIN store : Swept(V)

FindInv ==
    (job.op = "find" /\ Here = RootId) =>
        /\ FindEntries /\ FindNoFalse /\ FindNoMiss
        /\ step = "find" => ListsTop /\ DOMAIN Top.entries = {}
        /\ step = "last" => walk = <<>>

-----------------------------------------------------------------------------
(* mv in the root: the source is deleted when its copy is there.             *)

RootNodes == store[RootId].nodes
IsFile(n, p) == n \in DOMAIN RootNodes /\ RootNodes[n] = FS!File(p)

MvLoad ==
    step = "load" =>
        /\ \A p \in Payload : IsFile(job.source, p) => filesize = 1
        /\ call.op = "read" => call.parent = RootId /\ call.name = job.source
        /\ call = FS!None /\ answer.code = 0 => IsFile(job.source, answer.data.file)

MvProbe ==
    step = "probe" /\ ok =>
        /\ IsFile(job.source, buf) /\ buf \in Payload /\ filesize = 1
        /\ call.op = "read" => call.parent = RootId /\ call.name = job.destination
        /\ call = FS!None /\ answer.code = 0 => job.destination \in DOMAIN RootNodes

MvSave ==
    step = "save" /\ ok =>
        /\ call.op = "write" \/ call = FS!None
        /\ \E p \in Payload :
              /\ IsFile(job.source, p)
              /\ call.op = "write" =>
                    /\ call.parent = RootId /\ call.name = job.destination
                    /\ job.destination \notin DOMAIN RootNodes => call.payload = p
              /\ call = FS!None /\ answer.code = 0 =>
                    IsFile(job.destination, p) /\ job.destination # job.source

MvDelete ==
    step = "last" /\ ok /\ call.op = "delete" /\ ~done =>
        /\ call.parent = RootId /\ call.name = job.source
        /\ job.destination # job.source
        /\ \E p \in Payload : IsFile(job.source, p) /\ IsFile(job.destination, p)

MvInv == (job.op = "mv" /\ Here = RootId) => MvLoad /\ MvProbe /\ MvSave /\ MvDelete

Inv == ShellInv /\ FindInv /\ MvInv

-----------------------------------------------------------------------------
(* Stores.                                                                   *)

\* Number induction, in the form of a least element.
LEMMA LeastNumber ==
    ASSUME NEW T \in SUBSET Nat, T # {}
    PROVE  \E x \in T : \A y \in T : x <= y
  <1> DEFINE R == OpToRel(<, Nat)
  <1>1. IsWellFoundedOn(R, Nat)
    BY NatLessThanWellFounded
  <1>2. ASSUME NEW x \in Nat, NEW y \in Nat, y < x
        PROVE  <<y, x>> \in R
    BY <1>2, Zenon DEF OpToRel
  <1> HIDE DEF R
  <1>3. PICK x \in T : \A y \in T : ~(<<y, x>> \in R)
    BY <1>1, WFMin
  <1>4. \A y \in T : ~(y < x)
    BY <1>2, <1>3
  <1> QED
    BY <1>4

\* An entry is a file with its contents or a directory with its number.
LEMMA NodeIs ==
    ASSUME NEW v \in Node
    PROVE  \/ v.kind = "file" /\ v.payload \in Payload /\ v = FS!File(v.payload)
           \/ v.kind = "dir" /\ v.id \in DirId /\ v = FS!Dir(v.id)
  BY DEF Node, FS!File, FS!Dir

LEMMA EntryTyped ==
    ASSUME NEW s, StoreType(s), NEW d \in DOMAIN s
    PROVE  /\ s[d].label \in Name \cup {RootLabel} /\ d \in DirId
           /\ s[d] \in Directory /\ DOMAIN s[d].nodes \subseteq Name
           /\ \A n \in DOMAIN s[d].nodes : s[d].nodes[n] \in Node
  <1>1. s[d] \in Directory /\ d \in DirId
    BY DEF StoreType
  <1>2. s[d].label \in Name \cup {RootLabel} /\ s[d].nodes \in NodeTable
    BY <1>1 DEF Directory
  <1>3. PICK N \in SUBSET Name : s[d].nodes \in [N -> Node]
    BY <1>2 DEF NodeTable
  <1> QED
    BY <1>1, <1>2, <1>3

\* A link is an entry of the directory kind.
LEMMA LinkIs ==
    ASSUME NEW s, StoreType(s), NEW d \in DOMAIN s, NEW n \in DOMAIN s[d].nodes
    PROVE  /\ s[d].nodes[n].kind = "dir" => Link(s, d, n, s[d].nodes[n].id)
           /\ \A x : Link(s, d, n, x) => /\ s[d].nodes[n].kind = "dir"
                                         /\ s[d].nodes[n].id = x
  <1>1. s[d].nodes[n] \in Node
    BY EntryTyped
  <1> QED
    BY <1>1, NodeIs DEF Link, FS!Dir

\* What is reached from the root is closed, and the least such set.
LEMMA ReachableIs ==
    ASSUME NEW s, StoreType(s),
           \A d, x \in DirId, n \in Name : Link(s, d, n, x) => x \in DOMAIN s
    PROVE  /\ FS!Reachable(s) \subseteq DOMAIN s
           /\ Closed(s, FS!Reachable(s))
           /\ \A S \in SUBSET DOMAIN s : Closed(s, S) => FS!Reachable(s) \subseteq S
  <1> DEFINE C(S) == /\ RootId \in S
                     /\ \A x \in S : \A n \in DOMAIN s[x].nodes :
                           s[x].nodes[n].kind = "dir" => s[x].nodes[n].id \in S
             R == {d \in DOMAIN s : \A S \in {S \in SUBSET DOMAIN s : C(S)} : d \in S}
  <1>1. FS!Reachable(s) = R
    BY Zenon DEF FS!Reachable
  <1>2. ASSUME NEW S \in SUBSET DOMAIN s
        PROVE  C(S) <=> Closed(s, S)
    <2>1. ASSUME C(S), NEW d \in S, NEW x \in DirId, NEW n \in Name, Link(s, d, n, x)
          PROVE  x \in S
      <3>1. n \in DOMAIN s[d].nodes /\ d \in DOMAIN s
        BY <2>1 DEF Link
      <3>2. s[d].nodes[n].kind = "dir" /\ s[d].nodes[n].id = x
        BY <2>1, <3>1, LinkIs
      <3> QED
        BY <2>1, <3>1, <3>2
    <2>2. ASSUME Closed(s, S), NEW d \in S, NEW n \in DOMAIN s[d].nodes,
                 s[d].nodes[n].kind = "dir"
          PROVE  s[d].nodes[n].id \in S
      <3>1. s[d].nodes[n] \in Node /\ n \in Name
        BY EntryTyped
      <3>2. s[d].nodes[n].id \in DirId
        BY <2>2, <3>1, NodeIs
      <3>3. Link(s, d, n, s[d].nodes[n].id)
        BY <2>2, LinkIs
      <3> QED
        BY <2>2, <3>1, <3>2, <3>3 DEF Closed
    <2> QED
      BY <2>1, <2>2 DEF Closed
  <1> HIDE DEF C
  <1>3. R \subseteq DOMAIN s /\ \A S \in SUBSET DOMAIN s : Closed(s, S) => R \subseteq S
    BY <1>2
  <1>4. Closed(s, R)
    <2>1. RootId \in R
      BY <1>2 DEF StoreType, Closed
    <2>2. ASSUME NEW d \in R, NEW x \in DirId, NEW n \in Name, Link(s, d, n, x)
          PROVE  x \in R
      <3>1. x \in DOMAIN s
        BY <2>2 DEF StoreType
      <3>2. ASSUME NEW S \in SUBSET DOMAIN s, C(S)
            PROVE  x \in S
        BY <1>2, <2>2, <3>2 DEF Closed
      <3> QED
        BY <3>1, <3>2
    <2> QED
      BY <2>1, <2>2 DEF Closed
  <1> QED
    BY <1>1, <1>3, <1>4

\* t is s with the entry n of directory d set to v, a new name there.
Puts(s, t, d, n, v) ==
    /\ \A e \in DOMAIN s : t[e].label = s[e].label
    /\ \A e \in DOMAIN s \ {d} : t[e] = s[e]
    /\ t[d].nodes = [m \in DOMAIN s[d].nodes \cup {n} |->
                        IF m = n THEN v ELSE s[d].nodes[m]]

LEMMA WithPuts ==
    ASSUME NEW s, StoreType(s), NEW d \in DOMAIN s, NEW n \in Name, NEW v \in Node
    PROVE  /\ Puts(s, FS!With(s, d, n, v), d, n, v)
           /\ DOMAIN FS!With(s, d, n, v) = DOMAIN s
           /\ FS!With(s, d, n, v) \in [DOMAIN s -> Directory]
  <1> DEFINE T == [m \in DOMAIN s[d].nodes \cup {n} |->
                      IF m = n THEN v ELSE s[d].nodes[m]]
             t == FS!With(s, d, n, v)
  <1>1. /\ s \in [DOMAIN s -> Directory] /\ s[d] \in Directory
        /\ s[d].label \in Name \cup {RootLabel} /\ DOMAIN s[d].nodes \subseteq Name
        /\ \A m \in DOMAIN s[d].nodes : s[d].nodes[m] \in Node
    BY EntryTyped DEF StoreType
  <1>2. T \in NodeTable
    <2>1. T \in [DOMAIN s[d].nodes \cup {n} -> Node]
      BY <1>1
    <2> QED
      BY <1>1, <2>1 DEF NodeTable
  <1>3. t = [s EXCEPT ![d] = [s[d] EXCEPT !.nodes = T]]
    BY DEF FS!With
  <1> HIDE DEF T
  <1>4. [s[d] EXCEPT !.nodes = T] \in Directory
    BY <1>1, <1>2 DEF Directory
  <1>5. /\ t[d] = [s[d] EXCEPT !.nodes = T] /\ DOMAIN t = DOMAIN s
        /\ \A e \in DOMAIN s \ {d} : t[e] = s[e]
    BY <1>1, <1>3
  <1>6. t[d].label = s[d].label /\ t[d].nodes = T
    BY <1>1, <1>5 DEF Directory
  <1>7. t \in [DOMAIN s -> Directory]
    BY <1>1, <1>3, <1>4
  <1> QED
    BY <1>5, <1>6, <1>7 DEF Puts, T

\* What putting an entry in changes of the links.
LEMMA PutsLinks ==
    ASSUME NEW s, StoreType(s), NEW t, NEW d \in DOMAIN s, NEW n \in Name \ DOMAIN s[d].nodes,
           NEW v \in Node, Puts(s, t, d, n, v), DOMAIN s \subseteq DOMAIN t
    PROVE  /\ \A e \in DOMAIN s, m \in Name, x \in DirId :
                 Link(t, e, m, x) <=> \/ Link(s, e, m, x)
                                      \/ e = d /\ m = n /\ v = FS!Dir(x)
           /\ DOMAIN t[d].nodes = DOMAIN s[d].nodes \cup {n} /\ t[d].nodes[n] = v
           /\ \A m \in DOMAIN s[d].nodes : t[d].nodes[m] = s[d].nodes[m]
  <1>1. /\ DOMAIN t[d].nodes = DOMAIN s[d].nodes \cup {n} /\ t[d].nodes[n] = v
        /\ \A m \in DOMAIN s[d].nodes : t[d].nodes[m] = s[d].nodes[m]
    BY DEF Puts
  <1>2. ASSUME NEW e \in DOMAIN s, NEW m \in Name, NEW x \in DirId
        PROVE  Link(t, e, m, x) <=> \/ Link(s, e, m, x)
                                    \/ e = d /\ m = n /\ v = FS!Dir(x)
    <2>1. CASE e = d
      BY <1>1, <2>1 DEF Link
    <2>2. CASE e # d
      BY <2>2 DEF Link, Puts
    <2> QED
      BY <2>1, <2>2
  <1> QED
    BY <1>1, <1>2

\* A file put under a new name leaves the directories what they are.
LEMMA FilePut ==
    ASSUME NEW s, Tree(s), NEW t, DOMAIN t = DOMAIN s, t \in [DOMAIN s -> Directory],
           NEW d \in DOMAIN s, NEW n \in Name \ DOMAIN s[d].nodes, n # s[d].label,
           NEW p \in Payload, Puts(s, t, d, n, FS!File(p))
    PROVE  Tree(t) /\ \A e, x \in DirId, m \in Name : Link(t, e, m, x) <=> Link(s, e, m, x)
  <1>0. FS!File(p) \in Node /\ \A x : FS!File(p) # FS!Dir(x)
    BY DEF Node, FS!File, FS!Dir
  <1>1. StoreType(s) /\ Linked(s) /\ Whole(s)
    BY DEF Tree
  <1>2. StoreType(t)
    BY <1>1 DEF StoreType
  <1>3. \A e, x \in DirId, m \in Name : Link(t, e, m, x) <=> Link(s, e, m, x)
    <2> SUFFICES ASSUME NEW e \in DirId, NEW x \in DirId, NEW m \in Name
                 PROVE  Link(t, e, m, x) <=> Link(s, e, m, x)
      OBVIOUS
    <2>1. CASE e \in DOMAIN s
      BY <1>0, <1>1, <2>1, PutsLinks
    <2>2. CASE e \notin DOMAIN s
      BY <2>2 DEF Link
    <2> QED
      BY <2>1, <2>2
  <1>4. DOMAIN t[d].nodes = DOMAIN s[d].nodes \cup {n}
    BY <1>0, <1>1, PutsLinks
  <1>5. \A e \in DOMAIN s : t[e].label = s[e].label /\ (e # d => t[e] = s[e])
    BY DEF Puts
  <1>6. Linked(t)
    <2>1. t[RootId].label = RootLabel
      BY <1>1, <1>5 DEF Linked, StoreType
    <2>2. \A e \in DOMAIN t : t[e].label \notin DOMAIN t[e].nodes
      BY <1>1, <1>4, <1>5 DEF Linked
    <2>3. \A e, x \in DirId, m \in Name : Link(t, e, m, x) =>
              x \in DOMAIN t /\ x # RootId /\ t[x].label = m
      BY <1>1, <1>3, <1>5 DEF Linked
    <2>4. \A e, f, x \in DirId, m, k \in Name :
              Link(t, e, m, x) /\ Link(t, f, k, x) => e = f
      BY <1>1, <1>3 DEF Linked
    <2> QED
      BY <2>1, <2>2, <2>3, <2>4 DEF Linked
  <1>7. Whole(t)
    <2> SUFFICES ASSUME NEW S \in SUBSET DOMAIN t, Closed(t, S)
                 PROVE  S = DOMAIN t
      BY DEF Whole
    <2>1. Closed(s, S)
      BY <1>1, <1>3 DEF Closed, StoreType
    <2> QED
      BY <1>1, <2>1 DEF Whole
  <1> QED
    BY <1>2, <1>3, <1>6, <1>7 DEF Tree

\* A new directory under a new name is the tree's new leaf.
LEMMA DirPut ==
    ASSUME NEW s, Tree(s), NEW t, NEW c \in DirId \ DOMAIN s,
           DOMAIN t = DOMAIN s \cup {c}, t \in [DOMAIN t -> Directory],
           NEW d \in DOMAIN s, NEW n \in Name \ DOMAIN s[d].nodes, n # s[d].label,
           Puts(s, t, d, n, FS!Dir(c)), t[c] = FS!EmptyDir(n)
    PROVE  Tree(t) /\ \A e \in DOMAIN s, m \in Name, x \in DirId :
                         Link(s, e, m, x) => Link(t, e, m, x)
  <1>0. FS!Dir(c) \in Node /\ \A x : FS!Dir(c) = FS!Dir(x) => x = c
    BY DEF Node, FS!Dir
  <1>1. StoreType(s) /\ Linked(s) /\ Whole(s)
    BY DEF Tree
  <1>2. StoreType(t)
    BY <1>1 DEF StoreType
  <1>3. \A e \in DOMAIN s, x \in DirId, m \in Name :
            Link(t, e, m, x) <=> Link(s, e, m, x) \/ (e = d /\ m = n /\ x = c)
    BY <1>0, <1>1, PutsLinks
  <1>4. t[c].label = n /\ DOMAIN t[c].nodes = {}
    BY DEF FS!EmptyDir
  <1>5. \A x, m : ~Link(t, c, m, x)
    BY <1>4 DEF Link
  <1>6. \A e, x \in DirId, m \in Name :
            Link(t, e, m, x) <=> Link(s, e, m, x) \/ (e = d /\ m = n /\ x = c)
    <2> SUFFICES ASSUME NEW e \in DirId, NEW x \in DirId, NEW m \in Name
                 PROVE  Link(t, e, m, x) <=> Link(s, e, m, x) \/ (e = d /\ m = n /\ x = c)
      OBVIOUS
    <2>1. CASE e \in DOMAIN s
      BY <1>3, <2>1
    <2>2. CASE e \notin DOMAIN s
      BY <1>5, <2>2 DEF Link
    <2> QED
      BY <2>1, <2>2
  <1>7. DOMAIN t[d].nodes = DOMAIN s[d].nodes \cup {n}
    BY <1>0, <1>1, PutsLinks
  <1>8. \A e \in DOMAIN s : t[e].label = s[e].label /\ (e # d => t[e] = s[e])
    BY DEF Puts
  <1>9. \A e, m : ~Link(s, e, m, c) \/ e \notin DirId \/ m \notin Name
    BY <1>1 DEF Linked
  <1>10. Linked(t)
    <2>1. t[RootId].label = RootLabel
      BY <1>1, <1>8 DEF Linked, StoreType
    <2>2. \A e \in DOMAIN t : t[e].label \notin DOMAIN t[e].nodes
      BY <1>1, <1>4, <1>7, <1>8 DEF Linked
    <2>3. ASSUME NEW e \in DirId, NEW x \in DirId, NEW m \in Name, Link(t, e, m, x)
          PROVE  x \in DOMAIN t /\ x # RootId /\ t[x].label = m
      <3>1. CASE Link(s, e, m, x)
        BY <1>1, <1>8, <3>1 DEF Linked
      <3>2. CASE m = n /\ x = c
        BY <1>1, <1>4, <3>2 DEF StoreType
      <3> QED
        BY <1>6, <2>3, <3>1, <3>2
    <2>4. \A e, f, x \in DirId, m, k \in Name :
              Link(t, e, m, x) /\ Link(t, f, k, x) => e = f
      BY <1>1, <1>6, <1>9 DEF Linked
    <2> QED
      BY <2>1, <2>2, <2>3, <2>4 DEF Linked
  <1>11. Whole(t)
    <2> SUFFICES ASSUME NEW S \in SUBSET DOMAIN t, Closed(t, S)
                 PROVE  S = DOMAIN t
      BY DEF Whole
    <2> DEFINE R == S \cap DOMAIN s
    <2>1. Closed(s, R)
      <3>1. RootId \in R
        BY <1>1 DEF StoreType, Closed
      <3>2. ASSUME NEW e \in R, NEW x \in DirId, NEW m \in Name, Link(s, e, m, x)
            PROVE  x \in R
        <4>1. x \in DOMAIN s /\ e \in DirId
          BY <1>1, <3>2 DEF Linked, StoreType
        <4> QED
          BY <1>6, <3>2, <4>1 DEF Closed
      <3> QED
        BY <3>1, <3>2 DEF Closed
    <2>2. DOMAIN s \subseteq S
      <3>1. R = DOMAIN s
        BY <1>1, <2>1 DEF Whole
      <3> QED
        BY <3>1
    <2>3. c \in S
      <3>1. Link(t, d, n, c) /\ d \in S
        BY <1>1, <1>6, <2>2 DEF StoreType
      <3> QED
        BY <3>1 DEF Closed
    <2> QED
      BY <2>2, <2>3
  <1> QED
    BY <1>2, <1>6, <1>10, <1>11, <1>1 DEF Tree, StoreType

\* t is s without the entry n of directory d and without what only it led to.
Cuts(s, t, d, n) ==
    LET gone == [s EXCEPT ![d].nodes =
                    [m \in DOMAIN s[d].nodes \ {n} |-> s[d].nodes[m]]]
    IN  t = [e \in FS!Reachable(gone) |-> gone[e]]

LEMMA CutIs ==
    ASSUME NEW s, Tree(s), NEW t, NEW d \in DOMAIN s, NEW n \in DOMAIN s[d].nodes,
           Cuts(s, t, d, n)
    PROVE  /\ Tree(t) /\ DOMAIN t \subseteq DOMAIN s
           /\ \A e \in DOMAIN t :
                 /\ t[e].label = s[e].label
                 /\ DOMAIN t[e].nodes = DOMAIN s[e].nodes \ (IF e = d THEN {n} ELSE {})
                 /\ \A m \in DOMAIN t[e].nodes : t[e].nodes[m] = s[e].nodes[m]
           /\ \A e, x \in DirId, m \in Name :
                 Link(t, e, m, x) <=>
                    e \in DOMAIN t /\ Link(s, e, m, x) /\ ~(e = d /\ m = n)
  <1> DEFINE T == [m \in DOMAIN s[d].nodes \ {n} |-> s[d].nodes[m]]
             g == [s EXCEPT ![d].nodes = T]
             R == FS!Reachable(g)
  <1>0. StoreType(s) /\ Linked(s) /\ Whole(s)
    BY DEF Tree
  <1>1. /\ s \in [DOMAIN s -> Directory] /\ s[d] \in Directory
        /\ s[d].label \in Name \cup {RootLabel} /\ DOMAIN s[d].nodes \subseteq Name
        /\ \A m \in DOMAIN s[d].nodes : s[d].nodes[m] \in Node
    BY <1>0, EntryTyped DEF StoreType
  <1>2. T \in NodeTable
    <2>1. T \in [DOMAIN s[d].nodes \ {n} -> Node]
      BY <1>1
    <2> QED
      BY <1>1, <2>1 DEF NodeTable
  <1>3. /\ DOMAIN T = DOMAIN s[d].nodes \ {n}
        /\ \A m \in DOMAIN T : T[m] = s[d].nodes[m]
    OBVIOUS
  <1>4. t = [e \in R |-> g[e]]
    BY DEF Cuts
  <1> HIDE DEF T
  <1>5. /\ g \in [DOMAIN s -> Directory] /\ DOMAIN g = DOMAIN s
        /\ g[d] = [s[d] EXCEPT !.nodes = T]
        /\ \A e \in DOMAIN s \ {d} : g[e] = s[e]
    <2>1. [s[d] EXCEPT !.nodes = T] \in Directory
      BY <1>1, <1>2 DEF Directory
    <2> QED
      BY <1>1, <2>1
  <1>6. g[d].label = s[d].label /\ g[d].nodes = T
    BY <1>1, <1>5 DEF Directory
  <1> HIDE DEF g
  <1>7. StoreType(g)
    BY <1>0, <1>5 DEF StoreType
  <1>8. \A e, x \in DirId, m \in Name :
            Link(g, e, m, x) <=> Link(s, e, m, x) /\ ~(e = d /\ m = n)
    <2> SUFFICES ASSUME NEW e \in DirId, NEW x \in DirId, NEW m \in Name
                 PROVE  Link(g, e, m, x) <=> Link(s, e, m, x) /\ ~(e = d /\ m = n)
      OBVIOUS
    <2>1. CASE e = d
      BY <1>3, <1>5, <1>6, <2>1 DEF Link
    <2>2. CASE e # d
      BY <1>5, <2>2 DEF Link
    <2> QED
      BY <2>1, <2>2
  <1>9. /\ R \subseteq DOMAIN s /\ Closed(g, R)
        /\ \A S \in SUBSET DOMAIN s : Closed(g, S) => R \subseteq S
    <2>1. \A e, x \in DirId, m \in Name : Link(g, e, m, x) => x \in DOMAIN g
      BY <1>0, <1>5, <1>8 DEF Linked
    <2> QED
      BY <1>5, <1>7, <2>1, ReachableIs
  <1> HIDE DEF R
  <1>10. DOMAIN t = R /\ \A e \in R : t[e] = g[e]
    BY <1>4
  <1>11. \A e \in DOMAIN t :
             /\ t[e].label = s[e].label
             /\ DOMAIN t[e].nodes = DOMAIN s[e].nodes \ (IF e = d THEN {n} ELSE {})
             /\ \A m \in DOMAIN t[e].nodes : t[e].nodes[m] = s[e].nodes[m]
    <2> SUFFICES ASSUME NEW e \in DOMAIN t
                 PROVE  /\ t[e].label = s[e].label
                        /\ DOMAIN t[e].nodes = DOMAIN s[e].nodes \ (IF e = d THEN {n} ELSE {})
                        /\ \A m \in DOMAIN t[e].nodes : t[e].nodes[m] = s[e].nodes[m]
      OBVIOUS
    <2>1. CASE e = d
      BY <1>3, <1>6, <1>10, <2>1
    <2>2. CASE e # d
      BY <1>5, <1>9, <1>10, <2>2
    <2> QED
      BY <2>1, <2>2
  <1>12. \A e, x \in DirId, m \in Name :
             Link(t, e, m, x) <=> e \in R /\ Link(g, e, m, x)
    BY <1>5, <1>9, <1>10 DEF Link
  <1>13. RootId \in R
    BY <1>9 DEF Closed
  <1>14. StoreType(t)
    <2>1. t \in [R -> Directory]
      BY <1>4, <1>5, <1>9
    <2> QED
      BY <1>0, <1>9, <1>10, <1>13, <2>1 DEF StoreType
  <1>15. Linked(t)
    <2>1. t[RootId].label = RootLabel
      BY <1>0, <1>10, <1>11, <1>13 DEF Linked
    <2>2. \A e \in DOMAIN t : t[e].label \notin DOMAIN t[e].nodes
      BY <1>0, <1>9, <1>10, <1>11 DEF Linked
    <2>3. ASSUME NEW e \in DirId, NEW x \in DirId, NEW m \in Name, Link(t, e, m, x)
          PROVE  x \in DOMAIN t /\ x # RootId /\ t[x].label = m
      <3>1. e \in R /\ Link(g, e, m, x) /\ Link(s, e, m, x)
        BY <1>8, <1>12, <2>3
      <3>2. x \in R
        BY <1>9, <3>1 DEF Closed
      <3> QED
        BY <1>0, <1>10, <1>11, <3>1, <3>2 DEF Linked
    <2>4. \A e, f, x \in DirId, m, k \in Name :
              Link(t, e, m, x) /\ Link(t, f, k, x) => e = f
      BY <1>0, <1>8, <1>12 DEF Linked
    <2> QED
      BY <2>1, <2>2, <2>3, <2>4 DEF Linked
  <1>16. Whole(t)
    <2> SUFFICES ASSUME NEW S \in SUBSET R, Closed(t, S)
                 PROVE  S = R
      BY <1>10 DEF Whole
    <2>1. Closed(g, S)
      <3>1. ASSUME NEW e \in S, NEW x \in DirId, NEW m \in Name, Link(g, e, m, x)
            PROVE  x \in S
        BY <1>0, <1>9, <1>12, <3>1 DEF Closed, StoreType
      <3> QED
        BY <3>1 DEF Closed
    <2> QED
      BY <1>9, <2>1
  <1>17. \A e, x \in DirId, m \in Name :
             Link(t, e, m, x) <=>
                e \in DOMAIN t /\ Link(s, e, m, x) /\ ~(e = d /\ m = n)
    BY <1>8, <1>10, <1>12
  <1> QED
    BY <1>9, <1>10, <1>11, <1>14, <1>15, <1>16, <1>17 DEF Tree

-----------------------------------------------------------------------------
(* The steps that change the store.                                          *)

\* t holds every directory of s, with every entry of s in it.
Grows(s, t) ==
    /\ DOMAIN s \subseteq DOMAIN t
    /\ \A e \in DOMAIN s : t[e].label = s[e].label
    /\ \A e \in DOMAIN s : \A m \in DOMAIN s[e].nodes :
          m \in DOMAIN t[e].nodes /\ t[e].nodes[m] = s[e].nodes[m]
    /\ \A e \in DOMAIN s, x \in DirId, m \in Name : Link(s, e, m, x) => Link(t, e, m, x)

\* An entry put under a new name leaves the others as they are.
LEMMA PutsKeeps ==
    ASSUME NEW s, NEW t, NEW d, NEW n, NEW v, Puts(s, t, d, n, v),
           d \in DOMAIN s, n \notin DOMAIN s[d].nodes
    PROVE  \A e \in DOMAIN s : \A m \in DOMAIN s[e].nodes :
              m \in DOMAIN t[e].nodes /\ t[e].nodes[m] = s[e].nodes[m]
  <1> SUFFICES ASSUME NEW e \in DOMAIN s, NEW m \in DOMAIN s[e].nodes
               PROVE  m \in DOMAIN t[e].nodes /\ t[e].nodes[m] = s[e].nodes[m]
    OBVIOUS
  <1>1. CASE e = d
    BY <1>1 DEF Puts
  <1>2. CASE e # d
    BY <1>2 DEF Puts
  <1> QED
    BY <1>1, <1>2

LEMMA CallFields ==
    ASSUME CallTyped
    PROVE  /\ call.op \in {"none", "off", "read", "read_directory", "write", "delete"}
           /\ call.op = "none" <=> call = FS!None
           /\ call.op = "off" <=> call = FS!Off
           /\ Busy <=> call \in FS!Call
           /\ Busy => call.parent \in DirId /\ call.parent \in DOMAIN store
           /\ call.op \in {"read", "write", "delete"} => call.name \in Name
           /\ call.op = "read_directory" => call.name \in Name \cup {RootLabel}
           /\ call.op = "write" => call.payload \in Payload \cup {FOLDER}
  BY DEF CallTyped, Busy, FS!Call, FS!None, FS!Off

\* A new file or a new directory only adds to the tree.
LEMMA FileGrows ==
    ASSUME NEW s, Tree(s), NEW d \in DOMAIN s, NEW n \in Name \ DOMAIN s[d].nodes,
           n # s[d].label, NEW p \in Payload
    PROVE  Tree(FS!With(s, d, n, FS!File(p))) /\ Grows(s, FS!With(s, d, n, FS!File(p)))
  <1> DEFINE t == FS!With(s, d, n, FS!File(p))
  <1>1. StoreType(s) /\ FS!File(p) \in Node
    BY DEF Tree, Node
  <1>2. Puts(s, t, d, n, FS!File(p)) /\ DOMAIN t = DOMAIN s /\ t \in [DOMAIN s -> Directory]
    BY <1>1, WithPuts
  <1> HIDE DEF t
  <1>3. Tree(t) /\ \A e, x \in DirId, m \in Name : Link(t, e, m, x) <=> Link(s, e, m, x)
    BY <1>2, FilePut
  <1>4. \A e \in DOMAIN s : e \in DirId /\ t[e].label = s[e].label
    BY <1>1, <1>2 DEF StoreType, Puts
  <1>5. \A e \in DOMAIN s : \A m \in DOMAIN s[e].nodes :
            m \in DOMAIN t[e].nodes /\ t[e].nodes[m] = s[e].nodes[m]
    BY <1>2, PutsKeeps
  <1>6. Tree(t) /\ Grows(s, t)
    BY <1>2, <1>3, <1>4, <1>5 DEF Grows
  <1> QED
    BY <1>6 DEF t

LEMMA DirGrows ==
    ASSUME NEW s, Tree(s), NEW d \in DOMAIN s, NEW n \in Name \ DOMAIN s[d].nodes,
           n # s[d].label, NEW c \in DirId \ DOMAIN s
    PROVE  Tree(WithDir(s, d, n, c)) /\ Grows(s, WithDir(s, d, n, c))
  <1> DEFINE w == FS!With(s, d, n, FS!Dir(c))
             t == WithDir(s, d, n, c)
  <1>1. StoreType(s) /\ FS!Dir(c) \in Node
    BY DEF Tree, Node
  <1>2. Puts(s, w, d, n, FS!Dir(c)) /\ DOMAIN w = DOMAIN s /\ w \in [DOMAIN s -> Directory]
    BY <1>1, WithPuts
  <1> HIDE DEF w
  <1>3. t = [x \in DOMAIN s \cup {c} |-> IF x = c THEN FS!EmptyDir(n) ELSE w[x]]
    BY <1>2 DEF w, WithDir
  <1> HIDE DEF t
  <1>4. /\ DOMAIN t = DOMAIN s \cup {c} /\ t[c] = FS!EmptyDir(n)
        /\ \A x \in DOMAIN s : t[x] = w[x]
    BY <1>3
  <1>5. FS!EmptyDir(n) \in Directory
    <2>1. [x \in {} |-> FS!None] \in [{} -> Node]
      OBVIOUS
    <2>2. [x \in {} |-> FS!None] \in NodeTable
      BY <2>1 DEF NodeTable
    <2> QED
      BY <2>2 DEF FS!EmptyDir, Directory
  <1>6. t \in [DOMAIN t -> Directory]
    BY <1>2, <1>3, <1>5
  <1>7. Puts(s, t, d, n, FS!Dir(c))
    BY <1>2, <1>4 DEF Puts
  <1>8. Tree(t) /\ \A e \in DOMAIN s, m \in Name, x \in DirId : Link(s, e, m, x) => Link(t, e, m, x)
    BY <1>4, <1>6, <1>7, DirPut
  <1>9. \A e \in DOMAIN s : t[e].label = s[e].label
    BY <1>7 DEF Puts
  <1>10. \A e \in DOMAIN s : \A m \in DOMAIN s[e].nodes :
             m \in DOMAIN t[e].nodes /\ t[e].nodes[m] = s[e].nodes[m]
    BY <1>7, PutsKeeps
  <1>11. Tree(t) /\ Grows(s, t)
    BY <1>4, <1>8, <1>9, <1>10 DEF Grows
  <1> QED
    BY <1>11 DEF t

\* What the inserter makes of a tree: without its shell, and perhaps with more.
LEMMA InsertTree ==
    ASSUME Tree(store), Insert
    PROVE  LET s == Without(store, RootId, SHELL)
           IN  /\ Tree(s) /\ Tree(store') /\ (store' = s \/ Grows(s, store'))
               /\ \/ SHELL \notin DOMAIN store[RootId].nodes /\ s = store
                  \/ /\ SHELL \in DOMAIN store[RootId].nodes
                     /\ Cuts(store, s, RootId, SHELL)
  <1> DEFINE s == Without(store, RootId, SHELL)
  <1>1. RootId \in DOMAIN store
    BY DEF Tree, StoreType
  <1>2. \/ SHELL \notin DOMAIN store[RootId].nodes /\ s = store
        \/ SHELL \in DOMAIN store[RootId].nodes /\ Cuts(store, s, RootId, SHELL)
    BY DEF Without, Cuts
  <1>3. \/ store' = s
        \/ \E d \in DOMAIN s : \E n \in Name \ (DOMAIN s[d].nodes \cup {s[d].label}) :
              \/ \E p \in Payload : store' = FS!With(s, d, n, FS!File(p))
              \/ \E c \in DirId \ DOMAIN s : store' = WithDir(s, d, n, c)
    BY DEF Insert
  <1> HIDE DEF s
  <1>4. Tree(s)
    BY <1>1, <1>2, CutIs
  <1>5. Tree(store') /\ (store' = s \/ Grows(s, store'))
    BY <1>3, <1>4, FileGrows, DirGrows
  <1> QED
    BY <1>2, <1>4, <1>5 DEF s

LEMMA CreateGrows ==
    ASSUME Tree(store), CallTyped, ChangeInv, FS!Create
    PROVE  Tree(store') /\ Grows(store, store')
  <1>1. PICK d, n, y : d = call.parent /\ n = call.name /\ y = call.payload
    OBVIOUS
  <1>2. /\ d \in DOMAIN store /\ n \in Name \ DOMAIN store[d].nodes
        /\ y \in Payload \cup {FOLDER} /\ n # store[d].label
    BY <1>1, CallFields DEF FS!Create, FS!Known, FS!Nodes, ChangeInv, Busy
  <1>3. CASE y # FOLDER
    BY <1>1, <1>2, <1>3, FileGrows DEF FS!Create
  <1>4. CASE y = FOLDER
    <2>1. PICK c \in DirId \ DOMAIN store : store' = WithDir(store, d, n, c)
      BY <1>1, <1>4 DEF FS!Create, WithDir
    <2> QED
      BY <1>2, <2>1, DirGrows
  <1> QED
    BY <1>3, <1>4

LEMMA RemoveCuts ==
    ASSUME Tree(store), CallTyped, FS!Remove
    PROVE  /\ call.op = "delete" /\ call' = call /\ answer' = answer /\ ~done /\ done'
           /\ call.parent \in DOMAIN store
           /\ call.name \in DOMAIN store[call.parent].nodes
           /\ Cuts(store, store', call.parent, call.name)
  <1>1. call.op = "delete" /\ call.parent \in DOMAIN store
    BY CallFields DEF FS!Remove, Busy
  <1>2. Cuts(store, store', call.parent, call.name)
    BY DEF FS!Remove, FS!Nodes, Cuts
  <1> QED
    BY <1>1, <1>2 DEF FS!Remove, FS!Known, FS!Nodes

-----------------------------------------------------------------------------
(* The path.                                                                 *)

\* What the path says of the current directory and of the one above it.
LEMMA WhereItIs ==
    ASSUME Tree(store), PathInv
    PROVE  /\ PathLen \in Nat /\ PathLen >= 1
           /\ PathId(PathLen) = Here /\ Here \in DOMAIN store /\ Above \in DOMAIN store
           /\ Here \in DirId /\ Above \in DirId
           /\ current_directory.name \in Name \cup {RootLabel}
           /\ PathLen = 1 => current_directory = RootDirectory
           /\ PathLen > 1 => /\ Above = PathId(PathLen - 1) /\ Here # RootId
                             /\ current_directory.name \in Name
                             /\ Link(store, Above, current_directory.name, Here)
           /\ store[Here].label = current_directory.name
           /\ Here = RootId => PathLen = 1
  <1>1. /\ directory_stack \in Seq(DirectoryState) /\ current_directory \in DirectoryState
        /\ PathLen \in Nat /\ PathLen >= 1 /\ Path[PathLen] = current_directory
    BY DEF PathInv, Path, PathLen
  <1>2. PathId(PathLen) = Here /\ Here \in DOMAIN store
    BY <1>1 DEF PathInv, PathId, Here
  <1>3. /\ Here \in DirId /\ Above \in DirId
        /\ current_directory.name \in Name \cup {RootLabel}
    BY <1>1 DEF DirectoryState, Here, Above
  <1>4. StoreType(store) /\ Linked(store)
    BY DEF Tree
  <1>5. CASE PathLen = 1
    <2>1. current_directory = RootDirectory
      BY <1>1, <1>5 DEF PathInv
    <2>2. Here = RootId /\ Above = RootId /\ current_directory.name = RootLabel
      BY <2>1 DEF RootDirectory, Here, Above
    <2> QED
      BY <1>1, <1>2, <1>3, <1>4, <1>5, <2>1, <2>2 DEF Linked
  <1>6. CASE PathLen > 1
    <2>1. PathLen - 1 \in 1 .. PathLen - 1 /\ (PathLen - 1) + 1 = PathLen
      BY <1>1, <1>6
    <2>2. /\ current_directory.parent_cluster_number = PathId(PathLen - 1)
          /\ Link(store, PathId(PathLen - 1), current_directory.name, Here)
      BY <1>1, <1>2, <2>1 DEF PathInv
    <2>3. PathId(PathLen - 1) \in DOMAIN store /\ Above = PathId(PathLen - 1)
      BY <1>1, <2>1, <2>2 DEF PathInv, Above
    <2>4. Above \in DirId /\ current_directory.name \in Name
      BY <1>4, <2>2, <2>3, EntryTyped DEF Link
    <2>5. Here # RootId /\ store[Here].label = current_directory.name
      BY <1>3, <1>4, <2>2, <2>3, <2>4 DEF Linked
    <2> QED
      BY <1>1, <1>2, <1>3, <1>6, <2>2, <2>3, <2>4, <2>5
  <1> QED
    BY <1>1, <1>5, <1>6

LEMMA PathTyped ==
    ASSUME PathInv, NEW k \in 1 .. PathLen
    PROVE  /\ Path[k] \in DirectoryState /\ PathId(k) \in DirId
           /\ PathLen \in Nat /\ k \in Nat
           /\ k <= Len(directory_stack) => Path[k] = directory_stack[k]
           /\ k = PathLen => Path[k] = current_directory
  <1>1. /\ directory_stack \in Seq(DirectoryState) /\ current_directory \in DirectoryState
        /\ Len(directory_stack) \in Nat
    BY DEF PathInv
  <1>2. /\ PathLen \in Nat /\ k \in Nat /\ Path[k] \in DirectoryState
        /\ k <= Len(directory_stack) => Path[k] = directory_stack[k]
        /\ k = PathLen => Path[k] = current_directory
    BY <1>1 DEF Path, PathLen
  <1> QED
    BY <1>2 DEF PathId, DirectoryState

\* A store that still has the directories of the path, linked, keeps the path.
LEMMA PathStays ==
    ASSUME PathInv, UNCHANGED place,
           \A k \in 1 .. PathLen : PathId(k) \in DOMAIN store',
           \A k \in 1 .. PathLen - 1 :
               Link(store', PathId(k), Path[k + 1].name, PathId(k + 1))
    PROVE  PathInv'
  <1>1. current_directory' = current_directory /\ directory_stack' = directory_stack
    BY DEF place
  <1>2. Path' = Path /\ PathLen' = PathLen
    BY <1>1 DEF Path, PathLen
  <1>3. \A k : PathId(k)' = PathId(k)
    BY <1>2 DEF PathId
  <1> QED
    BY <1>1, <1>2, <1>3 DEF PathInv

LEMMA GrowsKeepsPath ==
    ASSUME Tree(store), PathInv, Grows(store, store'), UNCHANGED place
    PROVE  PathInv'
  <1>1. ASSUME NEW k \in 1 .. PathLen - 1
        PROVE  Link(store', PathId(k), Path[k + 1].name, PathId(k + 1))
    <2>1. k \in 1 .. PathLen /\ k + 1 \in 1 .. PathLen
      BY DEF PathInv, PathLen
    <2>2. /\ Link(store, PathId(k), Path[k + 1].name, PathId(k + 1))
          /\ PathId(k) \in DOMAIN store /\ PathId(k + 1) \in DirId
      BY <2>1, PathTyped DEF PathInv
    <2>3. Path[k + 1].name \in Name
      BY <2>2, EntryTyped DEF Tree, Link
    <2> QED
      BY <2>2, <2>3 DEF Grows
  <1>2. \A k \in 1 .. PathLen : PathId(k) \in DOMAIN store'
    BY DEF PathInv, Grows
  <1> QED
    BY <1>1, <1>2, PathStays

\* While the machine is off the path is the root alone.
LEMMA RootKeepsPath ==
    ASSUME PathInv, directory_stack = <<>>, Tree(store'), UNCHANGED place
    PROVE  PathInv'
  <1>1. PathLen = 1 /\ 1 \in 1 .. PathLen
    BY DEF PathLen
  <1>2. PathId(1) = RootId
    BY DEF PathInv, PathId, RootDirectory
  <1>3. \A k \in 1 .. PathLen : PathId(k) \in DOMAIN store'
    BY <1>1, <1>2 DEF Tree, StoreType
  <1>4. 1 .. PathLen - 1 = {}
    BY <1>1
  <1> QED
    BY <1>3, <1>4, PathStays

\* rm and mv name an entry of the current directory or of the one above, and never
\* the one the path goes through.
LEMMA RemoveKeepsPath ==
    ASSUME Tree(store), PathInv, CallTyped, ChangeInv, FS!Remove, UNCHANGED place
    PROVE  PathInv' /\ Tree(store') /\ Here \in DOMAIN store' /\ Above \in DOMAIN store'
           /\ store'[Above].label = store[Above].label
  <1>1. PICK d, n : d = call.parent /\ n = call.name
    OBVIOUS
  <1>2. /\ call.op = "delete" /\ d \in DOMAIN store /\ n \in DOMAIN store[d].nodes
        /\ Cuts(store, store', d, n)
    BY <1>1, RemoveCuts
  <1>3. d \in {Here, Above} /\ n # current_directory.name
    BY <1>1, <1>2 DEF ChangeInv
  <1>4. /\ Tree(store') /\ DOMAIN store' \subseteq DOMAIN store
        /\ \A e, x \in DirId, m \in Name :
              Link(store', e, m, x) <=>
                 e \in DOMAIN store' /\ Link(store, e, m, x) /\ ~(e = d /\ m = n)
    BY <1>2, CutIs
  <1>5. ASSUME NEW k \in 1 .. PathLen - 1
        PROVE  /\ Link(store, PathId(k), Path[k + 1].name, PathId(k + 1))
               /\ ~(PathId(k) = d /\ Path[k + 1].name = n)
               /\ PathId(k) \in DirId /\ PathId(k + 1) \in DirId
               /\ Path[k + 1].name \in Name
    <2>1. k \in 1 .. PathLen /\ k + 1 \in 1 .. PathLen /\ PathLen \in 1 .. PathLen
      BY DEF PathInv, PathLen
    <2>2. /\ Link(store, PathId(k), Path[k + 1].name, PathId(k + 1))
          /\ PathId(k) \in DOMAIN store /\ PathId(k) \in DirId /\ PathId(k + 1) \in DirId
      BY <2>1, PathTyped DEF PathInv
    <2>3. Path[k + 1].name \in Name
      BY <2>2, EntryTyped DEF Tree, Link
    <2>4. PathId(k) # Here
      BY <2>1, WhereItIs DEF PathInv
    <2>5. ASSUME PathId(k) = Above
          PROVE  Path[k + 1].name = current_directory.name
      <3>1. PathLen > 1 /\ PathLen \in Nat
        BY <2>1, PathTyped
      <3>2. PathId(PathLen - 1) = PathId(k) /\ PathLen - 1 \in 1 .. PathLen
        BY <2>5, <3>1, WhereItIs
      <3>3. k = PathLen - 1
        BY <2>1, <3>2 DEF PathInv
      <3> QED
        BY <2>1, <3>1, <3>3, PathTyped
    <2> QED
      BY <1>3, <2>2, <2>3, <2>4, <2>5
  <1>6. PathId(1) = RootId /\ RootId \in DOMAIN store'
    BY <1>4 DEF PathInv, PathId, RootDirectory, Tree, StoreType
  <1>7. \A k \in 1 .. PathLen : PathId(k) \in DOMAIN store'
    <2> DEFINE T == {k \in 1 .. PathLen : PathId(k) \notin DOMAIN store'}
    <2> SUFFICES ASSUME T # {}
                 PROVE  FALSE
      OBVIOUS
    <2>1. T \in SUBSET Nat
      BY WhereItIs
    <2>2. PICK k \in T : \A j \in T : k <= j
      BY <2>1, LeastNumber
    <2>3. k # 1 /\ k \in 1 .. PathLen /\ PathLen \in Nat
      BY <1>6, WhereItIs
    <2>4. k - 1 \in 1 .. PathLen - 1 /\ k - 1 \in 1 .. PathLen /\ (k - 1) + 1 = k
      BY <2>3
    <2>5. k - 1 \notin T
      BY <2>2, <2>3
    <2>6. PathId(k - 1) \in DOMAIN store'
      BY <2>4, <2>5
    <2>7. Link(store', PathId(k - 1), Path[k].name, PathId(k)) /\ Path[k].name \in Name
          /\ PathId(k - 1) \in DirId /\ PathId(k) \in DirId
      BY <1>4, <1>5, <2>4, <2>6
    <2>8. PathId(k) \in DOMAIN store'
      BY <1>4, <2>7 DEF Tree, Linked
    <2> QED
      BY <2>2, <2>8
  <1>8. \A k \in 1 .. PathLen - 1 :
            Link(store', PathId(k), Path[k + 1].name, PathId(k + 1))
    <2>1. \A k \in 1 .. PathLen - 1 : PathId(k) \in DOMAIN store'
      BY <1>7, WhereItIs
    <2> QED
      BY <1>4, <1>5, <2>1
  <1>9. Here \in DOMAIN store' /\ Above \in DOMAIN store'
    <2>1. PathLen \in 1 .. PathLen /\ (PathLen > 1 => PathLen - 1 \in 1 .. PathLen)
      BY WhereItIs
    <2>2. PathLen = 1 => Above = RootId
      BY WhereItIs DEF RootDirectory, Above
    <2> QED
      BY <1>6, <1>7, <2>1, <2>2, WhereItIs
  <1>10. store'[Above].label = store[Above].label
    BY <1>2, <1>9, CutIs
  <1> QED
    BY <1>4, <1>7, <1>8, <1>9, <1>10, PathStays

\* A listing shows a directory's links as they are.
LEMMA ListingIs ==
    ASSUME Tree(store), NEW d \in DOMAIN store
    PROVE  /\ FS!Listing(d) \in Listings
           /\ DOMAIN FS!Listing(d) = DOMAIN store[d].nodes
           /\ \A n \in DOMAIN store[d].nodes :
                 \/ /\ store[d].nodes[n].kind = "dir" /\ FS!Listing(d)[n] = store[d].nodes[n]
                    /\ FS!Listing(d)[n].kind = "dir" /\ FS!Listing(d)[n].id \in DirId
                    /\ FS!Listing(d)[n] = FS!Dir(FS!Listing(d)[n].id)
                    /\ Link(store, d, n, FS!Listing(d)[n].id)
                 \/ /\ store[d].nodes[n].kind = "file"
                    /\ FS!Listing(d)[n] = [kind |-> "file", size |-> 1]
  <1>1. /\ DOMAIN store[d].nodes \subseteq Name
        /\ \A n \in DOMAIN store[d].nodes : store[d].nodes[n] \in Node
    BY EntryTyped DEF Tree
  <1>2. /\ DOMAIN FS!Listing(d) = DOMAIN store[d].nodes
        /\ FS!Listing(d) = [n \in DOMAIN store[d].nodes |-> FS!Listing(d)[n]]
        /\ \A n \in DOMAIN store[d].nodes :
              FS!Listing(d)[n] = IF store[d].nodes[n].kind = "dir" THEN store[d].nodes[n]
                    ELSE [kind |-> "file", size |-> SizeOf[store[d].nodes[n].payload]]
    BY DEF FS!Listing
  <1>3. ASSUME NEW n \in DOMAIN store[d].nodes
        PROVE  \/ /\ store[d].nodes[n].kind = "dir" /\ FS!Listing(d)[n] = store[d].nodes[n]
                  /\ FS!Listing(d)[n].kind = "dir" /\ FS!Listing(d)[n].id \in DirId
                  /\ FS!Listing(d)[n] = FS!Dir(FS!Listing(d)[n].id)
                  /\ Link(store, d, n, FS!Listing(d)[n].id)
               \/ /\ store[d].nodes[n].kind = "file"
                  /\ FS!Listing(d)[n] = [kind |-> "file", size |-> 1]
    <2>1. CASE store[d].nodes[n].kind = "dir"
      <3>1. FS!Listing(d)[n] = store[d].nodes[n]
        BY <1>2, <2>1
      <3>2. store[d].nodes[n].id \in DirId /\ store[d].nodes[n] = FS!Dir(store[d].nodes[n].id)
        BY <1>1, <2>1, NodeIs
      <3> QED
        BY <2>1, <3>1, <3>2 DEF Link
    <2>2. CASE store[d].nodes[n].kind # "dir"
      <3>1. store[d].nodes[n].kind = "file" /\ store[d].nodes[n].payload \in Payload
        BY <1>1, <2>2, NodeIs
      <3> QED
        BY <1>2, <2>2, <3>1, ShellAssumption
    <2> QED
      BY <2>1, <2>2
  <1>4. \A n \in DOMAIN store[d].nodes : FS!Listing(d)[n] \in ListedNode
    <2> SUFFICES ASSUME NEW n \in DOMAIN store[d].nodes
                 PROVE  FS!Listing(d)[n] \in ListedNode
      OBVIOUS
    <2>1. CASE FS!Listing(d)[n] = [kind |-> "file", size |-> 1]
      BY <2>1 DEF ListedNode
    <2>2. CASE FS!Listing(d)[n] = FS!Dir(FS!Listing(d)[n].id) /\ FS!Listing(d)[n].id \in DirId
      BY <2>2 DEF ListedNode
    <2> QED
      BY <1>3, <2>1, <2>2
  <1>5. FS!Listing(d) \in [DOMAIN store[d].nodes -> ListedNode]
    BY <1>2, <1>4
  <1>6. FS!Listing(d) \in Listings
    BY <1>1, <1>5 DEF Listings
  <1> QED
    BY <1>2, <1>3, <1>6

\* While the current directory is being listed, an answer is the listing.
LEMMA ListingHere ==
    ASSUME Tree(store), PathInv, AnswerInv, call = FS!None, step \in {"cd", "list"}
    PROVE  answer.code = 0 /\ Listing = FS!Listing(Here)
  BY DEF AnswerInv, ListsHere, HereListed, FS!None, Listing

\* With one more directory the path is still not longer than the stack can hold.
LEMMA RoomOnStack ==
    ASSUME PathInv, NEW x \in DirId, \A k \in 1 .. PathLen : PathId(k) # x
    PROVE  Len(directory_stack) < STACK_SIZE
  <1> DEFINE f == [k \in 1 .. PathLen + 1 |-> IF k <= PathLen THEN PathId(k) ELSE x]
  <1>1. PathLen \in Nat /\ PathLen = Len(directory_stack) + 1
    BY DEF PathInv, PathLen
  <1>2. \A k \in 1 .. PathLen : PathId(k) \in DirId
    BY PathTyped
  <1>3. f \in [1 .. PathLen + 1 -> DirId]
    BY <1>1, <1>2
  <1>4. ASSUME NEW k \in 1 .. PathLen + 1, NEW m \in 1 .. PathLen + 1, f[k] = f[m]
        PROVE  k = m
    <2>1. CASE k <= PathLen /\ m <= PathLen
      BY <1>1, <1>4, <2>1 DEF PathInv
    <2>2. CASE k > PathLen \/ m > PathLen
      BY <1>1, <1>4, <2>2
    <2> QED
      BY <1>1, <2>1, <2>2
  <1>5. f \in Injection(1 .. PathLen + 1, DirId)
    BY <1>3, <1>4 DEF Injection, IsInjective
  <1>6. Cardinality(1 .. PathLen + 1) <= Cardinality(DirId)
    BY <1>5, FS_Injection, NestingBound
  <1>7. Cardinality(1 .. PathLen + 1) = PathLen + 1
    BY <1>1, FS_Interval
  <1>8. Cardinality(DirId) \in Nat
    BY NestingBound, FS_CardinalityType
  <1> QED
    BY <1>1, <1>6, <1>7, <1>8, NestingBound, ShellAssumption

LEMMA EnterKeepsPath ==
    ASSUME Tree(store), PathInv, AnswerInv, Enter
    PROVE  PathInv'
  <1>1. PICK n, x : n = job.source /\ x = Listing[n].id
    OBVIOUS
  <1>2. /\ step = "cd" /\ call = FS!None /\ store' = store
        /\ n \in DOMAIN Listing /\ Listing[n].kind = "dir"
        /\ directory_stack' = Pushed(directory_stack, current_directory)
        /\ current_directory' = [name |-> n, cluster_number |-> x,
                                 parent_cluster_number |-> Here]
    BY <1>1 DEF Enter, After, ListsDir, fsvars
  <1>3. Here \in DOMAIN store /\ Here \in DirId /\ PathLen \in Nat /\ PathLen >= 1
    BY WhereItIs
  <1>4. x \in DirId /\ Link(store, Here, n, x) /\ n \in Name
    <2>1. Listing = FS!Listing(Here)
      BY <1>2, ListingHere
    <2>2. n \in DOMAIN store[Here].nodes /\ DOMAIN store[Here].nodes \subseteq Name
      BY <1>2, <1>3, <2>1, ListingIs, EntryTyped DEF Tree
    <2> QED
      BY <1>1, <1>2, <1>3, <2>1, <2>2, ListingIs
  <1>5. x \in DOMAIN store /\ x # RootId
    BY <1>3, <1>4 DEF Tree, Linked
  <1>6. ASSUME NEW k \in 1 .. PathLen
        PROVE  PathId(k) # x
    <2>1. CASE k = 1
      BY <1>5, <2>1 DEF PathInv, PathId, RootDirectory
    <2>2. CASE k # 1
      <3>1. k - 1 \in 1 .. PathLen - 1 /\ k - 1 \in 1 .. PathLen /\ (k - 1) + 1 = k
        BY <1>3, <2>2
      <3>2. Link(store, PathId(k - 1), Path[k].name, PathId(k))
        BY <3>1 DEF PathInv
      <3>3. PathId(k - 1) # Here
        BY <1>3, <3>1, WhereItIs DEF PathInv
      <3>4. /\ PathId(k - 1) \in DirId /\ PathId(k - 1) \in DOMAIN store
            /\ Path[k].name \in Name
        <4>1. PathId(k - 1) \in DirId /\ PathId(k - 1) \in DOMAIN store
          BY <3>1, PathTyped DEF PathInv
        <4> QED
          BY <3>2, <4>1, EntryTyped DEF Tree, Link
      <3> QED
        BY <1>3, <1>4, <3>2, <3>3, <3>4 DEF Tree, Linked
    <2> QED
      BY <2>1, <2>2
  <1>7. Len(directory_stack) < STACK_SIZE
    BY <1>4, <1>6, RoomOnStack
  <1>8. /\ directory_stack' = Path /\ Path \in Seq(DirectoryState) /\ Len(Path) = PathLen
        /\ current_directory' \in DirectoryState
    <2>1. directory_stack \in Seq(DirectoryState) /\ current_directory \in DirectoryState
      BY DEF PathInv
    <2>2. current_directory' \in DirectoryState
      BY <1>2, <1>3, <1>4 DEF DirectoryState
    <2> QED
      BY <1>2, <1>7, <2>1, <2>2 DEF Path, PathLen, Pushed
  <1>9. /\ Path' = Append(Path, current_directory') /\ PathLen' = PathLen + 1
        /\ \A k \in 1 .. PathLen : Path'[k] = Path[k]
        /\ Path'[PathLen + 1] = current_directory'
    <2>1. Path' = Append(Path, current_directory')
      BY <1>8 DEF Path
    <2>2. PathLen' = PathLen + 1
      BY <1>8 DEF PathLen
    <2> QED
      BY <1>3, <1>8, <2>1, <2>2
  <1>10. PICK p, l : p = Path' /\ l = PathLen
    OBVIOUS
  <1>11. /\ \A k \in 1 .. l : p[k] = Path[k] /\ p[k].cluster_number = PathId(k)
         /\ p[l + 1].cluster_number = x /\ p[l + 1].name = n
         /\ p[l + 1].parent_cluster_number = Here /\ l \in Nat /\ l >= 1
    <2>1. \A k \in 1 .. l : p[k] = Path[k] /\ p[k].cluster_number = PathId(k)
      BY <1>9, <1>10 DEF PathId
    <2>2. p[l + 1] = current_directory'
      BY <1>9, <1>10
    <2>3. /\ p[l + 1].cluster_number = x /\ p[l + 1].name = n
          /\ p[l + 1].parent_cluster_number = Here
      BY <1>2, <2>2
    <2>4. l \in Nat /\ l >= 1
      BY <1>3, <1>10
    <2> QED
      BY <2>1, <2>3, <2>4
  <1>12. p[1] = RootDirectory
    BY <1>11 DEF PathInv
  <1>13. \A k \in 1 .. l + 1 : p[k].cluster_number \in DOMAIN store
    <2> SUFFICES ASSUME NEW k \in 1 .. l + 1
                 PROVE  p[k].cluster_number \in DOMAIN store
      OBVIOUS
    <2>1. CASE k \in 1 .. l
      BY <1>10, <1>11, <2>1 DEF PathInv
    <2>2. CASE k = l + 1
      BY <1>5, <1>11, <2>2
    <2> QED
      BY <1>11, <2>1, <2>2
  <1>14. \A k \in 1 .. l : /\ p[k + 1].parent_cluster_number = p[k].cluster_number
                           /\ Link(store, p[k].cluster_number, p[k + 1].name,
                                   p[k + 1].cluster_number)
    <2> SUFFICES ASSUME NEW k \in 1 .. l
                 PROVE  /\ p[k + 1].parent_cluster_number = p[k].cluster_number
                        /\ Link(store, p[k].cluster_number, p[k + 1].name,
                                p[k + 1].cluster_number)
      OBVIOUS
    <2>1. CASE k = l
      <3>1. p[k].cluster_number = Here
        BY <1>10, <1>11, <2>1, WhereItIs
      <3> QED
        BY <1>4, <1>11, <2>1, <3>1
    <2>2. CASE k # l
      <3>1. k \in 1 .. PathLen - 1 /\ k + 1 \in 1 .. l
        BY <1>10, <1>11, <2>2
      <3> QED
        BY <1>11, <3>1 DEF PathInv
    <2> QED
      BY <2>1, <2>2
  <1>15. \A k, m \in 1 .. l + 1 : p[k].cluster_number = p[m].cluster_number => k = m
    <2> SUFFICES ASSUME NEW k \in 1 .. l + 1, NEW m \in 1 .. l + 1,
                        p[k].cluster_number = p[m].cluster_number
                 PROVE  k = m
      OBVIOUS
    <2>1. CASE k \in 1 .. l /\ m \in 1 .. l
      BY <1>10, <1>11, <2>1 DEF PathInv
    <2>2. CASE k = l + 1 \/ m = l + 1
      BY <1>6, <1>10, <1>11, <2>2
    <2> QED
      BY <1>11, <2>1, <2>2
  <1>16. Len(directory_stack') <= STACK_SIZE
    <2>1. Len(directory_stack) \in Nat /\ STACK_SIZE \in Nat
      BY ShellAssumption DEF PathInv
    <2>2. Len(directory_stack') = Len(directory_stack) + 1
      BY <1>8 DEF PathLen
    <2> QED
      BY <1>7, <2>1, <2>2
  <1>17. PathLen' = l + 1 /\ Path' = p /\ store' = store
    BY <1>2, <1>9, <1>10
  <1>18. PathLen' - 1 = l
    BY <1>11, <1>17
  <1> QED
    BY <1>8, <1>12, <1>13, <1>14, <1>15, <1>16, <1>17, <1>18 DEF PathInv, PathId

LEMMA CdUpKeepsPath ==
    ASSUME Tree(store), PathInv, cd_up
    PROVE  PathInv'
  <1>1. /\ directory_stack # <<>> /\ store' = store
        /\ current_directory' = directory_stack[Len(directory_stack)]
        /\ directory_stack' = SubSeq(directory_stack, 1, Len(directory_stack) - 1)
    BY DEF cd_up, fsvars
  <1>2. /\ directory_stack \in Seq(DirectoryState) /\ current_directory \in DirectoryState
        /\ Len(directory_stack) <= STACK_SIZE
    BY DEF PathInv
  <1>3. PICK l : l = Len(directory_stack)
    OBVIOUS
  <1>4. l \in Nat /\ l >= 1 /\ PathLen = l + 1
    BY <1>1, <1>2, <1>3 DEF PathLen
  <1>5. /\ current_directory' \in DirectoryState /\ directory_stack' \in Seq(DirectoryState)
        /\ Len(directory_stack') = l - 1
        /\ \A k \in 1 .. l - 1 : directory_stack'[k] = directory_stack[k]
    BY <1>1, <1>2, <1>3, <1>4
  <1>6. PathLen' = l /\ \A k \in 1 .. l : Path'[k] = directory_stack[k]
    BY <1>1, <1>3, <1>4, <1>5 DEF Path, PathLen
  <1>7. \A k \in 1 .. l : Path'[k] = Path[k]
    BY <1>3, <1>4, <1>6, PathTyped
  <1>8. PICK p : p = Path'
    OBVIOUS
  <1>9. \A k \in 1 .. l : p[k] = Path[k] /\ p[k].cluster_number = PathId(k)
    BY <1>7, <1>8 DEF PathId
  <1>10. /\ p[1] = RootDirectory
         /\ \A k \in 1 .. l : p[k].cluster_number \in DOMAIN store
         /\ \A k, m \in 1 .. l : p[k].cluster_number = p[m].cluster_number => k = m
    <2>1. 1 \in 1 .. l /\ \A k \in 1 .. l : k \in 1 .. PathLen
      BY <1>4
    <2>2. p[1] = RootDirectory
      BY <1>9, <2>1 DEF PathInv
    <2>3. \A k \in 1 .. l : p[k].cluster_number \in DOMAIN store
      BY <1>9, <2>1 DEF PathInv
    <2>4. \A k, m \in 1 .. l : p[k].cluster_number = p[m].cluster_number => k = m
      BY <1>9, <2>1 DEF PathInv
    <2> QED
      BY <2>2, <2>3, <2>4
  <1>11. \A k \in 1 .. l - 1 :
             /\ p[k + 1].parent_cluster_number = p[k].cluster_number
             /\ Link(store, p[k].cluster_number, p[k + 1].name, p[k + 1].cluster_number)
    BY <1>4, <1>9 DEF PathInv
  <1>12. Len(directory_stack') <= STACK_SIZE
    BY <1>2, <1>3, <1>4, <1>5, ShellAssumption
  <1>13. PathLen' - 1 = l - 1 /\ PathLen' = l /\ Path' = p
    BY <1>6, <1>8
  <1> QED
    BY <1>1, <1>5, <1>10, <1>11, <1>12, <1>13 DEF PathInv, PathId

LEMMA FreshKeepsPath ==
    ASSUME Tree(store), FreshShell, store' = store
    PROVE  PathInv'
  <1>1. current_directory' = RootDirectory /\ directory_stack' = <<>>
    BY DEF FreshShell
  <1>2. RootDirectory \in DirectoryState /\ RootDirectory.cluster_number = RootId
    BY ShellAssumption DEF RootDirectory, DirectoryState
  <1>3. PathLen' = 1 /\ Path' = <<RootDirectory>>
    BY <1>1, <1>2 DEF PathLen, Path
  <1>4. RootId \in DOMAIN store'
    BY DEF Tree, StoreType
  <1> QED
    BY <1>1, <1>2, <1>3, <1>4, ShellAssumption DEF PathInv, PathId

-----------------------------------------------------------------------------
(* The locals of the running command.                                        *)

LEMMA StepsAre ==
    /\ Steps("none") = {"prompt"} /\ Steps("cd") = {"cd", "last"}
    /\ Steps("find") = {"find", "scan", "last"}
    /\ Steps("mv") = {"list", "load", "probe", "save", "last"}
    /\ Steps("cp") = {"list", "load", "probe", "last"}
    /\ Steps("ls") = {"last"} /\ Steps("cat") = {"last"}
    /\ Steps("mkdir") = {"last"} /\ Steps("rm") = {"last"}
  BY DEF Steps

\* Which command runs, as far as the step tells.
LEMMA JobIs ==
    ASSUME JobInv
    PROVE  /\ step = "prompt" <=> job = NoJob
           /\ step # "prompt" => job \in Job /\ job.source \in Name /\ job.destination \in Name
           /\ step = "cd" => job.op = "cd"
           /\ step \in {"find", "scan"} => job.op = "find"
           /\ step \in {"list", "load", "probe"} => job.op \in {"mv", "cp"}
           /\ step = "save" => job.op = "mv"
           /\ step \in {"prompt", "cd", "find", "scan", "list", "load", "probe", "save", "last"}
           /\ job.op \in {"none", "cd", "ls", "cat", "mkdir", "rm", "mv", "cp", "find"}
           /\ job.op = "none" <=> job = NoJob
           /\ job.op # "none" => step # "prompt"
  <1>1. job \in Job \cup {NoJob} /\ step \in Steps(job.op)
    BY DEF JobInv
  <1>2. \/ job.op = "none" /\ job = NoJob
        \/ job \in Job /\ job.source \in Name /\ job.destination \in Name
           /\ job.op \in {"cd", "ls", "cat", "mkdir", "rm", "mv", "cp", "find"}
    BY <1>1 DEF Job, NoJob
  <1> QED
    BY <1>1, <1>2, StepsAre DEF NoJob

LEMMA NoEntriesTyped ==
    NoEntries \in Listings /\ DOMAIN NoEntries = {}
  <1>1. NoEntries \in [{} -> ListedNode] /\ DOMAIN NoEntries = {}
    BY DEF NoEntries
  <1> QED
    BY <1>1 DEF Listings

Act == [next : DirId, entries : Listings]

\* The walk's type, and its activations' own.
LEMMA WalkIs ==
    ASSUME JobInv
    PROVE  /\ walk \in Seq(Act) /\ Len(walk) \in Nat /\ DOMAIN walk = 1 .. Len(walk)
           /\ \A k \in DOMAIN walk :
                 /\ walk[k] \in Act /\ walk[k].next \in DirId
                 /\ walk[k].entries \in Listings
           /\ walk # <<>> =>
                 /\ Len(walk) \in DOMAIN walk /\ Top = walk[Len(walk)]
                 /\ Outer \in Seq(Act) /\ Len(Outer) = Len(walk) - 1
                 /\ \A k \in 1 .. Len(walk) - 1 : Outer[k] = walk[k]
  <1>1. walk \in Seq(Act)
    BY DEF JobInv, Act
  <1>2. Len(walk) \in Nat /\ DOMAIN walk = 1 .. Len(walk) /\ \A k \in DOMAIN walk : walk[k] \in Act
    BY <1>1
  <1>3. ASSUME walk # <<>>
        PROVE  /\ Len(walk) \in DOMAIN walk /\ Top = walk[Len(walk)]
               /\ Outer \in Seq(Act) /\ Len(Outer) = Len(walk) - 1
               /\ \A k \in 1 .. Len(walk) - 1 : Outer[k] = walk[k]
    <2>1. PICK l : l = Len(walk)
      OBVIOUS
    <2>2. l \in Nat /\ l >= 1
      BY <1>1, <1>3, <2>1
    <2>3. Outer = SubSeq(walk, 1, l - 1)
      BY <2>1 DEF Outer
    <2>4. Outer \in Seq(Act) /\ Len(Outer) = l - 1 /\ \A k \in 1 .. l - 1 : Outer[k] = walk[k]
      BY <1>1, <2>1, <2>2, <2>3
    <2> QED
      BY <1>2, <2>1, <2>2, <2>4 DEF Top
  <1> QED
    BY <1>1, <1>2, <1>3 DEF Act

\* The entries of an activation are links and the name looked for.
LEMMA EntryIs ==
    ASSUME JobInv, NEW k \in DOMAIN walk, NEW e \in DOMAIN walk[k].entries
    PROVE  /\ e \in Name /\ walk[k].entries[e] \in ListedNode
           /\ e # job.source => /\ walk[k].entries[e].kind = "dir"
                                /\ walk[k].entries[e].id \in DirId
                                /\ walk[k].entries[e] = FS!Dir(walk[k].entries[e].id)
  <1>1. walk[k].entries \in Listings
    BY WalkIs
  <1>2. PICK N \in SUBSET Name : walk[k].entries \in [N -> ListedNode]
    BY <1>1 DEF Listings
  <1>3. e \in Name /\ walk[k].entries[e] \in ListedNode
    BY <1>2
  <1>4. ASSUME e # job.source
        PROVE  walk[k].entries[e].kind = "dir"
    BY <1>4 DEF JobInv
  <1> QED
    BY <1>3, <1>4 DEF ListedNode, FS!Dir

\* What TableRead takes over from a listing.
LEMMA TellingIs ==
    ASSUME Tree(store), NEW d \in DOMAIN store, Listing = FS!Listing(d)
    PROVE  /\ Telling \in Listings
           /\ DOMAIN Telling = {x \in DOMAIN store[d].nodes :
                                   x = job.source \/ store[d].nodes[x].kind = "dir"}
           /\ \A e \in DOMAIN Telling : /\ Telling[e] = FS!Listing(d)[e]
                                        /\ e # job.source => Telling[e].kind = "dir"
  <1> DEFINE L == FS!Listing(d)
             D == {x \in DOMAIN L : x = job.source \/ L[x].kind = "dir"}
  <1>1. Telling = [e \in D |-> L[e]]
    BY DEF Telling
  <1>2. L \in Listings
    BY ListingIs
  <1>3. PICK N \in SUBSET Name : L \in [N -> ListedNode]
    BY <1>2 DEF Listings
  <1>4. Telling \in [D -> ListedNode] /\ D \subseteq Name
    BY <1>1, <1>3
  <1>5. Telling \in Listings
    BY <1>4 DEF Listings
  <1>6. \A x \in DOMAIN store[d].nodes : store[d].nodes[x].kind = "dir" <=> L[x].kind = "dir"
    BY ListingIs
  <1>7. DOMAIN L = DOMAIN store[d].nodes
    BY ListingIs
  <1> QED
    BY <1>1, <1>5, <1>6, <1>7

LEMMA BeginsJob ==
    ASSUME JobInv, NEW op \in {"cd", "ls", "cat", "mkdir", "rm", "mv", "cp"},
           NEW n \in Name, NEW m \in Name, Begin(op, n, m), step' \in Steps(op),
           walk' = walk
    PROVE  JobInv'
  <1>1. step = "prompt" /\ job' = [op |-> op, source |-> n, destination |-> m]
        /\ ok' = FALSE /\ filesize' = 0 /\ buf' = Garbage /\ found' = FALSE
    BY DEF Begin, After
  <1>2. job' \in Job /\ job'.op = op
    BY <1>1 DEF Job
  <1>3. walk = <<>>
    BY <1>1 DEF JobInv
  <1>4. walk' = <<>> /\ step' # "find"
    BY <1>3, StepsAre
  <1>5. ok' \in BOOLEAN /\ found' \in BOOLEAN
    BY <1>1, Zenon
  <1>6. filesize' \in {0, 1} /\ buf' \in Payload \cup {Garbage} /\ step' \in Steps(job'.op)
    BY <1>1, <1>2
  <1> QED
    BY <1>2, <1>4, <1>5, <1>6 DEF JobInv

LEMMA CommandJob ==
    ASSUME JobInv, Command
    PROVE  JobInv'
  <1>1. CASE cd_up
    BY <1>1 DEF cd_up, JobInv, locals, copying, finding
  <1>2. ASSUME NEW n \in Name, mkdir(n) \/ rm(n) \/ cat(n) \/ ls(n) \/ cd(n)
        PROVE  JobInv'
    <2>1. \E op \in {"cd", "ls", "cat", "mkdir", "rm"} :
             Begin(op, n, n) /\ step' \in Steps(op) /\ walk' = walk
      BY <1>2, StepsAre DEF mkdir, rm, cat, ls, cd
    <2> QED
      BY <2>1, BeginsJob
  <1>3. ASSUME NEW n \in Name, find(n)
        PROVE  JobInv'
    <2>1. /\ job' = [op |-> "find", source |-> n, destination |-> n] /\ step' = "find"
          /\ ok' = FALSE /\ filesize' = 0 /\ buf' = Garbage /\ found' = FALSE
          /\ walk' = <<Activation(RootId, NoEntries)>>
      BY <1>3 DEF find, Begin
    <2>2. job' \in Job /\ step' \in Steps(job'.op)
      BY <2>1, StepsAre DEF Job
    <2>3. PICK a : a = Activation(RootId, NoEntries)
      OBVIOUS
    <2>4. a \in Act /\ DOMAIN a.entries = {}
      BY <2>3, NoEntriesTyped, ShellAssumption DEF Activation, Act
    <2>5. walk' = <<a>>
      BY <2>1, <2>3
    <2>6. walk' \in Seq(Act) /\ walk' # <<>> /\ DOMAIN walk' = {1} /\ walk'[1] = a
      BY <2>4, <2>5
    <2>7. ok' \in BOOLEAN /\ found' \in BOOLEAN
      BY <2>1, Zenon
    <2>8. filesize' \in {0, 1} /\ buf' \in Payload \cup {Garbage}
      BY <2>1
    <2> QED
      BY <2>1, <2>2, <2>4, <2>6, <2>7, <2>8 DEF JobInv, Act
  <1>4. ASSUME NEW op \in {"mv", "cp"}, NEW n \in Name, NEW m \in Name, copy(op, n, m)
        PROVE  JobInv'
    <2>1. Begin(op, n, m) /\ step' \in Steps(op) /\ walk' = walk
      BY <1>4, StepsAre DEF copy
    <2> QED
      BY <2>1, BeginsJob
  <1> QED
    BY <1>1, <1>2, <1>3, <1>4 DEF Command

\* A step that leaves the walk alone.
LEMMA SameWalkJob ==
    ASSUME JobInv, job' = job, walk' = walk, found' = found, step' \in Steps(job.op),
           filesize' \in {0, 1}, buf' \in Payload \cup {Garbage}, ok' \in BOOLEAN,
           walk = <<>> /\ step' # "find"
    PROVE  JobInv'
  BY DEF JobInv

LEMMA ContinueJob ==
    ASSUME ShellInv, Continue
    PROVE  JobInv'
  <1> USE DEF ShellInv
  <1>1. filesize \in {0, 1} /\ buf \in Payload \cup {Garbage} /\ ok \in BOOLEAN
    BY DEF JobInv
  <1>2. CASE Enter \/ NotFound
    <2>1. /\ step = "cd" /\ step' = "last" /\ job' = job
          /\ walk' = walk /\ found' = found
          /\ filesize' = filesize /\ buf' = buf /\ ok' = ok
      BY <1>2 DEF Enter, NotFound, After, locals, copying, finding
    <2>2. walk = <<>> /\ step' \in Steps(job.op)
      BY <2>1, JobIs, StepsAre DEF JobInv
    <2> QED
      BY <1>1, <2>1, <2>2, SameWalkJob
  <1>3. CASE Load
    <2>1. /\ step = "list" /\ step' = "load" /\ job' = job
          /\ walk' = walk /\ found' = found /\ call = FS!None
          /\ filesize' = SizeListed(job.source) /\ buf' = buf /\ ok' = ok
      BY <1>3 DEF Load, Copying, After, finding
    <2>2. walk = <<>> /\ step' \in Steps(job.op)
      BY <2>1, JobIs, StepsAre DEF JobInv
    <2>3. Listing = FS!Listing(Here) /\ Here \in DOMAIN store
      BY <2>1, ListingHere, WhereItIs DEF CallInv
    <2>4. filesize' \in {0, 1}
      BY <2>1, <2>3, ListingIs DEF SizeListed
    <2> QED
      BY <1>1, <2>1, <2>2, <2>4, SameWalkJob
  <1>4. ASSUME Copying("load") \/ Copying("probe"), call = FS!None
        PROVE  Filled \in Payload \cup {Garbage}
    <2>1. step \in {"load", "probe"}
      BY <1>4 DEF Copying, After
    <2>2. answer.code = 0 => answer.data.file \in Payload
      BY <1>4, <2>1 DEF CallInv, AnswerInv, FS!None
    <2> QED
      BY <1>1, <2>2 DEF Filled
  <1>5. CASE Probe
    <2>1. /\ step = "load" /\ step' = "probe" /\ job' = job /\ call = FS!None
          /\ walk' = walk /\ found' = found /\ Copying("load")
          /\ filesize' = filesize /\ buf' = Filled
      BY <1>5 DEF Probe, Copying, After, finding
    <2>2. ok' \in BOOLEAN
      <3>1. ok' = (answer.code = 0)
        BY <1>5 DEF Probe
      <3> QED
        BY <3>1, Zenon
    <2>3. walk = <<>> /\ step' \in Steps(job.op)
      BY <2>1, JobIs, StepsAre DEF JobInv
    <2> QED
      BY <1>1, <1>4, <2>1, <2>2, <2>3, SameWalkJob
  <1>6. CASE Save
    <2>1. /\ step = "probe" /\ job' = job /\ call = FS!None
          /\ step' = IF job.op = "mv" THEN "save" ELSE "last"
          /\ walk' = walk /\ found' = found /\ Copying("probe")
          /\ filesize' = filesize /\ buf' = Filled /\ ok' = ok
      BY <1>6 DEF Save, Copying, After, finding
    <2>2. walk = <<>> /\ step' \in Steps(job.op)
      BY <2>1, JobIs, StepsAre DEF JobInv
    <2> QED
      BY <1>1, <1>4, <2>1, <2>2, SameWalkJob
  <1>7. CASE DeleteSource
    <2>1. /\ step = "save" /\ step' = "last" /\ job' = job
          /\ walk' = walk /\ found' = found
          /\ filesize' = filesize /\ buf' = buf
      BY <1>7 DEF DeleteSource, Copying, After, finding
    <2>2. ok' \in BOOLEAN
      <3>1. ok' = (ok /\ answer.code = 0)
        BY <1>7 DEF DeleteSource
      <3> QED
        BY <3>1, Zenon
    <2>3. walk = <<>> /\ step' \in Steps(job.op)
      BY <2>1, JobIs, StepsAre DEF JobInv
    <2> QED
      BY <1>1, <2>1, <2>2, <2>3, SameWalkJob
  <1>8. CASE TableRead
    <2>1. /\ step = "find" /\ step' = "scan" /\ job' = job /\ call = FS!None
          /\ job.op = "find" /\ filesize' = filesize /\ buf' = buf /\ ok' = ok
      BY <1>8 DEF TableRead, Looking, After, copying
    <2>2. step' \in Steps(job.op) /\ walk # <<>>
      BY <2>1, StepsAre DEF JobInv
    <2>3. CASE answer.code = 0 /\ walk' = [walk EXCEPT ![Len(walk)].entries = Telling]
                /\ found' = found
      <3>1. PICK d \in DOMAIN store : answer.data.dir = FS!Listing(d)
        BY <2>1, <2>3 DEF CallInv, AnswerInv, FS!None
      <3>2. /\ Telling \in Listings
            /\ \A e \in DOMAIN Telling : e # job.source => Telling[e].kind = "dir"
        BY <3>1, TellingIs DEF Listing
      <3>3. PICK l, T, w : l = Len(walk) /\ T = Telling /\ w = walk'
        OBVIOUS
      <3>4. l \in DOMAIN walk /\ walk \in Seq(Act) /\ walk[l] \in Act
        BY <2>2, <3>3, WalkIs
      <3>5. w = [walk EXCEPT ![l] = [walk[l] EXCEPT !.entries = T]]
        BY <2>3, <3>3
      <3>6. [walk[l] EXCEPT !.entries = T] \in Act /\ [walk[l] EXCEPT !.entries = T].entries = T
        BY <3>2, <3>3, <3>4 DEF Act
      <3>7. /\ w \in Seq(Act) /\ DOMAIN w = DOMAIN walk /\ w[l].entries = T
            /\ \A k \in DOMAIN walk \ {l} : w[k] = walk[k]
        <4>1. PICK v : v = [walk[l] EXCEPT !.entries = T]
          OBVIOUS
        <4>2. v \in Act /\ v.entries = T /\ w = [walk EXCEPT ![l] = v]
          BY <3>5, <3>6, <4>1
        <4> QED
          BY <3>4, <4>2
      <3>8. \A k \in DOMAIN w : \A e \in DOMAIN w[k].entries \ {job.source} :
                w[k].entries[e].kind = "dir"
        <4> SUFFICES ASSUME NEW k \in DOMAIN w, NEW e \in DOMAIN w[k].entries \ {job.source}
                     PROVE  w[k].entries[e].kind = "dir"
          OBVIOUS
        <4>1. CASE k = l
          BY <3>2, <3>3, <3>7, <4>1
        <4>2. CASE k # l
          BY <3>7, <4>2 DEF JobInv
        <4> QED
          BY <4>1, <4>2
      <3> QED
        BY <1>1, <2>1, <2>2, <2>3, <3>3, <3>7, <3>8 DEF JobInv, Act
    <2>4. CASE walk' = Outer /\ found' \in {found, TRUE}
      <3>1. PICK w, l : w = walk' /\ l = Len(walk)
        OBVIOUS
      <3>2. /\ w \in Seq(Act) /\ l \in Nat /\ DOMAIN w = 1 .. l - 1 /\ DOMAIN walk = 1 .. l
            /\ \A k \in 1 .. l - 1 : w[k] = walk[k]
        BY <2>2, <2>4, <3>1, WalkIs
      <3>3. \A k \in DOMAIN w : \A e \in DOMAIN w[k].entries \ {job.source} :
                w[k].entries[e].kind = "dir"
        BY <3>2 DEF JobInv
      <3>4. found' \in BOOLEAN
        BY <2>4, Zenon DEF JobInv
      <3> QED
        BY <1>1, <2>1, <2>2, <3>1, <3>2, <3>3, <3>4 DEF JobInv, Act
    <2> QED
      BY <1>8, <2>3, <2>4 DEF TableRead
  <1>9. CASE Matched \/ Ascend
    <2>1. /\ step = "scan" /\ step' = step /\ job' = job /\ walk # <<>> /\ walk' = Outer
          /\ job.op = "find" /\ filesize' = filesize /\ buf' = buf /\ ok' = ok
          /\ found' = TRUE \/ found' = found
      BY <1>9 DEF Matched, Ascend, Looking, After, copying
    <2>2. PICK w, l : w = walk' /\ l = Len(walk)
      OBVIOUS
    <2>3. /\ w \in Seq(Act) /\ l \in Nat /\ DOMAIN w = 1 .. l - 1 /\ DOMAIN walk = 1 .. l
          /\ \A k \in 1 .. l - 1 : w[k] = walk[k]
      BY <2>1, <2>2, WalkIs
    <2>4. \A k \in DOMAIN w : \A e \in DOMAIN w[k].entries \ {job.source} :
              w[k].entries[e].kind = "dir"
      BY <2>3 DEF JobInv
    <2>5. found' \in BOOLEAN
      BY <2>1, Zenon DEF JobInv
    <2>6. step' \in Steps(job.op)
      BY <2>1, StepsAre
    <2> QED
      BY <1>1, <2>1, <2>2, <2>3, <2>4, <2>5, <2>6 DEF JobInv, Act
  <1>10. CASE Descend
    <2>1. PICK e \in DOMAIN Top.entries \ {job.source} :
             walk' = Append(Append(Outer, [Top EXCEPT !.entries =
                                [x \in DOMAIN Top.entries \ {e} |-> Top.entries[x]]]),
                            Activation(Top.entries[e].id, NoEntries))
      BY <1>10 DEF Descend
    <2>2. /\ step = "scan" /\ step' = "find" /\ job' = job /\ walk # <<>>
          /\ job.op = "find" /\ filesize' = filesize /\ buf' = buf /\ ok' = ok
          /\ found' = found
      BY <1>10 DEF Descend, Looking, After, copying
    <2>3. PICK w, l, T, a, b :
              /\ w = walk' /\ l = Len(walk)
              /\ T = [x \in DOMAIN Top.entries \ {e} |-> Top.entries[x]]
              /\ a = [Top EXCEPT !.entries = T]
              /\ b = Activation(Top.entries[e].id, NoEntries)
      OBVIOUS
    <2>4. /\ l \in DOMAIN walk /\ Top = walk[l] /\ Top \in Act /\ Top.entries \in Listings
          /\ Outer \in Seq(Act) /\ Len(Outer) = l - 1 /\ l \in Nat /\ DOMAIN walk = 1 .. l
          /\ \A k \in 1 .. l - 1 : Outer[k] = walk[k]
      BY <2>2, <2>3, WalkIs
    <2>5. Top.entries[e].id \in DirId
      BY <2>1, <2>4, EntryIs
    <2>6. T \in Listings
      <3>1. PICK N \in SUBSET Name : Top.entries \in [N -> ListedNode]
        BY <2>4 DEF Listings
      <3>2. T \in [N \ {e} -> ListedNode]
        BY <2>3, <3>1
      <3> QED
        BY <3>1, <3>2 DEF Listings
    <2>7. a \in Act /\ a.entries = T
      BY <2>3, <2>4, <2>6 DEF Act
    <2>8. b \in Act /\ DOMAIN b.entries = {}
      BY <2>3, <2>5, NoEntriesTyped DEF Activation, Act
    <2>9. /\ w = Append(Append(Outer, a), b) /\ w \in Seq(Act) /\ DOMAIN w = 1 .. l + 1
          /\ \A k \in 1 .. l - 1 : w[k] = walk[k]
          /\ w[l] = a /\ w[l + 1] = b
      <3>1. w = Append(Append(Outer, a), b)
        BY <2>1, <2>3
      <3> QED
        BY <2>4, <2>7, <2>8, <3>1
    <2>10. \A k \in DOMAIN w : \A x \in DOMAIN w[k].entries \ {job.source} :
              w[k].entries[x].kind = "dir"
      <3> SUFFICES ASSUME NEW k \in DOMAIN w, NEW x \in DOMAIN w[k].entries \ {job.source}
                   PROVE  w[k].entries[x].kind = "dir"
        OBVIOUS
      <3>1. CASE k < l
        BY <2>4, <2>9, <3>1 DEF JobInv
      <3>2. CASE k = l
        BY <2>3, <2>4, <2>7, <2>9, <3>2 DEF JobInv
      <3>3. CASE k = l + 1
        BY <2>8, <2>9, <3>3
      <3> QED
        BY <2>4, <2>9, <3>1, <3>2, <3>3
    <2>11. step' \in Steps(job.op) /\ w # <<>>
      BY <2>2, <2>4, <2>9, StepsAre
    <2>12. found' \in BOOLEAN /\ ok' \in BOOLEAN
      BY <2>2, Zenon DEF JobInv
    <2>13. /\ job' \in Job \cup {NoJob} /\ job'.source = job.source
           /\ filesize' \in {0, 1} /\ buf' \in Payload \cup {Garbage}
           /\ step' = "find" /\ step' \in Steps(job'.op)
      BY <1>1, <2>2, <2>11 DEF JobInv
    <2>14. walk' = w /\ w # <<>> /\ w \in Seq([next : DirId, entries : Listings])
      BY <2>3, <2>9, <2>11 DEF Act
    <2> QED
      BY <2>10, <2>12, <2>13, <2>14 DEF JobInv
  <1>11. CASE WalkOver
    <2>1. /\ step' = "last" /\ job' = job /\ job.op = "find" /\ walk = <<>>
          /\ walk' = walk /\ found' = found /\ filesize' = filesize /\ buf' = buf /\ ok' = ok
      BY <1>11 DEF WalkOver, Looking, locals, copying, finding
    <2>2. step' \in Steps(job.op)
      BY <2>1, StepsAre
    <2> QED
      BY <1>1, <2>1, <2>2, SameWalkJob
  <1>12. CASE EndOfJob
    <2>1. /\ step = "last" /\ step' = "prompt" /\ job' = NoJob
          /\ walk' = walk /\ found' = found /\ filesize' = filesize /\ buf' = buf /\ ok' = ok
      BY <1>12 DEF EndOfJob, After, locals, copying, finding
    <2>2. walk = <<>> /\ step' \in Steps(job'.op)
      BY <2>1, StepsAre DEF JobInv, NoJob
    <2> QED
      BY <1>1, <2>1, <2>2 DEF JobInv
  <1> QED
    BY <1>2, <1>3, <1>5, <1>6, <1>7, <1>8, <1>9, <1>10, <1>11, <1>12 DEF Continue

LEMMA FreshJob ==
    ASSUME FreshShell
    PROVE  JobInv'
  <1>1. /\ job' = NoJob /\ step' = "prompt" /\ walk' = <<>> /\ found' = FALSE
        /\ filesize' = 0 /\ buf' = Garbage /\ ok' = FALSE
    BY DEF FreshShell
  <1>2. step' \in Steps(job'.op)
    BY <1>1, StepsAre DEF NoJob
  <1>3. ok' \in BOOLEAN /\ found' \in BOOLEAN
    BY <1>1, Zenon
  <1>4. filesize' \in {0, 1} /\ buf' \in Payload \cup {Garbage} /\ job' \in Job \cup {NoJob}
    BY <1>1
  <1> QED
    BY <1>1, <1>2, <1>3, <1>4 DEF JobInv

LEMMA StepJob ==
    ASSUME ShellInv, [Next]_vars
    PROVE  JobInv'
  <1>1. CASE PowerOn \/ Crash
    BY <1>1, FreshJob DEF PowerOn, Crash
  <1>2. CASE Insert \/ Serve \/ UNCHANGED vars
    <2>1. UNCHANGED <<job, step, filesize, buf, ok, walk, found>>
      BY <1>2 DEF Insert, Serve, vars, locals, copying, finding
    <2> QED
      BY <2>1 DEF ShellInv, JobInv
  <1> QED
    BY <1>1, <1>2, CommandJob, ContinueJob DEF Next, ShellInv

-----------------------------------------------------------------------------
(* The calls.                                                                *)

\* A store step and the shell: how store and place go on.
LEMMA StepStore ==
    ASSUME ShellInv, [Next]_vars
    PROVE  Tree(store') /\ PathInv'
  <1> USE DEF ShellInv
  <1>1. CASE PowerOn \/ Crash
    <2>1. FreshShell /\ store' = store
      BY <1>1 DEF PowerOn, Crash, FS!PowerOn, FS!Crash
    <2> QED
      BY <2>1, FreshKeepsPath
  <1>2. CASE Insert
    <2>1. UNCHANGED place /\ directory_stack = <<>>
      BY <1>2 DEF Insert, CallInv, CallTyped
    <2>2. Tree(store')
      BY <1>2, InsertTree
    <2> QED
      BY <2>1, <2>2, RootKeepsPath
  <1>3. CASE Serve
    <2>1. UNCHANGED place
      BY <1>3 DEF Serve
    <2>2. CASE FS!Create
      BY <2>1, <2>2, CreateGrows, GrowsKeepsPath DEF CallInv
    <2>3. CASE FS!Remove
      BY <2>1, <2>3, RemoveKeepsPath DEF CallInv
    <2>4. CASE UNCHANGED store
      BY <2>1, <2>4, PathStays DEF PathInv
    <2> QED
      BY <1>3, <2>2, <2>3, <2>4
      DEF Serve, FS!Read, FS!ReadDirectory, FS!CreateRefuse, FS!RemoveReturn
  <1>4. CASE Enter
    <2>1. store' = store
      BY <1>4 DEF Enter, fsvars
    <2> QED
      BY <1>4, <2>1, EnterKeepsPath DEF CallInv
  <1>5. CASE cd_up
    <2>1. store' = store
      BY <1>5 DEF cd_up, fsvars
    <2> QED
      BY <1>5, <2>1, CdUpKeepsPath
  <1>6. CASE UNCHANGED <<store, place>>
    BY <1>6, PathStays DEF PathInv
  <1>7. (Command /\ ~cd_up) \/ (Continue /\ ~Enter) \/ UNCHANGED vars => UNCHANGED <<store, place>>
    BY DEF Command, Continue, vars, fsvars, mkdir, rm, cat, ls, cd, find, copy, Begin, ReadDir,
           ReadFile, Write, Delete, ListCurrent, Ask, FS!Invoke, NotFound, Load, Probe, Save,
           DeleteSource, TableRead, Matched, Descend, Ascend, WalkOver, EndOfJob
  <1> QED
    BY <1>1, <1>2, <1>3, <1>4, <1>5, <1>6, <1>7 DEF Next

\* When no call is under way, none of what is said of calls is left to show.
LEMMA NoCall ==
    ASSUME call' \in {FS!None, FS!Off},
           call' = FS!Off => step' = "prompt" /\ directory_stack' = <<>>,
           job'.op \in {"mv", "cp"} => {job'.source, job'.destination} \subseteq Elsewhere'
    PROVE  CallTyped' /\ ChangeInv'
  BY DEF CallTyped, ChangeInv, Busy, FS!None, FS!Off

LEMMA FreshCall ==
    ASSUME PowerOn \/ Crash
    PROVE  CallInv'
  <1>1. call' \in {FS!None, FS!Off} /\ job' = NoJob /\ step' = "prompt"
        /\ directory_stack' = <<>>
    BY DEF PowerOn, Crash, FS!PowerOn, FS!Crash, FreshShell, FS!None, FS!Off
  <1>2. CallTyped' /\ ChangeInv'
    BY <1>1, NoCall DEF NoJob
  <1> QED
    BY <1>1, <1>2 DEF CallInv, AnswerInv, ListsHere

LEMMA InsertCall ==
    ASSUME ShellInv, Insert
    PROVE  CallInv'
  <1>1. /\ call = FS!Off /\ call' = call /\ step' = step /\ job' = job
        /\ directory_stack' = directory_stack
    BY DEF Insert, place
  <1>2. step = "prompt" /\ job = NoJob /\ directory_stack = <<>>
    BY <1>1, JobIs DEF ShellInv, CallInv, CallTyped
  <1>3. CallTyped' /\ ChangeInv'
    BY <1>1, <1>2, NoCall DEF NoJob
  <1> QED
    BY <1>1, <1>2, <1>3 DEF CallInv, AnswerInv, ListsHere

\* The labels, and so the names a command may pass, stay while calls are served.
LEMMA ServeKeepsLabels ==
    ASSUME ShellInv, Serve
    PROVE  Elsewhere' = Elsewhere
  <1>1. UNCHANGED place /\ Above \in DOMAIN store
    BY WhereItIs DEF ShellInv, Serve
  <1>2. store'[Above].label = store[Above].label
    <2>1. CASE FS!Create
      <3>1. Grows(store, store')
        BY <2>1, CreateGrows DEF ShellInv, CallInv
      <3> QED
        BY <1>1, <3>1 DEF Grows
    <2>2. CASE FS!Remove
      BY <1>1, <2>2, RemoveKeepsPath DEF ShellInv, CallInv
    <2>3. CASE UNCHANGED store
      BY <2>3
    <2> QED
      BY <2>1, <2>2, <2>3 DEF Serve, FS!Read, FS!ReadDirectory, FS!CreateRefuse, FS!RemoveReturn
  <1>3. current_directory' = current_directory
    BY <1>1 DEF place
  <1>4. Above' = Above
    BY <1>3 DEF Above
  <1> QED
    BY <1>2, <1>3, <1>4 DEF Elsewhere

\* A listing under way returns the table of the current directory.
LEMMA ReadDirectoryHere ==
    ASSUME Tree(store), PathInv, FS!ReadDirectory, call.parent = Above,
           call.name = current_directory.name
    PROVE  answer' = HereListed /\ call' = FS!None
  <1>1. StoreType(store) /\ Linked(store)
    BY DEF Tree
  <1>2. CASE PathLen = 1
    <2>1. Above = RootId /\ Here = RootId /\ current_directory.name = RootLabel
      BY <1>2, WhereItIs DEF RootDirectory, Above, Here
    <2>2. call.name = store[call.parent].label
      BY <1>1, <2>1 DEF Linked
    <2> QED
      BY <2>1, <2>2 DEF FS!ReadDirectory, FS!Return, HereListed
  <1>3. CASE PathLen > 1
    <2>1. /\ Link(store, Above, call.name, Here) /\ Above \in DOMAIN store
      BY <1>3, WhereItIs
    <2>2. call.name # store[call.parent].label
      BY <1>1, <2>1 DEF Linked, Link
    <2>3. /\ FS!Known /\ FS!Nodes[call.name] = FS!Dir(Here)
      BY <2>1 DEF Link, FS!Known, FS!Nodes
    <2>4. FS!Nodes[call.name].kind = "dir" /\ FS!Nodes[call.name].id = Here
      BY <2>3 DEF FS!Dir
    <2> QED
      BY <2>2, <2>3, <2>4 DEF FS!ReadDirectory, FS!Return, HereListed
  <1> QED
    BY <1>2, <1>3, WhereItIs

\* Whatever is listed, the answer is the table of some directory.
LEMMA ReadDirectoryLists ==
    ASSUME Tree(store), CallTyped, FS!ReadDirectory, answer'.code = 0
    PROVE  \E d \in DOMAIN store : answer'.data.dir = FS!Listing(d)
  <1>1. call.parent \in DOMAIN store
    BY CallFields DEF FS!ReadDirectory, Busy
  <1>2. CASE call.name = store[call.parent].label
    BY <1>1, <1>2 DEF FS!ReadDirectory, FS!Return
  <1>3. CASE call.name # store[call.parent].label
    <2>1. /\ FS!Known /\ FS!Nodes[call.name].kind = "dir"
          /\ answer'.data.dir = FS!Listing(FS!Nodes[call.name].id)
      BY <1>3 DEF FS!ReadDirectory, FS!Return
    <2>2. PICK d, n : d = call.parent /\ n = call.name
      OBVIOUS
    <2>3. n \in DOMAIN store[d].nodes /\ store[d].nodes[n].kind = "dir"
          /\ answer'.data.dir = FS!Listing(store[d].nodes[n].id) /\ d \in DOMAIN store
      BY <1>1, <2>1, <2>2 DEF FS!Known, FS!Nodes
    <2>4. Link(store, d, n, store[d].nodes[n].id) /\ d \in DirId /\ n \in Name
          /\ store[d].nodes[n] \in Node
      BY <2>3, LinkIs, EntryTyped DEF Tree
    <2>5. store[d].nodes[n].id \in DirId
      BY <2>3, <2>4, NodeIs
    <2>6. store[d].nodes[n].id \in DOMAIN store
      BY <2>4, <2>5 DEF Tree, Linked
    <2> QED
      BY <2>3, <2>6
  <1> QED
    BY <1>2, <1>3

\* A read that succeeds returns the contents of the file.
LEMMA ReadReturns ==
    ASSUME Tree(store), CallTyped, FS!Read, answer'.code = 0
    PROVE  /\ answer'.data.file \in Payload /\ call.name \in DOMAIN store[call.parent].nodes
           /\ store[call.parent].nodes[call.name] = FS!File(answer'.data.file)
  <1>1. call.parent \in DOMAIN store /\ call.op = "read"
    BY CallFields DEF FS!Read, Busy
  <1>2. PICK d, n : d = call.parent /\ n = call.name
    OBVIOUS
  <1>3. /\ n \in DOMAIN store[d].nodes /\ store[d].nodes[n].kind = "file"
        /\ answer'.data.file = store[d].nodes[n].payload
    BY <1>2 DEF FS!Read, FS!Return, FS!Known, FS!Nodes
  <1>4. store[d].nodes[n] \in Node
    BY <1>1, <1>2, <1>3, EntryTyped DEF Tree
  <1>5. /\ store[d].nodes[n].payload \in Payload
        /\ store[d].nodes[n] = FS!File(store[d].nodes[n].payload)
    BY <1>3, <1>4, NodeIs
  <1> QED
    BY <1>2, <1>3, <1>5

LEMMA ServeCall ==
    ASSUME ShellInv, Serve
    PROVE  CallInv'
  <1> USE DEF ShellInv
  <1>1. step' = step /\ job' = job /\ UNCHANGED place /\ Elsewhere' = Elsewhere
    BY ServeKeepsLabels DEF Serve
  <1>2. Here' = Here /\ Above' = Above /\ current_directory' = current_directory
    BY <1>1 DEF place, Here, Above
  <1>3. job'.op \in {"mv", "cp"} => {job'.source, job'.destination} \subseteq Elsewhere'
    BY <1>1 DEF CallInv, ChangeInv
  <1>4. CASE FS!Remove
    <2>1. /\ call.op = "delete" /\ call' = call /\ answer' = answer
      BY <1>4, RemoveCuts DEF CallInv
    <2>2. Here \in DOMAIN store' /\ Above \in DOMAIN store'
      BY <1>1, <1>4, RemoveKeepsPath DEF CallInv
    <2>3. /\ call.parent \in {Here, Above} /\ call.name # current_directory.name
          /\ step = "last" /\ job.op \in {"rm", "mv"}
      BY <2>1 DEF CallInv, ChangeInv
    <2>4. CallTyped'
      BY <1>1, <2>1, <2>2, <2>3 DEF CallInv, CallTyped, Busy
    <2>5. ChangeInv'
      BY <1>1, <1>2, <1>3, <2>1, <2>3 DEF ChangeInv
    <2>6. AnswerInv'
      BY <1>1, <2>3 DEF AnswerInv, ListsHere
    <2> QED
      BY <2>4, <2>5, <2>6 DEF CallInv
  <1>5. CASE ~FS!Remove
    <2>1. call' = FS!None /\ Busy
      BY <1>5 DEF Serve, FS!Read, FS!ReadDirectory, FS!CreateRefuse, FS!Create, FS!RemoveReturn,
                  FS!Return, FS!None, Busy
    <2>2. CallTyped' /\ ChangeInv'
      BY <1>3, <2>1, NoCall DEF FS!None, FS!Off
    <2>3. call.op = "read_directory" => FS!ReadDirectory /\ store' = store
      BY <1>5 DEF Serve, FS!Read, FS!ReadDirectory, FS!CreateRefuse, FS!Create, FS!RemoveReturn
    <2>4. call.op = "read" => FS!Read
      BY <1>5 DEF Serve, FS!Read, FS!ReadDirectory, FS!CreateRefuse, FS!Create, FS!RemoveReturn
    <2>5. call # FS!None
      BY <2>1 DEF Busy, FS!None
    <2>6. ListsHere' => answer' = HereListed'
      <3>1. SUFFICES ASSUME ListsHere'
                     PROVE  answer' = HereListed'
        OBVIOUS
      <3>2. call.op = "read_directory" /\ call.parent = Above
            /\ call.name = current_directory.name
        BY <1>1, <2>5, <3>1 DEF CallInv, AnswerInv, ListsHere
      <3>3. answer' = HereListed /\ store' = store
        BY <2>3, <3>2, ReadDirectoryHere
      <3> QED
        BY <1>2, <3>3 DEF HereListed, FS!Listing
    <2>7. step \in {"load", "probe"} => (answer'.code = 0 => answer'.data.file \in Payload)
      <3>1. step \in {"load", "probe"} => call.op = "read"
        BY <2>5 DEF CallInv, AnswerInv
      <3> QED
        BY <2>4, <3>1, ReadReturns DEF CallInv
    <2>8. step = "find" => (answer'.code = 0 =>
              \E d \in DOMAIN store' : answer'.data.dir = FS!Listing(d)')
      <3>1. SUFFICES ASSUME step = "find", answer'.code = 0
                     PROVE  \E d \in DOMAIN store' : answer'.data.dir = FS!Listing(d)'
        OBVIOUS
      <3>2. call.op = "read_directory"
        BY <2>5, <3>1 DEF CallInv, AnswerInv
      <3>3. store' = store /\ \E d \in DOMAIN store : answer'.data.dir = FS!Listing(d)
        BY <2>3, <3>1, <3>2, ReadDirectoryLists DEF CallInv
      <3> QED
        BY <3>3 DEF FS!Listing
    <2>9. AnswerInv'
      BY <1>1, <2>1, <2>6, <2>7, <2>8 DEF AnswerInv
    <2> QED
      BY <2>2, <2>9 DEF CallInv
  <1> QED
    BY <1>4, <1>5

\* A call the shell makes: what is left to show is that the step may make it.
LEMMA AskCall ==
    ASSUME FS!Invoke, call'.op \in {"read", "read_directory", "write", "delete"},
           step' \notin {"prompt", "scan"}, ~(step' = "last" /\ job'.op \in {"cd", "find"}),
           ChangeInv', ListsHere' => /\ call'.op = "read_directory" /\ call'.parent = Above'
                                     /\ call'.name = current_directory'.name,
           step' \in {"load", "probe"} => call'.op = "read",
           step' = "find" => call'.op = "read_directory"
    PROVE  CallInv'
  <1>1. call' \in FS!Call /\ call'.parent \in DOMAIN store'
    BY DEF FS!Invoke
  <1>2. CallTyped'
    BY <1>1 DEF CallTyped, FS!Off
  <1>3. AnswerInv'
    BY DEF AnswerInv
  <1> QED
    BY <1>2, <1>3 DEF CallInv

LEMMA CommandCall ==
    ASSUME ShellInv, Command
    PROVE  CallInv'
  <1> USE DEF ShellInv
  <1>1. CASE cd_up
    <2>1. /\ step = "prompt" /\ step' = step /\ job' = job /\ call' = FS!None
      BY <1>1 DEF cd_up, After, fsvars
    <2>2. job = NoJob
      BY <2>1, JobIs
    <2>3. CallTyped' /\ ChangeInv'
      BY <2>1, <2>2, NoCall DEF NoJob, FS!None, FS!Off
    <2> QED
      BY <2>1, <2>2, <2>3 DEF CallInv, AnswerInv, ListsHere
  <1>2. Here \in DOMAIN store /\ Above \in DOMAIN store /\ store[Here].label = current_directory.name
    BY WhereItIs
  <1>3. ASSUME UNCHANGED place
        PROVE  Here' = Here /\ Above' = Above /\ current_directory' = current_directory
    BY <1>3 DEF place, Here, Above
  <1>4. ASSUME NEW n \in Name, mkdir(n)
        PROVE  CallInv'
    <2>1. /\ call' = [op |-> "write", parent |-> Here, name |-> n, payload |-> FOLDER]
          /\ FS!Invoke /\ n # current_directory.name /\ step' = "last"
          /\ job' = [op |-> "mkdir", source |-> n, destination |-> n] /\ UNCHANGED place
      BY <1>4 DEF mkdir, Begin, Write, Ask
    <2>2. store' = store
      BY <2>1 DEF FS!Invoke
    <2>3. ChangeInv'
      BY <1>2, <1>3, <2>1, <2>2 DEF ChangeInv
    <2> QED
      BY <2>1, <2>3, AskCall DEF ListsHere
  <1>5. ASSUME NEW n \in Name, rm(n)
        PROVE  CallInv'
    <2>1. /\ call' = [op |-> "delete", parent |-> Here, name |-> n]
          /\ FS!Invoke /\ n # current_directory.name /\ step' = "last"
          /\ job' = [op |-> "rm", source |-> n, destination |-> n] /\ UNCHANGED place
      BY <1>5 DEF rm, Begin, Delete, Ask
    <2>2. ChangeInv'
      BY <1>3, <2>1 DEF ChangeInv
    <2> QED
      BY <2>1, <2>2, AskCall DEF ListsHere
  <1>6. ASSUME NEW n \in Name, cat(n)
        PROVE  CallInv'
    <2>1. /\ call'.op = "read" /\ FS!Invoke /\ step' = "last" /\ job'.op = "cat"
      BY <1>6 DEF cat, Begin, ReadFile, Ask
    <2>2. ChangeInv'
      BY <2>1 DEF ChangeInv
    <2> QED
      BY <2>1, <2>2, AskCall DEF ListsHere
  <1>7. ASSUME NEW n \in Name, ls(n) \/ cd(n)
        PROVE  CallInv'
    <2>1. /\ call' = [op |-> "read_directory", parent |-> Above,
                      name |-> current_directory.name]
          /\ FS!Invoke /\ UNCHANGED place
          /\ \/ step' = "last" /\ job'.op = "ls"
             \/ step' = "cd" /\ job'.op = "cd"
      <3>1. CASE ls(n)
        BY <3>1 DEF ls, Begin, ListCurrent, ReadDir, Ask
      <3>2. CASE cd(n)
        BY <3>2 DEF cd, Begin, ListCurrent, ReadDir, Ask
      <3> QED
        BY <1>7, <3>1, <3>2
    <2>2. ChangeInv'
      BY <2>1 DEF ChangeInv
    <2> QED
      BY <1>3, <2>1, <2>2, AskCall DEF ListsHere
  <1>8. ASSUME NEW n \in Name, find(n)
        PROVE  CallInv'
    <2>1. call'.op = "read_directory" /\ FS!Invoke /\ step' = "find" /\ job'.op = "find"
      BY <1>8 DEF find, Begin, ReadDir, Ask
    <2>2. ChangeInv'
      BY <2>1 DEF ChangeInv
    <2> QED
      BY <2>1, <2>2, AskCall DEF ListsHere
  <1>9. ASSUME NEW op \in {"mv", "cp"}, NEW n \in Name, NEW m \in Name, copy(op, n, m)
        PROVE  CallInv'
    <2>1. /\ call' = [op |-> "read_directory", parent |-> Above,
                      name |-> current_directory.name]
          /\ FS!Invoke /\ UNCHANGED place /\ step' = "list" /\ {n, m} \subseteq Elsewhere
          /\ job' = [op |-> op, source |-> n, destination |-> m]
      BY <1>9 DEF copy, Begin, ListCurrent, ReadDir, Ask
    <2>2. store' = store
      BY <2>1 DEF FS!Invoke
    <2>3. Elsewhere' = Elsewhere
      BY <1>3, <2>1, <2>2 DEF Elsewhere
    <2>4. ChangeInv'
      BY <2>1, <2>3 DEF ChangeInv
    <2> QED
      BY <1>3, <2>1, <2>4, AskCall DEF ListsHere
  <1> QED
    BY <1>1, <1>4, <1>5, <1>6, <1>7, <1>8, <1>9 DEF Command

LEMMA ContinueCall ==
    ASSUME ShellInv, Continue
    PROVE  CallInv'
  <1> USE DEF ShellInv
  <1>1. /\ Here \in DOMAIN store /\ Above \in DOMAIN store
        /\ store[Here].label = current_directory.name
    BY WhereItIs
  <1>2. CASE Enter \/ NotFound \/ WalkOver \/ EndOfJob
    <2>1. call' = FS!None /\ step' \in {"last", "prompt"}
          /\ job'.op \in {"cd", "find", "none"}
      <3>1. CASE Enter \/ NotFound
        <4>1. step = "cd" /\ call = FS!None /\ job' = job /\ step' = "last" /\ call' = call
          BY <3>1 DEF Enter, NotFound, After, fsvars
        <4> QED
          BY <4>1, JobIs
      <3>2. CASE WalkOver \/ EndOfJob
        BY <3>2 DEF WalkOver, EndOfJob, Looking, After, fsvars, NoJob
      <3> QED
        BY <1>2, <3>1, <3>2
    <2>2. CallTyped' /\ ChangeInv'
      BY <2>1, NoCall DEF FS!None, FS!Off
    <2> QED
      BY <2>1, <2>2 DEF CallInv, AnswerInv, ListsHere
  <1>3. CASE TableRead \/ Matched \/ Ascend
    <2>1. call' = FS!None /\ step' = "scan" /\ job'.op = "find"
      BY <1>3 DEF TableRead, Matched, Ascend, Looking, After, fsvars
    <2>2. CallTyped' /\ ChangeInv'
      BY <2>1, NoCall DEF FS!None, FS!Off
    <2> QED
      BY <2>1, <2>2 DEF CallInv, AnswerInv, ListsHere
  <1>4. CASE Descend
    <2>1. call'.op = "read_directory" /\ FS!Invoke /\ step' = "find" /\ job'.op = "find"
      BY <1>4 DEF Descend, Looking, ReadDir, Ask
    <2>2. ChangeInv'
      BY <2>1 DEF ChangeInv
    <2> QED
      BY <2>1, <2>2, AskCall DEF ListsHere
  <1>5. ASSUME Load \/ Probe \/ Save \/ DeleteSource
        PROVE  /\ job' = job /\ UNCHANGED place /\ FS!Invoke /\ store' = store
               /\ job.op \in {"mv", "cp"} /\ Elsewhere' = Elsewhere
               /\ Here' = Here /\ Above' = Above /\ current_directory' = current_directory
               /\ {job.source, job.destination} \subseteq Elsewhere
    <2>1. job' = job /\ UNCHANGED place /\ FS!Invoke /\ job.op \in {"mv", "cp"}
      BY <1>5 DEF Load, Probe, Save, DeleteSource, ReadFile, Write, Delete, Ask, Copying
    <2>2. store' = store
      BY <2>1 DEF FS!Invoke
    <2>3. current_directory' = current_directory /\ Here' = Here /\ Above' = Above
      BY <2>1 DEF place, Here, Above
    <2> QED
      BY <2>1, <2>2, <2>3 DEF Elsewhere, CallInv, ChangeInv
  <1>6. CASE Load \/ Probe
    <2>1. call'.op = "read" /\ FS!Invoke /\ step' \in {"load", "probe"}
      BY <1>6 DEF Load, Probe, ReadFile, Ask
    <2>2. ChangeInv'
      BY <1>5, <1>6, <2>1 DEF ChangeInv
    <2> QED
      BY <2>1, <2>2, AskCall DEF ListsHere
  <1>7. CASE Save
    <2>1. /\ call'.op = "write" /\ call'.parent = Above /\ call'.name = job.destination
          /\ FS!Invoke /\ step' \in {"save", "last"}
      BY <1>7 DEF Save, Write, Ask
    <2>2. job.destination # store[Above].label
      BY <1>5, <1>7 DEF Elsewhere
    <2>3. call'.name # store'[call'.parent].label
      BY <1>5, <1>7, <2>1, <2>2
    <2>4. ChangeInv'
      BY <1>5, <1>7, <2>1, <2>3 DEF ChangeInv
    <2> QED
      BY <1>5, <1>7, <2>1, <2>4, AskCall DEF ListsHere
  <1>8. CASE DeleteSource
    <2>1. /\ call'.op = "delete" /\ call'.parent = Above /\ call'.name = job.source
          /\ FS!Invoke /\ step' = "last" /\ step = "save"
      BY <1>8 DEF DeleteSource, Delete, Ask, Copying, After
    <2>2. job.source # current_directory.name /\ job.op = "mv"
      BY <1>5, <1>8, <2>1, JobIs DEF Elsewhere
    <2>3. ChangeInv'
      BY <1>5, <1>8, <2>1, <2>2 DEF ChangeInv
    <2> QED
      BY <1>5, <1>8, <2>1, <2>3, AskCall DEF ListsHere
  <1> QED
    BY <1>2, <1>3, <1>4, <1>6, <1>7, <1>8 DEF Continue

LEMMA StepCall ==
    ASSUME ShellInv, [Next]_vars
    PROVE  CallInv'
  <1>1. CASE UNCHANGED vars
    BY <1>1 DEF vars, fsvars, place, ShellInv, CallInv, CallTyped, ChangeInv, AnswerInv,
                ListsHere, HereListed, Busy, Here, Above, Elsewhere, FS!Listing
  <1> QED
    BY <1>1, FreshCall, InsertCall, ServeCall, CommandCall, ContinueCall DEF Next

LEMMA InitShell ==
    ASSUME Init
    PROVE  ShellInv
  <1>1. /\ store = [d \in {RootId} |-> FS!EmptyDir(RootLabel)] /\ call = FS!Off
        /\ current_directory = RootDirectory /\ directory_stack = <<>>
        /\ job = NoJob /\ step = "prompt" /\ filesize = 0 /\ buf = Garbage
        /\ walk = <<>>
    BY DEF Init, FS!Init
  <1>2. /\ DOMAIN store = {RootId} /\ store[RootId].label = RootLabel
        /\ DOMAIN store[RootId].nodes = {}
    BY <1>1 DEF FS!EmptyDir
  <1>3. StoreType(store)
    <2>1. [x \in {} |-> FS!None] \in [{} -> Node]
      OBVIOUS
    <2>2. [x \in {} |-> FS!None] \in NodeTable
      BY <2>1 DEF NodeTable
    <2>3. FS!EmptyDir(RootLabel) \in Directory
      BY <2>2 DEF FS!EmptyDir, Directory
    <2>4. store \in [{RootId} -> Directory]
      BY <1>1, <2>3
    <2> QED
      BY <1>2, <2>4, ShellAssumption DEF StoreType
  <1>4. \A d, n, x : ~Link(store, d, n, x)
    BY <1>2 DEF Link
  <1>5. Tree(store)
    BY <1>2, <1>3, <1>4 DEF Tree, Linked, Whole, Closed
  <1>6. PathInv
    <2>1. RootDirectory \in DirectoryState /\ RootDirectory.cluster_number = RootId
      BY ShellAssumption DEF RootDirectory, DirectoryState
    <2>2. PathLen = 1 /\ Path = <<RootDirectory>>
      BY <1>1, <2>1 DEF PathLen, Path
    <2> QED
      BY <1>1, <1>2, <2>1, <2>2, ShellAssumption DEF PathInv, PathId
  <1>7. CallInv
    BY <1>1 DEF CallInv, CallTyped, ChangeInv, AnswerInv, ListsHere, NoJob, Busy, FS!Off
  <1>8. JobInv
    <2>1. ok \in BOOLEAN /\ found \in BOOLEAN
      BY Zenon DEF Init
    <2>2. step \in Steps(job.op)
      BY <1>1, StepsAre DEF NoJob
    <2> QED
      BY <1>1, <2>1, <2>2 DEF JobInv
  <1> QED
    BY <1>5, <1>6, <1>7, <1>8 DEF ShellInv

-----------------------------------------------------------------------------
(* find.                                                                     *)

\* What has been listed stays listed while nothing that is pending is dropped.
LEMMA SweptStays ==
    ASSUME NEW V \in SUBSET DOMAIN store, Swept(V), store' = store, job' = job,
           Pending \subseteq Pending'
    PROVE  Swept(V)'
  <1>1. \A d : Holds(d)' <=> Holds(d)
    BY DEF Holds
  <1> QED
    BY <1>1 DEF Swept

LEMMA FindBegins ==
    ASSUME ShellInv, NEW n \in Name, find(n)
    PROVE  FindInv'
  <1> USE DEF ShellInv
  <1>1. SUFFICES ASSUME Here' = RootId
                 PROVE  FindInv'
    BY DEF FindInv
  <1>2. /\ call' = [op |-> "read_directory", parent |-> RootId,
                    name |-> current_directory.name]
        /\ walk' = <<Activation(RootId, NoEntries)>> /\ step' = "find" /\ found' = FALSE
        /\ job' = [op |-> "find", source |-> n, destination |-> n]
        /\ store' = store /\ current_directory' = current_directory
    BY DEF find, Begin, ReadDir, Ask, FS!Invoke, place
  <1>3. PICK a : a = Activation(RootId, NoEntries)
    OBVIOUS
  <1>4. a.next = RootId /\ DOMAIN a.entries = {} /\ a \in Act
    BY <1>3, NoEntriesTyped, ShellAssumption DEF Activation, Act
  <1>5. walk' = <<a>> /\ Len(walk') = 1 /\ DOMAIN walk' = {1} /\ walk'[1] = a /\ Top' = a
    BY <1>2, <1>3 DEF Top
  <1>6. RootId \in DOMAIN store
    BY DEF Tree, StoreType
  <1>7. current_directory.name = RootLabel
    <2>1. Here = RootId
      BY <1>1, <1>2 DEF Here
    <2> QED
      BY <2>1, WhereItIs DEF RootDirectory
  <1>8. FindEntries'
    BY <1>2, <1>4, <1>5, <1>6 DEF FindEntries
  <1>9. ~Ahead'
    BY <1>4, <1>5 DEF Ahead
  <1>10. FindNoFalse'
    BY <1>2, <1>9 DEF FindNoFalse
  <1>11. RootId \in Pending'
    BY <1>2, <1>4, <1>5, <1>6 DEF Pending
  <1>12. PICK V : V = {}
    OBVIOUS
  <1>13. Swept(V)'
    BY <1>11, <1>12 DEF Swept
  <1>14. FindNoMiss'
    BY <1>12, <1>13 DEF FindNoMiss
  <1>15. ListsTop'
    BY <1>2, <1>4, <1>5, <1>7 DEF ListsTop
  <1> QED
    BY <1>2, <1>4, <1>5, <1>8, <1>10, <1>14, <1>15 DEF FindInv

\* The call of find that is served lists the directory of the innermost activation.
LEMMA FindServed ==
    ASSUME ShellInv, FindInv, Serve
    PROVE  FindInv'
  <1> USE DEF ShellInv
  <1>1. /\ job' = job /\ step' = step /\ walk' = walk /\ found' = found /\ Here' = Here
    BY DEF Serve, locals, finding, place, Here
  <1>2. SUFFICES ASSUME job.op = "find", Here = RootId
                 PROVE  FindInv'
    BY <1>1 DEF FindInv
  <1>3. Busy
    BY DEF Serve, FS!Read, FS!ReadDirectory, FS!CreateRefuse, FS!Create, FS!Remove,
           FS!RemoveReturn, Busy
  <1>4. step = "find"
    <2>1. step \in {"find", "scan", "last"}
      BY <1>2, StepsAre DEF JobInv
    <2> QED
      BY <1>2, <1>3, <2>1 DEF CallInv, CallTyped
  <1>5. call.op = "read_directory"
    BY <1>3, <1>4 DEF CallInv, AnswerInv, Busy, FS!None
  <1>6. FS!ReadDirectory /\ store' = store
    BY <1>5 DEF Serve, FS!Read, FS!ReadDirectory, FS!CreateRefuse, FS!Create, FS!Remove,
                FS!RemoveReturn
  <1>7. /\ walk # <<>> /\ ListsTop /\ DOMAIN Top.entries = {} /\ Top' = Top
        /\ FindEntries /\ FindNoFalse /\ FindNoMiss
    BY <1>1, <1>2, <1>4 DEF FindInv, JobInv, Top
  <1>8. \A d : Holds(d)' <=> Holds(d)
    BY <1>1, <1>6 DEF Holds
  <1>9. (Ahead' <=> Ahead) /\ (SomeHolds' <=> SomeHolds) /\ Pending' = Pending
    BY <1>1, <1>6, <1>7, <1>8 DEF Ahead, SomeHolds, Pending
  <1>10. FindEntries'
    BY <1>1, <1>6, <1>7 DEF FindEntries, FS!Listing
  <1>11. FindNoFalse' /\ FindNoMiss'
    <2>1. FindNoFalse'
      BY <1>1, <1>7, <1>9 DEF FindNoFalse
    <2>2. ASSUME NEW V \in SUBSET DOMAIN store, Swept(V)
          PROVE  Swept(V)'
      BY <1>1, <1>6, <1>9, <2>2, SweptStays
    <2>3. FindNoMiss'
      BY <1>1, <1>6, <1>7, <1>9, <2>2 DEF FindNoMiss
    <2> QED
      BY <2>1, <2>3
  <1>12. ListsTop'
    <2>1. PICK x : x = Top.next
      OBVIOUS
    <2>2. CASE x = RootId /\ call.parent = RootId /\ call.name = RootLabel
      <3>1. call.name = store[call.parent].label
        BY <2>2 DEF Tree, Linked
      <3> QED
        BY <1>6, <1>7, <2>1, <2>2, <3>1 DEF FS!ReadDirectory, FS!Return, ListsTop, FS!Listing
    <2>3. CASE Link(store, call.parent, call.name, x)
      <3>1. call.name # store[call.parent].label
        BY <2>3 DEF Link, Tree, Linked
      <3>2. FS!Known /\ FS!Nodes[call.name] = FS!Dir(x)
        BY <2>3 DEF Link, FS!Known, FS!Nodes
      <3>3. FS!Nodes[call.name].kind = "dir" /\ FS!Nodes[call.name].id = x
        BY <3>2 DEF FS!Dir
      <3>4. call' = FS!None /\ answer' = [code |-> 0, data |-> [dir |-> FS!Listing(x)]]
        BY <1>6, <3>1, <3>2, <3>3 DEF FS!ReadDirectory, FS!Return
      <3> QED
        BY <1>6, <1>7, <2>1, <3>4 DEF ListsTop, FS!Listing
    <2> QED
      BY <1>5, <1>7, <2>1, <2>2, <2>3 DEF ListsTop, FS!None
  <1> QED
    BY <1>1, <1>2, <1>4, <1>7, <1>10, <1>11, <1>12 DEF FindInv

LEMMA FindReads ==
    ASSUME ShellInv, FindInv, TableRead
    PROVE  FindInv'
  <1> USE DEF ShellInv
  <1>1. /\ step = "find" /\ step' = "scan" /\ job' = job /\ job.op = "find"
        /\ call = FS!None /\ store' = store /\ Here' = Here
    BY DEF TableRead, Looking, After, fsvars, place, Here
  <1>2. SUFFICES ASSUME Here = RootId
                 PROVE  FindInv'
    BY <1>1 DEF FindInv
  <1>3. /\ walk # <<>> /\ ListsTop /\ DOMAIN Top.entries = {}
        /\ FindEntries /\ FindNoFalse /\ FindNoMiss
    BY <1>1, <1>2 DEF FindInv, JobInv
  <1>4. PICK l, T, w, d : l = Len(walk) /\ T = Telling /\ w = walk' /\ d = Top.next
    OBVIOUS
  <1>5. /\ answer.code = 0 /\ Listing = FS!Listing(d)
    BY <1>1, <1>3, <1>4 DEF ListsTop, FS!None, Listing
  <1>6. /\ l \in DOMAIN walk /\ l \in Nat /\ DOMAIN walk = 1 .. l /\ Top = walk[l]
        /\ walk \in Seq(Act) /\ walk[l] \in Act /\ d \in DOMAIN store /\ d = walk[l].next
    BY <1>3, <1>4, WalkIs DEF FindEntries
  <1>7. /\ T \in Listings
        /\ DOMAIN T = {x \in DOMAIN store[d].nodes :
                          x = job.source \/ store[d].nodes[x].kind = "dir"}
        /\ \A e \in DOMAIN T : T[e] = FS!Listing(d)[e]
    BY <1>4, <1>5, <1>6, TellingIs
  <1>8. found' = found /\ w = [walk EXCEPT ![l] = [walk[l] EXCEPT !.entries = T]]
    BY <1>4, <1>5 DEF TableRead
  <1>9. /\ DOMAIN w = DOMAIN walk /\ w[l].entries = T /\ w[l].next = d
        /\ \A k \in DOMAIN walk \ {l} : w[k] = walk[k]
    <2>1. PICK v : v = [walk[l] EXCEPT !.entries = T]
      OBVIOUS
    <2>2. v.entries = T /\ v.next = d
      BY <1>6, <1>7, <2>1 DEF Act
    <2>3. w = [walk EXCEPT ![l] = v]
      BY <1>8, <2>1
    <2> QED
      BY <1>6, <2>2, <2>3
  <1>10. FindEntries'
    <2> SUFFICES ASSUME NEW k \in DOMAIN w
                 PROVE  /\ w[k].next \in DOMAIN store
                        /\ \A e \in DOMAIN w[k].entries :
                              /\ e \in DOMAIN store[w[k].next].nodes
                              /\ w[k].entries[e] = FS!Listing(w[k].next)[e]
      BY <1>1, <1>4 DEF FindEntries, FS!Listing
    <2>1. CASE k = l
      BY <1>6, <1>7, <1>9, <2>1
    <2>2. CASE k # l
      BY <1>3, <1>9, <2>2 DEF FindEntries
    <2> QED
      BY <2>1, <2>2
  <1>11. \A x : Holds(x)' <=> Holds(x)
    BY <1>1 DEF Holds
  <1>12. Ahead => Ahead'
    <2>1. ASSUME NEW k \in DOMAIN walk, job.source \in DOMAIN walk[k].entries
          PROVE  k # l
      BY <1>3, <1>6, <2>1
    <2> QED
      BY <1>1, <1>4, <1>9, <2>1 DEF Ahead
  <1>13. Holds(d) => Ahead'
    BY <1>1, <1>4, <1>6, <1>7, <1>9 DEF Ahead, Holds
  <1>14. Ahead' => Ahead \/ Holds(d)
    BY <1>1, <1>4, <1>6, <1>7, <1>9 DEF Ahead, Holds
  <1>15. FindNoFalse'
    BY <1>1, <1>3, <1>6, <1>8, <1>11, <1>14 DEF FindNoFalse, SomeHolds
  <1>16. ASSUME NEW V \in SUBSET DOMAIN store, Swept(V), ~Holds(d)
         PROVE  \E W \in SUBSET DOMAIN store : Swept(W)'
    <2>1. PICK W : W = V \cup {d}
      OBVIOUS
    <2>2. ASSUME NEW x \in Pending
          PROVE  x \in W \cup Pending'
      <3>1. CASE \E k \in DOMAIN walk : \E e \in DOMAIN walk[k].entries \ {job.source} :
                    walk[k].entries[e] = FS!Dir(x)
        <4>1. PICK k \in DOMAIN walk : \E e \in DOMAIN walk[k].entries \ {job.source} :
                 walk[k].entries[e] = FS!Dir(x)
          BY <3>1
        <4>2. k # l
          BY <1>3, <1>6, <4>1
        <4>3. k \in DOMAIN walk' /\ walk'[k] = walk[k]
          BY <1>4, <1>9, <4>2
        <4>4. x \in DOMAIN store'
          BY <1>1, <2>2 DEF Pending
        <4> QED
          BY <1>1, <4>1, <4>3, <4>4 DEF Pending
      <3>2. CASE x = Top.next
        BY <1>4, <2>1, <3>2
      <3> QED
        BY <2>2, <3>1, <3>2 DEF Pending
    <2>3. ASSUME NEW x \in DirId, NEW n \in Name, Link(store, d, n, x)
          PROVE  x \in Pending'
      <3>1. n \in DOMAIN store[d].nodes /\ n # job.source /\ x \in DOMAIN store
        <4>1. n \in DOMAIN store[d].nodes /\ d \in DirId
          BY <2>3, <1>6 DEF Link, Tree, StoreType
        <4> QED
          BY <1>16, <2>3, <4>1 DEF Holds, Tree, Linked
      <3>2. store[d].nodes[n].kind = "dir" /\ store[d].nodes[n] = FS!Dir(x)
        BY <2>3 DEF Link, FS!Dir
      <3>3. n \in DOMAIN T /\ T[n] = FS!Dir(x)
        BY <1>6, <1>7, <3>1, <3>2, ListingIs
      <3> QED
        BY <1>1, <1>4, <1>6, <1>9, <3>1, <3>3 DEF Pending
    <2>4. \A y \in W : ~Holds(y)'
      BY <1>11, <1>16, <2>1 DEF Swept
    <2>5. RootId \in W \cup Pending'
      BY <1>16, <2>1, <2>2 DEF Swept
    <2>6. \A y \in W, x \in DirId, n \in Name : Link(store, y, n, x) => x \in W \cup Pending'
      <3> SUFFICES ASSUME NEW y \in W, NEW x \in DirId, NEW n \in Name, Link(store, y, n, x)
                   PROVE  x \in W \cup Pending'
        OBVIOUS
      <3>1. CASE y = d
        BY <2>3, <3>1
      <3>2. CASE y \in V
        BY <1>16, <2>1, <2>2, <3>2 DEF Swept
      <3> QED
        BY <2>1, <3>1, <3>2
    <2>7. Swept(W)'
      BY <1>1, <2>4, <2>5, <2>6 DEF Swept
    <2> QED
      BY <1>6, <2>1, <2>7
  <1>17. FindNoMiss'
    <2>1. found \/ Ahead \/ Holds(d) => found' \/ Ahead'
      BY <1>8, <1>12, <1>13
    <2>2. ASSUME ~found, ~Ahead, ~Holds(d)
          PROVE  \E W \in SUBSET DOMAIN store' : Swept(W)'
      BY <1>1, <1>3, <1>16, <2>2 DEF FindNoMiss
    <2> QED
      BY <2>1, <2>2 DEF FindNoMiss
  <1> QED
    BY <1>1, <1>10, <1>15, <1>17 DEF FindInv

LEMMA FindReturns ==
    ASSUME ShellInv, FindInv, Matched \/ Ascend
    PROVE  FindInv'
  <1> USE DEF ShellInv
  <1>1. /\ step = "scan" /\ step' = "scan" /\ job' = job /\ job.op = "find" /\ walk # <<>>
        /\ walk' = Outer /\ store' = store /\ Here' = Here
    BY DEF Matched, Ascend, Looking, After, fsvars, place, Here
  <1>2. SUFFICES ASSUME Here = RootId
                 PROVE  FindInv'
    BY <1>1 DEF FindInv
  <1>3. FindEntries /\ FindNoFalse /\ FindNoMiss
    BY <1>1, <1>2 DEF FindInv
  <1>4. PICK l, w : l = Len(walk) /\ w = walk'
    OBVIOUS
  <1>5. /\ l \in Nat /\ DOMAIN walk = 1 .. l /\ l \in DOMAIN walk /\ Top = walk[l]
        /\ DOMAIN w = 1 .. l - 1 /\ \A k \in DOMAIN w : k \in DOMAIN walk /\ w[k] = walk[k]
    BY <1>1, <1>4, WalkIs
  <1>6. FindEntries'
    <2>1. store' = store /\ walk' = w
      BY <1>1, <1>4
    <2> SUFFICES ASSUME NEW k \in DOMAIN w
                 PROVE  /\ w[k].next \in DOMAIN store
                        /\ \A e \in DOMAIN w[k].entries :
                              /\ e \in DOMAIN store[w[k].next].nodes
                              /\ w[k].entries[e] = FS!Listing(w[k].next)[e]
      BY <2>1 DEF FindEntries, FS!Listing
    <2> QED
      BY <1>3, <1>5 DEF FindEntries
  <1>7. SomeHolds' <=> SomeHolds
    BY <1>1 DEF SomeHolds, Holds
  <1>8. Ahead' => Ahead
    BY <1>1, <1>4, <1>5 DEF Ahead
  <1>9. CASE Matched
    <2>1. job.source \in DOMAIN Top.entries /\ found' = TRUE
      BY <1>9 DEF Matched
    <2>2. Ahead
      BY <1>5, <2>1 DEF Ahead
    <2>3. FindNoFalse' /\ FindNoMiss'
      BY <1>3, <1>7, <2>1, <2>2 DEF FindNoFalse, FindNoMiss
    <2> QED
      BY <1>1, <1>6, <2>3 DEF FindInv
  <1>10. CASE Ascend
    <2>1. Top.entries = NoEntries /\ found' = found /\ DOMAIN Top.entries = {}
      BY <1>10, NoEntriesTyped DEF Ascend
    <2>2. Ahead => Ahead'
      BY <1>1, <1>4, <1>5, <2>1 DEF Ahead
    <2>3. Pending \subseteq Pending'
      <3> SUFFICES ASSUME NEW x \in Pending
                   PROVE  x \in Pending'
        OBVIOUS
      <3>1. PICK k \in DOMAIN walk : \E e \in DOMAIN walk[k].entries \ {job.source} :
                walk[k].entries[e] = FS!Dir(x)
        BY <1>1 DEF Pending
      <3>2. k \in DOMAIN w /\ w[k] = walk[k]
        BY <1>5, <2>1, <3>1
      <3> QED
        BY <1>1, <1>4, <3>1, <3>2 DEF Pending
    <2>4. FindNoFalse'
      BY <1>3, <1>7, <1>8, <2>1 DEF FindNoFalse
    <2>5. ASSUME NEW V \in SUBSET DOMAIN store, Swept(V)
          PROVE  Swept(V)'
      BY <1>1, <2>3, <2>5, SweptStays
    <2>6. FindNoMiss'
      BY <1>1, <1>3, <2>1, <2>2, <2>5 DEF FindNoMiss
    <2> QED
      BY <1>1, <1>6, <2>4, <2>6 DEF FindInv
  <1> QED
    BY <1>9, <1>10

LEMMA FindDescends ==
    ASSUME ShellInv, FindInv, Descend
    PROVE  FindInv'
  <1> USE DEF ShellInv
  <1>1. /\ step = "scan" /\ step' = "find" /\ job' = job /\ job.op = "find" /\ walk # <<>>
        /\ store' = store /\ found' = found /\ Here' = Here
    BY DEF Descend, Looking, After, ReadDir, Ask, FS!Invoke, place, Here
  <1>2. SUFFICES ASSUME Here = RootId
                 PROVE  FindInv'
    BY <1>1 DEF FindInv
  <1>3. FindEntries /\ FindNoFalse /\ FindNoMiss
    BY <1>1, <1>2 DEF FindInv
  <1>4. PICK e \in DOMAIN Top.entries \ {job.source} :
           /\ call' = [op |-> "read_directory", parent |-> Top.next, name |-> e]
           /\ walk' = Append(Append(Outer, [Top EXCEPT !.entries =
                              [x \in DOMAIN Top.entries \ {e} |-> Top.entries[x]]]),
                          Activation(Top.entries[e].id, NoEntries))
    BY DEF Descend, ReadDir, Ask
  <1>5. PICK w, l, T, a, b, d, y :
            /\ w = walk' /\ l = Len(walk) /\ d = Top.next /\ y = Top.entries[e].id
            /\ T = [x \in DOMAIN Top.entries \ {e} |-> Top.entries[x]]
            /\ a = [Top EXCEPT !.entries = T]
            /\ b = Activation(y, NoEntries)
    OBVIOUS
  <1>6. /\ l \in DOMAIN walk /\ Top = walk[l] /\ Top \in Act
        /\ Outer \in Seq(Act) /\ Len(Outer) = l - 1 /\ l \in Nat /\ DOMAIN walk = 1 .. l
        /\ \A k \in 1 .. l - 1 : Outer[k] = walk[k]
    BY <1>1, <1>5, WalkIs
  <1>7. y \in DirId /\ Top.entries[e] = FS!Dir(y) /\ Top.entries[e].kind = "dir"
    BY <1>4, <1>5, <1>6, EntryIs
  <1>8. d \in DOMAIN store /\ Link(store, d, e, y)
    <2>1. /\ d \in DOMAIN store /\ e \in DOMAIN store[d].nodes
          /\ Top.entries[e] = FS!Listing(d)[e]
      BY <1>3, <1>4, <1>5, <1>6 DEF FindEntries
    <2>2. FS!Listing(d)[e].kind = "dir" /\ FS!Listing(d)[e].id = y
      BY <1>5, <1>7, <2>1
    <2>3. Link(store, d, e, FS!Listing(d)[e].id)
      BY <2>1, <2>2, ListingIs
    <2> QED
      BY <2>1, <2>2, <2>3
  <1>9. y \in DOMAIN store
    <2>1. d \in DirId /\ e \in Name
      BY <1>8, EntryTyped DEF Tree, Link
    <2> QED
      BY <1>7, <1>8, <2>1 DEF Tree, Linked
  <1>10. /\ a.entries = T /\ a.next = d /\ b.next = y /\ DOMAIN b.entries = {}
         /\ DOMAIN T = DOMAIN Top.entries \ {e}
         /\ \A x \in DOMAIN T : T[x] = Top.entries[x]
    BY <1>5, <1>6, NoEntriesTyped DEF Act, Activation
  <1>11. /\ w = Append(Append(Outer, a), b) /\ DOMAIN w = 1 .. l + 1
         /\ \A k \in 1 .. l - 1 : w[k] = walk[k]
         /\ w[l] = a /\ w[l + 1] = b /\ Len(w) = l + 1
    <2>1. w = Append(Append(Outer, a), b)
      BY <1>4, <1>5
    <2> QED
      BY <1>6, <2>1
  <1>12. Top' = b
    BY <1>5, <1>11 DEF Top
  <1>13. FindEntries'
    <2> SUFFICES ASSUME NEW k \in DOMAIN w
                 PROVE  /\ w[k].next \in DOMAIN store
                        /\ \A x \in DOMAIN w[k].entries :
                              /\ x \in DOMAIN store[w[k].next].nodes
                              /\ w[k].entries[x] = FS!Listing(w[k].next)[x]
      BY <1>1, <1>5 DEF FindEntries, FS!Listing
    <2>1. CASE k < l
      BY <1>3, <1>6, <1>11, <2>1 DEF FindEntries
    <2>2. CASE k = l
      <3>1. /\ walk[l].next = d /\ w[k].next = d /\ w[k].entries = T
            /\ walk[l].entries = Top.entries
        BY <1>5, <1>6, <1>10, <1>11, <2>2
      <3>2. d \in DOMAIN store /\ \A x \in DOMAIN Top.entries :
                /\ x \in DOMAIN store[d].nodes /\ Top.entries[x] = FS!Listing(d)[x]
        BY <1>3, <1>6, <3>1 DEF FindEntries
      <3> QED
        BY <1>10, <3>1, <3>2
    <2>3. CASE k = l + 1
      BY <1>9, <1>10, <1>11, <2>3
    <2> QED
      BY <1>6, <1>11, <2>1, <2>2, <2>3
  <1>14. SomeHolds' <=> SomeHolds
    BY <1>1 DEF SomeHolds, Holds
  <1>15. Ahead' <=> Ahead
    <2>1. ASSUME NEW k \in DOMAIN walk, job.source \in DOMAIN walk[k].entries
          PROVE  k \in DOMAIN w /\ job.source \in DOMAIN w[k].entries
      <3>1. CASE k = l
        BY <1>4, <1>6, <1>10, <1>11, <2>1, <3>1
      <3>2. CASE k # l
        BY <1>6, <1>11, <2>1, <3>2
      <3> QED
        BY <3>1, <3>2
    <2>2. ASSUME NEW k \in DOMAIN w, job.source \in DOMAIN w[k].entries
          PROVE  k \in DOMAIN walk /\ job.source \in DOMAIN walk[k].entries
      <3>1. CASE k < l
        BY <1>6, <1>11, <2>2, <3>1
      <3>2. CASE k = l
        BY <1>6, <1>10, <1>11, <2>2, <3>2
      <3>3. CASE k = l + 1
        BY <1>10, <1>11, <2>2, <3>3
      <3> QED
        BY <1>6, <1>11, <3>1, <3>2, <3>3
    <2> QED
      BY <1>1, <1>5, <2>1, <2>2 DEF Ahead
  <1>16. Pending \subseteq Pending'
    <2> SUFFICES ASSUME NEW x \in Pending
                 PROVE  x \in Pending'
      OBVIOUS
    <2>1. PICK k \in DOMAIN walk, m \in Name :
             m \in DOMAIN walk[k].entries \ {job.source} /\ walk[k].entries[m] = FS!Dir(x)
      BY <1>1, EntryIs DEF Pending
    <2>2. x \in DOMAIN store'
      BY <1>1 DEF Pending
    <2>3. CASE k = l /\ m = e
      <3>1. x = y
        BY <1>6, <1>7, <2>1, <2>3 DEF FS!Dir
      <3> QED
        BY <1>1, <1>10, <1>12, <2>2, <3>1 DEF Pending
    <2>4. CASE k = l /\ m # e
      <3>1. l \in DOMAIN w /\ m \in DOMAIN w[l].entries \ {job.source}
            /\ w[l].entries[m] = FS!Dir(x)
        BY <1>6, <1>10, <1>11, <2>1, <2>4
      <3> QED
        BY <1>1, <1>5, <2>2, <3>1 DEF Pending
    <2>5. CASE k # l
      <3>1. k \in DOMAIN w /\ w[k] = walk[k]
        BY <1>6, <1>11, <2>1, <2>5
      <3> QED
        BY <1>1, <1>5, <2>1, <2>2, <3>1 DEF Pending
    <2> QED
      BY <2>3, <2>4, <2>5
  <1>17. FindNoFalse'
    BY <1>1, <1>3, <1>14, <1>15 DEF FindNoFalse
  <1>18. FindNoMiss'
    <2>1. ASSUME NEW V \in SUBSET DOMAIN store, Swept(V)
          PROVE  Swept(V)'
      BY <1>1, <1>16, <2>1, SweptStays
    <2> QED
      BY <1>1, <1>3, <1>15, <2>1 DEF FindNoMiss
  <1>19. ListsTop'
    BY <1>1, <1>4, <1>5, <1>8, <1>10, <1>12 DEF ListsTop
  <1> QED
    BY <1>1, <1>10, <1>12, <1>13, <1>17, <1>18, <1>19 DEF FindInv

\* A step that leaves the walk, what was found and the store alone.
LEMMA FindStays ==
    ASSUME FindInv, UNCHANGED <<store, job, walk, found, place>>, step \notin {"find"},
           step' \notin {"find"}, step' = "last" => walk = <<>>
    PROVE  FindInv'
  <1>1. Here' = Here
    BY DEF place, Here
  <1>2. SUFFICES ASSUME job.op = "find", Here = RootId
                 PROVE  FindInv'
    BY <1>1 DEF FindInv
  <1>3. FindEntries /\ FindNoFalse /\ FindNoMiss
    BY <1>2 DEF FindInv
  <1>4. FindEntries'
    <2>1. \A d : FS!Listing(d)' = FS!Listing(d)
      BY DEF FS!Listing
    <2> QED
      BY <1>3, <2>1 DEF FindEntries
  <1>5. (Ahead' <=> Ahead) /\ (SomeHolds' <=> SomeHolds) /\ Pending' = Pending
    BY DEF Ahead, SomeHolds, Holds, Pending
  <1>6. ASSUME NEW V \in SUBSET DOMAIN store, Swept(V)
        PROVE  Swept(V)'
    BY <1>5, <1>6, SweptStays
  <1>7. FindNoFalse'
    BY <1>3, <1>5 DEF FindNoFalse
  <1>8. FindNoMiss'
    BY <1>3, <1>5, <1>6 DEF FindNoMiss
  <1> QED
    BY <1>4, <1>7, <1>8 DEF FindInv

LEMMA StepFind ==
    ASSUME ShellInv, FindInv, [Next]_vars
    PROVE  FindInv'
  <1> USE DEF ShellInv
  <1>1. CASE job'.op # "find"
    BY <1>1 DEF FindInv
  <1>2. CASE PowerOn \/ Crash \/ cd_up \/ EndOfJob \/ Insert
    <2>1. CASE PowerOn \/ Crash \/ EndOfJob
      BY <1>1, <2>1 DEF PowerOn, Crash, FreshShell, EndOfJob, NoJob
    <2>2. CASE cd_up
      BY <1>1, <2>2, JobIs DEF cd_up, After, NoJob
    <2>3. CASE Insert
      BY <1>1, <2>3, JobIs DEF Insert, CallInv, CallTyped, NoJob
    <2> QED
      BY <1>2, <2>1, <2>2, <2>3
  <1>3. ASSUME NEW n \in Name, mkdir(n) \/ rm(n) \/ cat(n) \/ ls(n) \/ cd(n)
        PROVE  FindInv'
    BY <1>1, <1>3 DEF mkdir, rm, cat, ls, cd, Begin
  <1>4. ASSUME NEW op \in {"mv", "cp"}, NEW n \in Name, NEW m \in Name, copy(op, n, m)
        PROVE  FindInv'
    BY <1>1, <1>4 DEF copy, Begin
  <1>5. CASE Command
    BY <1>2, <1>3, <1>4, <1>5, FindBegins DEF Command
  <1>6. CASE Enter \/ NotFound
    <2>1. step = "cd" /\ job' = job
      BY <1>6 DEF Enter, NotFound, After
    <2> QED
      BY <1>1, <2>1, JobIs
  <1>7. CASE Load \/ Probe \/ Save \/ DeleteSource
    BY <1>1, <1>7 DEF Load, Probe, Save, DeleteSource, Copying
  <1>8. CASE WalkOver
    <2>1. /\ UNCHANGED <<store, job, walk, found, place>> /\ step = "scan" /\ step' = "last"
          /\ walk = <<>>
      BY <1>8 DEF WalkOver, Looking, After, fsvars, locals, finding
    <2> QED
      BY <2>1, FindStays
  <1>9. CASE UNCHANGED vars
    <2>1. UNCHANGED <<store, call, answer, job, step, walk, found, place>>
      BY <1>9 DEF vars, fsvars, locals, finding
    <2>2. Here' = Here /\ Top' = Top
      BY <2>1 DEF place, Here, Top
    <2>3. ListsTop' <=> ListsTop
      BY <2>1, <2>2 DEF ListsTop, FS!Listing
    <2>4. (Ahead' <=> Ahead) /\ (SomeHolds' <=> SomeHolds) /\ Pending' = Pending
      BY <2>1, <2>2 DEF Ahead, SomeHolds, Holds, Pending
    <2>5. \A V \in SUBSET DOMAIN store : Swept(V) => Swept(V)'
      BY <2>1, <2>4, SweptStays
    <2>6. FindEntries => FindEntries'
      BY <2>1 DEF FindEntries, FS!Listing
    <2>7. FindNoFalse => FindNoFalse'
      BY <2>1, <2>4 DEF FindNoFalse
    <2>8. FindNoMiss => FindNoMiss'
      BY <2>1, <2>4, <2>5 DEF FindNoMiss
    <2> QED
      BY <2>1, <2>2, <2>3, <2>6, <2>7, <2>8 DEF FindInv
  <1> QED
    BY <1>2, <1>5, <1>6, <1>7, <1>8, <1>9, FindServed, FindReads, FindReturns, FindDescends
    DEF Next, Continue

-----------------------------------------------------------------------------
(* mv.                                                                       *)

\* In the root directory the calls of mv go to the root directory.
LEMMA InRoot ==
    ASSUME ShellInv, Here = RootId
    PROVE  Above = RootId /\ RootId \in DOMAIN store /\ current_directory.name = RootLabel
  <1>1. PathLen = 1
    BY WhereItIs DEF ShellInv
  <1> QED
    BY <1>1, WhereItIs DEF ShellInv, RootDirectory, Above, Tree, StoreType

LEMMA MvServed ==
    ASSUME ShellInv, MvInv, Serve
    PROVE  MvInv'
  <1> USE DEF ShellInv
  <1>1. /\ job' = job /\ step' = step /\ Here' = Here /\ filesize' = filesize
        /\ buf' = buf /\ ok' = ok
    BY DEF Serve, locals, copying, place, Here
  <1>2. SUFFICES ASSUME job.op = "mv", Here = RootId
                 PROVE  MvInv'
    BY <1>1 DEF MvInv
  <1>3. MvLoad /\ MvProbe /\ MvSave /\ MvDelete
    BY <1>2 DEF MvInv
  <1>4. RootId \in DOMAIN store
    BY <1>2, InRoot
  <1>5. ASSUME FS!Read \/ FS!ReadDirectory \/ FS!CreateRefuse \/ FS!RemoveReturn
        PROVE  store' = store /\ call' = FS!None
    BY <1>5 DEF FS!Read, FS!ReadDirectory, FS!CreateRefuse, FS!RemoveReturn, FS!Return
  <1>6. FS!None.op = "none" /\ Busy /\ call # FS!None
    BY DEF FS!None, Busy, Serve, FS!Read, FS!ReadDirectory, FS!CreateRefuse, FS!Create,
           FS!Remove, FS!RemoveReturn
  <1>7. CASE step \in {"load", "probe"}
    <2>1. call.op = "read"
      BY <1>6, <1>7 DEF CallInv, AnswerInv
    <2>2. FS!Read
      BY <2>1 DEF Serve, FS!ReadDirectory, FS!CreateRefuse, FS!Create, FS!Remove,
                  FS!RemoveReturn
    <2>3. store' = store /\ call' = FS!None
      BY <1>5, <2>2
    <2>4. answer'.code = 0 =>
             /\ call.name \in DOMAIN store[call.parent].nodes
             /\ store[call.parent].nodes[call.name] = FS!File(answer'.data.file)
      BY <2>2, ReadReturns DEF CallInv
    <2>5. MvLoad'
      BY <1>1, <1>3, <1>6, <2>1, <2>3, <2>4 DEF MvLoad, IsFile, RootNodes
    <2>6. MvProbe'
      BY <1>1, <1>3, <1>6, <2>1, <2>3, <2>4 DEF MvProbe, IsFile, RootNodes
    <2>7. MvSave' /\ MvDelete'
      BY <1>1, <1>7 DEF MvSave, MvDelete
    <2> QED
      BY <2>5, <2>6, <2>7 DEF MvInv
  <1>8. CASE step = "save"
    <2>1. MvLoad' /\ MvProbe' /\ MvDelete'
      BY <1>1, <1>8 DEF MvLoad, MvProbe, MvDelete
    <2>2. SUFFICES ASSUME ok
                   PROVE  MvSave'
      BY <1>1, <2>1 DEF MvInv, MvSave
    <2>3. call.op = "write"
      BY <1>3, <1>6, <1>8, <2>2 DEF MvSave
    <2>4. PICK p \in Payload :
             /\ IsFile(job.source, p)
             /\ call.parent = RootId /\ call.name = job.destination
             /\ job.destination \notin DOMAIN RootNodes => call.payload = p
      BY <1>3, <1>8, <2>2, <2>3 DEF MvSave
    <2>5. CASE FS!CreateRefuse
      <3>1. answer'.code # 0
        BY <2>5 DEF FS!CreateRefuse, FS!Return
      <3>2. IsFile(job.source, p)'
        BY <1>1, <1>5, <2>4, <2>5 DEF IsFile, RootNodes
      <3> QED
        BY <1>1, <1>5, <1>6, <2>5, <3>1, <3>2 DEF MvSave
    <2>6. CASE FS!Create
      <3>1. /\ call' = FS!None /\ job.destination \notin DOMAIN RootNodes
            /\ call.payload = p
        BY <2>4, <2>6 DEF FS!Create, FS!Known, FS!Nodes, FS!Return, RootNodes
      <3>2. p # FOLDER
        BY ShellAssumption
      <3>3. store' = FS!With(store, RootId, job.destination, FS!File(p))
        BY <2>4, <2>6, <3>1, <3>2 DEF FS!Create
      <3>4. job.destination \in Name /\ FS!File(p) \in Node
        BY <2>3, <2>4, CallFields DEF CallInv, Node
      <3>5. Puts(store, store', RootId, job.destination, FS!File(p))
        BY <1>4, <3>3, <3>4, WithPuts DEF Tree
      <3>6. /\ DOMAIN store'[RootId].nodes = DOMAIN RootNodes \cup {job.destination}
            /\ store'[RootId].nodes[job.destination] = FS!File(p)
            /\ \A m \in DOMAIN RootNodes : m # job.destination =>
                  store'[RootId].nodes[m] = RootNodes[m]
        BY <3>5 DEF Puts, RootNodes
      <3>7. IsFile(job.source, p)' /\ IsFile(job.destination, p)'
            /\ job.destination # job.source
        BY <1>1, <2>4, <3>1, <3>6 DEF IsFile, RootNodes
      <3> QED
        BY <1>1, <1>6, <3>1, <3>7 DEF MvSave
    <2> QED
      BY <2>3, <2>5, <2>6 DEF Serve, FS!Read, FS!ReadDirectory, FS!Remove, FS!RemoveReturn
  <1>9. CASE step \notin {"load", "probe", "save"}
    <2>1. MvLoad' /\ MvProbe' /\ MvSave'
      BY <1>1, <1>9 DEF MvLoad, MvProbe, MvSave
    <2>2. MvDelete'
      <3>1. CASE FS!Remove
        BY <3>1 DEF FS!Remove, MvDelete
      <3>2. CASE ~FS!Remove
        <4>1. call' = FS!None
          BY <1>5, <3>2 DEF Serve, FS!Create, FS!Return
        <4> QED
          BY <1>6, <4>1 DEF MvDelete
      <3> QED
        BY <3>1, <3>2
    <2> QED
      BY <2>1, <2>2 DEF MvInv
  <1> QED
    BY <1>7, <1>8, <1>9

LEMMA MvContinues ==
    ASSUME ShellInv, MvInv, Load \/ Probe \/ Save \/ DeleteSource
    PROVE  MvInv'
  <1> USE DEF ShellInv
  <1>1. job' = job /\ Here' = Here /\ store' = store /\ call = FS!None
    BY DEF Load, Probe, Save, DeleteSource, Copying, After, ReadFile, Write, Delete, Ask,
           FS!Invoke, place, Here
  <1>2. SUFFICES ASSUME job.op = "mv", Here = RootId
                 PROVE  MvInv'
    BY <1>1 DEF MvInv
  <1>3. MvLoad /\ MvProbe /\ MvSave /\ MvDelete
    BY <1>2 DEF MvInv
  <1>4. Above = RootId /\ RootId \in DOMAIN store
    BY <1>2, InRoot
  <1>5. \A n, p : IsFile(n, p)' <=> IsFile(n, p)
    BY <1>1 DEF IsFile, RootNodes
  <1>6. RootNodes' = RootNodes
    BY <1>1 DEF RootNodes
  <1>7. CASE Load
    <2>1. /\ step' = "load" /\ step = "list" /\ filesize' = SizeListed(job.source)
          /\ call' = [op |-> "read", parent |-> RootId, name |-> job.source,
                      capacity |-> BUFFER_SIZE]
      BY <1>4, <1>7 DEF Load, Copying, After, ReadFile, Ask
    <2>2. Listing = FS!Listing(RootId)
      BY <1>1, <1>2, <2>1, ListingHere DEF CallInv
    <2>3. ASSUME NEW p \in Payload, IsFile(job.source, p)
          PROVE  filesize' = 1
      <3>1. job.source \in DOMAIN store[RootId].nodes
            /\ store[RootId].nodes[job.source].kind = "file"
        BY <2>3 DEF IsFile, RootNodes, FS!File
      <3>2. FS!Listing(RootId)[job.source] = [kind |-> "file", size |-> 1]
            /\ job.source \in DOMAIN FS!Listing(RootId)
        BY <1>4, <3>1, ListingIs
      <3> QED
        BY <2>1, <2>2, <3>2 DEF SizeListed
    <2>4. call' # FS!None
      BY <2>1 DEF FS!None
    <2>5. MvLoad'
      BY <1>1, <1>5, <2>1, <2>3, <2>4 DEF MvLoad
    <2> QED
      BY <2>1, <2>5 DEF MvInv, MvProbe, MvSave, MvDelete
  <1>8. CASE Probe
    <2>1. /\ step' = "probe" /\ step = "load" /\ filesize' = filesize /\ buf' = Filled
          /\ ok' = (answer.code = 0)
          /\ \E whole \in {0, filesize} :
                call' = [op |-> "read", parent |-> RootId, name |-> job.destination,
                         capacity |-> whole]
      BY <1>4, <1>8 DEF Probe, Copying, After, ReadFile, Ask
    <2>2. call' # FS!None
      BY <2>1 DEF FS!None
    <2>3. ASSUME ok'
          PROVE  IsFile(job.source, buf') /\ buf' \in Payload /\ filesize = 1
      <3>1. answer.code = 0 /\ buf' = answer.data.file
        BY <2>1, <2>3 DEF Filled
      <3>2. IsFile(job.source, buf') /\ buf' \in Payload
        BY <1>1, <1>3, <2>1, <3>1 DEF MvLoad, CallInv, AnswerInv, FS!None
      <3> QED
        BY <1>3, <2>1, <3>2 DEF MvLoad
    <2>4. PICK x : x = buf'
      OBVIOUS
    <2>5. ok' => IsFile(job.source, x)' /\ x \in Payload /\ filesize' = 1
      BY <1>1, <1>5, <2>1, <2>3, <2>4
    <2>6. MvProbe'
      BY <1>1, <2>1, <2>2, <2>4, <2>5 DEF MvProbe, IsFile
    <2> QED
      BY <2>1, <2>6 DEF MvInv, MvLoad, MvSave, MvDelete
  <1>9. CASE Save
    <2>1. step' = "save" /\ step = "probe" /\ ok' = ok
      BY <1>2, <1>9 DEF Save, Copying, After
    <2>2. PICK x \in IF filesize = 0 THEN {FOLDER}
                     ELSE IF Filled = Garbage THEN Payload ELSE {Filled} :
             call' = [op |-> "write", parent |-> RootId, name |-> job.destination,
                      payload |-> x]
      BY <1>4, <1>9 DEF Save, Write, Ask
    <2>3. call' # FS!None
      BY <2>2 DEF FS!None
    <2>4. SUFFICES ASSUME ok
                   PROVE  MvSave'
      BY <2>1 DEF MvInv, MvLoad, MvProbe, MvSave, MvDelete
    <2>5. PICK p \in Payload : p = buf
      BY <1>3, <2>1, <2>4 DEF MvProbe
    <2>6. IsFile(job.source, p) /\ filesize = 1
      BY <1>3, <2>1, <2>4, <2>5 DEF MvProbe
    <2>7. job.destination \notin DOMAIN RootNodes => x = p
      <3>1. SUFFICES ASSUME job.destination \notin DOMAIN RootNodes
                     PROVE  x = p
        OBVIOUS
      <3>2. answer.code # 0
        BY <1>1, <1>3, <2>1, <2>4, <3>1 DEF MvProbe
      <3>3. Filled = p /\ p # Garbage
        BY <2>5, <3>2, ShellAssumption DEF Filled
      <3> QED
        BY <2>2, <2>6, <3>3
    <2>8. IsFile(job.source, p)'
      BY <1>1, <2>6 DEF IsFile, RootNodes
    <2> QED
      BY <1>1, <1>6, <2>2, <2>3, <2>7, <2>8 DEF MvSave
  <1>10. CASE DeleteSource
    <2>1. /\ step' = "last" /\ step = "save" /\ ok' = (ok /\ answer.code = 0)
          /\ call' = [op |-> "delete", parent |-> RootId, name |-> job.source]
      BY <1>4, <1>10 DEF DeleteSource, Copying, After, Delete, Ask
    <2>2. SUFFICES ASSUME ok'
                   PROVE  MvDelete'
      BY <2>1 DEF MvInv, MvLoad, MvProbe, MvSave, MvDelete
    <2>3. ok /\ answer.code = 0
      BY <2>1, <2>2
    <2>4. PICK p \in Payload : /\ IsFile(job.source, p) /\ IsFile(job.destination, p)
                               /\ job.destination # job.source
      BY <1>1, <1>3, <2>1, <2>3 DEF MvSave
    <2>5. IsFile(job.source, p)' /\ IsFile(job.destination, p)'
      BY <1>1, <2>4 DEF IsFile, RootNodes
    <2> QED
      BY <1>1, <2>1, <2>4, <2>5 DEF MvDelete
  <1> QED
    BY <1>7, <1>8, <1>9, <1>10

LEMMA StepMv ==
    ASSUME ShellInv, MvInv, [Next]_vars
    PROVE  MvInv'
  <1> USE DEF ShellInv
  <1>1. CASE job'.op # "mv"
    BY <1>1 DEF MvInv
  <1>2. CASE PowerOn \/ Crash \/ EndOfJob
    BY <1>1, <1>2 DEF PowerOn, Crash, FreshShell, EndOfJob, NoJob
  <1>3. CASE cd_up
    BY <1>1, <1>3, JobIs DEF cd_up, After, NoJob
  <1>4. CASE Insert
    BY <1>1, <1>4, JobIs DEF Insert, CallInv, CallTyped, NoJob
  <1>5. ASSUME NEW n \in Name, mkdir(n) \/ rm(n) \/ cat(n) \/ ls(n) \/ cd(n) \/ find(n)
        PROVE  MvInv'
    BY <1>1, <1>5 DEF mkdir, rm, cat, ls, cd, find, Begin
  <1>6. ASSUME NEW op \in {"mv", "cp"}, NEW n \in Name, NEW m \in Name, copy(op, n, m)
        PROVE  MvInv'
    BY <1>6 DEF copy, MvInv, MvLoad, MvProbe, MvSave, MvDelete
  <1>7. CASE Enter \/ NotFound
    <2>1. step = "cd" /\ job' = job
      BY <1>7 DEF Enter, NotFound, After
    <2> QED
      BY <1>1, <2>1, JobIs
  <1>8. CASE TableRead \/ Matched \/ Descend \/ Ascend \/ WalkOver
    BY <1>1, <1>8 DEF TableRead, Matched, Descend, Ascend, WalkOver, Looking
  <1>9. CASE UNCHANGED vars
    BY <1>9 DEF vars, fsvars, place, locals, copying, MvInv, MvLoad, MvProbe, MvSave, MvDelete,
                Here, IsFile, RootNodes
  <1>10. CASE Command
    BY <1>3, <1>5, <1>6, <1>10 DEF Command
  <1> QED
    BY <1>2, <1>4, <1>7, <1>8, <1>9, <1>10, MvServed, MvContinues DEF Next, Continue

-----------------------------------------------------------------------------
(* What follows.                                                             *)

LEMMA InvInductive == Spec => []Inv
  <1>1. Init => Inv
    <2>1. ASSUME Init
          PROVE  ShellInv /\ job.op = "none"
      BY <2>1, InitShell DEF Init, NoJob
    <2> QED
      BY <2>1 DEF Inv, FindInv, MvInv
  <1>2. Inv /\ [Next]_vars => Inv'
    BY StepStore, StepJob, StepCall, StepFind, StepMv DEF Inv, ShellInv
  <1> QED
    BY <1>1, <1>2, PTL DEF Spec

\* Every variable of the shell has its type at all times, its stack never
\* overflows, and a command makes only its own system calls.
THEOREM ShellTyped == Spec => []TypeOK
  <1>1. Inv => TypeOK
    <2> SUFFICES ASSUME Inv
                 PROVE  TypeOK
      OBVIOUS
    <2>1. PathInv /\ JobInv
      BY DEF Inv, ShellInv
    <2>2. \A k \in DOMAIN walk : walk[k].next \in DirId /\ DOMAIN walk[k].entries \subseteq Name
      BY <2>1, WalkIs, EntryIs
    <2>3. ok \in BOOLEAN /\ found \in BOOLEAN
      BY <2>1, Zenon DEF JobInv
    <2> QED
      BY <2>1, <2>2, <2>3 DEF TypeOK, PathInv, JobInv
  <1> QED
    BY <1>1, InvInductive, PTL

\* Where the shell believes it is, it is: its stack and current directory are a
\* path of the store from the root, whatever the kernel, the inserter and the
\* power did meanwhile (push_directory, pop_directory, cd of src/user-shell.c).
THEOREM AlwaysOnPath == Spec => []CwdIsPath
  <1>1. Inv => CwdIsPath
    <2> SUFFICES ASSUME Inv
                 PROVE  CwdIsPath
      OBVIOUS
    <2>1. PathInv /\ PathLen \in Nat
      BY WhereItIs DEF Inv, ShellInv
    <2>2. Len(Path) = PathLen /\ Path[1] = RootDirectory
      BY <2>1 DEF PathInv, Path, PathLen
    <2>3. ASSUME NEW k \in 1 .. PathLen - 1
          PROVE  /\ Path[k + 1].parent_cluster_number = Path[k].cluster_number
                 /\ Path[k + 1].name \in DOMAIN store[Path[k].cluster_number].nodes
                 /\ store[Path[k].cluster_number].nodes[Path[k + 1].name]
                       = FS!Dir(Path[k + 1].cluster_number)
      BY <2>1 DEF PathInv, PathId, Link
    <2> QED
      BY <2>2, <2>3 DEF CwdIsPath, Path
  <1> QED
    BY <1>1, InvInductive, PTL

\* The directory that ls, cd, mv and cp list, by name below the parent's number, is
\* the one that mkdir and rm change, by its own number.
THEOREM ListingIsCurrent == Spec => []ListsCurrentDirectory
  <1>1. Inv => ListsCurrentDirectory
    BY DEF Inv, ShellInv, CallInv, AnswerInv, ListsCurrentDirectory, ListsHere, HereListed,
           FS!None
  <1> QED
    BY <1>1, InvInductive, PTL

\* A find typed in the root prints the name exactly if the disk holds it: the walk
\* of find ends with nothing pending, so what was listed is closed under the links
\* of the tree and is all of it.
THEOREM FindIsRight == Spec => []FindTells
  <1>1. Inv => FindTells
    <2> SUFFICES ASSUME Inv, step = "last", job.op = "find", Here = RootId
                 PROVE  found <=> SomeHolds
      BY DEF FindTells, SomeHolds, Holds
    <2>1. walk = <<>> /\ FindNoFalse /\ FindNoMiss /\ Tree(store)
      BY DEF Inv, ShellInv, FindInv
    <2>2. ~Ahead
      BY <2>1 DEF Ahead
    <2>3. Pending = {}
      BY <2>1 DEF Pending
    <2>4. ASSUME NEW V \in SUBSET DOMAIN store, Swept(V)
          PROVE  ~SomeHolds
      <3>1. Closed(store, V)
        BY <2>3, <2>4 DEF Swept, Closed
      <3>2. V = DOMAIN store
        BY <2>1, <3>1 DEF Tree, Whole
      <3> QED
        BY <2>4, <3>2 DEF Swept, SomeHolds
    <2> QED
      BY <2>1, <2>2, <2>4 DEF FindNoFalse, FindNoMiss
  <1> QED
    BY <1>1, InvInductive, PTL

\* Without an entry that is a file, the tree has the same directories.
LEMMA FileCut ==
    ASSUME NEW t, Tree(store), NEW n \in DOMAIN RootNodes, NEW p \in Payload, IsFile(n, p),
           Cuts(store, t, RootId, n)
    PROVE  /\ DOMAIN t = DOMAIN store
           /\ \A e \in DOMAIN store : \A m \in DOMAIN store[e].nodes :
                 ~(e = RootId /\ m = n) =>
                     m \in DOMAIN t[e].nodes /\ t[e].nodes[m] = store[e].nodes[m]
  <1>1. RootId \in DOMAIN store /\ n \in DOMAIN store[RootId].nodes
    BY DEF Tree, StoreType, RootNodes
  <1>2. /\ Tree(t) /\ DOMAIN t \subseteq DOMAIN store
        /\ \A e \in DOMAIN t :
              /\ DOMAIN t[e].nodes
                    = DOMAIN store[e].nodes \ (IF e = RootId THEN {n} ELSE {})
              /\ \A m \in DOMAIN t[e].nodes : t[e].nodes[m] = store[e].nodes[m]
        /\ \A e, x \in DirId, m \in Name :
              Link(t, e, m, x) <=>
                 e \in DOMAIN t /\ Link(store, e, m, x) /\ ~(e = RootId /\ m = n)
    BY <1>1, CutIs
  <1>3. \A x : ~Link(store, RootId, n, x)
    BY DEF IsFile, RootNodes, Link, FS!File, FS!Dir
  <1>4. Closed(store, DOMAIN t)
    <2>1. ASSUME NEW d \in DOMAIN t, NEW x \in DirId, NEW m \in Name, Link(store, d, m, x)
          PROVE  x \in DOMAIN t
      <3>1. d \in DirId
        BY <1>2 DEF Tree, StoreType
      <3>2. Link(t, d, m, x)
        BY <1>2, <1>3, <2>1, <3>1
      <3> QED
        BY <1>2, <3>1, <3>2 DEF Tree, Linked
    <2> QED
      BY <1>2, <2>1 DEF Closed, Tree, StoreType
  <1>5. DOMAIN t = DOMAIN store
    BY <1>2, <1>4 DEF Tree, Whole
  <1> QED
    BY <1>2, <1>5

\* The inserter takes the shell and nothing else.
LEMMA InsertLoses ==
    ASSUME Tree(store), Insert
    PROVE  Stored(store) \ Replaced \subseteq Stored(store')
  <1>1. PICK s : s = Without(store, RootId, SHELL)
    OBVIOUS
  <1>2. /\ call = FS!Off /\ (store' = s \/ Grows(s, store'))
        /\ \/ SHELL \notin DOMAIN RootNodes /\ s = store
           \/ SHELL \in DOMAIN RootNodes /\ Cuts(store, s, RootId, SHELL)
    BY <1>1, InsertTree DEF Insert, RootNodes
  <1>3. Stored(s) \subseteq Stored(store')
    BY <1>2 DEF Grows, Stored
  <1>4. CASE s = store
    BY <1>3, <1>4
  <1>5. CASE SHELL \in DOMAIN RootNodes /\ Cuts(store, s, RootId, SHELL)
    <2>1. RootNodes[SHELL] \in Node
      BY <1>5, EntryTyped DEF Tree, StoreType, RootNodes
    <2>2. CASE RootNodes[SHELL].kind = "dir"
      <3>1. Replaced = Payload
        BY <1>2, <1>5, <2>2 DEF Replaced, RootNodes
      <3> QED
        BY <3>1 DEF Stored
    <2>3. CASE RootNodes[SHELL].kind = "file"
      <3>1. PICK p \in Payload : IsFile(SHELL, p)
        BY <1>5, <2>1, <2>3, NodeIs DEF IsFile
      <3>2. p \in Replaced
        BY <1>2, <1>5, <3>1 DEF Replaced, IsFile, RootNodes
      <3>3. /\ DOMAIN s = DOMAIN store
            /\ \A e \in DOMAIN store : \A m \in DOMAIN store[e].nodes :
                  ~(e = RootId /\ m = SHELL) =>
                      m \in DOMAIN s[e].nodes /\ s[e].nodes[m] = store[e].nodes[m]
        BY <1>5, <3>1, FileCut
      <3>4. ASSUME NEW q \in Payload \ Replaced, NEW e \in DOMAIN store,
                   NEW m \in DOMAIN store[e].nodes, store[e].nodes[m] = FS!File(q)
            PROVE  q \in Stored(s)
        <4>1. ~(e = RootId /\ m = SHELL)
          BY <3>1, <3>2, <3>4 DEF IsFile, RootNodes, FS!File
        <4> QED
          BY <3>3, <3>4, <4>1 DEF Stored
      <3>5. Stored(store) \ Replaced \subseteq Stored(s)
        BY <3>4 DEF Stored
      <3> QED
        BY <1>3, <3>5
    <2> QED
      BY <2>1, <2>2, <2>3, NodeIs
  <1> QED
    BY <1>2, <1>4, <1>5

LEMMA StepLoses ==
    ASSUME Inv, [Next]_vars
    PROVE  \/ Stored(store) \ Replaced \subseteq Stored(store')
           \/ job.op = "rm"
           \/ job.op = "mv" /\ (Here # RootId \/ ~ok)
  <1> USE DEF Inv, ShellInv
  <1>1. ASSUME Grows(store, store')
        PROVE  Stored(store) \subseteq Stored(store')
    BY <1>1 DEF Grows, Stored
  <1>2. CASE Insert
    BY <1>2, InsertLoses
  <1>3. CASE FS!Create
    BY <1>1, <1>3, CreateGrows DEF CallInv
  <1>4. CASE FS!Remove
    <2>1. /\ call.op = "delete" /\ ~done
          /\ call.name \in DOMAIN store[call.parent].nodes
          /\ Cuts(store, store', call.parent, call.name)
      BY <1>4, RemoveCuts DEF CallInv
    <2>2. SUFFICES ASSUME job.op = "mv", Here = RootId, ok
                   PROVE  Stored(store) \subseteq Stored(store')
      BY <2>1 DEF CallInv, ChangeInv
    <2>3. step = "last"
      BY <2>1 DEF CallInv, ChangeInv
    <2>4. PICK p \in Payload :
             /\ call.parent = RootId /\ call.name = job.source
             /\ job.destination # job.source
             /\ IsFile(job.source, p) /\ IsFile(job.destination, p)
      BY <2>1, <2>2, <2>3 DEF MvInv, MvDelete
    <2>5. PICK n : n = job.source
      OBVIOUS
    <2>6. /\ DOMAIN store' = DOMAIN store
          /\ \A e \in DOMAIN store : \A m \in DOMAIN store[e].nodes :
                ~(e = RootId /\ m = n) =>
                    m \in DOMAIN store'[e].nodes /\ store'[e].nodes[m] = store[e].nodes[m]
      BY <2>1, <2>4, <2>5, FileCut DEF IsFile
    <2>7. ASSUME NEW q \in Payload, NEW e \in DOMAIN store, NEW m \in DOMAIN store[e].nodes,
                 store[e].nodes[m] = FS!File(q)
          PROVE  \E d \in DOMAIN store' : \E k \in DOMAIN store'[d].nodes :
                    store'[d].nodes[k] = FS!File(q)
      <3>1. CASE e = RootId /\ m = n
        <4>1. FS!File(q) = FS!File(p)
          BY <2>4, <2>5, <2>7, <3>1 DEF IsFile, RootNodes
        <4>2. PICK k : k = job.destination
          OBVIOUS
        <4>3. k \in DOMAIN store[RootId].nodes /\ store[RootId].nodes[k] = FS!File(p) /\ k # n
          BY <2>4, <2>5, <4>2 DEF IsFile, RootNodes
        <4> QED
          BY <2>6, <3>1, <4>1, <4>3
      <3>2. CASE ~(e = RootId /\ m = n)
        BY <2>6, <2>7, <3>2
      <3> QED
        BY <3>1, <3>2
    <2> QED
      BY <2>7 DEF Stored
  <1>5. CASE UNCHANGED store
    BY <1>5
  <1>6. Insert \/ FS!Create \/ FS!Remove \/ UNCHANGED store
    BY DEF Next, PowerOn, Crash, FS!PowerOn, FS!Crash, Serve, FS!Read, FS!ReadDirectory,
           FS!CreateRefuse, FS!RemoveReturn, Command, Continue, vars, fsvars, mkdir, rm, cat,
           ls, cd, cd_up, find, copy, ReadDir, ReadFile, Write, Delete, ListCurrent, Ask,
           FS!Invoke, Enter, NotFound, Load, Probe, Save, DeleteSource, TableRead, Matched,
           Descend, Ascend, WalkOver, EndOfJob
  <1> QED
    BY <1>2, <1>3, <1>4, <1>5, <1>6

\* The last copy of a file goes only with rm, with the shell the inserter replaces,
\* or with a mv that has failed or was not typed in the root: in between mv has
\* both copies on the disk.
THEOREM OnlyRmLoses == Spec => OnlyRmLosesFiles
  <1>1. Inv /\ [Next]_vars =>
           [\/ Stored(store) \ Replaced \subseteq Stored(store')
            \/ job.op = "rm"
            \/ job.op = "mv" /\ (Here # RootId \/ ~ok)]_vars
    BY StepLoses
  <1> QED
    BY <1>1, InvInductive, PTL DEF Spec, OnlyRmLosesFiles
=============================================================================
