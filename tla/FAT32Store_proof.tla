--------------------------- MODULE FAT32Store_proof ---------------------------
(* That the driver is the file store, for every geometry, every set of names  *)
(* and payloads and a power failure between any two disk writes: each step is *)
(* one of FileStore on the tree the disk holds, or leaves the tree as it is.  *)
EXTENDS FAT32_proof, FAT32Store, FiniteSetTheorems

\* FileStore speaks of a volume with a root directory and of callers that pass
\* names, and numbers of directories there are: the sample image, and neither the
\* empty name nor a deleted directory's number.
StoreCalls ==
    /\ OrdinaryCalls
    /\ Images = {"sample"} /\ Callers \subseteq {"populated"}

-----------------------------------------------------------------------------
(* What the volume's invariant leaves out and the tree needs: which names and *)
(* labels there are, and that a call is on a directory of the tree.           *)

LabelOf(c) == content[c].table[0].name

SelfEntries ==
    /\ content[ROOT].table[0].subdir /\ content[ROOT].table[0].cluster = ROOT
    /\ LabelOf(ROOT) = ROOT_NAME
    /\ \A c \in StoreCluster :
          content[c].kind = "table" /\ LabelOf(c) # NO_NAME => content[c].table[0].subdir

NamesKnown ==
    \A c \in StoreCluster, i \in UserSlot : IsEntry(c, i) => EntryAt(c, i).name \in Name

\* The call's directory is reachable, and the name is passed as FileStore allows.
CallKnown ==
    req.op \in {"read", "read_directory", "write", "delete"} =>
        /\ req.parent \in LiveDirs
        /\ req.op # "read_directory" => req.name \in Name /\ req.name # LabelOf(req.parent)
        /\ req.op = "read_directory" => req.name \in Name \cup {LabelOf(req.parent)}
        /\ req.op = "read" => req.capacity \in Capacities

Served ==
    /\ pc \in {"off", "idle"} => req = NoRequest /\ slot_buf = NoSlots
    /\ pc \notin {"off", "idle"} => req.op \in {"read", "read_directory", "write", "delete"}
    /\ pc = "unlink" => content[req.parent].table[slot].name = req.name

StoreInv ==
    /\ Inv /\ signed /\ Usable /\ pc # "hung"
    /\ SelfEntries /\ NamesKnown /\ CallKnown /\ Served

-----------------------------------------------------------------------------
(* Walks along a chain.                                                      *)

\* What the walk goes on to.
Onward(F, x) == IF x \in Cluster THEN F[x] ELSE x

\* f is the walk's first n steps from h; those within the disk are its clusters.
Steps(F, h, n, f) == f = [k \in 0 .. n |-> IF k = 0 THEN h ELSE Onward(F, f[k - 1])]
Visited(f) == [k \in {i \in 0 .. CLUSTER_MAP_SIZE : f[i] \in Cluster} |-> f[k]]

\* A walk of n steps exists, for every n.
LEMMA WalkExists ==
    ASSUME NEW F, NEW h, NEW n \in Nat
    PROVE  \E f : Steps(F, h, n, f)
  <1> USE DEF Steps
  <1> DEFINE P(m) == \E f : f = [k \in 0 .. m |-> IF k = 0 THEN h ELSE Onward(F, f[k - 1])]
             T == {m \in Nat : ~P(m)}
  <1> SUFFICES ASSUME T # {} PROVE FALSE
    OBVIOUS
  <1>1. T \in SUBSET Nat
    OBVIOUS
  <1> HIDE DEF T
  <1>2. PICK m \in T : \A x \in T : m <= x
    BY <1>1, LeastNumber
  <1>3. m \in Nat /\ ~P(m)
    BY <1>2 DEF T
  <1>4. CASE m = 0
    <2> DEFINE g == [k \in 0 .. 0 |-> h]
    <2>1. g = [k \in 0 .. 0 |-> IF k = 0 THEN h ELSE Onward(F, g[k - 1])]
      OBVIOUS
    <2> QED
      BY <1>3, <1>4, <2>1
  <1>5. CASE m # 0
    <2>1. m - 1 \in Nat /\ m - 1 \notin T
      BY <1>2, <1>3, <1>5
    <2>2. P(m - 1)
      BY <2>1 DEF T
    <2>3. PICK f : f = [k \in 0 .. m - 1 |-> IF k = 0 THEN h ELSE Onward(F, f[k - 1])]
      BY <2>2
    <2> DEFINE g == [k \in 0 .. m |-> IF k = m THEN Onward(F, f[m - 1]) ELSE f[k]]
    <2>4. \A k \in 0 .. m : g[k] = IF k = 0 THEN h ELSE Onward(F, g[k - 1])
      <3> SUFFICES ASSUME NEW k \in 0 .. m
                   PROVE  g[k] = IF k = 0 THEN h ELSE Onward(F, g[k - 1])
        OBVIOUS
      <3>1. CASE k = m
        <4>1. g[k] = Onward(F, f[m - 1]) /\ g[k - 1] = f[m - 1]
          BY <1>3, <1>5, <2>1, <3>1
        <4> QED
          BY <1>5, <3>1, <4>1
      <3>2. CASE k # m
        <4>1. k \in 0 .. m - 1 /\ g[k] = f[k]
          BY <1>3, <3>2
        <4>2. f[k] = IF k = 0 THEN h ELSE Onward(F, f[k - 1])
          BY <2>3, <4>1
        <4>3. k # 0 => k - 1 \in 0 .. m /\ k - 1 # m
          BY <1>3, <4>1
        <4> QED
          BY <4>1, <4>2, <4>3
      <3> QED
        BY <3>1, <3>2
    <2>5. g = [k \in 0 .. m |-> IF k = 0 THEN h ELSE Onward(F, g[k - 1])]
      BY <2>4
    <2> QED
      BY <1>3, <2>5
  <1> QED
    BY <1>4, <1>5

\* Walk is what its recursive definition says.
LEMMA WalkIs ==
    ASSUME NEW F, NEW h
    PROVE  \E f : Steps(F, h, CLUSTER_MAP_SIZE, f) /\ Walk(F, h) = Visited(f)
  <1> DEFINE G(at) == [k \in 0 .. CLUSTER_MAP_SIZE |->
                IF k = 0 THEN h
                ELSE IF at[k - 1] \in Cluster THEN F[at[k - 1]] ELSE at[k - 1]]
             c == CHOOSE at : at = G(at)
  <1>1. PICK f : Steps(F, h, CLUSTER_MAP_SIZE, f)
    BY Numbers, WalkExists
  <1>2. f = G(f)
    BY <1>1 DEF Steps, Onward
  <1>3. c = G(c)
    BY <1>2
  <1>4. Walk(F, h) = Visited(c)
    BY DEF Walk, Visited
  <1> HIDE DEF c
  <1>5. Steps(F, h, CLUSTER_MAP_SIZE, c)
    BY <1>3 DEF Steps, Onward
  <1> QED
    BY <1>4, <1>5

\* In a volume of whole chains the walk from a file's first block visits all of its
\* blocks in their order, and stops: no chain is longer than the disk.
LEMMA WalkOfFile ==
    ASSUME TypeOK, NEW O, Volume(O), NEW p \in Payload, NEW h \in O,
           content[h] = Block(p, 0)
    PROVE  LET w == Walk(diskFat, h) IN
           /\ DOMAIN w = 0 .. ClustersOf[p] - 1
           /\ \A k \in DOMAIN w : w[k] \in O /\ content[w[k]] = Block(p, k)
           /\ w[0] = h /\ \A k \in 1 .. ClustersOf[p] - 1 : w[k] = diskFat[w[k - 1]]
           /\ diskFat[w[ClustersOf[p] - 1]] = END_OF_FILE
  <1> DEFINE N == CLUSTER_MAP_SIZE
             n == ClustersOf[p]
  <1>1. N \in Nat /\ n \in Nat /\ n > 0
    BY Numbers, DataAssumption
  <1>0. PICK f : Steps(diskFat, h, CLUSTER_MAP_SIZE, f) /\ Walk(diskFat, h) = Visited(f)
    BY WalkIs
  <1>2. f[0] = h /\ \A k \in 1 .. N : f[k] = Onward(diskFat, f[k - 1])
    <2>1. \A k \in 0 .. N : f[k] = IF k = 0 THEN h ELSE Onward(diskFat, f[k - 1])
      BY <1>0 DEF Steps
    <2> QED
      BY <1>1, <2>1
  <1>3. O \subseteq Cluster /\ END_OF_FILE \notin Cluster /\ StoreCluster \subseteq Cluster
    BY OwnedFacts, Numbers
  <1> DEFINE AtBlock(k) == f[k] \in O /\ content[f[k]] = Block(p, k)
  <1>4. ASSUME NEW k \in 1 .. N, k < n, AtBlock(k - 1) PROVE AtBlock(k)
    <2>1. f[k] = diskFat[f[k - 1]]
      BY <1>2, <1>3, <1>4 DEF Onward
    <2>2. /\ content[f[k - 1]].kind = "block" /\ content[f[k - 1]].index = k - 1
          /\ content[f[k - 1]].payload = p
      BY <1>4, BlockFields
    <2>3. BlockIntact(f[k - 1]) /\ (f[k] = END_OF_FILE \/ f[k] \in O)
      BY <1>4, <2>1, <2>2 DEF Volume, Chains
    <2>4. (k - 1) + 1 = k /\ k # n
      BY <1>1, <1>4
    <2>5. f[k] \in StoreCluster /\ content[f[k]] = Block(p, k)
      BY <2>1, <2>2, <2>3, <2>4 DEF BlockIntact
    <2> QED
      BY <1>3, <2>3, <2>5
  <1>5. ASSUME NEW k \in 0 .. N, k < n PROVE AtBlock(k)
    <2> DEFINE T == {m \in 0 .. N : m < n /\ ~AtBlock(m)}
    <2> SUFFICES ASSUME T # {} PROVE FALSE
      BY <1>5
    <2>1. T \in SUBSET Nat
      BY <1>1
    <2> HIDE DEF T
    <2>2. PICK m \in T : \A x \in T : m <= x
      BY <2>1, LeastNumber
    <2>3. m \in 0 .. N /\ m < n /\ ~AtBlock(m)
      BY <2>2 DEF T
    <2>4. m # 0
      BY <1>2, <2>3
    <2>5. m \in 1 .. N /\ m - 1 \in 0 .. N /\ m - 1 < n /\ ~(m <= m - 1)
      BY <1>1, <2>3, <2>4
    <2>6. AtBlock(m - 1)
      BY <2>2, <2>5 DEF T
    <2> QED
      BY <1>4, <2>3, <2>5, <2>6
  <1>6. n <= N
    <2> SUFFICES ASSUME n > N PROVE FALSE
      BY <1>1
    <2> DEFINE g == [k \in 0 .. N |-> f[k]]
    <2>1. g \in [0 .. N -> Cluster]
      BY <1>1, <1>3, <1>5
    <2>2. /\ IsFiniteSet(0 .. N) /\ Cardinality(0 .. N) = N + 1
          /\ IsFiniteSet(Cluster) /\ Cardinality(Cluster) = N
      <3>1. N > 0 /\ 0 \in Int /\ N \in Int /\ N - 1 \in Int /\ Cluster = 0 .. N - 1
        BY Numbers DEF Cluster
      <3>2. IsFiniteSet(0 .. N) /\ Cardinality(0 .. N) = N + 1
        BY <3>1, FS_Interval
      <3>3. IsFiniteSet(0 .. N - 1) /\ Cardinality(0 .. N - 1) = N
        BY <3>1, FS_Interval
      <3> QED
        BY <3>1, <3>2, <3>3
    <2>3. Cardinality(Cluster) < Cardinality(0 .. N)
      BY <1>1, <2>2
    <2> DEFINE S == 0 .. N
    <2> HIDE DEF g, S
    <2>4. \E x, y \in S : x # y /\ g[x] = g[y]
      <3>1. g \in [S -> Cluster] /\ IsFiniteSet(S) /\ IsFiniteSet(Cluster)
            /\ Cardinality(Cluster) < Cardinality(S)
        BY <2>1, <2>2, <2>3 DEF S
      <3> QED
        BY <3>1, FS_PigeonHole
    <2>5. PICK x \in 0 .. N, y \in 0 .. N : x # y /\ g[x] = g[y]
      BY <2>4 DEF S
    <2>6. content[f[x]] = Block(p, x) /\ content[f[y]] = Block(p, y) /\ f[x] = f[y]
      BY <1>1, <1>5, <2>5 DEF g
    <2> QED
      BY <2>5, <2>6, BlockFields
  <1>7. AtBlock(n - 1) /\ diskFat[f[n - 1]] = END_OF_FILE
    <2>1. AtBlock(n - 1)
      BY <1>1, <1>5, <1>6
    <2>2. /\ content[f[n - 1]].kind = "block" /\ content[f[n - 1]].index = n - 1
          /\ content[f[n - 1]].payload = p
      BY <2>1, BlockFields
    <2>3. BlockIntact(f[n - 1]) /\ (n - 1) + 1 = n
      BY <1>1, <2>1, <2>2 DEF Volume, Chains
    <2> QED
      BY <2>1, <2>2, <2>3 DEF BlockIntact
  <1>8. ASSUME NEW k \in 0 .. N, k >= n PROVE f[k] = END_OF_FILE
    <2> DEFINE T == {m \in 0 .. N : m >= n /\ f[m] # END_OF_FILE}
    <2> SUFFICES ASSUME T # {} PROVE FALSE
      BY <1>8
    <2>1. T \in SUBSET Nat
      BY <1>1
    <2> HIDE DEF T
    <2>2. PICK m \in T : \A x \in T : m <= x
      BY <2>1, LeastNumber
    <2>3. m \in 0 .. N /\ m >= n /\ f[m] # END_OF_FILE /\ m \in 1 .. N
      BY <1>1, <2>2 DEF T
    <2>4. f[m] = Onward(diskFat, f[m - 1])
      BY <1>2, <2>3
    <2>5. CASE m = n
      BY <1>3, <1>7, <2>3, <2>4, <2>5 DEF Onward
    <2>6. CASE m # n
      <3>1. m - 1 \in 0 .. N /\ m - 1 >= n /\ ~(m <= m - 1)
        BY <1>1, <2>3, <2>6
      <3>2. f[m - 1] = END_OF_FILE
        BY <2>2, <3>1 DEF T
      <3> QED
        BY <1>3, <2>3, <2>4, <3>2 DEF Onward
    <2> QED
      BY <2>5, <2>6
  <1>9. {i \in 0 .. N : f[i] \in Cluster} = 0 .. n - 1
    <2>1. ASSUME NEW i \in 0 .. N PROVE f[i] \in Cluster <=> i < n
      <3>1. CASE i < n
        BY <1>3, <1>5, <3>1
      <3>2. CASE ~(i < n)
        <4>1. f[i] = END_OF_FILE
          BY <1>1, <1>8, <3>2
        <4> QED
          BY <1>3, <3>2, <4>1
      <3> QED
        BY <3>1, <3>2
    <2> QED
      BY <1>1, <1>6, <2>1
  <1>10. Walk(diskFat, h) = [k \in 0 .. n - 1 |-> f[k]]
    BY <1>0, <1>9 DEF Visited
  <1>11. \A k \in 0 .. n - 1 : AtBlock(k)
    BY <1>1, <1>5, <1>6
  <1>12. ASSUME NEW k \in 1 .. n - 1 PROVE f[k] = diskFat[f[k - 1]]
    <2>1. k - 1 \in 0 .. n - 1 /\ k \in 1 .. N
      BY <1>1, <1>6
    <2>2. f[k - 1] \in Cluster
      BY <1>3, <1>11, <2>1
    <2> QED
      BY <1>2, <2>1, <2>2 DEF Onward
  <1>13. 0 \in 0 .. n - 1 /\ n - 1 \in 0 .. n - 1 /\ \A k \in 1 .. n - 1 : k - 1 \in 0 .. n - 1
    BY <1>1
  <1> HIDE DEF n
  <1> QED
    BY <1>2, <1>7, <1>10, <1>11, <1>12, <1>13 DEF n

\* So the payload that is read off the disk there is the file's.
LEMMA PayloadOfFile ==
    ASSUME NEW p \in Payload, NEW b, b = [k \in 0 .. ClustersOf[p] - 1 |-> Block(p, k)]
    PROVE  PayloadOf(b) = p /\ b # <<>> /\ 0 \in DOMAIN b /\ b[0] = Block(p, 0)
  <1>1. ClustersOf[p] \in Nat /\ ClustersOf[p] > 0
    BY DataAssumption
  <1>2. 0 \in 0 .. ClustersOf[p] - 1
    BY <1>1
  <1>3. DOMAIN b = 0 .. ClustersOf[p] - 1 /\ \A k \in DOMAIN b : b[k] = Block(p, k)
    OBVIOUS
  <1>4. b[0] = Block(p, 0) /\ b[0].payload = p
    BY <1>2, <1>3, BlockFields
  <1>5. PayloadOf(b) = p
    BY <1>3, <1>4 DEF PayloadOf
  <1>6. b # <<>>
    BY <1>2, <1>3
  <1> QED
    BY <1>2, <1>3, <1>4, <1>5, <1>6

LEMMA FileIsRead ==
    ASSUME TypeOK, NEW O, Volume(O), NEW p \in Payload, NEW h \in O,
           content[h] = Block(p, 0)
    PROVE  LET w == Walk(diskFat, h) IN
           /\ [k \in DOMAIN w |-> content[w[k]]] = [k \in 0 .. ClustersOf[p] - 1 |-> Block(p, k)]
           /\ FileAt(h) = p /\ WalkEnds(diskFat, h)
  <1> DEFINE w == Walk(diskFat, h)
  <1>1. /\ DOMAIN w = 0 .. ClustersOf[p] - 1
        /\ \A k \in DOMAIN w : w[k] \in O /\ content[w[k]] = Block(p, k)
        /\ diskFat[w[ClustersOf[p] - 1]] = END_OF_FILE
    BY WalkOfFile
  <1>2. [k \in DOMAIN w |-> content[w[k]]] = [k \in 0 .. ClustersOf[p] - 1 |-> Block(p, k)]
    BY <1>1
  <1>3. FileAt(h) = p
    BY <1>2, PayloadOfFile DEF FileAt
  <1> DEFINE n == ClustersOf[p]
             X == ChainSet(diskFat, h)
             T == {k \in 0 .. n - 1 : w[k] \notin X}
  <1>4. /\ n \in Nat /\ n > 0 /\ w[0] = h /\ \A k \in 1 .. n - 1 : w[k] = diskFat[w[k - 1]]
        /\ O \subseteq Cluster /\ T \in SUBSET Nat
    BY WalkOfFile, DataAssumption, OwnedFacts
  <1>5. h \in X /\ \A x \in X : diskFat[x] \in Cluster => diskFat[x] \in X
    BY <1>4, ChainFacts
  <1> HIDE DEF w, n, X
  <1>6. T = {}
    <2> SUFFICES ASSUME T # {} PROVE FALSE
      OBVIOUS
    <2> HIDE DEF T
    <2>1. PICK k \in T : \A m \in T : k <= m
      BY <1>4, LeastNumber
    <2>2. k \in 0 .. n - 1 /\ k \in 1 .. n - 1 /\ w[k] \notin X
      BY <1>4, <1>5, <2>1 DEF T
    <2>3. k - 1 \in 0 .. n - 1 /\ ~(k <= k - 1)
      BY <1>4, <2>2
    <2>4. w[k - 1] \in X
      BY <2>1, <2>3 DEF T
    <2>5. w[k] \in Cluster
      BY <1>1, <1>4, <2>2 DEF n
    <2> QED
      BY <1>4, <1>5, <2>2, <2>4, <2>5
  <1>7. WalkEnds(diskFat, h)
    <2>1. n - 1 \in 0 .. n - 1 /\ w[n - 1] \in X
      BY <1>4, <1>6 DEF T
    <2> QED
      BY <1>1, <2>1 DEF WalkEnds, X, n
  <1> QED
    BY <1>2, <1>3, <1>7 DEF w

-----------------------------------------------------------------------------
(* The tree that a disk holds, as a function of the disk.                     *)

DirsOf(F, C) == {c \in Live(F, C) : C[c].kind = "table"}
NodeOf(C, e) ==
    IF e.subdir THEN [kind |-> "dir", id |-> e.cluster]
    ELSE [kind |-> "file", payload |-> C[e.cluster].payload]
NodesOf(C, t) == [n \in NamesIn(t) |-> NodeOf(C, t[SlotNamed(t, n)])]
TreeOf(F, C) ==
    [d \in DirsOf(F, C) |->
        [label |-> C[d].table[0].name, nodes |-> NodesOf(C, C[d].table)]]

\* In a good table each name has its own slot.
LEMMA SlotNamedIs ==
    ASSUME NEW t, GoodTable(t), NEW n \in NamesIn(t)
    PROVE  /\ SlotNamed(t, n) \in UsedSlots(t) /\ t[SlotNamed(t, n)].name = n
           /\ \A i \in UsedSlots(t) : t[i].name = n => i = SlotNamed(t, n)
  <1>1. \E i \in UsedSlots(t) : t[i].name = n
    BY DEF NamesIn
  <1>2. SlotNamed(t, n) \in UsedSlots(t) /\ t[SlotNamed(t, n)].name = n
    BY <1>1 DEF SlotNamed
  <1> QED
    BY <1>2 DEF GoodTable

\* A scan from slot 0 finds the self entry by the label, and else the name's slot.
LEMMA MatchIs ==
    ASSUME NEW t, GoodTable(t), NEW n, n # NO_NAME
    PROVE  /\ n = t[0].name => FirstMatch(t, n) = {0}
           /\ n # t[0].name /\ n \notin NamesIn(t) => FirstMatch(t, n) = {}
           /\ n # t[0].name /\ n \in NamesIn(t) => FirstMatch(t, n) = {SlotNamed(t, n)}
           /\ NameTaken(t, n) <=> n \in NamesIn(t)
  <1>1. Slot = 0 .. DIR_ENTRIES - 1 /\ DIR_ENTRIES \in Nat /\ 0 \in Slot
        /\ UserSlot \subseteq Slot
    BY Slots, GeometryAssumption DEF Slot
  <1>2. ASSUME NEW i \in Slot, i # 0, t[i].name = n
        PROVE  i \in UsedSlots(t)
    <2>1. t[i].used
      BY <1>2 DEF GoodTable, ZeroEntry
    <2> QED
      BY <2>1 DEF GoodTable, UsedSlots
  <1>3. \A i \in UsedSlots(t) : i \in Slot /\ i # 0
    BY Slots DEF UsedSlots
  <1>4. n = t[0].name => FirstMatch(t, n) = {0}
    BY <1>1 DEF FirstMatch
  <1>5. n # t[0].name /\ n \notin NamesIn(t) => FirstMatch(t, n) = {}
    BY <1>2 DEF FirstMatch, NamesIn
  <1>6. ASSUME n # t[0].name, n \in NamesIn(t)
        PROVE  FirstMatch(t, n) = {SlotNamed(t, n)}
    <2> DEFINE s == SlotNamed(t, n)
    <2>1. s \in UsedSlots(t) /\ t[s].name = n /\ \A i \in UsedSlots(t) : t[i].name = n => i = s
      BY <1>6, SlotNamedIs
    <2> HIDE DEF s
    <2>2. s \in Slot /\ \A i \in Slot : t[i].name = n => i = s
      BY <1>2, <1>3, <1>6, <2>1
    <2>3. \A k \in 0 .. s - 1 : k \in Slot /\ k # s
      BY <1>1, <2>2
    <2>4. FirstMatch(t, n) = {s}
      BY <2>1, <2>2, <2>3 DEF FirstMatch
    <2> QED
      BY <2>4 DEF s
  <1>7. NameTaken(t, n) <=> n \in NamesIn(t)
    BY <1>1, <1>2, <1>3, Slots DEF NameTaken, NamesIn, UsedSlots
  <1> QED
    BY <1>4, <1>5, <1>6, <1>7

\* What the invariant says of the volume.
LEMMA Usual ==
    ASSUME StoreInv
    PROVE  /\ TypeOK /\ TypeInv /\ CoherentInv /\ VolumeInv /\ SlotsInv /\ Allocated
           /\ Live(diskFat, content) \subseteq StoreCluster
           /\ ClosedUnder(diskFat, content, Live(diskFat, content))
           /\ LiveDirs = DirsOf(diskFat, content) /\ ROOT \in LiveDirs
           /\ \E O \in SUBSET StoreCluster :
                 TreeInv(O) /\ Volume(O) /\ Live(diskFat, content) \subseteq O \cup {ROOT}
  <1>1. TypeOK /\ TypeInv /\ CoherentInv /\ VolumeInv /\ SlotsInv /\ Usable
    BY DEF StoreInv, Inv, TypeInv, VolumeInv
  <1>2. PICK O \in SUBSET StoreCluster : TreeInv(O)
    BY <1>1 DEF VolumeInv
  <1>3. Volume(O) /\ Allocated
    BY <1>1, <1>2, UsableAllocated DEF TreeInv
  <1>4. /\ Live(diskFat, content) \subseteq StoreCluster
        /\ ClosedUnder(diskFat, content, Live(diskFat, content))
    BY LiveClosed
  <1>5. Live(diskFat, content) \subseteq O \cup {ROOT}
    BY <1>1, <1>3, LiveInside
  <1>6. ROOT \in LiveDirs
    BY <1>3, <1>4 DEF LiveDirs, ClosedUnder, Volume, Tables
  <1> QED
    BY <1>1, <1>2, <1>3, <1>4, <1>5, <1>6 DEF LiveDirs, DirsOf

\* A directory of the tree is the root or some directory's entry: chains are of data.
LEMMA DirIsEntry ==
    ASSUME StoreInv, NEW d \in LiveDirs, d # ROOT
    PROVE  \E p \in LiveDirs, i \in UserSlot :
              IsEntry(p, i) /\ EntryAt(p, i).subdir /\ EntryAt(p, i).cluster = d
  <1> DEFINE L == Live(diskFat, content)
             Named(c) == \E p \in LiveDirs, i \in UserSlot :
                 IsEntry(p, i) /\ EntryAt(p, i).subdir /\ EntryAt(p, i).cluster = c
             S == {c \in L : c = ROOT \/ content[c].kind = "block" \/ Named(c)}
  <1>1. /\ TypeOK /\ diskFat[ROOT] = END_OF_FILE /\ L \subseteq StoreCluster
        /\ ClosedUnder(diskFat, content, L) /\ ROOT \in LiveDirs
    BY Usual DEF Allocated
  <1>2. PICK O \in SUBSET StoreCluster : Volume(O) /\ L \subseteq O \cup {ROOT}
    BY Usual
  <1>3. ASSUME NEW c \in S, NEW i \in UsedSlots(TableOf(content[c]))
        PROVE  TableOf(content[c])[i].cluster \in S
    <2>1. c \in StoreCluster /\ c \in L
      BY <1>1
    <2>2. /\ i \in UserSlot /\ IsEntry(c, i) /\ TableOf(content[c])[i] = EntryAt(c, i)
          /\ EntryAt(c, i).cluster \in StoreCluster /\ EntryIntact(EntryAt(c, i))
      BY <1>1, <1>2, <1>3, <2>1, EntryOfTable
    <2>3. TableOf(content[c])[i].cluster \in L
      BY <1>1, <1>3, <2>1, <2>2 DEF ClosedUnder, Successors
    <2>4. c \in LiveDirs
      BY <2>1, <2>2 DEF LiveDirs, IsEntry
    <2>5. EntryAt(c, i).subdir \/ content[EntryAt(c, i).cluster].kind = "block"
      BY <2>2 DEF EntryIntact, FileIntact
    <2> QED
      BY <2>2, <2>3, <2>4, <2>5
  <1>4. ASSUME NEW c \in S, diskFat[c] \in StoreCluster
        PROVE  diskFat[c] \in S
    <2>1. diskFat[c] # END_OF_FILE /\ c # ROOT /\ diskFat[c] \in L
      BY <1>1, <1>4, Numbers DEF ClosedUnder, Successors
    <2>2. CASE content[c].kind = "block"
      <3>1. BlockIntact(c)
        BY <1>2, <2>1, <2>2 DEF Volume, Chains
      <3> QED
        BY <2>1, <3>1, BlockFields DEF BlockIntact
    <2>3. CASE Named(c)
      <3>1. PICK p \in LiveDirs, i \in UserSlot :
                IsEntry(p, i) /\ EntryAt(p, i).subdir /\ EntryAt(p, i).cluster = c
        BY <2>3
      <3>2. EntryIntact(EntryAt(p, i))
        BY <1>2, <3>1 DEF Volume, Entries, IsEntry
      <3> QED
        BY <2>1, <3>1, <3>2 DEF EntryIntact, DirectoryIntact
    <2> QED
      BY <1>4, <2>1, <2>2, <2>3
  <1>5. ROOT \in S /\ S \in SUBSET StoreCluster
    BY <1>1 DEF LiveDirs
  <1> HIDE DEF S, Named
  <1>6. ClosedUnder(diskFat, content, S)
    BY <1>3, <1>4, <1>5 DEF ClosedUnder, Successors
  <1>7. d \in S /\ content[d].kind # "block"
    BY <1>5, <1>6, LiveLeast DEF LiveDirs
  <1> QED
    BY <1>7 DEF S, Named

\* A directory of the tree is alone in its chain and says its own number and name.
LEMMA DirIs ==
    ASSUME StoreInv, NEW d \in LiveDirs
    PROVE  /\ d \in StoreCluster /\ content[d].kind = "table"
           /\ TableOf(content[d]) = content[d].table
           /\ content[d].table \in [Slot -> Entry] /\ GoodTable(content[d].table)
           /\ diskFat[d] = END_OF_FILE
           /\ content[d].table[0].subdir /\ content[d].table[0].cluster = d
           /\ LabelOf(d) \in Name \cup {ROOT_NAME} /\ LabelOf(d) # NO_NAME
           /\ \A i \in UsedSlots(content[d].table) : i \in UserSlot /\ IsEntry(d, i)
  <1>1. TypeOK /\ Allocated /\ SelfEntries /\ NamesKnown
    BY Usual DEF StoreInv
  <1>2. PICK O \in SUBSET StoreCluster : Volume(O)
    BY Usual
  <1>3. d \in StoreCluster /\ content[d].kind = "table"
    BY Usual DEF LiveDirs
  <1>4. /\ TableOf(content[d]) = content[d].table /\ content[d].table \in [Slot -> Entry]
        /\ GoodTable(content[d].table)
    BY <1>1, <1>2, <1>3, ContentKinds DEF Volume, Tables
  <1>5. \A i \in UsedSlots(content[d].table) : i \in UserSlot /\ IsEntry(d, i)
    BY <1>3 DEF IsEntry, EntryAt, UsedSlots
  <1>6. NO_NAME \notin Name \cup {ROOT_NAME}
    BY CallersAssumption
  <1>7. CASE d = ROOT
    BY <1>1, <1>3, <1>4, <1>5, <1>6, <1>7 DEF Allocated, SelfEntries
  <1>8. CASE d # ROOT
    <2>1. PICK p \in LiveDirs, i \in UserSlot :
              IsEntry(p, i) /\ EntryAt(p, i).subdir /\ EntryAt(p, i).cluster = d
      BY <1>8, DirIsEntry
    <2>2. p \in StoreCluster
      BY <2>1 DEF IsEntry
    <2>3. DirectoryIntact(EntryAt(p, i)) /\ EntryAt(p, i).name \in Name
      BY <1>1, <1>2, <2>1, <2>2 DEF Volume, Entries, EntryIntact, NamesKnown
    <2>4. LabelOf(d) \in Name /\ content[d].table[0].cluster = d /\ diskFat[d] = END_OF_FILE
      BY <2>1, <2>3 DEF DirectoryIntact, LabelOf
    <2> QED
      BY <1>1, <1>3, <1>4, <1>5, <1>6, <2>4 DEF SelfEntries
  <1> QED
    BY <1>7, <1>8

\* An entry of the tree leads to a directory of the tree, by its name, or to a file.
LEMMA EntryLeads ==
    ASSUME StoreInv, NEW d \in LiveDirs, NEW i \in UsedSlots(content[d].table)
    PROVE  LET e == content[d].table[i]
               p == content[e.cluster].payload
               w == Walk(diskFat, e.cluster)
           IN  /\ e.name \in Name /\ e.cluster \in Live(diskFat, content)
               /\ e.cluster \in StoreCluster /\ WalkEnds(diskFat, e.cluster)
               /\ e.subdir => e.cluster \in LiveDirs /\ LabelOf(e.cluster) = e.name
               /\ ~e.subdir =>
                     /\ content[e.cluster].kind = "block" /\ p \in Payload
                     /\ e.size = ClustersOf[p] /\ FileAt(e.cluster) = p
                     /\ [k \in DOMAIN w |-> content[w[k]]] =
                           [k \in 0 .. ClustersOf[p] - 1 |-> Block(p, k)]
  <1> DEFINE e == EntryAt(d, i)
             p == content[e.cluster].payload
             L == Live(diskFat, content)
  <1>1. /\ TypeOK /\ L \subseteq StoreCluster /\ ClosedUnder(diskFat, content, L)
        /\ NamesKnown
    BY Usual DEF StoreInv
  <1>2. PICK O \in SUBSET StoreCluster : Volume(O)
    BY Usual
  <1>3. /\ d \in StoreCluster /\ TableOf(content[d]) = content[d].table
        /\ i \in UserSlot /\ IsEntry(d, i) /\ content[d].table[i] = e
    BY DirIs DEF EntryAt
  <1>4. e.cluster \in O /\ e.cluster \in StoreCluster /\ e.cluster \in Cluster /\ EntryIntact(e)
    BY <1>2, <1>3, Numbers DEF Volume, Entries, Chains
  <1>5. e.name \in Name
    BY <1>1, <1>3 DEF NamesKnown
  <1>6. e.cluster \in L /\ d \in L
    <2>1. d \in L
      BY DEF LiveDirs
    <2>2. e.cluster \in Successors(diskFat, content, d)
      BY <1>3 DEF Successors
    <2> QED
      BY <1>1, <1>4, <2>1, <2>2 DEF ClosedUnder
  <1>7. CASE e.subdir
    <2>1. DirectoryIntact(e)
      BY <1>4, <1>7 DEF EntryIntact
    <2>2. e.cluster \in LiveDirs /\ LabelOf(e.cluster) = e.name
      BY <1>6, <2>1 DEF DirectoryIntact, LiveDirs, LabelOf
    <2>3. WalkEnds(diskFat, e.cluster)
      <3>1. e.cluster \in ChainSet(diskFat, e.cluster)
        BY <1>4, ChainFacts
      <3> QED
        BY <2>1, <3>1 DEF DirectoryIntact, WalkEnds
    <2> QED
      BY <1>3, <1>4, <1>5, <1>6, <1>7, <2>2, <2>3
  <1>8. CASE ~e.subdir
    <2>1. /\ content[e.cluster].kind = "block" /\ content[e.cluster].index = 0
          /\ ClustersOf[p] = e.size
      BY <1>4, <1>8 DEF EntryIntact, FileIntact
    <2>2. p \in Payload /\ content[e.cluster] = Block(p, 0)
      <3>1. content[e.cluster] \in Content
        BY <1>1, <1>4 DEF TypeOK
      <3>2. content[e.cluster] \in [kind : {"block"}, payload : Payload, index : Nat]
        BY <2>1, <3>1 DEF Content
      <3> QED
        BY <2>1, <3>2 DEF Block
    <2> HIDE DEF e, p
    <2>3. LET w == Walk(diskFat, e.cluster) IN
          /\ [k \in DOMAIN w |-> content[w[k]]] = [k \in 0 .. ClustersOf[p] - 1 |-> Block(p, k)]
          /\ FileAt(e.cluster) = p /\ WalkEnds(diskFat, e.cluster)
      BY <1>1, <1>2, <1>4, <2>2, FileIsRead
    <2> QED
      BY <1>3, <1>4, <1>5, <1>6, <1>8, <2>1, <2>2, <2>3 DEF p
  <1> QED
    BY <1>7, <1>8

\* What FileStore's store is mapped to is the tree.
LEMMA StoreIsTree == StoreInv => absStore = TreeOf(diskFat, content)
  <1> SUFFICES ASSUME StoreInv PROVE absStore = TreeOf(diskFat, content)
    OBVIOUS
  <1>1. ASSUME NEW d \in LiveDirs, NEW n \in NamesIn(content[d].table)
        PROVE  LET e == content[d].table[SlotNamed(content[d].table, n)] IN
               (IF e.subdir THEN [kind |-> "dir", id |-> e.cluster]
                ELSE [kind |-> "file", payload |-> FileAt(e.cluster)])
               = NodeOf(content, e)
    <2>1. SlotNamed(content[d].table, n) \in UsedSlots(content[d].table)
      BY <1>1, DirIs, SlotNamedIs
    <2> QED
      BY <2>1, EntryLeads DEF NodeOf
  <1>2. ASSUME NEW d \in LiveDirs
        PROVE  [label |-> content[d].table[0].name,
                nodes |-> [n \in NamesIn(content[d].table) |->
                    LET e == content[d].table[SlotNamed(content[d].table, n)] IN
                    IF e.subdir THEN [kind |-> "dir", id |-> e.cluster]
                    ELSE [kind |-> "file", payload |-> FileAt(e.cluster)]]]
               = [label |-> content[d].table[0].name, nodes |-> NodesOf(content, content[d].table)]
    BY <1>1 DEF NodesOf
  <1>3. LiveDirs = DirsOf(diskFat, content)
    BY Usual
  <1> QED
    BY <1>2, <1>3 DEF absStore, TreeOf

\* A step that leaves all that is reachable alone leaves the tree alone.
LEMMA TreeKept ==
    ASSUME NEW F, NEW C, NEW G, NEW D,
           \A c \in Live(F, C) : G[c] = F[c] /\ D[c] = C[c],
           \A d \in DirsOf(F, C) : \A n \in NamesIn(C[d].table) :
              C[d].table[SlotNamed(C[d].table, n)].cluster \in Live(F, C)
    PROVE  Live(G, D) = Live(F, C) /\ TreeOf(G, D) = TreeOf(F, C)
  <1> DEFINE L == Live(F, C)
  <1>1. L \in SUBSET StoreCluster /\ ClosedUnder(F, C, L)
    BY LiveClosed
  <1>2. \A c \in L : Successors(G, D, c) = Successors(F, C, c)
    BY DEF Successors
  <1>3. Live(G, D) = L
    <2>1. L \subseteq Live(G, D)
      BY <1>2, LiveGrows
    <2>2. ClosedUnder(G, D, L)
      BY <1>1, <1>2 DEF ClosedUnder
    <2> QED
      BY <1>1, <2>1, <2>2, LiveLeast
  <1>4. DirsOf(G, D) = DirsOf(F, C)
    BY <1>3 DEF DirsOf
  <1>5. ASSUME NEW d \in DirsOf(F, C)
        PROVE  D[d].table = C[d].table /\ NodesOf(D, D[d].table) = NodesOf(C, C[d].table)
    <2>1. D[d] = C[d]
      BY DEF DirsOf
    <2>2. ASSUME NEW n \in NamesIn(C[d].table)
          PROVE  NodeOf(D, C[d].table[SlotNamed(C[d].table, n)])
                 = NodeOf(C, C[d].table[SlotNamed(C[d].table, n)])
      BY <2>2 DEF NodeOf
    <2> QED
      BY <2>1, <2>2 DEF NodesOf
  <1> QED
    BY <1>3, <1>4, <1>5 DEF TreeOf

-----------------------------------------------------------------------------
(* The invariant is inductive.                                               *)

\* A call begins on a directory of the tree, with the cache in step.
LEMMA CallBegins ==
    ASSUME StoreInv, pc = "begin"
    PROVE  /\ req.parent \in LiveDirs /\ fat_table = diskFat /\ ParentValid
           /\ ParentTable = content[req.parent].table /\ GoodTable(ParentTable)
           /\ req.name # NO_NAME
           /\ req.op # "read_directory" =>
                 req.name \in Name /\ req.name # ParentTable[0].name
           /\ req.op = "read_directory" => req.name \in Name \cup {ParentTable[0].name}
           /\ req.op = "read" => req.capacity \in Capacities
  <1>1. /\ req.op \in {"read", "read_directory", "write", "delete"} /\ CallKnown
        /\ FatCoherent
    BY DEF StoreInv, Served, Inv, CoherentInv
  <1>2. req.parent \in LiveDirs /\ fat_table = diskFat
    BY <1>1 DEF CallKnown, FatCoherent
  <1>3. NO_NAME \notin Name
    BY CallersAssumption
  <1> QED
    BY <1>1, <1>2, <1>3, DirIs DEF CallKnown, ParentTable, ParentValid, LabelOf

\* What the scans find, in the words of the tree.
LEMMA CallFinds ==
    ASSUME StoreInv, pc = "begin"
    PROVE  LET t == ParentTable
               i == SlotNamed(t, req.name)
           IN  /\ req.name = t[0].name => FirstMatch(t, req.name) = {0}
               /\ req.name # t[0].name =>
                     FirstMatch(t, req.name) = IF req.name \in NamesIn(t) THEN {i} ELSE {}
               /\ NameTaken(t, req.name) <=> req.name \in NamesIn(t)
               /\ req.name \in NamesIn(t) =>
                     i \in UsedSlots(t) /\ i \in UserSlot /\ t[i].name = req.name
  <1>1. /\ GoodTable(ParentTable) /\ req.name # NO_NAME
    BY CallBegins
  <1>2. req.name \in NamesIn(ParentTable) =>
           /\ SlotNamed(ParentTable, req.name) \in UsedSlots(ParentTable)
           /\ ParentTable[SlotNamed(ParentTable, req.name)].name = req.name
    BY <1>1, SlotNamedIs
  <1> QED
    BY <1>1, <1>2, MatchIs DEF UsedSlots

\* read finds a file and comes to the end of its chain.
LEMMA ReadFileFinds ==
    ASSUME StoreInv, ReadFile
    PROVE  LET t == ParentTable
               e == t[SlotNamed(t, req.name)]
               p == content[e.cluster].payload
           IN  /\ pc = "begin" /\ req.op = "read" /\ req.name \in NamesIn(t) /\ ~e.subdir
               /\ req.capacity >= CountOf(e.size)
               /\ Answer(0, [k \in 0 .. ClustersOf[p] - 1 |-> Block(p, k)])
  <1> DEFINE t == ParentTable
             s == SlotNamed(t, req.name)
  <1>1. pc = "begin" /\ req.op = "read"
    BY DEF ReadFile, Serving
  <1>2. /\ fat_table = diskFat /\ req.parent \in LiveDirs /\ t = content[req.parent].table
        /\ req.name # t[0].name
    BY <1>1, CallBegins
  <1>3. /\ FirstMatch(t, req.name) = IF req.name \in NamesIn(t) THEN {s} ELSE {}
        /\ req.name \in NamesIn(t) => s \in UsedSlots(t)
    BY <1>1, <1>2, CallFinds
  <1>4. PICK i \in FirstMatch(t, req.name) :
          LET e == t[i]
              w == Walk(fat_table, e.cluster)
          IN  /\ ~e.subdir /\ req.capacity >= CountOf(e.size)
              /\ IF WalkEnds(fat_table, e.cluster)
                 THEN Answer(0, [k \in DOMAIN w |-> content[w[k]]])
                 ELSE Hang
    BY DEF ReadFile
  <1> HIDE DEF t
  <1>5. i = s /\ req.name \in NamesIn(t) /\ s \in UsedSlots(t)
    BY <1>3, <1>4
  <1> HIDE DEF s
  <1> DEFINE e == t[s]
             w == Walk(diskFat, e.cluster)
             p == content[e.cluster].payload
  <1>6. /\ WalkEnds(diskFat, e.cluster)
        /\ ~e.subdir => [k \in DOMAIN w |-> content[w[k]]] =
                           [k \in 0 .. ClustersOf[p] - 1 |-> Block(p, k)]
    <2>1. s \in UsedSlots(content[req.parent].table)
      BY <1>2, <1>5
    <2>2. LET x == content[req.parent].table[s]
              q == content[x.cluster].payload
              v == Walk(diskFat, x.cluster)
          IN  /\ WalkEnds(diskFat, x.cluster)
              /\ ~x.subdir => [k \in DOMAIN v |-> content[v[k]]] =
                                 [k \in 0 .. ClustersOf[q] - 1 |-> Block(q, k)]
      BY <1>2, <2>1, EntryLeads
    <2> QED
      BY <1>2, <2>2, Zenon
  <1>7. /\ ~e.subdir /\ req.capacity >= CountOf(e.size)
        /\ IF WalkEnds(diskFat, e.cluster)
           THEN Answer(0, [k \in DOMAIN w |-> content[w[k]]])
           ELSE Hang
    BY <1>2, <1>4, <1>5
  <1>8. Answer(0, [k \in 0 .. ClustersOf[p] - 1 |-> Block(p, k)])
    BY <1>6, <1>7
  <1> QED
    BY <1>1, <1>5, <1>7, <1>8 DEF s, t

\* delete finds the entry and comes to the end of the chain it frees.
LEMMA DeleteFinds ==
    ASSUME StoreInv, Delete
    PROVE  /\ pc = "begin" /\ req.op = "delete" /\ pc' = "unlink" /\ req' = req
           /\ UNCHANGED <<disk, slot_buf, reply>>
           /\ slot' \in UserSlot /\ content[req.parent].table[slot'].name = req.name
  <1> DEFINE t == ParentTable
             s == SlotNamed(t, req.name)
  <1>1. pc = "begin" /\ req.op = "delete"
    BY DEF Delete, Serving
  <1>2. /\ fat_table = diskFat /\ req.parent \in LiveDirs /\ t = content[req.parent].table
        /\ req.name # t[0].name
    BY <1>1, CallBegins
  <1>3. /\ FirstMatch(t, req.name) = IF req.name \in NamesIn(t) THEN {s} ELSE {}
        /\ req.name \in NamesIn(t) => s \in UsedSlots(t) /\ s \in UserSlot /\ t[s].name = req.name
    BY <1>1, <1>2, CallFinds
  <1>4. PICK i \in FirstMatch(t, req.name) :
          LET h == t[i].cluster
          IN  IF WalkEnds(fat_table, h)
              THEN /\ fat_table' = FreeChain(fat_table, h)
                   /\ dir_table' = [t EXCEPT ![i] = ZeroEntry]
                   /\ slot' = i /\ pc' = "unlink"
                   /\ UNCHANGED <<disk, req, slot_buf, j, sector, reply>>
              ELSE Hang
    BY DEF Delete
  <1> HIDE DEF t
  <1>5. i = s /\ s \in UsedSlots(t) /\ s \in UserSlot /\ t[s].name = req.name
    BY <1>3, <1>4
  <1> HIDE DEF s
  <1>6. WalkEnds(fat_table, t[i].cluster)
    BY <1>2, <1>5, EntryLeads
  <1> QED
    BY <1>1, <1>2, <1>4, <1>5, <1>6

\* A disk write that only changes a directory's used slots, or makes an empty table
\* or a block of something else, leaves the names and the self entries in order.
LEMMA NamesKept ==
    ASSUME StoreInv, NEW x \in StoreCluster, NEW y, Puts(x, y),
           \/ y.kind = "block" /\ x # ROOT
           \/ /\ y.kind = "table" /\ x # ROOT
              /\ y.table[0].subdir /\ \A i \in UserSlot : ~y.table[i].used
           \/ /\ content[x].kind = "table" /\ y.kind = "table"
              /\ y.table[0] = content[x].table[0]
              /\ \A i \in UserSlot : y.table[i].used => y.table[i].name \in Name
    PROVE  SelfEntries' /\ NamesKnown'
  <1>1. SelfEntries /\ NamesKnown /\ ROOT \in StoreCluster
    BY Numbers DEF StoreInv
  <1>2. content'[x] = y /\ \A c \in StoreCluster : c # x => content'[c] = content[c]
    BY DEF Puts
  <1>3. SelfEntries'
    <2>1. content'[ROOT].table[0] = content[ROOT].table[0]
      BY <1>1, <1>2
    <2>2. ASSUME NEW c \in StoreCluster, content'[c].kind = "table", LabelOf(c)' # NO_NAME
          PROVE  content'[c].table[0].subdir
      <3>1. CASE c # x
        BY <1>1, <1>2, <2>2, <3>1 DEF SelfEntries, LabelOf
      <3>2. CASE c = x
        BY <1>1, <1>2, <2>2, <3>2 DEF SelfEntries, LabelOf
      <3> QED
        BY <3>1, <3>2
    <2> QED
      BY <1>1, <2>1, <2>2 DEF SelfEntries, LabelOf
  <1>4. NamesKnown'
    <2> SUFFICES ASSUME NEW c \in StoreCluster, NEW i \in UserSlot, IsEntry(c, i)'
                 PROVE  EntryAt(c, i)'.name \in Name
      BY DEF NamesKnown
    <2>1. CASE c # x
      BY <1>1, <1>2, <2>1 DEF NamesKnown, IsEntry, EntryAt
    <2>2. CASE c = x
      BY <1>2, <2>2 DEF IsEntry, EntryAt
    <2> QED
      BY <2>1, <2>2
  <1> QED
    BY <1>3, <1>4

\* The clusters a write has found.
Found == {slot_buf[k] : k \in 0 .. LastIndex}

\* A write before its last disk write: what it has found is not reachable, and what
\* its directory is to be has not changed since it began.
LEMMA WriteKnows ==
    ASSUME StoreCalls, StoreInv, Writing
    PROVE  /\ req.op = "write" /\ req.parent \in LiveDirs /\ req.name \in Name
           /\ req.name # NO_NAME /\ req.name # LabelOf(req.parent)
           /\ req.payload \in Payload \cup {FOLDER} /\ LastIndex \in Nat
           /\ dir_table = content[req.parent].table /\ slot \in UserSlot
           /\ ~dir_table[slot].used /\ req.name \notin NamesIn(dir_table)
           /\ j \in Nat /\ (pc # "commit" => j \in 0 .. LastIndex)
           /\ pc = "block" => req.payload # FOLDER
           /\ 0 \in 0 .. LastIndex /\ Found \subseteq StoreCluster
           /\ \A c \in Found : /\ c \notin Live(diskFat, content)
                               /\ c # ROOT /\ c # req.parent
  <1>1. Inv /\ TypeInv /\ OrdinaryCalls /\ CallKnown
    BY DEF StoreCalls, StoreInv, Inv
  <1>2. PICK O \in SUBSET StoreCluster :
           TreeInv(O) /\ Live(diskFat, content) \subseteq O \cup {ROOT}
    BY Usual
  <1>3. /\ req.op = "write" /\ LastIndex \in Nat /\ Taken(O) /\ Aimed
        /\ req.payload \in Payload \cup {FOLDER}
        /\ j \in Nat /\ (pc # "commit" => j \in 0 .. LastIndex)
        /\ pc = "block" => req.payload # FOLDER
    BY <1>1, <1>2, WritingFacts
  <1>4. req.parent \in LiveDirs /\ req.name \in Name /\ req.name # LabelOf(req.parent)
    BY <1>1, <1>3 DEF CallKnown
  <1>5. /\ dir_table = content[req.parent].table /\ slot \in UserSlot
        /\ ~dir_table[slot].used /\ req.name \notin NamesIn(dir_table)
    BY <1>3 DEF Aimed, FirstUnused, NameTaken, NamesIn, UsedSlots
  <1>6. ASSUME NEW k \in 0 .. LastIndex
        PROVE  /\ slot_buf[k] \in StoreCluster /\ slot_buf[k] \notin Live(diskFat, content)
               /\ slot_buf[k] # ROOT /\ slot_buf[k] # req.parent
    BY <1>2, <1>3, TakenFacts
  <1>7. req.name # NO_NAME
    BY <1>4, CallersAssumption
  <1>8. 0 \in 0 .. LastIndex
    BY <1>3
  <1> QED
    BY <1>3, <1>4, <1>5, <1>6, <1>7, <1>8 DEF Found

\* The last disk write of a write: the entry, and where it leads to.
LEMMA CommitMakes ==
    ASSUME StoreCalls, StoreInv, Commit
    PROVE  /\ pc = "commit" /\ Writing /\ diskFat' = diskFat /\ Return(0, <<>>)
           /\ \E e : /\ e.used = TRUE /\ e.name = req.name /\ e.cluster = slot_buf[0]
                     /\ e.subdir = (req.payload = FOLDER)
                     /\ Puts(req.parent, Table([content[req.parent].table EXCEPT ![slot] = e]))
           /\ \A c \in Found : diskFat[c] = END_OF_FILE \/ diskFat[c] \in Found
           /\ req.payload = FOLDER =>
                 /\ Found = {slot_buf[0]}
                 /\ content[slot_buf[0]] = Table(DirTable(req.name, slot_buf[0]))
           /\ req.payload # FOLDER =>
                 \A k \in 0 .. LastIndex : content[slot_buf[k]] = Block(req.payload, k)
  <1>1. pc = "commit" /\ Writing /\ diskFat' = diskFat /\ Return(0, <<>>)
    BY DEF Commit, Writing
  <1>2. TypeInv /\ TypeOK /\ OrdinaryCalls
    BY Usual DEF StoreCalls
  <1>3. PICK O \in SUBSET StoreCluster : TreeInv(O)
    BY Usual
  <1>4. /\ req.payload \in Payload \cup {FOLDER} /\ LastIndex \in Nat
        /\ req.payload = FOLDER => LastIndex = 0
        /\ req.parent \in StoreCluster /\ Written
    BY <1>1, <1>2, <1>3, WritingFacts
  <1>5. dir_table = content[req.parent].table
    BY <1>1, WriteKnows
  <1>6. PICK e : e = [name |-> req.name, subdir |-> req.payload = FOLDER,
                      used |-> TRUE, cluster |-> slot_buf[0],
                      size |-> IF req.payload = FOLDER THEN 0
                               ELSE ClustersOf[req.payload]]
    OBVIOUS
  <1>7. PICK t : t = [dir_table EXCEPT ![slot] = e]
    OBVIOUS
  <1>8. content' = [content EXCEPT ![req.parent] = Table(t)]
    <2>1. Required(req.payload) # 0
      BY <1>2, <1>4, CountKept
    <2>2. EntryHeads = {slot_buf[0]}
      BY <2>1 DEF EntryHeads
    <2> QED
      BY <1>6, <1>7, <2>2 DEF Commit
  <1>9. Puts(req.parent, Table(t))
    BY <1>2, <1>4, <1>8, PutsExcept
  <1>10. /\ e.used = TRUE /\ e.name = req.name /\ e.cluster = slot_buf[0]
         /\ e.subdir = (req.payload = FOLDER)
    BY <1>6
  <1>11. \E x : /\ x.used = TRUE /\ x.name = req.name /\ x.cluster = slot_buf[0]
                /\ x.subdir = (req.payload = FOLDER)
                /\ Puts(req.parent, Table([content[req.parent].table EXCEPT ![slot] = x]))
    BY <1>5, <1>7, <1>9, <1>10
  <1>12. ASSUME NEW k \in 0 .. LastIndex
         PROVE  /\ diskFat[slot_buf[k]] = NextOf(k)
                /\ req.payload # FOLDER => content[slot_buf[k]] = Block(req.payload, k)
    <2>1. j = LastIndex /\ Linked(j) /\ (req.payload # FOLDER => Stored(j))
          /\ \A m \in 0 .. j - 1 : Linked(m) /\ Stored(m)
      BY <1>1, <1>4 DEF Written
    <2>2. k = j \/ k \in 0 .. j - 1
      BY <1>4, <2>1
    <2> QED
      BY <2>1, <2>2 DEF Linked, Stored
  <1>13. \A c \in Found : diskFat[c] = END_OF_FILE \/ diskFat[c] \in Found
    <2> SUFFICES ASSUME NEW k \in 0 .. LastIndex
                 PROVE  diskFat[slot_buf[k]] = END_OF_FILE \/ diskFat[slot_buf[k]] \in Found
      BY DEF Found
    <2>1. k < LastIndex => k + 1 \in 0 .. LastIndex
      BY <1>4
    <2> QED
      BY <1>12, <2>1 DEF NextOf, Found
  <1>14. req.payload = FOLDER =>
            /\ Found = {slot_buf[0]}
            /\ content[slot_buf[0]] = Table(DirTable(req.name, slot_buf[0]))
    BY <1>1, <1>4 DEF Written, ChildMade, Found
  <1> QED
    BY <1>1, <1>11, <1>12, <1>13, <1>14

\* The first disk write of a delete: the entry goes, and the directory stays in the
\* tree, for all that leads to it is left alone.
LEMMA UnlinkMakes ==
    ASSUME StoreCalls, StoreInv, Unlink
    PROVE  /\ pc = "unlink" /\ pc' = "flush" /\ diskFat' = diskFat
           /\ req' = req /\ req.op = "delete" /\ reply' = reply
           /\ req.parent \in LiveDirs /\ req.name \in Name
           /\ slot \in UsedSlots(content[req.parent].table) /\ slot \in UserSlot
           /\ content[req.parent].table[slot].name = req.name
           /\ Puts(req.parent, Table([content[req.parent].table EXCEPT ![slot] = ZeroEntry]))
           /\ req.parent \in Live(diskFat', content')
  <1>1. /\ pc = "unlink" /\ pc' = "flush" /\ diskFat' = diskFat /\ req' = req
        /\ reply' = reply /\ content' = [content EXCEPT ![req.parent] = Table(dir_table)]
    BY DEF Unlink
  <1>2. TypeInv /\ TypeOK /\ CallKnown /\ Served
    BY Usual DEF StoreInv
  <1>3. req.op = "delete"
    BY <1>1, <1>2 DEF TypeInv, Control
  <1>4. req.parent \in LiveDirs /\ req.name \in Name
    BY <1>2, <1>3 DEF CallKnown
  <1>5. PICK O \in SUBSET StoreCluster : TreeInv(O)
    BY Usual
  <1>6. /\ IsEntry(req.parent, slot)
        /\ dir_table = [content[req.parent].table EXCEPT ![slot] = ZeroEntry]
    BY <1>1, <1>5 DEF TreeInv, UnlinkInv
  <1>7. /\ slot \in UsedSlots(content[req.parent].table) /\ slot \in UserSlot
        /\ content[req.parent].table[slot].name = req.name
    BY <1>1, <1>2, <1>6 DEF Served, IsEntry, EntryAt, UsedSlots
  <1>8. Puts(req.parent, Table([content[req.parent].table EXCEPT ![slot] = ZeroEntry]))
    BY <1>1, <1>2, <1>4, <1>6, DirIs, PutsExcept
  <1>9. req.parent \in Live(diskFat', content')
    <2> DEFINE M == Live(diskFat', content')
    <2> SUFFICES ASSUME req.parent \notin M PROVE FALSE
      OBVIOUS
    <2>1. M \in SUBSET StoreCluster /\ ClosedUnder(diskFat', content', M)
      BY LiveClosed
    <2>2. \A c \in M : content'[c] = content[c] /\ diskFat'[c] = diskFat[c]
      BY <1>1, <1>8, <2>1 DEF Puts
    <2> HIDE DEF M
    <2>3. \A c \in M : Successors(diskFat, content, c) = Successors(diskFat', content', c)
      BY <2>2 DEF Successors
    <2>4. ClosedUnder(diskFat, content, M)
      BY <2>1, <2>3 DEF ClosedUnder
    <2>5. Live(diskFat, content) \subseteq M
      BY <2>1, <2>4, LiveLeast
    <2> QED
      BY <1>4, <2>5 DEF LiveDirs, M
  <1> QED
    BY <1>1, <1>3, <1>4, <1>7, <1>8, <1>9

\* The driver formats no disk that is one already.
LEMMA NoFormat == StoreInv => ~Format /\ ~FormatRoot /\ req.op # "format"
  <1> SUFFICES ASSUME StoreInv PROVE ~Format /\ ~FormatRoot /\ req.op # "format"
    OBVIOUS
  <1>1. signed /\ Served /\ Control
    BY DEF StoreInv, Inv, TypeInv
  <1>2. NoRequest.op = "none"
    BY DEF NoRequest, Ask
  <1>3. req.op # "format"
    BY <1>1, <1>2 DEF Served
  <1> QED
    BY <1>1, <1>3 DEF Format, FormatRoot, Control

LEMMA NextNames ==
    ASSUME StoreCalls, StoreInv, [Next]_vars
    PROVE  SelfEntries' /\ NamesKnown'
  <1>1. TypeOK /\ SelfEntries /\ NamesKnown
    BY Usual DEF StoreInv
  <1>2. CASE content' = content
    BY <1>1, <1>2 DEF SelfEntries, LabelOf, NamesKnown, IsEntry, EntryAt
  <1>3. CASE WriteChild
    <2>1. Writing /\ slot_buf[0] \in Found
      <3>1. Writing
        BY <1>3 DEF WriteChild, Writing
      <3> QED
        BY <3>1, WriteKnows DEF Found
    <2>2. slot_buf[0] \in StoreCluster /\ slot_buf[0] # ROOT /\ req.name \in Name
      BY <2>1, WriteKnows
    <2>3. Puts(slot_buf[0], Table(DirTable(req.name, slot_buf[0])))
      BY <1>1, <1>3, <2>2, PutsExcept DEF WriteChild
    <2>4. /\ \A i \in Slot : ~DirTable(req.name, slot_buf[0])[i].used
          /\ DirTable(req.name, slot_buf[0])[0].subdir
      <3>1. req.name \in AnyName /\ slot_buf[0] \in Cluster
        BY <2>2, Numbers DEF AnyName
      <3>2. \A i \in Slot : ~DirTable(req.name, slot_buf[0])[i].used
        BY <3>1, NewTable
      <3>3. DirTable(req.name, slot_buf[0])[0].subdir
        BY EntryFacts DEF DirTable, ZeroTable
      <3> QED
        BY <3>2, <3>3
    <2>5. PICK y : y = Table(DirTable(req.name, slot_buf[0]))
      OBVIOUS
    <2>6. /\ y.kind = "table" /\ y.table[0].subdir /\ \A i \in UserSlot : ~y.table[i].used
      BY <2>4, <2>5, TableFields, Slots
    <2> QED
      BY <2>2, <2>3, <2>5, <2>6, NamesKept
  <1>4. CASE WriteBlock
    <2>1. Writing /\ j \in 0 .. LastIndex /\ pc = "block"
      <3>1. Writing /\ pc = "block"
        BY <1>4 DEF WriteBlock, Writing
      <3> QED
        BY <3>1, WriteKnows
    <2>2. slot_buf[j] \in StoreCluster /\ slot_buf[j] # ROOT
      BY <2>1, WriteKnows DEF Found
    <2>3. Puts(slot_buf[j], Block(req.payload, j))
      BY <1>1, <1>4, <2>2, PutsExcept DEF WriteBlock
    <2> QED
      BY <2>2, <2>3, NamesKept, BlockFields
  <1>5. CASE Commit \/ Unlink
    <2>1. /\ req.parent \in LiveDirs /\ req.name \in Name /\ slot \in UserSlot
          /\ \E e : /\ e.used => e.name \in Name
                    /\ Puts(req.parent, Table([content[req.parent].table EXCEPT ![slot] = e]))
      <3>1. CASE Commit
        BY <1>5, <3>1, CommitMakes, WriteKnows
      <3>2. CASE Unlink
        <4>1. ~ZeroEntry.used
          BY DEF ZeroEntry
        <4> QED
          BY <3>2, <4>1, UnlinkMakes
      <3> QED
        BY <1>5, <3>1, <3>2
    <2>2. PICK e : /\ e.used => e.name \in Name
                   /\ Puts(req.parent, Table([content[req.parent].table EXCEPT ![slot] = e]))
      BY <2>1
    <2>3. PICK t : t = [content[req.parent].table EXCEPT ![slot] = e]
      OBVIOUS
    <2>4. /\ req.parent \in StoreCluster /\ content[req.parent].kind = "table"
          /\ content[req.parent].table \in [Slot -> Entry]
          /\ \A i \in UsedSlots(content[req.parent].table) : IsEntry(req.parent, i)
      BY <2>1, DirIs
    <2>5. t[0] = content[req.parent].table[0]
      BY <2>1, <2>3, <2>4, Slots
    <2>6. ASSUME NEW i \in UserSlot, t[i].used PROVE t[i].name \in Name
      <3>1. CASE i = slot
        BY <2>1, <2>2, <2>3, <2>4, <2>6, <3>1, Slots
      <3>2. CASE i # slot
        <4>1. t[i] = content[req.parent].table[i]
          BY <2>1, <2>3, <2>4, <3>2, Slots
        <4>2. i \in UsedSlots(content[req.parent].table)
          BY <2>6, <4>1 DEF UsedSlots
        <4> QED
          BY <1>1, <2>4, <4>1, <4>2 DEF NamesKnown, EntryAt
      <3> QED
        BY <3>1, <3>2
    <2>7. PICK y : y = Table(t)
      OBVIOUS
    <2>8. /\ y.kind = "table" /\ y.table[0] = content[req.parent].table[0]
          /\ \A i \in UserSlot : y.table[i].used => y.table[i].name \in Name
      BY <2>5, <2>6, <2>7, TableFields
    <2>9. Puts(req.parent, y)
      BY <2>2, <2>3, <2>7
    <2> QED
      BY <2>4, <2>8, <2>9, NamesKept
  <1>6. ~FormatRoot
    BY NoFormat
  <1>7. CASE UNCHANGED vars \/ Mount \/ Format \/ Invoke \/ Crash \/ WriteStart \/ LinkCluster
             \/ FlushSector \/ FlushLast \/ Delete
    BY <1>2, <1>7 DEF vars, disk, Mount, Format, Invoke, Crash, WriteStart, LinkCluster,
                      FlushSector, FlushLast, Delete, Hang
  <1>8. CASE ReadRefuse \/ ReadFile \/ ReadDirectory \/ WriteRefuse \/ DeleteRefuse
    BY <1>2, <1>8 DEF ReadRefuse, ReadFile, ReadDirectory, WriteRefuse, DeleteRefuse,
                      Answer, Hang, disk
  <1> QED
    BY <1>3, <1>4, <1>5, <1>6, <1>7, <1>8 DEF Next, DriverStep

\* All other steps leave the tree alone.
LEMMA TreeStays ==
    ASSUME StoreCalls, StoreInv, [Next]_vars, ~Commit, ~Unlink
    PROVE  /\ Live(diskFat', content') = Live(diskFat, content)
           /\ LiveDirs' = LiveDirs
           /\ TreeOf(diskFat', content') = TreeOf(diskFat, content)
           /\ \A c \in Live(diskFat, content) : content'[c] = content[c]
  <1>1. Inv /\ Usable /\ OrdinaryCalls
    BY DEF StoreCalls, StoreInv
  <1>2. \A c \in Live(diskFat, content) : diskFat'[c] = diskFat[c] /\ content'[c] = content[c]
    BY <1>1, StepKeeps
  <1>3. ASSUME NEW d \in DirsOf(diskFat, content), NEW n \in NamesIn(content[d].table)
        PROVE  content[d].table[SlotNamed(content[d].table, n)].cluster \in Live(diskFat, content)
    <2>1. d \in LiveDirs
      BY Usual
    <2>2. SlotNamed(content[d].table, n) \in UsedSlots(content[d].table)
      BY <1>3, <2>1, DirIs, SlotNamedIs
    <2> QED
      BY <2>1, <2>2, EntryLeads
  <1>4. /\ Live(diskFat', content') = Live(diskFat, content)
        /\ TreeOf(diskFat', content') = TreeOf(diskFat, content)
    BY <1>2, <1>3, TreeKept
  <1> QED
    BY <1>2, <1>4 DEF LiveDirs

\* What a client of this volume asks.
LEMMA InvokeAsks ==
    ASSUME StoreCalls, StoreInv, Invoke
    PROVE  /\ req'.parent \in LiveDirs
           /\ req'.op \in {"read", "read_directory", "write", "delete"}
           /\ req'.op # "read_directory" =>
                 req'.name \in Name /\ req'.name # LabelOf(req'.parent)
           /\ req'.op = "read_directory" => req'.name \in Name \cup {LabelOf(req'.parent)}
           /\ req'.op = "read" => req'.capacity \in Capacities
           /\ req'.op = "write" => req'.payload \in Payload \cup {FOLDER}
  <1>1. Parents = LiveDirs
    BY DEF Parents, StoreCalls
  <1>2. PICK p \in LiveDirs : req' \in RequestsOn(p)
    BY <1>1 DEF Invoke
  <1>3. TableOf(content[p])[0].name = LabelOf(p)
    BY DirIs DEF LabelOf
  <1>4. {n \in {NO_NAME} : "no_name" \in Callers} = {} /\ "own_name" \notin Callers
    BY DEF StoreCalls
  <1>5. \/ \E n \in Name, k \in Capacities :
              n # LabelOf(p) /\ req' = Ask("read", p, n, FOLDER, k)
        \/ \E n \in Name \cup {LabelOf(p)} : req' = Ask("read_directory", p, n, FOLDER, 0)
        \/ \E n \in Name, x \in Payload \cup {FOLDER} :
              n # LabelOf(p) /\ req' = Ask("write", p, n, x, 0)
        \/ \E n \in Name : n # LabelOf(p) /\ req' = Ask("delete", p, n, FOLDER, 0)
    BY <1>2, <1>3, <1>4 DEF RequestsOn
  <1> QED
    BY <1>5 DEF Ask

\* The call that is served stays on a directory of the tree.
LEMMA NextCalls ==
    ASSUME StoreCalls, StoreInv, [Next]_vars
    PROVE  CallKnown'
  <1>1. CallKnown /\ NoRequest.op = "none"
    BY DEF StoreInv, NoRequest, Ask
  <1>2. CASE Invoke
    <2>1. LiveDirs' = LiveDirs /\ content' = content
      BY <1>2 DEF Invoke, disk, LiveDirs
    <2> QED
      BY <1>2, <2>1, InvokeAsks DEF CallKnown, LabelOf
  <1>3. CASE req' = NoRequest
    BY <1>1, <1>3 DEF CallKnown
  <1>4. ASSUME req' = req,
               req.parent \in LiveDirs => req.parent \in LiveDirs' /\ LabelOf(req.parent)' = LabelOf(req.parent)
        PROVE  CallKnown'
    <2>1. LabelOf(req.parent)' = content'[req.parent].table[0].name
      BY <1>4 DEF LabelOf
    <2>2. LabelOf(req.parent) = content[req.parent].table[0].name
      BY DEF LabelOf
    <2> QED
      BY <1>1, <1>4, <2>1, <2>2 DEF CallKnown, LabelOf
  <1>5. CASE Commit
    BY <1>3, <1>5 DEF Commit, Return, ClearLocals
  <1>6. CASE Unlink
    <2>1. /\ req' = req /\ req.parent \in LiveDirs /\ slot \in UserSlot
          /\ Puts(req.parent, Table([content[req.parent].table EXCEPT ![slot] = ZeroEntry]))
          /\ req.parent \in Live(diskFat', content')
      BY <1>6, UnlinkMakes
    <2>2. content[req.parent].table \in [Slot -> Entry] /\ req.parent \in StoreCluster
      BY <2>1, DirIs
    <2>3. /\ content'[req.parent].kind = "table"
          /\ content'[req.parent].table[0] = content[req.parent].table[0]
      BY <2>1, <2>2, TableFields, Slots DEF Puts
    <2> QED
      BY <1>4, <2>1, <2>3 DEF LiveDirs, LabelOf
  <1>7. CASE req' = req /\ ~Commit /\ ~Unlink
    <2>1. ASSUME req.parent \in LiveDirs
          PROVE  req.parent \in LiveDirs' /\ LabelOf(req.parent)' = LabelOf(req.parent)
      <3>1. content'[req.parent] = content[req.parent] /\ req.parent \in LiveDirs'
        BY <1>7, <2>1, TreeStays DEF LiveDirs
      <3> QED
        BY <1>7, <3>1 DEF LabelOf
    <2> QED
      BY <1>4, <1>7, <2>1
  <1>8. ~Format /\ ~FormatRoot
    BY NoFormat
  <1>9. CASE Mount \/ Crash \/ WriteStart \/ WriteChild \/ LinkCluster \/ FlushSector
             \/ FlushLast \/ WriteBlock \/ Delete \/ UNCHANGED vars
    <2>1. req' = req \/ req' = NoRequest
      BY <1>9 DEF Mount, Crash, WriteStart, WriteChild, LinkCluster, FlushSector, FlushLast,
                  WriteBlock, Delete, vars, locals, ClearLocals, Return, Hang
    <2> QED
      BY <1>3, <1>5, <1>6, <1>7, <2>1
  <1>10. CASE ReadRefuse \/ ReadFile \/ ReadDirectory \/ WriteRefuse \/ DeleteRefuse
    <2>1. req' = req \/ req' = NoRequest
      BY <1>10 DEF ReadRefuse, ReadFile, ReadDirectory, WriteRefuse, DeleteRefuse, Answer,
                   Return, ClearLocals, Hang, locals
    <2> QED
      BY <1>3, <1>5, <1>6, <1>7, <2>1
  <1> QED
    BY <1>2, <1>5, <1>6, <1>8, <1>9, <1>10 DEF Next, DriverStep

LEMMA NextServed ==
    ASSUME StoreCalls, StoreInv, [Next]_vars
    PROVE  Served' /\ pc' # "hung"
  <1>1. /\ Served /\ pc # "hung" /\ ~Format /\ ~FormatRoot /\ Control /\ SlotsInv
    BY Usual, NoFormat DEF StoreInv, TypeInv
  <1>2. CASE Invoke
    <2>1. req'.op \in {"read", "read_directory", "write", "delete"} /\ pc' = "begin"
      BY <1>2, InvokeAsks DEF Invoke
    <2> QED
      BY <2>1 DEF Served
  <1>3. CASE req' = NoRequest /\ slot_buf' = NoSlots /\ pc' \in {"off", "idle"}
    BY <1>3 DEF Served
  <1>4. CASE Mount
    BY <1>1, <1>4 DEF Mount, Served, locals
  <1>5. CASE Crash \/ Commit
    BY <1>3, <1>5 DEF Crash, Commit, Return, ClearLocals
  <1>6. CASE ReadRefuse \/ ReadDirectory \/ WriteRefuse \/ DeleteRefuse
    BY <1>3, <1>6 DEF ReadRefuse, ReadDirectory, WriteRefuse, DeleteRefuse, Answer, Return,
                      ClearLocals
  <1>7. CASE ReadFile
    BY <1>3, <1>7, ReadFileFinds DEF Answer, Return, ClearLocals
  <1>8. CASE req' = req /\ pc \notin {"off", "idle"}
             /\ pc' \notin {"off", "idle", "unlink", "hung"}
    BY <1>1, <1>8 DEF Served
  <1>9. CASE WriteStart \/ WriteChild \/ LinkCluster \/ FlushSector \/ WriteBlock \/ Unlink
    BY <1>8, <1>9 DEF WriteStart, WriteChild, LinkCluster, FlushSector, WriteBlock, Unlink,
                      Serving, locals
  <1>10. CASE FlushLast
    <2>1. CASE Return(0, <<>>)
      BY <1>3, <2>1 DEF Return, ClearLocals
    <2>2. CASE ~Return(0, <<>>)
      <3>1. req' = req /\ pc = "flush" /\ pc' \in {"format_root", "commit", "block"}
        BY <1>10, <2>2 DEF FlushLast, locals
      <3> QED
        BY <1>8, <3>1
    <2> QED
      BY <2>1, <2>2
  <1>11. CASE Delete
    <2>1. /\ pc = "begin" /\ pc' = "unlink" /\ req' = req /\ content' = content
          /\ content[req.parent].table[slot'].name = req.name
      BY <1>11, DeleteFinds DEF disk
    <2> QED
      BY <1>1, <2>1 DEF Served
  <1>12. CASE UNCHANGED vars
    BY <1>1, <1>12 DEF Served, vars
  <1> QED
    BY <1>1, <1>2, <1>4, <1>5, <1>6, <1>7, <1>9, <1>10, <1>11, <1>12 DEF Next, DriverStep

LEMMA InitStore == StoreCalls /\ Init => StoreInv
  <1> SUFFICES ASSUME StoreCalls, Init PROVE StoreInv
    OBVIOUS
  <1>1. Inv
    BY InvInductive DEF StoreCalls
  <1>2. Image("sample")
    BY DEF Init, StoreCalls
  <1>3. /\ signed /\ diskFat = [FormattedFat EXCEPT ![ROOT] = END_OF_FILE]
        /\ content = [c \in StoreCluster |->
                IF c = ROOT THEN Table(DirTable(ROOT_NAME, ROOT)) ELSE Blank]
        /\ req = NoRequest /\ slot_buf = NoSlots /\ pc = "off" /\ NoRequest.op = "none"
    BY <1>2 DEF Init, Image, NoRequest, Ask
  <1>4. Usable
    BY <1>3, FatFacts, Numbers DEF Usable, Fat
  <1>5. /\ content[ROOT].table = DirTable(ROOT_NAME, ROOT) /\ content[ROOT].kind = "table"
        /\ \A c \in StoreCluster : c # ROOT => content[c].table = ZeroTable
    BY <1>3, Numbers, TableFields DEF Blank
  <1>6. /\ DirTable(ROOT_NAME, ROOT)[0].name = ROOT_NAME
        /\ DirTable(ROOT_NAME, ROOT)[0].cluster = ROOT
        /\ DirTable(ROOT_NAME, ROOT)[0].subdir
        /\ \A i \in Slot : ~DirTable(ROOT_NAME, ROOT)[i].used
    <2>1. ROOT_NAME \in AnyName /\ ROOT \in Cluster
      BY Numbers DEF AnyName
    <2>2. DirTable(ROOT_NAME, ROOT)[0].subdir
      BY EntryFacts DEF DirTable, ZeroTable
    <2> QED
      BY <2>1, <2>2, NewTable
  <1>7. ZeroTable[0].name = NO_NAME /\ \A i \in Slot : ~ZeroTable[i].used
    BY EntryFacts, BlankGood DEF ZeroTable, ZeroEntry
  <1>8. SelfEntries
    BY <1>5, <1>6, <1>7 DEF SelfEntries, LabelOf
  <1>9. NamesKnown
    BY <1>5, <1>6, <1>7, Slots DEF NamesKnown, IsEntry, EntryAt
  <1>10. CallKnown /\ Served
    BY <1>3 DEF CallKnown, Served
  <1> QED
    BY <1>1, <1>3, <1>4, <1>8, <1>9, <1>10 DEF StoreInv

LEMMA NextStore == StoreCalls /\ StoreInv /\ [Next]_vars => StoreInv'
  <1> SUFFICES ASSUME StoreCalls, StoreInv, [Next]_vars PROVE StoreInv'
    OBVIOUS
  <1>1. Inv /\ signed /\ Usable /\ OrdinaryCalls
    BY DEF StoreCalls, StoreInv
  <1>2. Inv'
    BY <1>1, InvInductive
  <1>3. signed'
    BY <1>1 DEF Next, DriverStep, vars, disk, Mount, Format, Invoke, Crash, FormatRoot,
                ReadRefuse, ReadFile, ReadDirectory, WriteRefuse, WriteStart, WriteChild,
                LinkCluster, FlushSector, FlushLast, WriteBlock, Commit, DeleteRefuse,
                Delete, Unlink, Answer, Hang
  <1>4. Usable'
    <2>1. ROOT \in Live(diskFat, content)
      BY LiveClosed DEF ClosedUnder
    <2> QED
      BY <1>1, <2>1, StepKeeps DEF Usable
  <1> QED
    BY <1>2, <1>3, <1>4, NextNames, NextCalls, NextServed DEF StoreInv

-----------------------------------------------------------------------------
(* What the mapping makes of a state.                                         *)

\* The invariant, and that the store is mapped to the tree.
Mapped == StoreInv /\ absStore = TreeOf(diskFat, content)

LEMMA StoreAt ==
    ASSUME Mapped, NEW d \in LiveDirs
    PROVE  LET t == content[d].table IN
           /\ DOMAIN absStore = LiveDirs
           /\ absStore[d].label = LabelOf(d)
           /\ DOMAIN absStore[d].nodes = NamesIn(t)
           /\ \A n \in NamesIn(t) : absStore[d].nodes[n] = NodeOf(content, t[SlotNamed(t, n)])
  <1>1. DirsOf(diskFat, content) = LiveDirs
    BY Usual DEF Mapped
  <1>2. /\ DOMAIN absStore = LiveDirs
        /\ absStore[d] = [label |-> LabelOf(d), nodes |-> NodesOf(content, content[d].table)]
    BY <1>1 DEF Mapped, TreeOf, LabelOf
  <1>3. absStore[d].label = LabelOf(d) /\ absStore[d].nodes = NodesOf(content, content[d].table)
    BY <1>2
  <1> QED
    BY <1>2, <1>3 DEF NodesOf

\* What a listing of table t shows.
ListOf(t) ==
    [n \in NamesIn(t) |->
        LET e == t[SlotNamed(t, n)] IN
        IF e.subdir THEN [kind |-> "dir", id |-> e.cluster]
        ELSE [kind |-> "file", size |-> e.size]]

LEMMA ListingIs ==
    ASSUME Mapped, NEW d \in LiveDirs
    PROVE  FS!Listing(d) = ListOf(content[d].table)
  <1> DEFINE t == content[d].table
  <1>1. /\ DOMAIN absStore[d].nodes = NamesIn(t)
        /\ \A n \in NamesIn(t) : absStore[d].nodes[n] = NodeOf(content, t[SlotNamed(t, n)])
    BY StoreAt
  <1>2. ASSUME NEW n \in NamesIn(t)
        PROVE  LET x == absStore[d].nodes[n]
                   e == t[SlotNamed(t, n)]
               IN  (IF x.kind = "dir" THEN x
                    ELSE [kind |-> "file", size |-> ClustersOf[x.payload]])
                   = IF e.subdir THEN [kind |-> "dir", id |-> e.cluster]
                     ELSE [kind |-> "file", size |-> e.size]
    <2> DEFINE e == t[SlotNamed(t, n)]
    <2>1. SlotNamed(t, n) \in UsedSlots(t)
      BY <1>2, DirIs, SlotNamedIs DEF Mapped
    <2>2. ~e.subdir => e.size = ClustersOf[content[e.cluster].payload]
      BY <2>1, EntryLeads DEF Mapped
    <2>3. absStore[d].nodes[n] = NodeOf(content, e)
      BY <1>1, <1>2
    <2> HIDE DEF e, t
    <2>4. CASE e.subdir
      <3>1. absStore[d].nodes[n] = [kind |-> "dir", id |-> e.cluster]
        BY <2>3, <2>4 DEF NodeOf
      <3> QED
        BY <2>4, <3>1 DEF e
    <2>5. CASE ~e.subdir
      <3>1. absStore[d].nodes[n] = [kind |-> "file", payload |-> content[e.cluster].payload]
        BY <2>3, <2>5 DEF NodeOf
      <3> QED
        BY <2>2, <2>5, <3>1 DEF e
    <2> QED
      BY <2>4, <2>5
  <1> HIDE DEF t
  <1>3. FS!Listing(d) = ListOf(t)
    BY <1>1, <1>2 DEF FS!Listing, ListOf
  <1> QED
    BY <1>3 DEF t

\* The call that FileStore sees.
LEMMA CallIs ==
    ASSUME StoreInv
    PROVE  /\ pc = "off" => absCall = FS!Off
           /\ pc = "idle" => absCall = FS!None
           /\ pc \notin {"off", "idle"} => absCall =
                 CASE req.op = "read" -> [op |-> "read", parent |-> req.parent,
                                          name |-> req.name, capacity |-> req.capacity]
                   [] req.op = "write" -> [op |-> "write", parent |-> req.parent,
                                           name |-> req.name, payload |-> req.payload]
                   [] OTHER -> [op |-> req.op, parent |-> req.parent, name |-> req.name]
           /\ absDone <=> pc = "flush" /\ req.op = "delete"
  <1>1. Served /\ NoRequest.op = "none"
    BY DEF StoreInv, NoRequest, Ask
  <1>2. pc = "off" => absCall = FS!Off
    BY DEF absCall, FS!Off
  <1>3. pc = "idle" => absCall = FS!None
    BY <1>1 DEF absCall, FS!None, Served
  <1>4. ASSUME pc \notin {"off", "idle"}
        PROVE  absCall =
                 CASE req.op = "read" -> [op |-> "read", parent |-> req.parent,
                                          name |-> req.name, capacity |-> req.capacity]
                   [] req.op = "write" -> [op |-> "write", parent |-> req.parent,
                                           name |-> req.name, payload |-> req.payload]
                   [] OTHER -> [op |-> req.op, parent |-> req.parent, name |-> req.name]
    <2>1. req.op \in {"read", "read_directory", "write", "delete"}
      BY <1>1, <1>4 DEF Served
    <2> QED
      BY <1>4, <2>1 DEF absCall
  <1>5. absDone <=> pc = "flush" /\ req.op = "delete"
    BY DEF absDone
  <1> QED
    BY <1>2, <1>3, <1>4, <1>5

\* In its fields.
LEMMA CallFields ==
    ASSUME StoreInv, pc \notin {"off", "idle"}
    PROVE  /\ absCall.op = req.op /\ absCall.parent = req.parent /\ absCall.name = req.name
           /\ req.op = "read" => absCall.capacity = req.capacity
           /\ req.op = "write" => absCall.payload = req.payload
           /\ req.op \in {"read", "read_directory", "write", "delete"}
  <1>1. req.op \in {"read", "read_directory", "write", "delete"}
    BY DEF StoreInv, Served
  <1>2. absCall =
                 CASE req.op = "read" -> [op |-> "read", parent |-> req.parent,
                                          name |-> req.name, capacity |-> req.capacity]
                   [] req.op = "write" -> [op |-> "write", parent |-> req.parent,
                                           name |-> req.name, payload |-> req.payload]
                   [] OTHER -> [op |-> req.op, parent |-> req.parent, name |-> req.name]
    BY CallIs
  <1>3. CASE req.op = "read"
    BY <1>2, <1>3
  <1>4. CASE req.op = "write"
    BY <1>2, <1>4
  <1>5. CASE req.op \notin {"read", "write"}
    <2>1. absCall = [op |-> req.op, parent |-> req.parent, name |-> req.name]
      BY <1>2, <1>5
    <2> QED
      BY <1>1, <1>5, <2>1
  <1> QED
    BY <1>1, <1>3, <1>4, <1>5

\* What FileStore finds under the call's name is what the scan finds.
LEMMA KnownIs ==
    ASSUME Mapped, pc \notin {"off", "idle"}
    PROVE  LET t == content[req.parent].table
               i == SlotNamed(t, req.name)
           IN  /\ req.parent \in LiveDirs /\ absStore[absCall.parent].label = LabelOf(req.parent)
               /\ FS!Nodes = absStore[req.parent].nodes
               /\ FS!Known <=> req.name \in NamesIn(t)
               /\ FS!Known =>
                     /\ i \in UsedSlots(t)
                     /\ t[i].subdir => FS!Nodes[absCall.name] =
                                          [kind |-> "dir", id |-> t[i].cluster]
                     /\ ~t[i].subdir => FS!Nodes[absCall.name] =
                           [kind |-> "file", payload |-> content[t[i].cluster].payload]
  <1> DEFINE t == content[req.parent].table
             i == SlotNamed(t, req.name)
  <1>1. absCall.parent = req.parent /\ absCall.name = req.name
    BY CallFields DEF Mapped
  <1>2. req.parent \in LiveDirs
    BY CallFields DEF Mapped, StoreInv, CallKnown
  <1>3. /\ absStore[req.parent].label = LabelOf(req.parent)
        /\ DOMAIN absStore[req.parent].nodes = NamesIn(t)
        /\ req.name \in NamesIn(t) =>
              absStore[req.parent].nodes[req.name] = NodeOf(content, t[i])
    BY <1>2, StoreAt
  <1>4. FS!Nodes = absStore[req.parent].nodes /\ (FS!Known <=> req.name \in NamesIn(t))
    BY <1>1, <1>3 DEF FS!Nodes, FS!Known
  <1>5. req.name \in NamesIn(t) => i \in UsedSlots(t)
    BY <1>2, DirIs, SlotNamedIs DEF Mapped
  <1> HIDE DEF t, i
  <1>6. FS!Known => FS!Nodes[absCall.name] = NodeOf(content, t[i])
    BY <1>1, <1>3, <1>4
  <1>7. /\ t[i].subdir => NodeOf(content, t[i]) = [kind |-> "dir", id |-> t[i].cluster]
        /\ ~t[i].subdir => NodeOf(content, t[i]) =
              [kind |-> "file", payload |-> content[t[i].cluster].payload]
    BY DEF NodeOf
  <1> QED
    BY <1>1, <1>2, <1>3, <1>4, <1>5, <1>6, <1>7 DEF t, i

\* A call that returns, with the data the caller finds in its buffer.
LEMMA ReturnMaps ==
    ASSUME NEW code, NEW data, NEW x, Return(code, data), absData' = x
    PROVE  FS!Return(code, x)
  <1>1. /\ req' = NoRequest /\ pc' = "idle" /\ reply' = [code |-> code, data |-> data]
        /\ NoRequest.op = "none"
    BY DEF Return, ClearLocals, NoRequest, Ask
  <1>2. absCall' = FS!None
    BY <1>1 DEF absCall, FS!None
  <1>3. absDone' = FALSE
    BY <1>1 DEF absDone
  <1>4. reply'.code = code
    BY <1>1
  <1> QED
    BY <1>2, <1>3, <1>4 DEF FS!Return

LEMMA NoData ==
    ASSUME NEW code, Return(code, <<>>)
    PROVE  FS!Return(code, <<>>)
  <1>1. absData' = <<>>
    BY DEF absData, Return
  <1> QED
    BY <1>1, ReturnMaps

LEMMA FileData ==
    ASSUME NEW p \in Payload, Return(0, [k \in 0 .. ClustersOf[p] - 1 |-> Block(p, k)])
    PROVE  FS!Return(0, [file |-> p])
  <1>1. PICK b : b = [k \in 0 .. ClustersOf[p] - 1 |-> Block(p, k)]
    OBVIOUS
  <1>2. Return(0, b) /\ reply'.data = b
    BY <1>1 DEF Return
  <1>3. PayloadOf(b) = p /\ b # <<>> /\ b[0].kind = "block"
    <2>1. PayloadOf(b) = p /\ b # <<>> /\ b[0] = Block(p, 0)
      BY <1>1, PayloadOfFile
    <2> QED
      BY <2>1, BlockFields
  <1>4. absData' = [file |-> p]
    BY <1>2, <1>3 DEF absData
  <1> QED
    BY <1>2, <1>4, ReturnMaps

LEMMA ListData ==
    ASSUME NEW x, x.kind = "table", Return(0, [k \in {0} |-> x])
    PROVE  FS!Return(0, [dir |-> ListOf(x.table)])
  <1>1. PICK b : b = [k \in {0} |-> x]
    OBVIOUS
  <1>2. Return(0, b) /\ reply'.data = b
    BY <1>1 DEF Return
  <1>3. b # <<>> /\ b[0] = x
    <2>1. 0 \in DOMAIN b /\ 0 \notin DOMAIN <<>>
      BY <1>1
    <2> QED
      BY <1>1, <2>1
  <1>4. absData' = [dir |-> ListOf(x.table)]
    BY <1>2, <1>3 DEF absData, ListOf
  <1> QED
    BY <1>2, <1>4, ReturnMaps

\* A step within a call that leaves the tree alone is none of FileStore.
LEMMA StutterMaps ==
    ASSUME pc \notin {"off", "idle"}, pc' \notin {"off", "idle"}, req' = req,
           reply' = reply, absStore' = absStore,
           req.op = "delete" => (pc = "flush" <=> pc' = "flush")
    PROVE  UNCHANGED FS!vars
  <1>1. absCall' = absCall
    BY DEF absCall
  <1>2. absDone' = absDone
    BY DEF absDone
  <1>3. absData' = absData
    BY DEF absData
  <1> QED
    BY <1>1, <1>2, <1>3 DEF FS!vars

-----------------------------------------------------------------------------
(* The steps of FileStore.                                                   *)

LEMMA StoreSame ==
    ASSUME StoreCalls, Mapped, Mapped', [Next]_vars, ~Commit, ~Unlink
    PROVE  absStore' = absStore
  BY TreeStays DEF Mapped

LEMMA ReadMaps ==
    ASSUME StoreCalls, Mapped, absStore' = absStore, ReadRefuse \/ ReadFile
    PROVE  FS!Read
  <1> DEFINE t == content[req.parent].table
             i == SlotNamed(t, req.name)
             e == t[i]
             p == content[e.cluster].payload
  <1>1. pc = "begin" /\ req.op = "read" /\ StoreInv
    BY DEF ReadRefuse, ReadFile, Serving, Mapped
  <1>2. /\ ParentTable = t /\ req.name # t[0].name /\ ParentValid
        /\ req.parent \in LiveDirs /\ absCall.op = "read" /\ absCall.capacity = req.capacity
    BY <1>1, CallBegins, CallFields
  <1>3. /\ FirstMatch(t, req.name) = IF FS!Known THEN {i} ELSE {}
        /\ FS!Known <=> req.name \in NamesIn(t)
    BY <1>1, <1>2, CallFinds, KnownIs
  <1>4. FS!Known =>
           /\ i \in UsedSlots(t)
           /\ e.subdir => FS!Nodes[absCall.name] = [kind |-> "dir", id |-> e.cluster]
           /\ ~e.subdir => FS!Nodes[absCall.name] = [kind |-> "file", payload |-> p]
    BY <1>1, KnownIs
  <1>5. FS!Known /\ ~e.subdir =>
           p \in Payload /\ e.size = ClustersOf[p] /\ CountOf(e.size) = ClustersOf[p]
    <2> SUFFICES ASSUME FS!Known, ~e.subdir
                 PROVE  p \in Payload /\ e.size = ClustersOf[p] /\ CountOf(e.size) = ClustersOf[p]
      OBVIOUS
    <2>1. p \in Payload /\ e.size = ClustersOf[p]
      BY <1>1, <1>2, <1>4, EntryLeads
    <2>2. p # FOLDER /\ Required(p) = ClustersOf[p]
      BY <2>1, CountKept, DataAssumption DEF StoreCalls
    <2> QED
      BY <2>1, <2>2 DEF Required
  <1> HIDE DEF t, i, e, p
  <1>6. CASE ReadRefuse
    <2>1. \/ FirstMatch(t, req.name) = {} /\ Answer(2, <<>>)
          \/ \E k \in FirstMatch(t, req.name) :
                \/ t[k].subdir /\ Answer(1, <<>>)
                \/ ~t[k].subdir /\ req.capacity < CountOf(t[k].size) /\ Answer(-1, <<>>)
      BY <1>2, <1>6 DEF ReadRefuse
    <2>2. \/ ~FS!Known /\ Answer(2, <<>>)
          \/ FS!Known /\ e.subdir /\ Answer(1, <<>>)
          \/ FS!Known /\ ~e.subdir /\ req.capacity < CountOf(e.size) /\ Answer(-1, <<>>)
      BY <1>3, <2>1 DEF e
    <2>3. CASE ~FS!Known /\ Answer(2, <<>>)
      <3>1. FS!Return(2, <<>>)
        BY <2>3, NoData DEF Answer
      <3> QED
        BY <1>2, <2>3, <3>1 DEF FS!Read
    <2>4. CASE FS!Known /\ e.subdir /\ Answer(1, <<>>)
      <3>1. FS!Return(1, <<>>) /\ FS!Nodes[absCall.name].kind = "dir"
        BY <1>4, <2>4, NoData DEF Answer
      <3> QED
        BY <1>2, <2>4, <3>1 DEF FS!Read
    <2>5. CASE FS!Known /\ ~e.subdir /\ req.capacity < CountOf(e.size) /\ Answer(-1, <<>>)
      <3>1. /\ FS!Return(-1, <<>>) /\ FS!Nodes[absCall.name].kind = "file"
            /\ FS!Nodes[absCall.name].payload = p
        BY <1>4, <2>5, NoData DEF Answer
      <3>2. absCall.capacity < ClustersOf[p]
        BY <1>2, <1>5, <2>5
      <3> QED
        BY <1>2, <2>5, <3>1, <3>2 DEF FS!Read
    <2> QED
      BY <2>2, <2>3, <2>4, <2>5
  <1>7. CASE ReadFile
    <2>1. /\ req.name \in NamesIn(t) /\ ~e.subdir /\ req.capacity >= CountOf(e.size)
          /\ Answer(0, [k \in 0 .. ClustersOf[p] - 1 |-> Block(p, k)])
      BY <1>1, <1>2, <1>7, ReadFileFinds DEF t, i, e, p
    <2>2. FS!Known /\ p \in Payload /\ FS!Return(0, [file |-> p])
      BY <1>3, <1>5, <2>1, FileData DEF Answer
    <2>3. /\ FS!Nodes[absCall.name].kind = "file" /\ FS!Nodes[absCall.name].payload = p
      BY <1>4, <2>1, <2>2
    <2>4. ~(absCall.capacity < ClustersOf[p])
      <3>1. req.capacity \in Nat /\ ClustersOf[p] \in Nat
        BY <1>1, <2>2, CallBegins, DataAssumption
      <3> QED
        BY <1>2, <1>5, <2>1, <2>2, <3>1
    <2> QED
      BY <1>2, <2>2, <2>3, <2>4 DEF FS!Read
  <1> QED
    BY <1>6, <1>7

LEMMA ReadDirectoryMaps ==
    ASSUME StoreCalls, Mapped, absStore' = absStore, ReadDirectory
    PROVE  FS!ReadDirectory
  <1> DEFINE t == content[req.parent].table
             i == SlotNamed(t, req.name)
             e == t[i]
  <1>1. pc = "begin" /\ req.op = "read_directory" /\ StoreInv
    BY DEF ReadDirectory, Serving, Mapped
  <1>2. /\ ParentTable = t /\ req.parent \in LiveDirs /\ t[0].name = LabelOf(req.parent)
        /\ absCall.op = "read_directory" /\ absCall.name = req.name
        /\ absCall.parent = req.parent /\ absStore[absCall.parent].label = LabelOf(req.parent)
    BY <1>1, CallBegins, CallFields, KnownIs DEF LabelOf
  <1>3. /\ req.name = t[0].name => FirstMatch(t, req.name) = {0}
        /\ req.name # t[0].name =>
              FirstMatch(t, req.name) = IF FS!Known THEN {i} ELSE {}
    BY <1>1, <1>2, CallFinds, KnownIs
  <1>4. FS!Known =>
           /\ i \in UsedSlots(t)
           /\ e.subdir => FS!Nodes[absCall.name] = [kind |-> "dir", id |-> e.cluster]
           /\ ~e.subdir => FS!Nodes[absCall.name].kind = "file"
    BY <1>1, KnownIs
  <1>5. FS!Known /\ e.subdir => e.cluster \in LiveDirs
    BY <1>1, <1>2, <1>4, EntryLeads
  <1>6. t[0].subdir /\ t[0].cluster = req.parent
    BY <1>1, <1>2, DirIs
  <1>7. ASSUME NEW d \in LiveDirs, Answer(0, [k \in {0} |-> content[d]])
        PROVE  FS!Return(0, [dir |-> FS!Listing(d)])
    <2>1. content[d].kind = "table"
      BY DEF LiveDirs
    <2>2. FS!Return(0, [dir |-> ListOf(content[d].table)])
      BY <1>7, <2>1, ListData DEF Answer
    <2> QED
      BY <2>2, ListingIs
  <1> HIDE DEF t, i, e
  <1>8. \/ FirstMatch(t, req.name) = {} /\ Answer(2, <<>>)
        \/ \E k \in FirstMatch(t, req.name) :
              IF t[k].subdir THEN Answer(0, [m \in {0} |-> content[t[k].cluster]])
              ELSE Answer(1, <<>>)
    BY <1>2 DEF ReadDirectory
  <1>9. CASE req.name = t[0].name
    <2>1. Answer(0, [m \in {0} |-> content[req.parent]])
      BY <1>3, <1>6, <1>8, <1>9
    <2>2. FS!Return(0, [dir |-> FS!Listing(absCall.parent)])
      BY <1>2, <1>7, <2>1
    <2> QED
      BY <1>2, <1>9, <2>2 DEF FS!ReadDirectory
  <1>10. CASE req.name # t[0].name
    <2>1. \/ ~FS!Known /\ Answer(2, <<>>)
          \/ FS!Known /\ ~e.subdir /\ Answer(1, <<>>)
          \/ FS!Known /\ e.subdir /\ Answer(0, [m \in {0} |-> content[e.cluster]])
      BY <1>3, <1>8, <1>10 DEF e
    <2>2. CASE ~FS!Known /\ Answer(2, <<>>)
      <3>1. FS!Return(2, <<>>)
        BY <2>2, NoData DEF Answer
      <3> QED
        BY <1>2, <1>10, <2>2, <3>1 DEF FS!ReadDirectory
    <2>3. CASE FS!Known /\ ~e.subdir /\ Answer(1, <<>>)
      <3>1. FS!Return(1, <<>>)
        BY <2>3, NoData DEF Answer
      <3> QED
        BY <1>2, <1>4, <1>10, <2>3, <3>1 DEF FS!ReadDirectory
    <2>4. CASE FS!Known /\ e.subdir /\ Answer(0, [m \in {0} |-> content[e.cluster]])
      <3>1. /\ FS!Nodes[absCall.name].kind = "dir" /\ FS!Nodes[absCall.name].id = e.cluster
        BY <1>4, <2>4
      <3>2. FS!Return(0, [dir |-> FS!Listing(e.cluster)])
        BY <1>5, <1>7, <2>4
      <3>3. FS!Return(0, [dir |-> FS!Listing(FS!Nodes[absCall.name].id)])
        BY <3>1, <3>2
      <3> QED
        BY <1>2, <1>10, <2>4, <3>1, <3>3 DEF FS!ReadDirectory
    <2> QED
      BY <2>1, <2>2, <2>3, <2>4
  <1> QED
    BY <1>9, <1>10

LEMMA RefuseMaps ==
    ASSUME StoreCalls, Mapped, absStore' = absStore
    PROVE  (WriteRefuse => FS!CreateRefuse) /\ (DeleteRefuse => FS!RemoveReturn)
  <1> DEFINE t == content[req.parent].table
  <1>1. CASE WriteRefuse
    <2>1. pc = "begin" /\ req.op = "write" /\ StoreInv
      BY <1>1 DEF WriteRefuse, Serving, Mapped
    <2>2. /\ ParentValid /\ ParentTable = t /\ absCall.op = "write"
          /\ NameTaken(t, req.name) <=> FS!Known
      BY <2>1, CallBegins, CallFields, CallFinds, KnownIs
    <2> HIDE DEF t
    <2>3. \/ FS!Known /\ Answer(1, <<>>)
          \/ ~FS!Known /\ Answer(-1, <<>>)
      BY <1>1, <2>2 DEF WriteRefuse
    <2>4. \/ FS!Known /\ FS!Return(1, <<>>)
          \/ ~FS!Known /\ FS!Return(-1, <<>>)
      BY <2>3, NoData DEF Answer
    <2>5. FS!CreateRefuse
      <3>1. absCall.op = "write" /\ UNCHANGED absStore
        BY <2>2
      <3>2. CASE FS!Known /\ FS!Return(1, <<>>)
        BY <3>1, <3>2 DEF FS!CreateRefuse
      <3>3. CASE ~FS!Known /\ FS!Return(-1, <<>>)
        BY <3>1, <3>3 DEF FS!CreateRefuse
      <3> QED
        BY <2>4, <3>2, <3>3
    <2>6. ~DeleteRefuse
      BY <2>1 DEF DeleteRefuse, Serving
    <2> QED
      BY <2>5, <2>6
  <1>2. CASE DeleteRefuse
    <2>1. /\ pc = "begin" /\ req.op = "delete" /\ StoreInv
          /\ FirstMatch(ParentTable, req.name) = {} /\ Answer(1, <<>>)
      BY <1>2 DEF DeleteRefuse, Serving, Mapped
    <2>2. /\ ParentTable = t /\ req.name # t[0].name /\ absCall.op = "delete" /\ ~absDone
          /\ FirstMatch(t, req.name) =
                IF req.name \in NamesIn(t) THEN {SlotNamed(t, req.name)} ELSE {}
          /\ FS!Known <=> req.name \in NamesIn(t)
      BY <2>1, CallBegins, CallFields, CallFinds, CallIs, KnownIs
    <2> HIDE DEF t
    <2>3. ~FS!Known
      BY <2>1, <2>2
    <2>4. FS!Return(1, <<>>)
      BY <2>1, NoData DEF Answer
    <2> QED
      BY <2>1, <2>2, <2>3, <2>4 DEF FS!RemoveReturn, WriteRefuse, Serving
  <1> QED
    BY <1>1, <1>2

\* A delete returns when its last sector of the FAT is on the disk.
LEMMA FlushLastMaps ==
    ASSUME StoreCalls, Mapped, absStore' = absStore, FlushLast
    PROVE  FS!RemoveReturn \/ UNCHANGED FS!vars
  <1>1. pc = "flush" /\ StoreInv
    BY DEF FlushLast, Mapped
  <1>2. CASE req.op = "delete"
    <2>1. Return(0, <<>>)
      BY <1>2 DEF FlushLast
    <2>2. absCall.op = "delete" /\ absDone /\ FS!Return(0, <<>>)
      BY <1>1, <1>2, <2>1, CallFields, CallIs, NoData
    <2> QED
      BY <2>2 DEF FS!RemoveReturn
  <1>3. CASE req.op # "delete"
    <2>1. /\ req' = req /\ reply' = reply /\ pc' \in {"format_root", "commit", "block"}
      BY <1>3 DEF FlushLast, locals
    <2> QED
      BY <1>1, <1>3, <2>1, StutterMaps
  <1> QED
    BY <1>2, <1>3

LEMMA PowerMaps ==
    ASSUME StoreCalls, Mapped, absStore' = absStore
    PROVE  (Mount => FS!PowerOn) /\ (Crash => FS!Crash)
  <1>1. CASE Mount
    <2>1. /\ pc = "off" /\ pc' = "idle" /\ req' = req /\ reply' = reply
      BY <1>1 DEF Mount, locals
    <2>2. absCall = FS!Off /\ ~absDone
      BY <2>1, CallIs DEF Mapped
    <2>3. req = NoRequest /\ NoRequest.op = "none"
      BY <2>1 DEF Mapped, StoreInv, Served, NoRequest, Ask
    <2>4. absCall' = FS!None /\ absDone' = absDone
      BY <2>1, <2>2, <2>3 DEF absCall, absDone, FS!None
    <2>5. absData' = absData
      BY <2>1 DEF absData
    <2>6. FS!PowerOn
      BY <2>1, <2>2, <2>4, <2>5 DEF FS!PowerOn
    <2>7. ~Crash
      BY <2>1 DEF Crash
    <2> QED
      BY <2>6, <2>7
  <1>2. CASE Crash
    <2>1. /\ pc # "off" /\ pc' = "off" /\ req' = NoRequest /\ reply' = NoReply
          /\ NoRequest.op = "none"
      BY <1>2 DEF Crash, ClearLocals, NoRequest, Ask
    <2>2. absCall' = FS!Off /\ absDone' = FALSE
      BY <2>1 DEF absCall, absDone, FS!Off
    <2>3. absData' = <<>> /\ reply'.code = 0
      BY <2>1 DEF absData, NoReply
    <2>4. FS!Crash
      BY <2>2, <2>3 DEF FS!Crash, FS!NoAnswer
    <2>5. ~Mount
      BY <2>1 DEF Mount
    <2> QED
      BY <2>4, <2>5
  <1> QED
    BY <1>1, <1>2

LEMMA InvokeMaps ==
    ASSUME StoreCalls, Mapped, absStore' = absStore, Invoke
    PROVE  FS!Invoke
  <1>1. /\ pc = "idle" /\ pc' = "begin" /\ reply' = NoReply /\ StoreInv
    BY DEF Invoke, Mapped
  <1>2. /\ req'.parent \in LiveDirs
        /\ req'.op \in {"read", "read_directory", "write", "delete"}
        /\ req'.op # "read_directory" => req'.name \in Name
        /\ req'.op = "read_directory" => req'.name \in Name \cup {LabelOf(req'.parent)}
        /\ req'.op = "read" => req'.capacity \in Capacities
        /\ req'.op = "write" => req'.payload \in Payload \cup {FOLDER}
    BY <1>1, InvokeAsks
  <1>3. /\ req'.parent \in StoreCluster /\ req'.parent \in DOMAIN absStore
        /\ req'.op = "read_directory" => req'.name \in Name \cup {ROOT_NAME}
    BY <1>1, <1>2, DirIs, StoreAt
  <1>4. absCall = FS!None /\ ~absDone
    BY <1>1, CallIs
  <1>5. absDone' = absDone
    BY <1>1, <1>4 DEF absDone
  <1>6. absData' = <<>> /\ reply'.code = 0
    BY <1>1 DEF absData, NoReply
  <1>7. absCall' \in FS!Call /\ absCall'.parent \in DOMAIN absStore
    <2>1. CASE req'.op = "read"
      <3>1. absCall' = [op |-> "read", parent |-> req'.parent, name |-> req'.name,
                        capacity |-> req'.capacity]
        BY <1>1, <2>1 DEF absCall
      <3> QED
        BY <1>2, <1>3, <2>1, <3>1 DEF FS!Call
    <2>2. CASE req'.op = "read_directory"
      <3>1. absCall' = [op |-> "read_directory", parent |-> req'.parent, name |-> req'.name]
        BY <1>1, <2>2 DEF absCall
      <3> QED
        BY <1>2, <1>3, <2>2, <3>1 DEF FS!Call
    <2>3. CASE req'.op = "write"
      <3>1. absCall' = [op |-> "write", parent |-> req'.parent, name |-> req'.name,
                        payload |-> req'.payload]
        BY <1>1, <2>3 DEF absCall
      <3> QED
        BY <1>2, <1>3, <2>3, <3>1 DEF FS!Call
    <2>4. CASE req'.op = "delete"
      <3>1. absCall' = [op |-> "delete", parent |-> req'.parent, name |-> req'.name]
        BY <1>1, <2>4 DEF absCall
      <3> QED
        BY <1>2, <1>3, <2>4, <3>1 DEF FS!Call
    <2> QED
      BY <1>2, <2>1, <2>2, <2>3, <2>4
  <1> QED
    BY <1>4, <1>5, <1>6, <1>7 DEF FS!Invoke, FS!NoAnswer

-----------------------------------------------------------------------------
(* The two steps that change the tree.                                       *)

\* A table with one more entry: one more name, the others where they were.
LEMMA TableAdds ==
    ASSUME NEW t, GoodTable(t), NEW s \in UserSlot, ~t[s].used,
           NEW u, u[s].used, u[s].name \notin NamesIn(t),
           \A i \in Slot : i # s => u[i] = t[i]
    PROVE  /\ u[0] = t[0] /\ UsedSlots(u) = UsedSlots(t) \cup {s}
           /\ \A i \in UsedSlots(t) : u[i] = t[i]
           /\ NamesIn(u) = NamesIn(t) \cup {u[s].name} /\ SlotNamed(u, u[s].name) = s
           /\ \A m \in NamesIn(t) : u[SlotNamed(u, m)] = t[SlotNamed(t, m)]
  <1>1. u[0] = t[0]
    BY Slots
  <1>2. UsedSlots(u) = UsedSlots(t) \cup {s}
    BY Slots DEF UsedSlots
  <1>3. \A i \in UsedSlots(t) : u[i] = t[i] /\ i # s
    BY Slots DEF UsedSlots
  <1>4. NamesIn(u) = NamesIn(t) \cup {u[s].name}
    <2>1. ASSUME NEW n PROVE n \in NamesIn(u) <=> n \in NamesIn(t) \/ n = u[s].name
      <3>1. n \in NamesIn(u) <=> \E i \in UsedSlots(u) : u[i].name = n
        BY DEF NamesIn
      <3>2. n \in NamesIn(t) <=> \E i \in UsedSlots(t) : t[i].name = n
        BY DEF NamesIn
      <3> QED
        BY <1>2, <1>3, <3>1, <3>2
    <2> QED
      BY <2>1
  <1>5. \A i \in UsedSlots(t) : t[i].name # u[s].name
    BY DEF NamesIn
  <1>6. \A i \in UsedSlots(u) : u[i].name = u[s].name <=> i = s
    BY <1>2, <1>3, <1>5
  <1>7. SlotNamed(u, u[s].name) = s
    <2>1. s \in UsedSlots(u)
      BY <1>2
    <2> QED
      BY <1>6, <2>1 DEF SlotNamed
  <1>8. ASSUME NEW m \in NamesIn(t)
        PROVE  u[SlotNamed(u, m)] = t[SlotNamed(t, m)]
    <2> DEFINE i == SlotNamed(t, m)
    <2>1. i \in UsedSlots(t) /\ t[i].name = m /\ \A k \in UsedSlots(t) : t[k].name = m => k = i
      BY <1>8, SlotNamedIs
    <2> HIDE DEF i
    <2>2. m # u[s].name
      BY <1>8
    <2>3. i \in UsedSlots(u) /\ u[i].name = m
      BY <1>2, <1>3, <2>1
    <2>4. \A k \in UsedSlots(u) : u[k].name = m => k = i
      BY <1>2, <1>3, <2>1, <2>2
    <2>5. SlotNamed(u, m) = i
      BY <2>3, <2>4 DEF SlotNamed
    <2> QED
      BY <1>3, <2>1, <2>5 DEF i
  <1> QED
    BY <1>1, <1>2, <1>3, <1>4, <1>7, <1>8

\* A table with an entry less: one name less, the others where they were.
LEMMA TableDrops ==
    ASSUME NEW t, GoodTable(t), NEW s \in UsedSlots(t),
           NEW u, ~u[s].used, \A i \in Slot : i # s => u[i] = t[i]
    PROVE  /\ u[0] = t[0] /\ UsedSlots(u) = UsedSlots(t) \ {s}
           /\ NamesIn(u) = NamesIn(t) \ {t[s].name}
           /\ \A i \in UsedSlots(u) : u[i] = t[i]
           /\ \A m \in NamesIn(u) : u[SlotNamed(u, m)] = t[SlotNamed(t, m)]
  <1>1. s \in UserSlot
    BY DEF UsedSlots
  <1>2. u[0] = t[0]
    BY <1>1, Slots
  <1>4. UsedSlots(u) = UsedSlots(t) \ {s} /\ \A i \in UsedSlots(u) : u[i] = t[i]
    BY Slots DEF UsedSlots
  <1>5. \A i \in UsedSlots(t) : t[i].name = t[s].name => i = s
    BY DEF GoodTable
  <1>6. NamesIn(u) = NamesIn(t) \ {t[s].name}
    <2>1. ASSUME NEW n PROVE n \in NamesIn(u) <=> n \in NamesIn(t) /\ n # t[s].name
      <3>1. n \in NamesIn(u) <=> \E i \in UsedSlots(u) : u[i].name = n
        BY DEF NamesIn
      <3>2. n \in NamesIn(t) <=> \E i \in UsedSlots(t) : t[i].name = n
        BY DEF NamesIn
      <3> QED
        BY <1>4, <1>5, <3>1, <3>2
    <2> QED
      BY <2>1
  <1>7. ASSUME NEW m \in NamesIn(u)
        PROVE  u[SlotNamed(u, m)] = t[SlotNamed(t, m)]
    <2> DEFINE i == SlotNamed(t, m)
    <2>1. m \in NamesIn(t) /\ m # t[s].name
      BY <1>6, <1>7
    <2>2. i \in UsedSlots(t) /\ t[i].name = m /\ \A k \in UsedSlots(t) : t[k].name = m => k = i
      BY <2>1, SlotNamedIs
    <2> HIDE DEF i
    <2>3. i \in UsedSlots(u) /\ u[i].name = m
      BY <1>4, <2>1, <2>2
    <2>4. \A k \in UsedSlots(u) : u[k].name = m => k = i
      BY <1>4, <2>2
    <2>5. SlotNamed(u, m) = i
      BY <2>3, <2>4 DEF SlotNamed
    <2> QED
      BY <1>4, <2>3, <2>5 DEF i
  <1> QED
    BY <1>2, <1>4, <1>6, <1>7

\* A directory's table is never a file's first block: rewriting it changes no node.
LEMMA NodeStays ==
    ASSUME StoreInv, NEW q \in LiveDirs, NEW y, Puts(q, y),
           NEW d \in LiveDirs, NEW i \in UsedSlots(content[d].table)
    PROVE  NodeOf(content', content[d].table[i]) = NodeOf(content, content[d].table[i])
  <1>1. PICK e : e = content[d].table[i]
    OBVIOUS
  <1>2. /\ e.cluster \in StoreCluster
        /\ ~e.subdir => content[e.cluster].kind = "block"
    BY <1>1, EntryLeads
  <1>3. content[q].kind = "table" /\ q \in StoreCluster
    BY DirIs
  <1>4. ~e.subdir => content'[e.cluster] = content[e.cluster]
    BY <1>2, <1>3 DEF Puts
  <1>5. NodeOf(content', e) = NodeOf(content, e)
    BY <1>4 DEF NodeOf
  <1> QED
    BY <1>1, <1>5

\* What the disk holds for directory d.
RecordOf(C, d) == [label |-> C[d].table[0].name, nodes |-> NodesOf(C, C[d].table)]

\* Rewriting a directory's table is an edit of its nodes in the store.
LEMMA EditIs ==
    ASSUME Mapped, NEW q \in LiveDirs, NEW u, Puts(q, Table(u)),
           u[0] = content[q].table[0]
    PROVE  /\ [absStore EXCEPT ![q].nodes = NodesOf(content', u)]
                 = [d \in LiveDirs |-> RecordOf(content', d)]
           /\ \A d \in LiveDirs : content'[d].kind = "table"
           /\ \A d \in LiveDirs : d # q => content'[d] = content[d]
           /\ content'[q].table = u
  <1>1. LiveDirs \subseteq StoreCluster /\ StoreInv
    BY DirIs DEF Mapped
  <1>2. content'[q].kind = "table" /\ content'[q].table = u
    BY TableFields DEF Puts
  <1>3. \A d \in LiveDirs : d # q => content'[d] = content[d]
    BY <1>1 DEF Puts
  <1>4. \A d \in LiveDirs : content'[d].kind = "table"
    BY <1>2, <1>3 DEF LiveDirs
  <1>5. ASSUME NEW d \in LiveDirs, d # q
        PROVE  RecordOf(content', d) = RecordOf(content, d)
    <2>1. ASSUME NEW n \in NamesIn(content[d].table)
          PROVE  LET e == content[d].table[SlotNamed(content[d].table, n)]
                 IN  NodeOf(content', e) = NodeOf(content, e)
      <3>1. SlotNamed(content[d].table, n) \in UsedSlots(content[d].table)
        BY <1>1, <2>1, DirIs, SlotNamedIs
      <3> QED
        BY <1>1, <3>1, NodeStays
    <2>2. NodesOf(content', content[d].table) = NodesOf(content, content[d].table)
      BY <2>1 DEF NodesOf
    <2> QED
      BY <1>3, <1>5, <2>2 DEF RecordOf
  <1>6. LiveDirs = DirsOf(diskFat, content)
    BY <1>1, Usual
  <1>7. absStore = [d \in LiveDirs |-> RecordOf(content, d)]
    BY <1>6 DEF Mapped, TreeOf, RecordOf
  <1>8. RecordOf(content', q) = [label |-> content[q].table[0].name, nodes |-> NodesOf(content', u)]
    BY <1>2 DEF RecordOf
  <1>9. [RecordOf(content, q) EXCEPT !.nodes = NodesOf(content', u)] = RecordOf(content', q)
    BY <1>8 DEF RecordOf
  <1> HIDE DEF RecordOf
  <1>10. [absStore EXCEPT ![q].nodes = NodesOf(content', u)]
            = [d \in LiveDirs |-> RecordOf(content', d)]
    <2>1. [absStore EXCEPT ![q].nodes = NodesOf(content', u)]
             = [d \in LiveDirs |-> IF d = q THEN [RecordOf(content, q) EXCEPT !.nodes = NodesOf(content', u)]
                                   ELSE RecordOf(content, d)]
      BY <1>7
    <2> QED
      BY <1>5, <1>9, <2>1
  <1> QED
    BY <1>2, <1>3, <1>4, <1>10

\* A write's last step makes its clusters reachable, and nothing else.
LEMMA CommitLive ==
    ASSUME StoreCalls, StoreInv, Commit
    PROVE  Live(diskFat', content') = Live(diskFat, content) \cup Found
  <1> DEFINE L == Live(diskFat, content)
             S == L \cup Found
             q == req.parent
             t == content[q].table
  <1>1. /\ q \in LiveDirs /\ slot \in UserSlot /\ req.name \in Name
        /\ req.payload \in Payload \cup {FOLDER} /\ LastIndex \in Nat /\ 0 \in 0 .. LastIndex
        /\ ~t[slot].used /\ req.name \notin NamesIn(t)
        /\ Found \subseteq StoreCluster /\ \A c \in Found : c # q
        /\ diskFat' = diskFat
    BY CommitMakes, WriteKnows
  <1>2. PICK e : /\ e.used = TRUE /\ e.name = req.name /\ e.cluster = slot_buf[0]
                 /\ Puts(q, Table([t EXCEPT ![slot] = e]))
    BY CommitMakes
  <1>3. PICK u : u = [t EXCEPT ![slot] = e]
    OBVIOUS
  <1>4. t \in [Slot -> Entry] /\ GoodTable(t) /\ TableOf(content[q]) = t /\ q \in StoreCluster
    BY <1>1, DirIs
  <1>5. UsedSlots(u) = UsedSlots(t) \cup {slot} /\ u[slot] = e /\ \A i \in UsedSlots(t) : u[i] = t[i]
    <2>1. u[slot] = e /\ \A i \in Slot : i # slot => u[i] = t[i]
      BY <1>1, <1>3, <1>4, Slots
    <2>2. /\ ~t[slot].used /\ slot \in UserSlot /\ GoodTable(t)
          /\ u[slot].used /\ u[slot].name \notin NamesIn(t)
      BY <1>1, <1>2, <1>4, <2>1
    <2> HIDE DEF t
    <2> QED
      BY <2>1, <2>2, TableAdds
  <1>6. /\ TableOf(content'[q]) = u
        /\ \A c \in StoreCluster : c # q => content'[c] = content[c]
    BY <1>2, <1>3, TableFields DEF Puts
  <1>7. slot_buf[0] \in Found
    BY <1>1 DEF Found
  <1>8. L \in SUBSET StoreCluster /\ ClosedUnder(diskFat, content, L)
    BY LiveClosed
  <1>9. ASSUME NEW c \in Found
        PROVE  /\ diskFat[c] \in StoreCluster => diskFat[c] \in Found
               /\ UsedSlots(TableOf(content'[c])) = {}
    <2>1. diskFat[c] \in StoreCluster => diskFat[c] \in Found
      BY <1>9, CommitMakes, Numbers
    <2>2. content'[c] = content[c] /\ c \in StoreCluster
      BY <1>1, <1>6, <1>9
    <2>3. CASE req.payload = FOLDER
      <3>1. content[c] = Table(DirTable(req.name, c))
        BY <1>9, <2>3, CommitMakes
      <3>2. req.name \in AnyName /\ c \in Cluster
        BY <1>1, <2>2, Numbers DEF AnyName
      <3>3. \A i \in Slot : ~DirTable(req.name, c)[i].used
        BY <3>2, NewTable
      <3>4. TableOf(content'[c]) = DirTable(req.name, c)
        BY <2>2, <3>1, TableFields
      <3> QED
        BY <2>1, <3>3, <3>4, Slots DEF UsedSlots
    <2>4. CASE req.payload # FOLDER
      <3>1. PICK k \in 0 .. LastIndex : c = slot_buf[k]
        BY <1>9 DEF Found
      <3>2. content'[c].kind # "table"
        BY <2>2, <2>4, <3>1, CommitMakes, BlockFields
      <3>3. TableOf(content'[c]) = ZeroTable
        BY <3>2 DEF TableOf
      <3> QED
        BY <2>1, <3>3, BlankGood, Slots DEF UsedSlots
    <2> QED
      BY <2>3, <2>4
  <1> HIDE DEF L, q, t
  <1>10. ASSUME NEW c \in S
         PROVE  Successors(diskFat', content', c) \cap StoreCluster \subseteq S
    <2>1. CASE c \in Found
      BY <1>1, <1>9, <2>1 DEF Successors
    <2>2. CASE c \in L /\ c # q
      <3>1. Successors(diskFat', content', c) = Successors(diskFat, content, c)
        BY <1>1, <1>6, <1>8, <2>2 DEF Successors
      <3> QED
        BY <1>8, <2>2, <3>1 DEF ClosedUnder
    <2>3. CASE c \in L /\ c = q
      <3>1. Successors(diskFat', content', c) \subseteq
               Successors(diskFat, content, c) \cup {slot_buf[0]}
        BY <1>1, <1>2, <1>4, <1>5, <1>6, <2>3 DEF Successors
      <3> QED
        BY <1>7, <1>8, <2>3, <3>1 DEF ClosedUnder
    <2> QED
      BY <2>1, <2>2, <2>3
  <1>11. Live(diskFat', content') \subseteq S
    <2>1. S \in SUBSET StoreCluster
      BY <1>1, <1>8
    <2>2. ClosedUnder(diskFat', content', S)
      BY <1>8, <1>10 DEF ClosedUnder
    <2> QED
      BY <2>1, <2>2, LiveLeast
  <1>12. S \subseteq Live(diskFat', content')
    <2>1. Inv /\ Usable /\ OrdinaryCalls /\ req.parent \in Live(diskFat, content)
      BY <1>1 DEF StoreCalls, StoreInv, LiveDirs, q
    <2>2. DOMAIN slot_buf = 0 .. LastIndex
      <3>1. TypeInv /\ Writing
        BY CommitMakes, Usual
      <3> QED
        BY <3>1 DEF TypeInv, Control, LastIndex
    <2> QED
      BY <2>1, <2>2, CommitReaches DEF L, Found
  <1> QED
    BY <1>11, <1>12 DEF L

\* A write's last step is the creation.
LEMMA CommitMaps ==
    ASSUME StoreCalls, Mapped, Mapped', Commit
    PROVE  FS!Create
  <1> DEFINE q == req.parent
             n == req.name
             t == content[q].table
             h == slot_buf[0]
  <1>1. /\ pc = "commit" /\ Writing /\ StoreInv /\ diskFat' = diskFat /\ Return(0, <<>>)
    BY CommitMakes DEF Mapped
  <1>2. /\ q \in LiveDirs /\ slot \in UserSlot /\ n \in Name /\ n # NO_NAME
        /\ req.op = "write" /\ ~t[slot].used /\ n \notin NamesIn(t)
        /\ req.payload \in Payload \cup {FOLDER} /\ 0 \in 0 .. LastIndex /\ h \in Found
        /\ \A c \in Found : c \in StoreCluster /\ c \notin Live(diskFat, content) /\ c # q
    BY <1>1, WriteKnows DEF Found
  <1>3. PICK e : /\ e.used = TRUE /\ e.name = n /\ e.cluster = h
                 /\ e.subdir = (req.payload = FOLDER)
                 /\ Puts(q, Table([t EXCEPT ![slot] = e]))
    BY <1>1, CommitMakes
  <1>4. PICK u : u = [t EXCEPT ![slot] = e]
    OBVIOUS
  <1>5. t \in [Slot -> Entry] /\ GoodTable(t)
    BY <1>1, <1>2, DirIs
  <1>6. /\ u[0] = t[0] /\ u[slot] = e /\ NamesIn(u) = NamesIn(t) \cup {n}
        /\ SlotNamed(u, n) = slot
        /\ \A m \in NamesIn(t) : u[SlotNamed(u, m)] = t[SlotNamed(t, m)]
    <2>1. u[slot] = e /\ \A i \in Slot : i # slot => u[i] = t[i]
      BY <1>2, <1>4, <1>5, Slots
    <2>2. /\ ~t[slot].used /\ slot \in UserSlot /\ GoodTable(t) /\ u[slot].name = n
          /\ u[slot].used /\ u[slot].name \notin NamesIn(t)
      BY <1>2, <1>3, <1>5, <2>1
    <2> HIDE DEF t, n
    <2>3. /\ u[0] = t[0] /\ NamesIn(u) = NamesIn(t) \cup {u[slot].name}
          /\ SlotNamed(u, u[slot].name) = slot
          /\ \A m \in NamesIn(t) : u[SlotNamed(u, m)] = t[SlotNamed(t, m)]
      BY <2>1, <2>2, TableAdds
    <2> QED
      BY <2>1, <2>2, <2>3
  <1>7. Puts(q, Table(u))
    BY <1>3, <1>4
  <1>8. \A c \in Found : content'[c] = content[c]
    BY <1>2, <1>7 DEF Puts
  <1>9. /\ absCall.op = "write" /\ absCall.parent = q /\ absCall.name = n
        /\ absCall.payload = req.payload /\ ~FS!Known /\ FS!Return(0, <<>>)
    BY <1>1, <1>2, CallFields, KnownIs, NoData
  <1>10. /\ DOMAIN absStore = LiveDirs /\ DOMAIN absStore[q].nodes = NamesIn(t)
         /\ \A m \in NamesIn(t) : absStore[q].nodes[m] = NodeOf(content, t[SlotNamed(t, m)])
    BY <1>2, StoreAt
  <1>11. ASSUME NEW m \in NamesIn(t)
         PROVE  NodeOf(content', u[SlotNamed(u, m)]) = absStore[q].nodes[m]
    <2>1. SlotNamed(t, m) \in UsedSlots(t)
      BY <1>5, SlotNamedIs
    <2>2. NodeOf(content', t[SlotNamed(t, m)]) = NodeOf(content, t[SlotNamed(t, m)])
      BY <1>1, <1>2, <1>7, <2>1, NodeStays
    <2> QED
      BY <1>6, <1>10, <2>2
  <1>12. /\ [absStore EXCEPT ![q].nodes = NodesOf(content', u)]
               = [d \in LiveDirs |-> RecordOf(content', d)]
         /\ \A d \in LiveDirs : content'[d].kind = "table"
    BY <1>2, <1>6, <1>7, EditIs
  <1> HIDE DEF t
  <1>13. NodesOf(content', u) =
            [m \in DOMAIN absStore[q].nodes \cup {n} |->
                IF m = n THEN NodeOf(content', e) ELSE absStore[q].nodes[m]]
    BY <1>2, <1>6, <1>10, <1>11 DEF NodesOf
  <1>14. FS!With(absStore, q, n, NodeOf(content', e)) = [d \in LiveDirs |-> RecordOf(content', d)]
    BY <1>12, <1>13 DEF FS!With
  <1>15. absStore' = [d \in DirsOf(diskFat', content') |-> RecordOf(content', d)]
    BY DEF Mapped, TreeOf, RecordOf
  <1>16. DirsOf(diskFat', content') = LiveDirs \cup {c \in Found : content[c].kind = "table"}
    <2>1. Live(diskFat', content') = Live(diskFat, content) \cup Found
      BY <1>1, CommitLive
    <2>2. ASSUME NEW c \in Live(diskFat, content)
          PROVE  content'[c].kind = "table" <=> content[c].kind = "table"
      <3>1. CASE c = q
        BY <1>2, <1>12, <3>1 DEF LiveDirs
      <3>2. CASE c # q
        <4>1. c \in StoreCluster
          BY <1>1, <2>2, Usual
        <4> QED
          BY <1>7, <3>2, <4>1 DEF Puts
      <3> QED
        BY <3>1, <3>2
    <2> QED
      BY <1>8, <2>1, <2>2 DEF DirsOf, LiveDirs
  <1> HIDE DEF q, n, h
  <1>17. CASE req.payload # FOLDER
    <2>1. \A k \in 0 .. LastIndex : content[slot_buf[k]] = Block(req.payload, k)
      BY <1>17, CommitMakes, <1>1
    <2>2. \A c \in Found : content[c].kind # "table"
      BY <2>1, BlockFields DEF Found
    <2>3. absStore' = [d \in LiveDirs |-> RecordOf(content', d)]
      BY <1>15, <1>16, <2>2
    <2>4. content'[h] = Block(req.payload, 0)
      BY <1>2, <1>8, <2>1 DEF h
    <2>5. NodeOf(content', e) = FS!File(req.payload)
      <3>1. ~e.subdir /\ e.cluster = h
        BY <1>3, <1>17
      <3>2. content'[h].payload = req.payload
        BY <2>4, BlockFields
      <3> QED
        BY <3>1, <3>2 DEF NodeOf, FS!File
    <2>6. absStore' = FS!With(absStore, absCall.parent, absCall.name, FS!File(absCall.payload))
      BY <1>9, <1>14, <2>3, <2>5
    <2> QED
      BY <1>9, <1>17, <2>6 DEF FS!Create
  <1>18. CASE req.payload = FOLDER
    <2>1. Found = {h} /\ content[h] = Table(DirTable(n, h))
      BY <1>1, <1>18, CommitMakes DEF n, h
    <2>2. DirsOf(diskFat', content') = LiveDirs \cup {h}
      BY <1>16, <2>1, TableFields
    <2>3. h \in StoreCluster /\ h \notin LiveDirs
      BY <1>2 DEF LiveDirs
    <2>4. NodeOf(content', e) = FS!Dir(h)
      BY <1>3, <1>18 DEF NodeOf, FS!Dir
    <2>5. RecordOf(content', h) = FS!EmptyDir(n)
      <3>1. n \in AnyName /\ h \in Cluster
        BY <1>2, <2>3, Numbers DEF AnyName
      <3>2. content'[h].table = DirTable(n, h)
        BY <1>2, <1>8, <2>1, TableFields
      <3>3. DirTable(n, h)[0].name = n /\ \A i \in Slot : ~DirTable(n, h)[i].used
        BY <3>1, NewTable
      <3>4. NamesIn(DirTable(n, h)) = {}
        BY <3>3, Slots DEF NamesIn, UsedSlots
      <3>5. NodesOf(content', DirTable(n, h)) = [x \in {} |-> FS!None]
        BY <3>4 DEF NodesOf
      <3> QED
        BY <3>2, <3>3, <3>5 DEF RecordOf, FS!EmptyDir
    <2> DEFINE s == FS!With(absStore, absCall.parent, absCall.name, FS!Dir(h))
    <2>6. s = [d \in LiveDirs |-> RecordOf(content', d)]
      BY <1>9, <1>14, <2>4
    <2> HIDE DEF s
    <2>7. absStore' = [x \in DOMAIN s \cup {h} |->
                          IF x = h THEN FS!EmptyDir(absCall.name) ELSE s[x]]
      BY <1>9, <1>15, <2>2, <2>3, <2>5, <2>6
    <2>8. h \in StoreCluster \ DOMAIN absStore
      BY <1>10, <2>3
    <2>9. \E d \in StoreCluster \ DOMAIN absStore :
             LET x == FS!With(absStore, absCall.parent, absCall.name, FS!Dir(d))
             IN  absStore' = [y \in DOMAIN x \cup {d} |->
                                 IF y = d THEN FS!EmptyDir(absCall.name) ELSE x[y]]
      BY <2>7, <2>8 DEF s
    <2> QED
      BY <1>9, <1>18, <2>9 DEF FS!Create
  <1> QED
    BY <1>17, <1>18

\* FileStore's own reachability: the least set of directories that the nodes of a
\* store s keep inside.
KeepsInside(s, S) ==
    /\ ROOT \in S
    /\ \A x \in S : \A n \in DOMAIN s[x].nodes :
          s[x].nodes[n].kind = "dir" => s[x].nodes[n].id \in S

LEMMA ReachableLeast ==
    ASSUME NEW s, NEW S \in SUBSET DOMAIN s, KeepsInside(s, S)
    PROVE  /\ FS!Reachable(s) \subseteq S
           /\ FS!Reachable(s) \subseteq DOMAIN s
           /\ KeepsInside(s, FS!Reachable(s))
  <1> DEFINE closed == {T \in SUBSET DOMAIN s : KeepsInside(s, T)}
             R == FS!Reachable(s)
  <1>1. R = {d \in DOMAIN s : \A T \in closed : d \in T}
    BY DEF FS!Reachable, KeepsInside
  <1>2. S \in closed /\ \A T \in closed : KeepsInside(s, T)
    OBVIOUS
  <1> HIDE DEF closed, R
  <1>3. R \subseteq S /\ R \subseteq DOMAIN s
    BY <1>1, <1>2
  <1>4. KeepsInside(s, R)
    <2>1. ROOT \in R
      BY <1>1, <1>2 DEF KeepsInside
    <2>2. ASSUME NEW x \in R, NEW n \in DOMAIN s[x].nodes, s[x].nodes[n].kind = "dir"
          PROVE  s[x].nodes[n].id \in R
      <3>1. \A T \in closed : s[x].nodes[n].id \in T
        BY <1>1, <1>2, <2>2 DEF KeepsInside
      <3> QED
        BY <1>1, <1>2, <3>1
    <2> QED
      BY <2>1, <2>2 DEF KeepsInside
  <1> QED
    BY <1>3, <1>4 DEF R

\* A delete's first disk write is the removal, of all that is below a directory too.
LEMMA UnlinkMaps ==
    ASSUME StoreCalls, Mapped, Mapped', Unlink
    PROVE  FS!Remove
  <1> DEFINE q == req.parent
             n == req.name
             t == content[q].table
             M == Live(diskFat', content')
  <1>1. /\ pc = "unlink" /\ pc' = "flush" /\ StoreInv /\ diskFat' = diskFat
        /\ req' = req /\ req.op = "delete" /\ reply' = reply
        /\ q \in LiveDirs /\ slot \in UsedSlots(t) /\ slot \in UserSlot /\ t[slot].name = n
    BY UnlinkMakes DEF Mapped
  <1>2. PICK u : u = [t EXCEPT ![slot] = ZeroEntry]
    OBVIOUS
  <1>3. Puts(q, Table(u))
    BY <1>1, <1>2, UnlinkMakes
  <1>4. t \in [Slot -> Entry] /\ GoodTable(t) /\ q \in StoreCluster
    BY <1>1, DirIs
  <1>5. /\ u[0] = t[0] /\ UsedSlots(u) \subseteq UsedSlots(t)
        /\ NamesIn(u) = NamesIn(t) \ {n}
        /\ \A i \in UsedSlots(u) : u[i] = t[i]
        /\ \A m \in NamesIn(u) : u[SlotNamed(u, m)] = t[SlotNamed(t, m)]
    <2>1. ~u[slot].used /\ \A i \in Slot : i # slot => u[i] = t[i]
      BY <1>1, <1>2, <1>4, Slots DEF ZeroEntry
    <2> HIDE DEF t, n
    <2>2. /\ u[0] = t[0] /\ UsedSlots(u) = UsedSlots(t) \ {slot}
          /\ NamesIn(u) = NamesIn(t) \ {t[slot].name}
          /\ \A i \in UsedSlots(u) : u[i] = t[i]
          /\ \A m \in NamesIn(u) : u[SlotNamed(u, m)] = t[SlotNamed(t, m)]
      BY <1>1, <1>4, <2>1, TableDrops
    <2> QED
      BY <1>1, <2>2
  <1>6. /\ [absStore EXCEPT ![q].nodes = NodesOf(content', u)]
              = [d \in LiveDirs |-> RecordOf(content', d)]
        /\ \A d \in LiveDirs : content'[d].kind = "table"
        /\ \A d \in LiveDirs : d # q => content'[d] = content[d]
        /\ content'[q].table = u
    <2>1. u[0] = t[0]
      BY <1>5
    <2> QED
      BY <1>1, <1>3, <2>1, EditIs
  <1>7. /\ absCall.op = "delete" /\ absCall.parent = q /\ absCall.name = n
        /\ ~absDone /\ FS!Known /\ FS!Nodes = absStore[q].nodes
    <2>1. n \in NamesIn(t)
      BY <1>1 DEF NamesIn
    <2> QED
      BY <1>1, <2>1, CallFields, CallIs, KnownIs
  <1>8. /\ DOMAIN absStore[q].nodes = NamesIn(t)
        /\ \A m \in NamesIn(t) : absStore[q].nodes[m] = NodeOf(content, t[SlotNamed(t, m)])
    BY <1>1, StoreAt
  <1>9. NodesOf(content', u) = [m \in DOMAIN FS!Nodes \ {absCall.name} |-> FS!Nodes[m]]
    <2>1. ASSUME NEW m \in NamesIn(u)
          PROVE  NodeOf(content', u[SlotNamed(u, m)]) = absStore[q].nodes[m]
      <3>1. m \in NamesIn(t) /\ SlotNamed(t, m) \in UsedSlots(t)
        BY <1>4, <1>5, <2>1, SlotNamedIs
      <3>2. NodeOf(content', t[SlotNamed(t, m)]) = NodeOf(content, t[SlotNamed(t, m)])
        BY <1>1, <1>3, <3>1, NodeStays
      <3> QED
        BY <1>5, <1>8, <2>1, <3>1, <3>2
    <2> QED
      BY <1>5, <1>7, <1>8, <2>1 DEF NodesOf
  <1>10. PICK s : s = [absStore EXCEPT ![absCall.parent].nodes =
                          [m \in DOMAIN FS!Nodes \ {absCall.name} |-> FS!Nodes[m]]]
    OBVIOUS
  <1>11. s = [d \in LiveDirs |-> RecordOf(content', d)]
    BY <1>6, <1>7, <1>9, <1>10
  <1>12. ASSUME NEW d \in LiveDirs, NEW i \in UsedSlots(content'[d].table)
         PROVE  i \in UsedSlots(content[d].table) /\ content'[d].table[i] = content[d].table[i]
    BY <1>5, <1>6, <1>12
  <1>13. \A d \in LiveDirs :
            /\ DOMAIN s[d].nodes = NamesIn(content'[d].table)
            /\ \A m \in NamesIn(content'[d].table) : s[d].nodes[m] =
                  NodeOf(content', content'[d].table[SlotNamed(content'[d].table, m)])
    BY <1>11 DEF RecordOf, NodesOf
  <1>14. /\ M \in SUBSET StoreCluster /\ ClosedUnder(diskFat', content', M)
         /\ ROOT \in LiveDirs /\ TypeOK
    BY <1>1, LiveClosed, Usual
  <1> HIDE DEF q, n, t, M
  <1>15. M \subseteq Live(diskFat, content)
    <2> DEFINE L == Live(diskFat, content)
    <2>1. L \in SUBSET StoreCluster /\ ClosedUnder(diskFat, content, L)
      BY LiveClosed
    <2>2. ASSUME NEW c \in L
          PROVE  Successors(diskFat', content', c) \subseteq Successors(diskFat, content, c)
      <3>1. CASE c \in LiveDirs
        <4>1. TableOf(content'[c]) = content'[c].table /\ TableOf(content[c]) = content[c].table
          BY <1>1, <1>6, <3>1, DirIs DEF TableOf
        <4> QED
          BY <1>1, <1>12, <3>1, <4>1 DEF Successors
      <3>2. CASE c \notin LiveDirs
        <4>1. content'[c] = content[c]
          BY <1>1, <1>3, <2>1, <3>2 DEF Puts
        <4> QED
          BY <1>1, <4>1 DEF Successors
      <3> QED
        BY <3>1, <3>2
    <2>3. ClosedUnder(diskFat', content', L)
      BY <2>1, <2>2 DEF ClosedUnder
    <2> QED
      BY <2>1, <2>3, LiveLeast DEF M
  <1>16. \A c \in Live(diskFat, content) :
            content'[c].kind = "table" <=> content[c].kind = "table"
    <2>1. ASSUME NEW c \in Live(diskFat, content), c \notin LiveDirs
          PROVE  content'[c] = content[c]
      <3>1. c \in StoreCluster /\ c # q
        BY <1>1, <2>1 DEF Live
      <3> QED
        BY <1>3, <3>1 DEF Puts
    <2> QED
      BY <1>6, <2>1 DEF LiveDirs
  <1> DEFINE D == DirsOf(diskFat', content')
             R == FS!Reachable(s)
  <1>17. D \subseteq LiveDirs /\ D = {c \in M : content'[c].kind = "table"}
    BY <1>15, <1>16 DEF DirsOf, LiveDirs, M
  <1>18. KeepsInside(s, D)
    <2>1. ROOT \in D
      BY <1>6, <1>14, <1>17 DEF ClosedUnder
    <2>2. ASSUME NEW x \in D, NEW m \in DOMAIN s[x].nodes, s[x].nodes[m].kind = "dir"
          PROVE  s[x].nodes[m].id \in D
      <3>1. x \in LiveDirs /\ x \in M
        BY <1>17
      <3> DEFINE i == SlotNamed(content'[x].table, m)
      <3>2. i \in UsedSlots(content'[x].table)
        <4>1. m \in NamesIn(content'[x].table)
          BY <1>13, <2>2, <3>1
        <4>2. \E k \in UsedSlots(content'[x].table) : content'[x].table[k].name = m
          BY <4>1 DEF NamesIn
        <4> QED
          BY <4>2 DEF SlotNamed
      <3>3. PICK e : e = content'[x].table[i]
        OBVIOUS
      <3>4. s[x].nodes[m] = NodeOf(content', e)
        BY <1>13, <2>2, <3>1, <3>3
      <3> HIDE DEF i
      <3>5. e.subdir /\ s[x].nodes[m].id = e.cluster
        BY <2>2, <3>4 DEF NodeOf
      <3>6. i \in UsedSlots(content[x].table) /\ content[x].table[i] = e
        BY <1>12, <3>1, <3>2, <3>3
      <3>7. e.cluster \in LiveDirs /\ e.cluster \in StoreCluster
        BY <1>1, <3>1, <3>5, <3>6, EntryLeads
      <3>8. TableOf(content'[x]) = content'[x].table
        BY <1>6, <3>1 DEF TableOf
      <3>9. e.cluster \in Successors(diskFat', content', x)
        BY <3>2, <3>3, <3>8 DEF Successors
      <3>10. e.cluster \in M
        BY <1>14, <3>1, <3>7, <3>9 DEF ClosedUnder
      <3> QED
        BY <1>6, <1>17, <3>5, <3>7, <3>10
    <2> HIDE DEF D
    <2> QED
      BY <2>1, <2>2 DEF KeepsInside
  <1>19. R \subseteq D /\ R \subseteq LiveDirs /\ KeepsInside(s, R)
    <2>1. DOMAIN s = LiveDirs /\ D \in SUBSET DOMAIN s
      BY <1>11, <1>17
    <2> HIDE DEF D
    <2> QED
      BY <1>18, <2>1, ReachableLeast
  <1> HIDE DEF R
  <1>20. D \subseteq R
    <2> DEFINE B == {c \in Live(diskFat, content) : content[c].kind = "block"}
               S == R \cup B
    <2>1. /\ Live(diskFat, content) \subseteq StoreCluster
          /\ ClosedUnder(diskFat, content, Live(diskFat, content))
      BY <1>1, Usual
    <2>2. ASSUME NEW c \in B
          PROVE  Successors(diskFat', content', c) \cap StoreCluster \subseteq S
      <3>1. c \in StoreCluster /\ c # q /\ c # ROOT /\ content[c].kind = "block"
        BY <1>1, <1>14, <2>1 DEF LiveDirs
      <3>2. content'[c] = content[c] /\ UsedSlots(TableOf(content[c])) = {}
        BY <1>3, <1>14, <3>1, ContentKinds, BlankGood, Slots DEF Puts, UsedSlots
      <3>3. PICK O \in SUBSET StoreCluster :
               Volume(O) /\ Live(diskFat, content) \subseteq O \cup {ROOT}
        BY <1>1, Usual
      <3>4. BlockIntact(c)
        BY <3>1, <3>3 DEF Volume, Chains
      <3>5. ASSUME diskFat[c] \in StoreCluster PROVE diskFat[c] \in B
        <4>1. diskFat[c] # END_OF_FILE /\ diskFat[c] \in Live(diskFat, content)
          BY <2>1, <3>5, Numbers DEF ClosedUnder, Successors
        <4>2. content[diskFat[c]].kind = "block"
          BY <3>4, <4>1, BlockFields DEF BlockIntact
        <4> QED
          BY <4>1, <4>2
      <3> QED
        BY <1>1, <3>2, <3>5 DEF Successors
    <2>3. ASSUME NEW c \in R
          PROVE  Successors(diskFat', content', c) \cap StoreCluster \subseteq S
      <3>1. c \in LiveDirs /\ diskFat[c] = END_OF_FILE /\ GoodTable(content[c].table)
        BY <1>1, <1>19, DirIs
      <3>2. TableOf(content'[c]) = content'[c].table
        BY <1>6, <3>1 DEF TableOf
      <3>3. ASSUME NEW i \in UsedSlots(content'[c].table)
            PROVE  content'[c].table[i].cluster \in S
        <4>1. PICK e : e = content'[c].table[i]
          OBVIOUS
        <4>2. i \in UsedSlots(content[c].table) /\ content[c].table[i] = e
          BY <1>12, <3>1, <4>1
        <4>3. /\ e.cluster \in Live(diskFat, content)
              /\ ~e.subdir => content[e.cluster].kind = "block"
          BY <1>1, <3>1, <4>2, EntryLeads
        <4>4. CASE e.subdir
          <5> DEFINE k == SlotNamed(content'[c].table, e.name)
          <5>1. e.name \in NamesIn(content'[c].table)
            BY <4>1 DEF NamesIn
          <5>2. k \in UsedSlots(content'[c].table) /\ content'[c].table[k].name = e.name
            BY <5>1 DEF NamesIn, SlotNamed
          <5>3. k = i
            <6> HIDE DEF k
            <6>1. k \in UsedSlots(content[c].table) /\ content[c].table[k].name = e.name
              BY <1>12, <3>1, <5>2
            <6> QED
              BY <3>1, <4>2, <6>1 DEF GoodTable
          <5>4. e.name \in DOMAIN s[c].nodes /\ s[c].nodes[e.name] = NodeOf(content', e)
            BY <1>13, <3>1, <4>1, <5>1, <5>3
          <5>5. /\ s[c].nodes[e.name].kind = "dir" /\ s[c].nodes[e.name].id = e.cluster
            BY <4>4, <5>4 DEF NodeOf
          <5>6. e.cluster \in R
            BY <1>19, <2>3, <5>4, <5>5 DEF KeepsInside
          <5> QED
            BY <4>1, <5>6
        <4>5. CASE ~e.subdir
          BY <4>1, <4>3, <4>5
        <4> QED
          BY <4>4, <4>5
      <3>4. diskFat'[c] \notin StoreCluster
        BY <1>1, <3>1, Numbers
      <3> QED
        BY <3>2, <3>3, <3>4 DEF Successors
    <2>4. ROOT \in S /\ S \in SUBSET StoreCluster
      <3>1. ROOT \in R /\ LiveDirs \subseteq StoreCluster
        BY <1>1, <1>19, DirIs DEF KeepsInside
      <3> QED
        BY <1>19, <2>1, <3>1
    <2>5. ClosedUnder(diskFat', content', S)
      <3> HIDE DEF B
      <3> QED
        BY <2>2, <2>3, <2>4 DEF ClosedUnder
    <2>6. M \subseteq S
      BY <2>4, <2>5, LiveLeast DEF M
    <2>7. \A c \in B : content'[c].kind # "table"
      BY <1>16
    <2> QED
      BY <1>17, <2>6, <2>7
  <1>21. absStore' = [d \in D |-> RecordOf(content', d)]
    BY DEF Mapped, TreeOf, RecordOf
  <1>22. absStore' = [d \in FS!Reachable(s) |-> s[d]]
    <2>1. FS!Reachable(s) = D
      BY <1>19, <1>20 DEF R
    <2> HIDE DEF D
    <2> QED
      BY <1>11, <1>17, <1>21, <2>1
  <1>23. absDone' = TRUE /\ absCall' = absCall /\ absData' = absData
    BY <1>1 DEF absDone, absCall, absData
  <1>24. UNCHANGED <<absCall, [code |-> reply.code, data |-> absData]>>
    BY <1>1, <1>23
  <1> QED
    BY <1>7, <1>10, <1>22, <1>23, <1>24 DEF FS!Remove

-----------------------------------------------------------------------------
(* The refinement.                                                           *)

\* Every step of the driver is one of the store's or leaves it as it is.
LEMMA NextMaps ==
    ASSUME StoreCalls, Mapped, Mapped', [Next]_vars
    PROVE  [FS!Next]_(FS!vars)
  <1>1. CASE Commit
    BY <1>1, CommitMaps DEF FS!Next
  <1>2. CASE Unlink
    BY <1>2, UnlinkMaps DEF FS!Next
  <1>3. ASSUME ~Commit, ~Unlink
        PROVE  [FS!Next]_(FS!vars)
    <2>1. absStore' = absStore
      BY <1>3, StoreSame
    <2>2. StoreInv /\ Control
      BY DEF Mapped, StoreInv, Inv, TypeInv
    <2>3. ~Format /\ ~FormatRoot
      BY <2>2, NoFormat
    <2>4. CASE Mount \/ Crash
      BY <2>1, <2>4, PowerMaps DEF FS!Next
    <2>5. CASE Invoke
      BY <2>1, <2>5, InvokeMaps DEF FS!Next
    <2>6. CASE ReadRefuse \/ ReadFile
      BY <2>1, <2>6, ReadMaps DEF FS!Next
    <2>7. CASE ReadDirectory
      BY <2>1, <2>7, ReadDirectoryMaps DEF FS!Next
    <2>8. CASE WriteRefuse \/ DeleteRefuse
      BY <2>1, <2>8, RefuseMaps DEF FS!Next
    <2>9. CASE FlushLast
      BY <2>1, <2>9, FlushLastMaps DEF FS!Next
    <2>10. CASE WriteStart \/ WriteChild \/ LinkCluster \/ WriteBlock
      <3>1. /\ pc \in {"begin", "child", "link", "block"} /\ req.op = "write"
            /\ pc' \in {"child", "commit", "link", "flush"}
            /\ req' = req /\ reply' = reply
        BY <2>2, <2>10
        DEF WriteStart, WriteChild, LinkCluster, WriteBlock, Serving, locals, Control
      <3> QED
        BY <2>1, <3>1, StutterMaps
    <2>11. CASE FlushSector
      <3>1. pc = "flush" /\ pc' = pc /\ req' = req /\ reply' = reply
        BY <2>11 DEF FlushSector
      <3> QED
        BY <2>1, <3>1, StutterMaps
    <2>12. CASE Delete
      <3>1. pc = "begin" /\ pc' = "unlink" /\ req' = req /\ reply' = reply
        BY <2>2, <2>12, DeleteFinds
      <3> QED
        BY <2>1, <3>1, StutterMaps
    <2>13. CASE UNCHANGED vars
      <3>1. pc' = pc /\ req' = req /\ reply' = reply
        BY <2>13 DEF vars
      <3>2. absCall' = absCall /\ absDone' = absDone /\ absData' = absData
        BY <3>1 DEF absCall, absDone, absData
      <3> QED
        BY <2>1, <3>1, <3>2 DEF FS!vars
    <2> QED
      BY <1>3, <2>3, <2>4, <2>5, <2>6, <2>7, <2>8, <2>9, <2>10, <2>11, <2>12, <2>13
      DEF Next, DriverStep
  <1> QED
    BY <1>1, <1>2, <1>3

\* The sample image holds the root directory, and the root holds nothing.
LEMMA InitMaps ==
    ASSUME StoreCalls, Init
    PROVE  FS!Init
  <1>1. StoreInv /\ Image("sample")
    BY InitStore DEF Init, StoreCalls
  <1>2. /\ diskFat = [FormattedFat EXCEPT ![ROOT] = END_OF_FILE]
        /\ content = [c \in StoreCluster |->
                IF c = ROOT THEN Table(DirTable(ROOT_NAME, ROOT)) ELSE Blank]
        /\ req = NoRequest /\ pc = "off" /\ reply = NoReply /\ NoRequest.op = "none"
    BY <1>1 DEF Init, Image, NoRequest, Ask
  <1>3. /\ content[ROOT].table = DirTable(ROOT_NAME, ROOT) /\ content[ROOT].kind = "table"
        /\ diskFat[ROOT] = END_OF_FILE
    BY <1>2, FatFacts, Numbers, TableFields DEF Fat
  <1>4. /\ content[ROOT].table[0].name = ROOT_NAME
        /\ UsedSlots(content[ROOT].table) = {}
    <2>1. ROOT_NAME \in AnyName /\ ROOT \in Cluster
      BY Numbers DEF AnyName
    <2> QED
      BY <1>3, <2>1, NewTable, Slots DEF UsedSlots
  <1>5. Live(diskFat, content) = {ROOT}
    <2>1. Successors(diskFat, content, ROOT) \cap StoreCluster = {}
      BY <1>3, <1>4, Numbers DEF Successors, TableOf
    <2>2. {ROOT} \in SUBSET StoreCluster /\ ClosedUnder(diskFat, content, {ROOT})
      BY <2>1, Numbers DEF ClosedUnder
    <2> QED
      BY <1>1, <2>2, LiveLeast, Usual DEF ClosedUnder
  <1>6. LiveDirs = {ROOT}
    BY <1>3, <1>5 DEF LiveDirs
  <1>7. absStore = [d \in {ROOT} |-> FS!EmptyDir(ROOT_NAME)]
    <2>1. NamesIn(content[ROOT].table) = {}
      BY <1>4 DEF NamesIn
    <2> QED
      BY <1>4, <1>6, <2>1 DEF absStore, FS!EmptyDir
  <1>8. absCall = FS!Off /\ absDone = FALSE
    BY <1>2 DEF absCall, absDone, FS!Off
  <1>9. absData = <<>> /\ reply.code = 0
    BY <1>2 DEF absData, NoReply
  <1> QED
    BY <1>7, <1>8, <1>9 DEF FS!Init, FS!NoAnswer

\* The driver is the file store: each call answers from the tree the disk holds
\* and changes it at once or not at all, in the one disk write of the parent's
\* table; a power failure between any two disk writes leaves the tree as it is.
THEOREM DriverIsStore == ASSUME StoreCalls PROVE Spec => ImplementsFileStore
  <1>1. Init => StoreInv /\ FS!Init
    BY InitStore, InitMaps
  <1>2. StoreInv /\ [Next]_vars => StoreInv'
    BY NextStore
  <1>3. StoreInv => Mapped
    BY StoreIsTree DEF Mapped
  <1>4. Mapped /\ Mapped' /\ [Next]_vars => [FS!Next]_(FS!vars)
    BY NextMaps
  <1> QED
    BY <1>1, <1>2, <1>3, <1>4, PTL DEF Spec, ImplementsFileStore, FS!Spec
=============================================================================
