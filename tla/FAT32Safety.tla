----------------------------- MODULE FAT32Safety -----------------------------
(* What must hold of the file-system driver and of the disk it leaves behind: *)
(* the type invariant, the invariants of the volume at every instant, what a  *)
(* step may never do, and that calls return.                                  *)
EXTENDS FAT32

\* Every variable holds a value of its C type, with cluster numbers in range.
TypeOK ==
    /\ signed \in BOOLEAN
    /\ diskFat \in Fat
    /\ content \in [StoreCluster -> Content]
    /\ fat_table \in Fat
    /\ dir_table \in [Slot -> Entry]
    /\ req \in Request \cup {NoRequest, FormatRequest}
    /\ \E n \in 0 .. COUNT_MOD - 1 : slot_buf \in [0 .. n - 1 -> Cluster]
    /\ slot \in Slot /\ j \in Nat /\ sector \in 0 .. LAST_SECTOR
    /\ pc \in {"off", "idle", "begin", "child", "link", "flush", "block",
               "commit", "unlink", "format_root", "hung"}
    /\ reply.code \in {-1, 0, 1, 2}

\* The cached FAT is the FAT on the disk whenever no write of it is under way,
\* and the sectors already written agree with it (write and delete both go on
\* from the cache, never from the disk).
FatCoherent ==
    /\ pc \in {"idle", "begin", "child", "link", "block", "commit",
               "format_root", "hung"} => fat_table = diskFat
    /\ pc = "flush" =>
          \A c \in Cluster : SectorOf(c) < sector => fat_table[c] = diskFat[c]

\* The volume is one that calls can work on: its root directory is allocated.
\* (create_fat32 leaves it free, see RootDirectoryAllocated.)
Usable == diskFat[ROOT] = END_OF_FILE

\* At every instant, so also if the power fails now, what the disk's root
\* directory leads to is allocated: every chain goes on in an allocated cluster
\* or ends, and every entry names an allocated cluster of the store.  This is
\* what the order FAT-before-entry in write and entry-before-FAT in delete is for.
NoDanglingPointer ==
    Usable => \A c \in Live(diskFat, content) :
        /\ diskFat[c] \in StoreCluster \cup {END_OF_FILE}
        /\ \A i \in UsedSlots(TableOf(content[c])) :
              TableOf(content[c])[i].cluster \in StoreCluster

\* The links among reachable clusters: <<c, 0>> is c's FAT successor and
\* <<c, i>> the entry in slot i of c's table.
LinkTarget(l) ==
    IF l[2] = 0 THEN diskFat[l[1]] ELSE TableOf(content[l[1]])[l[2]].cluster

Links ==
    {l \in Live(diskFat, content) \X ({0} \cup UserSlot) :
        /\ l[2] # 0 => l[2] \in UsedSlots(TableOf(content[l[1]]))
        /\ LinkTarget(l) \in StoreCluster}

\* No cluster belongs to two files or directories, and no link leads back to
\* the root: what hangs off the root is a tree.
NoCrossLink ==
    Usable =>
        /\ \A k, l \in Links : LinkTarget(k) = LinkTarget(l) => k = l
        /\ \A l \in Links : LinkTarget(l) # ROOT

\* e is the entry of a file: its chain starts with block 0 of one payload of
\* the length the entry gives; the blocks then follow each other to the end.
FileIntact(e) ==
    /\ content[e.cluster].kind = "block"
    /\ content[e.cluster].index = 0
    /\ ClustersOf[content[e.cluster].payload] = e.size

BlockIntact(c) ==
    LET b == content[c] IN
    IF b.index + 1 = ClustersOf[b.payload] THEN diskFat[c] = END_OF_FILE
    ELSE /\ diskFat[c] \in StoreCluster
         /\ content[diskFat[c]] = Block(b.payload, b.index + 1)

\* e is the entry of a directory: a table that begins with an entry about
\* itself, under the name its parent gives it (read_directory and the shell's cd
\* rely on it), alone in its chain.
DirectoryIntact(e) ==
    /\ content[e.cluster].kind = "table"
    /\ content[e.cluster].table[0].name = e.name
    /\ content[e.cluster].table[0].cluster = e.cluster
    /\ diskFat[e.cluster] = END_OF_FILE

\* At every instant everything reachable on the disk is whole: no entry leads to
\* data that was not fully written, was cut short, or was overwritten.
ContentIntact ==
    Usable => \A c \in Live(diskFat, content) :
        /\ content[c].kind = "block" => BlockIntact(c)
        /\ content[c].kind = "table" =>
              \A i \in UsedSlots(content[c].table) :
                  LET e == content[c].table[i] IN
                  IF e.subdir THEN DirectoryIntact(e) ELSE FileIntact(e)

\* No two entries of a reachable directory have one name, so a lookup that stops
\* at the first match never hides an entry.
UniqueNames ==
    \A d \in LiveDirs : \A i, k \in UsedSlots(content[d].table) :
        content[d].table[i].name = content[d].table[k].name => i = k

\* The clusters the running call has taken or given back: those it will link, and
\* those that are free in memory and not yet on the disk.
OfCall ==
    {c \in StoreCluster : pc # "off" /\
        (fat_table[c] = EMPTY \/ \E k \in DOMAIN slot_buf : slot_buf[k] = c)}

\* The clusters that are lost for good: allocated on the disk, reachable from
\* nowhere, and no call is about to link or to free them.
Lost ==
    {c \in StoreCluster : diskFat[c] # EMPTY} \ (OfCall \cup Live(diskFat, content))

\* The step takes a directory out of its parent, or the call works in a directory
\* that has itself been taken out.
Unhooks ==
    \/ pc = "unlink" /\ TableOf(content[req.parent])[slot].subdir
    \/ req.parent \notin Live(diskFat, content)

\* Nothing ever frees a lost cluster, so losing one must be rare: of the steps that
\* stay in the volume's tree only a power failure loses clusters, and only those
\* of the call it cuts off; every call that returns has linked or freed all it
\* took, refused ones and those on a full disk included.
OnlyCrashLosesClusters ==
    [][(Usable /\ ~Unhooks) => Lost' \subseteq Lost \cup {c \in OfCall : pc' = "off"}]_vars

\* Of all that is reachable from the root, a step changes only the table of the
\* directory the running call is on: a write touches no cluster that holds data,
\* and delete's freeing reaches the disk after the entry is gone.
OnlyOwnDirectoryChanges ==
    [][Usable => \A c \in Live(diskFat, content) :
          /\ diskFat'[c] = diskFat[c]
          /\ content'[c] = content[c] \/ c = req.parent]_disk

\* Every call returns (or the power fails), the empty name aside.
Completes == (pc = "begin") ~> (pc \in {"idle", "off"})
=============================================================================
