-------------------------------- MODULE FAT32 --------------------------------
(****************************************************************************)
(* The file-system driver of kajijOSta (src/fat32.c, header/cpu/fat32.h):    *)
(* an in-memory File Allocation Table, the on-disk table, the directory      *)
(* tables and the data clusters, and the five calls the kernel, the user     *)
(* shell and the external inserter make of them.                             *)
(*                                                                           *)
(* One step is one disk write (or a call that writes nothing), because a     *)
(* power failure may fall between any two of them.  A call is never          *)
(* interleaved with another: it runs inside the int 0x30 gate with           *)
(* interrupts off.                                                           *)
(*                                                                           *)
(* Abstractions:                                                             *)
(*  - a name stands for the 11 bytes name + ext (every caller passes an ext  *)
(*    of zeros), a payload for the bytes a write is given; only its length   *)
(*    in clusters matters;                                                   *)
(*  - a directory table or a data block goes to disk in one step: its write  *)
(*    changes one sector that matters (a directory), or a cluster nothing    *)
(*    points to yet.  The FAT goes to disk sector by sector;                 *)
(*  - read's copying of a chain into the buffer is one step: it writes nothing *)
(*    to disk;                                                               *)
(*  - a data block that is read as a directory table (which only happens     *)
(*    once the disk is corrupt) is an all-zero table.                        *)
(* Definitions named Bug... are not part of the model: each is the definition *)
(* after it with one plausible mistake, and shows that a property notices.    *)
(****************************************************************************)
EXTENDS Integers

CONSTANTS
    CLUSTER_MAP_SIZE, \* clusters of the disk; 512 in fat32.h
    FAT_SECTOR,       \* FAT entries in one disk sector; 512 / 4 = 128
    DIR_ENTRIES,      \* entries of a directory table; 2048 / 32 = 64
    COUNT_MOD,        \* range of the uint8_t cluster counts; 256
    Name,             \* names the callers pass
    ROOT_NAME,        \* "root", the label of the sample image's root
    FORMAT_NAME,      \* what create_fat32 labels the root: "ROOT" and 3 stray bytes
    NO_NAME,          \* the name of zeros, which every unused entry has
    Payload,          \* contents a file may be written with
    FOLDER,           \* the empty payload (buffer_size = 0): make a directory
    ClustersOf,       \* length of a payload in clusters
    Capacities,       \* read buffer sizes, in whole clusters
    Images,           \* disk images the machine may start on: "blank", "sample"
    Callers,          \* what the callers may do besides the ordinary, see RequestsOn
    Faults            \* {"crash"} when the power may fail

ROOT == 2                        \* ROOT_CLUSTER_NUMBER
EMPTY == 0                       \* FAT32_FAT_EMPTY_ENTRY
END_OF_FILE == 268435455         \* FAT32_FAT_END_OF_FILE = CLUSTER_1_VALUE
CLUSTER_0_VALUE == 268435440

ASSUME GeometryAssumption ==
    /\ CLUSTER_MAP_SIZE \in Nat /\ CLUSTER_MAP_SIZE > ROOT
    /\ CLUSTER_MAP_SIZE < CLUSTER_0_VALUE
    /\ FAT_SECTOR \in Nat \ {0}
    /\ DIR_ENTRIES \in Nat /\ DIR_ENTRIES > 2
    /\ COUNT_MOD \in Nat /\ COUNT_MOD > 1

ASSUME DataAssumption ==
    /\ FOLDER \notin Payload
    /\ ClustersOf \in [Payload -> Nat \ {0}]
    /\ Capacities \subseteq Nat

ASSUME CallersAssumption ==
    /\ NO_NAME \notin Name \cup {ROOT_NAME, FORMAT_NAME}
    /\ Images \subseteq {"blank", "sample"}
    /\ Callers \subseteq {"populated", "own_name", "no_name", "stale"}
    /\ Faults \subseteq {"crash"}

Cluster == 0 .. CLUSTER_MAP_SIZE - 1
StoreCluster == ROOT .. CLUSTER_MAP_SIZE - 1     \* after boot sector and FAT
Slot == 0 .. DIR_ENTRIES - 1
UserSlot == 2 .. DIR_ENTRIES - 1                 \* slot 0 is the self entry
SectorOf(c) == c \div FAT_SECTOR
BugLastSector == (CLUSTER_MAP_SIZE \div FAT_SECTOR) - 1   \* rounds down
LAST_SECTOR == SectorOf(CLUSTER_MAP_SIZE - 1)
AnyName == Name \cup {ROOT_NAME, FORMAT_NAME, NO_NAME}

Entry == [name : AnyName, subdir : BOOLEAN, used : BOOLEAN,
          cluster : Cluster, size : Nat]
ZeroEntry == [name |-> NO_NAME, subdir |-> FALSE, used |-> FALSE,
              cluster |-> 0, size |-> 0]
ZeroTable == [i \in Slot |-> ZeroEntry]

Table(t) == [kind |-> "table", table |-> t]
Block(p, k) == [kind |-> "block", payload |-> p, index |-> k]
Content == [kind : {"table"}, table : [Slot -> Entry]]
           \cup [kind : {"block"}, payload : Payload, index : Nat]
Blank == Table(ZeroTable)
TableOf(x) == IF x.kind = "table" THEN x.table ELSE ZeroTable

FatValue == Cluster \cup {CLUSTER_0_VALUE, END_OF_FILE}
Fat == [Cluster -> FatValue]

Request == [op : {"read", "read_directory", "write", "delete"},
            parent : StoreCluster, name : AnyName,
            payload : Payload \cup {FOLDER}, capacity : Capacities \cup {0}]
Ask(op, p, n, x, k) ==
    [op |-> op, parent |-> p, name |-> n, payload |-> x, capacity |-> k]
NoRequest == Ask("none", ROOT, NO_NAME, FOLDER, 0)
FormatRequest == Ask("format", ROOT, FORMAT_NAME, FOLDER, 0)

VARIABLES
    signed,     \* disk: the boot sector holds fs_signature
    diskFat,    \* disk: the FAT, cluster 1
    content,    \* disk: what each further cluster holds
    fat_table,  \* driver state: the cached FAT
    dir_table,  \* the parent's table the running call works on
    req,        \* the request being served
    slot_buf,   \* the clusters a write has found, in order
    slot,       \* the directory slot the call has found
    j,          \* the file cluster being written
    sector,     \* the next FAT sector to go to disk
    pc,         \* where the driver stands
    reply       \* result of the last call: return code and clusters read

disk == <<signed, diskFat, content>>
locals == <<dir_table, req, slot_buf, slot, j, sector>>
vars == <<signed, diskFat, content, fat_table, dir_table, req, slot_buf,
          slot, j, sector, pc, reply>>

NoFat == [c \in Cluster |-> EMPTY]
NoSlots == [k \in {} |-> 0]
NoReply == [code |-> 0, data |-> <<>>]

-----------------------------------------------------------------------------
(* Chains and reachability.                                                  *)

\* The clusters a walk along F visits from h before it reads END_OF_FILE or
\* leaves the table: the least set that holds h and is closed under F.
ChainSet(F, h) ==
    LET closed == {S \in SUBSET Cluster :
            h \in S /\ \A x \in S : F[x] \in Cluster => F[x] \in S}
    IN  {c \in Cluster : \A S \in closed : c \in S}

\* The walk stops; otherwise it circles for ever or indexes past the table.
WalkEnds(F, h) == \E c \in ChainSet(F, h) : F[c] = END_OF_FILE

\* The clusters of a walk in the order in which read visits them.
Walk(F, h) ==
    LET at[k \in 0 .. CLUSTER_MAP_SIZE] ==
            IF k = 0 THEN h
            ELSE IF at[k - 1] \in Cluster THEN F[at[k - 1]] ELSE at[k - 1]
    IN  [k \in {i \in 0 .. CLUSTER_MAP_SIZE : at[i] \in Cluster} |-> at[k]]

UsedSlots(t) == {i \in UserSlot : t[i].used}

\* delete: the walk along the chain leaves every cluster of it empty.
BugFreeChain(F, h) == [F EXCEPT ![h] = EMPTY]
FreeChain(F, h) ==
    [c \in Cluster |-> IF c \in ChainSet(F, h) THEN EMPTY ELSE F[c]]

\* What a cluster leads to: the next of its chain, and its table's entries.
Successors(F, C, c) ==
    {F[c]} \cup {TableOf(C[c])[i].cluster : i \in UsedSlots(TableOf(C[c]))}

ClosedUnder(F, C, S) ==
    ROOT \in S /\ \A c \in S : Successors(F, C, c) \cap StoreCluster \subseteq S

\* The clusters reachable from the root directory.
Live(F, C) ==
    LET closed == {S \in SUBSET StoreCluster : ClosedUnder(F, C, S)}
    IN  {c \in StoreCluster : \A S \in closed : c \in S}

LiveDirs ==
    {c \in Live(diskFat, content) : content[c].kind = "table"}

-----------------------------------------------------------------------------
(* Directory tables.                                                         *)

\* init_directory_table; its caller puts the directory's own cluster in the
\* self entry, so the parent's number it is first given does not survive.
DirTable(n, c) ==
    [ZeroTable EXCEPT ![0] = [name |-> n, subdir |-> TRUE, used |-> FALSE,
                              cluster |-> c, size |-> 0]]

\* The slot a scan from slot 0 stops at, as a set of at most one slot.
BugFirstMatch(t, n) ==
    {i \in UserSlot : t[i].name = n /\ \A k \in 2 .. i - 1 : t[k].name # n}
FirstMatch(t, n) ==
    {i \in Slot : t[i].name = n /\ \A k \in 0 .. i - 1 : t[k].name # n}

\* write scans from slot 2, for the name and for the first unused slot.
BugNameTaken(t, n) ==     \* stops at the first unused slot
    \E i \in UserSlot : t[i].name = n /\ \A k \in 2 .. i : t[k].used
NameTaken(t, n) == \E i \in UserSlot : t[i].name = n
FirstUnused(t) ==
    {i \in UserSlot : ~t[i].used /\ \A k \in 2 .. i - 1 : t[k].used}

\* ceil: the number of clusters as the uint8_t the code keeps it in.
CountOf(clusters) == clusters % COUNT_MOD

\* uint8_t required of write; a folder takes one cluster.
Required(p) == IF p = FOLDER THEN 1 ELSE CountOf(ClustersOf[p])

\* s is slot_buf after the scan: the first n empty clusters, ascending.
BugIsFirstFree(s, n) ==   \* allocates from the end of the wrong marker
    /\ \A k \in 0 .. n - 1 : s[k] # 1 /\ fat_table[s[k]] \in {EMPTY, END_OF_FILE}
    /\ \A k, m \in 0 .. n - 1 : k < m => s[k] < s[m]
IsFirstFree(s, n) ==
    /\ \A k \in 0 .. n - 1 : fat_table[s[k]] = EMPTY
    /\ \A k, m \in 0 .. n - 1 : k < m => s[k] < s[m]
    /\ \A c \in Cluster, k \in 0 .. n - 1 :
          (fat_table[c] = EMPTY /\ c < s[k]) => \E m \in 0 .. k - 1 : s[m] = c

SlotBufs(n) == {s \in [0 .. n - 1 -> Cluster] : IsFirstFree(s, n)}

-----------------------------------------------------------------------------
(* The machine: image, power, mount, format.                                 *)

FormattedFat ==
    [c \in Cluster |-> CASE c = 0 -> CLUSTER_0_VALUE
                         [] c = 1 -> END_OF_FILE
                         [] OTHER -> EMPTY]

\* The image the machine starts on: qemu-img's zeros, or the course's sample
\* image, an empty volume whose root directory is allocated.
Image(i) ==
    IF i = "sample"
    THEN /\ signed = TRUE
         /\ diskFat = [FormattedFat EXCEPT ![ROOT] = END_OF_FILE]
         /\ content = [c \in StoreCluster |->
                IF c = ROOT THEN Table(DirTable(ROOT_NAME, ROOT)) ELSE Blank]
    ELSE /\ signed = FALSE
         /\ diskFat = NoFat
         /\ content = [c \in StoreCluster |-> Blank]

Init ==
    /\ \E i \in Images : Image(i)
    /\ fat_table = NoFat /\ dir_table = ZeroTable
    /\ req = NoRequest /\ slot_buf = NoSlots
    /\ slot = 0 /\ j = 0 /\ sector = 0
    /\ pc = "off" /\ reply = NoReply

ClearLocals ==
    /\ dir_table' = ZeroTable /\ req' = NoRequest /\ slot_buf' = NoSlots
    /\ slot' = 0 /\ j' = 0 /\ sector' = 0

\* A call returns: its frame is gone, its caller has the code and the buffer.
Return(code, data) ==
    /\ ClearLocals
    /\ reply' = [code |-> code, data |-> data]
    /\ pc' = "idle"

\* The power fails: memory is lost, the disk stays as the last write left it.
Crash ==
    /\ "crash" \in Faults /\ pc # "off"
    /\ ClearLocals
    /\ fat_table' = NoFat /\ reply' = NoReply /\ pc' = "off"
    /\ UNCHANGED disk

\* initialize_filesystem_fat32 on a disk with the signature.
Mount ==
    /\ pc = "off" /\ signed
    /\ fat_table' = diskFat /\ pc' = "idle"
    /\ UNCHANGED <<disk, locals, reply>>

\* create_fat32: the signature first, then the FAT, then the root's table.
Format ==
    /\ pc = "off" /\ ~signed
    /\ signed' = TRUE
    /\ fat_table' = FormattedFat
    /\ dir_table' = DirTable(FORMAT_NAME, ROOT)
    /\ req' = FormatRequest /\ pc' = "flush"
    /\ UNCHANGED <<diskFat, content, slot_buf, slot, j, sector, reply>>

FormatRoot ==
    /\ pc = "format_root"
    /\ content' = [content EXCEPT ![ROOT] = Table(dir_table)]
    /\ ClearLocals /\ pc' = "idle"
    /\ UNCHANGED <<signed, diskFat, fat_table, reply>>

-----------------------------------------------------------------------------
(* Calls.                                                                    *)

\* The directories a client may pass: those it can reach and, as "stale", any that
\* it knew once: a table that is still on the disk though its directory has been
\* deleted, or lies below one that has.  (A number whose cluster a file has taken
\* since is left out: the file's data would be taken for a table.)
Parents ==
    LiveDirs \cup {c \in StoreCluster :
        /\ "stale" \in Callers
        /\ content[c].kind = "table" /\ content[c].table[0].cluster = c}

\* The calls a client may make on directory p.  Unless Callers says otherwise
\* no client names a directory by its own label inside itself ("own_name"),
\* deletes a directory that has entries ("populated") or passes the empty name
\* ("no_name").  Listing a directory from itself is how the shell lists root.
RequestsOn(p) ==
    LET t == TableOf(content[p])
        label == t[0].name
        calls == Name \cup {n \in {NO_NAME} : "no_name" \in Callers}
        names == {n \in calls : "own_name" \in Callers \/ n # label}
        populated == {n \in names : \E i \in FirstMatch(t, n) :
            t[i].subdir /\ UsedSlots(TableOf(content[t[i].cluster])) # {}}
    IN  {Ask("read", p, n, FOLDER, k) : n \in names, k \in Capacities}
        \cup {Ask("read_directory", p, n, FOLDER, 0) : n \in calls \cup {label}}
        \cup {Ask("write", p, n, x, 0) : n \in names, x \in Payload \cup {FOLDER}}
        \cup {Ask("delete", p, n, FOLDER, 0) :
                 n \in {m \in names : "populated" \in Callers \/ m \notin populated}}

Invoke ==
    /\ pc = "idle"
    /\ \E p \in Parents : \E r \in RequestsOn(p) : req' = r
    /\ pc' = "begin" /\ reply' = NoReply
    /\ UNCHANGED <<disk, fat_table, dir_table, slot_buf, slot, j, sector>>

Serving(op) == pc = "begin" /\ req.op = op
ParentTable == TableOf(content[req.parent])
ParentValid == fat_table[req.parent] = END_OF_FILE
Answer(code, data) == Return(code, data) /\ UNCHANGED <<disk, fat_table>>
Hang == pc' = "hung" /\ UNCHANGED <<disk, fat_table, locals, reply>>

\* read: codes 2, 1 and -1.
ReadRefuse ==
    /\ Serving("read")
    /\ \/ ~ParentValid /\ Answer(2, <<>>)
       \/ /\ ParentValid /\ FirstMatch(ParentTable, req.name) = {}
          /\ Answer(2, <<>>)
       \/ /\ ParentValid
          /\ \E i \in FirstMatch(ParentTable, req.name) :
                \/ ParentTable[i].subdir /\ Answer(1, <<>>)
                \/ /\ ~ParentTable[i].subdir
                   /\ req.capacity < CountOf(ParentTable[i].size)
                   /\ Answer(-1, <<>>)

\* read: the walk along the chain fills the buffer, or never ends.
ReadFile ==
    /\ Serving("read") /\ ParentValid
    /\ \E i \in FirstMatch(ParentTable, req.name) :
          LET e == ParentTable[i]
              w == Walk(fat_table, e.cluster)
          IN  /\ ~e.subdir /\ req.capacity >= CountOf(e.size)
              /\ IF WalkEnds(fat_table, e.cluster)
                 THEN Answer(0, [k \in DOMAIN w |-> content[w[k]]])
                 ELSE Hang

\* read_directory: no look at the parent's FAT entry, names only.
ReadDirectory ==
    /\ Serving("read_directory")
    /\ \/ FirstMatch(ParentTable, req.name) = {} /\ Answer(2, <<>>)
       \/ \E i \in FirstMatch(ParentTable, req.name) :
             IF ParentTable[i].subdir
             THEN Answer(0, [k \in {0} |-> content[ParentTable[i].cluster]])
             ELSE Answer(1, <<>>)

\* write: the refusals, in the order in which the code comes to them.
WriteRefuse ==
    /\ Serving("write")
    /\ \/ ~ParentValid /\ Answer(2, <<>>)
       \/ ParentValid /\ NameTaken(ParentTable, req.name) /\ Answer(1, <<>>)
       \/ /\ ParentValid /\ ~NameTaken(ParentTable, req.name)
          /\ \/ FirstUnused(ParentTable) = {}
             \/ SlotBufs(Required(req.payload)) = {}
          /\ Answer(-1, <<>>)

\* write: a directory slot and enough clusters have been found.
WriteStart ==
    /\ Serving("write")
    /\ ParentValid /\ ~NameTaken(ParentTable, req.name)
    /\ dir_table' = ParentTable
    /\ slot' \in FirstUnused(ParentTable)
    /\ slot_buf' \in SlotBufs(Required(req.payload))
    /\ pc' = IF req.payload = FOLDER THEN "child"
             ELSE IF Required(req.payload) = 0 THEN "commit" ELSE "link"
    /\ UNCHANGED <<disk, fat_table, req, j, sector, reply>>

\* write of a folder: the child's table goes to disk before the FAT names it.
WriteChild ==
    /\ pc = "child"
    /\ content' = [content EXCEPT ![slot_buf[0]] =
                      Table(DirTable(req.name, slot_buf[0]))]
    /\ pc' = "link"
    /\ UNCHANGED <<signed, diskFat, fat_table, locals, reply>>

\* write: the cached FAT links cluster j to the next one, or ends the chain.
BugLinkCluster ==         \* a file's links are not saved
    /\ pc = "link"
    /\ fat_table' = [fat_table EXCEPT ![slot_buf[j]] =
                        IF j < Required(req.payload) - 1
                        THEN slot_buf[j + 1] ELSE END_OF_FILE]
    /\ sector' = 0
    /\ pc' = IF req.payload = FOLDER THEN "flush" ELSE "block"
    /\ UNCHANGED <<disk, dir_table, req, slot_buf, slot, j, reply>>

LinkCluster ==
    /\ pc = "link"
    /\ fat_table' = [fat_table EXCEPT ![slot_buf[j]] =
                        IF j < Required(req.payload) - 1
                        THEN slot_buf[j + 1] ELSE END_OF_FILE]
    /\ sector' = 0 /\ pc' = "flush"
    /\ UNCHANGED <<disk, dir_table, req, slot_buf, slot, j, reply>>

\* write_clusters of the FAT, one sector of it.
FlushedFat ==
    [c \in Cluster |-> IF SectorOf(c) = sector THEN fat_table[c] ELSE diskFat[c]]

BugFlushSector ==         \* one sector too many
    /\ pc = "flush" /\ sector <= LAST_SECTOR
    /\ diskFat' = FlushedFat
    /\ sector' = sector + 1
    /\ UNCHANGED <<signed, content, fat_table, dir_table, req, slot_buf, slot,
                   j, pc, reply>>

FlushSector ==
    /\ pc = "flush" /\ sector < LAST_SECTOR
    /\ diskFat' = FlushedFat
    /\ sector' = sector + 1
    /\ UNCHANGED <<signed, content, fat_table, dir_table, req, slot_buf, slot,
                   j, pc, reply>>

\* ... its last sector, and the place the code comes back to.
FlushLast ==
    /\ pc = "flush" /\ sector = LAST_SECTOR
    /\ diskFat' = FlushedFat
    /\ \/ req.op = "delete" /\ Return(0, <<>>)
       \/ /\ \/ req.op = "format" /\ pc' = "format_root"
             \/ req.op = "write" /\ req.payload = FOLDER /\ pc' = "commit"
             \/ req.op = "write" /\ req.payload # FOLDER /\ pc' = "block"
          /\ UNCHANGED <<locals, reply>>
    /\ UNCHANGED <<signed, content, fat_table>>

\* write of a file: the data of cluster j.
BugSameBlock ==           \* request.buf does not advance
    /\ pc = "block"
    /\ content' = [content EXCEPT ![slot_buf[j]] = Block(req.payload, 0)]
    /\ IF j + 1 < Required(req.payload)
       THEN j' = j + 1 /\ pc' = "link"
       ELSE j' = j /\ pc' = "commit"
    /\ UNCHANGED <<signed, diskFat, fat_table, dir_table, req, slot_buf, slot,
                   sector, reply>>

BugNoAdvance ==           \* j does not advance
    /\ pc = "block"
    /\ content' = [content EXCEPT ![slot_buf[j]] = Block(req.payload, j)]
    /\ pc' = IF j + 1 < Required(req.payload) THEN "link" ELSE "commit"
    /\ UNCHANGED <<signed, diskFat, fat_table, dir_table, req, slot_buf, slot,
                   j, sector, reply>>

WriteBlock ==
    /\ pc = "block"
    /\ content' = [content EXCEPT ![slot_buf[j]] = Block(req.payload, j)]
    /\ IF j + 1 < Required(req.payload)
       THEN j' = j + 1 /\ pc' = "link"
       ELSE j' = j /\ pc' = "commit"
    /\ UNCHANGED <<signed, diskFat, fat_table, dir_table, req, slot_buf, slot,
                   sector, reply>>

\* The first cluster of the new entry: slot_buf[0], which is whatever is on the
\* stack when the count of clusters has wrapped to zero.
EntryHeads == IF Required(req.payload) = 0 THEN Cluster ELSE {slot_buf[0]}

\* write: the parent's table with the new entry goes to disk last.
Commit ==
    /\ pc = "commit"
    /\ \E h \in EntryHeads :
          content' = [content EXCEPT ![req.parent] = Table(
              [dir_table EXCEPT ![slot] =
                  [name |-> req.name, subdir |-> req.payload = FOLDER,
                   used |-> TRUE, cluster |-> h,
                   size |-> IF req.payload = FOLDER THEN 0
                            ELSE ClustersOf[req.payload]]])]
    /\ Return(0, <<>>)
    /\ UNCHANGED <<signed, diskFat, fat_table>>

DeleteRefuse ==
    /\ Serving("delete") /\ FirstMatch(ParentTable, req.name) = {}
    /\ Answer(1, <<>>)

\* delete: the chain is freed in the cached FAT and the entry in the buffer.
BugDelete ==              \* the FAT is saved, the directory is not
    /\ Serving("delete")
    /\ \E i \in FirstMatch(ParentTable, req.name) :
          /\ WalkEnds(fat_table, ParentTable[i].cluster)
          /\ fat_table' = FreeChain(fat_table, ParentTable[i].cluster)
          /\ slot' = i /\ pc' = "flush"
          /\ UNCHANGED <<disk, dir_table, req, slot_buf, j, sector, reply>>

Delete ==
    /\ Serving("delete")
    /\ \E i \in FirstMatch(ParentTable, req.name) :
          LET h == ParentTable[i].cluster
          IN  IF WalkEnds(fat_table, h)
              THEN /\ fat_table' = FreeChain(fat_table, h)
                   /\ dir_table' = [ParentTable EXCEPT ![i] = ZeroEntry]
                   /\ slot' = i /\ pc' = "unlink"
                   /\ UNCHANGED <<disk, req, slot_buf, j, sector, reply>>
              ELSE Hang

\* delete: the directory goes to disk, then the FAT.
Unlink ==
    /\ pc = "unlink"
    /\ content' = [content EXCEPT ![req.parent] = Table(dir_table)]
    /\ sector' = 0 /\ pc' = "flush"
    /\ UNCHANGED <<signed, diskFat, fat_table, dir_table, req, slot_buf, slot,
                   j, reply>>

-----------------------------------------------------------------------------
DriverStep ==
    \/ FormatRoot
    \/ ReadRefuse \/ ReadFile \/ ReadDirectory
    \/ WriteRefuse \/ WriteStart \/ WriteChild \/ LinkCluster
    \/ FlushSector \/ FlushLast \/ WriteBlock \/ Commit
    \/ DeleteRefuse \/ Delete \/ Unlink

Next == Mount \/ Format \/ Invoke \/ DriverStep \/ Crash

Spec == Init /\ [][Next]_vars

\* A call runs in the int 0x30 gate until it is done: nothing else runs.
FairSpec == Spec /\ WF_vars(DriverStep)

=============================================================================
