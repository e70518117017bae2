----------------------------- MODULE FAT32_proof -----------------------------
(* Proofs about the file-system driver, for every geometry of the disk, every *)
(* set of names and payloads, every client behaviour and every crash.         *)
EXTENDS FAT32Safety, TLAPS, WellFoundedInduction

\* Integer division by a positive number is a natural number and monotone.
LEMMA DivNat ==
    ASSUME NEW c \in Nat, NEW d \in Nat \ {0}
    PROVE  c \div d \in Nat
  OBVIOUS

LEMMA DivMonotone ==
    ASSUME NEW b \in Nat, NEW c \in Nat, NEW d \in Nat \ {0}, b <= c
    PROVE  b \div d <= c \div d
  OBVIOUS

LEMMA SectorType ==
    /\ LAST_SECTOR \in Nat
    /\ \A c \in Cluster : SectorOf(c) \in 0 .. LAST_SECTOR
  BY GeometryAssumption, DivNat, DivMonotone
     DEF LAST_SECTOR, SectorOf, Cluster, ROOT

-----------------------------------------------------------------------------
(* Type correctness.  TypeOK alone is not inductive: LinkCluster needs j to   *)
(* be an index of slot_buf and Commit a first cluster, which hold because of  *)
(* where the driver stands.                                                  *)

Writing == pc \in {"child", "link", "block", "commit"} \/ (pc = "flush" /\ req.op = "write")

Control ==
    /\ pc \in {"begin", "child", "link", "block", "commit", "unlink"} => req \in Request
    /\ pc \in {"off", "idle", "begin"} => j = 0
    /\ pc \in {"child", "link", "block", "commit"} => req.op = "write"
    /\ pc = "unlink" => req.op = "delete"
    /\ pc = "flush" => req.op \in {"write", "delete", "format"}
    /\ pc = "format_root" => req.op = "format"
    /\ Writing =>
          /\ req.payload \in Payload \cup {FOLDER}
          /\ slot_buf \in [0 .. Required(req.payload) - 1 -> Cluster]
          /\ j \in Nat
          /\ pc # "commit" => j < Required(req.payload)
          /\ pc = "child" => req.payload = FOLDER /\ j = 0
          /\ pc = "block" => req.payload # FOLDER

TypeInv == TypeOK /\ Control

LEMMA RequiredType ==
    ASSUME NEW p \in Payload \cup {FOLDER}
    PROVE  Required(p) \in 0 .. COUNT_MOD - 1
  BY GeometryAssumption, DataAssumption DEF Required, CountOf

LEMMA EntryFacts ==
    /\ ZeroEntry \in Entry
    /\ ZeroTable \in [Slot -> Entry]
    /\ 0 \in Slot /\ 0 \in Cluster /\ ROOT \in StoreCluster
    /\ UserSlot \subseteq Slot /\ StoreCluster \subseteq Cluster
  BY GeometryAssumption
     DEF ZeroEntry, Entry, ZeroTable, Slot, UserSlot, Cluster, StoreCluster,
         AnyName, ROOT

LEMMA DirTableType ==
    ASSUME NEW n \in AnyName, NEW c \in Cluster
    PROVE  DirTable(n, c) \in [Slot -> Entry]
  BY EntryFacts DEF DirTable, Entry

LEMMA TableType ==
    ASSUME NEW t \in [Slot -> Entry]
    PROVE  Table(t) \in Content
  BY DEF Table, Content

LEMMA BlockType ==
    ASSUME NEW p \in Payload, NEW k \in Nat
    PROVE  Block(p, k) \in Content
  BY DEF Block, Content

LEMMA TableOfType ==
    ASSUME NEW x \in Content
    PROVE  TableOf(x) \in [Slot -> Entry]
  BY EntryFacts DEF TableOf, Content

LEMMA BlankType == Blank \in Content
  BY EntryFacts, TableType DEF Blank

LEMMA FatFacts ==
    /\ NoFat \in Fat /\ FormattedFat \in Fat
    /\ EMPTY \in FatValue /\ END_OF_FILE \in FatValue
    /\ Cluster \subseteq FatValue
    /\ \A c \in Cluster : c # END_OF_FILE
  BY EntryFacts, GeometryAssumption
     DEF NoFat, FormattedFat, Fat, FatValue, EMPTY, END_OF_FILE, CLUSTER_0_VALUE,
         Cluster

\* The clusters a write finds are clusters; a request names a cluster of the store.
LEMMA RequestType ==
    ASSUME TypeOK, NEW p \in Parents, NEW r \in RequestsOn(p)
    PROVE  r \in Request
  <1>1. p \in StoreCluster
    BY DEF Parents, LiveDirs, Live
  <1>2. TableOf(content[p])[0].name \in AnyName
    <2>1. content[p] \in Content
      BY <1>1 DEF TypeOK
    <2>2. TableOf(content[p]) \in [Slot -> Entry]
      BY <2>1, TableOfType
    <2> QED
      BY <2>2, EntryFacts DEF Entry
  <1>3. Name \cup {NO_NAME} \subseteq AnyName
    BY DEF AnyName
  <1> QED
    BY <1>1, <1>2, <1>3 DEF RequestsOn, Request, Ask

\* What TypeOK says once the request is known to be one of a client.
LEMMA ParentType ==
    ASSUME TypeOK, req \in Request
    PROVE  /\ req.parent \in StoreCluster /\ req.name \in AnyName
           /\ req.payload \in Payload \cup {FOLDER}
           /\ ParentTable \in [Slot -> Entry]
  <1>1. /\ req.parent \in StoreCluster /\ req.name \in AnyName
        /\ req.payload \in Payload \cup {FOLDER}
    BY DEF Request
  <1>2. content[req.parent] \in Content
    BY <1>1 DEF TypeOK
  <1> QED
    BY <1>1, <1>2, TableOfType DEF ParentTable

LEMMA InitType == Init => TypeInv
  <1> SUFFICES ASSUME Init PROVE TypeInv
    OBVIOUS
  <1>1. PICK i \in Images : Image(i)
    BY DEF Init
  <1>2. Table(DirTable(ROOT_NAME, ROOT)) \in Content
    BY EntryFacts, DirTableType, TableType DEF AnyName
  <1>3. /\ signed \in BOOLEAN /\ diskFat \in Fat
        /\ content \in [StoreCluster -> Content]
    <2>1. CASE i = "sample"
      BY <1>1, <1>2, <2>1, BlankType, FatFacts DEF Image, Fat
    <2>2. CASE i # "sample"
      BY <1>1, <2>2, BlankType, FatFacts DEF Image
    <2> QED
      BY <2>1, <2>2
  <1>4. slot_buf \in [0 .. 0 - 1 -> Cluster]
    BY DEF Init, NoSlots
  <1>5. \E n \in 0 .. COUNT_MOD - 1 : slot_buf \in [0 .. n - 1 -> Cluster]
    <2>1. 0 \in 0 .. COUNT_MOD - 1
      BY GeometryAssumption
    <2> QED
      BY <1>4, <2>1
  <1>6. TypeOK
    BY <1>3, <1>5, EntryFacts, FatFacts, SectorType
       DEF Init, TypeOK, NoReply
  <1>7. Control
    BY DEF Init, Control, Writing
  <1> QED
    BY <1>6, <1>7 DEF TypeInv

\* Every return of a call, a crash included, leaves the locals well typed.
LEMMA ClearedType ==
    ASSUME ClearLocals
    PROVE  /\ dir_table' \in [Slot -> Entry]
           /\ req' \in Request \cup {NoRequest, FormatRequest}
           /\ \E n \in 0 .. COUNT_MOD - 1 : slot_buf' \in [0 .. n - 1 -> Cluster]
           /\ slot' \in Slot /\ j' \in Nat /\ sector' \in 0 .. LAST_SECTOR
  <1>1. slot_buf' \in [0 .. 0 - 1 -> Cluster]
    BY DEF ClearLocals, NoSlots
  <1>2. \E n \in 0 .. COUNT_MOD - 1 : slot_buf' \in [0 .. n - 1 -> Cluster]
    <2>1. 0 \in 0 .. COUNT_MOD - 1
      BY GeometryAssumption
    <2> QED
      BY <1>1, <2>1
  <1>3. slot' \in Slot /\ j' \in Nat /\ sector' \in 0 .. LAST_SECTOR
    BY SectorType, GeometryAssumption DEF ClearLocals, Slot
  <1> QED
    BY <1>2, <1>3, EntryFacts DEF ClearLocals

LEMMA AnswerType ==
    ASSUME TypeInv, NEW code \in {-1, 0, 1, 2}, NEW data, Answer(code, data)
    PROVE  TypeInv'
  <1>1. TypeOK'
    BY ClearedType DEF TypeInv, TypeOK, Answer, Return, disk
  <1>2. Control'
    BY DEF Answer, Return, ClearLocals, Control, Writing
  <1> QED
    BY <1>1, <1>2 DEF TypeInv

LEMMA HangType ==
    ASSUME TypeInv, Hang
    PROVE  TypeInv'
  BY DEF TypeInv, TypeOK, Hang, disk, locals, Control, Writing

LEMMA NextType == TypeInv /\ [Next]_vars => TypeInv'
  <1> SUFFICES ASSUME TypeInv, [Next]_vars PROVE TypeInv'
    OBVIOUS
  <1> USE DEF TypeInv
  <1>1. CASE Mount
    <2>1. TypeOK'
      BY <1>1 DEF Mount, TypeOK, disk, locals
    <2>2. Control'
      BY <1>1 DEF Mount, locals, Control, Writing
    <2> QED
      BY <2>1, <2>2
  <1>2. CASE Format
    <2>1. DirTable(FORMAT_NAME, ROOT) \in [Slot -> Entry]
      BY EntryFacts, DirTableType DEF AnyName
    <2>2. TypeOK'
      BY <1>2, <2>1, FatFacts DEF Format, TypeOK
    <2>3. Control'
      <3>1. req'.op = "format" /\ pc' = "flush"
        BY <1>2 DEF Format, FormatRequest, Ask
      <3> QED
        BY <3>1 DEF Control, Writing
    <2> QED
      BY <2>2, <2>3
  <1>3. CASE Invoke
    <2>1. req' \in Request
      BY <1>3, RequestType DEF Invoke
    <2>2. TypeOK'
      BY <1>3, <2>1 DEF Invoke, TypeOK, disk, NoReply
    <2>3. Control'
      BY <1>3, <2>1 DEF Invoke, Control, Writing
    <2> QED
      BY <2>2, <2>3
  <1>4. CASE Crash
    <2>1. TypeOK'
      BY <1>4, ClearedType, FatFacts DEF Crash, TypeOK, disk, NoReply
    <2>2. Control'
      BY <1>4 DEF Crash, ClearLocals, Control, Writing
    <2> QED
      BY <2>1, <2>2
  <1>5. CASE FormatRoot
    <2>1. content' \in [StoreCluster -> Content]
      BY <1>5, TableType DEF FormatRoot, TypeOK
    <2>2. TypeOK'
      BY <1>5, <2>1, ClearedType DEF FormatRoot, TypeOK
    <2>3. Control'
      BY <1>5 DEF FormatRoot, ClearLocals, Control, Writing
    <2> QED
      BY <2>2, <2>3
  <1>6. CASE ReadRefuse
    BY <1>6, AnswerType DEF ReadRefuse
  <1>7. CASE ReadFile
    BY <1>7, AnswerType, HangType DEF ReadFile
  <1>8. CASE ReadDirectory
    BY <1>8, AnswerType DEF ReadDirectory
  <1>9. CASE WriteRefuse
    BY <1>9, AnswerType DEF WriteRefuse
  <1>10. CASE DeleteRefuse
    BY <1>10, AnswerType DEF DeleteRefuse
  <1>11. CASE WriteStart
    <2>1. req \in Request /\ req.op = "write" /\ j = 0
      BY <1>11 DEF WriteStart, Serving, Control
    <2>2. /\ req.payload \in Payload \cup {FOLDER}
          /\ dir_table' \in [Slot -> Entry]
      BY <1>11, <2>1, ParentType DEF WriteStart
    <2>3. Required(req.payload) \in 0 .. COUNT_MOD - 1
      BY <2>2, RequiredType
    <2>4. slot_buf' \in [0 .. Required(req.payload) - 1 -> Cluster]
      BY <1>11 DEF WriteStart, SlotBufs
    <2>5. slot' \in Slot
      BY <1>11, EntryFacts DEF WriteStart, FirstUnused
    <2>6. TypeOK'
      BY <1>11, <2>2, <2>3, <2>4, <2>5 DEF WriteStart, TypeOK, disk
    <2>7. Required(FOLDER) = 1
      BY DEF Required
    <2>8. Control'
      BY <1>11, <2>1, <2>2, <2>3, <2>4, <2>7 DEF WriteStart, Control, Writing
    <2> QED
      BY <2>6, <2>8
  <1>12. CASE WriteChild
    <2>1. req \in Request /\ req.payload = FOLDER /\ j = 0 /\ j < Required(req.payload)
          /\ slot_buf \in [0 .. Required(req.payload) - 1 -> Cluster]
      BY <1>12 DEF WriteChild, Control, Writing
    <2>2. slot_buf[0] \in Cluster
      BY <2>1, RequiredType, GeometryAssumption
    <2>3. Table(DirTable(req.name, slot_buf[0])) \in Content
      BY <2>1, <2>2, ParentType, DirTableType, TableType
    <2>4. TypeOK'
      BY <1>12, <2>3 DEF WriteChild, TypeOK, locals
    <2>5. Control'
      BY <1>12 DEF WriteChild, Control, Writing, locals
    <2> QED
      BY <2>4, <2>5
  <1>13. CASE LinkCluster
    <2>1. /\ req \in Request /\ j \in Nat /\ j < Required(req.payload)
          /\ req.payload \in Payload \cup {FOLDER}
          /\ slot_buf \in [0 .. Required(req.payload) - 1 -> Cluster]
      BY <1>13 DEF LinkCluster, Control, Writing
    <2>2. Required(req.payload) \in Nat
      BY <2>1, RequiredType
    <2>3. fat_table' \in Fat
      <3>1. ASSUME j < Required(req.payload) - 1
            PROVE  slot_buf[j + 1] \in Cluster
        BY <2>1, <2>2, <3>1
      <3> QED
        BY <1>13, <3>1, FatFacts DEF LinkCluster, TypeOK, Fat
    <2>4. TypeOK'
      BY <1>13, <2>3, SectorType DEF LinkCluster, TypeOK, disk
    <2>5. Control'
      BY <1>13 DEF LinkCluster, Control, Writing
    <2> QED
      BY <2>4, <2>5
  <1>14. CASE FlushSector
    <2>1. FlushedFat \in Fat
      BY DEF FlushedFat, TypeOK, Fat
    <2>2. sector' \in 0 .. LAST_SECTOR
      BY <1>14, SectorType DEF FlushSector, TypeOK
    <2>3. TypeOK'
      BY <1>14, <2>1, <2>2 DEF FlushSector, TypeOK
    <2>4. Control'
      BY <1>14 DEF FlushSector, Control, Writing
    <2> QED
      BY <2>3, <2>4
  <1>15. CASE FlushLast
    <2>1. FlushedFat \in Fat
      BY DEF FlushedFat, TypeOK, Fat
    <2>2. CASE req.op = "delete"
      <3>1. TypeOK'
        BY <1>15, <2>1, <2>2, ClearedType DEF FlushLast, Return, TypeOK
      <3>2. Control'
        BY <1>15, <2>2 DEF FlushLast, Return, ClearLocals, Control, Writing
      <3> QED
        BY <3>1, <3>2
    <2>3. CASE req.op # "delete"
      <3>2. TypeOK'
        BY <1>15, <2>1, <2>3 DEF FlushLast, TypeOK, locals
      <3>3. req.op = "write" => req \in Request
        BY DEF TypeOK, NoRequest, FormatRequest, Ask
      <3>4. Control'
        BY <1>15, <2>3, <3>3 DEF FlushLast, Control, Writing, locals
      <3> QED
        BY <3>2, <3>4
    <2> QED
      BY <2>2, <2>3
  <1>16. CASE WriteBlock
    <2>1. /\ req.payload \in Payload /\ j \in Nat /\ j < Required(req.payload)
          /\ Required(req.payload) \in Nat
      BY <1>16, RequiredType DEF WriteBlock, Control, Writing
    <2>2. content' \in [StoreCluster -> Content]
      BY <1>16, <2>1, BlockType DEF WriteBlock, TypeOK
    <2>3. j' \in Nat
      BY <1>16, <2>1 DEF WriteBlock
    <2>4. TypeOK'
      BY <1>16, <2>2, <2>3 DEF WriteBlock, TypeOK
    <2>5. Control'
      BY <1>16, <2>1, <2>3 DEF WriteBlock, Control, Writing
    <2> QED
      BY <2>4, <2>5
  <1>17. CASE Commit
    <2>1. /\ req \in Request /\ req.payload \in Payload \cup {FOLDER}
          /\ slot_buf \in [0 .. Required(req.payload) - 1 -> Cluster]
      BY <1>17 DEF Commit, Control, Writing
    <2>2. EntryHeads \subseteq Cluster
      BY <2>1, RequiredType, GeometryAssumption DEF EntryHeads
    <2>3. (IF req.payload = FOLDER THEN 0 ELSE ClustersOf[req.payload]) \in Nat
      BY <2>1, DataAssumption
    <2>4. PICK h \in EntryHeads : content' = [content EXCEPT ![req.parent] = Table(
              [dir_table EXCEPT ![slot] =
                  [name |-> req.name, subdir |-> req.payload = FOLDER,
                   used |-> TRUE, cluster |-> h,
                   size |-> IF req.payload = FOLDER THEN 0
                            ELSE ClustersOf[req.payload]]])]
      BY <1>17 DEF Commit
    <2>5. [name |-> req.name, subdir |-> req.payload = FOLDER, used |-> TRUE,
           cluster |-> h, size |-> IF req.payload = FOLDER THEN 0
                                   ELSE ClustersOf[req.payload]] \in Entry
      BY <2>1, <2>2, <2>3, ParentType DEF Entry
    <2>6. content' \in [StoreCluster -> Content]
      BY <2>4, <2>5, TableType DEF TypeOK
    <2>7. TypeOK'
      BY <1>17, <2>6, ClearedType DEF Commit, Return, TypeOK
    <2>8. Control'
      BY <1>17 DEF Commit, Return, ClearLocals, Control, Writing
    <2> QED
      BY <2>7, <2>8
  <1>18. CASE Delete
    <2>1. req \in Request /\ req.op = "delete"
      BY <1>18 DEF Delete, Serving, Control
    <2>2. PICK i \in FirstMatch(ParentTable, req.name) :
             LET h == ParentTable[i].cluster
             IN  IF WalkEnds(fat_table, h)
                 THEN /\ fat_table' = FreeChain(fat_table, h)
                      /\ dir_table' = [ParentTable EXCEPT ![i] = ZeroEntry]
                      /\ slot' = i /\ pc' = "unlink"
                      /\ UNCHANGED <<disk, req, slot_buf, j, sector, reply>>
                 ELSE Hang
      BY <1>18 DEF Delete
    <2>3. CASE WalkEnds(fat_table, ParentTable[i].cluster)
      <3>1. i \in Slot
        BY DEF FirstMatch
      <3>2. fat_table' \in Fat
        BY <2>2, <2>3, FatFacts DEF FreeChain, TypeOK, Fat
      <3>3. dir_table' \in [Slot -> Entry]
        BY <2>1, <2>2, <2>3, ParentType, EntryFacts
      <3>4. TypeOK'
        BY <2>2, <2>3, <3>1, <3>2, <3>3 DEF TypeOK, disk
      <3>5. Control'
        BY <2>1, <2>2, <2>3 DEF Control, Writing
      <3> QED
        BY <3>4, <3>5
    <2>4. CASE ~WalkEnds(fat_table, ParentTable[i].cluster)
      BY <2>2, <2>4, HangType
    <2> QED
      BY <2>3, <2>4
  <1>19. CASE Unlink
    <2>1. content' \in [StoreCluster -> Content]
      BY <1>19, TableType DEF Unlink, TypeOK
    <2>2. TypeOK'
      BY <1>19, <2>1, SectorType DEF Unlink, TypeOK
    <2>3. Control'
      BY <1>19 DEF Unlink, Control, Writing
    <2> QED
      BY <2>2, <2>3
  <1>20. CASE UNCHANGED vars
    BY <1>20 DEF vars, TypeOK, Control, Writing
  <1> QED
    BY <1>1, <1>2, <1>3, <1>4, <1>5, <1>6, <1>7, <1>8, <1>9, <1>10, <1>11, <1>12,
       <1>13, <1>14, <1>15, <1>16, <1>17, <1>18, <1>19, <1>20
       DEF Next, DriverStep

\* Type correctness: whatever the clients ask and whenever the power fails, no
\* cluster number, slot or index of slot_buf leaves its range.
THEOREM TypeCorrect == Spec => []TypeOK
  <1>1. TypeInv => TypeOK
    BY DEF TypeInv
  <1> QED
    BY <1>1, InitType, NextType, PTL DEF Spec

-----------------------------------------------------------------------------
(* The cached FAT and the FAT on the disk.  The strengthening: the machine    *)
(* comes up with no sector counted as written, so Format starts from the      *)
(* first one.                                                                *)

CoherentInv == FatCoherent /\ (pc = "off" => sector = 0)

\* Once the last sector is written the two tables are one.
LEMMA FlushedWhole ==
    ASSUME TypeOK, FatCoherent, pc = "flush", sector = LAST_SECTOR
    PROVE  FlushedFat = fat_table
  <1>1. \A c \in Cluster : SectorOf(c) = sector \/ SectorOf(c) < sector
    BY SectorType
  <1>2. \A c \in Cluster : FlushedFat[c] = fat_table[c]
    BY <1>1 DEF FlushedFat, FatCoherent
  <1>3. FlushedFat = [c \in Cluster |-> FlushedFat[c]]
    BY DEF FlushedFat
  <1> QED
    BY <1>2, <1>3 DEF TypeOK, Fat

LEMMA NextCoherent == TypeInv /\ CoherentInv /\ [Next]_vars => CoherentInv'
  <1> SUFFICES ASSUME TypeInv, CoherentInv, [Next]_vars PROVE CoherentInv'
    OBVIOUS
  <1> USE DEF TypeInv, CoherentInv
  <1>1. ASSUME NEW code, NEW data, Answer(code, data), pc = "begin"
        PROVE  CoherentInv'
    BY <1>1 DEF Answer, Return, disk, FatCoherent
  <1>2. ASSUME Hang, pc = "begin" PROVE CoherentInv'
    BY <1>2 DEF Hang, disk, FatCoherent
  <1>3. CASE Mount \/ Format \/ Invoke
    BY <1>3, SectorType DEF Mount, Format, Invoke, disk, locals, FatCoherent
  <1>4. CASE Crash
    BY <1>4 DEF Crash, ClearLocals, FatCoherent
  <1>5. CASE FormatRoot \/ WriteStart \/ WriteChild \/ WriteBlock
    BY <1>5 DEF FormatRoot, WriteStart, WriteChild, WriteBlock, Serving, disk,
               locals, FatCoherent
  <1>6. CASE ReadRefuse
    BY <1>1, <1>6 DEF ReadRefuse, Serving
  <1>7. CASE ReadFile
    BY <1>1, <1>2, <1>7 DEF ReadFile, Serving
  <1>8. CASE ReadDirectory
    BY <1>1, <1>8 DEF ReadDirectory, Serving
  <1>9. CASE WriteRefuse \/ DeleteRefuse
    BY <1>1, <1>9 DEF WriteRefuse, DeleteRefuse, Serving
  <1>10. CASE LinkCluster \/ Unlink
    <2>1. pc' = "flush" /\ sector' = 0
      BY <1>10 DEF LinkCluster, Unlink
    <2>2. \A c \in Cluster : ~(SectorOf(c) < 0)
      BY SectorType
    <2> QED
      BY <2>1, <2>2 DEF FatCoherent
  <1>11. CASE Commit
    BY <1>11 DEF Commit, Return, FatCoherent
  <1>12. CASE Delete
    BY <1>2, <1>12 DEF Delete, Serving, FatCoherent
  <1>13. CASE FlushSector
    <2>1. \A c \in Cluster :
             SectorOf(c) < sector + 1 => SectorOf(c) = sector \/ SectorOf(c) < sector
      BY SectorType DEF TypeOK
    <2>2. pc' = "flush" /\ sector' = sector + 1 /\ fat_table' = fat_table
          /\ diskFat' = FlushedFat /\ pc = "flush"
      BY <1>13 DEF FlushSector
    <2>3. \A c \in Cluster : SectorOf(c) < sector' => fat_table'[c] = diskFat'[c]
      BY <2>1, <2>2 DEF FlushedFat, FatCoherent
    <2> QED
      BY <2>2, <2>3 DEF FatCoherent
  <1>14. CASE FlushLast
    <2>1. diskFat' = fat_table /\ fat_table' = fat_table
      BY <1>14, FlushedWhole DEF FlushLast
    <2>2. pc' # "flush" /\ pc' # "off"
      BY <1>14 DEF FlushLast, Return
    <2> QED
      BY <2>1, <2>2 DEF FatCoherent
  <1>15. CASE UNCHANGED vars
    BY <1>15 DEF vars, FatCoherent
  <1> QED
    BY <1>3, <1>4, <1>5, <1>6, <1>7, <1>8, <1>9, <1>10, <1>11, <1>12, <1>13,
       <1>14, <1>15 DEF Next, DriverStep

\* The cache is the disk's FAT between calls and between a call's writes, for
\* every sector size, every client and every crash.
THEOREM CacheCoherent == Spec => []FatCoherent
  <1>1. Init => CoherentInv
    BY DEF Init, CoherentInv, FatCoherent
  <1>2. TypeInv /\ CoherentInv => FatCoherent
    BY DEF CoherentInv
  <1> QED
    BY <1>1, <1>2, InitType, NextType, NextCoherent, PTL DEF Spec

-----------------------------------------------------------------------------
(* The volume the driver leaves on the disk, at every instant: what hangs off *)
(* the root is a tree of whole files and directories.                         *)

\* The callers the theorems are about: none passes a directory's own label as a
\* name inside it (delete of it frees the directory itself, see
\* FAT32Claims!EntryClusterAllocated) and no payload has so many clusters
\* that the uint8_t count of them wraps (src/fat32.c:313).
OrdinaryCalls ==
    /\ "own_name" \notin Callers
    /\ \A p \in Payload : ClustersOf[p] < COUNT_MOD

-----------------------------------------------------------------------------
(* The inductive invariant.  O is the set of owned clusters: those of every   *)
(* entry of every directory table on the disk, reachable or not.  A table     *)
(* that has been deleted keeps its entries, and a client that still knows it  *)
(* can delete through it, so "reachable from the root" is not inductive.      *)

\* A volume without an allocated root: nothing was ever stored on it.
Barren ==
    /\ \A c \in StoreCluster : diskFat[c] = EMPTY
    /\ diskFat[0] \in {EMPTY, CLUSTER_0_VALUE}

Allocated ==
    /\ diskFat[0] = CLUSTER_0_VALUE
    /\ diskFat[1] = END_OF_FILE /\ diskFat[ROOT] = END_OF_FILE

\* What init_directory_table, write and delete leave of a table.
GoodTable(t) ==
    /\ ~t[0].used
    /\ \A i \in Slot \ {0} : ~t[i].used => t[i] = ZeroEntry
    /\ \A i \in Slot : t[i].used => i \in UserSlot /\ t[i].name # NO_NAME
    /\ \A i, k \in UsedSlots(t) : t[i].name = t[k].name => i = k

Tables ==
    /\ content[ROOT].kind = "table"
    /\ \A c \in StoreCluster :
          content[c].kind = "table" => GoodTable(content[c].table)

EntryAt(c, i) == content[c].table[i]
IsEntry(c, i) ==
    /\ c \in StoreCluster /\ content[c].kind = "table"
    /\ i \in UserSlot /\ EntryAt(c, i).used

EntryIntact(e) == IF e.subdir THEN DirectoryIntact(e) ELSE FileIntact(e)

\* Owned clusters make up chains that stay among them and never meet.
Chains(O) ==
    /\ O \subseteq StoreCluster \ {ROOT}
    /\ \A c \in O : diskFat[c] = END_OF_FILE \/ diskFat[c] \in O
    /\ \A c, d \in O : diskFat[c] = diskFat[d] /\ diskFat[c] \in O => c = d
    /\ \A c \in O : content[c].kind = "block" => BlockIntact(c)

\* Every entry names the first cluster of an owned chain, and a whole one.
Entries(O) ==
    \A c \in StoreCluster, i \in UserSlot : IsEntry(c, i) =>
        /\ EntryAt(c, i).cluster \in O
        /\ \A d \in O : diskFat[d] # EntryAt(c, i).cluster
        /\ EntryIntact(EntryAt(c, i))

SoleEntries ==
    \A c, d \in StoreCluster, i, k \in UserSlot :
        /\ IsEntry(c, i) /\ IsEntry(d, k)
        /\ EntryAt(c, i).cluster = EntryAt(d, k).cluster
        => c = d /\ i = k

Volume(O) == Chains(O) /\ Entries(O) /\ SoleEntries /\ Tables

Prepared == (Allocated \/ Barren) /\ (~signed => Barren)

Formatting == pc = "format_root" \/ (pc = "flush" /\ req.op = "format")
FormatInv ==
    Formatting =>
        /\ Barren /\ dir_table = DirTable(FORMAT_NAME, ROOT)
        /\ pc = "flush" => fat_table = FormattedFat

CallInv ==
    pc = "begin" =>
        /\ content[req.parent].kind = "table"
        /\ req.op \in {"write", "delete"} =>
              req.name # content[req.parent].table[0].name

\* A write under way: clusters before j are linked and stored, none is owned.
LastIndex == Required(req.payload) - 1
NextOf(k) == IF k < LastIndex THEN slot_buf[k + 1] ELSE END_OF_FILE
Linked(k) == diskFat[slot_buf[k]] = NextOf(k)
Stored(k) == content[slot_buf[k]] = Block(req.payload, k)
ChildMade == content[slot_buf[0]] = Table(DirTable(req.name, slot_buf[0]))

Taken(O) ==
    /\ \A k \in 0 .. LastIndex :
          slot_buf[k] \in StoreCluster \ (O \cup {ROOT, req.parent})
    /\ \A k, m \in 0 .. LastIndex : slot_buf[k] = slot_buf[m] => k = m

Aimed ==
    /\ content[req.parent].kind = "table"
    /\ dir_table = content[req.parent].table
    /\ slot \in FirstUnused(dir_table) /\ ~NameTaken(dir_table, req.name)

Written ==
    /\ \A k \in 0 .. j - 1 : Linked(k) /\ Stored(k)
    /\ pc = "flush" =>
          /\ fat_table[slot_buf[j]] = NextOf(j)
          /\ \A c \in Cluster : c # slot_buf[j] => fat_table[c] = diskFat[c]
    /\ pc \in {"block", "commit"} => Linked(j)
    /\ pc = "commit" => j = LastIndex
    /\ pc = "commit" /\ req.payload # FOLDER => Stored(j)
    /\ pc # "child" /\ req.payload = FOLDER => ChildMade

WriteInv(O) == Writing => Allocated /\ Taken(O) /\ Aimed /\ Written

\* A delete under way: the chain it frees is that of the entry it takes out,
\* and from then on no owned one.
UnlinkInv ==
    pc = "unlink" =>
        /\ IsEntry(req.parent, slot)
        /\ dir_table = [content[req.parent].table EXCEPT ![slot] = ZeroEntry]
        /\ fat_table = FreeChain(diskFat, EntryAt(req.parent, slot).cluster)

FreeInv(O) ==
    pc = "flush" /\ req.op = "delete" =>
        /\ Allocated
        /\ \A c \in O \cup {0, 1, ROOT} : fat_table[c] = diskFat[c]
        /\ \A c \in Cluster : fat_table[c] \in {EMPTY, diskFat[c]}

\* Only a write holds clusters in slot_buf.
SlotsInv == ~Writing => slot_buf = NoSlots

TreeInv(O) ==
    /\ Volume(O) /\ Prepared /\ FormatInv /\ CallInv
    /\ WriteInv(O) /\ UnlinkInv /\ FreeInv(O)

VolumeInv == SlotsInv /\ \E O \in SUBSET StoreCluster : TreeInv(O)

Inv == TypeInv /\ CoherentInv /\ VolumeInv

-----------------------------------------------------------------------------
(* Facts about the operators.                                                *)

LEMMA Numbers ==
    /\ ROOT = 2 /\ EMPTY = 0 /\ END_OF_FILE \in Nat /\ CLUSTER_0_VALUE \in Nat
    /\ CLUSTER_MAP_SIZE \in Nat /\ ROOT < CLUSTER_MAP_SIZE
    /\ CLUSTER_MAP_SIZE < CLUSTER_0_VALUE /\ CLUSTER_0_VALUE < END_OF_FILE
    /\ END_OF_FILE \notin Cluster /\ CLUSTER_0_VALUE \notin Cluster
    /\ Cluster = StoreCluster \cup {0, 1} /\ 0 \notin StoreCluster
    /\ 1 \notin StoreCluster /\ ROOT \in StoreCluster
    /\ END_OF_FILE # EMPTY
  BY GeometryAssumption
     DEF ROOT, EMPTY, END_OF_FILE, CLUSTER_0_VALUE, Cluster, StoreCluster

\* A set of numbers that is not empty has a least member.
LEMMA LeastNumber ==
    ASSUME NEW T \in SUBSET Nat, T # {}
    PROVE  \E x \in T : \A y \in T : x <= y
  <1> DEFINE R == OpToRel(<, Nat)
  <1>1. IsWellFoundedOn(R, Nat)
    BY NatLessThanWellFounded
  <1>2. ASSUME NEW x \in Nat, NEW y \in Nat, y < x
        PROVE  <<y, x>> \in R
    BY <1>2, Zenon DEF OpToRel
  <1> HIDE DEF R
  <1>3. PICK x \in T : \A y \in T : ~(<<y, x>> \in R)
    BY <1>1, WFMin
  <1>4. \A y \in T : ~(y < x)
    BY <1>2, <1>3
  <1> QED
    BY <1>4

LEMMA Slots ==
    /\ 0 \in Slot /\ 0 \notin UserSlot /\ UserSlot \subseteq Slot
  BY GeometryAssumption DEF Slot, UserSlot

\* For ordinary calls a write's count of clusters is the payload's, and not zero.
LEMMA CountKept ==
    ASSUME OrdinaryCalls, NEW p \in Payload \cup {FOLDER}
    PROVE  /\ Required(p) \in Nat /\ Required(p) >= 1
           /\ p # FOLDER => Required(p) = ClustersOf[p]
           /\ p = FOLDER => Required(p) = 1
  <1>1. CASE p = FOLDER
    BY <1>1 DEF Required
  <1>2. CASE p # FOLDER
    <2>1. p \in Payload /\ ClustersOf[p] \in Nat \ {0} /\ ClustersOf[p] < COUNT_MOD
      BY <1>2, DataAssumption DEF OrdinaryCalls
    <2>2. ClustersOf[p] % COUNT_MOD = ClustersOf[p]
      BY <2>1, GeometryAssumption
    <2> QED
      BY <1>2, <2>1, <2>2 DEF Required, CountOf
  <1> QED
    BY <1>1, <1>2

\* What a cluster of the store holds.
LEMMA ContentKinds ==
    ASSUME TypeOK, NEW c \in StoreCluster
    PROVE  /\ content[c].kind \in {"table", "block"}
           /\ content[c].kind = "table" => content[c].table \in [Slot -> Entry]
           /\ content[c].kind = "table" => TableOf(content[c]) = content[c].table
           /\ content[c].kind = "block" => TableOf(content[c]) = ZeroTable
           /\ content[c].kind = "block" =>
                 content[c].payload \in Payload /\ content[c].index \in Nat
  <1>1. content[c] \in Content
    BY DEF TypeOK
  <1> QED
    BY <1>1 DEF Content, TableOf

LEMMA TableFields ==
    ASSUME NEW t
    PROVE  Table(t).kind = "table" /\ Table(t).table = t /\ TableOf(Table(t)) = t
  BY DEF Table, TableOf

LEMMA BlockFields ==
    ASSUME NEW p, NEW k
    PROVE  /\ Block(p, k).kind = "block" /\ Block(p, k).payload = p
           /\ Block(p, k).index = k /\ Block(p, k).kind # "table"
  BY DEF Block

\* A new directory's table has its own entry and no other.
LEMMA NewTable ==
    ASSUME NEW n \in AnyName, NEW c \in Cluster
    PROVE  /\ GoodTable(DirTable(n, c))
           /\ \A i \in Slot : ~DirTable(n, c)[i].used
           /\ DirTable(n, c)[0].name = n /\ DirTable(n, c)[0].cluster = c
  <1>1. \A i \in Slot \ {0} : DirTable(n, c)[i] = ZeroEntry
    BY EntryFacts DEF DirTable, ZeroTable
  <1>2. /\ DirTable(n, c)[0].name = n /\ DirTable(n, c)[0].cluster = c
        /\ ~DirTable(n, c)[0].used
    BY EntryFacts DEF DirTable, ZeroTable
  <1>3. ~ZeroEntry.used
    BY DEF ZeroEntry
  <1>4. \A i \in Slot : ~DirTable(n, c)[i].used
    BY <1>1, <1>2, <1>3
  <1>5. UsedSlots(DirTable(n, c)) = {}
    BY <1>4, Slots DEF UsedSlots
  <1> QED
    BY <1>1, <1>2, <1>4, <1>5 DEF GoodTable

LEMMA BlankGood == GoodTable(ZeroTable) /\ \A i \in Slot : ~ZeroTable[i].used
  <1>1. \A i \in Slot : ZeroTable[i] = ZeroEntry /\ ~ZeroTable[i].used
    BY DEF ZeroTable, ZeroEntry
  <1>2. UsedSlots(ZeroTable) = {}
    BY <1>1, Slots DEF UsedSlots
  <1> QED
    BY <1>1, <1>2, Slots DEF GoodTable

\* A barren volume owns nothing.
LEMMA BarrenOwnsNothing ==
    ASSUME NEW O, Volume(O), Barren
    PROVE  O = {}
  BY Numbers DEF Volume, Chains, Barren

\* An owned cluster, or one in use as a table, is neither free nor outside the
\* store; its successor is one too or the end marker.
LEMMA OwnedFacts ==
    ASSUME NEW O, Volume(O)
    PROVE  /\ ROOT \notin O /\ 0 \notin O /\ 1 \notin O
           /\ \A c \in O : c \in StoreCluster /\ c \in Cluster /\ diskFat[c] # EMPTY
           /\ \A c \in O : diskFat[c] \in Cluster => diskFat[c] \in O
  BY Numbers DEF Volume, Chains

-----------------------------------------------------------------------------
(* The chain of a cluster: the least set closed under the table.             *)

LEMMA ChainFacts ==
    ASSUME NEW F, NEW h \in Cluster
    PROVE  /\ ChainSet(F, h) \subseteq Cluster /\ h \in ChainSet(F, h)
           /\ \A x \in ChainSet(F, h) : F[x] \in Cluster => F[x] \in ChainSet(F, h)
  <1> DEFINE closed == {S \in SUBSET Cluster :
                 h \in S /\ \A x \in S : F[x] \in Cluster => F[x] \in S}
  <1>1. ChainSet(F, h) = {c \in Cluster : \A S \in closed : c \in S}
    BY DEF ChainSet
  <1>2. \A S \in closed : h \in S /\ \A x \in S : F[x] \in Cluster => F[x] \in S
    OBVIOUS
  <1> HIDE DEF closed
  <1> QED
    BY <1>1, <1>2

LEMMA ChainLeast ==
    ASSUME NEW F, NEW h \in Cluster, NEW S \in SUBSET Cluster, h \in S,
           \A x \in S : F[x] \in Cluster => F[x] \in S
    PROVE  ChainSet(F, h) \subseteq S
  <1> DEFINE closed == {T \in SUBSET Cluster :
                 h \in T /\ \A x \in T : F[x] \in Cluster => F[x] \in T}
  <1>1. ChainSet(F, h) = {c \in Cluster : \A T \in closed : c \in T}
    BY DEF ChainSet
  <1>2. S \in closed
    OBVIOUS
  <1> HIDE DEF closed
  <1> QED
    BY <1>1, <1>2

\* Every cluster of a chain but its first is the successor of one of them.
LEMMA ChainPredecessor ==
    ASSUME NEW F, NEW h \in Cluster, NEW x \in ChainSet(F, h), x # h
    PROVE  \E y \in ChainSet(F, h) : F[y] = x
  <1> SUFFICES ASSUME \A y \in ChainSet(F, h) : F[y] # x PROVE FALSE
    OBVIOUS
  <1> DEFINE S == ChainSet(F, h) \ {x}
  <1>1. S \in SUBSET Cluster /\ h \in S
    BY ChainFacts
  <1>2. \A y \in S : F[y] \in Cluster => F[y] \in S
    BY ChainFacts
  <1>3. ChainSet(F, h) \subseteq S
    BY <1>1, <1>2, ChainLeast
  <1> QED
    BY <1>3

\* A walk from cluster 0, where an unused entry points, never reaches the end
\* marker: the driver goes round for ever.
LEMMA NoWalkFromZero ==
    ASSUME NEW F, F[0] \in {EMPTY, CLUSTER_0_VALUE}
    PROVE  ~WalkEnds(F, 0)
  <1>1. 0 \in Cluster /\ {0} \in SUBSET Cluster
    BY Numbers
  <1>2. \A x \in {0} : F[x] \in Cluster => F[x] \in {0}
    BY Numbers
  <1>3. ChainSet(F, 0) \subseteq {0}
    BY <1>1, <1>2, ChainLeast
  <1>4. F[0] # END_OF_FILE
    BY Numbers
  <1> QED
    BY <1>3, <1>4 DEF WalkEnds

-----------------------------------------------------------------------------
(* What a disk write may do to the volume.                                   *)

\* The step writes y to cluster x of the store.
Puts(x, y) ==
    content'[x] = y /\ \A c \in StoreCluster : c # x => content'[c] = content[c]

LEMMA PutsExcept ==
    ASSUME TypeOK, NEW x \in StoreCluster, NEW y, content' = [content EXCEPT ![x] = y]
    PROVE  Puts(x, y)
  BY DEF TypeOK, Puts

\* A write of the FAT that leaves owned clusters alone leaves the volume alone.
LEMMA VolumeFlush ==
    ASSUME NEW O, Volume(O), content' = content,
           \A c \in O : diskFat'[c] = diskFat[c]
    PROVE  Volume(O)'
  <1> USE DEF Volume
  <1>1. Tables' /\ SoleEntries'
    BY DEF Tables, SoleEntries, IsEntry, EntryAt
  <1>2. Chains(O)'
    <2>1. \A c \in O : content[c].kind = "block" => BlockIntact(c)'
      BY DEF Chains, BlockIntact
    <2> QED
      BY <2>1 DEF Chains
  <1>3. Entries(O)'
    <2> SUFFICES ASSUME NEW c \in StoreCluster, NEW i \in UserSlot, IsEntry(c, i)'
                 PROVE  /\ EntryAt(c, i)'.cluster \in O
                        /\ \A d \in O : diskFat'[d] # EntryAt(c, i)'.cluster
                        /\ EntryIntact(EntryAt(c, i))'
      BY DEF Entries
    <2>1. IsEntry(c, i) /\ EntryAt(c, i)' = EntryAt(c, i)
      BY DEF IsEntry, EntryAt
    <2>2. /\ EntryAt(c, i).cluster \in O /\ EntryIntact(EntryAt(c, i))
          /\ \A d \in O : diskFat[d] # EntryAt(c, i).cluster
      BY <2>1 DEF Entries
    <2>3. EntryIntact(EntryAt(c, i))'
      BY <2>1, <2>2 DEF EntryIntact, DirectoryIntact, FileIntact
    <2> QED
      BY <2>1, <2>2, <2>3
  <1> QED
    BY <1>1, <1>2, <1>3

\* So does a write of data, or of a table without entries, to a cluster nobody owns.
LEMMA VolumeFresh ==
    ASSUME NEW O, Volume(O), NEW x \in StoreCluster, x \notin O,
           diskFat' = diskFat, NEW y, Puts(x, y),
           \/ y.kind = "block" /\ x # ROOT
           \/ /\ y.kind = "table" /\ GoodTable(y.table)
              /\ \A i \in Slot : ~y.table[i].used
    PROVE  Volume(O)'
  <1> USE DEF Volume
  <1>1. \A c \in StoreCluster : c # x => content'[c] = content[c]
    BY DEF Puts
  <1>2. content'[x] = y
    BY DEF Puts
  <1>3. "block" # "table"
    OBVIOUS
  <1>4. \A c \in StoreCluster, i \in UserSlot : IsEntry(c, i)' =>
           c # x /\ IsEntry(c, i) /\ EntryAt(c, i)' = EntryAt(c, i)
    BY <1>1, <1>2, <1>3, Slots DEF IsEntry, EntryAt
  <1>5. Tables'
    BY <1>1, <1>2, <1>3, Numbers DEF Tables
  <1>6. SoleEntries'
    BY <1>4 DEF SoleEntries
  <1>7. \A c \in O : c \in StoreCluster /\ content'[c] = content[c]
    BY <1>1, OwnedFacts
  <1>8. Chains(O)'
    <2>1. ASSUME NEW c \in O, content[c].kind = "block" PROVE BlockIntact(c)'
      <3>1. BlockIntact(c) /\ (diskFat[c] = END_OF_FILE \/ diskFat[c] \in O)
        BY <2>1 DEF Chains
      <3>2. END_OF_FILE \notin StoreCluster
        BY Numbers
      <3> QED
        BY <1>7, <3>1, <3>2 DEF BlockIntact
    <2> QED
      BY <1>7, <2>1 DEF Chains
  <1>9. Entries(O)'
    <2> SUFFICES ASSUME NEW c \in StoreCluster, NEW i \in UserSlot, IsEntry(c, i)'
                 PROVE  /\ EntryAt(c, i)'.cluster \in O
                        /\ \A d \in O : diskFat'[d] # EntryAt(c, i)'.cluster
                        /\ EntryIntact(EntryAt(c, i))'
      BY DEF Entries
    <2>1. /\ EntryAt(c, i)' = EntryAt(c, i) /\ EntryAt(c, i).cluster \in O
          /\ \A d \in O : diskFat[d] # EntryAt(c, i).cluster
          /\ EntryIntact(EntryAt(c, i))
      BY <1>4 DEF Entries
    <2>2. content'[EntryAt(c, i).cluster] = content[EntryAt(c, i).cluster]
      BY <1>7, <2>1
    <2>3. EntryIntact(EntryAt(c, i))'
      BY <2>1, <2>2 DEF EntryIntact, DirectoryIntact, FileIntact
    <2> QED
      BY <2>1, <2>3
  <1> QED
    BY <1>5, <1>6, <1>8, <1>9

\* Where no call holds clusters and no write is under way, the volume is all
\* there is to the invariant.
LEMMA QuietVolume ==
    ASSUME NEW O \in SUBSET StoreCluster, Volume(O)', Prepared',
           pc' \in {"off", "idle", "hung"}, slot_buf' = NoSlots
    PROVE  VolumeInv'
  <1>1. FormatInv' /\ CallInv' /\ WriteInv(O)' /\ UnlinkInv' /\ FreeInv(O)'
    BY DEF FormatInv, Formatting, CallInv, WriteInv, Writing, UnlinkInv, FreeInv
  <1>2. SlotsInv'
    BY DEF SlotsInv
  <1> QED
    BY <1>1, <1>2 DEF VolumeInv, TreeInv

LEMMA InitVolume == Init => VolumeInv
  <1> SUFFICES ASSUME Init PROVE VolumeInv
    OBVIOUS
  <1>1. PICK i \in Images : Image(i)
    BY DEF Init
  <1>2. ROOT_NAME \in AnyName /\ ROOT \in Cluster
    BY Numbers DEF AnyName
  <1>3. \A c \in StoreCluster :
           /\ content[c].kind = "table" /\ GoodTable(content[c].table)
           /\ \A k \in Slot : ~content[c].table[k].used
    BY <1>1, <1>2, NewTable, BlankGood, TableFields DEF Image, Blank
  <1>4. Tables
    BY <1>3, Numbers DEF Tables
  <1>5. \A c \in StoreCluster, k \in UserSlot : ~IsEntry(c, k)
    BY <1>3, Slots DEF IsEntry, EntryAt
  <1>6. Volume({})
    BY <1>4, <1>5, Numbers DEF Volume, Chains, Entries, SoleEntries
  <1>7. Prepared
    <2>1. CASE i = "sample"
      <3>1. signed = TRUE
        BY <1>1, <2>1 DEF Image
      <3>2. Allocated
        BY <1>1, <2>1, Numbers DEF Image, FormattedFat, Allocated
      <3> QED
        BY <3>1, <3>2 DEF Prepared
    <2>2. CASE i # "sample"
      <3>1. Barren
        BY <1>1, <2>2, Numbers DEF Image, NoFat, Barren
      <3> QED
        BY <3>1 DEF Prepared
    <2> QED
      BY <2>1, <2>2
  <1>8. pc = "off" /\ slot_buf = NoSlots
    BY DEF Init
  <1>9. FormatInv /\ CallInv /\ WriteInv({}) /\ UnlinkInv /\ FreeInv({}) /\ SlotsInv
    BY <1>8 DEF FormatInv, Formatting, CallInv, WriteInv, Writing, UnlinkInv,
                FreeInv, SlotsInv
  <1> QED
    BY <1>6, <1>7, <1>9 DEF VolumeInv, TreeInv

\* A directory's table may be rewritten in place: what was whole stays whole, the
\* directory's own label with it.
LEMMA TableRewrite ==
    ASSUME NEW p \in StoreCluster, content[p].kind = "table",
           NEW t, t[0] = content[p].table[0],
           Puts(p, Table(t)), diskFat' = diskFat
    PROVE  /\ content'[p].kind = "table" /\ content'[p].table = t
           /\ \A c \in StoreCluster : c # p => content'[c] = content[c]
           /\ \A c \in StoreCluster : content'[c].kind = content[c].kind
           /\ \A c \in StoreCluster :
                 content[c].kind = "block" /\ BlockIntact(c) => BlockIntact(c)'
           /\ \A e : e.cluster \in StoreCluster /\ EntryIntact(e) => EntryIntact(e)'
  <1>1. content'[p] = Table(t) /\ \A c \in StoreCluster : c # p => content'[c] = content[c]
    BY DEF Puts
  <1>2. content'[p].kind = "table" /\ content'[p].table = t
    BY <1>1, TableFields
  <1>3. \A c \in StoreCluster : content[c].kind = "block" => content'[c] = content[c]
    BY <1>1
  <1>4. ASSUME NEW c \in StoreCluster, content[c].kind = "block", BlockIntact(c)
        PROVE  BlockIntact(c)'
    <2>1. CASE content[c].index + 1 = ClustersOf[content[c].payload]
      BY <1>3, <1>4, <2>1 DEF BlockIntact
    <2>2. CASE content[c].index + 1 # ClustersOf[content[c].payload]
      <3>1. /\ diskFat[c] \in StoreCluster
            /\ content[diskFat[c]] = Block(content[c].payload, content[c].index + 1)
        BY <1>4, <2>2 DEF BlockIntact
      <3>2. content'[diskFat[c]] = content[diskFat[c]]
        BY <1>3, <3>1, BlockFields
      <3> QED
        BY <1>3, <1>4, <2>2, <3>1, <3>2 DEF BlockIntact
    <2> QED
      BY <2>1, <2>2
  <1>5. ASSUME NEW e, e.cluster \in StoreCluster, EntryIntact(e)
        PROVE  EntryIntact(e)'
    <2>1. CASE e.cluster = p
      <3>1. e.subdir /\ DirectoryIntact(e)
        BY <1>5, <2>1 DEF EntryIntact, FileIntact
      <3> QED
        BY <1>2, <2>1, <3>1 DEF EntryIntact, DirectoryIntact
    <2>2. CASE e.cluster # p
      BY <1>1, <1>5, <2>2 DEF EntryIntact, DirectoryIntact, FileIntact
    <2> QED
      BY <2>1, <2>2
  <1> QED
    BY <1>1, <1>2, <1>4, <1>5

\* write's last step: the directory takes in an entry for a chain of its own.
\* N is the set of the chain's clusters, h the first of them.
LEMMA VolumeCommit ==
    ASSUME TypeOK, NEW O, Volume(O), NEW p \in StoreCluster,
           content[p].kind = "table", NEW s \in UserSlot, NEW e \in Entry,
           NEW t, t = [content[p].table EXCEPT ![s] = e],
           Puts(p, Table(t)), diskFat' = diskFat,
           ~content[p].table[s].used, ~NameTaken(content[p].table, e.name),
           e.used, EntryIntact(e),
           NEW N, N \subseteq StoreCluster \ (O \cup {ROOT}), e.cluster \in N,
           \A c \in N : diskFat[c] = END_OF_FILE \/ diskFat[c] \in N \ {e.cluster},
           \A c, d \in N : diskFat[c] = diskFat[d] /\ diskFat[c] \in N => c = d,
           \A c \in N : content[c].kind = "block" => BlockIntact(c)
    PROVE  Volume(O \cup N)'
  <1> USE DEF Volume
  <1>1. content[p].table \in [Slot -> Entry]
    BY ContentKinds
  <1>2. /\ t[s] = e /\ \A i \in Slot : i # s => t[i] = content[p].table[i]
        /\ t[0] = content[p].table[0]
    BY <1>1, Slots
  <1>4. /\ content'[p].kind = "table" /\ content'[p].table = t
        /\ \A c \in StoreCluster : c # p => content'[c] = content[c]
        /\ \A c \in StoreCluster : content'[c].kind = content[c].kind
    BY <1>2, TableRewrite
  <1>5. \A c \in StoreCluster :
           content[c].kind = "block" /\ BlockIntact(c) => BlockIntact(c)'
    BY <1>2, TableRewrite
  <1>6. \A x : x.cluster \in StoreCluster /\ EntryIntact(x) => EntryIntact(x)'
    BY <1>2, TableRewrite
  <1>7. Chains(O \cup N)'
    <2>1. O \cup N \subseteq StoreCluster \ {ROOT}
      BY DEF Chains
    <2>2. \A c \in O \cup N : diskFat[c] = END_OF_FILE \/ diskFat[c] \in O \cup N
      BY DEF Chains
    <2>3. \A c, d \in O \cup N :
             diskFat[c] = diskFat[d] /\ diskFat[c] \in O \cup N => c = d
      <3>1. END_OF_FILE \notin O \cup N
        BY <2>1, Numbers
      <3> QED
        BY <3>1 DEF Chains
    <2>4. \A c \in O \cup N : content[c].kind = "block" => BlockIntact(c)
      BY DEF Chains
    <2> QED
      BY <1>4, <1>5, <2>1, <2>2, <2>3, <2>4 DEF Chains
  <1>8. \A c \in StoreCluster, i \in UserSlot : IsEntry(c, i)' =>
           \/ IsEntry(c, i) /\ EntryAt(c, i)' = EntryAt(c, i)
           \/ c = p /\ i = s /\ EntryAt(c, i)' = e
    <2> SUFFICES ASSUME NEW c \in StoreCluster, NEW i \in UserSlot, IsEntry(c, i)'
                 PROVE  \/ IsEntry(c, i) /\ EntryAt(c, i)' = EntryAt(c, i)
                        \/ c = p /\ i = s /\ EntryAt(c, i)' = e
      OBVIOUS
    <2>1. CASE c # p
      BY <1>4, <2>1 DEF IsEntry, EntryAt
    <2>2. CASE c = p /\ i # s
      <3>1. t[i] = content[p].table[i]
        BY <1>2, <2>2, Slots
      <3> QED
        BY <1>4, <2>2, <3>1 DEF IsEntry, EntryAt
    <2>3. CASE c = p /\ i = s
      BY <1>2, <1>4, <2>3 DEF EntryAt
    <2> QED
      BY <2>1, <2>2, <2>3
  <1>9. \A c \in StoreCluster, i \in UserSlot : IsEntry(c, i) =>
           /\ EntryAt(c, i).cluster \in O /\ EntryAt(c, i).cluster \in StoreCluster
           /\ \A d \in O : diskFat[d] # EntryAt(c, i).cluster
           /\ EntryIntact(EntryAt(c, i))
    BY DEF Entries, Chains
  <1>10. SoleEntries'
    <2> SUFFICES ASSUME NEW c \in StoreCluster, NEW d \in StoreCluster,
                        NEW i \in UserSlot, NEW k \in UserSlot,
                        IsEntry(c, i)', IsEntry(d, k)',
                        EntryAt(c, i)'.cluster = EntryAt(d, k)'.cluster
                 PROVE  c = d /\ i = k
      BY DEF SoleEntries
    <2>1. e.cluster \notin O
      OBVIOUS
    <2> QED
      BY <1>8, <1>9, <2>1 DEF SoleEntries
  <1>11. Entries(O \cup N)'
    <2> SUFFICES ASSUME NEW c \in StoreCluster, NEW i \in UserSlot, IsEntry(c, i)'
                 PROVE  /\ EntryAt(c, i)'.cluster \in O \cup N
                        /\ \A d \in O \cup N : diskFat'[d] # EntryAt(c, i)'.cluster
                        /\ EntryIntact(EntryAt(c, i))'
      BY DEF Entries
    <2>1. CASE IsEntry(c, i) /\ EntryAt(c, i)' = EntryAt(c, i)
      <3>1. EntryIntact(EntryAt(c, i))'
        BY <1>6, <1>9, <2>1 DEF EntryIntact, DirectoryIntact, FileIntact
      <3>2. ASSUME NEW d \in O \cup N PROVE diskFat[d] # EntryAt(c, i).cluster
        <4>1. EntryAt(c, i).cluster \in O /\ EntryAt(c, i).cluster \in StoreCluster
          BY <1>9, <2>1
        <4>2. CASE d \in O
          BY <1>9, <2>1, <4>2
        <4>3. CASE d \in N
          BY <4>1, <4>3, Numbers
        <4> QED
          BY <4>2, <4>3
      <3> QED
        BY <1>9, <2>1, <3>1, <3>2
    <2>2. CASE c = p /\ i = s /\ EntryAt(c, i)' = e
      <3>1. EntryIntact(EntryAt(c, i))'
        BY <1>6, <2>2 DEF EntryIntact, DirectoryIntact, FileIntact
      <3>2. \A d \in O \cup N : diskFat[d] # e.cluster
        BY Numbers DEF Chains
      <3> QED
        BY <2>2, <3>1, <3>2
    <2> QED
      BY <1>8, <2>1, <2>2
  <1>12. GoodTable(t)
    <2>1. GoodTable(content[p].table)
      BY DEF Tables
    <2>2. s \in Slot /\ s # 0 /\ content[p].table[s].name = NO_NAME
      <3>1. s \in Slot /\ s # 0
        BY Slots
      <3>2. content[p].table[s] = ZeroEntry
        BY <2>1, <3>1 DEF GoodTable
      <3> QED
        BY <3>1, <3>2 DEF ZeroEntry
    <2>3. e.name # NO_NAME /\ \A i \in UserSlot : content[p].table[i].name # e.name
      BY <2>2 DEF NameTaken
    <2>4. \A i \in UsedSlots(t) : i = s \/ i \in UsedSlots(content[p].table)
      BY <1>2, Slots DEF UsedSlots
    <2>5. \A i \in UsedSlots(t) : i \in UserSlot /\ i \in Slot
      BY Slots DEF UsedSlots
    <2>6. \A i, k \in UsedSlots(t) : t[i].name = t[k].name => i = k
      BY <1>2, <2>1, <2>3, <2>4, <2>5 DEF GoodTable
    <2>7. \A i \in Slot : t[i].used => i \in UserSlot /\ t[i].name # NO_NAME
      BY <1>2, <2>1, <2>3 DEF GoodTable
    <2>8. \A i \in Slot \ {0} : ~t[i].used => t[i] = ZeroEntry
      BY <1>2, <2>1 DEF GoodTable
    <2>9. ~t[0].used
      BY <1>2, <2>1 DEF GoodTable
    <2> QED
      BY <2>6, <2>7, <2>8, <2>9 DEF GoodTable
  <1>13. Tables'
    BY <1>4, <1>12, Numbers DEF Tables
  <1> QED
    BY <1>7, <1>10, <1>11, <1>13

\* delete's first write: the entry leaves its directory, and the clusters of its
\* chain leave the owned ones.  No chain or entry that stays leads into it.
LEMMA ChainOwned ==
    ASSUME NEW O, Volume(O), NEW h \in O
    PROVE  /\ ChainSet(diskFat, h) \subseteq O /\ h \in Cluster
           /\ h \in ChainSet(diskFat, h)
           /\ \A x \in ChainSet(diskFat, h) : x # h =>
                 \E y \in ChainSet(diskFat, h) : diskFat[y] = x
  <1>1. h \in Cluster /\ O \in SUBSET Cluster
    BY OwnedFacts
  <1>2. \A x \in O : diskFat[x] \in Cluster => diskFat[x] \in O
    BY OwnedFacts
  <1>3. ChainSet(diskFat, h) \subseteq O
    BY <1>1, <1>2, ChainLeast
  <1> QED
    BY <1>1, <1>3, ChainFacts, ChainPredecessor

LEMMA VolumeUnlink ==
    ASSUME NEW O, Volume(O), NEW p \in StoreCluster, NEW s \in UserSlot,
           IsEntry(p, s), NEW t, t[s] = ZeroEntry,
           \A i \in Slot : i # s => t[i] = content[p].table[i],
           Puts(p, Table(t)), diskFat' = diskFat,
           NEW X, X = ChainSet(diskFat, EntryAt(p, s).cluster)
    PROVE  Volume(O \ X)' /\ X \subseteq O
  <1>0. PICK h : h = EntryAt(p, s).cluster
    OBVIOUS
  <1> USE DEF Volume
  <1>1. content[p].kind = "table"
    BY DEF IsEntry
  <1>2. /\ t[s] = ZeroEntry /\ \A i \in Slot : i # s => t[i] = content[p].table[i]
        /\ t[0] = content[p].table[0]
    BY Slots
  <1>3. ~t[s].used
    BY <1>2 DEF ZeroEntry
  <1>4. /\ content'[p].kind = "table" /\ content'[p].table = t
        /\ \A c \in StoreCluster : c # p => content'[c] = content[c]
        /\ \A c \in StoreCluster : content'[c].kind = content[c].kind
    BY <1>1, <1>2, TableRewrite
  <1>5. \A c \in StoreCluster :
           content[c].kind = "block" /\ BlockIntact(c) => BlockIntact(c)'
    BY <1>1, <1>2, TableRewrite
  <1>6. \A x : x.cluster \in StoreCluster /\ EntryIntact(x) => EntryIntact(x)'
    BY <1>1, <1>2, TableRewrite
  <1>7. h \in O /\ \A d \in O : diskFat[d] # h
    BY <1>0 DEF Entries
  <1>8. X \subseteq O /\ h \in X /\ \A x \in X : x # h => \E y \in X : diskFat[y] = x
    BY <1>0, <1>7, ChainOwned
  <1>9. \A c \in StoreCluster, i \in UserSlot : IsEntry(c, i)' =>
           IsEntry(c, i) /\ EntryAt(c, i)' = EntryAt(c, i) /\ ~(c = p /\ i = s)
    <2> SUFFICES ASSUME NEW c \in StoreCluster, NEW i \in UserSlot, IsEntry(c, i)'
                 PROVE  /\ IsEntry(c, i) /\ EntryAt(c, i)' = EntryAt(c, i)
                        /\ ~(c = p /\ i = s)
      OBVIOUS
    <2>1. CASE c # p
      BY <1>4, <2>1 DEF IsEntry, EntryAt
    <2>2. CASE c = p /\ i # s
      <3>1. t[i] = content[p].table[i]
        BY <1>2, <2>2, Slots
      <3> QED
        BY <1>4, <2>2, <3>1 DEF IsEntry, EntryAt
    <2>3. CASE c = p /\ i = s
      BY <1>3, <1>4, <2>3 DEF IsEntry, EntryAt
    <2> QED
      BY <2>1, <2>2, <2>3
  <1>10. ASSUME NEW c \in O \ X, diskFat[c] \in X PROVE FALSE
    <2>1. diskFat[c] # h
      BY <1>7, <1>10
    <2>2. PICK y \in X : diskFat[y] = diskFat[c]
      BY <1>8, <1>10, <2>1
    <2>3. y = c
      BY <1>8, <1>10, <2>2 DEF Chains
    <2> QED
      BY <1>10, <2>3
  <1>11. Chains(O \ X)'
    <2>1. \A c \in O \ X : diskFat[c] = END_OF_FILE \/ diskFat[c] \in O \ X
      BY <1>10 DEF Chains
    <2>2. \A c \in O \ X : content'[c].kind = "block" => BlockIntact(c)'
      BY <1>4, <1>5 DEF Chains
    <2> QED
      BY <2>1, <2>2 DEF Chains
  <1>12. SoleEntries'
    BY <1>9 DEF SoleEntries
  <1>13. Entries(O \ X)'
    <2> SUFFICES ASSUME NEW c \in StoreCluster, NEW i \in UserSlot, IsEntry(c, i)'
                 PROVE  /\ EntryAt(c, i)'.cluster \in O \ X
                        /\ \A d \in O \ X : diskFat'[d] # EntryAt(c, i)'.cluster
                        /\ EntryIntact(EntryAt(c, i))'
      BY DEF Entries
    <2>1. IsEntry(c, i) /\ EntryAt(c, i)' = EntryAt(c, i) /\ ~(c = p /\ i = s)
      BY <1>9
    <2>2. /\ EntryAt(c, i).cluster \in O /\ EntryIntact(EntryAt(c, i))
          /\ EntryAt(c, i).cluster \in StoreCluster
          /\ \A d \in O : diskFat[d] # EntryAt(c, i).cluster
      BY <2>1 DEF Entries, Chains
    <2>3. EntryAt(c, i).cluster # h
      BY <1>0, <2>1 DEF SoleEntries
    <2>4. EntryAt(c, i).cluster \notin X
      BY <1>8, <2>2, <2>3
    <2>5. EntryIntact(EntryAt(c, i))'
      BY <1>6, <2>1, <2>2 DEF EntryIntact, DirectoryIntact, FileIntact
    <2> QED
      BY <2>1, <2>2, <2>4, <2>5
  <1>14. GoodTable(t)
    <2>1. GoodTable(content[p].table) /\ s \in Slot /\ s # 0
      BY <1>1, Slots DEF Tables
    <2>2. \A i \in UsedSlots(t) : i \in UsedSlots(content[p].table) /\ i # s /\ i \in Slot
      BY <1>2, <1>3, Slots DEF UsedSlots
    <2>3. \A i, k \in UsedSlots(t) : t[i].name = t[k].name => i = k
      BY <1>2, <2>1, <2>2 DEF GoodTable
    <2>4. \A i \in Slot : t[i].used => i \in UserSlot /\ t[i].name # NO_NAME
      BY <1>2, <1>3, <2>1 DEF GoodTable
    <2>5. \A i \in Slot \ {0} : ~t[i].used => t[i] = ZeroEntry
      BY <1>2, <2>1 DEF GoodTable
    <2>6. ~t[0].used
      BY <1>2, <2>1 DEF GoodTable
    <2> QED
      BY <2>3, <2>4, <2>5, <2>6 DEF GoodTable
  <1>15. Tables'
    BY <1>4, <1>14, Numbers DEF Tables
  <1> QED
    BY <1>8, <1>11, <1>12, <1>13, <1>15

-----------------------------------------------------------------------------
(* What is reachable from the root.                                          *)

LEMMA LiveLeast ==
    ASSUME NEW F, NEW C, NEW S \in SUBSET StoreCluster, ClosedUnder(F, C, S)
    PROVE  Live(F, C) \subseteq S
  <1> DEFINE closed == {T \in SUBSET StoreCluster : ClosedUnder(F, C, T)}
  <1>1. Live(F, C) = {c \in StoreCluster : \A T \in closed : c \in T}
    BY DEF Live
  <1>2. S \in closed
    OBVIOUS
  <1> HIDE DEF closed
  <1> QED
    BY <1>1, <1>2

LEMMA LiveClosed ==
    ASSUME NEW F, NEW C
    PROVE  /\ Live(F, C) \in SUBSET StoreCluster
           /\ ClosedUnder(F, C, Live(F, C))
  <1> DEFINE closed == {T \in SUBSET StoreCluster : ClosedUnder(F, C, T)}
  <1>1. Live(F, C) = {c \in StoreCluster : \A T \in closed : c \in T}
    BY DEF Live
  <1>2. \A T \in closed : ROOT \in T /\
           \A c \in T : Successors(F, C, c) \cap StoreCluster \subseteq T
    BY DEF ClosedUnder
  <1>3. ROOT \in StoreCluster
    BY Numbers
  <1> HIDE DEF closed
  <1>4. ROOT \in Live(F, C)
    BY <1>1, <1>2, <1>3
  <1>5. ASSUME NEW c \in Live(F, C), NEW d \in Successors(F, C, c) \cap StoreCluster
        PROVE  d \in Live(F, C)
    BY <1>1, <1>2, <1>5
  <1> QED
    BY <1>1, <1>4, <1>5 DEF ClosedUnder

LEMMA UsableAllocated == ASSUME Prepared, Usable PROVE Allocated
  BY Numbers DEF Prepared, Usable, Barren

\* An entry that a cluster leads to is one of a table, and names a whole chain.
LEMMA EntryOfTable ==
    ASSUME TypeOK, NEW O, Volume(O), NEW c \in StoreCluster,
           NEW i \in UsedSlots(TableOf(content[c]))
    PROVE  /\ i \in UserSlot /\ IsEntry(c, i)
           /\ TableOf(content[c]) = content[c].table
           /\ TableOf(content[c])[i] = EntryAt(c, i)
           /\ EntryAt(c, i).cluster \in O /\ EntryAt(c, i).cluster \in StoreCluster
           /\ \A d \in O : diskFat[d] # EntryAt(c, i).cluster
           /\ EntryIntact(EntryAt(c, i))
  <1>1. i \in UserSlot /\ TableOf(content[c])[i].used
    BY DEF UsedSlots
  <1>2. content[c].kind = "table" /\ TableOf(content[c]) = content[c].table
    BY <1>1, ContentKinds, BlankGood, Slots
  <1>3. IsEntry(c, i) /\ TableOf(content[c])[i] = EntryAt(c, i)
    BY <1>1, <1>2 DEF IsEntry, EntryAt
  <1> QED
    BY <1>1, <1>2, <1>3 DEF Volume, Entries, Chains

\* Of a usable volume only the root and owned clusters are reachable.
LEMMA LiveInside ==
    ASSUME TypeOK, NEW O, Volume(O), Usable
    PROVE  Live(diskFat, content) \subseteq O \cup {ROOT}
  <1> DEFINE S == O \cup {ROOT}
  <1>1. S \in SUBSET StoreCluster
    BY Numbers DEF Volume, Chains
  <1>2. ASSUME NEW c \in S PROVE Successors(diskFat, content, c) \cap StoreCluster \subseteq S
    <2>1. diskFat[c] \in StoreCluster => diskFat[c] \in S
      BY <1>2, Numbers DEF Usable, Volume, Chains
    <2>2. ASSUME NEW i \in UsedSlots(TableOf(content[c]))
          PROVE  TableOf(content[c])[i].cluster \in S
      BY <1>1, <2>2, EntryOfTable
    <2> QED
      BY <2>1, <2>2 DEF Successors
  <1> QED
    BY <1>1, <1>2, LiveLeast DEF ClosedUnder

-----------------------------------------------------------------------------
(* The invariant is inductive: one lemma for each kind of step.              *)

LEMMA VolumeSame ==
    ASSUME NEW O, Volume(O), Prepared, UNCHANGED disk
    PROVE  Volume(O)' /\ Prepared'
  <1>1. diskFat' = diskFat /\ content' = content /\ signed' = signed
    BY DEF disk
  <1>2. Volume(O)'
    BY <1>1, VolumeFlush
  <1> QED
    BY <1>1, <1>2 DEF Prepared, Allocated, Barren

\* A call that refuses or only reads, a mount, a power failure: the disk stays.
LEMMA QuietStep ==
    ASSUME NEW O \in SUBSET StoreCluster, TreeInv(O), UNCHANGED disk,
           pc' \in {"off", "idle", "hung"}, slot_buf' = NoSlots
    PROVE  VolumeInv'
  BY VolumeSame, QuietVolume DEF TreeInv

LEMMA AnswerVolume ==
    ASSUME NEW O \in SUBSET StoreCluster, TreeInv(O), NEW code, NEW data,
           Answer(code, data)
    PROVE  VolumeInv'
  <1>1. UNCHANGED disk /\ pc' = "idle" /\ slot_buf' = NoSlots
    BY DEF Answer, Return, ClearLocals
  <1> QED
    BY <1>1, QuietStep

LEMMA HangVolume ==
    ASSUME NEW O \in SUBSET StoreCluster, TreeInv(O), SlotsInv, pc = "begin", Hang
    PROVE  VolumeInv'
  <1>1. UNCHANGED disk /\ pc' = "hung" /\ slot_buf' = NoSlots
    BY DEF Hang, locals, SlotsInv, Writing
  <1> QED
    BY <1>1, QuietStep

LEMMA MountVolume ==
    ASSUME NEW O \in SUBSET StoreCluster, TreeInv(O), SlotsInv, Mount
    PROVE  VolumeInv'
  <1>1. UNCHANGED disk /\ pc' = "idle" /\ slot_buf' = NoSlots
    BY DEF Mount, locals, SlotsInv, Writing
  <1> QED
    BY <1>1, QuietStep

LEMMA CrashVolume ==
    ASSUME NEW O \in SUBSET StoreCluster, TreeInv(O), Crash
    PROVE  VolumeInv'
  <1>1. UNCHANGED disk /\ pc' = "off" /\ slot_buf' = NoSlots
    BY DEF Crash, ClearLocals
  <1> QED
    BY <1>1, QuietStep

LEMMA FormatVolume ==
    ASSUME NEW O \in SUBSET StoreCluster, TreeInv(O), SlotsInv, Format
    PROVE  VolumeInv'
  <1>1. Barren /\ Volume(O)
    BY DEF Format, TreeInv, Prepared
  <1>2. /\ diskFat' = diskFat /\ content' = content /\ signed' = TRUE
        /\ fat_table' = FormattedFat /\ dir_table' = DirTable(FORMAT_NAME, ROOT)
        /\ pc' = "flush" /\ req'.op = "format" /\ slot_buf' = slot_buf
        /\ pc = "off"
    BY DEF Format, FormatRequest, Ask
  <1>3. Volume(O)'
    BY <1>1, <1>2, VolumeFlush
  <1>4. Prepared' /\ Barren'
    BY <1>1, <1>2 DEF Prepared, Barren
  <1>5. FormatInv' /\ CallInv' /\ WriteInv(O)' /\ UnlinkInv' /\ FreeInv(O)'
    BY <1>2, <1>4 DEF FormatInv, Formatting, CallInv, WriteInv, Writing,
                      UnlinkInv, FreeInv
  <1>6. SlotsInv'
    BY <1>2 DEF SlotsInv, Writing
  <1> QED
    BY <1>3, <1>4, <1>5, <1>6 DEF VolumeInv, TreeInv

\* The root's table goes to a volume on which nothing is owned.
LEMMA FormatRootVolume ==
    ASSUME TypeInv, NEW O \in SUBSET StoreCluster, TreeInv(O), FormatRoot
    PROVE  VolumeInv'
  <1>1. /\ Barren /\ dir_table = DirTable(FORMAT_NAME, ROOT) /\ Volume(O)
    BY DEF FormatRoot, TreeInv, FormatInv, Formatting
  <1>2. ROOT \notin O
    BY <1>1, OwnedFacts
  <1>3. Puts(ROOT, Table(dir_table))
    BY PutsExcept, Numbers DEF FormatRoot, TypeInv
  <1>4. GoodTable(dir_table) /\ \A i \in Slot : ~dir_table[i].used
    <2>1. FORMAT_NAME \in AnyName /\ ROOT \in Cluster
      BY Numbers DEF AnyName
    <2> QED
      BY <1>1, <2>1, NewTable
  <1>5. diskFat' = diskFat /\ signed' = signed /\ pc' = "idle" /\ slot_buf' = NoSlots
    BY DEF FormatRoot, ClearLocals
  <1>6. Volume(O)'
    BY <1>1, <1>2, <1>3, <1>4, <1>5, VolumeFresh, TableFields, Numbers
  <1>7. Prepared'
    BY <1>1, <1>5 DEF Prepared, Barren
  <1> QED
    BY <1>5, <1>6, <1>7, QuietVolume

LEMMA InvokeVolume ==
    ASSUME OrdinaryCalls, TypeInv, NEW O \in SUBSET StoreCluster, TreeInv(O),
           SlotsInv, Invoke
    PROVE  VolumeInv'
  <1>1. PICK p \in Parents : \E r \in RequestsOn(p) : req' = r
    BY DEF Invoke
  <1>2. UNCHANGED disk /\ pc = "idle" /\ pc' = "begin" /\ slot_buf' = slot_buf
    BY DEF Invoke
  <1>3. p \in StoreCluster /\ content[p].kind = "table"
    BY <1>1 DEF Parents, LiveDirs, Live
  <1>4. req'.parent = p
    BY <1>1 DEF RequestsOn, Ask
  <1>5. req'.op \in {"write", "delete"} => req'.name # TableOf(content[p])[0].name
    BY <1>1 DEF RequestsOn, Ask, OrdinaryCalls
  <1>6. CallInv'
    BY <1>2, <1>3, <1>4, <1>5 DEF CallInv, disk, TableOf
  <1>7. Volume(O)' /\ Prepared'
    BY <1>2, VolumeSame DEF TreeInv
  <1>8. FormatInv' /\ WriteInv(O)' /\ UnlinkInv' /\ FreeInv(O)' /\ SlotsInv'
    BY <1>2 DEF FormatInv, Formatting, WriteInv, Writing, UnlinkInv, FreeInv, SlotsInv
  <1> QED
    BY <1>6, <1>7, <1>8 DEF VolumeInv, TreeInv

\* The clusters a write finds are free, so nobody's.
LEMMA FreeIsNobodys ==
    ASSUME NEW O, Volume(O), Allocated, NEW c \in Cluster, diskFat[c] = EMPTY
    PROVE  c \in StoreCluster \ (O \cup {ROOT})
  BY OwnedFacts, Numbers DEF Allocated

LEMMA WriteStartVolume ==
    ASSUME OrdinaryCalls, TypeInv, CoherentInv, NEW O \in SUBSET StoreCluster,
           TreeInv(O), WriteStart
    PROVE  VolumeInv'
  <1>1. /\ pc = "begin" /\ req.op = "write" /\ req' = req /\ UNCHANGED disk
        /\ fat_table' = fat_table /\ j' = j
        /\ dir_table' = ParentTable /\ slot' \in FirstUnused(ParentTable)
        /\ ~NameTaken(ParentTable, req.name) /\ ParentValid
        /\ slot_buf' \in SlotBufs(Required(req.payload))
        /\ pc' = IF req.payload = FOLDER THEN "child"
                 ELSE IF Required(req.payload) = 0 THEN "commit" ELSE "link"
    BY DEF WriteStart, Serving
  <1>2. /\ req \in Request /\ j = 0
        /\ req.parent \in StoreCluster /\ req.payload \in Payload \cup {FOLDER}
    BY <1>1, ParentType DEF TypeInv, Control
  <1>3. Required(req.payload) \in Nat /\ Required(req.payload) >= 1
    BY <1>2, CountKept
  <1>4. \/ pc' = "child"
        \/ pc' = "link" /\ req.payload # FOLDER
    BY <1>1, <1>3
  <1>5. fat_table = diskFat
    BY <1>1 DEF CoherentInv, FatCoherent
  <1>6. diskFat[req.parent] = END_OF_FILE /\ Allocated
    <2>1. diskFat[req.parent] = END_OF_FILE
      BY <1>1, <1>5 DEF ParentValid
    <2> QED
      BY <1>2, <2>1, Numbers DEF TreeInv, Prepared, Barren
  <1>7. Aimed'
    <2>1. content[req.parent].kind = "table" /\ ParentTable = content[req.parent].table
      BY <1>1 DEF TreeInv, CallInv, ParentTable, TableOf
    <2> QED
      BY <1>1, <2>1 DEF Aimed, disk
  <1>8. Taken(O)'
    <2>1. /\ slot_buf' \in [0 .. LastIndex -> Cluster]
          /\ \A k \in 0 .. LastIndex : fat_table[slot_buf'[k]] = EMPTY
          /\ \A k, m \in 0 .. LastIndex : k < m => slot_buf'[k] < slot_buf'[m]
      BY <1>1 DEF SlotBufs, IsFirstFree, LastIndex
    <2>2. \A k \in 0 .. LastIndex : slot_buf'[k] \in StoreCluster \ (O \cup {ROOT})
      BY <1>5, <1>6, <2>1, FreeIsNobodys DEF TreeInv
    <2>3. \A k \in 0 .. LastIndex : slot_buf'[k] # req.parent
      BY <1>5, <1>6, <2>1, Numbers
    <2>4. \A k \in 0 .. LastIndex : slot_buf'[k] \in Nat
      BY <2>1, Numbers DEF Cluster
    <2>5. ASSUME NEW k \in 0 .. LastIndex, NEW m \in 0 .. LastIndex,
                 slot_buf'[k] = slot_buf'[m]
          PROVE  k = m
      <3>1. k \in Int /\ m \in Int /\ (k < m \/ m < k \/ k = m)
        OBVIOUS
      <3> QED
        BY <2>1, <2>4, <2>5, <3>1
    <2>6. LastIndex' = LastIndex
      BY <1>1 DEF LastIndex
    <2> QED
      BY <1>1, <2>2, <2>3, <2>5, <2>6 DEF Taken
  <1>9. Written'
    <2>1. \A k \in 0 .. j' - 1 : FALSE
      BY <1>1, <1>2
    <2> QED
      BY <1>1, <1>4, <2>1 DEF Written
  <1>10. Volume(O)' /\ Prepared' /\ Allocated'
    BY <1>1, <1>6, VolumeSame DEF TreeInv, Allocated, disk
  <1>11. WriteInv(O)'
    BY <1>7, <1>8, <1>9, <1>10 DEF WriteInv
  <1>12. FormatInv' /\ CallInv' /\ UnlinkInv' /\ FreeInv(O)' /\ SlotsInv'
    BY <1>4 DEF FormatInv, Formatting, CallInv, UnlinkInv, FreeInv, SlotsInv, Writing
  <1> QED
    BY <1>10, <1>11, <1>12 DEF VolumeInv, TreeInv

\* What a write's steps rest on.
LEMMA WritingFacts ==
    ASSUME OrdinaryCalls, TypeInv, NEW O, TreeInv(O), Writing
    PROVE  /\ req \in Request /\ req.op = "write"
           /\ req.parent \in StoreCluster /\ req.name \in AnyName
           /\ req.payload \in Payload \cup {FOLDER}
           /\ LastIndex \in Nat
           /\ slot_buf \in [0 .. LastIndex -> Cluster]
           /\ j \in Nat /\ (pc # "commit" => j \in 0 .. LastIndex)
           /\ pc = "child" => req.payload = FOLDER /\ j = 0
           /\ pc = "block" => req.payload # FOLDER
           /\ req.payload = FOLDER => LastIndex = 0
           /\ req.payload # FOLDER => LastIndex = ClustersOf[req.payload] - 1
           /\ Volume(O) /\ Prepared /\ Allocated /\ Taken(O) /\ Aimed /\ Written
  <1>1. /\ req \in Request /\ req.op = "write"
        /\ req.payload \in Payload \cup {FOLDER}
        /\ slot_buf \in [0 .. Required(req.payload) - 1 -> Cluster]
        /\ j \in Nat /\ (pc # "commit" => j < Required(req.payload))
        /\ pc = "child" => req.payload = FOLDER /\ j = 0
        /\ pc = "block" => req.payload # FOLDER
    BY DEF TypeInv, TypeOK, Control, Writing, NoRequest, FormatRequest, Ask
  <1>2. /\ Required(req.payload) \in Nat /\ Required(req.payload) >= 1
        /\ req.payload # FOLDER => Required(req.payload) = ClustersOf[req.payload]
        /\ req.payload = FOLDER => Required(req.payload) = 1
    BY <1>1, CountKept
  <1>3. req.parent \in StoreCluster /\ req.name \in AnyName
    BY <1>1, ParentType DEF TypeInv
  <1>4. Volume(O) /\ Prepared /\ Allocated /\ Taken(O) /\ Aimed /\ Written
    BY DEF TreeInv, WriteInv
  <1> QED
    BY <1>1, <1>2, <1>3, <1>4 DEF LastIndex

\* A cluster of the write is nobody's, and not where the write's directory is.
LEMMA TakenFacts ==
    ASSUME NEW O, Taken(O), NEW k \in 0 .. LastIndex
    PROVE  /\ slot_buf[k] \in StoreCluster /\ slot_buf[k] \notin O
           /\ slot_buf[k] # ROOT /\ slot_buf[k] # req.parent
           /\ \A m \in 0 .. LastIndex : m # k => slot_buf[m] # slot_buf[k]
  BY DEF Taken

LEMMA WriteChildVolume ==
    ASSUME OrdinaryCalls, TypeInv, NEW O \in SUBSET StoreCluster, TreeInv(O),
           WriteChild
    PROVE  VolumeInv'
  <1>1. /\ pc = "child" /\ pc' = "link" /\ Writing
        /\ UNCHANGED <<signed, diskFat, fat_table, locals>>
        /\ content' = [content EXCEPT ![slot_buf[0]] =
                          Table(DirTable(req.name, slot_buf[0]))]
    BY DEF WriteChild, Writing
  <1>2. /\ req' = req /\ slot_buf' = slot_buf /\ slot' = slot /\ j' = j
        /\ dir_table' = dir_table /\ diskFat' = diskFat /\ signed' = signed
        /\ fat_table' = fat_table
    BY <1>1 DEF locals
  <1>3. 0 \in 0 .. LastIndex /\ req.payload = FOLDER /\ LastIndex = 0 /\ j = 0
        /\ Aimed /\ Taken(O) /\ Volume(O) /\ Allocated /\ Prepared
    BY <1>1, WritingFacts
  <1> DEFINE x == slot_buf[0]
             y == Table(DirTable(req.name, x))
  <1>4. /\ x \in StoreCluster /\ x \notin O /\ x # ROOT /\ x # req.parent
    BY <1>3, TakenFacts
  <1>5. Puts(x, y)
    BY <1>1, <1>4, PutsExcept DEF TypeInv
  <1>6. Volume(O)'
    <2>1. req.name \in AnyName /\ x \in Cluster
      BY <1>1, <1>4, WritingFacts, Numbers
    <2>2. GoodTable(DirTable(req.name, x)) /\ \A i \in Slot : ~DirTable(req.name, x)[i].used
      BY <2>1, NewTable
    <2>3. y.kind = "table" /\ y.table = DirTable(req.name, x)
      BY TableFields
    <2> HIDE DEF x, y
    <2> QED
      BY <1>2, <1>3, <1>4, <1>5, <2>2, <2>3, VolumeFresh
  <1>7. content'[x] = y /\ content'[req.parent] = content[req.parent]
    BY <1>1, <1>4, <1>5, WritingFacts DEF Puts
  <1>8. ChildMade'
    BY <1>2, <1>7 DEF ChildMade
  <1>9. Aimed' /\ Taken(O)'
    BY <1>2, <1>3, <1>7 DEF Aimed, Taken, LastIndex
  <1>10. Written'
    <2>1. \A k \in 0 .. j' - 1 : FALSE
      BY <1>2, <1>3
    <2> QED
      BY <1>1, <1>8, <2>1 DEF Written
  <1>11. Allocated' /\ Prepared'
    BY <1>2, <1>3 DEF Allocated, Prepared, Barren
  <1>12. FormatInv' /\ CallInv' /\ UnlinkInv' /\ FreeInv(O)' /\ SlotsInv'
    BY <1>1 DEF FormatInv, Formatting, CallInv, UnlinkInv, FreeInv, SlotsInv, Writing
  <1> QED
    BY <1>6, <1>9, <1>10, <1>11, <1>12 DEF VolumeInv, TreeInv, WriteInv

LEMMA LinkVolume ==
    ASSUME OrdinaryCalls, TypeInv, CoherentInv, NEW O \in SUBSET StoreCluster,
           TreeInv(O), LinkCluster
    PROVE  VolumeInv'
  <1>1. /\ pc = "link" /\ pc' = "flush" /\ Writing /\ UNCHANGED disk
        /\ req' = req /\ slot_buf' = slot_buf /\ slot' = slot /\ j' = j
        /\ dir_table' = dir_table
        /\ fat_table' = [fat_table EXCEPT ![slot_buf[j]] = NextOf(j)]
    BY DEF LinkCluster, Writing, NextOf, LastIndex
  <1>2. /\ j \in 0 .. LastIndex /\ req.op = "write"
        /\ slot_buf \in [0 .. LastIndex -> Cluster]
        /\ Aimed /\ Taken(O) /\ Volume(O) /\ Allocated /\ Prepared /\ Written
    BY <1>1, WritingFacts
  <1>3. fat_table = diskFat /\ fat_table \in Fat
    BY <1>1 DEF CoherentInv, FatCoherent, TypeInv, TypeOK
  <1>4. /\ fat_table'[slot_buf[j]] = NextOf(j)
        /\ \A c \in Cluster : c # slot_buf[j] => fat_table'[c] = diskFat[c]
    BY <1>1, <1>2, <1>3 DEF Fat
  <1>5. diskFat' = diskFat /\ content' = content
    BY <1>1 DEF disk
  <1>6. Written'
    <2>1. \A k : NextOf(k)' = NextOf(k) /\ Linked(k)' = Linked(k) /\ Stored(k)' = Stored(k)
      BY <1>1, <1>5 DEF NextOf, Linked, Stored, LastIndex
    <2>2. \A k \in 0 .. j - 1 : Linked(k)' /\ Stored(k)'
      BY <1>2, <2>1 DEF Written
    <2>3. req'.payload = FOLDER => ChildMade'
      BY <1>1, <1>2, <1>5 DEF Written, ChildMade
    <2>4. NextOf(j)' = NextOf(j)
      BY <1>1 DEF NextOf, LastIndex
    <2> QED
      BY <1>1, <1>4, <1>5, <2>2, <2>3, <2>4 DEF Written
  <1>7. Aimed' /\ Taken(O)'
    BY <1>1, <1>2, <1>5 DEF Aimed, Taken, LastIndex
  <1>8. Volume(O)' /\ Prepared' /\ Allocated'
    BY <1>1, <1>2, <1>5, VolumeSame DEF Allocated
  <1>9. FormatInv' /\ CallInv' /\ UnlinkInv' /\ FreeInv(O)' /\ SlotsInv'
    BY <1>1, <1>2 DEF FormatInv, Formatting, CallInv, UnlinkInv, FreeInv, SlotsInv, Writing
  <1> QED
    BY <1>6, <1>7, <1>8, <1>9 DEF VolumeInv, TreeInv, WriteInv

\* A sector of the FAT goes to disk: each entry on it stays or becomes the cache's.
LEMMA FlushEntry ==
    ASSUME diskFat' = FlushedFat, NEW c \in Cluster
    PROVE  diskFat'[c] \in {fat_table[c], diskFat[c]}
  BY DEF FlushedFat

\* ... of a format: the volume stays barren.
LEMMA FlushFormat ==
    ASSUME NEW O, TreeInv(O), pc = "flush", req.op = "format",
           diskFat' = FlushedFat, content' = content, signed' = signed
    PROVE  /\ Volume(O)' /\ Prepared' /\ Barren'
           /\ dir_table = DirTable(FORMAT_NAME, ROOT) /\ fat_table = FormattedFat
  <1>1. /\ Barren /\ Volume(O) /\ dir_table = DirTable(FORMAT_NAME, ROOT)
        /\ fat_table = FormattedFat
    BY DEF TreeInv, FormatInv, Formatting
  <1>2. \A c \in StoreCluster : fat_table[c] = EMPTY
    BY <1>1, Numbers DEF FormattedFat
  <1>3. fat_table[0] = CLUSTER_0_VALUE
    BY <1>1, Numbers DEF FormattedFat
  <1>4. \A c \in StoreCluster : diskFat'[c] = EMPTY
    BY <1>1, <1>2, FlushEntry, Numbers DEF Barren
  <1>5. diskFat'[0] \in {EMPTY, CLUSTER_0_VALUE}
    BY <1>1, <1>3, FlushEntry, Numbers DEF Barren
  <1>6. Barren' /\ Prepared'
    BY <1>4, <1>5 DEF Barren, Prepared
  <1>7. O = {}
    BY <1>1, BarrenOwnsNothing
  <1>8. Volume(O)'
    BY <1>1, <1>7, VolumeFlush
  <1> QED
    BY <1>1, <1>6, <1>8

\* ... of a delete: what it frees is no longer owned.
LEMMA FlushDelete ==
    ASSUME NEW O, TreeInv(O), pc = "flush", req.op = "delete",
           diskFat' = FlushedFat, content' = content, signed' = signed
    PROVE  /\ Volume(O)' /\ Prepared' /\ Allocated'
           /\ \A c \in O \cup {0, 1, ROOT} : diskFat'[c] = diskFat[c]
           /\ \A c \in O \cup {0, 1, ROOT} : fat_table[c] = diskFat[c]
           /\ \A c \in Cluster : fat_table[c] \in {EMPTY, diskFat'[c]}
  <1>1. /\ Allocated /\ Volume(O) /\ Prepared
        /\ \A c \in O \cup {0, 1, ROOT} : fat_table[c] = diskFat[c]
        /\ \A c \in Cluster : fat_table[c] \in {EMPTY, diskFat[c]}
    BY DEF TreeInv, FreeInv
  <1>2. O \cup {0, 1, ROOT} \subseteq Cluster
    BY <1>1, OwnedFacts, Numbers
  <1>3. \A c \in O \cup {0, 1, ROOT} : diskFat'[c] = diskFat[c]
    BY <1>1, <1>2, FlushEntry
  <1>4. Volume(O)'
    BY <1>1, <1>3, VolumeFlush
  <1>5. Allocated'
    BY <1>1, <1>3 DEF Allocated
  <1>6. ~Barren
    BY <1>1, Numbers DEF Allocated, Barren
  <1>7. Prepared'
    BY <1>1, <1>5, <1>6 DEF Prepared
  <1>8. \A c \in Cluster : fat_table[c] \in {EMPTY, diskFat'[c]}
    BY <1>1, FlushEntry
  <1> QED
    BY <1>1, <1>3, <1>4, <1>5, <1>7, <1>8

\* ... of a write: only the entry of its cluster j can change, which is nobody's.
LEMMA FlushWrite ==
    ASSUME OrdinaryCalls, TypeInv, NEW O, TreeInv(O), pc = "flush",
           req.op = "write", diskFat' = FlushedFat, content' = content,
           signed' = signed, UNCHANGED <<dir_table, req, slot_buf, slot, j>>
    PROVE  /\ Volume(O)' /\ Prepared' /\ Allocated' /\ Taken(O)' /\ Aimed'
           /\ \A c \in Cluster : c # slot_buf[j] => diskFat'[c] = diskFat[c]
           /\ \A k \in 0 .. j - 1 : Linked(k)' /\ Stored(k)'
           /\ fat_table[slot_buf[j]] = NextOf(j) /\ NextOf(j)' = NextOf(j)
           /\ \A c \in Cluster : c # slot_buf[j] => fat_table[c] = diskFat'[c]
           /\ req.payload = FOLDER => ChildMade'
  <1>1. /\ req' = req /\ slot_buf' = slot_buf /\ slot' = slot /\ j' = j
        /\ dir_table' = dir_table /\ LastIndex' = LastIndex
    BY DEF LastIndex
  <1>2. Writing /\ pc # "commit"
    BY DEF Writing
  <1>3. /\ j \in 0 .. LastIndex /\ LastIndex \in Nat
        /\ Aimed /\ Taken(O) /\ Volume(O) /\ Allocated /\ Prepared /\ Written
    BY <1>2, WritingFacts
  <1>4. /\ slot_buf[j] \in StoreCluster /\ slot_buf[j] \notin O /\ slot_buf[j] # ROOT
        /\ slot_buf[j] # 0 /\ slot_buf[j] # 1
        /\ \A m \in 0 .. LastIndex : m # j => slot_buf[m] # slot_buf[j]
    BY <1>3, TakenFacts, Numbers
  <1>5. /\ fat_table[slot_buf[j]] = NextOf(j)
        /\ \A c \in Cluster : c # slot_buf[j] => fat_table[c] = diskFat[c]
    BY <1>3 DEF Written
  <1>6. \A c \in Cluster : c # slot_buf[j] => diskFat'[c] = diskFat[c]
    BY <1>5, FlushEntry
  <1>7. Volume(O)'
    <2>1. \A c \in O : diskFat'[c] = diskFat[c]
      BY <1>3, <1>4, <1>6, OwnedFacts
    <2> QED
      BY <1>3, <2>1, VolumeFlush
  <1>8. Allocated'
    BY <1>3, <1>4, <1>6, Numbers DEF Allocated
  <1>9. Prepared'
    BY <1>3, <1>8, Numbers DEF Prepared, Allocated, Barren
  <1>10. Taken(O)' /\ Aimed'
    BY <1>1, <1>3 DEF Taken, Aimed
  <1>11. \A k : NextOf(k)' = NextOf(k) /\ Stored(k)' = Stored(k)
    BY <1>1 DEF NextOf, Stored
  <1>12. ASSUME NEW k \in 0 .. j - 1 PROVE Linked(k)' /\ Stored(k)'
    <2>1. Linked(k) /\ Stored(k) /\ k \in 0 .. LastIndex /\ k # j
      BY <1>3 DEF Written
    <2>2. slot_buf[k] \in Cluster /\ slot_buf[k] # slot_buf[j]
      BY <1>3, <1>4, <2>1, TakenFacts, Numbers
    <2>3. diskFat'[slot_buf[k]] = diskFat[slot_buf[k]]
      BY <1>6, <2>2
    <2>4. NextOf(k)' = NextOf(k) /\ Stored(k)' = Stored(k)
      BY <1>11
    <2> QED
      BY <1>1, <2>1, <2>3, <2>4 DEF Linked
  <1>13. req.payload = FOLDER => ChildMade'
    BY <1>1, <1>3 DEF Written, ChildMade
  <1> QED
    BY <1>5, <1>6, <1>7, <1>8, <1>9, <1>10, <1>11, <1>12, <1>13

LEMMA FlushSectorVolume ==
    ASSUME OrdinaryCalls, TypeInv, NEW O \in SUBSET StoreCluster,
           TreeInv(O), SlotsInv, FlushSector
    PROVE  VolumeInv'
  <1>1. /\ pc = "flush" /\ pc' = "flush" /\ diskFat' = FlushedFat
        /\ content' = content /\ signed' = signed /\ fat_table' = fat_table
        /\ req' = req /\ slot_buf' = slot_buf /\ slot' = slot /\ j' = j
        /\ dir_table' = dir_table
    BY DEF FlushSector
  <1>2. CallInv' /\ UnlinkInv'
    BY <1>1 DEF CallInv, UnlinkInv
  <1>3. SlotsInv'
    BY <1>1 DEF SlotsInv, Writing
  <1>4. CASE req.op = "format"
    <2>1. /\ Volume(O)' /\ Prepared' /\ Barren'
          /\ dir_table = DirTable(FORMAT_NAME, ROOT) /\ fat_table = FormattedFat
      BY <1>1, <1>4, FlushFormat
    <2>2. FormatInv' /\ WriteInv(O)' /\ FreeInv(O)'
      BY <1>1, <1>4, <2>1 DEF FormatInv, Formatting, WriteInv, Writing, FreeInv
    <2> QED
      BY <1>2, <1>3, <2>1, <2>2 DEF VolumeInv, TreeInv
  <1>5. CASE req.op = "delete"
    <2>1. /\ Volume(O)' /\ Prepared' /\ Allocated'
          /\ \A c \in O \cup {0, 1, ROOT} : diskFat'[c] = diskFat[c]
          /\ \A c \in O \cup {0, 1, ROOT} : fat_table[c] = diskFat[c]
          /\ \A c \in Cluster : fat_table[c] \in {EMPTY, diskFat'[c]}
      BY <1>1, <1>5, FlushDelete
    <2>2. FormatInv' /\ WriteInv(O)'
      BY <1>1, <1>5 DEF FormatInv, Formatting, WriteInv, Writing
    <2>3. FreeInv(O)'
      BY <1>1, <2>1 DEF FreeInv
    <2> QED
      BY <1>2, <1>3, <2>1, <2>2, <2>3 DEF VolumeInv, TreeInv
  <1>6. CASE req.op = "write"
    <2>1. /\ Volume(O)' /\ Prepared' /\ Allocated'
          /\ \A k \in 0 .. j - 1 : Linked(k)' /\ Stored(k)'
          /\ fat_table[slot_buf[j]] = NextOf(j) /\ NextOf(j)' = NextOf(j)
          /\ \A c \in Cluster : c # slot_buf[j] => fat_table[c] = diskFat'[c]
          /\ req.payload = FOLDER => ChildMade'
          /\ Taken(O)' /\ Aimed'
      BY <1>1, <1>6, FlushWrite
    <2>2. Written'
      BY <1>1, <2>1 DEF Written
    <2>3. FormatInv' /\ FreeInv(O)'
      BY <1>1, <1>6 DEF FormatInv, Formatting, FreeInv
    <2> QED
      BY <1>2, <1>3, <2>1, <2>2, <2>3 DEF VolumeInv, TreeInv, WriteInv
  <1> QED
    BY <1>1, <1>4, <1>5, <1>6 DEF TypeInv, Control

LEMMA FlushLastVolume ==
    ASSUME OrdinaryCalls, TypeInv, CoherentInv, NEW O \in SUBSET StoreCluster,
           TreeInv(O), SlotsInv, FlushLast
    PROVE  VolumeInv'
  <1>1. /\ pc = "flush" /\ diskFat' = FlushedFat /\ content' = content
        /\ signed' = signed /\ fat_table' = fat_table /\ sector = LAST_SECTOR
    BY DEF FlushLast
  <1>2. diskFat' = fat_table
    BY <1>1, FlushedWhole DEF TypeInv, CoherentInv
  <1>3. CASE req.op = "delete"
    <2>1. pc' = "idle" /\ slot_buf' = NoSlots
      BY <1>3 DEF FlushLast, Return, ClearLocals
    <2>2. Volume(O)' /\ Prepared'
      BY <1>1, <1>3, FlushDelete
    <2> QED
      BY <2>1, <2>2, QuietVolume
  <1>4. CASE req.op = "format"
    <2>1. /\ pc' = "format_root" /\ req' = req /\ dir_table' = dir_table
          /\ slot_buf' = slot_buf
      BY <1>4 DEF FlushLast, locals
    <2>2. /\ Volume(O)' /\ Prepared' /\ Barren'
          /\ dir_table = DirTable(FORMAT_NAME, ROOT)
      BY <1>1, <1>4, FlushFormat
    <2>3. SlotsInv'
      BY <1>1, <1>4, <2>1 DEF SlotsInv, Writing
    <2>4. FormatInv' /\ CallInv' /\ WriteInv(O)' /\ UnlinkInv' /\ FreeInv(O)'
      BY <2>1, <2>2 DEF FormatInv, Formatting, CallInv, WriteInv, Writing,
                        UnlinkInv, FreeInv
    <2> QED
      BY <2>2, <2>3, <2>4 DEF VolumeInv, TreeInv
  <1>5. CASE req.op = "write"
    <2>1. /\ pc' = IF req.payload = FOLDER THEN "commit" ELSE "block"
          /\ UNCHANGED <<dir_table, req, slot_buf, slot, j>>
      BY <1>5 DEF FlushLast, locals
    <2>2. /\ Volume(O)' /\ Prepared' /\ Allocated' /\ Taken(O)' /\ Aimed'
          /\ \A k \in 0 .. j - 1 : Linked(k)' /\ Stored(k)'
          /\ fat_table[slot_buf[j]] = NextOf(j) /\ NextOf(j)' = NextOf(j)
          /\ req.payload = FOLDER => ChildMade'
      BY <1>1, <1>5, <2>1, FlushWrite
    <2>3. Linked(j)'
      BY <1>2, <2>1, <2>2 DEF Linked
    <2>4. req.payload = FOLDER => j = LastIndex
      <3>1. Writing /\ pc # "commit"
        BY <1>1, <1>5 DEF Writing
      <3>2. j \in 0 .. LastIndex /\ (req.payload = FOLDER => LastIndex = 0)
        BY <3>1, WritingFacts
      <3> QED
        BY <3>2
    <2>5. Written'
      <3>1. j' = j /\ req' = req /\ LastIndex' = LastIndex
        BY <2>1 DEF LastIndex
      <3>2. \A k \in 0 .. j' - 1 : Linked(k)' /\ Stored(k)'
        BY <2>2, <3>1
      <3>3. pc' \in {"block", "commit"} /\ pc' # "flush"
            /\ (pc' = "commit" => req.payload = FOLDER)
        BY <2>1
      <3> QED
        BY <2>2, <2>3, <2>4, <3>1, <3>2, <3>3 DEF Written
    <2>6. FormatInv' /\ CallInv' /\ UnlinkInv' /\ FreeInv(O)' /\ SlotsInv'
      BY <2>1 DEF FormatInv, Formatting, CallInv, UnlinkInv, FreeInv, SlotsInv, Writing
    <2> QED
      BY <2>2, <2>5, <2>6 DEF VolumeInv, TreeInv, WriteInv
  <1> QED
    BY <1>1, <1>3, <1>4, <1>5 DEF TypeInv, Control

LEMMA WriteBlockVolume ==
    ASSUME OrdinaryCalls, TypeInv, NEW O \in SUBSET StoreCluster,
           TreeInv(O), WriteBlock
    PROVE  VolumeInv'
  <1>1. /\ pc = "block" /\ Writing /\ diskFat' = diskFat /\ signed' = signed
        /\ req' = req /\ slot_buf' = slot_buf /\ slot' = slot
        /\ dir_table' = dir_table
        /\ content' = [content EXCEPT ![slot_buf[j]] = Block(req.payload, j)]
        /\ IF j + 1 < Required(req.payload)
           THEN j' = j + 1 /\ pc' = "link"
           ELSE j' = j /\ pc' = "commit"
    BY DEF WriteBlock, Writing
  <1>2. /\ j \in 0 .. LastIndex /\ LastIndex \in Nat /\ req.payload # FOLDER
        /\ req.parent \in StoreCluster
        /\ Aimed /\ Taken(O) /\ Volume(O) /\ Allocated /\ Prepared /\ Written
    BY <1>1, WritingFacts
  <1>3. Required(req.payload) = LastIndex + 1
    <2>1. Required(req.payload) \in Nat
      BY <1>1, CountKept, WritingFacts
    <2> QED
      BY <2>1 DEF LastIndex
  <1>4. \/ j' = j + 1 /\ pc' = "link" /\ j < LastIndex
        \/ j' = j /\ pc' = "commit" /\ j = LastIndex
    BY <1>1, <1>2, <1>3
  <1> DEFINE x == slot_buf[j]
             y == Block(req.payload, j)
  <1>5. x \in StoreCluster /\ x \notin O /\ x # ROOT /\ x # req.parent
    BY <1>2, TakenFacts
  <1>6. Puts(x, y)
    BY <1>1, <1>5, PutsExcept DEF TypeInv
  <1>7. Volume(O)'
    <2>1. y.kind = "block"
      BY BlockFields
    <2> HIDE DEF x, y
    <2> QED
      BY <1>1, <1>2, <1>5, <1>6, <2>1, VolumeFresh
  <1>8. content'[x] = y /\ content'[req.parent] = content[req.parent]
        /\ \A c \in StoreCluster : c # x => content'[c] = content[c]
    BY <1>2, <1>5, <1>6 DEF Puts
  <1>9. LastIndex' = LastIndex
    BY <1>1 DEF LastIndex
  <1>10. Aimed' /\ Taken(O)'
    BY <1>1, <1>2, <1>8, <1>9 DEF Aimed, Taken
  <1>11. \A k : Linked(k)' = Linked(k)
    BY <1>1, <1>9 DEF Linked, NextOf
  <1>0. PICK n : n = j
    OBVIOUS
  <1>12. Stored(n)'
    BY <1>0, <1>1, <1>8 DEF Stored
  <1>13. Linked(n)
    BY <1>0, <1>1, <1>2 DEF Written
  <1>14. ASSUME NEW k \in 0 .. j - 1 PROVE Linked(k)' /\ Stored(k)'
    <2>1. Linked(k) /\ Stored(k) /\ k \in 0 .. LastIndex /\ k # j
      BY <1>2 DEF Written
    <2>2. slot_buf[k] \in StoreCluster /\ slot_buf[k] # x
      BY <1>2, <2>1, TakenFacts
    <2>3. content'[slot_buf[k]] = content[slot_buf[k]]
      BY <1>8, <2>2
    <2>4. Stored(k)'
      BY <1>1, <2>1, <2>3 DEF Stored
    <2>5. Linked(k)'
      BY <1>11, <2>1
    <2> QED
      BY <2>4, <2>5
  <1>15. Written'
    <2>1. \A k \in 0 .. j : Linked(k)' /\ Stored(k)'
      <3> TAKE k \in 0 .. j
      <3>1. CASE k = n
        BY <1>11, <1>12, <1>13, <3>1
      <3>2. CASE k # n
        <4>1. k \in 0 .. j - 1
          BY <1>0, <1>2, <3>2
        <4> QED
          BY <1>14, <4>1
      <3> QED
        BY <3>1, <3>2
    <2>2. CASE j' = j + 1 /\ pc' = "link"
      <3>1. \A k \in 0 .. j' - 1 : Linked(k)' /\ Stored(k)'
        BY <1>2, <2>1, <2>2
      <3> QED
        BY <1>1, <1>2, <2>2, <3>1 DEF Written
    <2>3. CASE j' = j /\ pc' = "commit" /\ j = LastIndex
      <3>1. \A k \in 0 .. j' - 1 : Linked(k)' /\ Stored(k)'
        BY <1>2, <2>1, <2>3
      <3>2. Linked(j)' /\ Stored(j)'
        BY <1>0, <1>11, <1>12, <1>13, <2>3
      <3> QED
        BY <1>1, <1>2, <1>9, <2>3, <3>1, <3>2 DEF Written
    <2> QED
      BY <1>4, <2>2, <2>3
  <1>16. Allocated' /\ Prepared'
    BY <1>1, <1>2 DEF Allocated, Prepared, Barren
  <1>17. FormatInv' /\ CallInv' /\ UnlinkInv' /\ FreeInv(O)' /\ SlotsInv'
    BY <1>4 DEF FormatInv, Formatting, CallInv, UnlinkInv, FreeInv, SlotsInv, Writing
  <1> QED
    BY <1>7, <1>10, <1>15, <1>16, <1>17 DEF VolumeInv, TreeInv, WriteInv

\* The entry's chain: all the clusters the write has found, in their order.
LEMMA CommitVolume ==
    ASSUME OrdinaryCalls, TypeInv, NEW O \in SUBSET StoreCluster,
           TreeInv(O), Commit
    PROVE  VolumeInv'
  <1>1. pc = "commit" /\ Writing /\ diskFat' = diskFat /\ signed' = signed
        /\ pc' = "idle" /\ slot_buf' = NoSlots
    BY DEF Commit, Writing, Return, ClearLocals
  <1>2. /\ req \in Request /\ req.parent \in StoreCluster /\ req.name \in AnyName
        /\ req.payload \in Payload \cup {FOLDER} /\ LastIndex \in Nat
        /\ req.payload = FOLDER => LastIndex = 0
        /\ req.payload # FOLDER => LastIndex = ClustersOf[req.payload] - 1
        /\ slot_buf \in [0 .. LastIndex -> Cluster]
        /\ Aimed /\ Taken(O) /\ Volume(O) /\ Allocated /\ Prepared /\ Written
    BY <1>1, WritingFacts
  <1>3. PICK h : h = slot_buf[0]
    OBVIOUS
  <1>4. PICK e : e = [name |-> req.name, subdir |-> req.payload = FOLDER,
                      used |-> TRUE, cluster |-> h,
                      size |-> IF req.payload = FOLDER THEN 0
                               ELSE ClustersOf[req.payload]]
    OBVIOUS
  <1>5. PICK t : t = [dir_table EXCEPT ![slot] = e]
    OBVIOUS
  <1>6. content' = [content EXCEPT ![req.parent] = Table(t)]
    <2>1. Required(req.payload) # 0
      BY <1>2, CountKept
    <2>2. EntryHeads = {h}
      BY <1>3, <2>1 DEF EntryHeads
    <2> QED
      BY <1>4, <1>5, <2>2 DEF Commit
  <1>7. Puts(req.parent, Table(t))
    BY <1>2, <1>6, PutsExcept DEF TypeInv
  <1>8. 0 \in 0 .. LastIndex /\ h \in StoreCluster
    <2>1. 0 \in 0 .. LastIndex
      BY <1>2
    <2> QED
      BY <1>2, <1>3, <2>1, TakenFacts
  <1>9. /\ e \in Entry /\ e.used = TRUE /\ e.name = req.name /\ e.cluster = h
        /\ e.subdir = (req.payload = FOLDER)
        /\ req.payload # FOLDER => e.size = ClustersOf[req.payload]
    <2>1. (IF req.payload = FOLDER THEN 0 ELSE ClustersOf[req.payload]) \in Nat
      BY <1>2, DataAssumption
    <2>2. h \in Cluster
      BY <1>8, Numbers
    <2> QED
      BY <1>2, <1>4, <2>1, <2>2 DEF Entry
  <1>10. ASSUME NEW k \in 0 .. LastIndex
         PROVE  /\ diskFat[slot_buf[k]] = NextOf(k)
                /\ req.payload # FOLDER => content[slot_buf[k]] = Block(req.payload, k)
    <2>1. j = LastIndex /\ Linked(j) /\ (req.payload # FOLDER => Stored(j))
          /\ \A m \in 0 .. j - 1 : Linked(m) /\ Stored(m)
      BY <1>1, <1>2 DEF Written
    <2>2. CASE k = j
      BY <2>1, <2>2 DEF Linked, Stored
    <2>3. CASE k # j
      <3>1. k \in 0 .. j - 1
        BY <1>2, <2>1, <2>3
      <3> QED
        BY <2>1, <3>1 DEF Linked, Stored
    <2> QED
      BY <2>2, <2>3
  <1>11. PICK N : N = {slot_buf[k] : k \in 0 .. LastIndex}
    OBVIOUS
  <1>12. N \subseteq StoreCluster \ (O \cup {ROOT}) /\ h \in N
    BY <1>2, <1>3, <1>8, <1>11, TakenFacts
  <1>13. ASSUME NEW k \in 0 .. LastIndex
         PROVE  \/ diskFat[slot_buf[k]] = END_OF_FILE /\ k = LastIndex
                \/ /\ k + 1 \in 0 .. LastIndex /\ k # LastIndex
                   /\ diskFat[slot_buf[k]] = slot_buf[k + 1]
                   /\ diskFat[slot_buf[k]] \in N \ {h}
    <2>1. CASE k < LastIndex
      <3>1. k + 1 \in 0 .. LastIndex /\ k + 1 # 0
        BY <1>2, <2>1
      <3>2. diskFat[slot_buf[k]] = slot_buf[k + 1]
        BY <1>10, <2>1 DEF NextOf
      <3>3. slot_buf[k + 1] # slot_buf[0]
        BY <1>2, <1>8, <3>1, TakenFacts
      <3> QED
        BY <1>3, <1>11, <2>1, <3>1, <3>2, <3>3
    <2>2. CASE ~(k < LastIndex)
      BY <1>2, <1>10, <2>2 DEF NextOf
    <2> QED
      BY <2>1, <2>2
  <1>14. \A c \in N : diskFat[c] = END_OF_FILE \/ diskFat[c] \in N \ {h}
    BY <1>11, <1>13
  <1>15. \A c, d \in N : diskFat[c] = diskFat[d] /\ diskFat[c] \in N => c = d
    <2> SUFFICES ASSUME NEW k \in 0 .. LastIndex, NEW m \in 0 .. LastIndex,
                        diskFat[slot_buf[k]] = diskFat[slot_buf[m]],
                        diskFat[slot_buf[k]] \in N
                 PROVE  k = m
      BY <1>11
    <2>1. diskFat[slot_buf[k]] # END_OF_FILE
      BY <1>12, Numbers
    <2>2. /\ k + 1 \in 0 .. LastIndex /\ m + 1 \in 0 .. LastIndex
          /\ slot_buf[k + 1] = slot_buf[m + 1]
      BY <1>13, <2>1
    <2>3. k + 1 = m + 1
      BY <1>2, <2>2, TakenFacts
    <2> QED
      BY <2>3
  <1>16. \A c \in N : content[c].kind = "block" => BlockIntact(c)
    <2> SUFFICES ASSUME NEW k \in 0 .. LastIndex, content[slot_buf[k]].kind = "block"
                 PROVE  BlockIntact(slot_buf[k])
      BY <1>11
    <2>1. CASE req.payload = FOLDER
      <3>1. ChildMade /\ k = 0
        BY <1>1, <1>2, <2>1 DEF Written
      <3> QED
        BY <3>1, TableFields DEF ChildMade
    <2>2. CASE req.payload # FOLDER
      <3>1. content[slot_buf[k]] = Block(req.payload, k)
        BY <1>10, <2>2
      <3>2. ClustersOf[req.payload] = LastIndex + 1
        <4>1. ClustersOf[req.payload] \in Nat
          BY <1>2, <2>2, DataAssumption
        <4> QED
          BY <1>2, <2>2, <4>1
      <3>3. CASE k = LastIndex
        BY <1>13, <3>1, <3>2, <3>3, BlockFields DEF BlockIntact
      <3>4. CASE k # LastIndex
        <4>1. k + 1 \in 0 .. LastIndex /\ diskFat[slot_buf[k]] = slot_buf[k + 1]
          BY <1>13, <3>4
        <4>2. content[slot_buf[k + 1]] = Block(req.payload, k + 1)
              /\ slot_buf[k + 1] \in StoreCluster
          BY <1>2, <1>10, <2>2, <4>1, TakenFacts
        <4>3. k + 1 # ClustersOf[req.payload]
          BY <1>2, <3>2, <3>4
        <4> QED
          BY <3>1, <4>1, <4>2, <4>3, BlockFields DEF BlockIntact
      <3> QED
        BY <3>3, <3>4
    <2> QED
      BY <2>1, <2>2
  <1>17. EntryIntact(e)
    <2>1. CASE req.payload = FOLDER
      <3>1. ChildMade
        BY <1>1, <1>2, <2>1 DEF Written
      <3>2. content[h].kind = "table" /\ content[h].table = DirTable(req.name, h)
        BY <1>3, <3>1, TableFields DEF ChildMade
      <3>3. DirTable(req.name, h)[0].name = req.name /\ DirTable(req.name, h)[0].cluster = h
        BY <1>2, <1>8, NewTable, Numbers
      <3>4. diskFat[h] = END_OF_FILE
        BY <1>2, <1>3, <1>8, <1>13, <2>1
      <3>5. e.subdir /\ e.name = req.name /\ e.cluster = h
        BY <1>9, <2>1
      <3> QED
        BY <3>2, <3>3, <3>4, <3>5 DEF EntryIntact, DirectoryIntact
    <2>2. CASE req.payload # FOLDER
      <3>1. content[h] = Block(req.payload, 0)
        BY <1>3, <1>8, <1>10, <2>2
      <3>2. ~e.subdir /\ e.size = ClustersOf[req.payload] /\ e.cluster = h
        BY <1>9, <2>2
      <3>3. /\ content[h].kind = "block" /\ content[h].index = 0
            /\ content[h].payload = req.payload
        BY <3>1, BlockFields
      <3> QED
        BY <3>2, <3>3 DEF EntryIntact, FileIntact
    <2> QED
      BY <2>1, <2>2
  <1>18. /\ content[req.parent].kind = "table" /\ slot \in UserSlot
         /\ t = [content[req.parent].table EXCEPT ![slot] = e]
         /\ ~content[req.parent].table[slot].used
         /\ ~NameTaken(content[req.parent].table, e.name)
    BY <1>2, <1>5, <1>9 DEF Aimed, FirstUnused
  <1>19. Volume(O \cup N)'
    BY <1>1, <1>2, <1>7, <1>9, <1>12, <1>14, <1>15, <1>16, <1>17, <1>18,
       VolumeCommit DEF TypeInv
  <1>20. Prepared'
    BY <1>1, <1>2 DEF Prepared, Allocated, Barren
  <1>21. O \cup N \in SUBSET StoreCluster
    BY <1>12
  <1> QED
    BY <1>1, <1>19, <1>20, <1>21, QuietVolume

\* delete finds a used entry: the directory's own is under its label, and at an
\* unused one, under the empty name, the walk from cluster 0 never ends.
LEMMA DeleteVolume ==
    ASSUME OrdinaryCalls, TypeInv, CoherentInv, NEW O \in SUBSET StoreCluster,
           TreeInv(O), SlotsInv, Delete
    PROVE  VolumeInv'
  <1>1. pc = "begin" /\ req.op = "delete" /\ req \in Request
    BY DEF Delete, Serving, TypeInv, Control
  <1>2. PICK i \in FirstMatch(ParentTable, req.name) :
           IF WalkEnds(fat_table, ParentTable[i].cluster)
           THEN /\ fat_table' = FreeChain(fat_table, ParentTable[i].cluster)
                /\ dir_table' = [ParentTable EXCEPT ![i] = ZeroEntry]
                /\ slot' = i /\ pc' = "unlink"
                /\ UNCHANGED <<disk, req, slot_buf, j, sector, reply>>
           ELSE Hang
    BY DEF Delete
  <1>3. CASE ~WalkEnds(fat_table, ParentTable[i].cluster)
    BY <1>1, <1>2, <1>3, HangVolume
  <1>4. CASE WalkEnds(fat_table, ParentTable[i].cluster)
    <2>1. fat_table = diskFat
      BY <1>1 DEF CoherentInv, FatCoherent
    <2>2. /\ req.parent \in StoreCluster /\ content[req.parent].kind = "table"
          /\ ParentTable = content[req.parent].table
          /\ req.name # ParentTable[0].name
      BY <1>1, ParentType DEF TypeInv, TreeInv, CallInv, ParentTable, TableOf
    <2>3. i \in Slot /\ i # 0
      BY <2>2 DEF FirstMatch
    <2>4. GoodTable(ParentTable)
      BY <2>2 DEF TreeInv, Volume, Tables
    <2>5. ParentTable[i].used
      <3> SUFFICES ASSUME ~ParentTable[i].used PROVE FALSE
        OBVIOUS
      <3>1. ParentTable[i].cluster = 0
        BY <2>3, <2>4 DEF GoodTable, ZeroEntry
      <3>2. fat_table[0] \in {EMPTY, CLUSTER_0_VALUE}
        BY <2>1 DEF TreeInv, Prepared, Allocated, Barren
      <3> QED
        BY <1>4, <3>1, <3>2, NoWalkFromZero
    <2>6. i \in UserSlot
      BY <2>3, <2>4, <2>5 DEF GoodTable
    <2>7. /\ fat_table' = FreeChain(fat_table, ParentTable[i].cluster)
          /\ dir_table' = [ParentTable EXCEPT ![i] = ZeroEntry]
          /\ slot' = i /\ pc' = "unlink" /\ UNCHANGED disk
          /\ req' = req /\ slot_buf' = slot_buf
      BY <1>2, <1>4
    <2>8. diskFat' = diskFat /\ content' = content
      BY <2>7 DEF disk
    <2>9. UnlinkInv'
      <3>1. IsEntry(req.parent, slot)'
        BY <2>2, <2>5, <2>6, <2>7, <2>8 DEF IsEntry, EntryAt
      <3>2. dir_table' = [content'[req'.parent].table EXCEPT ![slot'] = ZeroEntry]
        BY <2>2, <2>7, <2>8
      <3>3. EntryAt(req.parent, slot)'.cluster = ParentTable[i].cluster
        BY <2>2, <2>7, <2>8 DEF EntryAt
      <3>4. fat_table' = FreeChain(diskFat', EntryAt(req.parent, slot)'.cluster)
        BY <2>1, <2>7, <2>8, <3>3
      <3> QED
        BY <3>1, <3>2, <3>4 DEF UnlinkInv
    <2>10. Volume(O)' /\ Prepared'
      BY <2>7, VolumeSame DEF TreeInv
    <2>11. FormatInv' /\ CallInv' /\ WriteInv(O)' /\ FreeInv(O)'
      BY <2>7 DEF FormatInv, Formatting, CallInv, WriteInv, Writing, FreeInv
    <2>12. SlotsInv'
      BY <1>1, <2>7 DEF SlotsInv, Writing
    <2> QED
      BY <2>9, <2>10, <2>11, <2>12 DEF VolumeInv, TreeInv
  <1> QED
    BY <1>3, <1>4

LEMMA UnlinkVolume ==
    ASSUME TypeInv, NEW O \in SUBSET StoreCluster, TreeInv(O), SlotsInv, Unlink
    PROVE  VolumeInv'
  <1>1. /\ pc = "unlink" /\ pc' = "flush" /\ req' = req /\ slot_buf' = slot_buf
        /\ diskFat' = diskFat /\ signed' = signed /\ fat_table' = fat_table
        /\ content' = [content EXCEPT ![req.parent] = Table(dir_table)]
    BY DEF Unlink
  <1>2. /\ req.op = "delete" /\ req.parent \in StoreCluster
    BY <1>1, ParentType DEF TypeInv, Control
  <1>3. PICK p : p = req.parent
    OBVIOUS
  <1>4. PICK s : s = slot
    OBVIOUS
  <1>5. PICK t : t = dir_table
    OBVIOUS
  <1>6. PICK h : h = EntryAt(p, s).cluster
    OBVIOUS
  <1>7. PICK X : X = ChainSet(diskFat, h)
    OBVIOUS
  <1>8. /\ IsEntry(p, s) /\ t = [content[p].table EXCEPT ![s] = ZeroEntry]
        /\ fat_table = FreeChain(diskFat, h) /\ Volume(O) /\ Prepared
    BY <1>1, <1>3, <1>4, <1>5, <1>6 DEF TreeInv, UnlinkInv
  <1>9. p \in StoreCluster /\ s \in UserSlot
    BY <1>8 DEF IsEntry
  <1>10. Puts(p, Table(t))
    BY <1>1, <1>2, <1>3, <1>5, PutsExcept DEF TypeInv
  <1>11. Volume(O \ X)' /\ X \subseteq O
    <2>1. content[p].table \in [Slot -> Entry]
      BY <1>8, <1>9, ContentKinds DEF TypeInv, IsEntry
    <2>2. /\ t[s] = ZeroEntry
          /\ \A i \in Slot : i # s => t[i] = content[p].table[i]
      BY <1>8, <1>9, <2>1, Slots
    <2>3. Volume(O) /\ IsEntry(p, s) /\ diskFat' = diskFat
      BY <1>1, <1>8
    <2>4. X = ChainSet(diskFat, EntryAt(p, s).cluster)
      BY <1>6, <1>7
    <2> QED
      BY <1>9, <1>10, <2>2, <2>3, <2>4, VolumeUnlink
  <1>12. h \in O /\ Allocated
    <2>1. h \in O
      BY <1>6, <1>8, <1>9 DEF Volume, Entries
    <2> QED
      BY <1>8, <2>1, BarrenOwnsNothing DEF Prepared
  <1>13. FreeInv(O \ X)'
    <2>1. \A c \in Cluster : fat_table[c] = IF c \in X THEN EMPTY ELSE diskFat[c]
      BY <1>7, <1>8 DEF FreeChain
    <2>2. (O \ X) \cup {0, 1, ROOT} \subseteq Cluster \ X
      BY <1>8, <1>11, OwnedFacts, Numbers
    <2>3. \A c \in (O \ X) \cup {0, 1, ROOT} : fat_table[c] = diskFat[c]
      BY <2>1, <2>2
    <2>4. Allocated'
      BY <1>1, <1>12 DEF Allocated
    <2> QED
      BY <1>1, <2>1, <2>3, <2>4 DEF FreeInv
  <1>14. Prepared'
    BY <1>1, <1>8 DEF Prepared, Allocated, Barren
  <1>15. FormatInv' /\ CallInv' /\ WriteInv(O \ X)' /\ UnlinkInv'
    BY <1>1, <1>2 DEF FormatInv, Formatting, CallInv, WriteInv, Writing, UnlinkInv
  <1>16. SlotsInv'
    BY <1>1, <1>2 DEF SlotsInv, Writing
  <1>17. O \ X \in SUBSET StoreCluster
    OBVIOUS
  <1> QED
    BY <1>11, <1>13, <1>14, <1>15, <1>16, <1>17 DEF VolumeInv, TreeInv

LEMMA StutterVolume ==
    ASSUME VolumeInv, UNCHANGED vars
    PROVE  VolumeInv'
  <1>1. PICK O \in SUBSET StoreCluster : TreeInv(O)
    BY DEF VolumeInv
  <1>2. Volume(O)' /\ Prepared'
    BY <1>1, VolumeSame DEF TreeInv, vars, disk
  <1>3. FormatInv' /\ CallInv' /\ SlotsInv'
    BY <1>1 DEF TreeInv, VolumeInv, FormatInv, Formatting, Barren, CallInv, SlotsInv,
                Writing, vars
  <1>4. UnlinkInv' /\ FreeInv(O)'
    BY <1>1 DEF TreeInv, UnlinkInv, IsEntry, EntryAt, FreeInv, Allocated, vars
  <1>5. WriteInv(O)'
    <2>1. Writing' = Writing
      BY DEF vars, Writing
    <2>2. Allocated' = Allocated /\ Aimed' = Aimed
      BY DEF vars, Allocated, Aimed
    <2>3. Taken(O)' = Taken(O)
      BY DEF vars, Taken, LastIndex
    <2>4. Written' = Written
      BY DEF vars, Written, Linked, Stored, ChildMade, NextOf, LastIndex
    <2> QED
      BY <1>1, <2>1, <2>2, <2>3, <2>4 DEF TreeInv, WriteInv
  <1> QED
    BY <1>2, <1>3, <1>4, <1>5 DEF VolumeInv, TreeInv

LEMMA NextVolume == OrdinaryCalls /\ Inv /\ [Next]_vars => VolumeInv'
  <1> SUFFICES ASSUME OrdinaryCalls, TypeInv, CoherentInv, VolumeInv, [Next]_vars
               PROVE  VolumeInv'
    BY DEF Inv
  <1>1. PICK O \in SUBSET StoreCluster : TreeInv(O)
    BY DEF VolumeInv
  <1>2. SlotsInv
    BY DEF VolumeInv
  <1>3. CASE Mount \/ Format \/ Invoke \/ Crash \/ FormatRoot
    BY <1>1, <1>2, <1>3, MountVolume, FormatVolume, InvokeVolume, CrashVolume,
       FormatRootVolume
  <1>4. CASE ReadRefuse
    BY <1>1, <1>4, AnswerVolume DEF ReadRefuse
  <1>5. CASE ReadFile
    BY <1>1, <1>2, <1>5, AnswerVolume, HangVolume DEF ReadFile, Serving
  <1>6. CASE ReadDirectory
    BY <1>1, <1>6, AnswerVolume DEF ReadDirectory
  <1>7. CASE WriteRefuse
    BY <1>1, <1>7, AnswerVolume DEF WriteRefuse
  <1>8. CASE DeleteRefuse
    BY <1>1, <1>8, AnswerVolume DEF DeleteRefuse
  <1>9. CASE WriteStart \/ WriteChild \/ LinkCluster \/ WriteBlock \/ Commit
    BY <1>1, <1>9, WriteStartVolume, WriteChildVolume, LinkVolume,
       WriteBlockVolume, CommitVolume
  <1>10. CASE FlushSector \/ FlushLast
    BY <1>1, <1>2, <1>10, FlushSectorVolume, FlushLastVolume
  <1>11. CASE Delete \/ Unlink
    BY <1>1, <1>2, <1>11, DeleteVolume, UnlinkVolume
  <1>12. CASE UNCHANGED vars
    BY <1>12, StutterVolume
  <1> QED
    BY <1>3, <1>4, <1>5, <1>6, <1>7, <1>8, <1>9, <1>10, <1>11, <1>12
       DEF Next, DriverStep

LEMMA InvInductive ==
    ASSUME OrdinaryCalls
    PROVE  (Init => Inv) /\ (Inv /\ [Next]_vars => Inv')
  <1>1. Init => CoherentInv
    BY DEF Init, CoherentInv, FatCoherent
  <1> QED
    BY <1>1, InitType, InitVolume, NextType, NextCoherent, NextVolume DEF Inv

-----------------------------------------------------------------------------
(* What the invariant says of the volume.                                    *)

\* Whatever the ordinary callers ask and whenever the power fails, nothing
\* reachable from the root leads to a free cluster or outside the store.
THEOREM NothingDangles ==
    ASSUME OrdinaryCalls
    PROVE  Spec => []NoDanglingPointer
  <1>1. Inv => NoDanglingPointer
    <2> SUFFICES ASSUME TypeOK, NEW O \in SUBSET StoreCluster, TreeInv(O), Usable,
                        NEW c \in Live(diskFat, content)
                 PROVE  /\ diskFat[c] \in StoreCluster \cup {END_OF_FILE}
                        /\ \A i \in UsedSlots(TableOf(content[c])) :
                              TableOf(content[c])[i].cluster \in StoreCluster
      BY DEF Inv, TypeInv, VolumeInv, NoDanglingPointer
    <2>1. Volume(O) /\ c \in O \cup {ROOT} /\ c \in StoreCluster
      BY LiveInside DEF TreeInv, Live
    <2>2. diskFat[c] \in StoreCluster \cup {END_OF_FILE}
      BY <2>1 DEF Usable, Volume, Chains
    <2>3. ASSUME NEW i \in UsedSlots(TableOf(content[c]))
          PROVE  TableOf(content[c])[i].cluster \in StoreCluster
      BY <2>1, <2>3, EntryOfTable
    <2> QED
      BY <2>2, <2>3
  <1> QED
    BY <1>1, InvInductive, PTL DEF Spec

\* ... no cluster is reached by two links, and none leads back to the root: what
\* hangs off the root is a tree.
THEOREM NothingCrosses ==
    ASSUME OrdinaryCalls
    PROVE  Spec => []NoCrossLink
  <1>1. Inv => NoCrossLink
    <2> SUFFICES ASSUME TypeOK, NEW O \in SUBSET StoreCluster, TreeInv(O), Usable
                 PROVE  /\ \A k, l \in Links : LinkTarget(k) = LinkTarget(l) => k = l
                        /\ \A l \in Links : LinkTarget(l) # ROOT
      BY DEF Inv, TypeInv, VolumeInv, NoCrossLink
    <2>1. Volume(O) /\ ROOT \notin O
      BY OwnedFacts DEF TreeInv
    <2>2. ASSUME NEW l \in Links
          PROVE  \/ /\ l[2] = 0 /\ l[1] \in O /\ diskFat[l[1]] = LinkTarget(l)
                    /\ LinkTarget(l) \in O
                 \/ /\ l[2] # 0 /\ l[2] \in UserSlot /\ l[1] \in StoreCluster
                    /\ IsEntry(l[1], l[2]) /\ LinkTarget(l) \in O
                    /\ EntryAt(l[1], l[2]).cluster = LinkTarget(l)
                    /\ \A d \in O : diskFat[d] # LinkTarget(l)
      <3>1. /\ l[1] \in Live(diskFat, content) /\ l[2] \in {0} \cup UserSlot
            /\ l[2] # 0 => l[2] \in UsedSlots(TableOf(content[l[1]]))
            /\ LinkTarget(l) \in StoreCluster
        BY DEF Links
      <3>2. l[1] \in O \cup {ROOT} /\ l[1] \in StoreCluster
        BY <2>1, <3>1, LiveInside DEF Live
      <3>3. CASE l[2] = 0
        <4>1. LinkTarget(l) = diskFat[l[1]]
          BY <3>3 DEF LinkTarget
        <4>2. l[1] # ROOT
          BY <3>1, <4>1, Numbers DEF Usable
        <4> QED
          BY <2>1, <3>1, <3>2, <3>3, <4>1, <4>2, Numbers DEF Volume, Chains
      <3>4. CASE l[2] # 0
        <4>1. LinkTarget(l) = TableOf(content[l[1]])[l[2]].cluster
          BY <3>4 DEF LinkTarget
        <4> QED
          BY <2>1, <3>1, <3>2, <3>4, <4>1, EntryOfTable
      <3> QED
        BY <3>3, <3>4
    <2>3. \A l \in Links : l = <<l[1], l[2]>>
      BY DEF Links
    <2>4. ASSUME NEW k \in Links, NEW l \in Links, LinkTarget(k) = LinkTarget(l)
          PROVE  k = l
      <3>1. k[1] = l[1] /\ k[2] = l[2]
        <4>1. CASE k[2] = 0 /\ l[2] = 0
          BY <2>1, <2>2, <2>4, <4>1 DEF Volume, Chains
        <4>2. CASE k[2] # 0 /\ l[2] # 0
          BY <2>1, <2>2, <2>4, <4>2 DEF Volume, SoleEntries
        <4>3. CASE ~(k[2] = 0 <=> l[2] = 0)
          BY <2>2, <2>4, <4>3
        <4> QED
          BY <4>1, <4>2, <4>3
      <3> QED
        BY <2>3, <3>1
    <2>5. \A l \in Links : LinkTarget(l) # ROOT
      BY <2>1, <2>2
    <2> QED
      BY <2>4, <2>5
  <1> QED
    BY <1>1, InvInductive, PTL DEF Spec

\* ... every reachable entry leads to a whole directory under its own name, or to
\* the first of all the blocks of one payload, in their order.
THEOREM EverythingWhole ==
    ASSUME OrdinaryCalls
    PROVE  Spec => []ContentIntact
  <1>1. Inv => ContentIntact
    <2> SUFFICES ASSUME TypeOK, NEW O \in SUBSET StoreCluster, TreeInv(O), Usable,
                        NEW c \in Live(diskFat, content)
                 PROVE  /\ content[c].kind = "block" => BlockIntact(c)
                        /\ content[c].kind = "table" =>
                              \A i \in UsedSlots(content[c].table) :
                                  EntryIntact(EntryAt(c, i))
      BY DEF Inv, TypeInv, VolumeInv, ContentIntact, EntryIntact, EntryAt
    <2>1. Volume(O) /\ c \in O \cup {ROOT} /\ c \in StoreCluster
      BY LiveInside DEF TreeInv, Live
    <2>2. content[c].kind = "block" => BlockIntact(c)
      BY <2>1 DEF Volume, Chains, Tables
    <2>3. ASSUME content[c].kind = "table", NEW i \in UsedSlots(content[c].table)
          PROVE  EntryIntact(EntryAt(c, i))
      <3>1. TableOf(content[c]) = content[c].table
        BY <2>3 DEF TableOf
      <3> QED
        BY <2>1, <2>3, <3>1, EntryOfTable
    <2> QED
      BY <2>2, <2>3
  <1> QED
    BY <1>1, InvInductive, PTL DEF Spec

\* ... no two entries of a reachable directory have one name.
THEOREM NamesUnique ==
    ASSUME OrdinaryCalls
    PROVE  Spec => []UniqueNames
  <1>1. Inv => UniqueNames
    BY DEF Inv, VolumeInv, TreeInv, Volume, Tables, GoodTable, UniqueNames, LiveDirs,
           Live
  <1> QED
    BY <1>1, InvInductive, PTL DEF Spec

\* Every step leaves all that is reachable alone, but for the table of the directory
\* the call is on.
LEMMA StepKeeps ==
    ASSUME OrdinaryCalls, Inv, Usable, [Next]_vars,
           NEW c \in Live(diskFat, content)
    PROVE  /\ diskFat'[c] = diskFat[c]
           /\ content'[c] = content[c] \/ (c = req.parent /\ (Commit \/ Unlink))
  <1> USE DEF Inv
  <1>1. PICK O \in SUBSET StoreCluster : TreeInv(O)
    BY DEF VolumeInv
  <1>2. /\ c \in O \cup {ROOT} /\ c \in StoreCluster /\ c \in Cluster
        /\ ~Barren /\ Volume(O) /\ Prepared
    BY <1>1, LiveInside, UsableAllocated, Numbers
       DEF TypeInv, TreeInv, Live, Usable, Barren
  <1>3. CASE FlushSector \/ FlushLast
    <2>1. pc = "flush" /\ diskFat' = FlushedFat /\ content' = content
      BY <1>3 DEF FlushSector, FlushLast
    <2>2. fat_table[c] = diskFat[c]
      <3>1. CASE req.op = "write"
        <4>1. Writing /\ pc # "commit"
          BY <2>1, <3>1 DEF Writing
        <4>2. j \in 0 .. LastIndex /\ Taken(O) /\ Written
          BY <1>1, <4>1, WritingFacts
        <4>3. slot_buf[j] # c
          BY <1>2, <4>2, TakenFacts
        <4> QED
          BY <1>2, <2>1, <4>2, <4>3 DEF Written
      <3>2. CASE req.op = "delete"
        BY <1>1, <1>2, <2>1, <3>2 DEF TreeInv, FreeInv
      <3>3. CASE req.op = "format"
        BY <1>1, <1>2, <2>1, <3>3 DEF TreeInv, FormatInv, Formatting
      <3> QED
        BY <2>1, <3>1, <3>2, <3>3 DEF TypeInv, Control
    <2> QED
      BY <1>2, <2>1, <2>2, FlushEntry
  <1>4. CASE FormatRoot
    BY <1>1, <1>2, <1>4 DEF FormatRoot, TreeInv, FormatInv, Formatting
  <1>5. CASE WriteChild
    <2>1. Writing /\ pc # "commit" /\ pc = "child"
      BY <1>5 DEF WriteChild, Writing
    <2>2. 0 \in 0 .. LastIndex /\ Taken(O)
      BY <1>1, <2>1, WritingFacts
    <2>3. slot_buf[0] # c
      BY <1>2, <2>2, TakenFacts
    <2> QED
      BY <1>2, <1>5, <2>3 DEF WriteChild, TypeInv, TypeOK
  <1>6. CASE WriteBlock
    <2>1. Writing /\ pc # "commit"
      BY <1>6 DEF WriteBlock, Writing
    <2>2. j \in 0 .. LastIndex /\ Taken(O)
      BY <1>1, <2>1, WritingFacts
    <2>3. slot_buf[j] # c
      BY <1>2, <2>2, TakenFacts
    <2> QED
      BY <1>2, <1>6, <2>3 DEF WriteBlock, TypeInv, TypeOK
  <1>7. CASE Commit \/ Unlink
    <2>1. PICK y : content' = [content EXCEPT ![req.parent] = y]
      BY <1>7 DEF Commit, Unlink
    <2> QED
      BY <1>2, <1>7, <2>1 DEF Commit, Unlink, TypeInv, TypeOK
  <1>8. CASE Mount \/ Format \/ Invoke \/ Crash \/ WriteStart \/ LinkCluster \/ Delete
    BY <1>8 DEF Mount, Format, Invoke, Crash, WriteStart, LinkCluster, Delete, Hang, disk
  <1>9. CASE ReadRefuse \/ ReadFile \/ ReadDirectory \/ WriteRefuse \/ DeleteRefuse
    BY <1>9 DEF ReadRefuse, ReadFile, ReadDirectory, WriteRefuse, DeleteRefuse, Answer,
                Hang, disk
  <1>10. CASE UNCHANGED vars
    BY <1>10 DEF vars
  <1> QED
    BY <1>3, <1>4, <1>5, <1>6, <1>7, <1>8, <1>9, <1>10 DEF Next, DriverStep

\* ... of all that is reachable, a step changes only the table of the directory the
\* running call is on.
THEOREM OwnDirectoryOnly ==
    ASSUME OrdinaryCalls
    PROVE  Spec => OnlyOwnDirectoryChanges
  <1>1. Inv /\ [Next]_vars =>
           [Usable => \A c \in Live(diskFat, content) :
               /\ diskFat'[c] = diskFat[c]
               /\ content'[c] = content[c] \/ c = req.parent]_disk
    BY StepKeeps
  <1> QED
    BY <1>1, InvInductive, PTL DEF Spec, OnlyOwnDirectoryChanges

-----------------------------------------------------------------------------
(* Which steps lose clusters.                                                *)

\* What is reachable stays reachable if the reachable clusters keep what they lead to.
LEMMA LiveGrows ==
    ASSUME NEW F, NEW C, NEW G, NEW D,
           \A c \in Live(F, C) :
              Successors(F, C, c) \cap StoreCluster \subseteq Successors(G, D, c)
    PROVE  Live(F, C) \subseteq Live(G, D)
  <1> DEFINE S == Live(F, C) \cap Live(G, D)
  <1>1. ClosedUnder(F, C, Live(F, C)) /\ ClosedUnder(G, D, Live(G, D))
        /\ Live(F, C) \in SUBSET StoreCluster
    BY LiveClosed
  <1>2. ClosedUnder(F, C, S)
    BY <1>1 DEF ClosedUnder
  <1>3. Live(F, C) \subseteq S
    BY <1>1, <1>2, LiveLeast
  <1> QED
    BY <1>3

\* Only a delete's first write makes anything unreachable.
LEMMA LiveKept ==
    ASSUME OrdinaryCalls, Inv, Usable, [Next]_vars, ~Unlink, ~Commit
    PROVE  Live(diskFat, content) \subseteq Live(diskFat', content')
  <1>1. \A c \in Live(diskFat, content) :
           diskFat'[c] = diskFat[c] /\ content'[c] = content[c]
    BY StepKeeps
  <1>2. \A c \in Live(diskFat, content) :
           Successors(diskFat', content', c) = Successors(diskFat, content, c)
    BY <1>1 DEF Successors
  <1> QED
    BY <1>2, LiveGrows

\* A step that is no commit, no unlinking and no power failure: a cluster that is
\* in use, and not the call's, after it was so before it.
LEMMA HeldBefore ==
    ASSUME OrdinaryCalls, Inv, Usable, [Next]_vars, ~Unlink, ~Commit, ~Crash,
           NEW c \in StoreCluster, diskFat'[c] # EMPTY, fat_table'[c] # EMPTY,
           \A k \in DOMAIN slot_buf' : slot_buf'[k] # c
    PROVE  diskFat[c] # EMPTY /\ c \notin OfCall
  <1> USE DEF Inv
  <1>1. PICK O \in SUBSET StoreCluster : TreeInv(O)
    BY DEF VolumeInv
  <1>2. /\ c \in Cluster /\ ~Barren /\ SlotsInv /\ (~signed => Barren)
        /\ \A k \in DOMAIN NoSlots : FALSE
    BY <1>1, Numbers DEF VolumeInv, TreeInv, Prepared, Usable, Barren, NoSlots
  <1>3. CASE Mount
    BY <1>3 DEF Mount, disk, OfCall
  <1>4. CASE Format \/ FormatRoot
    BY <1>1, <1>2, <1>4 DEF Format, FormatRoot, TreeInv, FormatInv, Formatting
  <1>5. CASE Invoke \/ WriteChild \/ WriteBlock \/ UNCHANGED vars
    BY <1>5 DEF Invoke, WriteChild, WriteBlock, vars, disk, locals, OfCall
  <1>6. ASSUME pc = "begin", UNCHANGED disk,
               fat_table'[c] # EMPTY => fat_table[c] # EMPTY
        PROVE  diskFat[c] # EMPTY /\ c \notin OfCall
    BY <1>2, <1>6 DEF SlotsInv, Writing, OfCall, disk
  <1>7. CASE ReadRefuse \/ ReadFile \/ ReadDirectory \/ WriteRefuse \/ DeleteRefuse
    <2>1. pc = "begin" /\ UNCHANGED disk /\ fat_table' = fat_table
      BY <1>7 DEF ReadRefuse, ReadFile, ReadDirectory, WriteRefuse, DeleteRefuse,
                  Serving, Answer, Hang
    <2> QED
      BY <1>6, <2>1
  <1>8. CASE WriteStart
    <2>1. pc = "begin" /\ UNCHANGED disk /\ fat_table' = fat_table
      BY <1>8 DEF WriteStart, Serving
    <2> QED
      BY <1>6, <2>1
  <1>9. CASE Delete
    <2>1. pc = "begin" /\ UNCHANGED disk
      BY <1>9 DEF Delete, Serving, Hang
    <2>2. fat_table' = fat_table \/ \E h : fat_table' = FreeChain(fat_table, h)
      BY <1>9 DEF Delete, Hang
    <2>3. fat_table'[c] # EMPTY => fat_table[c] # EMPTY
      BY <1>2, <2>2 DEF FreeChain
    <2> QED
      BY <1>6, <2>1, <2>3
  <1>10. CASE LinkCluster
    <2>1. Writing /\ pc # "commit" /\ pc = "link"
      BY <1>10 DEF LinkCluster, Writing
    <2>2. j \in 0 .. LastIndex /\ slot_buf \in [0 .. LastIndex -> Cluster]
      BY <1>1, <2>1, WritingFacts
    <2>3. slot_buf' = slot_buf /\ diskFat' = diskFat
          /\ fat_table' = [fat_table EXCEPT ![slot_buf[j]] = NextOf(j)]
      BY <1>10 DEF LinkCluster, disk, NextOf, LastIndex
    <2>4. c # slot_buf[j]
      BY <2>2, <2>3
    <2>5. fat_table[c] # EMPTY
      BY <1>2, <2>3, <2>4 DEF TypeInv, TypeOK, Fat
    <2> QED
      BY <2>3, <2>5 DEF OfCall
  <1>11. CASE FlushSector \/ FlushLast
    <2>1. pc = "flush" /\ diskFat' = FlushedFat /\ fat_table' = fat_table
      BY <1>11 DEF FlushSector, FlushLast
    <2>2. CASE req.op = "write"
      <3>1. Writing /\ pc # "commit"
        BY <2>1, <2>2 DEF Writing
      <3>2. j \in 0 .. LastIndex /\ slot_buf \in [0 .. LastIndex -> Cluster] /\ Written
        BY <1>1, <3>1, WritingFacts
      <3>3. slot_buf' = slot_buf
        BY <1>11, <2>2 DEF FlushSector, FlushLast, locals
      <3>4. c # slot_buf[j]
        BY <3>2, <3>3
      <3>5. fat_table[c] = diskFat[c]
        BY <1>2, <2>1, <3>2, <3>4 DEF Written
      <3> QED
        BY <1>2, <2>1, <3>3, <3>5, FlushEntry DEF OfCall
    <2>3. CASE req.op = "delete"
      <3>1. slot_buf = NoSlots
        BY <1>2, <2>1, <2>3 DEF SlotsInv, Writing
      <3>2. fat_table[c] \in {EMPTY, diskFat[c]}
        BY <1>1, <1>2, <2>1, <2>3 DEF TreeInv, FreeInv
      <3> QED
        BY <1>2, <2>1, <3>1, <3>2 DEF OfCall
    <2>4. CASE req.op = "format"
      BY <1>1, <1>2, <2>1, <2>4 DEF TreeInv, FormatInv, Formatting
    <2> QED
      BY <2>1, <2>2, <2>3, <2>4 DEF TypeInv, Control
  <1> QED
    BY <1>3, <1>4, <1>5, <1>7, <1>8, <1>9, <1>10, <1>11 DEF Next, DriverStep

\* A commit in a reachable directory keeps all that is reachable, and makes every
\* cluster the write has taken so: the entry leads to the first, each to the next.
LEMMA CommitReaches ==
    ASSUME OrdinaryCalls, Inv, Usable, Commit,
           req.parent \in Live(diskFat, content)
    PROVE  /\ Live(diskFat, content) \subseteq Live(diskFat', content')
           /\ \A k \in DOMAIN slot_buf : slot_buf[k] \in Live(diskFat', content')
  <1> USE DEF Inv
  <1>1. PICK O \in SUBSET StoreCluster : TreeInv(O)
    BY DEF VolumeInv
  <1>2. pc = "commit" /\ Writing /\ diskFat' = diskFat
    BY DEF Commit, Writing
  <1>3. /\ req.parent \in StoreCluster /\ LastIndex \in Nat
        /\ req.payload \in Payload \cup {FOLDER}
        /\ slot_buf \in [0 .. LastIndex -> Cluster]
        /\ Aimed /\ Taken(O) /\ Written
    BY <1>1, <1>2, WritingFacts
  <1>4. PICK e, t : /\ e.used /\ e.cluster = slot_buf[0]
                    /\ t = [dir_table EXCEPT ![slot] = e]
                    /\ content' = [content EXCEPT ![req.parent] = Table(t)]
    <2>1. Required(req.payload) # 0
      BY <1>3, CountKept
    <2>2. EntryHeads = {slot_buf[0]}
      BY <2>1 DEF EntryHeads
    <2>3. PICK h \in EntryHeads : content' = [content EXCEPT ![req.parent] = Table(
              [dir_table EXCEPT ![slot] =
                  [name |-> req.name, subdir |-> req.payload = FOLDER,
                   used |-> TRUE, cluster |-> h,
                   size |-> IF req.payload = FOLDER THEN 0
                            ELSE ClustersOf[req.payload]]])]
      BY DEF Commit
    <2>4. PICK e : e = [name |-> req.name, subdir |-> req.payload = FOLDER,
                   used |-> TRUE, cluster |-> h,
                   size |-> IF req.payload = FOLDER THEN 0
                            ELSE ClustersOf[req.payload]]
      OBVIOUS
    <2>5. e.used = TRUE /\ e.cluster = slot_buf[0]
      BY <2>2, <2>3, <2>4
    <2> QED
      BY <2>3, <2>4, <2>5
  <1>5. Puts(req.parent, Table(t))
    BY <1>3, <1>4, PutsExcept DEF TypeInv
  <1>6. /\ slot \in UserSlot /\ ~dir_table[slot].used
        /\ dir_table = TableOf(content[req.parent]) /\ dir_table \in [Slot -> Entry]
    BY <1>3, ContentKinds DEF Aimed, FirstUnused, TypeInv
  <1>7. t[slot] = e /\ \A i \in Slot : i # slot => t[i] = dir_table[i]
    BY <1>4, <1>6, Slots
  <1>8. TableOf(content'[req.parent]) = t
    BY <1>5, TableFields DEF Puts
  <1>9. slot \in UsedSlots(t) /\ \A i \in UsedSlots(dir_table) :
           i \in UsedSlots(t) /\ t[i] = dir_table[i]
    BY <1>4, <1>6, <1>7, Slots DEF UsedSlots
  <1>10. ASSUME NEW c \in Live(diskFat, content)
         PROVE  Successors(diskFat, content, c) \subseteq Successors(diskFat', content', c)
    <2>1. CASE c = req.parent
      BY <1>2, <1>6, <1>8, <1>9, <2>1 DEF Successors
    <2>2. CASE c # req.parent
      <3>1. content'[c] = content[c]
        BY <1>5, <1>10, <2>2 DEF Puts, Live
      <3> QED
        BY <1>2, <3>1 DEF Successors
    <2> QED
      BY <2>1, <2>2
  <1>11. Live(diskFat, content) \subseteq Live(diskFat', content')
    BY <1>10, LiveGrows
  <1> DEFINE L == Live(diskFat', content')
  <1>12. ClosedUnder(diskFat', content', L)
    BY LiveClosed
  <1>13. slot_buf[0] \in L
    <2>1. slot_buf[0] \in Successors(diskFat', content', req.parent)
      <3>1. /\ slot \in UsedSlots(TableOf(content'[req.parent]))
            /\ TableOf(content'[req.parent])[slot].cluster = slot_buf[0]
        BY <1>4, <1>7, <1>8, <1>9
      <3> QED
        BY <3>1 DEF Successors
    <2>2. slot_buf[0] \in StoreCluster
      BY <1>3, TakenFacts
    <2> QED
      BY <1>11, <1>12, <2>1, <2>2 DEF ClosedUnder
  <1>14. ASSUME NEW k \in Nat, k < LastIndex, slot_buf[k] \in L
         PROVE  slot_buf[k + 1] \in L
    <2>1. k \in 0 .. LastIndex /\ k + 1 \in 0 .. LastIndex /\ k \in 0 .. LastIndex - 1
      BY <1>3, <1>14
    <2>2. diskFat[slot_buf[k]] = slot_buf[k + 1]
      BY <1>2, <1>3, <1>14, <2>1 DEF Written, Linked, NextOf
    <2>3. slot_buf[k + 1] \in StoreCluster
      BY <1>3, <2>1, TakenFacts
    <2>4. slot_buf[k + 1] \in Successors(diskFat', content', slot_buf[k])
      BY <1>2, <2>2 DEF Successors
    <2> QED
      BY <1>12, <1>14, <2>3, <2>4 DEF ClosedUnder
  <1> HIDE DEF L
  <1>15. \A k \in 0 .. LastIndex : slot_buf[k] \in L
    <2> DEFINE T == {k \in 0 .. LastIndex : slot_buf[k] \notin L}
    <2> SUFFICES ASSUME T # {} PROVE FALSE
      OBVIOUS
    <2>1. T \in SUBSET Nat
      BY <1>3
    <2>2. PICK k \in T : \A m \in T : k <= m
      BY <2>1, LeastNumber
    <2>3. k \in 0 .. LastIndex /\ k # 0 /\ slot_buf[k] \notin L
      BY <1>13, <2>2
    <2>4. k - 1 \in Nat /\ k - 1 < LastIndex /\ k - 1 \in 0 .. LastIndex
      BY <1>3, <2>3
    <2>5. slot_buf[k - 1] \in L
      BY <2>2, <2>3, <2>4
    <2>6. slot_buf[(k - 1) + 1] \in L
      BY <1>14, <2>4, <2>5
    <2>7. (k - 1) + 1 = k
      BY <2>3
    <2> QED
      BY <2>3, <2>6, <2>7
  <1> QED
    BY <1>3, <1>11, <1>15 DEF L

\* Taking a file out of a reachable directory makes nothing unreachable but the
\* clusters of its chain, which are all data.
LEMMA UnlinkKeeps ==
    ASSUME OrdinaryCalls, Inv, Usable, Unlink, ~Unhooks,
           NEW c \in Live(diskFat, content), fat_table[c] # EMPTY
    PROVE  c \in Live(diskFat', content')
  <1> USE DEF Inv
  <1>1. PICK O \in SUBSET StoreCluster : TreeInv(O)
    BY DEF VolumeInv
  <1> DEFINE h == EntryAt(req.parent, slot).cluster
             X == ChainSet(diskFat, h)
             B == {x \in X : content[x].kind = "block"}
             M == Live(diskFat', content')
  <1>2. /\ pc = "unlink" /\ IsEntry(req.parent, slot) /\ Volume(O) /\ diskFat' = diskFat
        /\ req.parent \in StoreCluster /\ slot \in UserSlot
        /\ content[req.parent].kind = "table"
        /\ dir_table = [content[req.parent].table EXCEPT ![slot] = ZeroEntry]
        /\ fat_table = FreeChain(diskFat, h)
    BY <1>1 DEF Unlink, TreeInv, UnlinkInv, IsEntry
  <1>3. Puts(req.parent, Table(dir_table))
    BY <1>2, PutsExcept DEF Unlink, TypeInv
  <1>4. TableOf(content[req.parent]) = content[req.parent].table
        /\ content[req.parent].table \in [Slot -> Entry]
    BY <1>2, ContentKinds DEF TypeInv
  <1>5. ~EntryAt(req.parent, slot).subdir
    BY <1>2, <1>4 DEF Unhooks, EntryAt
  <1>6. h \in O /\ content[h].kind = "block" /\ O \subseteq StoreCluster /\ h \in Cluster
    BY <1>2, <1>5, OwnedFacts DEF Volume, Entries, EntryIntact, FileIntact
  <1>7. X \subseteq O /\ h \in X
        /\ \A x \in X : diskFat[x] \in Cluster => diskFat[x] \in X
    BY <1>2, <1>6, ChainOwned, ChainFacts
  <1>8. ASSUME NEW x \in B, diskFat[x] \in Cluster
        PROVE  diskFat[x] \in B
    <2>1. BlockIntact(x) /\ diskFat[x] \in X /\ x \in O
      BY <1>2, <1>7, <1>8 DEF Volume, Chains
    <2>2. diskFat[x] # END_OF_FILE
      BY <1>8, Numbers
    <2>3. content[diskFat[x]].kind = "block"
      BY <2>1, <2>2, BlockFields DEF BlockIntact
    <2> QED
      BY <2>1, <2>3
  <1>9. X \subseteq B
    <2>1. B \in SUBSET Cluster /\ h \in B
      BY <1>6, <1>7, Numbers
    <2>2. \A x \in B : diskFat[x] \in Cluster => diskFat[x] \in B
      BY <1>8
    <2> HIDE DEF B, h
    <2> QED
      BY <1>6, <2>1, <2>2, ChainLeast
  <1>10. c \notin X
    <2>1. c \in Cluster
      BY Numbers DEF Live
    <2> QED
      BY <1>2, <2>1 DEF FreeChain
  <1>11. ClosedUnder(diskFat', content', M) /\ M \in SUBSET StoreCluster
    BY LiveClosed
  <1> HIDE DEF h, X, B, M
  <1>12. ASSUME NEW x \in X
         PROVE  Successors(diskFat, content, x) \cap StoreCluster \subseteq X
    <2>1. x \in StoreCluster /\ content[x].kind = "block"
      BY <1>6, <1>7, <1>9, <1>12 DEF B
    <2>2. UsedSlots(TableOf(content[x])) = {}
      BY <2>1, ContentKinds, BlankGood, Slots DEF UsedSlots, TypeInv
    <2> QED
      BY <1>7, <1>12, <2>2, Numbers DEF Successors
  <1>13. ASSUME NEW x \in M
         PROVE  Successors(diskFat, content, x) \cap StoreCluster \subseteq M \cup X
    <2>1. Successors(diskFat', content', x) \cap StoreCluster \subseteq M
      BY <1>11, <1>13 DEF ClosedUnder
    <2>2. CASE x # req.parent
      <3>1. content'[x] = content[x]
        BY <1>3, <1>11, <2>2 DEF Puts
      <3> QED
        BY <1>2, <2>1, <3>1 DEF Successors
    <2>3. CASE x = req.parent
      <3>1. TableOf(content'[x]) = dir_table
        BY <1>3, <2>3, TableFields DEF Puts
      <3>2. /\ TableOf(content[x]) = content[req.parent].table
            /\ content[req.parent].table[slot].cluster = h
        BY <1>4, <2>3 DEF h, EntryAt
      <3>3. \A i \in UsedSlots(content[req.parent].table) : i # slot =>
               i \in UsedSlots(dir_table) /\ dir_table[i] = content[req.parent].table[i]
        BY <1>2, <1>4, Slots DEF UsedSlots
      <3> QED
        BY <1>2, <1>7, <2>1, <3>1, <3>2, <3>3 DEF Successors
    <2> QED
      BY <2>2, <2>3
  <1>14. ClosedUnder(diskFat, content, M \cup X)
    BY <1>11, <1>12, <1>13 DEF ClosedUnder
  <1>15. M \cup X \in SUBSET StoreCluster
    BY <1>6, <1>7, <1>11
  <1>16. c \in M \cup X
    BY <1>14, <1>15, LiveLeast
  <1> QED
    BY <1>10, <1>16 DEF M

\* Of the steps that stay in the tree only a power failure loses clusters, those of
\* the call it cuts off.
LEMMA StepLoses ==
    ASSUME OrdinaryCalls, Inv, [Next]_vars, Usable, ~Unhooks
    PROVE  Lost' \subseteq Lost \cup {c \in OfCall : pc' = "off"}
  <1> SUFFICES ASSUME NEW c \in StoreCluster, diskFat'[c] # EMPTY, c \notin OfCall',
                      c \notin Live(diskFat', content')
               PROVE  c \in Lost \/ (c \in OfCall /\ pc' = "off")
    BY DEF Lost
  <1>1. CASE Crash
    BY <1>1 DEF Crash, disk, Lost
  <1>2. ASSUME ~Crash, pc' # "off"
        PROVE  /\ fat_table'[c] # EMPTY
               /\ \A k \in DOMAIN slot_buf' : slot_buf'[k] # c
    BY <1>2 DEF OfCall
  <1>3. CASE ~Crash /\ ~Unlink /\ ~Commit /\ pc' # "off"
    <2>1. diskFat[c] # EMPTY /\ c \notin OfCall
      BY <1>2, <1>3, HeldBefore
    <2>2. c \notin Live(diskFat, content)
      BY <1>3, LiveKept
    <2> QED
      BY <2>1, <2>2 DEF Lost
  <1>4. CASE Commit
    <2>1. diskFat' = diskFat /\ fat_table' = fat_table /\ pc' = "idle" /\ ~Crash
      BY <1>4 DEF Commit, Return, Crash
    <2>2. req.parent \in Live(diskFat, content)
      BY DEF Unhooks
    <2>3. c \notin Live(diskFat, content) /\ \A k \in DOMAIN slot_buf : slot_buf[k] # c
      BY <1>4, <2>2, CommitReaches
    <2>4. c \notin OfCall
      BY <1>2, <2>1, <2>3 DEF OfCall
    <2> QED
      BY <2>1, <2>3, <2>4 DEF Lost
  <1>5. CASE Unlink
    <2>1. /\ diskFat' = diskFat /\ fat_table' = fat_table /\ pc' = "flush" /\ ~Crash
          /\ slot_buf' = slot_buf
      BY <1>5 DEF Unlink, Crash
    <2>2. fat_table[c] # EMPTY /\ c \notin OfCall
      BY <1>2, <2>1 DEF OfCall
    <2>3. c \notin Live(diskFat, content)
      BY <1>5, <2>2, UnlinkKeeps
    <2> QED
      BY <2>1, <2>2, <2>3 DEF Lost
  <1>6. pc' = "off" => Crash \/ UNCHANGED vars
    BY DEF Next, DriverStep, Mount, Format, Invoke, FormatRoot, ReadRefuse, ReadFile,
           ReadDirectory, WriteRefuse, WriteStart, WriteChild, LinkCluster,
           FlushSector, FlushLast, WriteBlock, Commit, DeleteRefuse, Delete, Unlink,
           Answer, Return, Hang
  <1>7. CASE UNCHANGED vars
    BY <1>7 DEF vars, OfCall, Lost
  <1> QED
    BY <1>1, <1>3, <1>4, <1>5, <1>6, <1>7

\* Only a power failure, or a delete that takes out a directory, loses clusters.
THEOREM CrashAloneLoses ==
    ASSUME OrdinaryCalls
    PROVE  Spec => OnlyCrashLosesClusters
  <1>1. Inv /\ [Next]_vars =>
           [(Usable /\ ~Unhooks) => Lost' \subseteq Lost \cup {c \in OfCall : pc' = "off"}]_vars
    BY StepLoses
  <1> QED
    BY <1>1, InvInductive, PTL DEF Spec, OnlyCrashLosesClusters
=============================================================================
