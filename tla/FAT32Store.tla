------------------------------ MODULE FAT32Store ------------------------------
(****************************************************************************)
(* FAT32 implements FileStore.  The store is what the disk's root directory  *)
(* leads to, read off the disk alone: a file counts by the data in its whole *)
(* chain.  A write takes effect when the parent's table goes to disk, a      *)
(* delete likewise; the FAT sectors around them are steps of no effect.      *)
(****************************************************************************)
EXTENDS FAT32

\* The payload in a chain, given its contents in order; Payload's elements are
\* told apart from a chain that is short, long or mixed (Torn).
Torn == "torn"
PayloadOf(blocks) ==
    IF \E p \in Payload :
          /\ DOMAIN blocks = 0 .. ClustersOf[p] - 1
          /\ \A k \in DOMAIN blocks : blocks[k] = Block(p, k)
    THEN blocks[0].payload ELSE Torn

FileAt(h) ==
    LET w == Walk(diskFat, h) IN PayloadOf([k \in DOMAIN w |-> content[w[k]]])

SlotNamed(t, n) == CHOOSE i \in UsedSlots(t) : t[i].name = n
NamesIn(t) == {t[i].name : i \in UsedSlots(t)}

absStore ==
    [d \in LiveDirs |->
        LET t == content[d].table IN
        [label |-> t[0].name,
         nodes |-> [n \in NamesIn(t) |->
            LET e == t[SlotNamed(t, n)] IN
            IF e.subdir THEN [kind |-> "dir", id |-> e.cluster]
            ELSE [kind |-> "file", payload |-> FileAt(e.cluster)]]]]

absCall ==
    IF pc = "off" THEN [op |-> "off"]
    ELSE CASE req.op \in {"none", "format"} -> [op |-> "none"]
           [] req.op = "read" -> [op |-> "read", parent |-> req.parent,
                                  name |-> req.name, capacity |-> req.capacity]
           [] req.op = "write" -> [op |-> "write", parent |-> req.parent,
                                   name |-> req.name, payload |-> req.payload]
           [] OTHER -> [op |-> req.op, parent |-> req.parent, name |-> req.name]

absDone == req.op = "delete" /\ pc = "flush"

\* What is in the caller's buffer: nothing, a listing or a file's data.
absData ==
    IF reply.data = <<>> THEN <<>>
    ELSE IF reply.data[0].kind = "block"
         THEN [file |-> PayloadOf(reply.data)]
         ELSE LET t == reply.data[0].table
              IN  [dir |-> [n \in NamesIn(t) |->
                      LET e == t[SlotNamed(t, n)] IN
                      IF e.subdir THEN [kind |-> "dir", id |-> e.cluster]
                      ELSE [kind |-> "file", size |-> e.size]]]

FS == INSTANCE FileStore WITH
        DirId <- StoreCluster, RootId <- ROOT, RootLabel <- ROOT_NAME,
        SizeOf <- ClustersOf,
        store <- absStore, call <- absCall, done <- absDone,
        answer <- [code |-> reply.code, data |-> absData]

\* Every behaviour of the driver, crashes included, is one of the file store:
\* each call answers from and changes the tree at once, or, cut off by a crash,
\* has had its whole effect or none, and a crash changes nothing else.
ImplementsFileStore == FS!Spec
=============================================================================
