------------------------------ MODULE FileStore ------------------------------
(****************************************************************************)
(* What the file-system driver promises its callers (header/cpu/fat32.h,     *)
(* "CRUD Operation"), with the behaviour src/fat32.c gives it: a tree of     *)
(* named directories and files that every call changes at once or not at     *)
(* all, and that a power failure leaves as it is.  There are no clusters     *)
(* here, no FAT and no slots.                                                *)
(*                                                                           *)
(* A directory is known by an identifier (callers get it from a listing and  *)
(* pass it as parent_cluster_number).  Space is not modelled: a create may   *)
(* be refused with -1 at any time.                                           *)
(****************************************************************************)
EXTENDS Integers

CONSTANTS
    DirId,      \* directory identifiers
    RootId,     \* the root directory's
    Name,       \* names callers pass
    RootLabel,  \* the root directory's own label
    Payload,    \* contents of a file
    FOLDER,     \* the empty payload: make a directory
    SizeOf,     \* size of a payload
    Capacities  \* read buffer sizes

VARIABLES
    store,  \* directory id -> its label and its nodes by name
    call,   \* the call being served, None or Off
    done,   \* the call has had its effect and has yet to return
    answer  \* return code and data of the last call

vars == <<store, call, done, answer>>

None == [op |-> "none"]
Off == [op |-> "off"]
NoAnswer == [code |-> 0, data |-> <<>>]

Call == [op : {"read"}, parent : DirId, name : Name, capacity : Capacities]
        \cup [op : {"read_directory"}, parent : DirId, name : Name \cup {RootLabel}]
        \cup [op : {"write"}, parent : DirId, name : Name,
              payload : Payload \cup {FOLDER}]
        \cup [op : {"delete"}, parent : DirId, name : Name]

File(x) == [kind |-> "file", payload |-> x]
Dir(d) == [kind |-> "dir", id |-> d]

EmptyDir(n) == [label |-> n, nodes |-> [x \in {} |-> None]]

\* The directories of s that are reachable from the root.
Reachable(s) ==
    LET Closed(S) ==
            /\ RootId \in S
            /\ \A x \in S : \A n \in DOMAIN s[x].nodes :
                  s[x].nodes[n].kind = "dir" => s[x].nodes[n].id \in S
        closed == {S \in SUBSET DOMAIN s : Closed(S)}
    IN  {d \in DOMAIN s : \A S \in closed : d \in S}

\* What a listing shows: a directory's id, a file's size.
Listing(d) ==
    [n \in DOMAIN store[d].nodes |->
        LET x == store[d].nodes[n] IN
        IF x.kind = "dir" THEN x ELSE [kind |-> "file", size |-> SizeOf[x.payload]]]

Nodes == store[call.parent].nodes
Known == call.name \in DOMAIN Nodes

Init ==
    /\ store = [d \in {RootId} |-> EmptyDir(RootLabel)]
    /\ call = Off /\ done = FALSE /\ answer = NoAnswer

PowerOn == call = Off /\ call' = None /\ UNCHANGED <<store, done, answer>>

Crash ==
    /\ call' = Off /\ done' = FALSE /\ answer' = NoAnswer
    /\ UNCHANGED store

Invoke ==
    /\ call = None
    /\ call' \in Call /\ call'.parent \in DOMAIN store
    /\ answer' = NoAnswer /\ UNCHANGED <<store, done>>

Return(code, data) ==
    /\ call' = None /\ answer' = [code |-> code, data |-> data]
    /\ done' = FALSE

Read ==
    /\ call.op = "read"
    /\ \/ ~Known /\ Return(2, <<>>)
       \/ Known /\ Nodes[call.name].kind = "dir" /\ Return(1, <<>>)
       \/ /\ Known /\ Nodes[call.name].kind = "file"
          /\ LET x == Nodes[call.name].payload
             IN  IF call.capacity < SizeOf[x] THEN Return(-1, <<>>)
                 ELSE Return(0, [file |-> x])
    /\ UNCHANGED store

\* A directory can be listed from its parent, and from itself by its label.
ReadDirectory ==
    /\ call.op = "read_directory"
    /\ \/ /\ call.name = store[call.parent].label
          /\ Return(0, [dir |-> Listing(call.parent)])
       \/ /\ call.name # store[call.parent].label
          /\ \/ ~Known /\ Return(2, <<>>)
             \/ Known /\ Nodes[call.name].kind = "file" /\ Return(1, <<>>)
             \/ /\ Known /\ Nodes[call.name].kind = "dir"
                /\ Return(0, [dir |-> Listing(Nodes[call.name].id)])
    /\ UNCHANGED store

CreateRefuse ==
    /\ call.op = "write"
    /\ IF Known THEN Return(1, <<>>) ELSE Return(-1, <<>>)
    /\ UNCHANGED store

\* s with node x under name n in directory d.
With(s, d, n, x) ==
    [s EXCEPT ![d].nodes =
        [m \in DOMAIN s[d].nodes \cup {n} |-> IF m = n THEN x ELSE s[d].nodes[m]]]

Create ==
    /\ call.op = "write" /\ ~Known
    /\ \/ /\ call.payload # FOLDER
          /\ store' = With(store, call.parent, call.name, File(call.payload))
       \/ /\ call.payload = FOLDER
          /\ \E d \in DirId \ DOMAIN store :
                LET s == With(store, call.parent, call.name, Dir(d))
                IN  store' = [x \in DOMAIN s \cup {d} |->
                                 IF x = d THEN EmptyDir(call.name) ELSE s[x]]
    /\ Return(0, <<>>)

\* Removing a directory removes all that is below it.
Remove ==
    /\ call.op = "delete" /\ Known /\ ~done
    /\ LET s == [store EXCEPT ![call.parent].nodes =
                    [m \in DOMAIN Nodes \ {call.name} |-> Nodes[m]]]
       IN  store' = [d \in Reachable(s) |-> s[d]]
    /\ done' = TRUE /\ UNCHANGED <<call, answer>>

RemoveReturn ==
    /\ call.op = "delete"
    /\ \/ done /\ Return(0, <<>>)
       \/ ~done /\ ~Known /\ Return(1, <<>>)
    /\ UNCHANGED store

Next ==
    \/ PowerOn \/ Crash \/ Invoke \/ Read \/ ReadDirectory
    \/ CreateRefuse \/ Create \/ Remove \/ RemoveReturn

Spec == Init /\ [][Next]_vars
=============================================================================
