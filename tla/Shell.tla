-------------------------------- MODULE Shell --------------------------------
(****************************************************************************)
(* The file commands of the user shell (src/user-shell.c) as what they are:  *)
(* sequences of system calls on the file store, with the shell's own idea of *)
(* where it is kept in current_directory and directory_stack.  The store is  *)
(* FileStore, which the driver implements (FAT32Store); the power may fail   *)
(* between any two steps, and while it is off the inserter runs on the disk  *)
(* (src/external-inserter.c): it deletes the shell and puts something there. *)
(*                                                                           *)
(* Left out: the words of a line (CommandLine), and contents longer than the *)
(* one cluster that the shell's buffers hold.                                *)
(*                                                                           *)
(* Assumed of who types: no directory gets the name of the one it is made    *)
(* in, no command names a directory from inside it, and directories are not  *)
(* nested deeper than the stack (NestingBound).                              *)
(****************************************************************************)
EXTENDS Integers, Sequences, FiniteSets

CONSTANTS
    DirId, RootId, Name, RootLabel, Payload, FOLDER, SizeOf, Capacities,
                    \* see FileStore
    SHELL,          \* the name "shell"
    BUFFER_SIZE,    \* the size mv, cp and cat claim for their buffer; 0x100000
    STACK_SIZE      \* 100

Garbage == "garbage"     \* what is in a local before it is assigned

ASSUME ShellAssumption ==
    /\ RootId \in DirId /\ RootLabel \notin Name /\ SHELL \in Name
    /\ FOLDER \notin Payload /\ Garbage \notin Payload
    /\ \A p \in Payload : SizeOf[p] = 1
    /\ {0, 1, BUFFER_SIZE} \subseteq Capacities /\ BUFFER_SIZE > 1
    /\ STACK_SIZE \in Nat

ASSUME NestingBound == IsFiniteSet(DirId) /\ Cardinality(DirId) <= STACK_SIZE + 1

VARIABLES
    store, call, done, answer, \* the file store and the call being served
    current_directory,
    directory_stack,           \* oldest first; its length is top + 1
    job,                       \* the command being run
    step,                      \* the system call of it that was made last
    filesize, buf,             \* locals of mv and cp
    ok,                        \* history: the calls of job have done their part
    walk,                      \* find: its activations, the innermost last
    found                      \* find: the name was printed

place == <<current_directory, directory_stack>>
copying == <<filesize, buf, ok>>
finding == <<walk, found>>
locals == <<copying, finding>>
fsvars == <<store, call, done, answer>>
vars == <<fsvars, place, job, step, locals>>

FS == INSTANCE FileStore

DirectoryState == [name : Name \cup {RootLabel}, cluster_number : DirId,
                   parent_cluster_number : DirId]
RootDirectory == [name |-> RootLabel, cluster_number |-> RootId,
                  parent_cluster_number |-> RootId]
Here == current_directory.cluster_number
Above == current_directory.parent_cluster_number

Job == [op : {"cd", "ls", "cat", "mkdir", "rm", "mv", "cp", "find"},
        source : Name, destination : Name]
NoJob == [op |-> "none"]

FreshShell ==
    /\ current_directory' = RootDirectory /\ directory_stack' = <<>>
    /\ job' = NoJob /\ step' = "prompt"
    /\ filesize' = 0 /\ buf' = Garbage /\ ok' = FALSE
    /\ walk' = <<>> /\ found' = FALSE

Init ==
    /\ FS!Init
    /\ current_directory = RootDirectory /\ directory_stack = <<>>
    /\ job = NoJob /\ step = "prompt"
    /\ filesize = 0 /\ buf = Garbage /\ ok = FALSE
    /\ walk = <<>> /\ found = FALSE

-----------------------------------------------------------------------------
(* The machine around the shell *)

PowerOn == FS!PowerOn /\ FreshShell
Crash == call # FS!Off /\ FS!Crash /\ FreshShell

\* s after a delete of n in directory d, which may not be there.
Without(s, d, n) ==
    IF n \notin DOMAIN s[d].nodes THEN s
    ELSE LET t == [s EXCEPT ![d].nodes =
                      [m \in DOMAIN s[d].nodes \ {n} |-> s[d].nodes[m]]]
         IN  [e \in FS!Reachable(t) |-> t[e]]

\* s with the new directory c under name n in directory d.
WithDir(s, d, n, c) ==
    LET t == FS!With(s, d, n, FS!Dir(c))
    IN  [e \in DOMAIN t \cup {c} |-> IF e = c THEN FS!EmptyDir(n) ELSE t[e]]

\* A run of the inserter, on the image of a machine that is off.  Whatever it is
\* there for, it deletes the shell first.  A file it does not find, or an empty
\* one, makes a folder; the write may be refused: name taken, parent gone, no room.
Insert ==
    /\ call = FS!Off
    /\ LET s == Without(store, RootId, SHELL) IN
       \/ store' = s
       \/ \E d \in DOMAIN s : \E n \in Name \ (DOMAIN s[d].nodes \cup {s[d].label}) :
             \/ \E p \in Payload : store' = FS!With(s, d, n, FS!File(p))
             \/ \E c \in DirId \ DOMAIN s : store' = WithDir(s, d, n, c)
    /\ UNCHANGED <<call, done, answer, place, job, step, locals>>

\* The kernel serves a call.
Serve ==
    /\ \/ FS!Read \/ FS!ReadDirectory \/ FS!CreateRefuse \/ FS!Create
       \/ FS!Remove \/ FS!RemoveReturn
    /\ UNCHANGED <<place, job, step, locals>>

-----------------------------------------------------------------------------
(* System calls *)

Ask(c) == call' = c /\ FS!Invoke
ReadDir(parent, n) == Ask([op |-> "read_directory", parent |-> parent, name |-> n])
ReadFile(parent, n, size) ==
    Ask([op |-> "read", parent |-> parent, name |-> n, capacity |-> size])
Write(parent, n, x) == Ask([op |-> "write", parent |-> parent, name |-> n, payload |-> x])
Delete(parent, n) == Ask([op |-> "delete", parent |-> parent, name |-> n])

\* Every command that looks at the current directory lists it from its parent,
\* by its name.
BugListCurrent == ReadDir(RootId, current_directory.name) \* as find does
ListCurrent == ReadDir(Above, current_directory.name)

After(s) == step = s /\ call = FS!None
Begin(op, source, destination) ==
    /\ After("prompt")
    /\ job' = [op |-> op, source |-> source, destination |-> destination]
    /\ ok' = FALSE /\ filesize' = 0 /\ buf' = Garbage /\ found' = FALSE
    /\ UNCHANGED place

\* Names a command may pass here, see the head of the module.
Elsewhere == Name \ {current_directory.name, store[Above].label}

-----------------------------------------------------------------------------
(* Commands of one call *)

mkdir(n) == n # current_directory.name /\ Begin("mkdir", n, n)
            /\ Write(Here, n, FOLDER) /\ step' = "last" /\ UNCHANGED walk
rm(n) == n # current_directory.name /\ Begin("rm", n, n)
         /\ Delete(Here, n) /\ step' = "last" /\ UNCHANGED walk
cat(n) == n \in Elsewhere /\ Begin("cat", n, n)
          /\ ReadFile(Above, n, BUFFER_SIZE) /\ step' = "last" /\ UNCHANGED walk
ls(n) == Begin("ls", n, n) /\ ListCurrent /\ step' = "last" /\ UNCHANGED walk

EndOfJob ==
    /\ After("last") /\ step' = "prompt" /\ job' = NoJob
    /\ UNCHANGED <<fsvars, place, locals>>

-----------------------------------------------------------------------------
(* cd *)

\* cd of ".."
cd_up ==
    /\ After("prompt") /\ directory_stack # <<>>
    /\ current_directory' = directory_stack[Len(directory_stack)]
    /\ directory_stack' = SubSeq(directory_stack, 1, Len(directory_stack) - 1)
    /\ UNCHANGED <<fsvars, job, step, locals>>

\* push_directory: a full stack stays as it is, the caller does not learn of it.
Pushed(s, d) == IF Len(s) < STACK_SIZE THEN Append(s, d) ELSE s

cd(n) == Begin("cd", n, n) /\ ListCurrent /\ step' = "cd" /\ UNCHANGED walk

Listing == answer.data.dir
ListsDir(n) == n \in DOMAIN Listing /\ Listing[n].kind = "dir"

BugEnter ==              \* the parent's number is not moved along
    /\ After("cd") /\ ListsDir(job.source)
    /\ directory_stack' = Pushed(directory_stack, current_directory)
    /\ current_directory' = [current_directory EXCEPT
          !.name = job.source, !.cluster_number = Listing[job.source].id]
    /\ step' = "last" /\ UNCHANGED <<fsvars, job, locals>>
\* cd, the directory is listed.
Enter ==
    /\ After("cd") /\ ListsDir(job.source)
    /\ directory_stack' = Pushed(directory_stack, current_directory)
    /\ current_directory' = [name |-> job.source,
                             cluster_number |-> Listing[job.source].id,
                             parent_cluster_number |-> Here]
    /\ step' = "last" /\ UNCHANGED <<fsvars, job, locals>>

NotFound ==
    /\ After("cd") /\ ~ListsDir(job.source)
    /\ step' = "last" /\ UNCHANGED <<fsvars, place, job, locals>>

-----------------------------------------------------------------------------
(* mv and cp: list, read the source, probe the destination, write, delete *)

Copying(s) == After(s) /\ job.op \in {"mv", "cp"}

copy(op, source, destination) ==
    /\ {source, destination} \subseteq Elsewhere
    /\ Begin(op, source, destination) /\ ListCurrent /\ step' = "list"
    /\ UNCHANGED walk

SizeListed(n) ==
    IF n \in DOMAIN Listing /\ Listing[n].kind = "file" THEN Listing[n].size ELSE 0

BugLoad ==               \* the size is not taken over
    /\ Copying("list")
    /\ filesize' = 0
    /\ ReadFile(Above, job.source, BUFFER_SIZE) /\ step' = "load"
    /\ UNCHANGED <<place, job, buf, ok, finding>>
\* The size comes from the current directory, the file from its parent.
Load ==
    /\ Copying("list")
    /\ filesize' = SizeListed(job.source)
    /\ ReadFile(Above, job.source, BUFFER_SIZE) /\ step' = "load"
    /\ UNCHANGED <<place, job, buf, ok, finding>>

\* A destination that can be read is read over the source's data.  It can if the size
\* of the source is whole clusters; of a partial one none is left to read it into.
Filled == IF answer.code = 0 THEN answer.data.file ELSE buf

Probe ==
    /\ Copying("load")
    /\ buf' = Filled /\ ok' = (answer.code = 0)
    /\ \E whole \in {0, filesize} : ReadFile(Above, job.destination, whole)
    /\ step' = "probe"
    /\ UNCHANGED <<place, job, filesize, finding>>

BugSave ==               \* cp goes on as mv does
    /\ Copying("probe")
    /\ buf' = Filled
    /\ \E x \in IF filesize = 0 THEN {FOLDER}
                ELSE IF Filled = Garbage THEN Payload ELSE {Filled} :
          Write(Above, job.destination, x)
    /\ step' = "save"
    /\ UNCHANGED <<place, job, filesize, ok, finding>>
\* flag is passed by value and stays 2: an existing destination is not deleted.
Save ==
    /\ Copying("probe")
    /\ buf' = Filled
    /\ \E x \in IF filesize = 0 THEN {FOLDER}
                ELSE IF Filled = Garbage THEN Payload ELSE {Filled} :
          Write(Above, job.destination, x)
    /\ step' = IF job.op = "mv" THEN "save" ELSE "last"
    /\ UNCHANGED <<place, job, filesize, ok, finding>>

\* mv only.
DeleteSource ==
    /\ Copying("save")
    /\ ok' = (ok /\ answer.code = 0)
    /\ Delete(Above, job.source) /\ step' = "last"
    /\ UNCHANGED <<place, job, filesize, buf, finding>>

-----------------------------------------------------------------------------
(* find: a walk over the directories below the current one *)

Looking(s) == After(s) /\ job.op = "find"
Top == walk[Len(walk)]
Outer == SubSeq(walk, 1, Len(walk) - 1)

\* An activation: the directory its own calls pass as parent (next_cluster), and
\* the entries of its table, dir, that are still to be looked at.
Activation(next, entries) == [next |-> next, entries |-> entries]
NoEntries == [e \in {} |-> FS!None]

find(n) ==
    /\ Begin("find", n, n)
    /\ ReadDir(RootId, current_directory.name)
    /\ walk' = <<Activation(RootId, NoEntries)>> /\ step' = "find"

\* Only a directory and an entry of the name itself lead to anything.
Telling == [e \in {x \in DOMAIN Listing : x = job.source \/ Listing[x].kind = "dir"}
               |-> Listing[e]]

\* The answer is not looked at: when the call has failed the table is unassigned,
\* and what is then printed is open.
TableRead ==
    /\ Looking("find")
    /\ \/ /\ answer.code = 0
          /\ walk' = [walk EXCEPT ![Len(walk)].entries = Telling]
          /\ UNCHANGED found
       \/ /\ answer.code # 0
          /\ walk' = Outer
          /\ found' \in {found, TRUE}
    /\ step' = "scan" /\ UNCHANGED <<fsvars, place, job, copying>>

\* The name is printed, and the rest of this table is not looked at.
Matched ==
    /\ Looking("scan") /\ walk # <<>>
    /\ job.source \in DOMAIN Top.entries
    /\ found' = TRUE /\ walk' = Outer
    /\ UNCHANGED <<fsvars, place, job, step, copying>>

BugDescend ==            \* the parent is not moved along
    /\ Looking("scan") /\ walk # <<>>
    /\ \E e \in DOMAIN Top.entries \ {job.source} :
          LET rest == [x \in DOMAIN Top.entries \ {e} |-> Top.entries[x]] IN
          /\ ReadDir(Top.next, e)
          /\ walk' = Append(Append(Outer, [Top EXCEPT !.entries = rest]),
                            Activation(Top.next, NoEntries))
    /\ step' = "find" /\ UNCHANGED <<place, job, copying, found>>
\* The entries come in the order of the table, which may be any.
Descend ==
    /\ Looking("scan") /\ walk # <<>>
    /\ \E e \in DOMAIN Top.entries \ {job.source} :
          LET rest == [x \in DOMAIN Top.entries \ {e} |-> Top.entries[x]] IN
          /\ ReadDir(Top.next, e)
          /\ walk' = Append(Append(Outer, [Top EXCEPT !.entries = rest]),
                            Activation(Top.entries[e].id, NoEntries))
    /\ step' = "find" /\ UNCHANGED <<place, job, copying, found>>

Ascend ==
    /\ Looking("scan") /\ walk # <<>> /\ Top.entries = NoEntries
    /\ walk' = Outer
    /\ UNCHANGED <<fsvars, place, job, step, copying, found>>

WalkOver ==
    /\ Looking("scan") /\ walk = <<>>
    /\ step' = "last"
    /\ UNCHANGED <<fsvars, place, job, locals>>

-----------------------------------------------------------------------------
Command ==
    \/ cd_up
    \/ \E n \in Name : mkdir(n) \/ rm(n) \/ cat(n) \/ ls(n) \/ cd(n) \/ find(n)
    \/ \E op \in {"mv", "cp"}, s, d \in Name : copy(op, s, d)
Continue == Enter \/ NotFound \/ Load \/ Probe \/ Save \/ DeleteSource
            \/ TableRead \/ Matched \/ Descend \/ Ascend \/ WalkOver \/ EndOfJob

Next == PowerOn \/ Crash \/ Insert \/ Serve \/ Command \/ Continue

Spec == Init /\ [][Next]_vars

-----------------------------------------------------------------------------
(* What makes the shell right *)

\* The system calls a command makes.
Steps(op) ==
    CASE op = "none" -> {"prompt"}
      [] op = "cd" -> {"cd", "last"}
      [] op = "find" -> {"find", "scan", "last"}
      [] op = "mv" -> {"list", "load", "probe", "save", "last"}
      [] op = "cp" -> {"list", "load", "probe", "last"}
      [] OTHER -> {"last"}

\* Every variable has a value of its type and no command makes a call of another.
TypeOK ==
    /\ current_directory \in DirectoryState
    /\ directory_stack \in Seq(DirectoryState) /\ Len(directory_stack) <= STACK_SIZE
    /\ job \in Job \cup {NoJob}
    /\ step \in Steps(job.op)
    /\ filesize \in {0, 1} /\ buf \in Payload \cup {Garbage} /\ ok \in BOOLEAN
    /\ \A k \in DOMAIN walk : walk[k].next \in DirId /\ DOMAIN walk[k].entries \subseteq Name
    /\ walk # <<>> => step \in {"find", "scan"}
    /\ found \in BOOLEAN

\* What the shell believes of where it is, which no call ever checks, is true:
\* the stacked directories and the current one are a path of the store that
\* begins at the root, whatever was made, moved or removed and whenever the power
\* failed.
CwdIsPath ==
    LET path == Append(directory_stack, current_directory) IN
    /\ path[1] = RootDirectory
    /\ \A k \in 1 .. Len(path) - 1 :
          LET up == path[k].cluster_number IN
          /\ path[k + 1].parent_cluster_number = up
          /\ path[k + 1].name \in DOMAIN store[up].nodes
          /\ store[up].nodes[path[k + 1].name] = FS!Dir(path[k + 1].cluster_number)

\* The directory a command reads (by parent and name) is the directory that mkdir
\* and rm change (by its own number): a listing, once it has come back, is of the
\* current directory.
ListsCurrentDirectory ==
    (call = FS!None /\ (step \in {"cd", "list"} \/ (step = "last" /\ job.op = "ls"))) =>
        answer = [code |-> 0, data |-> [dir |-> FS!Listing(Here)]]

\* A find typed in the root directory prints the name exactly if some directory
\* of the disk holds it: each directory is looked up below the one it was listed
\* in, by a number the walk has carried down.  (Elsewhere it fails: the
\* directories are then looked up in the root.)
FindTells ==
    (step = "last" /\ job.op = "find" /\ Here = RootId) =>
        (found <=> \E d \in DOMAIN store : job.source \in DOMAIN store[d].nodes)

Stored(s) ==
    {p \in Payload : \E d \in DOMAIN s : \E n \in DOMAIN s[d].nodes :
        s[d].nodes[n] = FS!File(p)}

\* What the inserter takes from the disk before it writes: the file "shell" of the
\* root, or all there is in a directory of that name.
Replaced ==
    {p \in Payload :
        /\ call = FS!Off /\ SHELL \in DOMAIN store[RootId].nodes
        /\ LET x == store[RootId].nodes[SHELL] IN x = FS!File(p) \/ x.kind = "dir"}

\* The last copy of a file goes only with rm, or with the shell the inserter
\* replaces: a mv in the root directory whose read of the source and write of the
\* destination succeeded loses nothing, not even if the power fails between its
\* calls.  (Failed ones do lose the file.)
OnlyRmLosesFiles ==
    [][\/ Stored(store) \ Replaced \subseteq Stored(store')
       \/ job.op = "rm"
       \/ job.op = "mv" /\ (Here # RootId \/ ~ok)]_vars
=============================================================================
