------------------------------ MODULE CommandLine ------------------------------
(****************************************************************************)
(* From a typed line to the names a command passes on: handle_command        *)
(* (src/user-shell.c) and the string functions it uses (src/stdlib/string.c).*)
(* The line is cut up in place: get_string clears what follows the word it   *)
(* returns, so the shell works on copies, and which copy it reads when is    *)
(* what decides the words a command gets.                                    *)
(*                                                                           *)
(* What a command does with its names is Shell's; what is on the screen      *)
(* meanwhile, and the uninitialised first line, are Console's.               *)
(*                                                                           *)
(* LineBound: a line ends NAME_SIZE characters before its buffer does, so    *)
(* that every word is followed by a NUL and a name is copied from within it. *)
(****************************************************************************)
EXTENDS Integers, Sequences, FiniteSets, SequencesExt

CONSTANTS
    Letter, BLANK, NUL,            \* characters
    INPUT_SIZE,                    \* of the buffers; 256
    NAME_SIZE,                     \* of the name in a request; 8
    WholeLine, OneWord, TwoWords,  \* commands that are a whole line (ls, clear), that
                                   \* pass one word on (rm, cd...) and two (mv, cp)
    AtAddress0                     \* what may lie at NULL: the first bytes of the shell,
                                   \* over which the codes of its calls are stored

Char == Letter \cup {BLANK}
Buffer == [0 .. INPUT_SIZE - 1 -> Char \cup {NUL}]
FileName == [0 .. NAME_SIZE - 1 -> Char \cup {NUL}]
Command == WholeLine \cup OneWord \cup TwoWords

ASSUME CharAssumption == BLANK \notin Letter /\ NUL \notin Char
ASSUME LineBound == {INPUT_SIZE, NAME_SIZE} \subseteq Nat \ {0} /\ NAME_SIZE < INPUT_SIZE
ASSUME CommandAssumption ==
    /\ \A w \in Command : w \in Seq(Letter) /\ Len(w) \in 1 .. INPUT_SIZE - 1
    /\ WholeLine \cap (OneWord \cup TwoWords) = {} /\ OneWord \cap TwoWords = {}
    /\ AtAddress0 \subseteq FileName

VARIABLES
    input, i,     \* the line and its length
    temp, temp2,  \* its copies
    command,      \* what handle_command takes the line for
    passed,       \* the names the command puts in its requests
    pc,
    line          \* history: what was typed

vars == <<input, i, temp, temp2, command, passed, pc, line>>

Clean == [k \in 0 .. INPUT_SIZE - 1 |-> NUL]
NotFound == <<>>

Init ==
    /\ input = Clean /\ i = 0 /\ temp = Clean /\ temp2 = Clean
    /\ command = NotFound /\ passed = <<>> /\ pc = "prompt" /\ line = <<>>

-----------------------------------------------------------------------------
(* string.c *)

\* The first place from p on where one of chars is.
First(b, p, chars) ==
    CHOOSE q \in p .. INPUT_SIZE - 1 :
        b[q] \in chars /\ \A k \in p .. q - 1 : b[k] \notin chars
EndOfWord(b, p) == First(b, p, {BLANK, NUL})

NULL == -1
\* Where get_string(b, n) points: behind n blanks.
Pointer(b, n) ==
    LET at[k \in 0 .. n] ==
            IF k = 0 THEN 0
            ELSE IF at[k - 1] = NULL \/ b[EndOfWord(b, at[k - 1])] = NUL THEN NULL
            ELSE EndOfWord(b, at[k - 1]) + 1
    IN at[n]

\* What get_string leaves of b: from the end of the word on it is cleared.
Cut(b, p) ==
    IF p = NULL THEN b
    ELSE [q \in DOMAIN b |->
             IF q \in EndOfWord(b, p) .. First(b, EndOfWord(b, p), {NUL}) THEN NUL ELSE b[q]]

Literal(w) == [k \in 0 .. INPUT_SIZE - 1 |-> IF k < Len(w) THEN w[k + 1] ELSE NUL]

BugStrcmp(s, t) ==    \* the end of the second is not looked at
    LET k == CHOOSE q \in DOMAIN s :
                 (s[q] = NUL \/ s[q] # t[q]) /\ \A r \in 0 .. q - 1 : s[r] # NUL /\ s[r] = t[r]
    IN s[k] = NUL
\* Unlike C's, true for equal strings: both end where the first difference, or the
\* end of s, is met.
strcmp(s, t) ==
    LET k == CHOOSE q \in DOMAIN s :
                 (s[q] = NUL \/ s[q] # t[q]) /\ \A r \in 0 .. q - 1 : s[r] # NUL /\ s[r] = t[r]
    IN s[k] = NUL /\ t[k] = NUL

\* memcpy of a name out of b: the names it may be.
NamesAt(b, p) ==
    IF p = NULL THEN AtAddress0 ELSE {[k \in 0 .. NAME_SIZE - 1 |-> b[p + k]]}

-----------------------------------------------------------------------------
(* user-shell.c *)

AppendChar(c) ==
    /\ pc = "prompt" /\ i < INPUT_SIZE - NAME_SIZE
    /\ input' = [input EXCEPT ![i] = c] /\ i' = i + 1 /\ line' = Append(line, c)
    /\ UNCHANGED <<temp, temp2, command, passed, pc>>

BugEraseLast ==       \* no check for an empty line
    /\ pc = "prompt"
    /\ i' = i - 1 /\ input' = [input EXCEPT ![i - 1] = NUL]
    /\ line' = IF line = <<>> THEN line ELSE Front(line)
    /\ UNCHANGED <<temp, temp2, command, passed, pc>>
EraseLast ==
    /\ pc = "prompt" /\ i > 0
    /\ i' = i - 1 /\ input' = [input EXCEPT ![i - 1] = NUL]
    /\ line' = Front(line)
    /\ UNCHANGED <<temp, temp2, command, passed, pc>>

\* handle_command up to its chain of comparisons: ls and clear are compared with the
\* whole line, the others with its first word.
Dispatch ==
    /\ pc = "prompt"
    /\ temp' = input /\ input' = Cut(input, Pointer(input, 0))
    /\ command' = IF \E w \in WholeLine : strcmp(temp', Literal(w))
                  THEN CHOOSE w \in WholeLine : strcmp(temp', Literal(w))
                  ELSE IF \E w \in OneWord \cup TwoWords : strcmp(input', Literal(w))
                  THEN CHOOSE w \in OneWord \cup TwoWords : strcmp(input', Literal(w))
                  ELSE NotFound
    /\ pc' = "words" /\ UNCHANGED <<i, temp2, passed, line>>

OneName ==
    /\ pc = "words" /\ command \in OneWord
    /\ temp' = Cut(temp, Pointer(temp, 1))
    /\ passed' \in {<<x>> : x \in NamesAt(temp', Pointer(temp, 1))}
    /\ pc' = "run" /\ UNCHANGED <<input, i, temp2, command, line>>

BugTwoNames ==        \* the second copy is made too late
    /\ pc = "words" /\ command \in TwoWords
    /\ temp' = Cut(temp, Pointer(temp, 1)) /\ temp2' = Cut(temp', Pointer(temp', 2))
    /\ passed' \in NamesAt(temp', Pointer(temp, 1)) \X NamesAt(temp2', Pointer(temp', 2))
    /\ pc' = "run" /\ UNCHANGED <<input, i, command, line>>
\* Each word is cut out of a copy of its own.
TwoNames ==
    /\ pc = "words" /\ command \in TwoWords
    /\ temp' = Cut(temp, Pointer(temp, 1)) /\ temp2' = Cut(temp, Pointer(temp, 2))
    /\ passed' \in NamesAt(temp', Pointer(temp, 1)) \X NamesAt(temp2', Pointer(temp, 2))
    /\ pc' = "run" /\ UNCHANGED <<input, i, command, line>>

NoName ==
    /\ pc = "words" /\ command \notin OneWord \cup TwoWords
    /\ passed' = <<>> /\ pc' = "run"
    /\ UNCHANGED <<input, i, temp, temp2, command, line>>

LocalsGone == temp' = Clean /\ temp2' = Clean /\ command' = NotFound /\ passed' = <<>>

BugEndOfLine ==       \* the line is left to the next to write over
    /\ pc = "run"
    /\ i' = 0 /\ line' = <<>> /\ pc' = "prompt" /\ LocalsGone
    /\ UNCHANGED input
EndOfLine ==
    /\ pc = "run"
    /\ i' = 0 /\ input' = Clean /\ line' = <<>> /\ pc' = "prompt" /\ LocalsGone

Next ==
    \/ \E c \in Char : AppendChar(c)
    \/ EraseLast \/ Dispatch \/ OneName \/ TwoNames \/ NoName \/ EndOfLine

Spec == Init /\ [][Next]_vars

-----------------------------------------------------------------------------
(* What makes it right: the words of a line defined without pointers *)

\* A line has a word before, between and after its blanks, the empty one included.
Blanks(s) == {k \in DOMAIN s : s[k] = BLANK}
WordOf(s, n) ==
    LET ends == {0, Len(s) + 1} \cup Blanks(s)
        end(k) == CHOOSE e \in ends : Cardinality({d \in ends : d < e}) = k
    IN SubSeq(s, end(n) + 1, end(n + 1) - 1)

\* A name as a request holds it: cut off or filled up with NULs.
AsName(w) == [k \in 0 .. NAME_SIZE - 1 |-> IF k < Len(w) THEN w[k + 1] ELSE NUL]

Takes(c) == IF c \in OneWord THEN 1 ELSE IF c \in TwoWords THEN 2 ELSE 0

TypeOK ==
    /\ {input, temp, temp2} \subseteq Buffer
    /\ i \in 0 .. INPUT_SIZE - NAME_SIZE /\ line \in Seq(Char) /\ Len(line) = i
    /\ command \in Command \cup {NotFound} /\ passed \in Seq(FileName)
    /\ pc \in {"prompt", "words", "run"}

\* The line that is typed is the line in the buffer, with nothing behind it, whatever
\* lines were typed, rubbed out and cut up before.
BufferIsLine == pc = "prompt" => input = Literal(line)

\* The command is the one whose name is the line's first word (its whole line for ls
\* and clear), no other: a longer word or a word with something behind it is not it.
CommandIsFirstWord ==
    pc # "prompt" =>
        LET c == WordOf(line, 0) IN
        command = IF line \in WholeLine THEN line
                  ELSE IF c \in OneWord \cup TwoWords THEN c ELSE NotFound

\* A command passes the words behind its name, whole, unmixed and padded, and the
\* bytes at address 0 only for a word the line does not have.  A blank more, at the
\* end of the line too, makes an empty word.
NamesAreWords ==
    pc = "run" =>
        /\ Len(passed) = Takes(command)
        /\ \A n \in 1 .. Takes(command) :
              passed[n] \in IF n > Cardinality(Blanks(line)) THEN AtAddress0
                            ELSE {AsName(WordOf(line, n))}
=============================================================================
