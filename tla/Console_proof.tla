---------------------------- MODULE Console_proof ----------------------------
(****************************************************************************)
(* That the screen shows the line the shell will run, that nothing is left   *)
(* behind it and that no remains are in it: for every size of the screen,    *)
(* every keyboard map and everything a command may print, and whenever a key *)
(* is struck.                                                                *)
(****************************************************************************)
EXTENDS Console, SequenceTheorems, TLAPS

-----------------------------------------------------------------------------
(* The cells, counted along the rows *)

Base == keyboard_row * WIDTH
Pos == Base + keyboard_col

BlankFrom(p) == \A q \in Cell : q >= p => screen[q] = BLANK
PromptBefore(p, n) == \A q \in p - n .. p - 1 : screen[q] = PROMPT

\* Everything before the cursor in this row, and in the rows it runs on into, is
\* on the screen.
Seen == keyboard_row < BYTE /\ keyboard_col <= BYTE /\ Pos <= ROWS * WIDTH

-----------------------------------------------------------------------------
(* The invariant: first what holds of the keyboard and of the line, whatever  *)
(* is typed *)

\* The mode is set by every key but backspace and is gone with the key.
KeyInv ==
    /\ keyboard_buffer \in Char \cup {NEWLINE} => print_mode
    /\ keyboard_buffer = NUL => ~print_mode
    /\ pc = "start" => ~keyboard_input_on /\ i = 0 /\ keyboard_buffer = NUL
    /\ pc \in {"echo", "append"} => buf \in Char \cup {BACKSPACE}

InputInv ==
    /\ \A j \in 0 .. i - 1 : input[j] \in Char \cup {BACKSPACE}
    /\ \A j \in i .. INPUT_SIZE - 1 : input[j] = NUL \/ (firstLine /\ input[j] = JUNK)

-----------------------------------------------------------------------------
(* Then that what was never written past a row's end leaves nothing behind the *)
(* cursor, whatever is typed.  Between clear and reset the screen is blank and *)
(* the position an old one. *)

Resetting == todo # <<>> /\ Head(todo) = Reset

BlankInv ==
    /\ Resetting => BlankFrom(0)
    /\ ~Resetting =>
          /\ cursor = CellOf(keyboard_row, keyboard_col)
          /\ ~spilled => keyboard_row < BYTE /\ keyboard_col <= WIDTH /\ BlankFrom(Pos)

-----------------------------------------------------------------------------
(* Then what is on the screen while a line is typed in order.  The screen is   *)
(* ahead of the line by a character just echoed and behind it by one just      *)
(* rubbed out. *)

\* The length of the line once the shell has done with the key in hand...
Taken ==
    CASE pc = "append" -> i + 1
      [] pc = "erase" /\ i > 0 -> i - 1
      [] OTHER -> i
\* ... and with the backspace in the buffer; behind a key of the command before,
\* which set the mode, the shell takes a backspace for a character.
Rubbing == keyboard_buffer = BACKSPACE /\ ~print_mode
Shown == IF Rubbing /\ Taken > 0 THEN Taken - 1 ELSE Taken

LineChar(j) == IF pc = "append" /\ j = i THEN buf ELSE input[j]

Typing == pc \in {"poll", "erase", "echo", "append"}

LineInv ==
    orderly /\ Typing =>
        /\ Seen /\ keyboard_col - Shown >= EDIT_COL
        /\ PromptBefore(Pos - Shown, EDIT_COL)
        /\ \A j \in 0 .. Shown - 1 : screen[Pos - Shown + j] = LineChar(j)
        /\ pc = "echo" => keyboard_buffer # BACKSPACE

-----------------------------------------------------------------------------
(* Then the calls of a command and of the prompt behind it. *)

One == Puts(PROMPT, 1)

\* What is left of the prompt after k of its five calls, and how much is there.
HomeRest(k) ==
    CASE k = 0 -> Home
      [] k = 1 -> <<One, One, One, One>>
      [] k = 2 -> <<One, One, One>>
      [] k = 3 -> <<One, One>>
      [] k = 4 -> <<One>>
      [] k = 5 -> <<>>
HomeDone(k) == IF k = 0 THEN 0 ELSE HOME_SIZE + k - 1

Prompting(n) == n > 0 => Seen /\ keyboard_col >= n /\ PromptBefore(Pos, n)

\* What may be left of a command's calls.
Prints == {Newline} \cup {Puts(OUTPUT, n) : n \in Nat}
Left == {<<Clear, Reset>>, <<Reset>>} \cup Seq(Prints)

CommandInv ==
    /\ pc = "start" =>
          \E k \in 0 .. 5 : /\ todo = HomeRest(k) \o <<Activate>>
                            /\ orderly => Prompting(HomeDone(k))
    /\ pc = "command" =>
          \/ \E k \in 0 .. 5 : todo = HomeRest(k) /\ (orderly => Prompting(HomeDone(k)))
          \/ \E b \in Left : todo = b \o Home
    /\ pc \notin {"start", "command"} => todo = <<>>

Inv == TypeOK /\ KeyInv /\ InputInv /\ BlankInv /\ LineInv /\ CommandInv

-----------------------------------------------------------------------------
(* The operators of the model *)

\* What the assumption says of the numbers, one by one.
LEMMA Sizes ==
    /\ WIDTH \in Nat /\ ROWS \in Nat /\ BYTE \in Nat /\ EDIT_COL \in Nat
    /\ HOME_SIZE \in Nat /\ INPUT_SIZE \in Nat
    /\ WIDTH > 0 /\ ROWS > 0 /\ BYTE > 0 /\ HOME_SIZE > 0 /\ INPUT_SIZE > 0 /\ EDIT_COL > 0
    /\ WIDTH < BYTE /\ EDIT_COL = HOME_SIZE + 4
    BY ConsoleAssumption DEF ConsoleAssumption

\* Whatever is cut to 8 bits, a cell's number is a number.
LEMMA CellOfTyped == ASSUME NEW r \in Nat, NEW c \in Nat PROVE CellOf(r, c) \in Nat
<1>1. r % BYTE \in Nat /\ c % BYTE \in Nat /\ WIDTH \in Nat
    BY Sizes
<1>2. \A x, y \in Nat : x * y \in Nat
    OBVIOUS
<1>3. (r % BYTE) * WIDTH \in Nat
    BY <1>1, <1>2
<1> QED
    BY <1>1, <1>3 DEF CellOf

\* Where nothing is cut, the cells are counted along the rows.
LEMMA CellIsPosition ==
    ASSUME NEW r \in Nat, r < BYTE, NEW c \in Nat, c < BYTE
    PROVE  r * WIDTH \in Nat /\ CellOf(r, c) = r * WIDTH + c
<1>1. r % BYTE = r /\ c % BYTE = c /\ WIDTH \in Nat
    BY Sizes
<1>2. \A x, y \in Nat : x * y \in Nat
    OBVIOUS
<1> QED
    BY <1>1, <1>2 DEF CellOf

LEMMA CellsAreNumbers == ROWS * WIDTH \in Nat /\ Cell \subseteq Nat
<1>1. \A x, y \in Nat : x * y \in Nat
    OBVIOUS
<1>2. ROWS * WIDTH \in Nat
    BY <1>1, Sizes
<1> QED
    BY <1>2 DEF Cell

LEMMA WrittenTyped ==
    ASSUME NEW r, NEW c, NEW n, NEW x \in Glyph, screen \in [Cell -> Glyph]
    PROVE  Written(r, c, x, n) \in [Cell -> Glyph]
    BY DEF Written

\* framebuffer_write where nothing is cut changes these cells and no other.
LEMMA WritesCells ==
    ASSUME NEW r \in Nat, r < BYTE, NEW c \in Nat, NEW n \in Nat, c + n <= BYTE, NEW x
    PROVE  \A p \in Cell : Written(r, c, x, n)[p] =
               IF p >= r * WIDTH + c /\ p < r * WIDTH + c + n THEN x ELSE screen[p]
<1>1. WIDTH \in Nat /\ BYTE \in Nat /\ BYTE > 0
    BY Sizes
<1>0. r * WIDTH \in Nat
  <2>1. \A y, z \in Nat : y * z \in Nat
      OBVIOUS
  <2> QED
      BY <1>1, <2>1
<1>2. ASSUME NEW k \in 0 .. n - 1 PROVE CellOf(r, c + k) = r * WIDTH + c + k
  <2>1. c + k \in Nat /\ c + k < BYTE
      BY <1>1, <1>2
  <2>2. CellOf(r, c + k) = r * WIDTH + (c + k)
      BY <2>1, CellIsPosition
  <2> QED
      BY <1>0, <1>1, <2>2
<1>3. ASSUME NEW p \in Cell
      PROVE  (\E k \in 0 .. n - 1 : p = CellOf(r, c + k))
                 <=> p >= r * WIDTH + c /\ p < r * WIDTH + c + n
  <2>1. p \in Int
      BY CellsAreNumbers
  <2>2. ASSUME NEW k \in 0 .. n - 1, p = CellOf(r, c + k)
        PROVE  p >= r * WIDTH + c /\ p < r * WIDTH + c + n
    <3>1. p = r * WIDTH + c + k
        BY <1>2, <2>2, Zenon
    <3>2. k \in Nat /\ k < n
        OBVIOUS
    <3> QED
        BY <1>0, <3>1, <3>2
  <2>3. ASSUME p >= r * WIDTH + c /\ p < r * WIDTH + c + n
        PROVE  \E k \in 0 .. n - 1 : p = CellOf(r, c + k)
    <3>1. p - (r * WIDTH + c) \in 0 .. n - 1
        BY <1>0, <1>1, <2>1, <2>3
    <3>2. p = CellOf(r, c + (p - (r * WIDTH + c)))
        BY <1>0, <1>1, <1>2, <2>1, <3>1
    <3> QED
        BY <3>1, <3>2
  <2> QED
      BY <2>2, <2>3
<1> QED
    BY <1>3 DEF Written

\* The first of several calls.
LEMMA FirstOf ==
    ASSUME NEW S, NEW s \in Seq(S), NEW t \in Seq(S), s # <<>>
    PROVE  s \o t # <<>> /\ Head(s \o t) = Head(s) /\ Tail(s \o t) = Tail(s) \o t
<1>1. /\ s \o t \in Seq(S) /\ Len(s \o t) = Len(s) + Len(t)
      /\ \A n \in 1 .. Len(s) + Len(t) :
            (s \o t)[n] = IF n <= Len(s) THEN s[n] ELSE t[n - Len(s)]
    BY ConcatProperties
<1>2. Len(s) \in Nat \ {0} /\ Len(t) \in Nat
    BY EmptySeq, LenProperties
<1>3. s \o t # <<>>
    BY <1>1, <1>2, EmptySeq
<1>4. Head(s \o t) = Head(s)
    BY <1>1, <1>2, <1>3, HeadTailProperties
<1>5. /\ Tail(s) \in Seq(S) /\ Len(Tail(s)) = Len(s) - 1
      /\ \A n \in 1 .. Len(Tail(s)) : Tail(s)[n] = s[n + 1]
    BY HeadTailProperties
<1>6. /\ Tail(s \o t) \in Seq(S) /\ Len(Tail(s \o t)) = Len(s) + Len(t) - 1
      /\ \A n \in 1 .. Len(Tail(s \o t)) : Tail(s \o t)[n] = (s \o t)[n + 1]
    BY <1>1, <1>3, HeadTailProperties
<1>7. /\ Tail(s) \o t \in Seq(S) /\ Len(Tail(s) \o t) = Len(s) - 1 + Len(t)
      /\ \A n \in 1 .. Len(s) - 1 + Len(t) :
            (Tail(s) \o t)[n] = IF n <= Len(s) - 1 THEN Tail(s)[n] ELSE t[n - (Len(s) - 1)]
    BY <1>5, ConcatProperties
<1>8. ASSUME NEW n \in 1 .. Len(Tail(s \o t))
      PROVE  Tail(s \o t)[n] = (Tail(s) \o t)[n]
  <2>1. n \in 1 .. Len(s) - 1 + Len(t) /\ n + 1 \in 1 .. Len(s) + Len(t)
      BY <1>2, <1>6, <1>8
  <2>2. CASE n <= Len(s) - 1
    <3>1. n + 1 <= Len(s) /\ n \in 1 .. Len(Tail(s))
        BY <1>2, <1>5, <2>1, <2>2
    <3> QED
        BY <1>1, <1>5, <1>6, <1>7, <1>8, <2>1, <2>2, <3>1
  <2>3. CASE ~ (n <= Len(s) - 1)
    <3>1. ~ (n + 1 <= Len(s)) /\ n + 1 - Len(s) = n - (Len(s) - 1)
        BY <1>2, <2>1, <2>3
    <3> QED
        BY <1>1, <1>6, <1>7, <1>8, <2>1, <2>3, <3>1
  <2> QED
      BY <2>2, <2>3
<1>9. Tail(s \o t) = Tail(s) \o t
    BY <1>2, <1>6, <1>7, <1>8, SeqEqual
<1> QED
    BY <1>3, <1>4, <1>9

-----------------------------------------------------------------------------
(* The calls of a command and of the prompt, one after the other *)

Ops == {Newline, Reset, Clear, Activate} \cup {Puts(x, n) : x \in {PROMPT, OUTPUT}, n \in Nat}

LEMMA OpNames ==
    /\ Newline.op = "newline" /\ Reset.op = "reset" /\ Clear.op = "clear"
    /\ Activate.op = "activate"
    /\ \A x, n : Puts(x, n).op = "puts" /\ Puts(x, n).char = x /\ Puts(x, n).size = n
    BY DEF Newline, Reset, Clear, Activate, Puts

LEMMA PrintNames ==
    ASSUME NEW c \in Prints
    PROVE  /\ c \in Ops /\ c # Reset /\ c # Clear /\ c # Activate
           /\ c.op = "newline" => c = Newline
           /\ c.op = "puts" => \E n \in Nat : c = Puts(OUTPUT, n)
           /\ c.op \in {"newline", "puts"}
<1>1. CASE c = Newline
    BY <1>1, OpNames DEF Ops
<1>2. CASE \E n \in Nat : c = Puts(OUTPUT, n)
  <2>1. PICK n \in Nat : c = Puts(OUTPUT, n)
      BY <1>2
  <2>2. c.op = "puts"
      BY <2>1, OpNames, Zenon
  <2>3. c \in Ops
      BY <2>1 DEF Ops
  <2> QED
      BY <2>1, <2>2, <2>3, OpNames
<1> QED
    BY <1>1, <1>2 DEF Prints

\* show_home goes on by one call, and its five calls make a prompt of EDIT_COL cells.
LEMMA HomeGoesOn ==
    ASSUME NEW k \in 0 .. 5
    PROVE  /\ HomeRest(k) \in Seq(Ops) /\ HomeDone(k) \in Nat
           /\ k = 5 => HomeRest(k) = <<>> /\ HomeDone(k) = EDIT_COL
           /\ k # 5 =>
                 /\ k + 1 \in 0 .. 5 /\ HomeRest(k) # <<>>
                 /\ Tail(HomeRest(k)) = HomeRest(k + 1)
                 /\ \E n \in Nat \ {0} :
                       /\ Head(HomeRest(k)) = Puts(PROMPT, n)
                       /\ HomeDone(k + 1) = HomeDone(k) + n
<1>1. HOME_SIZE \in Nat /\ HOME_SIZE > 0 /\ EDIT_COL = HOME_SIZE + 4
    BY Sizes
<1>2. Puts(PROMPT, HOME_SIZE) \in Ops /\ Puts(PROMPT, 1) \in Ops
    BY <1>1 DEF Ops
<1>3. CASE k = 0
    BY <1>1, <1>2, <1>3 DEF HomeRest, HomeDone, Home, One
<1>4. CASE k = 1
    BY <1>1, <1>2, <1>4 DEF HomeRest, HomeDone, One
<1>5. CASE k = 2
    BY <1>1, <1>2, <1>5 DEF HomeRest, HomeDone, One
<1>6. CASE k = 3
    BY <1>1, <1>2, <1>6 DEF HomeRest, HomeDone, One
<1>7. CASE k = 4
    BY <1>1, <1>2, <1>7 DEF HomeRest, HomeDone, One
<1>8. CASE k = 5
    BY <1>1, <1>8 DEF HomeRest, HomeDone
<1> QED
    BY <1>3, <1>4, <1>5, <1>6, <1>7, <1>8

LEMMA HomeIsOps ==
    /\ Home \in Seq(Ops) /\ Home = HomeRest(0) /\ Home # <<>> /\ Head(Home).op = "puts"
    /\ <<>> \o Home = Home
<1>1. 0 \in 0 .. 5 /\ 0 # 5 /\ Home = HomeRest(0)
    BY DEF HomeRest
<1>2. Home \in Seq(Ops) /\ Home # <<>>
    BY <1>1, HomeGoesOn
<1>3. PICK n \in Nat : Head(Home) = Puts(PROMPT, n)
    BY <1>1, HomeGoesOn
<1>4. Head(Home).op = "puts"
  <2>1. Puts(PROMPT, n).op = "puts"
      BY OpNames
  <2> QED
      BY <1>3, <2>1
<1> QED
    BY <1>1, <1>2, <1>4, ConcatEmptySeq

\* How the calls of a command follow each other.
LEMMA CommandGoesOn ==
    ASSUME NEW b \in Left, b # <<>>
    PROVE  /\ b \in Seq(Ops)
           /\ \/ Head(b) = Clear /\ Tail(b) = <<Reset>>
              \/ Head(b) = Reset /\ Tail(b) = <<>>
              \/ Head(b) \in Prints /\ Tail(b) \in Seq(Prints)
           /\ Tail(b) \in Left
<1>1. <<>> \in Seq(Prints)
    BY EmptySeq
<1>2. Clear \in Ops /\ Reset \in Ops
    BY DEF Ops
<1>3. CASE b = <<Clear, Reset>>
    BY <1>2, <1>3 DEF Left
<1>4. CASE b = <<Reset>>
    BY <1>1, <1>2, <1>4 DEF Left
<1>5. CASE b \in Seq(Prints)
  <2>1. Prints \subseteq Ops
      BY PrintNames
  <2>2. b \in Seq(Ops)
      BY <1>5, <2>1
  <2>3. Head(b) \in Prints /\ Tail(b) \in Seq(Prints)
      BY <1>5, HeadTailProperties
  <2> QED
      BY <2>2, <2>3 DEF Left
<1> QED
    BY <1>3, <1>4, <1>5 DEF Left

\* A command begins with one of these.
LEMMA ScriptBegins ==
    ASSUME NEW s \in Script
    PROVE  s \in Left /\ s # <<>> /\ (Head(s) = Newline \/ Head(s) = Clear)
<1>1. Newline \in Prints /\ \A n \in Nat : Puts(OUTPUT, n) \in Prints
    BY DEF Prints
<1>2. CASE s = <<Clear, Reset>>
    BY <1>2 DEF Left
<1>5. CASE s = <<Newline>>
  <2>1. s \in Seq(Prints) /\ s # <<>> /\ Head(s) = Newline
      BY <1>1, <1>5
  <2> QED
      BY <2>1 DEF Left
<1>3. CASE \E n \in MessageSizes : s = <<Newline, Puts(OUTPUT, n)>>
  <2>1. PICK n \in Nat : s = <<Newline, Puts(OUTPUT, n)>>
      BY <1>3, ConsoleAssumption DEF ConsoleAssumption
  <2>2. Puts(OUTPUT, n) \in Prints
      BY <1>1
  <2>3. s \in Seq(Prints) /\ s # <<>> /\ Head(s) = Newline
      BY <1>1, <2>1, <2>2
  <2> QED
      BY <2>3 DEF Left
<1>4. CASE \E o \in Outputs : s = <<Newline>> \o Text(o) \o <<Newline>>
  <2>1. PICK o \in Seq(Nat) : s = <<Newline>> \o Text(o) \o <<Newline>>
      BY <1>4, ConsoleAssumption DEF ConsoleAssumption
  <2>2. Text(o) \in Seq(Prints)
    <3>1. Len(o) \in Nat /\ DOMAIN o = 1 .. Len(o) /\ \A j \in 1 .. Len(o) : o[j] \in Nat
        BY LenProperties, ElementOfSeq
    <3>2. Text(o) \in [1 .. Len(o) -> Prints]
        BY <1>1, <3>1 DEF Text
    <3> QED
        BY <3>1, <3>2, SeqDef
  <2>3. <<Newline>> \in Seq(Prints) /\ <<Newline>> # <<>> /\ Head(<<Newline>>) = Newline
      BY <1>1
  <2>4. PICK n \in Seq(Prints) : n = <<Newline>>
      BY <2>3
  <2>5. n \o Text(o) \in Seq(Prints)
      BY <2>2, ConcatProperties
  <2>6. s = (n \o Text(o)) \o n /\ s \in Seq(Prints)
      BY <2>1, <2>4, <2>5, ConcatProperties
  <2>7. n \o Text(o) # <<>> /\ Head(n \o Text(o)) = Newline
      BY <2>2, <2>3, <2>4, FirstOf
  <2>8. s # <<>> /\ Head(s) = Newline
      BY <2>5, <2>6, <2>7, FirstOf
  <2> QED
      BY <2>6, <2>8 DEF Left
<1> QED
    BY <1>2, <1>3, <1>4, <1>5 DEF Script

\* What the shell's next call is and what comes behind it.
LEMMA NextCall ==
    ASSUME CommandInv, todo # <<>>
    PROVE  \/ /\ pc = "start" /\ Head(todo) = Activate /\ Tail(todo) = <<>>
              /\ orderly => Prompting(EDIT_COL)
           \/ \E k \in 0 .. 4 : \E n \in Nat \ {0} :
                 /\ orderly => Prompting(HomeDone(k))
                 /\ HomeDone(k + 1) = HomeDone(k) + n /\ Head(todo) = Puts(PROMPT, n)
                 /\ \/ pc = "start" /\ Tail(todo) = HomeRest(k + 1) \o <<Activate>>
                    \/ pc = "command" /\ Tail(todo) = HomeRest(k + 1)
           \/ /\ pc = "command"
              /\ \E b \in Left :
                    /\ b # <<>> /\ todo = b \o Home
                    /\ Head(todo) = Head(b) /\ Tail(todo) = Tail(b) \o Home
<1>1. CASE pc = "start"
  <2>1. PICK k \in 0 .. 5 : /\ todo = HomeRest(k) \o <<Activate>>
                            /\ orderly => Prompting(HomeDone(k))
      BY <1>1 DEF CommandInv
  <2>0. Activate \in Ops
      BY DEF Ops
  <2>5. <<Activate>> \in Seq(Ops)
      BY <2>0
  <2>2. PICK t \in Seq(Ops) : t = <<Activate>>
      BY <2>5, Zenon
  <2>3. CASE k = 5
    <3>1. HomeRest(k) = <<>> /\ HomeDone(k) = EDIT_COL
        BY <2>3, HomeGoesOn
    <3>2. todo = <<Activate>>
        BY <2>1, <2>2, <3>1, ConcatEmptySeq
    <3>3. Head(todo) = Activate /\ Tail(todo) = <<>>
        BY <3>2
    <3> QED
        BY <1>1, <2>1, <3>1, <3>3
  <2>4. CASE k # 5
    <3>1. k \in 0 .. 4
        BY <2>4
    <3>2. HomeRest(k) \in Seq(Ops) /\ HomeRest(k) # <<>> /\ Tail(HomeRest(k)) = HomeRest(k + 1)
        BY <2>4, HomeGoesOn
    <3>3. PICK n \in Nat \ {0} : /\ Head(HomeRest(k)) = Puts(PROMPT, n)
                                 /\ HomeDone(k + 1) = HomeDone(k) + n
        BY <2>4, HomeGoesOn
    <3>4. todo = HomeRest(k) \o t
        BY <2>1, <2>2, Zenon
    <3>5. Head(todo) = Head(HomeRest(k)) /\ Tail(todo) = Tail(HomeRest(k)) \o t
        BY <3>2, <3>4, FirstOf
    <3>6. Head(todo) = Puts(PROMPT, n) /\ Tail(todo) = HomeRest(k + 1) \o <<Activate>>
        BY <2>2, <3>2, <3>3, <3>5, Zenon
    <3> QED
        BY <1>1, <2>1, <3>1, <3>3, <3>6
  <2> QED
      BY <2>3, <2>4
<1>2. CASE pc = "command"
  <2>1. ASSUME NEW k \in 0 .. 5, todo = HomeRest(k), orderly => Prompting(HomeDone(k))
        PROVE  \E m \in 0 .. 4 : \E n \in Nat \ {0} :
                  /\ orderly => Prompting(HomeDone(m))
                  /\ HomeDone(m + 1) = HomeDone(m) + n /\ Head(todo) = Puts(PROMPT, n)
                  /\ Tail(todo) = HomeRest(m + 1)
    <3>1. k # 5
        BY <2>1, HomeGoesOn
    <3>2. k \in 0 .. 4
        BY <3>1
    <3>3. PICK n \in Nat \ {0} : /\ Head(HomeRest(k)) = Puts(PROMPT, n)
                                 /\ HomeDone(k + 1) = HomeDone(k) + n
        BY <3>1, HomeGoesOn
    <3>4. Tail(todo) = HomeRest(k + 1) /\ Head(todo) = Puts(PROMPT, n)
        BY <2>1, <3>1, <3>3, HomeGoesOn
    <3> QED
        BY <2>1, <3>2, <3>3, <3>4
  <2>2. CASE \E k \in 0 .. 5 : todo = HomeRest(k) /\ (orderly => Prompting(HomeDone(k)))
      BY <1>2, <2>1, <2>2
  <2>3. CASE \E b \in Left : todo = b \o Home
    <3>1. PICK b \in Left : todo = b \o Home
        BY <2>3
    <3>2. CASE b = <<>>
      <4>1. todo = HomeRest(0)
          BY <3>1, <3>2, HomeIsOps, Zenon
      <4>2. Prompting(HomeDone(0))
          BY DEF Prompting, HomeDone
      <4>3. 0 \in 0 .. 5
          OBVIOUS
      <4> QED
          BY <1>2, <2>1, <4>1, <4>2, <4>3
    <3>3. CASE b # <<>>
      <4>1. b \in Seq(Ops)
          BY <3>3, CommandGoesOn
      <4>2. Head(todo) = Head(b) /\ Tail(todo) = Tail(b) \o Home
          BY <3>1, <3>3, <4>1, HomeIsOps, FirstOf
      <4> QED
          BY <1>2, <3>1, <3>3, <4>2
    <3> QED
        BY <3>2, <3>3
  <2> QED
      BY <1>2, <2>2, <2>3 DEF CommandInv
<1> QED
    BY <1>1, <1>2 DEF CommandInv

-----------------------------------------------------------------------------
(* The invariant holds at first *)

LEMMA Positions ==
    ASSUME TypeOK
    PROVE  /\ keyboard_row \in Nat /\ keyboard_col \in Nat /\ Base \in Nat /\ Pos \in Nat
           /\ Pos = Base + keyboard_col /\ WIDTH \in Nat /\ ROWS * WIDTH \in Nat
           /\ CellOf(keyboard_row, keyboard_col) \in Nat
<1>1. keyboard_row \in Nat /\ keyboard_col \in Nat /\ WIDTH \in Nat
    BY Sizes DEF TypeOK
<1>2. \A x, y \in Nat : x * y \in Nat
    OBVIOUS
<1>3. Base \in Nat
    BY <1>1, <1>2 DEF Base
<1>4. CellOf(keyboard_row, keyboard_col) \in Nat
    BY <1>1, CellOfTyped
<1>5. Pos = Base + keyboard_col
    BY DEF Pos
<1> QED
    BY <1>1, <1>3, <1>4, <1>5, CellsAreNumbers

LEMMA InitInv == Init => Inv
<1> SUFFICES ASSUME Init PROVE Inv
    OBVIOUS
<1>1. WIDTH \in Nat /\ BYTE \in Nat /\ BYTE > 0 /\ INPUT_SIZE \in Nat /\ INPUT_SIZE > 0
    BY Sizes
<1>2. TypeOK
  <2>1. keyboard_input_on \in BOOLEAN /\ print_mode \in BOOLEAN
      BY DEF Init
  <2>2. keyboard_row \in Nat /\ keyboard_col \in Nat /\ cursor \in Nat /\ i \in 0 .. INPUT_SIZE
      BY <1>1 DEF Init
  <2>3. screen \in [Cell -> Glyph]
      BY DEF Init, Glyph
  <2>4. /\ keyboard_buffer \in Key \cup {NUL} /\ buf \in Key \cup {NUL}
        /\ pc \in {"start", "poll", "erase", "echo", "append", "enter", "command", "overrun"}
        /\ input \in [0 .. INPUT_SIZE - 1 -> Char \cup {BACKSPACE, NUL, JUNK}]
      BY DEF Init
  <2>5. {orderly, spilled, firstLine} \subseteq BOOLEAN
      BY DEF Init
  <2> QED
      BY <2>1, <2>2, <2>3, <2>4, <2>5 DEF TypeOK
<1>3. KeyInv
    BY ConsoleAssumption DEF ConsoleAssumption, Init, KeyInv
<1>4. LineInv
    BY DEF Init, LineInv, Typing
<1>5. InputInv
    BY DEF Init, InputInv
<1>6. CommandInv
  <2>1. 0 \in 0 .. 5 /\ todo = HomeRest(0) \o <<Activate>>
      BY DEF Init, HomeRest
  <2>2. Prompting(HomeDone(0))
      BY DEF Prompting, HomeDone
  <2>3. pc = "start"
      BY DEF Init
  <2> QED
      BY <2>1, <2>2, <2>3 DEF CommandInv
<1>7. BlankInv
  <2>1. keyboard_row = 0 /\ keyboard_col = 0 /\ cursor = 0 /\ \A q \in Cell : screen[q] = BLANK
      BY DEF Init
  <2>2. CellOf(0, 0) = 0 * WIDTH + 0 /\ 0 * WIDTH = 0
      BY <1>1, CellIsPosition
  <2> QED
      BY <1>1, <2>1, <2>2 DEF BlankInv, BlankFrom
<1> QED
    BY <1>2, <1>3, <1>4, <1>5, <1>6, <1>7 DEF Inv

-----------------------------------------------------------------------------
(* The system calls keep it *)

\* Only clear is followed by reset.
LEMMA NotResettingNext ==
    ASSUME CommandInv, todo # <<>>, todo' = Tail(todo), Head(todo) # Clear
    PROVE  ~Resetting'
<1>1. ASSUME NEW h \in {Activate} \cup {Puts(x, n) : x \in {PROMPT, OUTPUT}, n \in Nat}
      PROVE  h # Reset
  <2>1. h.op # "reset"
      BY OpNames
  <2> QED
      BY <2>1, OpNames
<1>2. ASSUME todo' = Home PROVE ~Resetting'
  <2>1. Head(todo').op = "puts"
      BY <1>2, HomeIsOps
  <2>2. Head(todo') # Reset
      BY <2>1, OpNames
  <2> QED
      BY <2>2 DEF Resetting
<1>3. CASE Tail(todo) = <<>>
    BY <1>3 DEF Resetting
<1>4. CASE \E k \in 0 .. 4 : \/ Tail(todo) = HomeRest(k + 1) \o <<Activate>>
                             \/ Tail(todo) = HomeRest(k + 1)
  <2>1. PICK k \in 0 .. 4 : \/ todo' = HomeRest(k + 1) \o <<Activate>>
                            \/ todo' = HomeRest(k + 1)
      BY <1>4
  <2>2. PICK m \in 0 .. 5 : m = k + 1
      OBVIOUS
  <2>3. HomeRest(m) \in Seq(Ops)
      BY HomeGoesOn
  <2>9. Activate \in Ops
      BY DEF Ops
  <2>4. <<Activate>> \in Seq(Ops)
      BY <2>9
  <2>5. PICK t \in Seq(Ops) : t = <<Activate>>
      BY <2>4, Zenon
  <2>6. todo' = HomeRest(m) \o t \/ todo' = HomeRest(m)
      BY <2>1, <2>2, <2>5, Zenon
  <2>7. CASE m = 5
    <3>1. HomeRest(m) = <<>>
        BY <2>7, HomeGoesOn
    <3>2. todo' = <<Activate>> \/ todo' = <<>>
        BY <2>5, <2>6, <3>1, ConcatEmptySeq
    <3>3. Activate # Reset
        BY <1>1
    <3>4. CASE todo' = <<Activate>>
      <4>2. Head(t) = Activate
          BY <2>5
      <4>1. Head(todo') = Activate
          BY <2>5, <3>4, <4>2, Zenon
      <4> QED
          BY <3>3, <4>1 DEF Resetting
    <3> QED
        BY <3>2, <3>4 DEF Resetting
  <2>8. CASE m # 5
    <3>1. HomeRest(m) # <<>>
        BY <2>8, HomeGoesOn
    <3>2. PICK n \in Nat : Head(HomeRest(m)) = Puts(PROMPT, n)
        BY <2>8, HomeGoesOn
    <3>3. Head(HomeRest(m) \o t) = Head(HomeRest(m))
        BY <2>3, <3>1, FirstOf
    <3>4. Head(todo') = Puts(PROMPT, n)
        BY <2>6, <3>2, <3>3, Zenon
    <3>5. Puts(PROMPT, n) # Reset
        BY <1>1
    <3> QED
        BY <3>4, <3>5 DEF Resetting
  <2> QED
      BY <2>7, <2>8
<1>5. CASE \E b \in Left : b # <<>> /\ Head(todo) = Head(b) /\ Tail(todo) = Tail(b) \o Home
  <2>1. PICK b \in Left : b # <<>> /\ Head(todo) = Head(b) /\ Tail(todo) = Tail(b) \o Home
      BY <1>5
  <2>2. CASE Tail(b) = <<>>
    <3>1. todo' = Home
        BY <2>1, <2>2, HomeIsOps, Zenon
    <3> QED
        BY <1>2, <3>1
  <2>3. CASE Tail(b) # <<>> /\ Tail(b) \in Seq(Prints)
    <3>1. PICK c \in Seq(Prints) : c = Tail(b) /\ c # <<>>
        BY <2>3
    <3>2. Head(c) \in Prints /\ c \in Seq(Ops)
      <4>1. Prints \subseteq Ops
          BY PrintNames
      <4> QED
          BY <3>1, <4>1, HeadTailProperties
    <3>3. Head(c \o Home) = Head(c)
        BY <3>1, <3>2, HomeIsOps, FirstOf
    <3>4. Head(todo') = Head(c)
        BY <2>1, <3>1, <3>3, Zenon
    <3>5. Head(todo') # Reset
        BY <3>2, <3>4, PrintNames
    <3> QED
        BY <3>5 DEF Resetting
  <2> QED
      BY <2>1, <2>2, <2>3, CommandGoesOn
<1> QED
    BY <1>3, <1>4, <1>5, NextCall

\* What stays as it is in a call.
LEMMA CallKeepsRest ==
    ASSUME Inv, todo # <<>>, UNCHANGED <<keyboard, pc, buf, input, i, firstLine>>,
           keyboard_row' \in Nat, keyboard_col' \in Nat, cursor' \in Nat,
           screen' \in [Cell -> Glyph], orderly' \in BOOLEAN, spilled' \in BOOLEAN
    PROVE  (TypeOK /\ KeyInv /\ InputInv /\ LineInv)'
<1>1. /\ pc \in {"start", "command"}
      /\ UNCHANGED <<keyboard_input_on, keyboard_buffer, print_mode, pc, buf, input, i, firstLine>>
    BY DEF keyboard, Inv, CommandInv
<1>2. TypeOK'
  <2>1. (keyboard_input_on \in BOOLEAN /\ print_mode \in BOOLEAN)'
      BY <1>1 DEF Inv, TypeOK
  <2>2. (/\ keyboard_buffer \in Key \cup {NUL} /\ buf \in Key \cup {NUL}
         /\ pc \in {"start", "poll", "erase", "echo", "append", "enter", "command", "overrun"}
         /\ input \in [0 .. INPUT_SIZE - 1 -> Char \cup {BACKSPACE, NUL, JUNK}]
         /\ i \in 0 .. INPUT_SIZE)'
      BY <1>1 DEF Inv, TypeOK
  <2>3. ({orderly, spilled, firstLine} \subseteq BOOLEAN)'
      BY <1>1 DEF Inv, TypeOK
  <2> QED
      BY <2>1, <2>2, <2>3 DEF TypeOK
<1>3. KeyInv'
    BY <1>1 DEF Inv, KeyInv
<1>4. LineInv'
    BY <1>1 DEF LineInv, Typing
<1>5. InputInv'
    BY <1>1 DEF Inv, InputInv
<1> QED
    BY <1>2, <1>3, <1>4, <1>5

\* A command goes on.
LEMMA CommandContinues ==
    ASSUME NEW b \in Left, b # <<>>, todo' = Tail(b) \o Home, pc' = "command"
    PROVE  CommandInv'
<1>1. Tail(b) \in Left
    BY CommandGoesOn
<1>2. \E c \in Left : todo' = c \o Home
    BY <1>1, Zenon
<1>3. (\E c \in Left : todo = c \o Home)'
    BY <1>2
<1> QED
    BY <1>3 DEF CommandInv

\* What puts does to the position.
LEMMA ShowMoves ==
    ASSUME TypeOK, NEW x \in Glyph, NEW n \in Nat, Show(x, n)
    PROVE  /\ keyboard_row' = keyboard_row /\ keyboard_col' = keyboard_col + n
           /\ keyboard_row' \in Nat /\ keyboard_col' \in Nat /\ cursor' \in Nat
           /\ Base' = Base /\ Pos' = Pos + n
           /\ cursor' = CellOf(keyboard_row, keyboard_col + n)
           /\ screen' \in [Cell -> Glyph] /\ orderly' \in BOOLEAN /\ spilled' \in BOOLEAN
           /\ keyboard_row < BYTE /\ keyboard_col + n <= BYTE =>
                 \A p \in Cell : screen'[p] = IF p >= Pos /\ p < Pos + n THEN x ELSE screen[p]
<1>1. /\ screen' = Written(keyboard_row, keyboard_col, x, n) /\ keyboard_row' = keyboard_row
      /\ keyboard_col' = keyboard_col + n /\ cursor' = CellOf(keyboard_row, keyboard_col + n)
      /\ orderly' \in BOOLEAN /\ spilled' \in BOOLEAN
    BY DEF Show
<1>2. /\ keyboard_row \in Nat /\ keyboard_col \in Nat /\ Base \in Nat
      /\ Pos = Base + keyboard_col /\ Pos \in Nat
    BY Positions
<1>3. Base' = Base /\ Pos' = Base + (keyboard_col + n)
    BY <1>1 DEF Base, Pos
<1>4. screen' \in [Cell -> Glyph]
    BY <1>1, WrittenTyped DEF TypeOK
<1>5. ASSUME keyboard_row < BYTE, keyboard_col + n <= BYTE, NEW p \in Cell
      PROVE  screen'[p] = IF p >= Pos /\ p < Pos + n THEN x ELSE screen[p]
    BY <1>1, <1>2, <1>5, WritesCells DEF Base
<1>6. keyboard_col + n \in Nat /\ Base + (keyboard_col + n) = Pos + n
    BY <1>2
<1>7. cursor' \in Nat
    BY <1>1, <1>2, <1>6, CellOfTyped
<1> QED
    BY <1>1, <1>2, <1>3, <1>4, <1>5, <1>6, <1>7

LEMMA ShowBlank ==
    ASSUME TypeOK, BlankInv, ~Resetting, ~Resetting', NEW x \in Glyph, NEW n \in Nat, Show(x, n)
    PROVE  BlankInv'
<1>1. cursor' = CellOf(keyboard_row, keyboard_col)'
    BY ShowMoves DEF CellOf
<1>2. ASSUME ~spilled'
      PROVE  (keyboard_row < BYTE /\ keyboard_col <= WIDTH /\ BlankFrom(Pos))'
  <2>1. ~spilled /\ keyboard_col + n <= WIDTH
    <3>1. keyboard_col + n \in Nat /\ WIDTH \in Nat
        BY Positions
    <3>2. ~ (spilled \/ keyboard_col + n > WIDTH)
        BY <1>2, Zenon DEF Show
    <3> QED
        BY <3>1, <3>2
  <2>2. keyboard_row < BYTE /\ BlankFrom(Pos)
      BY <2>1 DEF BlankInv
  <2>3. /\ Pos \in Nat /\ Pos' = Pos + n /\ keyboard_row' = keyboard_row
        /\ keyboard_col' = keyboard_col + n /\ keyboard_col + n <= BYTE
      BY <2>1, Positions, ShowMoves, Sizes
  <2>4. \A p \in Cell : screen'[p] = IF p >= Pos /\ p < Pos + n THEN x ELSE screen[p]
      BY <2>2, <2>3, ShowMoves
  <2>5. ASSUME NEW q \in Cell, q >= Pos + n PROVE screen'[q] = BLANK
    <3>1. q \in Nat
        BY CellsAreNumbers
    <3>2. q >= Pos /\ ~ (q < Pos + n)
        BY <2>3, <2>5, <3>1
    <3> QED
        BY <2>2, <2>4, <3>2 DEF BlankFrom
  <2> QED
      BY <2>1, <2>2, <2>3, <2>5 DEF BlankFrom
<1> QED
    BY <1>1, <1>2 DEF BlankInv

\* One more call of show_home.
LEMMA PromptGrows ==
    ASSUME TypeOK, NEW m \in Nat, orderly => Prompting(m), NEW n \in Nat \ {0},
           Show(PROMPT, n), orderly'
    PROVE  Prompting(m + n)'
<1>1. /\ keyboard_row \in Nat /\ keyboard_col \in Nat /\ Base \in Nat
      /\ Pos = Base + keyboard_col /\ Pos \in Nat /\ ROWS * WIDTH \in Nat /\ BYTE \in Nat
    BY Positions, Sizes
<1>2. PROMPT # OUTPUT /\ PROMPT \in Glyph
    BY ConsoleAssumption DEF ConsoleAssumption, Glyph
<1>3. orderly /\ Visible(keyboard_row, keyboard_col + n - 1)
    BY <1>2 DEF Show
<1>4. Prompting(m)
    BY <1>3
<1>5. keyboard_row < BYTE /\ keyboard_col + n <= BYTE
    BY <1>1, <1>3 DEF Visible
<1>6. Pos + n <= ROWS * WIDTH
  <2>1. keyboard_col + n - 1 \in Nat /\ keyboard_col + n - 1 < BYTE
      BY <1>1, <1>5
  <2>2. CellOf(keyboard_row, keyboard_col + n - 1) = Base + (keyboard_col + n - 1)
      BY <1>1, <1>5, <2>1, CellIsPosition DEF Base
  <2>3. Base + (keyboard_col + n - 1) \in 0 .. ROWS * WIDTH - 1
      BY <1>3, <2>2 DEF Visible, Cell
  <2> QED
      BY <1>1, <2>3
<1>7. /\ keyboard_row' = keyboard_row /\ keyboard_col' = keyboard_col + n /\ Pos' = Pos + n
      /\ \A p \in Cell : screen'[p] = IF p >= Pos /\ p < Pos + n THEN PROMPT ELSE screen[p]
    BY <1>2, <1>5, ShowMoves
<1>8. Seen'
    BY <1>5, <1>6, <1>7 DEF Seen
<1>9. keyboard_col >= m
    BY <1>1, <1>4 DEF Prompting
<1>10. ASSUME NEW q \in Pos + n - (m + n) .. Pos + n - 1 PROVE screen'[q] = PROMPT
  <2>1. q \in Int /\ q >= Pos - m /\ q < Pos + n /\ q >= 0 /\ q < ROWS * WIDTH
      BY <1>1, <1>6, <1>9, <1>10
  <2>2. q \in Cell
      BY <1>1, <2>1 DEF Cell
  <2>3. CASE q >= Pos
      BY <1>7, <2>1, <2>2, <2>3
  <2>4. CASE ~ (q >= Pos)
    <3>1. m > 0 /\ q \in Pos - m .. Pos - 1
        BY <1>1, <2>1, <2>4
    <3>2. screen[q] = PROMPT
        BY <1>4, <3>1 DEF Prompting, PromptBefore
    <3> QED
        BY <1>7, <2>2, <2>4, <3>2
  <2> QED
      BY <2>3, <2>4
<1>11. PromptBefore(Pos, m + n)'
  <2>1. \A q \in Pos' - (m + n) .. Pos' - 1 : screen'[q] = PROMPT
    <3>1. Pos' = Pos + n
        BY <1>7
    <3>2. \A q \in Pos + n - (m + n) .. Pos + n - 1 : screen'[q] = PROMPT
        BY <1>10
    <3> QED
        BY <1>1, <3>1, <3>2
  <2> QED
      BY <2>1 DEF PromptBefore
<1>12. keyboard_col' >= m + n
    BY <1>1, <1>7, <1>9
<1> QED
    BY <1>8, <1>11, <1>12 DEF Prompting

LEMMA PutsInv == ASSUME Inv, puts PROVE Inv'
<1>1. /\ todo # <<>> /\ Head(todo).op = "puts" /\ todo' = Tail(todo)
      /\ Show(Head(todo).char, Head(todo).size)
      /\ UNCHANGED <<keyboard, pc, buf, input, i>> /\ pc' = pc
    BY DEF puts, Call
<1>2. TypeOK /\ BlankInv /\ CommandInv
    BY DEF Inv
<1>3. Head(todo) # Clear /\ Head(todo) # Reset /\ Head(todo) # Activate
    BY <1>1, OpNames
<1>4. ~Resetting /\ ~Resetting'
    BY <1>1, <1>2, <1>3, NotResettingNext DEF Resetting
<1>5. ASSUME NEW x \in {PROMPT, OUTPUT}, NEW n \in Nat, Head(todo) = Puts(x, n)
      PROVE  Show(x, n) /\ (TypeOK /\ KeyInv /\ InputInv /\ LineInv /\ BlankInv)'
  <2>1. Puts(x, n).char = x /\ Puts(x, n).size = n
      BY OpNames
  <2>2. Show(x, n)
      BY <1>1, <1>5, <2>1, Zenon
  <2>3. x \in Glyph
      BY DEF Glyph
  <2>4. BlankInv'
      BY <1>2, <1>4, <2>2, <2>3, ShowBlank
  <2>5. /\ keyboard_row' \in Nat /\ keyboard_col' \in Nat /\ cursor' \in Nat
        /\ screen' \in [Cell -> Glyph] /\ orderly' \in BOOLEAN /\ spilled' \in BOOLEAN
      BY <1>2, <2>2, <2>3, ShowMoves
  <2>6. UNCHANGED firstLine
      BY <2>2 DEF Show
  <2> QED
      BY <1>1, <2>2, <2>4, <2>5, <2>6, CallKeepsRest
<1>6. CASE \E k \in 0 .. 4 : \E n \in Nat \ {0} :
              /\ orderly => Prompting(HomeDone(k))
              /\ HomeDone(k + 1) = HomeDone(k) + n /\ Head(todo) = Puts(PROMPT, n)
              /\ \/ pc = "start" /\ Tail(todo) = HomeRest(k + 1) \o <<Activate>>
                 \/ pc = "command" /\ Tail(todo) = HomeRest(k + 1)
  <2>1. PICK k \in 0 .. 4, n \in Nat \ {0} :
            /\ orderly => Prompting(HomeDone(k))
            /\ HomeDone(k + 1) = HomeDone(k) + n /\ Head(todo) = Puts(PROMPT, n)
            /\ \/ pc = "start" /\ Tail(todo) = HomeRest(k + 1) \o <<Activate>>
               \/ pc = "command" /\ Tail(todo) = HomeRest(k + 1)
      BY <1>6
  <2>2. PICK m \in 0 .. 5 : m = k + 1
      OBVIOUS
  <2>3. HomeDone(k) \in Nat
    <3>1. k \in 0 .. 5
        OBVIOUS
    <3> QED
        BY <3>1, HomeGoesOn
  <2>4. Show(PROMPT, n) /\ (TypeOK /\ KeyInv /\ InputInv /\ LineInv /\ BlankInv)'
      BY <1>5, <2>1
  <2>5. HomeDone(m) = HomeDone(k) + n
      BY <2>1, <2>2
  <2>6. orderly' => Prompting(HomeDone(m))'
    <3>1. SUFFICES ASSUME orderly' PROVE Prompting(HomeDone(m))'
        OBVIOUS
    <3>2. PICK d \in Nat : d = HomeDone(k)
        BY <2>3
    <3>3. orderly => Prompting(d)
        BY <2>1, <3>2
    <3>4. Prompting(d + n)'
        BY <1>2, <2>4, <3>1, <3>3, PromptGrows
    <3> QED
        BY <2>5, <3>2, <3>4
  <2>7. CommandInv'
    <3>1. CASE pc = "start" /\ Tail(todo) = HomeRest(k + 1) \o <<Activate>>
      <4>1. pc' = "start" /\ todo' = HomeRest(m) \o <<Activate>>
          BY <1>1, <2>2, <3>1, Zenon
      <4>2. (\E l \in 0 .. 5 : /\ todo = HomeRest(l) \o <<Activate>>
                               /\ orderly => Prompting(HomeDone(l)))'
          BY <2>6, <4>1
      <4> QED
          BY <4>1, <4>2 DEF CommandInv
    <3>2. CASE pc = "command" /\ Tail(todo) = HomeRest(k + 1)
      <4>1. pc' = "command" /\ todo' = HomeRest(m)
          BY <1>1, <2>2, <3>2, Zenon
      <4>2. (\E l \in 0 .. 5 : todo = HomeRest(l) /\ (orderly => Prompting(HomeDone(l))))'
          BY <2>6, <4>1
      <4> QED
          BY <4>1, <4>2 DEF CommandInv
    <3> QED
        BY <2>1, <3>1, <3>2
  <2> QED
      BY <2>4, <2>7 DEF Inv
<1>7. CASE /\ pc = "command"
           /\ \E b \in Left : /\ b # <<>> /\ todo = b \o Home
                              /\ Head(todo) = Head(b) /\ Tail(todo) = Tail(b) \o Home
  <2>1. PICK b \in Left : b # <<>> /\ Head(todo) = Head(b) /\ Tail(todo) = Tail(b) \o Home
      BY <1>7
  <2>2. Head(b) \in Prints
      BY <1>3, <2>1, CommandGoesOn
  <2>3. PICK n \in Nat : Head(todo) = Puts(OUTPUT, n)
      BY <1>1, <2>1, <2>2, PrintNames
  <2>4. (TypeOK /\ KeyInv /\ InputInv /\ LineInv /\ BlankInv)'
      BY <1>5, <2>3
  <2>5. CommandInv'
      BY <1>1, <1>7, <2>1, CommandContinues
  <2> QED
      BY <2>4, <2>5 DEF Inv
<1> QED
    BY <1>1, <1>2, <1>3, <1>6, <1>7, NextCall, Zenon

\* The other calls of a command.
LEMMA OtherCall ==
    ASSUME Inv, todo # <<>>, Head(todo).op \in {"newline", "reset", "clear"}, pc' = pc,
           todo' = Tail(todo)
    PROVE  /\ CommandInv'
           /\ \E b \in Left : /\ b # <<>> /\ todo = b \o Home
                              /\ Head(todo) = Head(b) /\ Tail(todo) = Tail(b) \o Home
<1>1. Head(todo) # Activate
    BY OpNames
<1>2. ASSUME NEW n, Head(todo) = Puts(PROMPT, n) PROVE FALSE
  <2>1. Puts(PROMPT, n).op = "puts"
      BY OpNames
  <2> QED
      BY <1>2, <2>1
<1>3. /\ pc = "command"
      /\ \E b \in Left : /\ b # <<>> /\ todo = b \o Home
                         /\ Head(todo) = Head(b) /\ Tail(todo) = Tail(b) \o Home
    BY <1>1, <1>2, NextCall, Zenon DEF Inv
<1>4. CommandInv'
    BY <1>3, CommandContinues
<1> QED
    BY <1>3, <1>4

LEMMA PutsNewlineInv == ASSUME Inv, puts_newline PROVE Inv'
<1>1. /\ todo # <<>> /\ Head(todo).op = "newline" /\ todo' = Tail(todo)
      /\ keyboard_row' = keyboard_row + 1 /\ keyboard_col' = 0
      /\ cursor' = CellOf(keyboard_row + 1, 0) /\ screen' = screen
      /\ spilled' = (spilled \/ keyboard_row + 1 >= BYTE)
      /\ UNCHANGED <<keyboard, pc, buf, input, i, orderly, firstLine>> /\ pc' = pc
    BY DEF puts_newline, Call
<1>2. /\ keyboard_row \in Nat /\ keyboard_col \in Nat /\ Base \in Nat /\ WIDTH \in Nat
      /\ BYTE \in Nat /\ Pos = Base + keyboard_col
    BY Positions, Sizes DEF Inv
<1>3. Head(todo) # Clear /\ Head(todo) # Reset
    BY <1>1, OpNames
<1>4. ~Resetting /\ ~Resetting'
    BY <1>1, <1>3, NotResettingNext DEF Inv, Resetting
<1>5. (TypeOK /\ KeyInv /\ InputInv /\ LineInv)'
  <2>1. keyboard_row + 1 \in Nat /\ 0 \in Nat
      BY <1>2
  <2>2. cursor' \in Nat
      BY <1>1, <2>1, CellOfTyped
  <2>3. screen' \in [Cell -> Glyph] /\ orderly' \in BOOLEAN /\ spilled' \in BOOLEAN
      BY <1>1 DEF Inv, TypeOK
  <2> QED
      BY <1>1, <2>1, <2>2, <2>3, CallKeepsRest
<1>6. CommandInv'
    BY <1>1, OtherCall
<1>7. BlankInv'
  <2>1. cursor' = CellOf(keyboard_row, keyboard_col)'
      BY <1>1 DEF CellOf
  <2>2. ASSUME ~spilled'
        PROVE  (keyboard_row < BYTE /\ keyboard_col <= WIDTH /\ BlankFrom(Pos))'
    <3>1. ~spilled /\ ~ (keyboard_row + 1 >= BYTE)
        BY <1>1, <2>2, Zenon
    <3>2. keyboard_col <= WIDTH /\ BlankFrom(Pos)
        BY <1>4, <3>1 DEF Inv, BlankInv
    <3>3. Pos' = Base + WIDTH
      <4>1. (keyboard_row + 1) * WIDTH = keyboard_row * WIDTH + WIDTH
          BY <1>2
      <4>2. Base' = Base + WIDTH
          BY <1>1, <4>1 DEF Base
      <4>3. Pos' = Base' + 0
          BY <1>1 DEF Pos
      <4> QED
          BY <1>2, <4>2, <4>3
    <3>4. ASSUME NEW q \in Cell, q >= Base + WIDTH PROVE screen'[q] = BLANK
      <4>1. q \in Nat
          BY CellsAreNumbers
      <4>2. q >= Pos
          BY <1>2, <3>2, <3>4, <4>1
      <4> QED
          BY <1>1, <3>2, <4>2 DEF BlankFrom
    <3>5. BlankFrom(Pos)'
        BY <3>3, <3>4 DEF BlankFrom
    <3>6. keyboard_row' < BYTE /\ keyboard_col' <= WIDTH
        BY <1>1, <1>2, <3>1
    <3> QED
        BY <3>5, <3>6
  <2> QED
      BY <1>4, <2>1, <2>2 DEF BlankInv
<1> QED
    BY <1>5, <1>6, <1>7 DEF Inv

LEMMA ResetInv == ASSUME Inv, reset_keyboard_state PROVE Inv'
<1>1. /\ todo # <<>> /\ Head(todo).op = "reset" /\ todo' = Tail(todo)
      /\ keyboard_row' = 0 /\ keyboard_col' = 0 /\ cursor' = 0 /\ screen' = screen
      /\ UNCHANGED <<keyboard, pc, buf, input, i, orderly, spilled, firstLine>> /\ pc' = pc
    BY DEF reset_keyboard_state, Call, history
<1>2. PICK b \in Left : /\ b # <<>> /\ Head(todo) = Head(b)
    BY <1>1, OtherCall
<1>3. Head(todo) = Reset /\ Head(todo) # Clear
  <2>1. Head(todo) # Clear
      BY <1>1, OpNames
  <2>2. Head(todo) \notin Prints
      BY <1>1, PrintNames
  <2> QED
      BY <1>2, <2>1, <2>2, CommandGoesOn
<1>4. Resetting /\ ~Resetting'
    BY <1>1, <1>3, NotResettingNext DEF Inv, Resetting
<1>5. (TypeOK /\ KeyInv /\ InputInv /\ LineInv)'
  <2>1. screen' \in [Cell -> Glyph] /\ orderly' \in BOOLEAN /\ spilled' \in BOOLEAN
      BY <1>1 DEF Inv, TypeOK
  <2> QED
      BY <1>1, <2>1, CallKeepsRest
<1>6. CommandInv'
    BY <1>1, OtherCall
<1>7. BlankInv'
  <2>1. WIDTH \in Nat /\ BYTE \in Nat /\ BYTE > 0
      BY Sizes
  <2>2. CellOf(0, 0) = 0 * WIDTH + 0 /\ 0 * WIDTH = 0
      BY <2>1, CellIsPosition
  <2>3. cursor' = CellOf(keyboard_row, keyboard_col)'
    <3>1. CellOf(keyboard_row, keyboard_col)' = CellOf(0, 0)
        BY <1>1 DEF CellOf
    <3> QED
        BY <1>1, <2>2, <3>1
  <2>4. Pos' = 0
      BY <1>1, <2>2 DEF Pos, Base
  <2>5. BlankFrom(0)
      BY <1>4 DEF Inv, BlankInv
  <2>6. BlankFrom(Pos)'
      BY <1>1, <2>4, <2>5 DEF BlankFrom
  <2> QED
      BY <1>1, <1>4, <2>1, <2>3, <2>6 DEF BlankInv
<1> QED
    BY <1>5, <1>6, <1>7 DEF Inv

LEMMA ClearInv == ASSUME Inv, framebuffer_clear PROVE Inv'
<1>1. /\ todo # <<>> /\ Head(todo).op = "clear" /\ todo' = Tail(todo)
      /\ screen' = [p \in Cell |-> BLANK] /\ cursor' = 0 /\ spilled' = FALSE
      /\ UNCHANGED <<keyboard, keyboard_row, keyboard_col, pc, buf, input, i, orderly, firstLine>>
      /\ pc' = pc
    BY DEF framebuffer_clear, Call
<1>2. PICK b \in Left : /\ b # <<>> /\ Head(todo) = Head(b) /\ Tail(todo) = Tail(b) \o Home
    BY <1>1, OtherCall
<1>3. Tail(b) = <<Reset>>
  <2>1. Head(todo) # Reset
      BY <1>1, OpNames
  <2>2. Head(todo) \notin Prints
      BY <1>1, PrintNames
  <2> QED
      BY <1>2, <2>1, <2>2, CommandGoesOn
<1>4. Resetting'
  <2>1. Reset \in Ops
      BY DEF Ops
  <2>2. <<Reset>> \in Seq(Ops)
      BY <2>1
  <2>3. PICK r \in Seq(Ops) : r = <<Reset>>
      BY <2>2, Zenon
  <2>4. r # <<>> /\ Head(r) = Reset
      BY <2>3
  <2>5. r \o Home # <<>> /\ Head(r \o Home) = Reset
      BY <2>4, HomeIsOps, FirstOf
  <2>6. todo' = r \o Home
      BY <1>1, <1>2, <1>3, <2>3, Zenon
  <2> QED
      BY <2>5, <2>6, Zenon DEF Resetting
<1>5. (TypeOK /\ KeyInv /\ InputInv /\ LineInv)'
  <2>1. screen' \in [Cell -> Glyph]
      BY <1>1 DEF Glyph
  <2>2. /\ keyboard_row' \in Nat /\ keyboard_col' \in Nat /\ cursor' \in Nat
        /\ orderly' \in BOOLEAN /\ spilled' \in BOOLEAN
      BY <1>1 DEF Inv, TypeOK
  <2> QED
      BY <1>1, <2>1, <2>2, CallKeepsRest
<1>6. CommandInv'
    BY <1>1, OtherCall
<1>7. BlankInv'
    BY <1>1, <1>4 DEF BlankInv, BlankFrom
<1> QED
    BY <1>5, <1>6, <1>7 DEF Inv

\* A line begins behind a whole prompt.
LEMMA LineBegins ==
    ASSUME TypeOK, orderly => Prompting(EDIT_COL), pc' = "poll", i' = 0,
           UNCHANGED <<keyboard_row, keyboard_col, screen, orderly>>
    PROVE  LineInv'
<1>1. SUFFICES ASSUME orderly PROVE LineInv'
    BY DEF LineInv
<1>2. Seen /\ keyboard_col >= EDIT_COL /\ PromptBefore(Pos, EDIT_COL)
    BY <1>1, Sizes DEF Prompting
<1>3. Shown' = 0
    BY DEF Shown, Taken
<1>4. Pos' = Pos /\ Pos \in Nat /\ keyboard_col \in Nat
    BY Positions DEF Pos, Base
<1>5. Seen'
    BY <1>2, <1>4 DEF Seen
<1>6. keyboard_col' - Shown' >= EDIT_COL /\ Pos' - Shown' = Pos
    BY <1>2, <1>3, <1>4
<1>7. \A q \in Pos - EDIT_COL .. Pos - 1 : screen'[q] = PROMPT
    BY <1>2 DEF PromptBefore
<1>8. PromptBefore(Pos - Shown, EDIT_COL)'
    BY <1>6, <1>7 DEF PromptBefore
<1>9. \A j \in 0 .. Shown' - 1 : screen'[Pos' - Shown' + j] = LineChar(j)'
    BY <1>3
<1>10. pc' # "echo"
    OBVIOUS
<1> QED
    BY <1>5, <1>6, <1>8, <1>9, <1>10 DEF LineInv

LEMMA ActivateInv == ASSUME Inv, keyboard_state_activate PROVE Inv'
<1>1. /\ todo # <<>> /\ Head(todo).op = "activate" /\ todo' = Tail(todo)
      /\ keyboard_input_on' = TRUE /\ pc' = "poll"
      /\ UNCHANGED <<keyboard_buffer, print_mode, buf, input, i>>
      /\ UNCHANGED <<keyboard_row, keyboard_col, screen, cursor, orderly, spilled, firstLine>>
    BY DEF keyboard_state_activate, Call, display, history
<1>2. /\ pc = "start" /\ Head(todo) = Activate /\ Tail(todo) = <<>>
      /\ orderly => Prompting(EDIT_COL)
  <2>1. ASSUME NEW n, Head(todo) = Puts(PROMPT, n) PROVE FALSE
    <3>1. Puts(PROMPT, n).op = "puts"
        BY OpNames
    <3> QED
        BY <1>1, <2>1, <3>1
  <2>2. ASSUME NEW b \in Left, b # <<>>, Head(todo) = Head(b) PROVE FALSE
    <3>1. Head(todo) # Clear /\ Head(todo) # Reset
        BY <1>1, OpNames
    <3>2. Head(todo) \notin Prints
        BY <1>1, PrintNames
    <3> QED
        BY <2>2, <3>1, <3>2, CommandGoesOn
  <2> QED
      BY <1>1, <2>1, <2>2, NextCall, Zenon DEF Inv
<1>3. i = 0 /\ TypeOK
    BY <1>2 DEF Inv, KeyInv
<1>4. TypeOK'
    BY <1>1, <1>3 DEF TypeOK
<1>5. KeyInv'
    BY <1>1 DEF Inv, KeyInv
<1>6. InputInv'
    BY <1>1 DEF Inv, InputInv
<1>7. LineInv'
    BY <1>1, <1>2, <1>3, LineBegins
<1>8. CommandInv'
    BY <1>1, <1>2 DEF CommandInv
<1>9. BlankInv'
  <2>1. ~Resetting
    <3>1. Activate # Reset
        BY OpNames
    <3> QED
        BY <1>2, <3>1 DEF Resetting
  <2>2. ~Resetting'
      BY <1>1, <1>2 DEF Resetting
  <2> QED
      BY <1>1, <2>1, <2>2 DEF Inv, BlankInv, BlankFrom, Pos, Base
<1> QED
    BY <1>4, <1>5, <1>6, <1>7, <1>8, <1>9 DEF Inv

-----------------------------------------------------------------------------
(* The steps of the shell's loop keep it *)

\* The lengths are numbers and no length is above the line's and the key's.
LEMMA LineLength ==
    ASSUME TypeOK
    PROVE  i \in Nat /\ Taken \in Nat /\ Shown \in Nat /\ Shown <= Taken
           /\ (~Rubbing => Shown = Taken)
<1>1. i \in Nat
    BY Sizes DEF TypeOK
<1>2. Taken \in Nat
    BY <1>1 DEF Taken
<1> QED
    BY <1>1, <1>2 DEF Shown

\* Where neither the screen nor what is shown changes, the line stays on the screen.
LEMMA LineStays ==
    ASSUME LineInv, Typing, Shown' = Shown,
           UNCHANGED <<keyboard_row, keyboard_col, screen, orderly>>,
           \A j \in 0 .. Shown - 1 : LineChar(j)' = LineChar(j),
           orderly' => (pc' = "echo" => keyboard_buffer' # BACKSPACE)
    PROVE  LineInv'
<1>1. SUFFICES ASSUME orderly PROVE LineInv'
    BY DEF LineInv
<1>2. /\ Seen /\ keyboard_col - Shown >= EDIT_COL
      /\ PromptBefore(Pos - Shown, EDIT_COL)
      /\ \A j \in 0 .. Shown - 1 : screen[Pos - Shown + j] = LineChar(j)
    BY <1>1 DEF LineInv
<1>3. Pos' = Pos /\ Base' = Base
    BY DEF Pos, Base
<1>4. Seen' /\ keyboard_col' - Shown' >= EDIT_COL
    BY <1>2, <1>3 DEF Seen
<1>5. PromptBefore(Pos - Shown, EDIT_COL)'
    BY <1>2, <1>3 DEF PromptBefore
<1>6. \A j \in 0 .. Shown' - 1 : screen'[Pos' - Shown' + j] = LineChar(j)'
    BY <1>2, <1>3
<1> QED
    BY <1>1, <1>4, <1>5, <1>6 DEF LineInv

\* Where the position, the screen and the calls are left alone, so is BlankInv.
LEMMA BlankStays ==
    ASSUME BlankInv, todo' = todo,
           UNCHANGED <<keyboard_row, keyboard_col, screen, cursor, spilled>>
    PROVE  BlankInv'
    BY DEF BlankInv, Resetting, BlankFrom, Pos, Base, CellOf

LEMMA PollInv == ASSUME Inv, Poll PROVE Inv'
<1>1. /\ pc = "poll" /\ buf' = keyboard_buffer /\ keyboard_buffer' = NUL /\ print_mode' = FALSE
      /\ pc' = CASE keyboard_buffer = NUL -> "poll"
                 [] keyboard_buffer # NUL /\ ~print_mode -> "erase"
                 [] keyboard_buffer = NEWLINE /\ print_mode -> "enter"
                 [] OTHER -> "echo"
      /\ UNCHANGED <<keyboard_input_on, input, i, todo>>
      /\ UNCHANGED <<keyboard_row, keyboard_col, screen, cursor, orderly, spilled, firstLine>>
    BY DEF Poll, display, history
<1>2. BACKSPACE # NUL /\ NUL \notin Char /\ NEWLINE # NUL /\ BACKSPACE # NEWLINE /\ BACKSPACE \notin Char
    BY ConsoleAssumption DEF ConsoleAssumption
<1>3. keyboard_buffer \in Char \cup {BACKSPACE, NEWLINE, NUL}
    BY DEF Inv, TypeOK, Key
<1>4. /\ keyboard_buffer \in Char \cup {NEWLINE} => print_mode
      /\ print_mode \in BOOLEAN
    BY DEF Inv, KeyInv, TypeOK
<1>5. \/ keyboard_buffer = NUL /\ pc' = "poll"
      \/ keyboard_buffer = BACKSPACE /\ ~print_mode /\ pc' = "erase"
      \/ keyboard_buffer = NEWLINE /\ print_mode /\ pc' = "enter"
      \/ keyboard_buffer \in Char \cup {BACKSPACE} /\ print_mode /\ pc' = "echo"
  <2>1. CASE keyboard_buffer = NUL
      BY <1>1, <2>1
  <2>2. CASE keyboard_buffer # NUL /\ ~print_mode
      BY <1>1, <1>3, <1>4, <2>2
  <2>3. CASE keyboard_buffer = NEWLINE /\ print_mode
      BY <1>1, <1>2, <2>3
  <2>4. CASE keyboard_buffer \notin {NUL, NEWLINE} /\ print_mode
      BY <1>1, <1>3, <2>4
  <2> QED
      BY <1>4, <2>1, <2>2, <2>3, <2>4
<1>6. TypeOK'
  <2>1. pc' \in {"poll", "erase", "echo", "enter"}
      BY <1>5
  <2> QED
      BY <1>1, <2>1 DEF Inv, TypeOK
<1>7. KeyInv'
    BY <1>1, <1>2, <1>5 DEF Inv, KeyInv
<1>8. InputInv'
    BY <1>1 DEF Inv, InputInv
<1>9. BlankInv'
    BY <1>1, BlankStays DEF Inv
<1>10. CommandInv'
    BY <1>1, <1>5 DEF Inv, CommandInv
<1>11. LineInv'
  <2>1. CASE pc' = "enter"
      BY <2>1 DEF LineInv, Typing
  <2>2. CASE pc' # "enter"
    <3>1. Shown' = Shown
      <4>1. i \in Nat /\ Taken = i
          BY <1>1, LineLength DEF Inv, Taken
      <4>2. Shown' = Taken'
          BY <1>1, <1>2 DEF Shown, Rubbing
      <4>3. CASE keyboard_buffer = BACKSPACE /\ ~print_mode
          BY <1>1, <1>2, <1>5, <4>1, <4>2, <4>3 DEF Taken, Shown, Rubbing
      <4>4. CASE ~ (keyboard_buffer = BACKSPACE /\ ~print_mode)
        <5>1. Shown = i
            BY <4>1, <4>4 DEF Shown, Rubbing
        <5>2. pc' \in {"poll", "echo"}
            BY <1>5, <2>2, <4>4
        <5>3. Taken' = i
            BY <1>1, <5>2 DEF Taken
        <5> QED
            BY <4>2, <5>1, <5>3
      <4> QED
          BY <4>3, <4>4
    <3>2. pc' # "append"
        BY <1>5
    <3>3. \A j \in 0 .. Shown - 1 : LineChar(j)' = LineChar(j)
        BY <1>1, <3>2 DEF LineChar
    <3>4. Typing
        BY <1>1 DEF Typing
    <3> QED
        BY <1>1, <1>2, <3>1, <3>3, <3>4, LineStays DEF Inv
  <2> QED
      BY <2>1, <2>2
<1> QED
    BY <1>6, <1>7, <1>8, <1>9, <1>10, <1>11 DEF Inv

LEMMA EraseLastInv == ASSUME Inv, EraseLast PROVE Inv'
<1>1. /\ pc = "erase" /\ pc' = "poll"
      /\ \/ i > 0 /\ i' = i - 1 /\ input' = [input EXCEPT ![i - 1] = NUL]
         \/ i = 0 /\ UNCHANGED <<input, i>>
      /\ UNCHANGED <<keyboard_input_on, keyboard_buffer, print_mode, buf, todo>>
      /\ UNCHANGED <<keyboard_row, keyboard_col, screen, cursor, orderly, spilled, firstLine>>
    BY DEF EraseLast, keyboard, display, history
<1>2. /\ i \in 0 .. INPUT_SIZE /\ INPUT_SIZE \in Nat
      /\ input \in [0 .. INPUT_SIZE - 1 -> Char \cup {BACKSPACE, NUL, JUNK}]
    BY Sizes DEF Inv, TypeOK
<1>3. /\ i' \in 0 .. INPUT_SIZE
      /\ input' \in [0 .. INPUT_SIZE - 1 -> Char \cup {BACKSPACE, NUL, JUNK}]
    BY <1>1, <1>2
<1>4. TypeOK'
    BY <1>1, <1>3 DEF Inv, TypeOK
<1>5. KeyInv'
    BY <1>1 DEF Inv, KeyInv
<1>6. InputInv'
  <2>1. CASE i = 0 /\ UNCHANGED <<input, i>>
      BY <1>1, <2>1 DEF Inv, InputInv
  <2>2. CASE i > 0 /\ i' = i - 1 /\ input' = [input EXCEPT ![i - 1] = NUL]
    <3>1. \A j \in 0 .. INPUT_SIZE - 1 : input'[j] = IF j = i - 1 THEN NUL ELSE input[j]
        BY <1>2, <2>2
    <3>2. ASSUME NEW j \in 0 .. i' - 1 PROVE input'[j] \in Char \cup {BACKSPACE}
      <4>1. j \in 0 .. i - 1 /\ j # i - 1 /\ j \in 0 .. INPUT_SIZE - 1
          BY <1>2, <2>2, <3>2
      <4> QED
          BY <3>1, <4>1 DEF Inv, InputInv
    <3>3. ASSUME NEW j \in i' .. INPUT_SIZE - 1
          PROVE  input'[j] = NUL \/ (firstLine' /\ input'[j] = JUNK)
      <4>1. j \in 0 .. INPUT_SIZE - 1 /\ (j = i - 1 \/ j \in i .. INPUT_SIZE - 1)
          BY <1>2, <2>2, <3>3
      <4> QED
          BY <1>1, <3>1, <4>1 DEF Inv, InputInv
    <3> QED
        BY <3>2, <3>3 DEF InputInv
  <2> QED
      BY <1>1, <2>1, <2>2
<1>7. BlankInv'
    BY <1>1, BlankStays DEF Inv
<1>8. CommandInv'
    BY <1>1 DEF Inv, CommandInv
<1>9. LineInv'
  <2>1. Taken' = Taken
    <3>1. Taken' = i'
        BY <1>1 DEF Taken
    <3>2. Taken = IF i > 0 THEN i - 1 ELSE i
        BY <1>1 DEF Taken
    <3> QED
        BY <1>1, <1>2, <3>1, <3>2
  <2>2. Shown' = Shown
      BY <1>1, <2>1 DEF Shown, Rubbing
  <2>3. Taken = i' /\ Shown \in Nat /\ Shown <= Taken
      BY <1>1, <2>1, LineLength DEF Inv, Taken
  <2>4. ASSUME NEW j \in 0 .. Shown - 1 PROVE LineChar(j)' = LineChar(j)
    <3>1. j \in 0 .. INPUT_SIZE - 1 /\ j < i'
        BY <1>2, <1>3, <2>3, <2>4
    <3>2. input'[j] = input[j]
        BY <1>1, <1>2, <3>1
    <3> QED
        BY <1>1, <3>2 DEF LineChar
  <2>5. Typing /\ pc' # "echo"
      BY <1>1 DEF Typing
  <2> QED
      BY <1>1, <2>2, <2>4, <2>5, LineStays DEF Inv
<1> QED
    BY <1>4, <1>5, <1>6, <1>7, <1>8, <1>9 DEF Inv

LEMMA EchoInv == ASSUME Inv, Echo PROVE Inv'
<1>1. /\ pc = "echo" /\ pc' = "append" /\ Show(buf, 1)
      /\ UNCHANGED <<keyboard_input_on, keyboard_buffer, print_mode, buf, input, i, todo>>
    BY DEF Echo, keyboard
<1>2. TypeOK /\ BlankInv /\ todo = <<>> /\ buf \in Char \cup {BACKSPACE} /\ i \in Nat
    BY <1>1, LineLength DEF Inv, CommandInv, KeyInv
<1>3. ~Resetting /\ ~Resetting'
    BY <1>1, <1>2 DEF Resetting
<1>4. buf \in Glyph /\ buf # OUTPUT
    BY <1>2, ConsoleAssumption DEF ConsoleAssumption, Glyph
<1>5. /\ keyboard_row' = keyboard_row /\ keyboard_col' = keyboard_col + 1
      /\ keyboard_row' \in Nat /\ keyboard_col' \in Nat /\ cursor' \in Nat
      /\ Base' = Base /\ Pos' = Pos + 1
      /\ screen' \in [Cell -> Glyph] /\ orderly' \in BOOLEAN /\ spilled' \in BOOLEAN
      /\ keyboard_row < BYTE /\ keyboard_col + 1 <= BYTE =>
            \A p \in Cell : screen'[p] = IF p >= Pos /\ p < Pos + 1 THEN buf ELSE screen[p]
    BY <1>1, <1>2, <1>4, ShowMoves
<1>6. UNCHANGED firstLine
    BY <1>1 DEF Show
<1>7. TypeOK'
  <2>1. ({orderly, spilled, firstLine} \subseteq BOOLEAN)'
      BY <1>2, <1>5, <1>6 DEF TypeOK
  <2> QED
      BY <1>1, <1>2, <1>5, <2>1 DEF TypeOK
<1>8. KeyInv'
    BY <1>1, <1>2 DEF Inv, KeyInv
<1>9. InputInv'
    BY <1>1, <1>6 DEF Inv, InputInv
<1>10. BlankInv'
    BY <1>1, <1>2, <1>3, <1>4, ShowBlank
<1>11. CommandInv'
    BY <1>1, <1>2 DEF CommandInv
<1>12. ASSUME orderly'
       PROVE  LineInv'
  <2>1. orderly /\ Visible(keyboard_row, keyboard_col)
    <3>1. orderly /\ Visible(keyboard_row, keyboard_col + 1 - 1)
        BY <1>1, <1>4, <1>12 DEF Show
    <3>2. keyboard_col + 1 - 1 = keyboard_col
        BY <1>2, Positions
    <3> QED
        BY <3>1, <3>2
  <2>2. Typing
      BY <1>1 DEF Typing
  <2>3. keyboard_buffer # BACKSPACE
      BY <1>1, <2>1, <2>2 DEF Inv, LineInv
  <2>4. Shown = i /\ Shown' = i + 1
    <3>1. Taken = i /\ Taken' = i + 1
        BY <1>1 DEF Taken
    <3> QED
        BY <1>1, <2>3, <3>1 DEF Shown, Rubbing
  <2>5. /\ keyboard_row \in Nat /\ keyboard_col \in Nat /\ Base \in Nat /\ Pos \in Nat
        /\ Pos = Base + keyboard_col /\ ROWS * WIDTH \in Nat /\ EDIT_COL \in Nat /\ BYTE \in Nat
      BY <1>2, Positions, Sizes
  <2>6. keyboard_row < BYTE /\ keyboard_col < BYTE
      BY <2>1 DEF Visible
  <2>7. Pos \in Cell
      BY <2>1, <2>5, <2>6, CellIsPosition DEF Visible, Base
  <2>8. Pos < ROWS * WIDTH
      BY <2>5, <2>7 DEF Cell
  <2>9. /\ keyboard_col - i >= EDIT_COL /\ PromptBefore(Pos - i, EDIT_COL)
        /\ \A j \in 0 .. i - 1 : screen[Pos - i + j] = LineChar(j)
      BY <2>1, <2>2, <2>4 DEF Inv, LineInv
  <2>10. \A p \in Cell : screen'[p] = IF p >= Pos /\ p < Pos + 1 THEN buf ELSE screen[p]
      BY <1>5, <2>5, <2>6
  <2>11. ASSUME NEW q \in Pos - i - EDIT_COL .. Pos - 1 PROVE screen'[q] = screen[q]
    <3>1. q \in Int /\ q < Pos /\ q >= 0
        BY <1>2, <2>5, <2>9, <2>11
    <3>2. q \in Cell
        BY <2>5, <2>8, <3>1 DEF Cell
    <3> QED
        BY <2>5, <2>10, <3>1, <3>2
  <2>12. Pos' - Shown' = Pos - i /\ keyboard_col' - Shown' = keyboard_col - i
      BY <1>2, <1>5, <2>4, <2>5
  <2>13. Seen'
    <3>1. keyboard_col + 1 <= BYTE /\ Pos + 1 <= ROWS * WIDTH
        BY <2>5, <2>6, <2>8
    <3> QED
        BY <1>5, <2>6, <3>1 DEF Seen
  <2>14. PromptBefore(Pos - Shown, EDIT_COL)'
    <3>1. ASSUME NEW q \in Pos - i - EDIT_COL .. Pos - i - 1 PROVE screen'[q] = PROMPT
      <4>1. q \in Pos - i - EDIT_COL .. Pos - 1
          BY <1>2, <2>5, <3>1
      <4>2. screen[q] = PROMPT
          BY <2>9, <3>1 DEF PromptBefore
      <4> QED
          BY <2>11, <4>1, <4>2
    <3> QED
        BY <2>12, <3>1 DEF PromptBefore
  <2>15. ASSUME NEW j \in 0 .. i PROVE screen'[Pos - i + j] = LineChar(j)'
    <3>1. CASE j = i
      <4>1. Pos - i + j = Pos
          BY <1>2, <2>5, <3>1
      <4>2. screen'[Pos] = buf
          BY <2>5, <2>7, <2>10
      <4>3. LineChar(j)' = buf
          BY <1>1, <3>1 DEF LineChar
      <4> QED
          BY <4>1, <4>2, <4>3
    <3>2. CASE j # i
      <4>1. j \in 0 .. i - 1 /\ Pos - i + j \in Pos - i - EDIT_COL .. Pos - 1
          BY <1>2, <2>5, <2>15, <3>2
      <4>2. LineChar(j)' = input[j] /\ LineChar(j) = input[j]
          BY <1>1, <3>2 DEF LineChar
      <4> QED
          BY <2>9, <2>11, <4>1, <4>2
    <3> QED
        BY <3>1, <3>2
  <2>16. \A j \in 0 .. Shown' - 1 : screen'[Pos' - Shown' + j] = LineChar(j)'
    <3>1. 0 .. Shown' - 1 = 0 .. i
        BY <1>2, <2>4
    <3> QED
        BY <2>12, <2>15, <3>1
  <2>17. keyboard_col' - Shown' >= EDIT_COL
      BY <2>9, <2>12
  <2> QED
      BY <1>1, <2>13, <2>14, <2>16, <2>17 DEF LineInv
<1>13. LineInv'
    BY <1>12 DEF LineInv
<1> QED
    BY <1>7, <1>8, <1>9, <1>10, <1>11, <1>13 DEF Inv

LEMMA AppendCharInv == ASSUME Inv, AppendChar PROVE Inv'
<1>1. /\ pc = "append"
      /\ \/ /\ i < INPUT_SIZE /\ pc' = "poll"
            /\ input' = [input EXCEPT ![i] = buf] /\ i' = i + 1
         \/ i = INPUT_SIZE /\ pc' = "overrun" /\ UNCHANGED <<input, i>>
      /\ UNCHANGED <<keyboard_input_on, keyboard_buffer, print_mode, buf, todo>>
      /\ UNCHANGED <<keyboard_row, keyboard_col, screen, cursor, orderly, spilled, firstLine>>
    BY DEF AppendChar, keyboard, display, history
<1>2. /\ i \in 0 .. INPUT_SIZE /\ INPUT_SIZE \in Nat /\ i \in Nat
      /\ input \in [0 .. INPUT_SIZE - 1 -> Char \cup {BACKSPACE, NUL, JUNK}]
      /\ buf \in Char \cup {BACKSPACE}
    BY <1>1, Sizes DEF Inv, TypeOK, KeyInv
<1>3. KeyInv'
    BY <1>1 DEF Inv, KeyInv
<1>4. BlankInv'
    BY <1>1, BlankStays DEF Inv
<1>5. CommandInv'
    BY <1>1 DEF Inv, CommandInv
<1>6. CASE i = INPUT_SIZE /\ pc' = "overrun" /\ UNCHANGED <<input, i>>
  <2>1. TypeOK'
      BY <1>1, <1>6 DEF Inv, TypeOK
  <2>2. InputInv'
      BY <1>1, <1>6 DEF Inv, InputInv
  <2>3. LineInv'
      BY <1>6 DEF LineInv, Typing
  <2> QED
      BY <1>3, <1>4, <1>5, <2>1, <2>2, <2>3 DEF Inv
<1>7. CASE i < INPUT_SIZE /\ pc' = "poll" /\ input' = [input EXCEPT ![i] = buf] /\ i' = i + 1
  <2>1. \A j \in 0 .. INPUT_SIZE - 1 : input'[j] = IF j = i THEN buf ELSE input[j]
      BY <1>2, <1>7
  <2>2. TypeOK'
    <3>1. /\ i' \in 0 .. INPUT_SIZE
          /\ input' \in [0 .. INPUT_SIZE - 1 -> Char \cup {BACKSPACE, NUL, JUNK}]
        BY <1>2, <1>7
    <3> QED
        BY <1>1, <1>7, <3>1 DEF Inv, TypeOK
  <2>3. InputInv'
    <3>1. ASSUME NEW j \in 0 .. i' - 1 PROVE input'[j] \in Char \cup {BACKSPACE}
      <4>1. j \in 0 .. INPUT_SIZE - 1 /\ (j = i \/ j \in 0 .. i - 1)
          BY <1>2, <1>7, <3>1
      <4> QED
          BY <1>2, <2>1, <4>1 DEF Inv, InputInv
    <3>2. ASSUME NEW j \in i' .. INPUT_SIZE - 1
          PROVE  input'[j] = NUL \/ (firstLine' /\ input'[j] = JUNK)
      <4>1. j \in 0 .. INPUT_SIZE - 1 /\ j # i /\ j \in i .. INPUT_SIZE - 1
          BY <1>2, <1>7, <3>2
      <4> QED
          BY <1>1, <2>1, <4>1 DEF Inv, InputInv
    <3> QED
        BY <3>1, <3>2 DEF InputInv
  <2>4. LineInv'
    <3>1. Taken = i + 1 /\ Taken' = i + 1
        BY <1>1, <1>7 DEF Taken
    <3>2. Shown' = Shown
        BY <1>1, <3>1 DEF Shown, Rubbing
    <3>3. Shown \in Nat /\ Shown <= i + 1
        BY <3>1, LineLength DEF Inv
    <3>4. ASSUME NEW j \in 0 .. Shown - 1 PROVE LineChar(j)' = LineChar(j)
      <4>1. j \in 0 .. INPUT_SIZE - 1
          BY <1>2, <1>7, <3>3, <3>4
      <4>2. LineChar(j)' = input'[j]
          BY <1>7 DEF LineChar
      <4>3. LineChar(j) = IF j = i THEN buf ELSE input[j]
          BY <1>1 DEF LineChar
      <4> QED
          BY <2>1, <4>1, <4>2, <4>3
    <3>5. Typing /\ pc' # "echo"
        BY <1>1, <1>7 DEF Typing
    <3> QED
        BY <1>1, <3>2, <3>4, <3>5, LineStays DEF Inv
  <2> QED
      BY <1>3, <1>4, <1>5, <2>2, <2>3, <2>4 DEF Inv
<1> QED
    BY <1>1, <1>6, <1>7

LEMMA EnterInv == ASSUME Inv, Enter PROVE Inv'
<1>1. /\ pc = "enter" /\ pc' = "command" /\ orderly' = TRUE
      /\ UNCHANGED <<keyboard_input_on, keyboard_buffer, print_mode, buf, input, i>>
      /\ UNCHANGED <<keyboard_row, keyboard_col, screen, cursor, spilled, firstLine>>
    BY DEF Enter, keyboard, display
<1>2. PICK s \in Script : todo' = s \o Home
    BY DEF Enter
<1>3. s \in Left /\ s # <<>> /\ (Head(s) = Newline \/ Head(s) = Clear)
    BY ScriptBegins
<1>4. TypeOK'
  <2>1. ({orderly, spilled, firstLine} \subseteq BOOLEAN)'
      BY <1>1 DEF Inv, TypeOK
  <2> QED
      BY <1>1, <2>1 DEF Inv, TypeOK
<1>5. KeyInv'
    BY <1>1 DEF Inv, KeyInv
<1>6. InputInv'
    BY <1>1 DEF Inv, InputInv
<1>7. LineInv'
    BY <1>1 DEF LineInv, Typing
<1>8. CommandInv'
  <2>1. (\E b \in Left : todo = b \o Home)'
      BY <1>2, <1>3
  <2> QED
      BY <1>1, <2>1 DEF CommandInv
<1>9. BlankInv'
  <2>1. ~Resetting
      BY <1>1 DEF Inv, CommandInv, Resetting
  <2>2. Head(todo') = Head(s)
      BY <1>2, <1>3, CommandGoesOn, HomeIsOps, FirstOf
  <2>3. Head(s) # Reset
      BY <1>3, OpNames
  <2>4. ~Resetting'
      BY <2>2, <2>3 DEF Resetting
  <2> QED
      BY <1>1, <2>1, <2>4 DEF Inv, BlankInv, BlankFrom, Pos, Base, CellOf
<1> QED
    BY <1>4, <1>5, <1>6, <1>7, <1>8, <1>9 DEF Inv

LEMMA EndOfLineInv == ASSUME Inv, EndOfLine PROVE Inv'
<1>1. /\ pc = "command" /\ todo = <<>> /\ pc' = "poll" /\ i' = 0 /\ firstLine' = FALSE
      /\ input' = [j \in 0 .. INPUT_SIZE - 1 |-> NUL]
      /\ UNCHANGED <<keyboard_input_on, keyboard_buffer, print_mode, buf, todo>>
      /\ UNCHANGED <<keyboard_row, keyboard_col, screen, cursor, orderly, spilled>>
    BY DEF EndOfLine, keyboard, display
<1>2. INPUT_SIZE \in Nat
    BY Sizes
<1>3. orderly => Prompting(EDIT_COL)
  <2>1. CASE \E k \in 0 .. 5 : todo = HomeRest(k) /\ (orderly => Prompting(HomeDone(k)))
    <3>1. PICK k \in 0 .. 5 : todo = HomeRest(k) /\ (orderly => Prompting(HomeDone(k)))
        BY <2>1
    <3>2. k = 5
        BY <1>1, <3>1, HomeGoesOn
    <3>3. HomeDone(k) = EDIT_COL
        BY <3>2, HomeGoesOn
    <3> QED
        BY <3>1, <3>3
  <2>2. CASE \E b \in Left : todo = b \o Home
    <3>1. PICK b \in Left : todo = b \o Home
        BY <2>2
    <3>2. CASE b = <<>>
        BY <1>1, <3>1, <3>2, HomeIsOps
    <3>3. CASE b # <<>>
      <4>1. b \in Seq(Ops) /\ Home \in Seq(Ops)
          BY <3>3, CommandGoesOn, HomeIsOps
      <4>2. b \o Home # <<>>
          BY <3>3, <4>1, FirstOf
      <4> QED
          BY <1>1, <3>1, <4>2
    <3> QED
        BY <3>2, <3>3
  <2>3. \/ \E k \in 0 .. 5 : todo = HomeRest(k) /\ (orderly => Prompting(HomeDone(k)))
        \/ \E b \in Left : todo = b \o Home
      BY <1>1, Zenon DEF Inv, CommandInv
  <2> QED
      BY <2>1, <2>2, <2>3, Zenon
<1>4. TypeOK'
  <2>1. ({orderly, spilled, firstLine} \subseteq BOOLEAN)'
      BY <1>1 DEF Inv, TypeOK
  <2>2. (/\ i \in 0 .. INPUT_SIZE
         /\ input \in [0 .. INPUT_SIZE - 1 -> Char \cup {BACKSPACE, NUL, JUNK}])'
      BY <1>1, <1>2
  <2> QED
      BY <1>1, <2>1, <2>2 DEF Inv, TypeOK
<1>5. KeyInv'
    BY <1>1 DEF Inv, KeyInv
<1>6. InputInv'
    BY <1>1, <1>2 DEF InputInv
<1>7. LineInv'
    BY <1>1, <1>3, LineBegins DEF Inv
<1>8. CommandInv'
    BY <1>1 DEF CommandInv
<1>9. BlankInv'
    BY <1>1, BlankStays DEF Inv
<1> QED
    BY <1>4, <1>5, <1>6, <1>7, <1>8, <1>9 DEF Inv

-----------------------------------------------------------------------------
(* The keyboard interrupt keeps it *)

\* A backspace blanks the cell before the cursor, wherever the position is.
LEMMA EraseMoves ==
    ASSUME TypeOK, Erase, keyboard_row' = keyboard_row
    PROVE  /\ keyboard_col > EDIT_COL /\ keyboard_col - 1 \in Nat
           /\ keyboard_col' = keyboard_col - 1 /\ keyboard_col' \in Nat
           /\ cursor' = CellOf(keyboard_row, keyboard_col)' /\ cursor' \in Nat
           /\ screen' \in [Cell -> Glyph] /\ Base' = Base /\ Pos' = Pos - 1
           /\ \A p \in Cell : screen'[p] \in {BLANK, screen[p]}
           /\ keyboard_row < BYTE /\ keyboard_col <= BYTE =>
                 /\ CellOf(keyboard_row, keyboard_col - 1) = Pos - 1
                 /\ \A p \in Cell : screen'[p] = IF p = Pos - 1 THEN BLANK ELSE screen[p]
<1>1. /\ keyboard_col > EDIT_COL /\ keyboard_col' = keyboard_col - 1
      /\ screen' = Written(keyboard_row, keyboard_col - 1, BLANK, 1)
      /\ cursor' = CellOf(keyboard_row, keyboard_col - 1)
    BY DEF Erase
<1>2. /\ keyboard_row \in Nat /\ keyboard_col \in Nat /\ Base \in Nat /\ Pos = Base + keyboard_col
      /\ EDIT_COL \in Nat /\ BYTE \in Nat
    BY Positions, Sizes
<1>3. keyboard_col - 1 \in Nat
    BY <1>1, <1>2
<1>4. cursor' = CellOf(keyboard_row, keyboard_col)' /\ cursor' \in Nat
    BY <1>1, <1>2, <1>3, CellOfTyped DEF CellOf
<1>5. screen' \in [Cell -> Glyph] /\ \A p \in Cell : screen'[p] \in {BLANK, screen[p]}
  <2>1. screen' \in [Cell -> Glyph]
      BY <1>1, WrittenTyped DEF TypeOK, Glyph
  <2> QED
      BY <1>1, <2>1 DEF Written
<1>6. Base' = Base /\ Pos' = Pos - 1
  <2>1. Base' = Base
      BY DEF Base
  <2>2. Pos' = Base + (keyboard_col - 1)
      BY <1>1, <2>1 DEF Pos
  <2> QED
      BY <1>2, <2>1, <2>2
<1>7. ASSUME keyboard_row < BYTE, keyboard_col <= BYTE
      PROVE  /\ CellOf(keyboard_row, keyboard_col - 1) = Pos - 1
             /\ \A p \in Cell : screen'[p] = IF p = Pos - 1 THEN BLANK ELSE screen[p]
  <2>1. keyboard_col - 1 < BYTE /\ keyboard_col - 1 + 1 <= BYTE
      BY <1>2, <1>7
  <2>2. CellOf(keyboard_row, keyboard_col - 1) = Base + (keyboard_col - 1)
      BY <1>2, <1>3, <1>7, <2>1, CellIsPosition DEF Base
  <2>3. \A p \in Cell : screen'[p] =
            IF p >= Base + (keyboard_col - 1) /\ p < Base + (keyboard_col - 1) + 1
            THEN BLANK ELSE screen[p]
      BY <1>1, <1>2, <1>3, <1>7, <2>1, WritesCells DEF Base
  <2>4. ASSUME NEW p \in Cell PROVE screen'[p] = IF p = Pos - 1 THEN BLANK ELSE screen[p]
    <3>1. p \in Nat
        BY CellsAreNumbers
    <3> QED
        BY <1>2, <2>3, <3>1
  <2> QED
      BY <1>2, <2>2, <2>4
<1> QED
    BY <1>1, <1>2, <1>3, <1>4, <1>5, <1>6, <1>7

LEMMA EraseBlank ==
    ASSUME TypeOK, BlankInv, Erase, UNCHANGED <<keyboard_row, todo, spilled>>
    PROVE  BlankInv'
<1>1. Resetting' = Resetting
    BY DEF Resetting
<1>2. CASE Resetting
  <2>1. BlankFrom(0)
      BY <1>2 DEF BlankInv
  <2>2. BlankFrom(0)'
      BY <2>1, EraseMoves DEF BlankFrom
  <2> QED
      BY <1>1, <1>2, <2>2 DEF BlankInv
<1>3. CASE ~Resetting
  <2>1. cursor' = CellOf(keyboard_row, keyboard_col)'
      BY EraseMoves
  <2>2. ASSUME ~spilled
        PROVE  (keyboard_row < BYTE /\ keyboard_col <= WIDTH /\ BlankFrom(Pos))'
    <3>1. keyboard_row < BYTE /\ keyboard_col <= WIDTH /\ BlankFrom(Pos)
        BY <1>3, <2>2 DEF BlankInv
    <3>2. keyboard_col <= BYTE /\ keyboard_col' <= WIDTH
      <4>1. /\ keyboard_col \in Nat /\ WIDTH \in Nat /\ BYTE \in Nat /\ WIDTH < BYTE
            /\ keyboard_col' = keyboard_col - 1
          BY Positions, Sizes, EraseMoves
      <4> QED
          BY <3>1, <4>1
    <3>3. \A p \in Cell : screen'[p] = IF p = Pos - 1 THEN BLANK ELSE screen[p]
        BY <3>1, <3>2, EraseMoves
    <3>4. Pos' = Pos - 1 /\ Pos \in Nat
        BY EraseMoves, Positions
    <3>5. ASSUME NEW q \in Cell, q >= Pos - 1 PROVE screen'[q] = BLANK
      <4>1. q \in Nat
          BY CellsAreNumbers
      <4>2. q = Pos - 1 \/ q >= Pos
          BY <3>4, <3>5, <4>1
      <4> QED
          BY <3>1, <3>3, <4>2 DEF BlankFrom
    <3>6. BlankFrom(Pos)'
        BY <3>4, <3>5 DEF BlankFrom
    <3> QED
        BY <3>1, <3>2, <3>6
  <2> QED
      BY <1>1, <1>3, <2>1, <2>2 DEF BlankInv
<1> QED
    BY <1>2, <1>3

\* In order, a backspace never takes a cell of a prompt that is on the screen.
LEMMA PromptSafe ==
    ASSUME TypeOK, NEW n \in Nat, n > 0, Prompting(n), Erase, keyboard_row' = keyboard_row,
           Orderly(BACKSPACE)
    PROVE  FALSE
<1>1. Seen /\ PromptBefore(Pos, n)
    BY DEF Prompting
<1>2. /\ keyboard_col > EDIT_COL /\ keyboard_col - 1 \in Nat
      /\ CellOf(keyboard_row, keyboard_col - 1) = Pos - 1
    BY <1>1, EraseMoves DEF Seen
<1>3. /\ Pos \in Nat /\ keyboard_col \in Nat /\ Base \in Nat /\ Pos = Base + keyboard_col
      /\ ROWS * WIDTH \in Nat /\ BYTE \in Nat
    BY Positions, Sizes
<1>4. keyboard_col - 1 < BYTE /\ Pos - 1 \in Cell
    BY <1>1, <1>2, <1>3 DEF Seen, Cell
<1>5. Visible(keyboard_row, keyboard_col - 1)
    BY <1>1, <1>2, <1>4 DEF Seen, Visible
<1>6. screen[Pos - 1] = PROMPT
  <2>1. Pos - 1 \in Pos - n .. Pos - 1
      BY <1>3
  <2> QED
      BY <1>1, <2>1 DEF PromptBefore
<1> QED
    BY <1>2, <1>5, <1>6 DEF Orderly

\* A key that is not a backspace changes the buffer and its mode, nothing that is
\* shown.
LEMMA KeyStruck == ASSUME Inv, NEW k \in Key, k # BACKSPACE, keyboard_isr(k) PROVE Inv'
<1>1. /\ keyboard_input_on /\ keyboard_buffer' = k /\ print_mode' = TRUE
      /\ orderly' = (orderly /\ Orderly(k))
      /\ UNCHANGED <<keyboard_input_on, pc, buf, input, i, todo>>
      /\ UNCHANGED <<keyboard_row, keyboard_col, screen, cursor, spilled, firstLine>>
    BY DEF keyboard_isr, shell
<1>2. k # NUL /\ pc # "start"
    BY <1>1, ConsoleAssumption DEF ConsoleAssumption, Key, Inv, KeyInv
<1>3. TypeOK'
  <2>1. ({orderly, spilled, firstLine} \subseteq BOOLEAN)'
      BY <1>1 DEF Inv, TypeOK
  <2> QED
      BY <1>1, <2>1 DEF Inv, TypeOK
<1>4. KeyInv'
    BY <1>1, <1>2 DEF Inv, KeyInv
<1>5. InputInv'
    BY <1>1 DEF Inv, InputInv
<1>6. BlankInv'
    BY <1>1, BlankStays DEF Inv
<1>7. CommandInv'
  <2>1. \A n : Prompting(n)' = Prompting(n)
      BY <1>1 DEF Prompting, Seen, PromptBefore, Pos, Base
  <2>2. orderly' => orderly
      BY <1>1
  <2>3. CASE pc = "command"
    <3>1. ASSUME NEW l \in 0 .. 5, todo = HomeRest(l), orderly => Prompting(HomeDone(l))
          PROVE  (\E m \in 0 .. 5 : todo = HomeRest(m) /\ (orderly => Prompting(HomeDone(m))))'
        BY <1>1, <2>1, <2>2, <3>1
    <3>2. ASSUME NEW b \in Left, todo = b \o Home PROVE (\E c \in Left : todo = c \o Home)'
        BY <1>1, <3>2
    <3>3. pc' = "command"
        BY <1>1, <2>3
    <3> QED
        BY <2>3, <3>1, <3>2, <3>3 DEF Inv, CommandInv
  <2>4. CASE pc # "command"
      BY <1>1, <1>2, <2>4 DEF Inv, CommandInv
  <2> QED
      BY <2>3, <2>4
<1>8. ASSUME orderly' PROVE LineInv'
  <2>1. orderly /\ Orderly(k)
      BY <1>1, <1>8
  <2>2. CASE ~Typing
      BY <1>1, <2>2 DEF LineInv, Typing
  <2>3. CASE Typing
    <3>1. keyboard_buffer # BACKSPACE
        BY <2>1, <2>3 DEF Orderly, Typing
    <3>2. Taken' = Taken
        BY <1>1 DEF Taken
    <3>3. Shown' = Shown
        BY <1>1, <3>1, <3>2 DEF Shown, Rubbing
    <3>4. \A j \in 0 .. Shown - 1 : LineChar(j)' = LineChar(j)
        BY <1>1 DEF LineChar
    <3>5. orderly' = orderly
        BY <1>8, <2>1 DEF Inv, TypeOK
    <3> QED
        BY <1>1, <2>3, <3>3, <3>4, <3>5, LineStays DEF Inv
  <2> QED
      BY <2>2, <2>3
<1>9. LineInv'
    BY <1>8 DEF LineInv
<1> QED
    BY <1>3, <1>4, <1>5, <1>6, <1>7, <1>9 DEF Inv

\* The line on the screen after a backspace that was struck in order.
LEMMA EraseShown ==
    ASSUME Inv, Typing, Erase, orderly, Orderly(BACKSPACE),
           keyboard_buffer' = BACKSPACE, UNCHANGED <<print_mode, keyboard_row, shell>>
    PROVE  LineInv'
<1>1. /\ pc \in {"poll", "erase", "append"} /\ keyboard_buffer = NUL /\ ~print_mode
      /\ UNCHANGED <<pc, buf, input, i, todo>>
    BY DEF Typing, Orderly, Inv, KeyInv, shell
<1>2. /\ Pos \in Nat /\ keyboard_col \in Nat /\ Base \in Nat /\ Pos = Base + keyboard_col
      /\ ROWS * WIDTH \in Nat /\ BYTE \in Nat /\ EDIT_COL \in Nat /\ EDIT_COL > 0
    BY Positions, Sizes DEF Inv
<1>3. /\ Seen /\ keyboard_col - Shown >= EDIT_COL /\ PromptBefore(Pos - Shown, EDIT_COL)
      /\ \A j \in 0 .. Shown - 1 : screen[Pos - Shown + j] = LineChar(j)
    BY DEF Inv, LineInv
<1>4. Shown = Taken /\ Taken \in Nat
    BY <1>1, LineLength, ConsoleAssumption DEF Inv, Rubbing, ConsoleAssumption
<1>5. Taken > 0
  <2>1. SUFFICES ASSUME Taken = 0 PROVE FALSE
      BY <1>4
  <2>2. Pos - Shown = Pos /\ keyboard_col >= EDIT_COL
      BY <1>2, <1>3, <1>4, <2>1
  <2>3. Prompting(EDIT_COL)
      BY <1>3, <2>2 DEF Prompting
  <2> QED
      BY <1>2, <2>3, PromptSafe DEF Inv
<1>6. Taken' = Taken /\ Shown' = Taken - 1
  <2>1. Taken' = Taken
      BY <1>1 DEF Taken
  <2>2. Rubbing'
      BY <1>1 DEF Rubbing
  <2> QED
      BY <1>5, <2>1, <2>2 DEF Shown
<1>7. keyboard_row < BYTE /\ keyboard_col <= BYTE /\ Pos <= ROWS * WIDTH
    BY <1>3 DEF Seen
<1>8. /\ keyboard_col' = keyboard_col - 1 /\ Pos' = Pos - 1
      /\ \A p \in Cell : screen'[p] = IF p = Pos - 1 THEN BLANK ELSE screen[p]
    BY <1>7, EraseMoves DEF Inv
<1>9. ASSUME NEW q \in Pos - Taken - EDIT_COL .. Pos - 2 PROVE screen'[q] = screen[q]
  <2>1. q \in Cell /\ q # Pos - 1
      BY <1>2, <1>3, <1>4, <1>7, <1>9 DEF Cell
  <2> QED
      BY <1>8, <2>1
<1>10. Pos' - Shown' = Pos - Taken /\ keyboard_col' - Shown' = keyboard_col - Taken
    BY <1>2, <1>4, <1>6, <1>8
<1>11. Seen'
    BY <1>2, <1>7, <1>8 DEF Seen
<1>12. PromptBefore(Pos - Shown, EDIT_COL)'
  <2>1. ASSUME NEW q \in Pos - Taken - EDIT_COL .. Pos - Taken - 1 PROVE screen'[q] = PROMPT
    <3>1. q \in Pos - Taken - EDIT_COL .. Pos - 2
        BY <1>2, <1>4, <1>5, <2>1
    <3>2. screen[q] = PROMPT
        BY <1>3, <1>4, <2>1 DEF PromptBefore
    <3> QED
        BY <1>9, <3>1, <3>2
  <2> QED
      BY <1>10, <2>1 DEF PromptBefore
<1>13. ASSUME NEW j \in 0 .. Taken - 2 PROVE screen'[Pos - Taken + j] = LineChar(j)'
  <2>1. /\ j \in 0 .. Shown - 1 /\ Pos - Shown + j = Pos - Taken + j
        /\ Pos - Taken + j \in Pos - Taken - EDIT_COL .. Pos - 2
      BY <1>2, <1>4, <1>5, <1>13
  <2>2. LineChar(j)' = LineChar(j)
      BY <1>1 DEF LineChar
  <2>3. screen[Pos - Taken + j] = LineChar(j)
      BY <1>3, <2>1
  <2> QED
      BY <1>9, <2>1, <2>2, <2>3
<1>14. \A j \in 0 .. Shown' - 1 : screen'[Pos' - Shown' + j] = LineChar(j)'
  <2>1. 0 .. Shown' - 1 = 0 .. Taken - 2
      BY <1>4, <1>6
  <2> QED
      BY <1>10, <1>13, <2>1
<1>15. keyboard_col' - Shown' >= EDIT_COL
    BY <1>3, <1>4, <1>10
<1>16. pc' # "echo"
    BY <1>1
<1> QED
    BY <1>11, <1>12, <1>14, <1>15, <1>16 DEF LineInv

\* The backspace, which the shell has yet to fetch.
LEMMA BackspaceStruck == ASSUME Inv, keyboard_isr(BACKSPACE) PROVE Inv'
<1>1. /\ keyboard_input_on /\ keyboard_buffer' = BACKSPACE
      /\ orderly' = (orderly /\ Orderly(BACKSPACE))
      /\ UNCHANGED <<keyboard_input_on, print_mode, keyboard_row, spilled, firstLine>>
      /\ UNCHANGED shell /\ UNCHANGED <<pc, buf, input, i, todo>>
    BY DEF keyboard_isr, shell
<1>2. Erase \/ (keyboard_col <= EDIT_COL /\ UNCHANGED <<keyboard_col, screen, cursor>>)
    BY DEF keyboard_isr
<1>3. BACKSPACE # NUL /\ BACKSPACE # NEWLINE /\ BACKSPACE \notin Char
    BY ConsoleAssumption DEF ConsoleAssumption
<1>4. pc # "start" /\ TypeOK /\ BlankInv /\ CommandInv
    BY <1>1 DEF Inv, KeyInv
<1>5. TypeOK'
  <2>1. ({orderly, spilled, firstLine} \subseteq BOOLEAN)'
      BY <1>1, <1>4 DEF TypeOK
  <2>2. keyboard_col' \in Nat /\ cursor' \in Nat /\ screen' \in [Cell -> Glyph]
    <3>1. CASE Erase
        BY <1>1, <1>4, <3>1, EraseMoves
    <3>2. CASE UNCHANGED <<keyboard_col, screen, cursor>>
        BY <1>4, <3>2 DEF TypeOK
    <3> QED
        BY <1>2, <3>1, <3>2
  <2> QED
      BY <1>1, <1>4, <2>1, <2>2 DEF TypeOK, Key
<1>6. KeyInv'
    BY <1>1, <1>3, <1>4 DEF Inv, KeyInv
<1>7. InputInv'
    BY <1>1 DEF Inv, InputInv
<1>8. BlankInv'
  <2>1. CASE Erase
      BY <1>1, <1>4, <2>1, EraseBlank
  <2>2. CASE UNCHANGED <<keyboard_col, screen, cursor>>
      BY <1>1, <1>4, <2>2, BlankStays
  <2> QED
      BY <1>2, <2>1, <2>2
<1>9. CommandInv'
  <2>1. ASSUME NEW n \in Nat, orderly => Prompting(n) PROVE orderly' => Prompting(n)'
    <3>1. SUFFICES ASSUME orderly', n > 0 PROVE Prompting(n)'
        BY DEF Prompting
    <3>2. orderly /\ Orderly(BACKSPACE)
        BY <1>1, <3>1
    <3>3. Prompting(n)
        BY <2>1, <3>2
    <3>4. CASE Erase
        BY <1>1, <1>4, <3>1, <3>2, <3>3, <3>4, PromptSafe
    <3>5. CASE UNCHANGED <<keyboard_col, screen, cursor>>
        BY <1>1, <3>3, <3>5 DEF Prompting, Seen, PromptBefore, Pos, Base
    <3> QED
        BY <1>2, <3>4, <3>5
  <2>2. CASE pc = "command"
    <3>1. ASSUME NEW l \in 0 .. 5, todo = HomeRest(l), orderly => Prompting(HomeDone(l))
          PROVE  (\E m \in 0 .. 5 : todo = HomeRest(m) /\ (orderly => Prompting(HomeDone(m))))'
      <4>1. PICK n \in Nat : n = HomeDone(l)
          BY HomeGoesOn
      <4>2. orderly' => Prompting(n)'
          BY <2>1, <3>1, <4>1
      <4>3. orderly' => Prompting(HomeDone(l))'
          BY <4>1, <4>2
      <4> QED
          BY <1>1, <3>1, <4>3
    <3>2. ASSUME NEW b \in Left, todo = b \o Home PROVE (\E c \in Left : todo = c \o Home)'
        BY <1>1, <3>2
    <3>3. pc' = "command"
        BY <1>1, <2>2
    <3> QED
        BY <1>4, <2>2, <3>1, <3>2, <3>3 DEF CommandInv
  <2>3. CASE pc # "command"
      BY <1>1, <1>4, <2>3 DEF CommandInv
  <2> QED
      BY <2>2, <2>3
<1>10. ASSUME orderly' PROVE LineInv'
  <2>1. orderly /\ Orderly(BACKSPACE)
      BY <1>1, <1>10
  <2>2. CASE ~Typing
      BY <1>1, <2>2 DEF LineInv, Typing
  <2>3. CASE Typing /\ Erase
      BY <1>1, <2>1, <2>3, EraseShown
  <2>4. CASE Typing /\ keyboard_col <= EDIT_COL /\ UNCHANGED <<keyboard_col, screen, cursor>>
    <3>1. pc # "echo" /\ keyboard_buffer = NUL
        BY <2>1, <2>4 DEF Orderly, Typing
    <3>2. Shown = Taken /\ Taken \in Nat
        BY <1>3, <1>4, <3>1, LineLength DEF Rubbing
    <3>3. Taken = 0
      <4>1. /\ keyboard_col - Shown >= EDIT_COL /\ EDIT_COL \in Nat /\ keyboard_col \in Nat
          BY <1>4, <2>1, <2>4, Positions, Sizes DEF Inv, LineInv
      <4> QED
          BY <2>4, <3>2, <4>1
    <3>4. Taken' = 0
        BY <1>1, <3>3 DEF Taken
    <3>5. Shown' = Shown
        BY <3>2, <3>3, <3>4 DEF Shown
    <3>6. \A j \in 0 .. Shown - 1 : LineChar(j)' = LineChar(j)
        BY <1>1 DEF LineChar
    <3>7. orderly' = orderly
        BY <1>5, <1>4, <1>10, <2>1 DEF TypeOK
    <3> QED
        BY <1>1, <2>4, <3>1, <3>5, <3>6, <3>7, LineStays DEF Inv
  <2> QED
      BY <1>2, <2>2, <2>3, <2>4
<1>11. LineInv'
    BY <1>10 DEF LineInv
<1> QED
    BY <1>5, <1>6, <1>7, <1>8, <1>9, <1>11 DEF Inv

LEMMA KeyboardInv == ASSUME Inv, NEW k \in Key, keyboard_isr(k) PROVE Inv'
<1>1. CASE k = BACKSPACE
    BY <1>1, BackspaceStruck
<1>2. CASE k # BACKSPACE
    BY <1>2, KeyStruck
<1> QED
    BY <1>1, <1>2

-----------------------------------------------------------------------------
(* The invariant holds, whatever happens *)

LEMMA StutterInv == ASSUME Inv, UNCHANGED vars PROVE Inv'
<1>1. /\ UNCHANGED <<keyboard_input_on, keyboard_buffer, print_mode, pc, buf, input, i, todo>>
      /\ UNCHANGED <<keyboard_row, keyboard_col, screen, cursor, orderly, spilled, firstLine>>
    BY DEF vars, keyboard, display, shell, history
<1>2. TypeOK'
  <2>1. ({orderly, spilled, firstLine} \subseteq BOOLEAN)'
      BY <1>1 DEF Inv, TypeOK
  <2> QED
      BY <1>1, <2>1 DEF Inv, TypeOK
<1>3. KeyInv' /\ InputInv'
    BY <1>1 DEF Inv, KeyInv, InputInv
<1>4. BlankInv'
    BY <1>1, BlankStays DEF Inv
<1>5. LineInv'
  <2>1. CASE ~Typing
      BY <1>1, <2>1 DEF LineInv, Typing
  <2>2. CASE Typing
    <3>1. Shown' = Shown /\ \A j \in 0 .. Shown - 1 : LineChar(j)' = LineChar(j)
        BY <1>1 DEF Shown, Taken, Rubbing, LineChar
    <3>2. orderly' => (pc' = "echo" => keyboard_buffer' # BACKSPACE)
        BY <1>1, <2>2 DEF Inv, LineInv
    <3> QED
        BY <1>1, <2>2, <3>1, <3>2, LineStays DEF Inv
  <2> QED
      BY <2>1, <2>2
<1>6. CommandInv'
  <2>1. \A n : Prompting(n)' = Prompting(n)
      BY <1>1 DEF Prompting, Seen, PromptBefore, Pos, Base
  <2> QED
      BY <1>1, <2>1 DEF Inv, CommandInv
<1> QED
    BY <1>2, <1>3, <1>4, <1>5, <1>6 DEF Inv

LEMMA NextInv == ASSUME Inv, [Next]_vars PROVE Inv'
<1>1. CASE Shell
  <2>1. CASE SystemCall
      BY <2>1, PutsInv, PutsNewlineInv, ResetInv, ClearInv, ActivateInv DEF SystemCall
  <2> QED
      BY <1>1, <2>1, PollInv, EraseLastInv, EchoInv, AppendCharInv, EnterInv, EndOfLineInv
      DEF Shell
<1>2. CASE \E k \in Key : keyboard_isr(k)
    BY <1>2, KeyboardInv
<1>3. CASE UNCHANGED vars
    BY <1>3, StutterInv
<1> QED
    BY <1>1, <1>2, <1>3 DEF Next

LEMMA InvHolds == Spec => []Inv
<1>1. Init => Inv
    BY InitInv
<1>2. Inv /\ [Next]_vars => Inv'
    BY NextInv
<1> QED
    BY <1>1, <1>2, PTL DEF Spec

-----------------------------------------------------------------------------
(* What the console promises *)

\* Every variable keeps a value of its type under every typing, every output and
\* every length of a line, the one that runs over input included: the shell's count
\* of the line (EraseLast, AppendChar) never leaves 0 .. INPUT_SIZE.
THEOREM ConsoleTyped == Spec => []TypeOK
<1>1. Inv => TypeOK
    BY DEF Inv
<1> QED
    BY <1>1, InvHolds, PTL

\* However the keys are struck, the string handle_command scans ends where the line
\* ends, and behind the first line nothing of an earlier one or of a rubbed-out end
\* is left in main's input.
THEOREM LineEndsRight == Spec => []LineEndsAtCursor
<1>1. Inv => LineEndsAtCursor
  <2>1. {NUL, JUNK} \cap (Char \cup {BACKSPACE}) = {}
      BY ConsoleAssumption DEF ConsoleAssumption
  <2> QED
      BY <2>1 DEF Inv, InputInv, LineEndsAtCursor
<1> QED
    BY <1>1, InvHolds, PTL

\* However the keys are struck and whatever commands print, as long as nothing was
\* written past its row's end since the last clear: while the shell waits for a key
\* nothing is on the screen from the cursor on.
THEOREM NothingBehindCursor == Spec => []BlankBehindCursor
<1>1. ASSUME Inv, Waits, ~spilled, NEW p \in Cell, p >= cursor PROVE screen[p] = BLANK
  <2>1. ~Resetting
      BY <1>1 DEF Inv, CommandInv, Resetting, Waits
  <2>2. /\ cursor = CellOf(keyboard_row, keyboard_col)
        /\ keyboard_row < BYTE /\ keyboard_col <= WIDTH /\ BlankFrom(Pos)
      BY <1>1, <2>1 DEF Inv, BlankInv
  <2>3. keyboard_row \in Nat /\ keyboard_col \in Nat /\ keyboard_col < BYTE
      BY <1>1, <2>2, Positions, Sizes DEF Inv
  <2>4. cursor = Pos
      BY <2>2, <2>3, CellIsPosition DEF Pos, Base
  <2> QED
      BY <1>1, <2>2, <2>4 DEF BlankFrom
<1>2. Inv => BlankBehindCursor
    BY <1>1 DEF BlankBehindCursor
<1> QED
    BY <1>2, InvHolds, PTL

\* On every line that is typed in order, whatever was typed before it and whatever
\* the commands printed: while the shell waits, the screen shows the whole prompt
\* and behind it exactly the line the shell will run, also where both run past the
\* row's end.  The interleavings that part the two are those Orderly names.
THEOREM ScreenIsLine == Spec => []ScreenShowsLine
<1>1. ASSUME Inv, Waits, orderly
      PROVE  /\ cursor = CellOf(keyboard_row, keyboard_col)
             /\ keyboard_col - i >= EDIT_COL
             /\ \A c \in keyboard_col - i - EDIT_COL .. keyboard_col - i - 1 :
                   screen[CellOf(keyboard_row, c)] = PROMPT
             /\ \A j \in 0 .. i - 1 :
                   screen[CellOf(keyboard_row, keyboard_col - i + j)] = input[j]
  <2>1. pc = "poll" /\ keyboard_buffer # BACKSPACE /\ Typing /\ ~Resetting
      BY <1>1, ConsoleAssumption
      DEF ConsoleAssumption, Waits, Typing, Inv, CommandInv, Resetting
  <2>2. Shown = i /\ i \in Nat
      BY <1>1, <2>1, LineLength DEF Inv, Taken, Rubbing
  <2>3. /\ Seen /\ keyboard_col - i >= EDIT_COL /\ PromptBefore(Pos - i, EDIT_COL)
        /\ \A j \in 0 .. i - 1 : screen[Pos - i + j] = input[j]
        /\ cursor = CellOf(keyboard_row, keyboard_col)
    <3>1. \A j \in 0 .. i - 1 : LineChar(j) = input[j]
        BY <2>1 DEF LineChar
    <3> QED
        BY <1>1, <2>1, <2>2, <3>1 DEF Inv, LineInv, BlankInv
  <2>4. /\ keyboard_row \in Nat /\ keyboard_col \in Nat /\ Base \in Nat
        /\ Pos = Base + keyboard_col /\ EDIT_COL \in Nat /\ BYTE \in Nat
      BY <1>1, Positions, Sizes DEF Inv
  <2>5. keyboard_row < BYTE /\ keyboard_col <= BYTE
      BY <2>3 DEF Seen
  <2>6. ASSUME NEW c \in Nat, c < BYTE PROVE CellOf(keyboard_row, c) = Base + c
      BY <2>4, <2>5, <2>6, CellIsPosition DEF Base
  <2>7. ASSUME NEW c \in keyboard_col - i - EDIT_COL .. keyboard_col - i - 1
        PROVE  screen[CellOf(keyboard_row, c)] = PROMPT
    <3>1. c \in Nat /\ c < BYTE /\ Base + c \in Pos - i - EDIT_COL .. Pos - i - 1
        BY <2>2, <2>3, <2>4, <2>5, <2>7
    <3>2. CellOf(keyboard_row, c) = Base + c
        BY <2>6, <3>1
    <3> QED
        BY <2>3, <3>1, <3>2 DEF PromptBefore
  <2>8. ASSUME NEW j \in 0 .. i - 1
        PROVE  screen[CellOf(keyboard_row, keyboard_col - i + j)] = input[j]
    <3>1. /\ keyboard_col - i + j \in Nat /\ keyboard_col - i + j < BYTE
          /\ Base + (keyboard_col - i + j) = Pos - i + j
        BY <2>2, <2>3, <2>4, <2>5, <2>8
    <3>2. CellOf(keyboard_row, keyboard_col - i + j) = Pos - i + j
        BY <2>6, <3>1
    <3> QED
        BY <2>3, <3>2
  <2> QED
      BY <2>3, <2>7, <2>8
<1>2. Inv => ScreenShowsLine
    BY <1>1 DEF ScreenShowsLine
<1> QED
    BY <1>2, InvHolds, PTL
=============================================================================
