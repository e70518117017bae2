------------------------------- MODULE Console -------------------------------
(****************************************************************************)
(* The console of kajijOSta: the keyboard interrupt (src/keyboard.c), the    *)
(* text screen (src/framebuffer.c), the console system calls of              *)
(* src/interrupt.c and the main loop of the shell (src/user-shell.c).        *)
(*                                                                           *)
(* Two actors.  The shell runs in user mode and is interrupted between any   *)
(* two of its steps; a system call and the keyboard interrupt both enter by  *)
(* an interrupt gate (src/idt.c:46-51), so each is one step.  They share the *)
(* one-key buffer, the position and the screen.                              *)
(*                                                                           *)
(* What a command prints is kept as numbers of characters, of any size and   *)
(* running past the row's end where the code lets it: the words of a line    *)
(* and the files a command works on are not modelled here.                   *)
(*                                                                           *)
(* Any key may be struck at any time.  Three history variables, which no     *)
(* guard reads, record what the properties make a difference of: whether     *)
(* the line was typed in an order the code can follow (Orderly), whether     *)
(* something was written past its row's end, whether a line was run yet.     *)
(****************************************************************************)
EXTENDS Integers, Sequences

CONSTANTS
    WIDTH,      \* columns of the screen; 80
    ROWS,       \* rows of the screen; 25
    BYTE,       \* a position is handed over in 8 bits; 256
    EDIT_COL,   \* the column a backspace never goes below; 18
    HOME_SIZE,  \* the first piece of the prompt; 14
    INPUT_SIZE, \* room for a line; 256
    Char,       \* characters of the keyboard map
    NUL,        \* '\0': no key, an unused character of a line
    BACKSPACE,
    NEWLINE,
    BLANK,      \* a cleared cell
    PROMPT,     \* a cell of the prompt
    OUTPUT,     \* a cell a command printed
    JUNK,       \* what the stack holds where the line will be
    MessageSizes, \* "Directory not found" 19, "Stack Overflow" 14
    Outputs,    \* what ls, cat and find may print: the size of each piece, 0 a
                \* new row; none at all for an empty directory or no match
    RowBound    \* bound on keyboard_row, past the screen's last row

ASSUME ConsoleAssumption ==
    /\ {WIDTH, ROWS, BYTE, EDIT_COL, HOME_SIZE, INPUT_SIZE} \subseteq Nat \ {0}
    /\ WIDTH < BYTE /\ EDIT_COL = HOME_SIZE + 4
    /\ MessageSizes \subseteq Nat /\ Outputs \subseteq Seq(Nat) /\ RowBound \in Nat
    /\ NUL # BACKSPACE /\ NUL # NEWLINE /\ BACKSPACE # NEWLINE
    /\ {NUL, BACKSPACE, NEWLINE, OUTPUT, JUNK} \cap Char = {}
    /\ JUNK \notin {NUL, BACKSPACE} /\ OUTPUT \notin {PROMPT, BACKSPACE}

VARIABLES
    keyboard_input_on, keyboard_buffer, print_mode, \* keyboard_state
    keyboard_row, keyboard_col,
    screen,  \* cell -> character
    cursor,  \* the cell the blinking cursor is on
    pc,      \* where the shell is
    buf,     \* main's buf: the key being handled
    input, i,\* main's line and its length
    todo     \* system calls until the shell's next fetch or its line's end

VARIABLES    \* of the properties, not of the program
    orderly,  \* since the last Enter no key came too early (Orderly)
    spilled,  \* since the last clear something went past its row's end
    firstLine \* no line was run yet: the stack's bytes are still in input

keyboard == <<keyboard_input_on, keyboard_buffer, print_mode>>
display == <<keyboard_row, keyboard_col, screen, cursor>>
shell == <<pc, buf, input, i, todo>>
history == <<orderly, spilled, firstLine>>
vars == <<keyboard, display, shell, history>>

\* What the scancode map yields; other scancodes, releases included, give 0.
Key == Char \cup {BACKSPACE, NEWLINE}

\* The cell a (row, column) pair names once both are cut to 8 bits.
CellOf(r, c) == (r % BYTE) * WIDTH + (c % BYTE)
Cell == 0 .. ROWS * WIDTH - 1
Glyph == Char \cup {BLANK, PROMPT, OUTPUT, BACKSPACE}

\* framebuffer_write of n times character x; what is off the screen is not seen.
Written(r, c, x, n) ==
    [p \in Cell |-> IF \E k \in 0 .. n - 1 : p = CellOf(r, c + k) THEN x ELSE screen[p]]

\* The cell is on the screen and neither number was cut.
Visible(r, c) == r < BYTE /\ c < BYTE /\ CellOf(r, c) \in Cell

-----------------------------------------------------------------------------
(* The system calls a command makes and the prompt behind it *)

Puts(x, n) == [op |-> "puts", char |-> x, size |-> n]
Newline == [op |-> "newline"]
Reset == [op |-> "reset"]
Clear == [op |-> "clear"]
Activate == [op |-> "activate"]

\* show_home
Home == <<Puts(PROMPT, HOME_SIZE), Puts(PROMPT, 1), Puts(PROMPT, 1),
          Puts(PROMPT, 1), Puts(PROMPT, 1)>>

\* The pieces a command prints and the rows it ends.
Text(o) == [j \in DOMAIN o |-> IF o[j] = 0 THEN Newline ELSE Puts(OUTPUT, o[j])]

\* handle_command: clear; mkdir, rm, cp, mv, cd, cat of no file; cd to a missing
\* directory, or deeper than its stack; ls, find, cat or an unknown command.
Script ==
    {<<Clear, Reset>>, <<Newline>>}
    \cup {<<Newline, Puts(OUTPUT, n)>> : n \in MessageSizes}
    \cup {<<Newline>> \o Text(o) \o <<Newline>> : o \in Outputs}

Init ==
    /\ keyboard_input_on = FALSE /\ keyboard_buffer = NUL /\ print_mode = FALSE
    /\ keyboard_row = 0 /\ keyboard_col = 0
    /\ screen = [p \in Cell |-> BLANK] /\ cursor = 0
    /\ pc = "start" /\ buf = NUL
    /\ input \in [0 .. INPUT_SIZE - 1 -> {NUL, JUNK}] /\ i = 0
    /\ todo = Home \o <<Activate>>
    /\ orderly = TRUE /\ spilled = FALSE /\ firstLine = TRUE

-----------------------------------------------------------------------------
(* The keyboard interrupt *)

\* The keys the code can follow.  While a line is typed, a backspace comes when
\* every earlier key is on the screen and the next key when the shell has fetched
\* it; and where the prompt does not begin its row, behind a message of cd, no
\* backspace is struck on the prompt.
Orderly(k) ==
    /\ k = BACKSPACE /\ keyboard_col > EDIT_COL /\ Visible(keyboard_row, keyboard_col - 1) =>
          screen[CellOf(keyboard_row, keyboard_col - 1)] # PROMPT
    /\ pc \in {"poll", "erase", "echo", "append"} =>
          /\ keyboard_buffer # BACKSPACE
          /\ k = BACKSPACE => keyboard_buffer = NUL /\ pc # "echo"

BugStep ==                   \* steps back and leaves the character
    /\ keyboard_col > EDIT_COL
    /\ keyboard_col' = keyboard_col - 1
    /\ cursor' = CellOf(keyboard_row, keyboard_col - 1)
    /\ UNCHANGED screen
\* The interrupt's backspace on the screen.
Erase ==
    /\ keyboard_col > EDIT_COL
    /\ keyboard_col' = keyboard_col - 1
    /\ screen' = Written(keyboard_row, keyboard_col - 1, BLANK, 1)
    /\ cursor' = CellOf(keyboard_row, keyboard_col - 1)

\* keyboard_isr for a scancode of key k.  A key not yet fetched is replaced.
keyboard_isr(k) ==
    /\ keyboard_input_on
    /\ keyboard_buffer' = k
    /\ \/ /\ k = BACKSPACE
          /\ \/ Erase
             \/ keyboard_col <= EDIT_COL /\ UNCHANGED <<keyboard_col, screen, cursor>>
          /\ UNCHANGED print_mode
       \/ /\ k # BACKSPACE
          /\ print_mode' = TRUE /\ UNCHANGED <<keyboard_col, screen, cursor>>
    /\ orderly' = (orderly /\ Orderly(k))
    /\ UNCHANGED <<keyboard_input_on, keyboard_row, shell, spilled, firstLine>>

-----------------------------------------------------------------------------
(* The shell *)

BugPoll ==                   \* the mode is not reset with the buffer
    /\ pc = "poll"
    /\ buf' = keyboard_buffer /\ keyboard_buffer' = NUL
    /\ pc' = CASE keyboard_buffer = NUL -> "poll"
               [] keyboard_buffer # NUL /\ ~print_mode -> "erase"
               [] keyboard_buffer = NEWLINE /\ print_mode -> "enter"
               [] OTHER -> "echo"
    /\ UNCHANGED <<keyboard_input_on, print_mode, display, input, i, todo, history>>
\* get_keyboard_buffer and the tests main makes on what it got.
Poll ==
    /\ pc = "poll"
    /\ buf' = keyboard_buffer /\ keyboard_buffer' = NUL /\ print_mode' = FALSE
    /\ pc' = CASE keyboard_buffer = NUL -> "poll"
               [] keyboard_buffer # NUL /\ ~print_mode -> "erase"
               [] keyboard_buffer = NEWLINE /\ print_mode -> "enter"
               [] OTHER -> "echo"
    /\ UNCHANGED <<keyboard_input_on, display, input, i, todo, history>>

BugEraseLast ==              \* an empty line gets shorter
    /\ pc = "erase" /\ pc' = "poll"
    /\ i' = i - 1 /\ input' = [input EXCEPT ![i - 1] = NUL]
    /\ UNCHANGED <<keyboard, display, buf, todo, history>>
EraseLast ==
    /\ pc = "erase" /\ pc' = "poll"
    /\ \/ i > 0 /\ i' = i - 1 /\ input' = [input EXCEPT ![i - 1] = NUL]
       \/ i = 0 /\ UNCHANGED <<input, i>>
    /\ UNCHANGED <<keyboard, display, buf, todo, history>>

\* puts of n times x at the current position.
Show(x, n) ==
    /\ screen' = Written(keyboard_row, keyboard_col, x, n)
    /\ keyboard_col' = keyboard_col + n
    /\ cursor' = CellOf(keyboard_row, keyboard_col + n)
    /\ spilled' = (spilled \/ keyboard_col + n > WIDTH)
    /\ orderly' = (orderly /\ (x # OUTPUT => Visible(keyboard_row, keyboard_col + n - 1)))
    /\ UNCHANGED <<keyboard_row, firstLine>>

Echo ==
    /\ pc = "echo" /\ pc' = "append" /\ Show(buf, 1)
    /\ UNCHANGED <<keyboard, buf, input, i, todo>>

\* Nothing stops a line at the end of input: the write behind it is undefined, and
\* the model follows the shell no further.
AppendChar ==
    /\ pc = "append"
    /\ \/ /\ i < INPUT_SIZE /\ pc' = "poll"
          /\ input' = [input EXCEPT ![i] = buf] /\ i' = i + 1
       \/ i = INPUT_SIZE /\ pc' = "overrun" /\ UNCHANGED <<input, i>>
    /\ UNCHANGED <<keyboard, display, buf, todo, history>>

\* handle_command runs what the line asks for.  A line begins with a clean record.
Enter ==
    /\ pc = "enter" /\ pc' = "command"
    /\ \E s \in Script :
          /\ keyboard_row + Len(SelectSeq(s, LAMBDA c : c = Newline)) <= RowBound
          /\ todo' = s \o Home
    /\ orderly' = TRUE
    /\ UNCHANGED <<keyboard, display, buf, input, i, spilled, firstLine>>

BugEndOfLine ==              \* the line is not cleared
    /\ pc = "command" /\ todo = <<>> /\ pc' = "poll"
    /\ i' = 0 /\ firstLine' = FALSE
    /\ UNCHANGED <<keyboard, display, buf, input, todo, orderly, spilled>>
EndOfLine ==
    /\ pc = "command" /\ todo = <<>> /\ pc' = "poll"
    /\ i' = 0 /\ input' = [j \in 0 .. INPUT_SIZE - 1 |-> NUL] /\ firstLine' = FALSE
    /\ UNCHANGED <<keyboard, display, buf, todo, orderly, spilled>>

-----------------------------------------------------------------------------
(* The console system calls, 5 to 10 *)

Call(op) == todo # <<>> /\ Head(todo).op = op /\ todo' = Tail(todo)

puts ==
    /\ Call("puts") /\ Show(Head(todo).char, Head(todo).size)
    /\ UNCHANGED <<keyboard, pc, buf, input, i>>

puts_newline ==
    /\ Call("newline")
    /\ keyboard_row' = keyboard_row + 1 /\ keyboard_col' = 0
    /\ cursor' = CellOf(keyboard_row + 1, 0)
    /\ spilled' = (spilled \/ keyboard_row + 1 >= BYTE)
    /\ UNCHANGED <<keyboard, screen, pc, buf, input, i, orderly, firstLine>>

reset_keyboard_state ==
    /\ Call("reset")
    /\ keyboard_row' = 0 /\ keyboard_col' = 0 /\ cursor' = 0
    /\ UNCHANGED <<keyboard, screen, pc, buf, input, i, history>>

framebuffer_clear ==
    /\ Call("clear")
    /\ screen' = [p \in Cell |-> BLANK] /\ cursor' = 0 /\ spilled' = FALSE
    /\ UNCHANGED <<keyboard, keyboard_row, keyboard_col, pc, buf, input, i, orderly, firstLine>>

\* The shell's first call behind the prompt; its loop begins.
keyboard_state_activate ==
    /\ Call("activate")
    /\ keyboard_input_on' = TRUE /\ pc' = "poll"
    /\ UNCHANGED <<keyboard_buffer, print_mode, display, buf, input, i, history>>

SystemCall ==
    \/ puts \/ puts_newline \/ reset_keyboard_state \/ framebuffer_clear
    \/ keyboard_state_activate
Shell == Poll \/ EraseLast \/ Echo \/ AppendChar \/ Enter \/ EndOfLine \/ SystemCall

Next == Shell \/ \E k \in Key : keyboard_isr(k)

Spec == Init /\ [][Next]_vars

-----------------------------------------------------------------------------
(* What makes the console right *)

\* Every variable has a value of its C type and the line's length stays within input.
TypeOK ==
    /\ keyboard_input_on \in BOOLEAN /\ print_mode \in BOOLEAN
    /\ keyboard_buffer \in Key \cup {NUL} /\ buf \in Key \cup {NUL}
    /\ keyboard_row \in Nat /\ keyboard_col \in Nat /\ cursor \in Nat
    /\ screen \in [Cell -> Glyph]
    /\ pc \in {"start", "poll", "erase", "echo", "append", "enter", "command", "overrun"}
    /\ input \in [0 .. INPUT_SIZE - 1 -> Char \cup {BACKSPACE, NUL, JUNK}]
    /\ i \in 0 .. INPUT_SIZE
    /\ {orderly, spilled, firstLine} \subseteq BOOLEAN

\* The shell waits for a key and none is pending.
Waits == pc = "poll" /\ keyboard_buffer = NUL

\* While the shell waits in a line that was typed in order, what is on the screen
\* before the cursor is the whole prompt and the line it will run: the interrupt's
\* edits of the screen and the shell's edits of the line never part, though each
\* goes by its own variables (keyboard_col there, i here) and keys may be lost;
\* and whatever was typed on the lines before, or during the command, this line
\* starts in agreement.
ScreenShowsLine ==
    Waits /\ orderly =>
        LET start == keyboard_col - i IN
        /\ cursor = CellOf(keyboard_row, keyboard_col) /\ start >= EDIT_COL
        /\ \A c \in start - EDIT_COL .. start - 1 : screen[CellOf(keyboard_row, c)] = PROMPT
        /\ \A j \in 0 .. i - 1 : screen[CellOf(keyboard_row, start + j)] = input[j]

\* While the shell waits, nothing an earlier line, command or backspace left is to
\* be seen from the cursor on, however the keys were struck, until something was
\* written past its row's end (the row advances by one whatever was written);
\* the command clear puts that right.
BlankBehindCursor == Waits /\ ~spilled => \A p \in Cell : p >= cursor => screen[p] = BLANK

\* While the shell waits, however the keys were struck, input holds i characters
\* of this line and nothing of an earlier line or of a rubbed-out end of this one:
\* the string handle_command will scan ends where the typed line ends.  Only on
\* the first line may the stack's bytes stand behind it.
LineEndsAtCursor ==
    Waits => /\ \A j \in 0 .. i - 1 : input[j] \notin {NUL, JUNK}
             /\ \A j \in i .. INPUT_SIZE - 1 : input[j] = NUL \/ (firstLine /\ input[j] = JUNK)
=============================================================================
