-------------------------------- MODULE Readline -------------------------------
(***************************************************************************)
(* The main loop and readline of programs/shell/main.c on the terminal.    *)
(* putchar of the user library is one EFF_WRITE of one character, so that  *)
(* what readline echoes reaches the terminal character by character.       *)
(***************************************************************************)
EXTENDS Terminal

CONSTANTS
    LINE_MAX,       \* size of the line buffer (128)
    Keys,           \* characters that getchar may return
    Outputs         \* what commands may print: texts that end in a newline

\* The prompt, the line and the cursor fit on the screen, and what a command
\* prints ends its line.
LineAssumption ==
    /\ LINE_MAX \in Nat \ {0} /\ \A m \in Modes : ~m.fb => LINE_MAX + 2 <= m.w * (m.h - 1)
    /\ ">" \in Printable /\ Keys \subseteq Printable \cup Others \cup {"NL", "BS", "DEL", "CR"}
    /\ \A t \in Outputs : /\ t \in Seq(Printable \cup Others \cup Control) /\ t # <<>>
                          /\ t[Len(t)] = "NL"

VARIABLES
    pc,             \* "start", "prompt", "read" or "run"
    line,           \* the characters of the line buffer before its index i
    out,            \* characters still to be written
    reach           \* ghost: the longest the line has been since the prompt

vars == <<screen, pc, line, out, reach>>

prompt == <<">", Blank>>

Init == TerminalInit /\ pc = "start" /\ line = <<>> /\ out = <<>> /\ reach = 0

\* terminal_write, one character of it.
Write ==
    /\ out # <<>>
    /\ terminal_putchar(Head(out))
    /\ out' = Tail(out)
    /\ UNCHANGED <<pc, line, reach>>

\* main clears the screen and prints the system information.
Start ==
    /\ pc = "start"
    /\ clear_terminal
    /\ out' \in Outputs
    /\ pc' = "prompt"
    /\ UNCHANGED <<line, reach>>

Prompt ==
    /\ pc = "prompt" /\ out = <<>>
    /\ out' = prompt
    /\ pc' = "read" /\ line' = <<>> /\ reach' = 0
    /\ UNCHANGED screen

Reading == pc = "read" /\ out = <<>>

RoomTooMuch == Len(line) < LINE_MAX
Room        == Len(line) < LINE_MAX - 1

Rubout == <<"BS", Blank, "BS">>

Erase ==
    /\ Reading
    /\ {"BS", "DEL"} \cap Keys # {} /\ line # <<>>
    /\ line' = SubSeq(line, 1, Len(line) - 1)
    /\ out' = Rubout
    /\ UNCHANGED <<screen, pc, reach>>

\* A carriage return, and what does not fit, is dropped.
Type(c) ==
    /\ Reading
    /\ c \notin {"NL", "BS", "DEL", "CR"} /\ Room
    /\ line' = Append(line, c)
    /\ out' = <<c>>
    /\ reach' = IF Len(line') > reach THEN Len(line') ELSE reach
    /\ UNCHANGED <<screen, pc>>

Enter ==
    /\ Reading
    /\ out' = <<"NL">>
    /\ pc' = "run"
    /\ UNCHANGED <<screen, line, reach>>

\* The command, or the message that there is none; a blank line prints nothing.
Command ==
    /\ pc = "run" /\ out = <<>>
    /\ pc' = "prompt"
    /\ \/ line # <<>> /\ clear_terminal /\ UNCHANGED out
       \/ line # <<>> /\ out' \in Outputs /\ UNCHANGED screen
       \/ (\A k \in DOMAIN line : line[k] \in {Blank, "TAB"}) /\ UNCHANGED <<screen, out>>
    /\ UNCHANGED <<line, reach>>

Next == Write \/ Start \/ Prompt \/ Erase \/ (\E c \in Keys : Type(c)) \/ Enter \/ Command

Spec == Init /\ [][Next]_vars

--------------------------------------------------------------------------------
(* Properties *)

(* The terminator of the line always fits into the buffer.                 *)
TypeOK ==
    /\ TerminalTypeOK
    /\ pc \in {"start", "prompt", "read", "run"}
    /\ Len(line) <= LINE_MAX - 1 /\ reach \in Len(line) .. LINE_MAX - 1

\* Cells in reading order.
Cursor == terminal_row * Cols + Col
CellAt(k) == Shown(k \div Cols, k % Cols)
Face(c) == IF mode.fb /\ c \notin Printable THEN "?" ELSE c

(* Between keys, the screen shows the prompt and exactly the line as       *)
(* readline holds it, right before the cursor, and nothing after it: what  *)
(* is entered is what is seen, over wraps, scrolling and erasing.  On the  *)
(* framebuffer, whose backspace does not go back up a row, this holds for  *)
(* lines that have not reached the right edge.                             *)
LineShown ==
    Reading /\ (mode.fb => Len(prompt) + reach < Cols) =>
        LET text  == prompt \o line
            first == Cursor - Len(text)
        IN  /\ \A k \in 1 .. Len(text) : CellAt(first + k - 1) = Face(text[k])
            /\ \A k \in Cursor .. Rows * Cols - 1 : CellAt(k) = Blank

(* What is entered is what is shown, and line and cursor keep to their     *)
(* limits while it is.                                                     *)
EchoShowsLine == TypeOK /\ LineShown
================================================================================
