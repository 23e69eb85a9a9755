-------------------------------- MODULE Terminal -------------------------------
(***************************************************************************)
(* The terminal, kernel/graphics/terminal.c, on the linear framebuffer of  *)
(* fb.c or, when the boot loader gave none, on VGA text memory.            *)
(*                                                                         *)
(* vram is the memory as the code addresses it: one cell per pixel of the  *)
(* framebuffer, with the unused pixels at the end of each line that the    *)
(* pitch allows, or one cell per character of VGA text memory.  A pixel    *)
(* holds the piece of the glyph drawn there.  No caller changes the        *)
(* colours, so that the background of a glyph is that of a cleared screen. *)
(***************************************************************************)
EXTENDS Integers, Sequences, FiniteSets

CONSTANTS
    Modes,          \* the displays: [fb, w, h, stride]
    CHAR,           \* CHAR_W and CHAR_H, in pixels (16)
    Printable,      \* characters that have a glyph of their own
    Others          \* characters that have none

\* boot.s asks for 1280x400x32.  The code needs room for one character; and
\* a screen of exactly one row would never scroll.
ModesAssumption ==
    /\ CHAR \in Nat \ {0}
    /\ \A m \in Modes : /\ m.fb \in BOOLEAN /\ m.w \in Nat /\ m.h \in Nat
                        /\ m.stride \in Nat /\ m.stride >= m.w
                        /\ m.fb => m.w >= CHAR /\ m.h > CHAR
                        /\ ~m.fb => m.w = m.stride /\ m.w > 0 /\ m.h > 0

Blank == " "
PrintableAssumption == {Blank, "?"} \subseteq Printable

VARIABLES
    mode,           \* fb_ok, fb_w, fb_h and fb_pitch / 4, or VGA_W and VGA_H
    vram,
    terminal_row,
    terminal_column \* in pixels on the framebuffer

screen == <<mode, vram, terminal_row, terminal_column>>

Memory == 0 .. mode.h * mode.stride - 1
Pixel(x, y) == y * mode.stride + x

\* The piece of c's glyph in column dx and row dy; a space is background.
Background == <<Blank, 0, 0>>
Padding    == <<"pad", 0, 0>>
Piece(c, dx, dy) == IF c = Blank THEN Background ELSE <<c, dx, dy>>

--------------------------------------------------------------------------------
(* fb.c.  m is video memory; each operator gives the memory afterwards. *)

\* fb_fill_rect with the black that every caller passes.
fb_fill_rect(m, x, y, w, h) ==
    LET right  == IF x + w > mode.w THEN mode.w ELSE x + w
        bottom == IF y + h > mode.h THEN mode.h ELSE y + h
    IN  IF x >= mode.w \/ y >= mode.h THEN m
        ELSE [a \in DOMAIN m |->
                IF /\ a % mode.stride \in x .. right - 1
                   /\ a \div mode.stride \in y .. bottom - 1
                THEN Background ELSE m[a]]

fb_clear(m) == fb_fill_rect(m, 0, 0, mode.w, mode.h)

fb_draw_glyph(m, cx, cy, c) ==
    IF cx + CHAR > mode.w \/ cy + CHAR > mode.h THEN m
    ELSE LET drawn == {Pixel(cx + dx, cy + dy) : dx, dy \in 0 .. CHAR - 1}
         IN  [a \in DOMAIN m \cup drawn |->
                IF a \in drawn THEN Piece(c, (a % mode.stride) - cx, (a \div mode.stride) - cy)
                               ELSE m[a]]

ScrollNoFill(m, pixels) ==
    [a \in DOMAIN m |-> IF a < (mode.h - pixels) * mode.stride
                        THEN m[a + pixels * mode.stride] ELSE m[a]]

\* The copy runs upwards through memory, so that it may overlap.
fb_scroll_up(m, pixels) ==
    IF pixels >= mode.h THEN m
    ELSE LET moved == [a \in DOMAIN m |->
                        IF a < (mode.h - pixels) * mode.stride
                        THEN m[a + pixels * mode.stride] ELSE m[a]]
         IN  fb_fill_rect(moved, 0, mode.h - pixels, mode.w, pixels)

--------------------------------------------------------------------------------
(* terminal.c *)

draw_char_fb(m, cx, cy, c) ==
    fb_draw_glyph(m, cx, cy, IF c \in Printable THEN c ELSE "?")

clear_terminal ==
    /\ vram' = IF mode.fb THEN fb_clear(vram) ELSE [a \in Memory |-> Background]
    /\ terminal_row' = 0 /\ terminal_column' = 0
    /\ UNCHANGED mode

scroll_fb(m) ==
    /\ vram' = fb_scroll_up(m, CHAR)
    /\ terminal_row' = (mode.h \div CHAR) - 1
    /\ terminal_column' = 0

scroll_vga(m) ==
    /\ vram' = [a \in Memory |-> IF a < (mode.h - 1) * mode.w THEN m[a + mode.w] ELSE Background]
    /\ terminal_row' = mode.h - 1
    /\ terminal_column' = 0

ScrollLate(row) == IF mode.fb THEN row * CHAR > mode.h ELSE row = mode.h

\* Row is below the last one that fits.
Beyond(row) == IF mode.fb THEN (row + 1) * CHAR > mode.h ELSE row = mode.h

\* terminal_column = 0, terminal_row++, and scroll when the row does not fit.
NextRow(m) ==
    IF Beyond(terminal_row + 1)
    THEN IF mode.fb THEN scroll_fb(m) ELSE scroll_vga(m)
    ELSE vram' = m /\ terminal_row' = terminal_row + 1 /\ terminal_column' = 0

Drawn(c, row, column) ==
    IF mode.fb THEN draw_char_fb(vram, column, row * CHAR, c)
    ELSE [vram EXCEPT ![row * mode.w + column] = Piece(c, 0, 0)]

BackspaceFb ==
    LET column == IF terminal_column >= CHAR THEN terminal_column - CHAR ELSE 0
    IN  /\ vram' = Drawn(Blank, terminal_row, column)
        /\ terminal_column' = column
        /\ UNCHANGED terminal_row

BackspaceVgaSameRow ==
    /\ vram' = Drawn(Blank, terminal_row, IF terminal_column > 0 THEN terminal_column - 1 ELSE 0)
    /\ terminal_column' = IF terminal_column > 0 THEN terminal_column - 1 ELSE 0
    /\ UNCHANGED terminal_row

BackspaceVga ==
    LET up     == terminal_column = 0 /\ terminal_row > 0
        row    == IF up THEN terminal_row - 1 ELSE terminal_row
        column == IF up THEN mode.w - 1
                  ELSE IF terminal_column > 0 THEN terminal_column - 1 ELSE 0
    IN  /\ vram' = Drawn(Blank, row, column)
        /\ terminal_row' = row
        /\ terminal_column' = column

Cell == IF mode.fb THEN CHAR ELSE 1      \* columns a character takes

\* No room for another character.
Wraps(column) == IF mode.fb THEN column + CHAR > mode.w ELSE column = mode.w

PutCharacter(c) ==
    LET m == Drawn(c, terminal_row, terminal_column)
    IN  IF Wraps(terminal_column + Cell) THEN NextRow(m)
        ELSE /\ vram' = m
             /\ terminal_column' = terminal_column + Cell
             /\ UNCHANGED terminal_row

terminal_putchar(c) ==
    /\ CASE c = "NL" -> NextRow(vram)
         [] c = "BS" -> IF mode.fb THEN BackspaceFb ELSE BackspaceVga
         [] OTHER    -> PutCharacter(c)
    /\ UNCHANGED mode

\* fb_init, which clears the screen, and terminal_initialize.
TerminalInit ==
    /\ mode \in Modes
    /\ vram = [a \in Memory |-> IF a % mode.stride < mode.w THEN Background ELSE Padding]
    /\ terminal_row = 0 /\ terminal_column = 0

--------------------------------------------------------------------------------
(* Properties *)

Rows == IF mode.fb THEN mode.h \div CHAR ELSE mode.h
Cols == IF mode.fb THEN mode.w \div CHAR ELSE mode.w

\* What a reader sees in a cell: a character, or pieces of several.
Shown(r, c) ==
    IF ~mode.fb THEN vram[r * mode.w + c][1]
    ELSE LET at(dx, dy) == vram[Pixel(c * CHAR + dx, r * CHAR + dy)]
             seen == {ch \in Printable : \A dx, dy \in 0 .. CHAR - 1 :
                                            at(dx, dy) = Piece(ch, dx, dy)}
         IN  IF seen = {} THEN "torn" ELSE CHOOSE ch \in seen : TRUE

Col == terminal_column \div Cell

Control == {"NL", "BS"}

TerminalNext == clear_terminal \/ \E c \in Printable \cup Others \cup Control : terminal_putchar(c)

TerminalSpec == TerminalInit /\ [][TerminalNext]_screen

(* The cursor stays on the screen, so that each character that             *)
(* terminal_putchar draws is drawn inside video memory and whole.          *)
TerminalTypeOK ==
    /\ DOMAIN vram = Memory
    /\ terminal_row \in 0 .. Rows - 1
    /\ terminal_column \in {k * Cell : k \in 0 .. Cols - 1}

(* Pixel by pixel, with screens that are no multiple of a character and    *)
(* lines longer than the screen is wide, the terminal shows what a text    *)
(* screen of as many whole rows and columns shows.  On the framebuffer a   *)
(* character without a glyph shows as a question mark.                     *)
TS == INSTANCE TextScreen
        WITH size  <- <<Rows, Cols>>, row <- terminal_row, col <- Col,
             grid  <- [cell \in (0 .. Rows - 1) \X (0 .. Cols - 1) |-> Shown(cell[1], cell[2])],
             Chars <- Printable \cup Others

RefinesTextScreen == TS!Spec
================================================================================
