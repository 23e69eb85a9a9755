------------------------------- MODULE UserProofs -------------------------------
(***************************************************************************)
(* What the user has to do with:                                           *)
(*   - the terminal and readline, for displays and characters of every     *)
(*     size and lines of every length (Terminal, Readline),                *)
(*   - process_keys pushes a key once (KeyReports),                        *)
(*   - a system call is done or refused, and IOCTL_GET_INFO fills each     *)
(*     field and runs over none (Effects).                                 *)
(* Readline and the other two have state, steps and invariants apart.      *)
(***************************************************************************)
EXTENDS Readline, KeyReports, Effects,
        FiniteSetTheorems, SequenceTheorems, WellFoundedInduction, TLAPS

--------------------------------------------------------------------------------
(* Arithmetic *)

\* A quotient and a remainder are unique.
LEMMA DivUnique ==
    ASSUME NEW d \in Nat, d >= 1, NEW q \in Nat, NEW r \in Nat, r < d
    PROVE  (q * d + r) \div d = q /\ (q * d + r) % d = r
<1> DEFINE n == q * d + r
           p == n \div d
           s == n % d
<1>1. n \in Nat
  <2>1. q * d \in Nat
    OBVIOUS
  <2> QED BY <2>1
<1>2. p \in Int /\ s \in 0 .. d - 1 /\ n = p * d + s
  BY <1>1, Z3
<1>3. p = q
  <2>1. CASE p >= q + 1
    <3>1. p * d >= (q + 1) * d
      BY <2>1, <1>2, Z3
    <3>2. (q + 1) * d = q * d + d
      BY Z3
    <3> QED BY <3>1, <3>2, <1>2
  <2>2. CASE p <= q - 1
    <3>1. p * d <= (q - 1) * d
      BY <2>2, <1>2, Z3
    <3>2. (q - 1) * d = q * d - d
      BY Z3
    <3> QED BY <3>1, <3>2, <1>2
  <2> QED BY <2>1, <2>2, <1>2
<1> QED BY <1>2, <1>3

\* What a quotient and a remainder are.
LEMMA DivMod ==
    ASSUME NEW n \in Nat, NEW d \in Nat, d >= 1
    PROVE  n \div d \in Nat /\ n % d \in Nat /\ n % d < d /\ n = (n \div d) * d + (n % d)
<1>1. n \div d \in Int /\ n % d \in 0 .. d - 1 /\ n = (n \div d) * d + (n % d)
  BY Z3
<1>2. n \div d >= 0
  BY Z3
<1> QED BY <1>1, <1>2

\* Places in rows of d, by row and column.
LEMMA Ordered ==
    ASSUME NEW d \in Nat, d >= 1, NEW a \in Nat, NEW b \in Nat, a <= b
    PROVE  a * d \in Nat /\ b * d \in Nat /\ a * d <= b * d /\ (a + 1) * d = a * d + d
<1>1. a * d \in Nat /\ b * d \in Nat
  OBVIOUS
<1>2. a * d <= b * d
  BY Z3
<1>3. (a + 1) * d = a * d + d
  BY Z3
<1> QED BY <1>1, <1>2, <1>3

--------------------------------------------------------------------------------
(* Pixels and cells *)

ModeOK ==
    /\ mode.fb \in BOOLEAN /\ CHAR \in Nat
    /\ mode.w \in Nat /\ mode.h \in Nat /\ mode.stride \in Nat
    /\ Cell >= 1 /\ mode.stride >= mode.w /\ mode.w >= Cell /\ mode.h >= Cell
    /\ mode.fb => mode.h > CHAR
    /\ ~mode.fb => mode.w = mode.stride

LEMMA ModeFacts ==
    ASSUME ModesAssumption, mode \in Modes
    PROVE  ModeOK
  BY DEF ModesAssumption, ModeOK, Cell

\* A pixel of the screen has an address of its own in video memory.
LEMMA PixelAt ==
    ASSUME ModeOK, NEW x \in Nat, NEW y \in Nat, x < mode.w, y < mode.h
    PROVE  /\ Pixel(x, y) \in Memory /\ Pixel(x, y) \in Nat
           /\ Pixel(x, y) % mode.stride = x /\ Pixel(x, y) \div mode.stride = y
<1>1. /\ mode.stride \in Nat /\ mode.stride >= 1 /\ x < mode.stride /\ mode.h \in Nat
      /\ y + 1 \in Nat /\ y + 1 <= mode.h /\ y <= mode.h
  BY DEF ModeOK
<1>2. Pixel(x, y) % mode.stride = x /\ Pixel(x, y) \div mode.stride = y
  BY <1>1, DivUnique DEF Pixel
<1>3. y * mode.stride \in Nat /\ (y + 1) * mode.stride = y * mode.stride + mode.stride
  BY <1>1, Ordered
<1>4. mode.h * mode.stride \in Nat /\ (y + 1) * mode.stride <= mode.h * mode.stride
  BY <1>1, Ordered
<1>5. y * mode.stride + x \in Nat /\ y * mode.stride + x <= mode.h * mode.stride - 1
  BY <1>1, <1>3, <1>4
<1> QED BY <1>2, <1>4, <1>5 DEF Pixel, Memory

\* Rows and columns are those that fit.
LEMMA GridFacts ==
    ASSUME ModeOK
    PROVE  /\ Rows \in Nat /\ Cols \in Nat /\ Rows >= 1 /\ Cols >= 1
           /\ Cell \in Nat /\ Cell >= 1
           /\ Rows * Cell \in Nat /\ Rows * Cell <= mode.h /\ mode.h < Rows * Cell + Cell
           /\ Cols * Cell \in Nat /\ Cols * Cell <= mode.w /\ mode.w < Cols * Cell + Cell
           /\ ~mode.fb => Rows = mode.h /\ Cols = mode.w /\ Cell = 1
<1>1. CASE mode.fb
  <2>sizes. /\ mode.h \in Nat /\ mode.w \in Nat /\ CHAR \in Nat /\ CHAR >= 1
        /\ mode.h >= CHAR /\ mode.w >= CHAR
    BY <1>1 DEF ModeOK, Cell
  <2>rows. /\ Rows \in Nat /\ mode.h % CHAR \in Nat /\ mode.h % CHAR < CHAR
        /\ mode.h = Rows * CHAR + (mode.h % CHAR)
    BY <1>1, <2>sizes, DivMod DEF Rows
  <2>cols. /\ Cols \in Nat /\ mode.w % CHAR \in Nat /\ mode.w % CHAR < CHAR
        /\ mode.w = Cols * CHAR + (mode.w % CHAR)
    BY <1>1, <2>sizes, DivMod DEF Cols
  <2>naturals. Rows * CHAR \in Nat /\ Cols * CHAR \in Nat
    BY <2>sizes, <2>rows, <2>cols
  <2>some. Rows # 0 /\ Cols # 0
    BY <2>sizes, <2>rows, <2>cols
  <2> QED BY <1>1, <2>sizes, <2>rows, <2>cols, <2>naturals, <2>some DEF Cell
<1>2. CASE ~mode.fb
  BY <1>2 DEF ModeOK, Rows, Cols, Cell
<1> QED BY <1>1, <1>2 DEF ModeOK

\* The pixels of a cell are on the screen.
LEMMA Spot ==
    ASSUME ModeOK, NEW r \in 0 .. Rows - 1, NEW c \in 0 .. Cols - 1,
           NEW dx \in 0 .. Cell - 1, NEW dy \in 0 .. Cell - 1
    PROVE  /\ c * Cell \in Nat /\ c * Cell + Cell <= Cols * Cell
           /\ r * Cell \in Nat /\ r * Cell + Cell <= Rows * Cell
           /\ c * Cell + dx \in Nat /\ c * Cell + dx < mode.w
           /\ r * Cell + dy \in Nat /\ r * Cell + dy < mode.h
<1>1. /\ Rows \in Nat /\ Cols \in Nat /\ Cell \in Nat /\ Cell >= 1
      /\ Rows * Cell <= mode.h /\ Cols * Cell <= mode.w
      /\ Rows * Cell \in Nat /\ Cols * Cell \in Nat /\ mode.h \in Nat /\ mode.w \in Nat
  BY GridFacts DEF ModeOK
<1>2. r * Cell \in Nat /\ r * Cell + Cell = (r + 1) * Cell /\ (r + 1) * Cell <= Rows * Cell
  BY <1>1, Ordered
<1>3. c * Cell \in Nat /\ c * Cell + Cell = (c + 1) * Cell /\ (c + 1) * Cell <= Cols * Cell
  BY <1>1, Ordered
<1> QED BY <1>1, <1>2, <1>3

\* A pixel is in one column of cells, and one row.
LEMMA Apart ==
    ASSUME NEW d \in Nat, d >= 1, NEW a \in Nat, NEW b \in Nat, NEW r \in 0 .. d - 1,
           a * d + r \in b * d .. b * d + d - 1
    PROVE  a = b
<1>1. CASE a < b
  BY <1>1, Ordered, (a + 1) * d <= b * d, a * d \in Nat, b * d \in Nat
<1>2. CASE a > b
  BY <1>2, Ordered, (b + 1) * d <= a * d, a * d \in Nat, b * d \in Nat
<1> QED BY <1>1, <1>2

--------------------------------------------------------------------------------
(* What fb.c and terminal.c do to the pixels *)

OnX == 0 .. mode.w - 1
OnY == 0 .. mode.h - 1

LEMMA FillRect ==
    ASSUME ModeOK, NEW m, DOMAIN m = Memory,
           NEW x0 \in OnX, NEW y0 \in OnY, NEW w \in Nat, NEW high \in Nat,
           x0 + w <= mode.w, y0 + high <= mode.h
    PROVE  /\ DOMAIN fb_fill_rect(m, x0, y0, w, high) = Memory
           /\ \A x \in OnX, y \in OnY :
                fb_fill_rect(m, x0, y0, w, high)[Pixel(x, y)] =
                    IF x \in x0 .. x0 + w - 1 /\ y \in y0 .. y0 + high - 1
                    THEN Background ELSE m[Pixel(x, y)]
<1> DEFINE f == [a \in Memory |->
                    IF a % mode.stride \in x0 .. x0 + w - 1 /\ a \div mode.stride \in y0 .. y0 + high - 1
                    THEN Background ELSE m[a]]
<1>1. fb_fill_rect(m, x0, y0, w, high) = f
  BY DEF fb_fill_rect, OnX, OnY, ModeOK
<1>2. ASSUME NEW x \in OnX, NEW y \in OnY
      PROVE  f[Pixel(x, y)] = IF x \in x0 .. x0 + w - 1 /\ y \in y0 .. y0 + high - 1
                              THEN Background ELSE m[Pixel(x, y)]
  <2>1. /\ Pixel(x, y) \in Memory
        /\ Pixel(x, y) % mode.stride = x /\ Pixel(x, y) \div mode.stride = y
    BY PixelAt DEF OnX, OnY, ModeOK
  <2> QED BY <2>1
<1> QED BY <1>1, <1>2

\* A glyph that is drawn whole changes the pixels of its cell.
LEMMA DrawnPixels ==
    ASSUME ModeOK, DOMAIN vram = Memory, NEW r0 \in 0 .. Rows - 1, NEW c0 \in 0 .. Cols - 1, NEW ch
    PROVE  /\ DOMAIN Drawn(ch, r0, c0 * Cell) = Memory
           /\ \A x \in OnX, y \in OnY :
                Drawn(ch, r0, c0 * Cell)[Pixel(x, y)] =
                    IF x \in c0 * Cell .. c0 * Cell + Cell - 1 /\ y \in r0 * Cell .. r0 * Cell + Cell - 1
                    THEN Piece(Face(ch), x - c0 * Cell, y - r0 * Cell) ELSE vram[Pixel(x, y)]
<1> DEFINE cx == c0 * Cell
           cy == r0 * Cell
           d == Drawn(ch, r0, cx)
           Right == /\ DOMAIN d = Memory
                    /\ \A x \in OnX, y \in OnY :
                         d[Pixel(x, y)] = IF x \in cx .. cx + Cell - 1 /\ y \in cy .. cy + Cell - 1
                                          THEN Piece(Face(ch), x - cx, y - cy) ELSE vram[Pixel(x, y)]
<1> SUFFICES Right
  OBVIOUS
<1>0. /\ Cell \in Nat /\ Cell >= 1 /\ mode.w \in Nat /\ mode.h \in Nat
      /\ cx \in Nat /\ cx + Cell <= mode.w /\ cy \in Nat /\ cy + Cell <= mode.h
  <2>1. 0 \in 0 .. Cell - 1
    BY GridFacts
  <2> QED BY <2>1, Spot, GridFacts DEF ModeOK
<1>1. CASE mode.fb
  <2> DEFINE drawn == {Pixel(cx + dx, cy + dy) : dx, dy \in 0 .. CHAR - 1}
             f == [a \in Memory |->
                    IF a \in drawn
                    THEN Piece(Face(ch), (a % mode.stride) - cx, (a \div mode.stride) - cy)
                    ELSE vram[a]]
  <2>1. Cell = CHAR /\ CHAR \in Nat
    BY <1>1, <1>0 DEF Cell
  <2>2. ASSUME NEW dx \in 0 .. CHAR - 1, NEW dy \in 0 .. CHAR - 1
        PROVE  Pixel(cx + dx, cy + dy) \in Memory
    BY <1>0, <2>1, PixelAt
  <2>3. Memory \cup drawn = Memory
    BY <2>2
  <2>4. d = f
    <3>1. ~(cx + CHAR > mode.w \/ cy + CHAR > mode.h)
      BY <1>0, <2>1
    <3>2. d = fb_draw_glyph(vram, cx, r0 * CHAR, Face(ch))
      BY <1>1 DEF Drawn, draw_char_fb, Face
    <3>3. r0 * CHAR = cy
      BY <2>1
    <3> QED BY <3>1, <3>2, <3>3, <2>3 DEF fb_draw_glyph
  <2>5. ASSUME NEW x \in OnX, NEW y \in OnY
        PROVE  f[Pixel(x, y)] =
                 IF x \in cx .. cx + Cell - 1 /\ y \in cy .. cy + Cell - 1
                 THEN Piece(Face(ch), x - cx, y - cy) ELSE vram[Pixel(x, y)]
    <3>1. /\ Pixel(x, y) \in Memory
          /\ Pixel(x, y) % mode.stride = x /\ Pixel(x, y) \div mode.stride = y
      BY PixelAt DEF OnX, OnY, ModeOK
    <3>2. x \in cx .. cx + Cell - 1 /\ y \in cy .. cy + Cell - 1 => Pixel(x, y) \in drawn
      <4> SUFFICES ASSUME x \in cx .. cx + Cell - 1, y \in cy .. cy + Cell - 1
                   PROVE  Pixel(x, y) \in drawn
        OBVIOUS
      <4> DEFINE dx == x - cx
                 dy == y - cy
      <4>1. dx \in 0 .. CHAR - 1 /\ dy \in 0 .. CHAR - 1 /\ cx + dx = x /\ cy + dy = y
        BY <1>0, <2>1
      <4> QED BY <4>1
    <3>3. Pixel(x, y) \in drawn => x \in cx .. cx + Cell - 1 /\ y \in cy .. cy + Cell - 1
      <4> SUFFICES ASSUME NEW dx \in 0 .. CHAR - 1, NEW dy \in 0 .. CHAR - 1,
                          Pixel(x, y) = Pixel(cx + dx, cy + dy)
                   PROVE  x \in cx .. cx + Cell - 1 /\ y \in cy .. cy + Cell - 1
        OBVIOUS
      <4>1. /\ Pixel(cx + dx, cy + dy) % mode.stride = cx + dx
            /\ Pixel(cx + dx, cy + dy) \div mode.stride = cy + dy
        BY <1>0, <2>1, PixelAt
      <4> QED BY <4>1, <3>1, <1>0, <2>1
    <3> QED BY <3>1, <3>2, <3>3
  <2>6. DOMAIN f = Memory
    OBVIOUS
  <2> HIDE DEF f, d, cx, cy
  <2> QED BY <2>4, <2>5, <2>6
<1>2. CASE ~mode.fb
  <2>1. Cell = 1 /\ mode.stride = mode.w /\ cx = c0 /\ cy = r0 /\ c0 \in OnX /\ r0 \in OnY
    BY <1>2, GridFacts DEF ModeOK, OnX, OnY
  <2>2. d = [vram EXCEPT ![Pixel(c0, r0)] = Piece(ch, 0, 0)]
    BY <1>2, <2>1 DEF Drawn, Pixel
  <2>3. Face(ch) = ch
    BY <1>2 DEF Face
  <2>4. ASSUME NEW x \in OnX, NEW y \in OnY
        PROVE  /\ Pixel(x, y) \in Memory
               /\ Pixel(x, y) = Pixel(c0, r0) <=> x = c0 /\ y = r0
    <3>1. /\ Pixel(x, y) \in Memory
          /\ Pixel(x, y) % mode.stride = x /\ Pixel(x, y) \div mode.stride = y
          /\ Pixel(c0, r0) % mode.stride = c0 /\ Pixel(c0, r0) \div mode.stride = r0
      BY PixelAt, <2>1 DEF OnX, OnY, ModeOK
    <3> QED BY <3>1
  <2> HIDE DEF d, cx, cy
  <2>5. DOMAIN d = Memory /\ Pixel(c0, r0) \in Memory
    BY <2>1, <2>2, <2>4
  <2>6. ASSUME NEW x \in OnX, NEW y \in OnY
        PROVE  d[Pixel(x, y)] = IF x \in cx .. cx + Cell - 1 /\ y \in cy .. cy + Cell - 1
                                THEN Piece(Face(ch), x - cx, y - cy) ELSE vram[Pixel(x, y)]
    <3>1. x \in Nat /\ y \in Nat /\ c0 \in Nat /\ r0 \in Nat
      BY <2>1 DEF OnX, OnY, ModeOK
    <3>2. x \in cx .. cx + Cell - 1 /\ y \in cy .. cy + Cell - 1 <=> x = c0 /\ y = r0
      BY <2>1, <3>1
    <3>3. x = c0 /\ y = r0 => x - cx = 0 /\ y - cy = 0
      BY <2>1, <3>1
    <3> QED BY <2>2, <2>3, <2>4, <2>5, <3>2, <3>3
  <2> QED BY <2>5, <2>6
<1> QED BY <1>1, <1>2 DEF ModeOK

\* scroll_fb and scroll_vga.
Scrolled(m) ==
    IF mode.fb THEN fb_scroll_up(m, CHAR)
    ELSE [a \in Memory |-> IF a < (mode.h - 1) * mode.w THEN m[a + mode.w] ELSE Background]

LEMMA ScrolledPixels ==
    ASSUME ModeOK, NEW m, DOMAIN m = Memory
    PROVE  /\ DOMAIN Scrolled(m) = Memory
           /\ \A x \in OnX, y \in OnY :
                Scrolled(m)[Pixel(x, y)] =
                    IF y < mode.h - Cell THEN m[Pixel(x, y + Cell)] ELSE Background
<1>0. /\ Cell \in Nat /\ Cell >= 1 /\ mode.w \in Nat /\ mode.h \in Nat /\ mode.h >= Cell
      /\ mode.stride \in Nat /\ mode.stride >= 1 /\ mode.w >= Cell
  BY GridFacts DEF ModeOK
<1> DEFINE k == mode.h - Cell
           moved == [a \in Memory |-> IF a < k * mode.stride THEN m[a + Cell * mode.stride] ELSE m[a]]
<1>1. k \in Nat /\ k < mode.h /\ k + Cell = mode.h
  BY <1>0
<1>2. ASSUME NEW x \in OnX, NEW y \in OnY
      PROVE  /\ Pixel(x, y) \in Memory
             /\ Pixel(x, y) < k * mode.stride <=> y < k
             /\ y < k => Pixel(x, y) + Cell * mode.stride = Pixel(x, y + Cell) /\ y + Cell \in OnY
  <2> HIDE DEF k
  <2>1. Pixel(x, y) \in Memory
    BY PixelAt DEF OnX, OnY, ModeOK
  <2>2. x \in Nat /\ y \in Nat /\ x < mode.stride /\ y < mode.h /\ y + 1 \in Nat
    BY DEF OnX, OnY, ModeOK
  <2>3. CASE y < k
    <3>1. (y + 1) * mode.stride <= k * mode.stride /\ k * mode.stride \in Nat
      BY <2>2, <2>3, <1>0, <1>1, Ordered
    <3>2. y * mode.stride \in Nat /\ (y + 1) * mode.stride = y * mode.stride + mode.stride
      BY <2>2, <2>3, <1>0, <1>1, Ordered
    <3>3. (y + Cell) * mode.stride = y * mode.stride + Cell * mode.stride
      BY <2>2, <1>0, Z3
    <3>4. Cell * mode.stride \in Nat
      BY <1>0
    <3>5. Pixel(x, y) < k * mode.stride
      BY <2>2, <3>1, <3>2, <1>0 DEF Pixel
    <3>6. Pixel(x, y) + Cell * mode.stride = Pixel(x, y + Cell)
      BY <2>2, <3>2, <3>3, <3>4, <1>0 DEF Pixel
    <3> QED BY <2>1, <2>2, <2>3, <3>5, <3>6, <1>0, <1>1 DEF OnY
  <2>4. CASE ~(y < k)
    <3>1. k * mode.stride <= y * mode.stride /\ k * mode.stride \in Nat /\ y * mode.stride \in Nat
      BY <2>2, <2>4, <1>0, <1>1, Ordered
    <3> QED BY <2>1, <2>2, <2>4, <3>1 DEF Pixel
  <2> QED BY <2>3, <2>4
<1>3. CASE mode.fb
  <2>1. CHAR = Cell /\ ~(CHAR >= mode.h)
    BY <1>3 DEF Cell, ModeOK
  <2>2. Scrolled(m) = fb_fill_rect(moved, 0, k, mode.w, Cell)
    BY <1>3, <2>1 DEF Scrolled, fb_scroll_up
  <2> HIDE DEF k
  <2>3. 0 \in OnX /\ k \in OnY /\ 0 + mode.w <= mode.w /\ k + Cell <= mode.h
    BY <1>0, <1>1 DEF OnX, OnY
  <2> HIDE DEF moved
  <2>4. DOMAIN moved = Memory
    BY DEF moved
  <2>5. /\ DOMAIN fb_fill_rect(moved, 0, k, mode.w, Cell) = Memory
        /\ \A x \in OnX, y \in OnY :
             fb_fill_rect(moved, 0, k, mode.w, Cell)[Pixel(x, y)] =
                IF x \in 0 .. 0 + mode.w - 1 /\ y \in k .. k + Cell - 1
                THEN Background ELSE moved[Pixel(x, y)]
    BY <1>0, <2>3, <2>4, FillRect
  <2>6. ASSUME NEW x \in OnX, NEW y \in OnY
        PROVE  Scrolled(m)[Pixel(x, y)] = IF y < k THEN m[Pixel(x, y + Cell)] ELSE Background
    <3>1. x \in 0 .. 0 + mode.w - 1 /\ (y \in k .. k + Cell - 1 <=> ~(y < k))
      BY <1>0, <1>1 DEF OnX, OnY
    <3>2. y < k => moved[Pixel(x, y)] = m[Pixel(x, y + Cell)]
      BY <1>2 DEF moved
    <3> QED BY <2>2, <2>5, <3>1, <3>2
  <2> QED BY <2>2, <2>5, <2>6 DEF k
<1>4. CASE ~mode.fb
  <2>1. Cell = 1 /\ mode.stride = mode.w
    BY <1>4, GridFacts DEF ModeOK
  <2>2. k = mode.h - 1 /\ Cell * mode.stride = mode.w
    BY <2>1, <1>0
  <2> HIDE DEF k
  <2>3. Scrolled(m) = [a \in Memory |->
                        IF a < k * mode.stride THEN m[a + Cell * mode.stride] ELSE Background]
    BY <1>4, <2>1, <2>2 DEF Scrolled
  <2>4. ASSUME NEW x \in OnX, NEW y \in OnY
        PROVE  Scrolled(m)[Pixel(x, y)] = IF y < k THEN m[Pixel(x, y + Cell)] ELSE Background
    BY <1>2, <2>3
  <2> QED BY <2>3, <2>4 DEF k
<1> QED BY <1>3, <1>4 DEF ModeOK

--------------------------------------------------------------------------------
(* What is shown in the cells *)

Cells == (0 .. Rows - 1) \X (0 .. Cols - 1)
Faces == IF mode.fb THEN Printable ELSE Printable \cup Others

\* m shows the character ch in the cell.
Holds(m, r, c, ch) ==
    \A dx, dy \in 0 .. Cell - 1 : m[Pixel(c * Cell + dx, r * Cell + dy)] = Piece(ch, dx, dy)

\* Below the last row the screen is empty: what scrolling moves up from there.
Rest(m) == \A x \in OnX, y \in OnY : y >= Rows * Cell => m[Pixel(x, y)] = Background

Displays(m, g) ==
    /\ DOMAIN m = Memory /\ Rest(m)
    /\ g \in [Cells -> Faces]
    /\ \A r \in 0 .. Rows - 1, c \in 0 .. Cols - 1 : Holds(m, r, c, g[<<r, c>>])

LEMMA FirstPiece == \A ch : Piece(ch, 0, 0) = <<ch, 0, 0>>
  BY DEF Piece, Background, Blank

\* A cell that holds a character shows it.
LEMMA ShownIs ==
    ASSUME ModeOK, NEW r \in 0 .. Rows - 1, NEW c \in 0 .. Cols - 1,
           NEW ch \in Faces, Holds(vram, r, c, ch)
    PROVE  Shown(r, c) = ch
<1>0. Cell \in Nat /\ 0 \in 0 .. Cell - 1 /\ r \in Nat /\ c \in Nat
  BY GridFacts
<1>1. CASE mode.fb
  <2> DEFINE at(dx, dy) == vram[Pixel(c * CHAR + dx, r * CHAR + dy)]
             shows == {x \in Printable : \A dx, dy \in 0 .. CHAR - 1 : at(dx, dy) = Piece(x, dx, dy)}
  <2>1. CHAR = Cell /\ ch \in Printable
    BY <1>1 DEF Cell, Faces
  <2>2. \A dx, dy \in 0 .. CHAR - 1 : at(dx, dy) = Piece(ch, dx, dy)
    BY <2>1 DEF Holds
  <2>3. ch \in shows
    BY <2>1, <2>2
  <2>4. ASSUME NEW x \in shows PROVE x = ch
    <3>1. at(0, 0) = Piece(x, 0, 0) /\ at(0, 0) = Piece(ch, 0, 0)
      BY <1>0, <2>1, <2>2
    <3>2. <<x, 0, 0>> = <<ch, 0, 0>>
      BY <3>1, FirstPiece
    <3> QED BY <3>2
  <2>5. Shown(r, c) = IF shows = {} THEN "torn" ELSE CHOOSE x \in shows : TRUE
    BY <1>1 DEF Shown
  <2> HIDE DEF shows
  <2> QED BY <2>3, <2>4, <2>5
<1>2. CASE ~mode.fb
  <2>1. Cell = 1 /\ mode.stride = mode.w /\ mode.w \in Nat
    BY <1>2, GridFacts DEF ModeOK
  <2>2. vram[Pixel(c * Cell + 0, r * Cell + 0)] = Piece(ch, 0, 0)
    BY <1>0 DEF Holds
  <2>3. Pixel(c * Cell + 0, r * Cell + 0) = r * mode.w + c
    BY <1>0, <2>1 DEF Pixel
  <2>4. vram[r * mode.w + c] = <<ch, 0, 0>>
    BY <2>2, <2>3, FirstPiece
  <2> QED BY <1>2, <2>4 DEF Shown
<1> QED BY <1>1, <1>2 DEF ModeOK

\* The same after a step.
LEMMA NextShown ==
    ASSUME ModeOK, mode' = mode, NEW r \in 0 .. Rows - 1, NEW c \in 0 .. Cols - 1,
           NEW ch \in Faces, Holds(vram', r, c, ch)
    PROVE  Shown(r, c)' = ch
<1>0. Cell \in Nat /\ 0 \in 0 .. Cell - 1 /\ r \in Nat /\ c \in Nat
  BY GridFacts
<1>1. CASE mode.fb
  <2> DEFINE at(dx, dy) == vram'[Pixel(c * CHAR + dx, r * CHAR + dy)']
             shows == {x \in Printable : \A dx, dy \in 0 .. CHAR - 1 : at(dx, dy) = Piece(x, dx, dy)}
  <2>1. CHAR = Cell /\ ch \in Printable
    BY <1>1 DEF Cell, Faces
  <2>2. \A dx, dy \in 0 .. CHAR - 1 : at(dx, dy) = Piece(ch, dx, dy)
    BY <2>1 DEF Holds, Pixel
  <2>3. ch \in shows
    BY <2>1, <2>2
  <2>4. ASSUME NEW x \in shows PROVE x = ch
    <3>1. at(0, 0) = Piece(x, 0, 0) /\ at(0, 0) = Piece(ch, 0, 0)
      BY <1>0, <2>1, <2>2
    <3>2. <<x, 0, 0>> = <<ch, 0, 0>>
      BY <3>1, FirstPiece
    <3> QED BY <3>2
  <2>5. Shown(r, c)' = IF shows = {} THEN "torn" ELSE CHOOSE x \in shows : TRUE
    BY <1>1 DEF Shown
  <2> HIDE DEF shows
  <2> QED BY <2>3, <2>4, <2>5
<1>2. CASE ~mode.fb
  <2>1. Cell = 1 /\ mode.stride = mode.w /\ mode.w \in Nat
    BY <1>2, GridFacts DEF ModeOK
  <2>2. vram'[Pixel(c * Cell + 0, r * Cell + 0)] = Piece(ch, 0, 0)
    BY <1>0 DEF Holds
  <2>3. Pixel(c * Cell + 0, r * Cell + 0) = r * mode.w + c
    BY <1>0, <2>1 DEF Pixel
  <2>4. vram'[r * mode.w + c] = <<ch, 0, 0>>
    BY <2>2, <2>3, FirstPiece
  <2> QED BY <1>2, <2>4 DEF Shown
<1> QED BY <1>1, <1>2 DEF ModeOK

\* An empty screen.
LEMMA DisplaysBlank ==
    ASSUME ModeOK, PrintableAssumption, NEW m, DOMAIN m = Memory,
           \A x \in OnX, y \in OnY : m[Pixel(x, y)] = Background
    PROVE  Displays(m, [cell \in Cells |-> Blank])
<1>1. ASSUME NEW r \in 0 .. Rows - 1, NEW c \in 0 .. Cols - 1,
             NEW dx \in 0 .. Cell - 1, NEW dy \in 0 .. Cell - 1
      PROVE  m[Pixel(c * Cell + dx, r * Cell + dy)] = Piece(Blank, dx, dy)
  <2>1. c * Cell + dx \in OnX /\ r * Cell + dy \in OnY
    BY Spot DEF OnX, OnY, ModeOK
  <2> QED BY <2>1 DEF Piece
<1>2. [cell \in Cells |-> Blank] \in [Cells -> Faces]
  BY DEF Faces, PrintableAssumption
<1>3. \A r \in 0 .. Rows - 1, c \in 0 .. Cols - 1 : <<r, c>> \in Cells
  BY DEF Cells
<1> QED BY <1>1, <1>2, <1>3 DEF Displays, Holds, Rest

\* A character drawn into a cell.
LEMMA DisplaysDrawn ==
    ASSUME ModeOK, PrintableAssumption, NEW g, Displays(vram, g),
           NEW r0 \in 0 .. Rows - 1, NEW c0 \in 0 .. Cols - 1, NEW ch \in Printable \cup Others
    PROVE  Displays(Drawn(ch, r0, c0 * Cell), [g EXCEPT ![<<r0, c0>>] = Face(ch)])
<1> DEFINE d == Drawn(ch, r0, c0 * Cell)
           n == [g EXCEPT ![<<r0, c0>>] = Face(ch)]
<1>0. /\ Cell \in Nat /\ Cell >= 1 /\ r0 \in Nat /\ c0 \in Nat
      /\ Rows * Cell \in Nat /\ mode.h \in Nat /\ mode.w \in Nat
  BY GridFacts DEF ModeOK
<1>1. /\ DOMAIN d = Memory
      /\ \A x \in OnX, y \in OnY :
           d[Pixel(x, y)] = IF x \in c0 * Cell .. c0 * Cell + Cell - 1 /\ y \in r0 * Cell .. r0 * Cell + Cell - 1
                            THEN Piece(Face(ch), x - c0 * Cell, y - r0 * Cell) ELSE vram[Pixel(x, y)]
  BY DrawnPixels DEF Displays
<1> HIDE DEF d
<1>2. Rest(d)
  <2>1. 0 \in 0 .. Cell - 1
    BY <1>0
  <2>2. r0 * Cell \in Nat /\ r0 * Cell + Cell <= Rows * Cell
    BY <2>1, Spot
  <2> DEFINE top == Rows * Cell
             at  == r0 * Cell
  <2>3. at \in Nat /\ top \in Nat /\ at + Cell <= top
    BY <2>2, <1>0
  <2>4. ASSUME NEW x \in OnX, NEW y \in OnY, y >= top
        PROVE  d[Pixel(x, y)] = Background
    <3>1. ~(y \in at .. at + Cell - 1)
      <4> HIDE DEF top, at
      <4> QED BY <2>3, <2>4, <1>0 DEF OnY
    <3>2. vram[Pixel(x, y)] = Background
      BY <2>4 DEF Displays, Rest
    <3> QED BY <1>1, <3>1, <3>2
  <2> QED BY <2>4 DEF Rest
<1>3. n \in [Cells -> Faces] /\ \A r \in 0 .. Rows - 1, c \in 0 .. Cols - 1 :
          <<r, c>> \in Cells /\ n[<<r, c>>] = IF r = r0 /\ c = c0 THEN Face(ch) ELSE g[<<r, c>>]
  <2>1. Face(ch) \in Faces
    BY DEF Face, Faces, PrintableAssumption
  <2>2. g \in [Cells -> Faces]
    BY DEF Displays
  <2>3. \A r \in 0 .. Rows - 1, c \in 0 .. Cols - 1 :
            <<r, c>> \in Cells /\ (<<r, c>> = <<r0, c0>> <=> r = r0 /\ c = c0)
    BY DEF Cells
  <2> QED BY <2>1, <2>2, <2>3
<1> HIDE DEF n
<1>4. ASSUME NEW r \in 0 .. Rows - 1, NEW c \in 0 .. Cols - 1
      PROVE  Holds(d, r, c, n[<<r, c>>])
  <2> SUFFICES ASSUME NEW dx \in 0 .. Cell - 1, NEW dy \in 0 .. Cell - 1
               PROVE  d[Pixel(c * Cell + dx, r * Cell + dy)] = Piece(n[<<r, c>>], dx, dy)
    BY DEF Holds
  <2> DEFINE x == c * Cell + dx
             y == r * Cell + dy
             cx == c0 * Cell
             cy == r0 * Cell
  <2>1. x \in OnX /\ y \in OnY /\ x \in Nat /\ y \in Nat /\ r \in Nat /\ c \in Nat
    BY Spot DEF OnX, OnY, ModeOK
  <2>2. cx \in Nat /\ cy \in Nat
    BY <1>0
  <2>3. CASE r = r0 /\ c = c0
    <3>1. x = cx + dx /\ y = cy + dy
      BY <2>3
    <3> HIDE DEF x, y, cx, cy
    <3>2. x \in cx .. cx + Cell - 1 /\ y \in cy .. cy + Cell - 1 /\ x - cx = dx /\ y - cy = dy
      BY <3>1, <2>2, <1>0
    <3>3. d[Pixel(x, y)] = Piece(Face(ch), x - cx, y - cy)
      BY <1>1, <2>1, <3>2 DEF cx, cy
    <3> QED BY <3>2, <3>3, <1>3, <2>3 DEF x, y
  <2>4. CASE ~(r = r0 /\ c = c0)
    <3>1. ~(x \in cx .. cx + Cell - 1 /\ y \in cy .. cy + Cell - 1)
      BY <2>4, <2>1, <1>0, Apart
    <3>2. d[Pixel(x, y)] = vram[Pixel(x, y)]
      <4> HIDE DEF x, y
      <4> QED BY <1>1, <2>1, <3>1
    <3>3. vram[Pixel(x, y)] = Piece(g[<<r, c>>], dx, dy)
      BY DEF Displays, Holds
    <3> QED BY <3>2, <3>3, <1>3, <2>4
  <2> QED BY <2>3, <2>4
<1> QED BY <1>1, <1>2, <1>3, <1>4 DEF Displays, d, n

\* Rows moved up by one.
Raised(g) == [cell \in Cells |-> IF cell[1] = Rows - 1 THEN Blank ELSE g[<<cell[1] + 1, cell[2]>>]]

LEMMA DisplaysScrolled ==
    ASSUME ModeOK, PrintableAssumption, NEW m, NEW g, Displays(m, g)
    PROVE  Displays(Scrolled(m), Raised(g))
<1> DEFINE s == Scrolled(m)
           k == mode.h - Cell
           top == Rows * Cell
<1>0. /\ Cell \in Nat /\ Cell >= 1 /\ Rows \in Nat /\ Cols \in Nat /\ mode.h \in Nat /\ mode.w \in Nat
      /\ k \in Nat /\ top \in Nat /\ top <= mode.h /\ mode.h < top + Cell
  BY GridFacts DEF ModeOK
<1>1. DOMAIN s = Memory /\ \A x \in OnX, y \in OnY :
          s[Pixel(x, y)] = IF y < mode.h - Cell THEN m[Pixel(x, y + Cell)] ELSE Background
  BY ScrolledPixels DEF Displays
<1> HIDE DEF s
<1>2. Rest(s)
  <2> SUFFICES ASSUME NEW x \in OnX, NEW y \in OnY, y >= top
               PROVE  s[Pixel(x, y)] = Background
    BY DEF Rest
  <2> HIDE DEF top
  <2>1. ~(y < mode.h - Cell)
    BY <1>0 DEF OnY
  <2> QED BY <1>1, <2>1
<1>3. Raised(g) \in [Cells -> Faces] /\ \A r \in 0 .. Rows - 1, c \in 0 .. Cols - 1 :
          Raised(g)[<<r, c>>] = IF r = Rows - 1 THEN Blank ELSE g[<<r + 1, c>>]
  <2>1. g \in [Cells -> Faces] /\ Blank \in Faces
    BY DEF Displays, Faces, PrintableAssumption
  <2>2. \A r \in 0 .. Rows - 1, c \in 0 .. Cols - 1 :
            <<r, c>> \in Cells /\ (r # Rows - 1 => <<r + 1, c>> \in Cells)
    BY <1>0 DEF Cells
  <2>3. \A cell \in Cells : cell = <<cell[1], cell[2]>> /\ cell[1] \in 0 .. Rows - 1 /\ cell[2] \in 0 .. Cols - 1
    BY DEF Cells
  <2> QED BY <2>1, <2>2, <2>3 DEF Raised
<1>4. ASSUME NEW r \in 0 .. Rows - 1, NEW c \in 0 .. Cols - 1
      PROVE  Holds(s, r, c, Raised(g)[<<r, c>>])
  <2> SUFFICES ASSUME NEW dx \in 0 .. Cell - 1, NEW dy \in 0 .. Cell - 1
               PROVE  s[Pixel(c * Cell + dx, r * Cell + dy)] = Piece(Raised(g)[<<r, c>>], dx, dy)
    BY DEF Holds
  <2> DEFINE x == c * Cell + dx
             y == r * Cell + dy
             next == (r + 1) * Cell
  <2>1. /\ x \in OnX /\ y \in OnY /\ x \in Nat /\ y \in Nat /\ r \in Nat /\ c \in Nat
        /\ r * Cell \in Nat /\ r * Cell + Cell <= top
    BY Spot DEF OnX, OnY, ModeOK
  <2>2. next = r * Cell + Cell /\ next + dy = y + Cell
    <3>1. next = r * Cell + Cell
      BY <2>1, <1>0, Ordered, r <= r
    <3> QED BY <2>1, <1>0, <3>1
  <2>3. CASE r = Rows - 1
    <3>1. next = top
      BY <2>3, <1>0
    <3>2. y + Cell >= top
      <4> HIDE DEF next, top, y
      <4> QED BY <2>2, <3>1, <1>0, <2>1
    <3>3. s[Pixel(x, y)] = Background
      <4>1. CASE y < mode.h - Cell
        <5>1. y + Cell \in OnY
          <6> HIDE DEF y
          <6> QED BY <4>1, <1>0, <2>1 DEF OnY
        <5>2. m[Pixel(x, y + Cell)] = Background
          <6> HIDE DEF x, y
          <6> QED BY <5>1, <3>2, <2>1 DEF Displays, Rest
        <5> QED 
          <6> HIDE DEF x, y
          <6> QED BY <4>1, <5>2, <1>1, <2>1
      <4>2. CASE ~(y < mode.h - Cell)
        <5> HIDE DEF x, y
        <5> QED BY <4>2, <1>1, <2>1
      <4> QED BY <4>1, <4>2
    <3> QED BY <3>3, <2>3, <1>3 DEF Piece
  <2>4. CASE r # Rows - 1
    <3>1. r + 1 \in 0 .. Rows - 1
      BY <2>4, <1>0
    <3>2. (r + 1) * Cell + Cell <= top
      BY <3>1, Spot
    <3>3. y < mode.h - Cell
      <4> HIDE DEF next, top, y
      <4> QED BY <3>2, <2>2, <2>1, <1>0 DEF next
    <3>4. m[Pixel(x, next + dy)] = Piece(g[<<r + 1, c>>], dx, dy)
      BY <3>1 DEF Displays, Holds
    <3>5. s[Pixel(x, y)] = m[Pixel(x, y + Cell)]
      <4> HIDE DEF x, y
      <4> QED BY <3>3, <1>1, <2>1
    <3> QED BY <3>4, <3>5, <2>2, <1>3, <2>4
  <2> QED BY <2>3, <2>4
<1> QED BY <1>1, <1>2, <1>3, <1>4 DEF Displays, s

--------------------------------------------------------------------------------
(* The steps of the terminal are those of a text screen *)

Grid == [cell \in Cells |-> Shown(cell[1], cell[2])]

ScreenInv == mode \in Modes /\ TerminalTypeOK /\ Displays(vram, Grid)

LEMMA CellPair ==
    \A cell \in Cells : /\ cell = <<cell[1], cell[2]>>
                        /\ cell[1] \in 0 .. Rows - 1 /\ cell[2] \in 0 .. Cols - 1
  BY DEF Cells

LEMMA GridIs ==
    ASSUME ModeOK, NEW g, Displays(vram, g)
    PROVE  Grid = g
<1>1. ASSUME NEW cell \in Cells PROVE Shown(cell[1], cell[2]) = g[cell]
  <2>1. cell = <<cell[1], cell[2]>> /\ cell[1] \in 0 .. Rows - 1 /\ cell[2] \in 0 .. Cols - 1
    BY CellPair
  <2>2. g[<<cell[1], cell[2]>>] \in Faces /\ Holds(vram, cell[1], cell[2], g[<<cell[1], cell[2]>>])
    BY <2>1 DEF Displays
  <2> QED BY <2>1, <2>2, ShownIs
<1>2. g \in [Cells -> Faces]
  BY DEF Displays
<1> QED BY <1>1, <1>2 DEF Grid

LEMMA NextGrid ==
    ASSUME ModeOK, mode' = mode, NEW g, Displays(vram', g)
    PROVE  Grid' = g /\ Displays(vram, Grid)'
<1>1. ASSUME NEW cell \in Cells PROVE Shown(cell[1], cell[2])' = g[cell]
  <2>1. cell = <<cell[1], cell[2]>> /\ cell[1] \in 0 .. Rows - 1 /\ cell[2] \in 0 .. Cols - 1
    BY CellPair
  <2>2. g[<<cell[1], cell[2]>>] \in Faces /\ Holds(vram', cell[1], cell[2], g[<<cell[1], cell[2]>>])
    BY <2>1 DEF Displays
  <2> DEFINE r == cell[1]
             c == cell[2]
             ch == g[<<r, c>>]
  <2>3. r \in 0 .. Rows - 1 /\ c \in 0 .. Cols - 1 /\ ch \in Faces /\ Holds(vram', r, c, ch)
    BY <2>1, <2>2
  <2>4. g[cell] = ch
    BY <2>1
  <2> HIDE DEF r, c, ch
  <2>5. Shown(r, c)' = ch
    BY <2>3, NextShown
  <2> QED BY <2>4, <2>5 DEF r, c
<1>2. Rows' = Rows /\ Cols' = Cols /\ Cell' = Cell /\ Memory' = Memory /\ OnX' = OnX /\ OnY' = OnY
  BY DEF Rows, Cols, Cell, Memory, OnX, OnY
<1>3. Cells' = Cells /\ Faces' = Faces
  BY <1>2 DEF Cells, Faces
<1>4. g \in [Cells -> Faces]
  BY DEF Displays
<1>5. Grid' = g
  BY <1>1, <1>3, <1>4 DEF Grid
<1>6. DOMAIN vram' = Memory' /\ Rest(vram)' /\ g \in [Cells -> Faces]'
  BY <1>2, <1>3 DEF Displays, Rest, Pixel
<1>7. ASSUME NEW r \in 0 .. Rows - 1, NEW c \in 0 .. Cols - 1
      PROVE  Holds(vram, r, c, g[<<r, c>>])'
  <2>1. Holds(vram', r, c, g[<<r, c>>])
    BY DEF Displays
  <2>2. ASSUME NEW dx \in 0 .. Cell - 1, NEW dy \in 0 .. Cell - 1
        PROVE  vram'[Pixel(c * Cell + dx, r * Cell + dy)'] = Piece(g[<<r, c>>], dx, dy)
    <3>1. Pixel(c * Cell + dx, r * Cell + dy)' = Pixel(c * Cell + dx, r * Cell + dy)
      BY <1>2 DEF Pixel
    <3> QED BY <2>1, <3>1 DEF Holds
  <2> QED BY <2>2, <1>2 DEF Holds
<1> QED BY <1>2, <1>5, <1>6, <1>7 DEF Displays

LEMMA ScreenFacts ==
    ASSUME ModesAssumption, ScreenInv
    PROVE  /\ ModeOK /\ DOMAIN vram = Memory /\ terminal_row \in 0 .. Rows - 1
           /\ Col \in 0 .. Cols - 1 /\ terminal_column = Col * Cell
<1>1. ModeOK
  BY ModeFacts DEF ScreenInv
<1>2. PICK k \in 0 .. Cols - 1 : terminal_column = k * Cell
  BY DEF ScreenInv, TerminalTypeOK
<1>3. k \in Nat /\ Cell \in Nat /\ Cell >= 1
  BY <1>1, GridFacts
<1>4. (k * Cell + 0) \div Cell = k /\ k * Cell + 0 = k * Cell
  BY <1>3, DivUnique
<1> QED BY <1>1, <1>2, <1>4 DEF Col, ScreenInv, TerminalTypeOK

\* The screen after a step, from what its memory shows.
LEMMA Moved ==
    ASSUME ModesAssumption, ScreenInv, mode' = mode, NEW g, Displays(vram', g),
           terminal_row' \in 0 .. Rows - 1, NEW c \in 0 .. Cols - 1, terminal_column' = c * Cell
    PROVE  ScreenInv' /\ Grid' = g /\ Col' = c /\ <<Rows, Cols>>' = <<Rows, Cols>>
<1>1. ModeOK
  BY ScreenFacts
<1>2. Rows' = Rows /\ Cols' = Cols /\ Cell' = Cell /\ Memory' = Memory
  BY DEF Rows, Cols, Cell, Memory
<1>3. Grid' = g /\ Displays(vram, Grid)'
  BY <1>1, NextGrid
<1>4. c \in Nat /\ Cell \in Nat /\ Cell >= 1
  BY <1>1, GridFacts
<1>5. (c * Cell + 0) \div Cell = c /\ c * Cell + 0 = c * Cell
  BY <1>4, DivUnique
<1>6. Col' = c
  BY <1>2, <1>5 DEF Col
<1>7. TerminalTypeOK'
  BY <1>2 DEF TerminalTypeOK, Displays
<1> QED BY <1>2, <1>3, <1>6, <1>7 DEF ScreenInv

\* A new line, over what m shows.
LEMMA RowStep ==
    ASSUME ModesAssumption, PrintableAssumption, ScreenInv, mode' = mode,
           NEW m, NEW g, Displays(m, g), NextRow(m)
    PROVE  ScreenInv' /\ <<Rows, Cols>>' = <<Rows, Cols>> /\ TS!NextRow(g)
<1>1. /\ ModeOK /\ terminal_row \in 0 .. Rows - 1
      /\ Rows \in Nat /\ Rows >= 1 /\ Cols \in Nat /\ Cols >= 1 /\ Cell \in Nat /\ Cell >= 1
  BY ScreenFacts, GridFacts
<1>2. Beyond(terminal_row + 1) <=> terminal_row = Rows - 1
  <2>1. CASE mode.fb
    <3> DEFINE r == terminal_row + 1
    <3>1. Cell = CHAR /\ r \in Nat /\ r + 1 \in Nat /\ r <= Rows /\ mode.h \in Nat
      BY <1>1, <2>1 DEF Cell, ModeOK
    <3>2. Rows * Cell \in Nat /\ Rows * Cell <= mode.h /\ mode.h < Rows * Cell + Cell
      BY <1>1, GridFacts
    <3>3. (Rows + 1) * Cell = Rows * Cell + Cell
      BY <1>1, Ordered, Rows <= Rows
    <3>4. r < Rows => (r + 1) * Cell <= Rows * Cell /\ (r + 1) * Cell \in Nat
      BY <3>1, <1>1, Ordered
    <3> HIDE DEF r
    <3>5. (r + 1) * CHAR > mode.h <=> r = Rows
      BY <3>1, <3>2, <3>3, <3>4, <1>1
    <3> QED BY <3>5, <2>1, <1>1 DEF Beyond, r
  <2>2. CASE ~mode.fb
    BY <1>1, <2>2, GridFacts DEF Beyond
  <2> QED BY <2>1, <2>2 DEF ModeOK, ScreenInv
<1>3. 0 \in 0 .. Cols - 1 /\ 0 * Cell = 0
  BY <1>1
<1>4. CASE terminal_row < Rows - 1
  <2>1. vram' = m /\ terminal_row' = terminal_row + 1 /\ terminal_column' = 0
    BY <1>1, <1>2, <1>4 DEF NextRow
  <2>2. terminal_row' \in 0 .. Rows - 1 /\ Displays(vram', g)
    BY <1>1, <1>4, <2>1
  <2>3. ScreenInv' /\ Grid' = g /\ Col' = 0 /\ <<Rows, Cols>>' = <<Rows, Cols>>
    BY <1>3, <2>1, <2>2, Moved
  <2> QED BY <2>1, <2>3, <1>4 DEF TS!NextRow, TS!Rows, Grid, Cells
<1>5. CASE ~(terminal_row < Rows - 1)
  <2>1. terminal_row = Rows - 1
    BY <1>1, <1>5
  <2>2. vram' = Scrolled(m) /\ terminal_row' = Rows - 1 /\ terminal_column' = 0
    BY <1>2, <2>1 DEF NextRow, scroll_fb, scroll_vga, Scrolled, Rows
  <2>3. terminal_row' \in 0 .. Rows - 1 /\ Displays(vram', Raised(g))
    BY <1>1, <2>2, DisplaysScrolled
  <2>4. ScreenInv' /\ Grid' = Raised(g) /\ Col' = 0 /\ <<Rows, Cols>>' = <<Rows, Cols>>
    BY <1>3, <2>2, <2>3, Moved
  <2> QED BY <2>1, <2>2, <2>4, <1>5 DEF TS!NextRow, TS!Rows, TS!Cols, TS!Cells, Grid, Cells, Raised
<1> QED BY <1>4, <1>5

\* A character into the cell of the cursor.
LEMMA PutStep ==
    ASSUME ModesAssumption, PrintableAssumption, ScreenInv, mode' = mode,
           NEW ch \in Printable \cup Others, PutCharacter(ch)
    PROVE  ScreenInv' /\ <<Rows, Cols>>' = <<Rows, Cols>> /\ TS!Put(Face(ch))
<1>1. /\ ModeOK /\ terminal_row \in 0 .. Rows - 1
      /\ Col \in 0 .. Cols - 1 /\ terminal_column = Col * Cell
      /\ Rows \in Nat /\ Rows >= 1 /\ Cols \in Nat /\ Cols >= 1 /\ Cell \in Nat /\ Cell >= 1
  BY ScreenFacts, GridFacts
<1> DEFINE m == Drawn(ch, terminal_row, terminal_column)
           g == [Grid EXCEPT ![<<terminal_row, Col>>] = Face(ch)]
<1>2. Displays(m, g)
  BY <1>1, DisplaysDrawn DEF ScreenInv
<1>3. Wraps(terminal_column + Cell) <=> Col = Cols - 1
  <2>1. CASE mode.fb
    <3> DEFINE c == Col + 1
    <3>1. Cell = CHAR /\ c \in Nat /\ c + 1 \in Nat /\ c <= Cols /\ mode.w \in Nat /\ Col \in Nat
      BY <1>1, <2>1 DEF Cell, ModeOK
    <3>2. Cols * Cell \in Nat /\ Cols * Cell <= mode.w /\ mode.w < Cols * Cell + Cell
      BY <1>1, GridFacts
    <3>3. c * Cell = Col * Cell + Cell /\ c * Cell \in Nat
      BY <3>1, <1>1, Ordered, Col <= Col
    <3>4. c < Cols => (c + 1) * Cell <= Cols * Cell /\ (c + 1) * Cell = c * Cell + Cell
      BY <3>1, <1>1, Ordered
    <3>5. Wraps(terminal_column + Cell) <=> c * Cell + CHAR > mode.w
      BY <1>1, <2>1, <3>3 DEF Wraps
    <3> HIDE DEF c
    <3>6. c * Cell + CHAR > mode.w <=> c = Cols
      BY <3>1, <3>2, <3>3, <3>4, <1>1
    <3> QED BY <3>5, <3>6, <1>1 DEF c
  <2>2. CASE ~mode.fb
    <3>1. Cell = 1 /\ Cols = mode.w /\ terminal_column = Col
      BY <2>2, <1>1, GridFacts
    <3> QED BY <2>2, <3>1, <1>1 DEF Wraps
  <2> QED BY <2>1, <2>2 DEF ModeOK
<1>4. TS!Cols = Cols
  BY DEF TS!Cols
<1>5. CASE Col = Cols - 1
  <2>1. NextRow(m)
    BY <1>3, <1>5 DEF PutCharacter
  <2>2. ScreenInv' /\ <<Rows, Cols>>' = <<Rows, Cols>> /\ TS!NextRow(g)
    BY <2>1, <1>2, RowStep
  <2> QED BY <2>2, <1>4, <1>5 DEF TS!Put, Grid, Cells
<1>6. CASE Col # Cols - 1
  <2>1. vram' = m /\ terminal_column' = terminal_column + Cell /\ terminal_row' = terminal_row
    BY <1>3, <1>6 DEF PutCharacter
  <2> DEFINE c == Col + 1
  <2>2. c \in 0 .. Cols - 1 /\ terminal_column' = c * Cell
    <3>1. (Col + 1) * Cell = Col * Cell + Cell
      BY <1>1, Ordered, Col <= Col
    <3> QED BY <3>1, <2>1, <1>1, <1>6
  <2> HIDE DEF c, m, g
  <2>3. ScreenInv' /\ Grid' = g /\ Col' = c /\ <<Rows, Cols>>' = <<Rows, Cols>>
    BY <1>1, <1>2, <2>1, <2>2, Moved
  <2> QED BY <2>1, <2>3, <1>4, <1>6 DEF TS!Put, c, g, Grid, Cells
<1> QED BY <1>5, <1>6

\* A blank into a cell, and the cursor there.
LEMMA RubOutStep ==
    ASSUME ModesAssumption, PrintableAssumption, ScreenInv, mode' = mode,
           NEW r \in 0 .. Rows - 1, NEW c \in 0 .. Cols - 1,
           vram' = Drawn(Blank, r, c * Cell), terminal_row' = r, terminal_column' = c * Cell
    PROVE  ScreenInv' /\ <<Rows, Cols>>' = <<Rows, Cols>> /\ TS!RubOut(r, c)
<1> DEFINE g == [Grid EXCEPT ![<<r, c>>] = Blank]
<1>1. ModeOK /\ Face(Blank) = Blank /\ Blank \in Printable \cup Others
  BY ScreenFacts DEF Face, PrintableAssumption
<1>2. Displays(vram', [Grid EXCEPT ![<<r, c>>] = Face(Blank)])
  BY <1>1, DisplaysDrawn DEF ScreenInv
<1>3. Displays(vram', g)
  BY <1>1, <1>2
<1> HIDE DEF g
<1>4. ScreenInv' /\ Grid' = g /\ Col' = c /\ <<Rows, Cols>>' = <<Rows, Cols>>
  BY <1>3, Moved
<1> QED BY <1>4 DEF TS!RubOut, g, Grid, Cells

\* Where a backspace goes.
BackTo ==
    IF Col > 0 THEN <<terminal_row, Col - 1>>
    ELSE IF ~mode.fb /\ terminal_row > 0 THEN <<terminal_row - 1, Cols - 1>>
    ELSE <<terminal_row, 0>>

LEMMA BackspaceStep ==
    ASSUME ModesAssumption, PrintableAssumption, ScreenInv, mode' = mode,
           IF mode.fb THEN BackspaceFb ELSE BackspaceVga
    PROVE  /\ ScreenInv' /\ <<Rows, Cols>>' = <<Rows, Cols>>
           /\ TS!RubOut(BackTo[1], BackTo[2])
           /\ BackTo \in Cells
<1>1. /\ ModeOK /\ terminal_row \in 0 .. Rows - 1
      /\ Col \in 0 .. Cols - 1 /\ terminal_column = Col * Cell
      /\ Rows \in Nat /\ Rows >= 1 /\ Cols \in Nat /\ Cols >= 1 /\ Cell \in Nat /\ Cell >= 1
  BY ScreenFacts, GridFacts
<1> DEFINE r == BackTo[1]
           c == BackTo[2]
<1>2. BackTo \in Cells /\ r \in 0 .. Rows - 1 /\ c \in 0 .. Cols - 1
  BY <1>1 DEF BackTo, Cells
<1>3. vram' = Drawn(Blank, r, c * Cell) /\ terminal_row' = r /\ terminal_column' = c * Cell
  <2>1. CASE mode.fb
    <3>1. Cell = CHAR
      BY <2>1 DEF Cell
    <3>2. CASE Col > 0
      <4> DEFINE b == Col - 1
      <4>1. b \in Nat /\ b + 1 = Col /\ b * Cell \in Nat /\ Col * Cell = b * Cell + Cell
        <5>1. b \in Nat /\ b + 1 = Col
          BY <3>2, <1>1
        <5> HIDE DEF b
        <5> QED BY <5>1, <1>1, Ordered, b <= b
      <4>2. r = terminal_row /\ c = b
        BY <3>2 DEF BackTo
      <4> HIDE DEF b, r, c
      <4>3. terminal_column >= CHAR /\ terminal_column - CHAR = b * Cell
        BY <4>1, <3>1, <1>1
      <4> QED BY <2>1, <4>2, <4>3 DEF BackspaceFb
    <3>3. CASE ~(Col > 0)
      <4>1. Col = 0 /\ terminal_column = 0 /\ r = terminal_row /\ c = 0 /\ c * Cell = 0
        BY <2>1, <3>3, <1>1 DEF BackTo
      <4>2. ~(terminal_column >= CHAR)
        BY <4>1, <3>1, <1>1
      <4> QED BY <2>1, <4>1, <4>2 DEF BackspaceFb
    <3> QED BY <3>2, <3>3
  <2>2. CASE ~mode.fb
    <3>1. Cell = 1 /\ Cols = mode.w /\ terminal_column = Col /\ c * Cell = c
      BY <2>2, <1>1, <1>2, GridFacts
    <3> QED BY <2>2, <3>1, <1>1 DEF BackspaceVga, BackTo
  <2> QED BY <2>1, <2>2 DEF ModeOK
<1> HIDE DEF r, c
<1>4. ScreenInv' /\ <<Rows, Cols>>' = <<Rows, Cols>> /\ TS!RubOut(r, c)
  BY <1>2, <1>3, RubOutStep
<1> QED BY <1>2, <1>4 DEF r, c

\* The whole of terminal_putchar.
LEMMA PutcharStep ==
    ASSUME ModesAssumption, PrintableAssumption, ScreenInv,
           NEW ch \in Printable \cup Others \cup Control, terminal_putchar(ch)
    PROVE  /\ ScreenInv' /\ mode' = mode /\ <<Rows, Cols>>' = <<Rows, Cols>>
           /\ ch = "NL" => TS!Newline
           /\ ch = "BS" => BackTo \in Cells /\ TS!RubOut(BackTo[1], BackTo[2])
           /\ ch \notin Control => TS!Put(Face(ch))
<1>1. mode' = mode
  BY DEF terminal_putchar
<1>2. CASE ch = "NL"
  <2>1. NextRow(vram)
    BY <1>2 DEF terminal_putchar
  <2>2. ScreenInv' /\ <<Rows, Cols>>' = <<Rows, Cols>> /\ TS!NextRow(Grid)
    BY <1>1, <2>1, RowStep DEF ScreenInv
  <2> QED BY <1>1, <1>2, <2>2 DEF Control, TS!Newline, Grid, Cells
<1>3. CASE ch = "BS"
  <2>1. IF mode.fb THEN BackspaceFb ELSE BackspaceVga
    BY <1>3 DEF terminal_putchar
  <2> QED BY <1>1, <1>3, <2>1, BackspaceStep DEF Control
<1>4. CASE ch \notin Control
  <2>1. PutCharacter(ch)
    BY <1>4 DEF terminal_putchar, Control
  <2> QED BY <1>1, <1>4, <2>1, PutStep DEF Control
<1> QED BY <1>2, <1>3, <1>4 DEF Control

\* The memory that the terminal has cleared.
LEMMA ClearStep ==
    ASSUME ModesAssumption, PrintableAssumption, ScreenInv, clear_terminal
    PROVE  ScreenInv' /\ mode' = mode /\ <<Rows, Cols>>' = <<Rows, Cols>> /\ TS!Clear
<1>1. /\ ModeOK /\ DOMAIN vram = Memory /\ mode.w \in Nat /\ mode.h \in Nat
      /\ mode.w >= 1 /\ mode.h >= 1
      /\ Rows \in Nat /\ Rows >= 1 /\ Cols \in Nat /\ Cols >= 1 /\ Cell \in Nat
  BY ScreenFacts, GridFacts DEF ModeOK
<1> DEFINE g == [cell \in Cells |-> Blank]
<1>2. Displays(vram', g)
  <2>1. CASE mode.fb
    <3>1. 0 \in OnX /\ 0 \in OnY /\ 0 + mode.w <= mode.w /\ 0 + mode.h <= mode.h
      BY <1>1 DEF OnX, OnY
    <3>2. vram' = fb_fill_rect(vram, 0, 0, mode.w, mode.h)
      BY <2>1 DEF clear_terminal, fb_clear
    <3>3. /\ DOMAIN vram' = Memory
          /\ \A x \in OnX, y \in OnY :
               vram'[Pixel(x, y)] = IF x \in 0 .. 0 + mode.w - 1 /\ y \in 0 .. 0 + mode.h - 1
                                    THEN Background ELSE vram[Pixel(x, y)]
      BY <1>1, <3>1, <3>2, FillRect
    <3>4. \A x \in OnX, y \in OnY : vram'[Pixel(x, y)] = Background
      BY <1>1, <3>3 DEF OnX, OnY
    <3> QED BY <1>1, <3>3, <3>4, DisplaysBlank
  <2>2. CASE ~mode.fb
    <3>1. vram' = [a \in Memory |-> Background]
      BY <2>2 DEF clear_terminal
    <3>2. ASSUME NEW x \in OnX, NEW y \in OnY PROVE vram'[Pixel(x, y)] = Background
      <4>1. Pixel(x, y) \in Memory
        BY <1>1, PixelAt DEF OnX, OnY
      <4> QED BY <3>1, <4>1
    <3>3. DOMAIN vram' = Memory
      BY <3>1
    <3> QED BY <1>1, <3>2, <3>3, DisplaysBlank
  <2> QED BY <2>1, <2>2 DEF ModeOK
<1>3. /\ mode' = mode /\ terminal_row' = 0 /\ terminal_row' \in 0 .. Rows - 1
      /\ 0 \in 0 .. Cols - 1 /\ terminal_column' = 0 * Cell
  BY <1>1 DEF clear_terminal
<1>4. ScreenInv' /\ Grid' = g /\ Col' = 0 /\ <<Rows, Cols>>' = <<Rows, Cols>>
  BY <1>2, <1>3, Moved
<1> QED BY <1>3, <1>4 DEF TS!Clear, TS!Cells, TS!Rows, TS!Cols, Grid, Cells

LEMMA TerminalStart ==
    ASSUME ModesAssumption, PrintableAssumption, TerminalInit
    PROVE  ScreenInv /\ TS!Init /\ Grid = [cell \in Cells |-> Blank]
<1>1. ModeOK /\ DOMAIN vram = Memory
  BY ModeFacts DEF TerminalInit
<1>2. Rows \in Nat /\ Rows >= 1 /\ Cols \in Nat /\ Cols >= 1 /\ Cell \in Nat /\ Cell >= 1
  BY <1>1, GridFacts
<1>3. ASSUME NEW x \in OnX, NEW y \in OnY PROVE vram[Pixel(x, y)] = Background
  <2>1. Pixel(x, y) \in Memory /\ Pixel(x, y) % mode.stride = x /\ x < mode.w
    BY <1>1, PixelAt DEF OnX, OnY, ModeOK
  <2> QED BY <2>1 DEF TerminalInit
<1>4. Displays(vram, [cell \in Cells |-> Blank])
  BY <1>1, <1>3, DisplaysBlank
<1>5. Grid = [cell \in Cells |-> Blank]
  BY <1>1, <1>4, GridIs
<1>6. terminal_row \in 0 .. Rows - 1 /\ 0 \in 0 .. Cols - 1 /\ terminal_column = 0 * Cell
  BY <1>2 DEF TerminalInit
<1>7. ScreenInv
  BY <1>1, <1>4, <1>5, <1>6 DEF ScreenInv, TerminalTypeOK, TerminalInit
<1>8. Col = 0
  <2>1. (0 * Cell + 0) \div Cell = 0 /\ 0 * Cell + 0 = 0
    BY <1>2, DivUnique
  <2> QED BY <2>1 DEF Col, TerminalInit
<1> QED BY <1>5, <1>7, <1>8 DEF TS!Init, TS!Cells, TS!Rows, TS!Cols, Grid, Cells, TerminalInit

\* A step of the terminal is one of the text screen.
LEMMA StepOrStutter ==
    ASSUME ModesAssumption, PrintableAssumption, ScreenInv,
           \/ clear_terminal
           \/ \E ch \in Printable \cup Others \cup Control : terminal_putchar(ch)
           \/ UNCHANGED screen
    PROVE  ScreenInv' /\ [TS!Next]_<<<<Rows, Cols>>, Grid, terminal_row, Col>>
<1>1. CASE clear_terminal
  BY <1>1, ClearStep DEF TS!Next
<1>2. ASSUME NEW ch \in Printable \cup Others \cup Control, terminal_putchar(ch)
      PROVE  ScreenInv' /\ TS!Next
  <2>1. /\ ScreenInv' /\ <<Rows, Cols>>' = <<Rows, Cols>>
        /\ ch = "NL" => TS!Newline
        /\ ch = "BS" => BackTo \in Cells /\ TS!RubOut(BackTo[1], BackTo[2])
        /\ ch \notin Control => TS!Put(Face(ch))
    BY <1>2, PutcharStep
  <2>2. CASE ch = "BS"
    <3>1. Col \in 0 .. Cols - 1 /\ terminal_row \in 0 .. Rows - 1 /\ Cols \in Nat /\ Rows \in Nat
      BY ScreenFacts, GridFacts
    <3>2. TS!Backspace
      BY <2>1, <2>2, <3>1 DEF TS!Backspace, BackTo, TS!Cols
    <3> QED BY <2>1, <3>2 DEF TS!Next
  <2>3. CASE ch \notin Control
    <3>1. Face(ch) \in Printable \cup Others
      BY <2>3 DEF Face, PrintableAssumption
    <3> QED BY <2>1, <2>3, <3>1 DEF TS!Next
  <2> QED BY <2>1, <2>2, <2>3 DEF TS!Next, Control
<1>3. CASE UNCHANGED screen
  <2>1. UNCHANGED <<mode, vram, terminal_row, terminal_column>>
    BY <1>3 DEF screen
  <2>2. Rows' = Rows /\ Cols' = Cols /\ Cell' = Cell /\ Memory' = Memory
    BY <2>1 DEF Rows, Cols, Cell, Memory
  <2>3. ModeOK
    BY ScreenFacts
  <2>4. Displays(vram', Grid) /\ terminal_row' \in 0 .. Rows - 1
    BY <2>1 DEF ScreenInv, TerminalTypeOK
  <2>5. Col \in 0 .. Cols - 1 /\ terminal_column' = Col * Cell
    BY <2>1, ScreenFacts
  <2>6. ScreenInv' /\ Grid' = Grid /\ Col' = Col /\ <<Rows, Cols>>' = <<Rows, Cols>>
    BY <2>1, <2>4, <2>5, Moved
  <2> QED BY <2>1, <2>6
<1> QED BY <1>1, <1>2, <1>3

(* The terminal alone, for every display and size of characters: the       *)
(* cursor stays on the screen, so that terminal_putchar writes inside      *)
(* video memory, and the pixels show what a text screen shows.             *)
THEOREM TerminalKept ==
    ASSUME ModesAssumption, PrintableAssumption
    PROVE  TerminalSpec => []TerminalTypeOK /\ RefinesTextScreen
<1>1. TerminalInit => ScreenInv /\ TS!Init
  BY TerminalStart
<1>2. ScreenInv /\ [TerminalNext]_screen
        => ScreenInv' /\ [TS!Next]_<<<<Rows, Cols>>, Grid, terminal_row, Col>>
  BY StepOrStutter DEF TerminalNext
<1>3. ScreenInv => TerminalTypeOK
  BY DEF ScreenInv
<1> QED BY <1>1, <1>2, <1>3, PTL DEF TerminalSpec, RefinesTextScreen, TS!Spec, Grid, Cells

--------------------------------------------------------------------------------
(* The cells in reading order *)

Place(k) == <<k \div Cols, k % Cols>>
Count == Rows * Cols

LEMMA SizeFacts ==
    ASSUME ModesAssumption, ScreenInv
    PROVE  /\ Rows \in Nat /\ Rows >= 1 /\ Cols \in Nat /\ Cols >= 1 /\ Count \in Nat
           /\ terminal_row \in 0 .. Rows - 1 /\ Col \in 0 .. Cols - 1
           /\ Cursor \in 0 .. Count - 1
           /\ Cursor - Col + Cols <= Count /\ Col <= Cursor /\ Cols <= Count
           /\ terminal_row = Rows - 1 <=> Cursor - Col + Cols = Count
           /\ terminal_row = 0 => Cursor = Col
           /\ terminal_row > 0 => Cursor - Col >= Cols
<1>1. /\ Rows \in Nat /\ Rows >= 1 /\ Cols \in Nat /\ Cols >= 1
      /\ terminal_row \in 0 .. Rows - 1 /\ Col \in 0 .. Cols - 1
  BY ScreenFacts, GridFacts
<1> DEFINE r == terminal_row
           s == r + 1
<1>2. /\ Rows * Cols \in Nat /\ r * Cols \in Nat /\ (r + 1) * Cols = r * Cols + Cols
      /\ r <= Rows /\ r \in Nat /\ s \in Nat /\ s <= Rows
  <2>1. r \in Nat /\ r <= Rows /\ s \in Nat /\ s <= Rows
    BY <1>1
  <2> QED BY <2>1, <1>1, Ordered
<1>3. s * Cols <= Rows * Cols
  BY <1>1, <1>2, Ordered
<1>4. r > 0 => Cols <= r * Cols
  <2>1. ASSUME r > 0 PROVE 1 * Cols <= r * Cols
    BY <2>1, <1>1, Ordered
  <2> QED BY <2>1, <1>1
<1>5. r # Rows - 1 => r * Cols + Cols < Rows * Cols
  <2> SUFFICES ASSUME r # Rows - 1 PROVE r * Cols + Cols < Rows * Cols
    OBVIOUS
  <2>1. s + 1 <= Rows /\ s + 1 \in Nat
    BY <1>1
  <2>2. (s + 1) * Cols <= Rows * Cols /\ (s + 1) * Cols = s * Cols + Cols /\ s * Cols \in Nat
    <3> HIDE DEF s
    <3>1. (s + 1) * Cols <= Rows * Cols
      BY <2>1, <1>1, Ordered
    <3>2. (s + 1) * Cols = s * Cols + Cols /\ s * Cols \in Nat
      BY <1>1, <1>2, Ordered
    <3> QED BY <3>1, <3>2
  <2> QED BY <2>2, <1>1, <1>2
<1>6. r = Rows - 1 => r * Cols + Cols = Rows * Cols
  <2>1. r = Rows - 1 => s = Rows
    BY <1>1
  <2> QED BY <2>1, <1>2
<1>7. Cursor = r * Cols + Col /\ (r = 0 => r * Cols = 0)
  BY <1>1 DEF Cursor
<1> DEFINE p == r * Cols
           n == Rows * Cols
<1>8. p \in Nat /\ n \in Nat /\ p + Cols <= n /\ (r = Rows - 1 <=> p + Cols = n)
      /\ (r = 0 => p = 0) /\ (r > 0 => Cols <= p) /\ Cursor = p + Col
  BY <1>2, <1>3, <1>4, <1>5, <1>6, <1>7
<1> HIDE DEF p, n
<1> QED BY <1>1, <1>8 DEF Count, n

LEMMA PlaceOf ==
    ASSUME ModesAssumption, ScreenInv, NEW r \in 0 .. Rows - 1, NEW c \in 0 .. Cols - 1
    PROVE  Place(r * Cols + c) = <<r, c>> /\ r * Cols + c \in 0 .. Count - 1
<1>1. Rows \in Nat /\ Cols \in Nat /\ Cols >= 1 /\ r \in Nat /\ c \in Nat /\ c < Cols
  BY SizeFacts
<1>2. (r * Cols + c) \div Cols = r /\ (r * Cols + c) % Cols = c
  BY <1>1, DivUnique
<1>3. /\ r * Cols \in Nat /\ (r + 1) * Cols = r * Cols + Cols /\ (r + 1) * Cols <= Rows * Cols
      /\ Rows * Cols \in Nat
  BY <1>1, Ordered, r + 1 \in Nat, r + 1 <= Rows, r <= Rows
<1> QED BY <1>1, <1>2, <1>3 DEF Place, Count

LEMMA PlaceIn ==
    ASSUME ModesAssumption, ScreenInv, NEW k \in 0 .. Count - 1
    PROVE  /\ Place(k) \in Cells /\ k = Place(k)[1] * Cols + Place(k)[2]
           /\ CellAt(k) = Grid[Place(k)]
           /\ <<Rows, Cols>>' = <<Rows, Cols>> => CellAt(k)' = Grid'[Place(k)]
<1> DEFINE r == k \div Cols
           c == k % Cols
<1>1. Rows \in Nat /\ Cols \in Nat /\ Cols >= 1 /\ k \in Nat /\ Count \in Nat
  BY SizeFacts
<1>2. r \in Nat /\ c \in Nat /\ c < Cols /\ k = r * Cols + c
  BY <1>1, DivMod
<1>3. r < Rows
  <2> HIDE DEF r, c
  <2> SUFFICES ASSUME r >= Rows PROVE FALSE
    BY <1>1, <1>2
  <2>1. Rows * Cols <= r * Cols /\ r * Cols \in Nat /\ Rows * Cols \in Nat
    BY <1>1, <1>2, Ordered
  <2> QED BY <2>1, <1>1, <1>2 DEF Count
<1>4. Place(k) = <<r, c>> /\ <<r, c>> \in Cells
  BY <1>1, <1>2, <1>3 DEF Place, Cells
<1>5. CellAt(k) = Shown(r, c) /\ (<<Rows, Cols>>' = <<Rows, Cols>> => CellAt(k)' = Shown(r, c)')
  BY DEF CellAt
<1>6. Grid[<<r, c>>] = Shown(r, c)
  BY <1>4 DEF Grid
<1>7. <<Rows, Cols>>' = <<Rows, Cols>> => Grid'[<<r, c>>] = Shown(r, c)'
  BY <1>4 DEF Grid, Cells
<1> QED BY <1>2, <1>4, <1>5, <1>6, <1>7

\* A character written over the grid g, in one cell.
LEMMA OneCell ==
    ASSUME ModesAssumption, ScreenInv, NEW r \in 0 .. Rows - 1, NEW c \in 0 .. Cols - 1, NEW f,
           NEW k \in 0 .. Count - 1
    PROVE  [Grid EXCEPT ![<<r, c>>] = f][Place(k)] =
                IF k = r * Cols + c THEN f ELSE CellAt(k)
<1>1. Place(k) \in Cells /\ k = Place(k)[1] * Cols + Place(k)[2] /\ CellAt(k) = Grid[Place(k)]
  BY PlaceIn
<1>2. Place(r * Cols + c) = <<r, c>>
  BY PlaceOf
<1>3. Place(k) = <<r, c>> <=> k = r * Cols + c
  BY <1>1, <1>2
<1>4. Place(k) \in DOMAIN Grid
  BY <1>1 DEF Grid
<1> QED BY <1>1, <1>3, <1>4

\* A row up is Cols places back.
LEMMA RowUp ==
    ASSUME ModesAssumption, ScreenInv, NEW g, NEW k \in 0 .. Count - 1
    PROVE  /\ k >= Count - Cols => Raised(g)[Place(k)] = Blank
           /\ k < Count - Cols => k + Cols \in 0 .. Count - 1 /\ Raised(g)[Place(k)] = g[Place(k + Cols)]
<1> DEFINE r == Place(k)[1]
           c == Place(k)[2]
<1>1. Rows \in Nat /\ Rows >= 1 /\ Cols \in Nat /\ Cols >= 1 /\ Count \in Nat /\ k \in Nat
  BY SizeFacts
<1>2. Place(k) \in Cells /\ k = r * Cols + c /\ Place(k) = <<r, c>>
  BY PlaceIn DEF Place
<1>3. r \in 0 .. Rows - 1 /\ c \in 0 .. Cols - 1
  BY <1>2 DEF Cells
<1> HIDE DEF r, c
<1>4. Raised(g)[<<r, c>>] = IF r = Rows - 1 THEN Blank ELSE g[<<r + 1, c>>]
  BY <1>2, <1>3 DEF Raised
<1>5. /\ r * Cols \in Nat /\ (r + 1) * Cols = r * Cols + Cols
      /\ Rows * Cols \in Nat
  BY <1>1, <1>3, Ordered, r \in Nat, r <= Rows
<1>6. CASE r = Rows - 1
  <2>1. (r + 1) * Cols = Rows * Cols
    BY <1>6, <1>1
  <2>2. k >= Count - Cols
    BY <1>1, <1>2, <1>3, <1>5, <2>1 DEF Count
  <2> QED BY <1>1, <1>2, <1>4, <1>6, <2>2
<1>7. CASE r # Rows - 1
  <2>1. r + 1 \in 0 .. Rows - 1 /\ r + 1 \in Nat
    BY <1>1, <1>3, <1>7
  <2>2. Place((r + 1) * Cols + c) = <<r + 1, c>> /\ (r + 1) * Cols + c \in 0 .. Count - 1
    BY <2>1, <1>3, PlaceOf
  <2>3. (r + 1) * Cols + c = k + Cols
    BY <1>1, <1>2, <1>3, <1>5
  <2>4. k < Count - Cols
    BY <1>1, <2>2, <2>3
  <2> QED BY <1>1, <1>2, <1>4, <1>7, <2>2, <2>3, <2>4
<1> QED BY <1>6, <1>7

--------------------------------------------------------------------------------
(* The steps of the terminal in reading order *)

Same == ScreenInv' /\ mode' = mode /\ <<Rows, Cols>>' = <<Rows, Cols>>

LEMMA CursorAt ==
    ASSUME ModesAssumption, ScreenInv, Same
    PROVE  Cursor' = terminal_row' * Cols + Col' /\ Count' = Count
  BY DEF Cursor, Count, Same

\* A new line over the grid g.
LEMMA RowLine ==
    ASSUME ModesAssumption, ScreenInv, Same, NEW g, TS!NextRow(g), DOMAIN g = Cells
    PROVE  /\ Col' = 0
           /\ terminal_row < Rows - 1 =>
                /\ Cursor' = Cursor - Col + Cols
                /\ \A k \in 0 .. Count - 1 : CellAt(k)' = g[Place(k)]
           /\ terminal_row = Rows - 1 =>
                /\ Cursor' = Count - Cols
                /\ \A k \in 0 .. Count - 1 :
                     /\ k >= Count - Cols => CellAt(k)' = Blank
                     /\ k < Count - Cols => /\ k + Cols \in 0 .. Count - 1
                                            /\ CellAt(k)' = g[Place(k + Cols)]
<1>1. /\ Rows \in Nat /\ Rows >= 1 /\ Cols \in Nat /\ Cols >= 1 /\ Count \in Nat
      /\ terminal_row \in 0 .. Rows - 1 /\ Col \in 0 .. Cols - 1
      /\ Cursor = terminal_row * Cols + Col
  BY SizeFacts DEF Cursor
<1>2. Cursor' = terminal_row' * Cols + Col'
  BY CursorAt
<1>3. \A k \in 0 .. Count - 1 : CellAt(k)' = Grid'[Place(k)]
  BY PlaceIn DEF Same
<1>4. CASE terminal_row < Rows - 1
  <2>1. Grid' = g /\ terminal_row' = terminal_row + 1 /\ Col' = 0
    BY <1>4 DEF TS!NextRow, TS!Rows, Grid, Cells
  <2>2. terminal_row * Cols \in Nat /\ (terminal_row + 1) * Cols = terminal_row * Cols + Cols
    BY <1>1, Ordered, terminal_row \in Nat, terminal_row <= terminal_row
  <2>3. Cursor' = Cursor - Col + Cols
    BY <1>1, <1>2, <2>1, <2>2
  <2> QED BY <1>1, <1>3, <1>4, <2>1, <2>3
<1>5. CASE ~(terminal_row < Rows - 1)
  <2>1. terminal_row = Rows - 1
    BY <1>1, <1>5
  <2>2. Grid' = Raised(g) /\ terminal_row' = terminal_row /\ Col' = 0
    BY <1>5 DEF TS!NextRow, TS!Rows, TS!Cols, TS!Cells, Grid, Cells, Raised
  <2>3. Cursor' = Cursor - Col
    <3>1. terminal_row * Cols \in Nat
      BY <1>1
    <3> QED BY <1>1, <1>2, <2>2, <3>1
  <2>4. Cursor - Col + Cols = Count
    BY <2>1, SizeFacts
  <2>5. Cursor' = Count - Cols
    BY <1>1, <2>3, <2>4, SizeFacts
  <2>6. ASSUME NEW k \in 0 .. Count - 1
        PROVE  /\ k >= Count - Cols => CellAt(k)' = Blank
               /\ k < Count - Cols => /\ k + Cols \in 0 .. Count - 1
                                      /\ CellAt(k)' = g[Place(k + Cols)]
    BY <1>3, <2>2, RowUp
  <2> QED BY <1>1, <2>1, <2>2, <2>5, <2>6
<1> QED BY <1>4, <1>5

\* A character at the cursor.
LEMMA PutLine ==
    ASSUME ModesAssumption, ScreenInv, Same, NEW f, TS!Put(f)
    PROVE  /\ Cursor < Count - 1 =>
                /\ Cursor' = Cursor + 1
                /\ \A k \in 0 .. Count - 1 : CellAt(k)' = IF k = Cursor THEN f ELSE CellAt(k)
           /\ Cursor = Count - 1 =>
                /\ Cursor' = Cursor + 1 - Cols
                /\ \A k \in 0 .. Count - 1 :
                     /\ k >= Count - Cols => CellAt(k)' = Blank
                     /\ k < Count - Cols =>
                          /\ k + Cols \in 0 .. Count - 1
                          /\ CellAt(k)' = IF k + Cols = Cursor THEN f ELSE CellAt(k + Cols)
           /\ Col # Cols - 1 => Col' = Col + 1
<1> DEFINE g == [Grid EXCEPT ![<<terminal_row, Col>>] = f]
<1>1. /\ Rows \in Nat /\ Rows >= 1 /\ Cols \in Nat /\ Cols >= 1 /\ Count \in Nat
      /\ terminal_row \in 0 .. Rows - 1 /\ Col \in 0 .. Cols - 1
      /\ Cursor = terminal_row * Cols + Col
      /\ Cursor \in 0 .. Count - 1 /\ Cursor - Col + Cols <= Count
      /\ terminal_row = Rows - 1 <=> Cursor - Col + Cols = Count
  BY SizeFacts DEF Cursor
<1>2. Cursor' = terminal_row' * Cols + Col'
  BY CursorAt
<1>3. \A k \in 0 .. Count - 1 : CellAt(k)' = Grid'[Place(k)]
  BY PlaceIn DEF Same
<1>4. \A k \in 0 .. Count - 1 : g[Place(k)] = IF k = Cursor THEN f ELSE CellAt(k)
  <2> DEFINE r == terminal_row
             c == Col
  <2>1. r \in 0 .. Rows - 1 /\ c \in 0 .. Cols - 1 /\ Cursor = r * Cols + c
    BY <1>1
  <2> HIDE DEF r, c
  <2>2. ASSUME NEW k \in 0 .. Count - 1
        PROVE  [Grid EXCEPT ![<<r, c>>] = f][Place(k)] = IF k = r * Cols + c THEN f ELSE CellAt(k)
    BY <2>1, OneCell
  <2> QED BY <2>1, <2>2 DEF r, c
<1>5. DOMAIN g = Cells
  BY DEF Grid
<1>6. CASE Col = Cols - 1
  <2>1. TS!NextRow(g)
    BY <1>6 DEF TS!Put, TS!Cols, Grid, Cells
  <2> HIDE DEF g
  <2>2. CASE terminal_row < Rows - 1
    <3>1. Cursor' = Cursor - Col + Cols /\ \A k \in 0 .. Count - 1 : CellAt(k)' = g[Place(k)]
      BY <1>5, <2>1, <2>2, RowLine
    <3>2. Cursor < Count - 1 /\ Cursor' = Cursor + 1
      BY <1>1, <1>6, <2>2, <3>1
    <3> QED BY <1>1, <1>4, <1>6, <3>1, <3>2
  <2>3. CASE ~(terminal_row < Rows - 1)
    <3>1. terminal_row = Rows - 1
      BY <1>1, <2>3
    <3>2. /\ Cursor' = Count - Cols
          /\ \A k \in 0 .. Count - 1 :
               /\ k >= Count - Cols => CellAt(k)' = Blank
               /\ k < Count - Cols => /\ k + Cols \in 0 .. Count - 1
                                      /\ CellAt(k)' = g[Place(k + Cols)]
      BY <1>5, <2>1, <3>1, RowLine
    <3>3. Cursor = Count - 1
      BY <1>1, <1>6, <3>1
    <3> QED BY <1>1, <1>4, <1>6, <3>2, <3>3
  <2> QED BY <2>2, <2>3
<1>7. CASE Col # Cols - 1
  <2>1. Grid' = g /\ Col' = Col + 1 /\ terminal_row' = terminal_row
    BY <1>7 DEF TS!Put, TS!Cols, Grid, Cells
  <2> HIDE DEF g
  <2>2. Cursor' = Cursor + 1 /\ Cursor < Count - 1
    <3>1. terminal_row * Cols \in Nat
      BY <1>1
    <3> QED BY <1>1, <1>2, <1>7, <2>1, <3>1
  <2> QED BY <1>1, <1>3, <1>4, <2>1, <2>2
<1> QED BY <1>6, <1>7

\* A backspace.
LEMMA BackLine ==
    ASSUME ModesAssumption, ScreenInv, Same, BackTo \in Cells, TS!RubOut(BackTo[1], BackTo[2])
    PROVE  /\ Cursor' = IF Col > 0 \/ (~mode.fb /\ Cursor > 0) THEN Cursor - 1 ELSE Cursor
           /\ \A k \in 0 .. Count - 1 : CellAt(k)' = IF k = Cursor' THEN Blank ELSE CellAt(k)
           /\ Col > 0 => Col' = Col - 1
<1> DEFINE r == BackTo[1]
           c == BackTo[2]
<1>1. /\ Rows \in Nat /\ Rows >= 1 /\ Cols \in Nat /\ Cols >= 1 /\ Count \in Nat
      /\ terminal_row \in 0 .. Rows - 1 /\ Col \in 0 .. Cols - 1
      /\ Cursor = terminal_row * Cols + Col
      /\ terminal_row = 0 => Cursor = Col
      /\ terminal_row > 0 => Cursor - Col >= Cols
  BY SizeFacts DEF Cursor
<1>2. Cursor' = terminal_row' * Cols + Col'
  BY CursorAt
<1>3. \A k \in 0 .. Count - 1 : CellAt(k)' = Grid'[Place(k)]
  BY PlaceIn DEF Same
<1>4. r \in 0 .. Rows - 1 /\ c \in 0 .. Cols - 1
  BY CellPair
<1>5. terminal_row' = r /\ Col' = c /\ Grid' = [Grid EXCEPT ![<<r, c>>] = Blank]
  BY DEF TS!RubOut, Grid, Cells
<1>6. r * Cols + c = (IF Col > 0 \/ (~mode.fb /\ Cursor > 0) THEN Cursor - 1 ELSE Cursor)
      /\ (Col > 0 => c = Col - 1)
  <2>1. terminal_row * Cols \in Nat
    BY <1>1
  <2>2. CASE Col > 0
    <3>1. r = terminal_row /\ c = Col - 1
      BY <2>2 DEF BackTo
    <3> QED BY <1>1, <2>1, <2>2, <3>1
  <2>3. CASE ~(Col > 0) /\ ~mode.fb /\ terminal_row > 0
    <3>1. r = terminal_row - 1 /\ c = Cols - 1
      BY <2>3 DEF BackTo
    <3>2. r \in Nat /\ r + 1 = terminal_row /\ r * Cols \in Nat /\ terminal_row * Cols = r * Cols + Cols
      <4>1. r \in Nat /\ r + 1 = terminal_row
        BY <3>1, <1>1, <2>3
      <4> HIDE DEF r
      <4>2. r * Cols \in Nat /\ (r + 1) * Cols = r * Cols + Cols
        BY <4>1, <1>1, Ordered, r <= r
      <4> QED BY <4>1, <4>2
    <3> HIDE DEF r, c
    <3>3. Cursor > 0
      BY <1>1, <2>3
    <3> QED BY <1>1, <2>1, <2>3, <3>1, <3>2, <3>3
  <2>4. CASE ~(Col > 0) /\ ~(~mode.fb /\ terminal_row > 0)
    <3>1. r = terminal_row /\ c = 0 /\ Col = 0
      BY <2>4, <1>1 DEF BackTo
    <3>2. ~mode.fb => Cursor = 0
      BY <1>1, <2>4, <3>1
    <3> HIDE DEF r, c
    <3> QED BY <1>1, <2>1, <2>4, <3>1, <3>2
  <2> QED BY <2>2, <2>3, <2>4
<1> HIDE DEF r, c
<1>7. Cursor' = r * Cols + c
  BY <1>2, <1>5
<1>8. ASSUME NEW k \in 0 .. Count - 1
      PROVE  CellAt(k)' = IF k = Cursor' THEN Blank ELSE CellAt(k)
  <2>1. [Grid EXCEPT ![<<r, c>>] = Blank][Place(k)] =
            IF k = r * Cols + c THEN Blank ELSE CellAt(k)
    BY <1>4, OneCell
  <2> QED BY <1>3, <1>5, <1>7, <2>1
<1> QED BY <1>5, <1>6, <1>7, <1>8

\* Nothing is shown at the cursor or behind it.
Ahead == \A k \in Cursor .. Count - 1 : CellAt(k) = Blank

LEMMA AheadRow ==
    ASSUME ModesAssumption, ScreenInv, Same, Ahead, TS!Newline
    PROVE  Ahead' /\ Col' = 0
<1>1. DOMAIN Grid = Cells /\ TS!NextRow(Grid)
  BY DEF Grid, Cells, TS!Newline
<1>2. /\ Rows \in Nat /\ Rows >= 1 /\ Cols \in Nat /\ Cols >= 1 /\ Count \in Nat
      /\ terminal_row \in 0 .. Rows - 1 /\ Col \in 0 .. Cols - 1 /\ Cursor \in 0 .. Count - 1
      /\ Cursor - Col + Cols <= Count /\ Cols <= Count /\ Count' = Count
  BY SizeFacts, CursorAt
<1>3. \A k \in 0 .. Count - 1 : CellAt(k) = Grid[Place(k)]
  BY PlaceIn
<1>4. CASE terminal_row < Rows - 1
  <2>1. /\ Col' = 0 /\ Cursor' = Cursor - Col + Cols
        /\ \A k \in 0 .. Count - 1 : CellAt(k)' = Grid[Place(k)]
    BY <1>1, <1>4, RowLine
  <2>2. ASSUME NEW k \in Cursor' .. Count - 1 PROVE CellAt(k)' = Blank
    <3>1. k \in Cursor .. Count - 1 /\ k \in 0 .. Count - 1
      BY <1>2, <2>1
    <3> QED BY <3>1, <1>3, <2>1 DEF Ahead
  <2> QED BY <2>1, <2>2, <1>2 DEF Ahead
<1>5. CASE ~(terminal_row < Rows - 1)
  <2>1. terminal_row = Rows - 1
    BY <1>2, <1>5
  <2>2. /\ Col' = 0 /\ Cursor' = Count - Cols
        /\ \A k \in 0 .. Count - 1 : k >= Count - Cols => CellAt(k)' = Blank
    BY <1>1, <2>1, RowLine
  <2>3. ASSUME NEW k \in Cursor' .. Count - 1 PROVE CellAt(k)' = Blank
    <3>1. k \in 0 .. Count - 1 /\ k >= Count - Cols
      BY <1>2, <2>2
    <3> QED BY <3>1, <2>2
  <2> QED BY <2>2, <2>3, <1>2 DEF Ahead
<1> QED BY <1>4, <1>5

LEMMA AheadPut ==
    ASSUME ModesAssumption, ScreenInv, Same, Ahead, NEW f, TS!Put(f)
    PROVE  Ahead'
<1>1. Cols \in Nat /\ Count \in Nat /\ Cursor \in 0 .. Count - 1 /\ Count' = Count
  BY SizeFacts, CursorAt
<1>2. Cols <= Count
  BY SizeFacts
<1>3. CASE Cursor < Count - 1
  <2>1. /\ Cursor' = Cursor + 1
        /\ \A k \in 0 .. Count - 1 : CellAt(k)' = IF k = Cursor THEN f ELSE CellAt(k)
    BY <1>3, PutLine
  <2>2. ASSUME NEW k \in Cursor' .. Count - 1 PROVE CellAt(k)' = Blank
    <3>1. k \in Cursor .. Count - 1 /\ k \in 0 .. Count - 1 /\ k # Cursor
      BY <1>1, <2>1
    <3> QED BY <3>1, <2>1 DEF Ahead
  <2> QED BY <2>2, <1>1 DEF Ahead
<1>4. CASE ~(Cursor < Count - 1)
  <2>1. Cursor = Count - 1
    BY <1>1, <1>4
  <2>2. /\ Cursor' = Cursor + 1 - Cols
        /\ \A k \in 0 .. Count - 1 : k >= Count - Cols => CellAt(k)' = Blank
    BY <2>1, PutLine
  <2>3. ASSUME NEW k \in Cursor' .. Count - 1 PROVE CellAt(k)' = Blank
    <3>1. k \in 0 .. Count - 1 /\ k >= Count - Cols
      BY <1>1, <1>2, <2>1, <2>2
    <3> QED BY <3>1, <2>2
  <2> QED BY <2>3, <1>1 DEF Ahead
<1> QED BY <1>3, <1>4

LEMMA AheadBack ==
    ASSUME ModesAssumption, ScreenInv, Same, Ahead,
           BackTo \in Cells, TS!RubOut(BackTo[1], BackTo[2])
    PROVE  Ahead'
<1>1. /\ Cols \in Nat /\ Count \in Nat /\ Cursor \in 0 .. Count - 1 /\ Count' = Count
      /\ Col \in 0 .. Cols - 1 /\ Col <= Cursor
  BY SizeFacts, CursorAt
<1>2. /\ Cursor' = IF Col > 0 \/ (~mode.fb /\ Cursor > 0) THEN Cursor - 1 ELSE Cursor
      /\ \A k \in 0 .. Count - 1 : CellAt(k)' = IF k = Cursor' THEN Blank ELSE CellAt(k)
  BY BackLine
<1>3. Cursor' \in 0 .. Count - 1
  BY <1>1, <1>2
<1>4. ASSUME NEW k \in Cursor' .. Count - 1 PROVE CellAt(k)' = Blank
  <2>1. k \in 0 .. Count - 1
    BY <1>1, <1>3
  <2>2. k # Cursor' => k \in Cursor .. Count - 1
    BY <1>1, <1>2, <1>3
  <2> QED BY <1>2, <2>1, <2>2 DEF Ahead
<1> QED BY <1>4, <1>1 DEF Ahead

LEMMA AheadClear ==
    ASSUME ModesAssumption, ScreenInv, Same, Grid' = [cell \in Cells |-> Blank],
           terminal_row' = 0, Col' = 0
    PROVE  Ahead' /\ Col' = 0
<1>1. Cols \in Nat /\ Count \in Nat /\ Count' = Count /\ Cursor' = 0
  BY SizeFacts, CursorAt
<1>2. ASSUME NEW k \in Cursor' .. Count - 1 PROVE CellAt(k)' = Blank
  <2>1. k \in 0 .. Count - 1
    BY <1>1
  <2> QED BY <2>1, PlaceIn DEF Same
<1> QED BY <1>1, <1>2 DEF Ahead

--------------------------------------------------------------------------------
(* What readline has echoed *)

Chars == Printable \cup Others
text  == prompt \o line

\* The text w stands right before the cursor.
Written(w) ==
    /\ Len(w) <= Cursor
    /\ \A j \in 0 .. Count - 1, k \in 1 .. Len(w) :
          j = Cursor - Len(w) + k - 1 => CellAt(j) = Face(w[k])

\* Another character behind it does not push its start off the screen.
MoreFits(w) ==
    IF mode.fb THEN Len(w) + 1 < Cols /\ Col = Len(w) ELSE Len(w) + 1 + Cols <= Count

LEMMA WrittenPut ==
    ASSUME ModesAssumption, ScreenInv, Same, NEW w \in Seq(Chars), NEW c \in Chars,
           Written(w), MoreFits(w), TS!Put(Face(c)), NEW v, v = Append(w, c)
    PROVE  Written(v)' /\ (mode.fb => Col' = Len(v))
<1>1. /\ Cols \in Nat /\ Cols >= 1 /\ Count \in Nat /\ Cursor \in 0 .. Count - 1 /\ Count' = Count
      /\ Col \in 0 .. Cols - 1 /\ Cursor - Col + Cols <= Count /\ Cols <= Count
  BY SizeFacts, CursorAt
<1>2. /\ Len(w) \in Nat /\ Len(v) = Len(w) + 1 /\ v[Len(v)] = c
      /\ \A k \in 1 .. Len(w) : v[k] = w[k]
  OBVIOUS
<1>3. \A x : Face(x)' = Face(x)
  BY DEF Face, Same
<1>4. mode.fb => Cursor < Count - 1 /\ Col # Cols - 1 /\ Col' = Len(v)
  <2> SUFFICES ASSUME mode.fb PROVE Cursor < Count - 1 /\ Col # Cols - 1 /\ Col' = Len(v)
    OBVIOUS
  <2>1. Col # Cols - 1 /\ Cursor < Count - 1
    BY <1>1, <1>2 DEF MoreFits
  <2>2. Col' = Col + 1
    BY <2>1, PutLine
  <2> QED BY <2>1, <2>2, <1>2 DEF MoreFits
<1>5. CASE Cursor < Count - 1
  <2>1. /\ Cursor' = Cursor + 1
        /\ \A k \in 0 .. Count - 1 : CellAt(k)' = IF k = Cursor THEN Face(c) ELSE CellAt(k)
    BY <1>5, PutLine
  <2>2. ASSUME NEW j \in 0 .. Count - 1, NEW k \in 1 .. Len(v), j = Cursor' - Len(v) + k - 1
        PROVE  CellAt(j)' = Face(v[k])
    <3>1. j = Cursor - Len(w) + k - 1
      BY <1>1, <1>2, <2>1, <2>2
    <3>2. CASE k = Len(v)
      BY <1>1, <1>2, <2>1, <3>1, <3>2
    <3>3. CASE k # Len(v)
      <4>1. k \in 1 .. Len(w) /\ j # Cursor /\ v[k] = w[k]
        BY <1>1, <1>2, <3>1, <3>3
      <4>2. CellAt(j) = Face(w[k])
        BY <3>1, <4>1 DEF Written
      <4> QED BY <2>1, <4>1, <4>2
    <3> QED BY <3>2, <3>3
  <2>3. Len(v) <= Cursor'
    BY <1>1, <1>2, <2>1 DEF Written
  <2> QED BY <1>1, <1>3, <1>4, <2>2, <2>3 DEF Written
<1>6. CASE ~(Cursor < Count - 1)
  <2>1. Cursor = Count - 1 /\ ~mode.fb
    BY <1>1, <1>4, <1>6
  <2>2. /\ Cursor' = Cursor + 1 - Cols
        /\ \A k \in 0 .. Count - 1 :
             k < Count - Cols =>
                /\ k + Cols \in 0 .. Count - 1
                /\ CellAt(k)' = IF k + Cols = Cursor THEN Face(c) ELSE CellAt(k + Cols)
    BY <2>1, PutLine
  <2>3. ASSUME NEW j \in 0 .. Count - 1, NEW k \in 1 .. Len(v), j = Cursor' - Len(v) + k - 1
        PROVE  CellAt(j)' = Face(v[k])
    <3> DEFINE i == j + Cols
    <3>1. i = Cursor - Len(w) + k - 1 /\ j < Count - Cols
      <4> DEFINE p == Cursor  l == Len(w)
      <4>1. /\ p \in Nat /\ p = Count - 1 /\ l \in Nat /\ Count \in Nat /\ Cols \in Nat
            /\ k \in 1 .. l + 1 /\ j = (p + 1 - Cols) - (l + 1) + k - 1
        BY <1>1, <1>2, <2>1, <2>2, <2>3
      <4> HIDE DEF p, l
      <4>2. i = p - l + k - 1 /\ j < Count - Cols
        BY <4>1
      <4> QED BY <4>2 DEF p, l
    <3>2. i \in 0 .. Count - 1 /\ CellAt(j)' = IF i = Cursor THEN Face(c) ELSE CellAt(i)
      BY <2>2, <3>1
    <3> HIDE DEF i
    <3>3. CASE k = Len(v)
      BY <1>1, <1>2, <3>1, <3>2, <3>3
    <3>4. CASE k # Len(v)
      <4>1. k \in 1 .. Len(w) /\ i # Cursor /\ v[k] = w[k]
        BY <1>1, <1>2, <3>1, <3>4
      <4>2. CellAt(i) = Face(w[k])
        BY <3>1, <3>2, <4>1 DEF Written
      <4> QED BY <3>2, <4>1, <4>2
    <3> QED BY <3>3, <3>4
  <2>4. Len(v) <= Cursor'
    BY <1>1, <1>2, <2>1, <2>2 DEF MoreFits
  <2> QED BY <1>1, <1>3, <1>4, <2>3, <2>4 DEF Written
<1> QED BY <1>5, <1>6

LEMMA WrittenBack ==
    ASSUME ModesAssumption, ScreenInv, Same, NEW w \in Seq(Chars), NEW c \in Chars,
           NEW v, v = Append(w, c), Written(v), mode.fb => Col = Len(v),
           BackTo \in Cells, TS!RubOut(BackTo[1], BackTo[2])
    PROVE  Written(w)' /\ (mode.fb => Col' = Len(w))
<1>1. /\ Cols \in Nat /\ Count \in Nat /\ Cursor \in 0 .. Count - 1 /\ Count' = Count
      /\ Col \in 0 .. Cols - 1
  BY SizeFacts, CursorAt
<1>2. /\ Len(w) \in Nat /\ Len(v) = Len(w) + 1
      /\ \A k \in 1 .. Len(w) : v[k] = w[k]
  OBVIOUS
<1>3. \A x : Face(x)' = Face(x)
  BY DEF Face, Same
<1>4. Cursor > 0 /\ Len(v) <= Cursor /\ (mode.fb => Col > 0)
  BY <1>1, <1>2 DEF Written
<1>5. /\ Cursor' = Cursor - 1 /\ (mode.fb => Col' = Col - 1)
      /\ \A k \in 0 .. Count - 1 : CellAt(k)' = IF k = Cursor' THEN Blank ELSE CellAt(k)
  BY <1>4, BackLine
<1>6. ASSUME NEW j \in 0 .. Count - 1, NEW k \in 1 .. Len(w), j = Cursor' - Len(w) + k - 1
      PROVE  CellAt(j)' = Face(w[k])
  <2>1. k \in 1 .. Len(v) /\ j = Cursor - Len(v) + k - 1 /\ j # Cursor' /\ v[k] = w[k]
    BY <1>1, <1>2, <1>5, <1>6
  <2>2. CellAt(j) = Face(w[k])
    BY <2>1 DEF Written
  <2> QED BY <1>5, <2>1, <2>2
<1> QED BY <1>1, <1>2, <1>3, <1>4, <1>5, <1>6 DEF Written

\* Steps that leave the screen alone.
LEMMA ScreenStays ==
    ASSUME ModesAssumption, PrintableAssumption, ScreenInv, UNCHANGED screen
    PROVE  /\ Same /\ Col' = Col /\ Cols' = Cols /\ (Ahead => Ahead')
           /\ \A w : Written(w) => Written(w)'
<1>1. UNCHANGED <<mode, vram, terminal_row, terminal_column>>
  BY DEF screen
<1>2. ScreenInv'
  BY StepOrStutter
<1>3. Rows' = Rows /\ Cols' = Cols /\ Col' = Col
  BY <1>1 DEF Rows, Cols, Col, Cell
<1>4. Same
  BY <1>1, <1>2, <1>3 DEF Same
<1>5. Cursor' = Cursor /\ Count' = Count
  BY <1>1, <1>3 DEF Cursor, Count
<1>6. ModeOK
  BY ScreenFacts
<1>7. Grid' = Grid
  <2>1. Displays(vram', Grid)
    BY <1>1 DEF ScreenInv
  <2> QED BY <1>1, <1>6, <2>1, NextGrid
<1>8. \A k \in 0 .. Count - 1 : CellAt(k)' = CellAt(k)
  BY <1>4, <1>7, PlaceIn DEF Same
<1>9. Ahead => Ahead'
  <2>1. Cursor \in 0 .. Count - 1 /\ Count \in Nat
    BY SizeFacts
  <2>2. \A k \in Cursor .. Count - 1 : k \in 0 .. Count - 1
    BY <2>1
  <2> QED BY <1>5, <1>8, <2>2 DEF Ahead
<1>10. \A x : Face(x)' = Face(x)
  BY <1>1 DEF Face
<1>11. \A w : Written(w) => Written(w)'
  BY <1>5, <1>8, <1>10 DEF Written
<1> QED BY <1>3, <1>4, <1>9, <1>11

--------------------------------------------------------------------------------
(* The invariant of readline *)

\* w is what stands right before the cursor while out is still to be written.
Echoing(w) ==
    \/ out = prompt /\ line = <<>> /\ w = <<>>
    \/ out = <<Blank>> /\ line = <<>> /\ w = <<">">>
    \/ out = <<>> /\ w = text
    \/ \E c \in Chars \ Control, l \in Seq(Chars) :
          out = <<c>> /\ line = Append(l, c) /\ w = prompt \o l
    \/ out = Rubout /\ reach > Len(line) /\ \E x \in Chars : w = Append(text, x)
    \/ out = <<Blank, "BS">> /\ reach > Len(line) /\ w = text
    \/ out = <<"BS">> /\ reach > Len(line) /\ w = Append(text, Blank)

RoomFor == mode.fb => Len(prompt) + reach < Cols

Echoed == \E w \in Seq(Chars) : Echoing(w) /\ Written(w) /\ (mode.fb => Col = Len(w))

\* A text that is being printed outside of readline ends in a new line.
Ended == IF out = <<>> THEN Col = 0 ELSE out[Len(out)] = "NL"

Bounds ==
    /\ pc \in {"start", "prompt", "read", "run"}
    /\ line \in Seq(Chars) /\ Len(line) <= LINE_MAX - 1 /\ reach \in Len(line) .. LINE_MAX - 1
    /\ out \in Seq(Chars \cup Control)

IInv ==
    /\ ScreenInv /\ Ahead /\ Bounds
    /\ pc # "read" => Ended
    /\ pc = "read" /\ RoomFor => Echoed

\* The assumptions about the constants.
Assumptions == ModesAssumption /\ PrintableAssumption /\ LineAssumption

LEMMA CharFacts ==
    ASSUME Assumptions
    PROVE  /\ Blank \in Chars \ Control /\ ">" \in Chars \ Control
           /\ prompt \in Seq(Chars) /\ Len(prompt) = 2
           /\ Keys \ {"NL", "BS", "DEL", "CR"} \subseteq Chars \ Control
           /\ Outputs \subseteq Seq(Chars \cup Control)
           /\ \A t \in Outputs : t # <<>> /\ t[Len(t)] = "NL"
           /\ LINE_MAX \in Nat /\ LINE_MAX >= 1
<1>1. Blank \in Chars /\ ">" \in Chars
  BY DEF Assumptions, PrintableAssumption, LineAssumption, Chars
<1>2. Blank \notin Control /\ ">" \notin Control
  BY DEF Control, Blank
<1>3. prompt \in Seq(Chars) /\ Len(prompt) = 2
  <2> HIDE DEF Chars
  <2>1. prompt = Append(Append(<<>>, ">"), Blank)
    BY DEF prompt
  <2>2. <<>> \in Seq(Chars) /\ Len(<<>>) = 0
    OBVIOUS
  <2>3. Append(<<>>, ">") \in Seq(Chars) /\ Len(Append(<<>>, ">")) = 1
    BY <1>1, <2>2
  <2> QED BY <1>1, <2>1, <2>3
<1>4. Keys \ {"NL", "BS", "DEL", "CR"} \subseteq Chars \ Control
  BY DEF Assumptions, LineAssumption, Chars, Control
<1>5. /\ Outputs \subseteq Seq(Chars \cup Control)
      /\ \A t \in Outputs : t # <<>> /\ t[Len(t)] = "NL"
  BY DEF Assumptions, LineAssumption, Chars
<1>6. LINE_MAX \in Nat /\ LINE_MAX >= 1
  BY DEF Assumptions, LineAssumption
<1> QED BY <1>1, <1>2, <1>3, <1>4, <1>5, <1>6

\* Joining and adding.
LEMMA Joined ==
    ASSUME NEW S, NEW u \in Seq(S), NEW l \in Seq(S), NEW c \in S
    PROVE  /\ u \o l \in Seq(S) /\ Len(u \o l) = Len(u) + Len(l)
           /\ u \o Append(l, c) = Append(u \o l, c)
           /\ u \o <<>> = u
           /\ Len(Append(l, c)) = Len(l) + 1 /\ Append(l, c) \in Seq(S)
  BY ConcatProperties, ConcatEmptySeq, ConcatAssociative, AppendProperties
LEMMA TextFacts ==
    ASSUME Assumptions, Bounds
    PROVE  text \in Seq(Chars) /\ Len(text) = 2 + Len(line)
<1>1. line \in Seq(Chars) /\ prompt \in Seq(Chars) /\ Len(prompt) = 2 /\ Blank \in Chars
  BY CharFacts DEF Bounds
<1>2. prompt \o line \in Seq(Chars) /\ Len(prompt \o line) = Len(prompt) + Len(line)
  BY <1>1, ConcatProperties
<1> QED BY <1>1, <1>2 DEF text

LEMMA VgaRoom ==
    ASSUME Assumptions, ScreenInv, ~mode.fb
    PROVE  LINE_MAX + 2 + Cols <= Count
<1>1. mode \in Modes /\ mode.w \in Nat /\ mode.h \in Nat
  BY DEF ScreenInv, Assumptions, ModesAssumption
<1>2. LINE_MAX + 2 <= mode.w * (mode.h - 1) /\ LINE_MAX \in Nat
  BY <1>1 DEF Assumptions, LineAssumption
<1>3. Rows = mode.h /\ Cols = mode.w /\ Rows \in Nat /\ Cols \in Nat /\ Rows >= 1
  BY <1>1, SizeFacts DEF Rows, Cols, Assumptions
<1> DEFINE r == Rows - 1
<1>4. r \in Nat /\ Rows = r + 1
  BY <1>3
<1>5. LINE_MAX + 2 <= Cols * r
  BY <1>2, <1>3
<1> HIDE DEF r
<1>6. Count = r * Cols + Cols /\ Cols * r = r * Cols /\ r * Cols \in Nat
  BY <1>3, <1>4 DEF Count
<1> QED BY <1>2, <1>3, <1>5, <1>6

\* Behind what readline shows there is room for what it is about to show.
LEMMA Fits ==
    ASSUME Assumptions, IInv, RoomFor, NEW w \in Seq(Chars), Len(w) + 1 <= 2 + reach,
           mode.fb => Col = Len(w)
    PROVE  MoreFits(w)
<1>1. /\ Cols \in Nat /\ Count \in Nat /\ reach \in Nat /\ LINE_MAX \in Nat
      /\ Len(line) \in Nat /\ Len(w) \in Nat /\ reach <= LINE_MAX - 1 /\ Len(prompt) = 2
  <2>1. ScreenInv /\ Bounds /\ ModesAssumption
    BY DEF IInv, Assumptions
  <2>2. Cols \in Nat /\ Count \in Nat
    BY <2>1, SizeFacts
  <2>3. Len(prompt) = 2 /\ LINE_MAX \in Nat
    BY CharFacts
  <2> QED BY <2>1, <2>2, <2>3 DEF Bounds
<1>2. CASE mode.fb
  BY <1>1, <1>2 DEF RoomFor, MoreFits
<1>3. CASE ~mode.fb
  <2>1. LINE_MAX + 2 + Cols <= Count
    BY <1>3, VgaRoom DEF IInv
  <2> QED BY <1>1, <1>3, <2>1 DEF MoreFits
<1> QED BY <1>2, <1>3

\* One character of the echo.
LEMMA EchoStep ==
    ASSUME Assumptions, IInv, RoomFor, pc = "read", Write
    PROVE  Echoed'
<1>1. PICK w \in Seq(Chars) : Echoing(w) /\ Written(w) /\ (mode.fb => Col = Len(w))
  BY DEF IInv, Echoed
<1>2. /\ ModesAssumption /\ PrintableAssumption /\ ScreenInv /\ Bounds /\ out # <<>>
      /\ Head(out) \in Printable \cup Others \cup Control
      /\ out' = Tail(out) /\ line' = line /\ reach' = reach /\ text' = text
      /\ text \in Seq(Chars) /\ Len(text) = 2 + Len(line)
      /\ Len(line) \in Nat /\ reach \in Nat /\ reach >= Len(line)
  BY TextFacts DEF Assumptions, IInv, Write, text, Bounds, Chars
<1>3. terminal_putchar(Head(out))
  BY DEF Write
<1>4. /\ Same
      /\ Head(out) = "BS" => BackTo \in Cells /\ TS!RubOut(BackTo[1], BackTo[2])
      /\ Head(out) \notin Control => TS!Put(Face(Head(out)))
  BY <1>2, <1>3, PutcharStep DEF Same
<1>5. Blank \in Chars \ Control /\ ">" \in Chars \ Control /\ prompt \in Seq(Chars) /\ "BS" # "NL"
  BY CharFacts
<1>6. ASSUME NEW c \in Chars \ Control, Head(out) = c, Len(w) + 1 <= 2 + reach,
             NEW v, v = Append(w, c), Echoing(v)'
      PROVE  Echoed'
  <2>1. MoreFits(w)
    BY <1>1, <1>6, Fits
  <2>2. TS!Put(Face(c)) /\ c \in Chars
    BY <1>4, <1>6
  <2>3. Written(v)' /\ (mode.fb => Col' = Len(v))
    BY <1>1, <1>2, <1>4, <1>6, <2>1, <2>2, WrittenPut
  <2>4. v \in Seq(Chars) /\ mode' = mode
    BY <1>4, <1>6 DEF Same
  <2> QED BY <1>6, <2>3, <2>4 DEF Echoed
<1>7. ASSUME NEW v \in Seq(Chars), NEW x \in Chars, w = Append(v, x), Head(out) = "BS", Echoing(v)'
      PROVE  Echoed'
  <2>1. BackTo \in Cells /\ TS!RubOut(BackTo[1], BackTo[2])
    BY <1>4, <1>7
  <2>2. Written(v)' /\ (mode.fb => Col' = Len(v))
    BY <1>1, <1>2, <1>4, <1>7, <2>1, WrittenBack
  <2>3. mode' = mode
    BY <1>4 DEF Same
  <2> QED BY <1>7, <2>2, <2>3 DEF Echoed
<1>8. CASE out = prompt /\ line = <<>> /\ w = <<>>
  <2>1. Head(out) = ">" /\ out' = <<Blank>> /\ Append(w, ">") = <<">">> /\ Len(w) = 0
    BY <1>2, <1>8 DEF prompt
  <2>2. Echoing(<<">">>)'
    BY <1>2, <1>8, <2>1 DEF Echoing
  <2> QED BY <1>2, <1>5, <1>6, <2>1, <2>2
<1>9. CASE out = <<Blank>> /\ line = <<>> /\ w = <<">">>
  <2>1. Head(out) = Blank /\ out' = <<>> /\ Len(w) = 1
    BY <1>2, <1>9
  <2>2. text = prompt /\ Append(w, Blank) = prompt
    <3>1. text = prompt
      BY <1>5, <1>9, Joined DEF text
    <3>2. prompt = Append(Append(<<>>, ">"), Blank) /\ <<">">> = Append(<<>>, ">")
      BY DEF prompt
    <3> QED BY <1>9, <3>1, <3>2
  <2>3. Echoing(text)'
    BY <1>2, <2>1 DEF Echoing
  <2> QED BY <1>2, <1>5, <1>6, <2>1, <2>2, <2>3
<1>10. ASSUME NEW c \in Chars \ Control, NEW l \in Seq(Chars),
              out = <<c>>, line = Append(l, c), w = prompt \o l
       PROVE  Echoed'
  <2>1. Head(out) = c /\ out' = <<>>
    BY <1>2, <1>10
  <2>2. Len(w) + 1 <= 2 + reach
    <3>1. Len(w) = 2 + Len(l) /\ Len(line) = Len(l) + 1 /\ Len(l) \in Nat
      <4>1. prompt \in Seq(Chars) /\ Len(prompt) = 2 /\ c \in Chars
        BY CharFacts
      <4>2. Len(prompt \o l) = Len(prompt) + Len(l)
        BY <4>1, ConcatProperties
      <4> QED BY <1>10, <4>1, <4>2
    <3> QED BY <1>2, <3>1
  <2>3. text = Append(w, c)
    BY <1>5, <1>10, Joined DEF text
  <2>4. Echoing(text)'
    BY <1>2, <2>1 DEF Echoing
  <2> QED BY <1>2, <1>6, <2>1, <2>2, <2>3, <2>4
<1>11. ASSUME out = Rubout, reach > Len(line), NEW x \in Chars, w = Append(text, x)
       PROVE  Echoed'
  <2>1. Head(out) = "BS" /\ out' = <<Blank, "BS">>
    BY <1>2, <1>11 DEF Rubout
  <2>2. Echoing(text)'
    BY <1>2, <1>11, <2>1 DEF Echoing
  <2> QED BY <1>2, <1>7, <1>11, <2>1, <2>2
<1>12. CASE out = <<Blank, "BS">> /\ reach > Len(line) /\ w = text
  <2>1. Head(out) = Blank /\ out' = <<"BS">>
    BY <1>2, <1>12
  <2>2. Echoing(Append(text, Blank))'
    BY <1>2, <1>12, <2>1 DEF Echoing
  <2>3. Len(w) + 1 <= 2 + reach
    BY <1>2, <1>12
  <2> DEFINE v == Append(text, Blank)
  <2>4. v' = v /\ v = Append(w, Blank)
    BY <1>2, <1>12
  <2> HIDE DEF v
  <2> QED BY <1>5, <1>6, <2>1, <2>2, <2>3, <2>4 DEF v
<1>13. CASE out = <<"BS">> /\ reach > Len(line) /\ w = Append(text, Blank)
  <2>1. Head(out) = "BS" /\ out' = <<>>
    BY <1>2, <1>13
  <2>2. Echoing(text)'
    BY <1>2, <2>1 DEF Echoing
  <2> QED BY <1>2, <1>5, <1>7, <1>13, <2>1, <2>2
<1> QED BY <1>1, <1>2, <1>8, <1>9, <1>10, <1>11, <1>12, <1>13 DEF Echoing

LEMMA WriteStep ==
    ASSUME Assumptions, IInv, Write
    PROVE  IInv'
<1>1. /\ ModesAssumption /\ PrintableAssumption /\ ScreenInv /\ Ahead /\ out # <<>>
      /\ out \in Seq(Chars \cup Control)
      /\ Head(out) \in Printable \cup Others \cup Control
      /\ out' = Tail(out) /\ line' = line /\ reach' = reach /\ pc' = pc
      /\ terminal_putchar(Head(out))
  BY DEF Assumptions, IInv, Write, Bounds, Chars
<1>2. /\ Same
      /\ Head(out) = "NL" => TS!Newline
      /\ Head(out) = "BS" => BackTo \in Cells /\ TS!RubOut(BackTo[1], BackTo[2])
      /\ Head(out) \notin Control => TS!Put(Face(Head(out)))
  BY <1>1, PutcharStep DEF Same
<1>3. Ahead'
  <2>1. CASE Head(out) = "NL"
    BY <1>1, <1>2, <2>1, AheadRow
  <2>2. CASE Head(out) = "BS"
    BY <1>1, <1>2, <2>2, AheadBack
  <2>3. CASE Head(out) \notin Control
    BY <1>1, <1>2, <2>3, AheadPut
  <2> QED BY <2>1, <2>2, <2>3 DEF Control
<1>4. Bounds'
  BY <1>1 DEF IInv, Bounds
<1>5. pc' # "read" => Ended'
  <2> SUFFICES ASSUME pc # "read" PROVE Ended'
    BY <1>1
  <2>1. out[Len(out)] = "NL"
    BY <1>1 DEF IInv, Ended
  <2>2. CASE Len(out) = 1
    <3>1. Head(out) = "NL" /\ out' = <<>>
      BY <1>1, <2>1, <2>2
    <3>2. Col' = 0
      BY <1>1, <1>2, <3>1, AheadRow
    <3> QED BY <3>1, <3>2 DEF Ended
  <2>3. CASE Len(out) # 1
    <3>1. /\ Len(out) \in Nat /\ Len(out) > 1 /\ Len(out') = Len(out) - 1 /\ out' # <<>>
          /\ \A i \in 1 .. Len(out) - 1 : out'[i] = out[i + 1]
      <4>1. Len(out) \in Nat /\ Len(out) # 0
        BY <1>1, EmptySeq
      <4>2. /\ Len(Tail(out)) = Len(out) - 1
            /\ \A i \in 1 .. Len(Tail(out)) : Tail(out)[i] = out[i + 1]
        BY <1>1, HeadTailProperties
      <4>3. Tail(out) # <<>>
        BY <2>3, <4>1, <4>2
      <4> QED BY <1>1, <2>3, <4>1, <4>2, <4>3
    <3>2. out'[Len(out')] = "NL"
      BY <2>1, <3>1
    <3> QED BY <3>1, <3>2 DEF Ended
  <2> QED BY <2>2, <2>3
<1>6. pc' = "read" /\ RoomFor' => Echoed'
  <2>1. RoomFor' => RoomFor
    BY <1>1, <1>2 DEF RoomFor, Same, prompt
  <2> QED BY <1>1, <2>1, EchoStep
<1> QED BY <1>2, <1>3, <1>4, <1>5, <1>6 DEF IInv, Same

\* The screen that the program or a command clears.
LEMMA Cleared ==
    ASSUME Assumptions, IInv, clear_terminal
    PROVE  ScreenInv' /\ Ahead' /\ Col' = 0 /\ mode' = mode /\ Cols' = Cols
<1>1. /\ Same /\ TS!Clear
  BY ClearStep DEF Assumptions, IInv, Same
<1>2. Grid' = [cell \in Cells |-> Blank] /\ terminal_row' = 0 /\ Col' = 0
  BY <1>1 DEF TS!Clear, TS!Cells, TS!Rows, TS!Cols, Grid, Cells, Same
<1> QED BY <1>1, <1>2, AheadClear DEF Assumptions, IInv, Same

LEMMA StartStep ==
    ASSUME Assumptions, IInv, Start
    PROVE  IInv'
<1>1. ScreenInv' /\ Ahead'
  BY Cleared DEF Start
<1>2. pc' = "prompt" /\ out' \in Outputs /\ line' = line /\ reach' = reach
  BY DEF Start
<1>3. Bounds' /\ Ended'
  BY <1>2, CharFacts DEF IInv, Bounds, Ended
<1> QED BY <1>1, <1>2, <1>3 DEF IInv

LEMMA CommandStep ==
    ASSUME Assumptions, IInv, Command
    PROVE  IInv'
<1>1. /\ pc' = "prompt" /\ line' = line /\ reach' = reach /\ out = <<>> /\ Col = 0
      /\ ScreenInv /\ Ahead /\ Bounds
  BY DEF Command, IInv, Ended
<1>2. CASE clear_terminal /\ UNCHANGED out
  <2>1. ScreenInv' /\ Ahead' /\ Col' = 0
    BY <1>2, Cleared
  <2> QED BY <1>1, <1>2, <2>1 DEF IInv, Bounds, Ended
<1>3. CASE out' \in Outputs /\ UNCHANGED screen
  <2>1. ScreenInv' /\ Ahead'
    BY <1>1, <1>3, ScreenStays DEF Assumptions, Same
  <2>2. Bounds' /\ Ended'
    BY <1>1, <1>3, CharFacts DEF Bounds, Ended
  <2> QED BY <1>1, <2>1, <2>2 DEF IInv
<1>4. CASE UNCHANGED <<screen, out>>
  <2>1. ScreenInv' /\ Ahead' /\ Col' = Col
    BY <1>1, <1>4, ScreenStays DEF Assumptions, Same
  <2> QED BY <1>1, <1>4, <2>1 DEF IInv, Bounds, Ended
<1> QED BY <1>2, <1>3, <1>4 DEF Command

\* readline begins where a row begins, with nothing written yet.
LEMMA PromptStep ==
    ASSUME Assumptions, IInv, Prompt
    PROVE  IInv'
<1>1. /\ pc' = "read" /\ line' = <<>> /\ reach' = 0 /\ out' = prompt /\ Col = 0
      /\ UNCHANGED screen /\ ScreenInv /\ Ahead
  BY DEF Prompt, IInv, Ended
<1>2. Same /\ Ahead' /\ Col' = 0
  BY <1>1, ScreenStays DEF Assumptions
<1>3. Bounds'
  <2>1. prompt \in Seq(Chars) /\ LINE_MAX \in Nat /\ LINE_MAX >= 1
    BY CharFacts
  <2>2. Len(<<>>) = 0 /\ <<>> \in Seq(Chars) /\ prompt \in Seq(Chars \cup Control)
    BY <2>1
  <2> QED BY <1>1, <2>1, <2>2 DEF Bounds
<1>4. Echoing(<<>>)'
  BY <1>1 DEF Echoing, prompt
<1>5. Written(<<>>)'
  <2>1. Cursor' \in Nat
    BY <1>1, <1>2, SizeFacts, CursorAt DEF Assumptions, Same, ScreenInv, TerminalTypeOK
  <2>2. Len(<<>>) = 0 /\ 1 .. 0 = {}
    OBVIOUS
  <2> QED BY <2>1, <2>2 DEF Written
<1>6. Echoed'
  <2>1. <<>> \in Seq(Chars) /\ Len(<<>>) = 0
    OBVIOUS
  <2> QED BY <1>2, <1>4, <1>5, <2>1 DEF Echoed
<1> QED BY <1>1, <1>2, <1>3, <1>6 DEF IInv, Same

LEMMA EnterStep ==
    ASSUME Assumptions, IInv, Enter
    PROVE  IInv'
<1>1. /\ pc' = "run" /\ line' = line /\ reach' = reach /\ out' = <<"NL">>
      /\ UNCHANGED screen /\ ScreenInv /\ Ahead /\ Bounds
  BY DEF Enter, IInv
<1>2. ScreenInv' /\ Ahead'
  BY <1>1, ScreenStays DEF Assumptions, Same
<1>3. "NL" \in Chars \cup Control
  BY DEF Control
<1>4. Bounds' /\ Ended'
  BY <1>1, <1>3 DEF Bounds, Ended
<1> QED BY <1>1, <1>2, <1>4 DEF IInv

\* What the screen shows while readline waits for a key.
LEMMA Waiting ==
    ASSUME Assumptions, IInv, Reading, RoomFor
    PROVE  text \in Seq(Chars) /\ Written(text) /\ (mode.fb => Col = Len(text))
<1>1. PICK w \in Seq(Chars) : Echoing(w) /\ Written(w) /\ (mode.fb => Col = Len(w))
  BY DEF IInv, Echoed, Reading
<1>2. w = text
  BY <1>1 DEF Echoing, Reading, prompt, Rubout
<1> QED BY <1>1, <1>2

LEMMA EraseStep ==
    ASSUME Assumptions, IInv, Erase
    PROVE  IInv'
<1> DEFINE l == SubSeq(line, 1, Len(line) - 1)
           x == line[Len(line)]
<1>1. /\ pc = "read" /\ pc' = pc /\ line # <<>> /\ line' = l /\ reach' = reach /\ out' = Rubout
      /\ UNCHANGED screen /\ ScreenInv /\ Ahead /\ Bounds /\ Reading
  BY DEF Erase, IInv, Reading
<1>2. Same /\ Ahead' /\ Col' = Col /\ Cols' = Cols
  BY <1>1, ScreenStays DEF Assumptions
<1>3. /\ Len(line) \in Nat /\ Len(line) >= 1 /\ line \in Seq(Chars)
      /\ reach >= Len(line) /\ reach \in Nat /\ reach <= LINE_MAX - 1 /\ LINE_MAX \in Nat
  BY <1>1, EmptySeq, CharFacts DEF Bounds
<1>4. l \in Seq(Chars) /\ Len(l) = Len(line) - 1 /\ x \in Chars /\ line = Append(l, x)
  <2>1. x \in Chars
    BY <1>3
  <2>2. l \in Seq(Chars) /\ Len(l) = Len(line) - 1 /\ \A i \in 1 .. Len(line) - 1 : l[i] = line[i]
    <3>1. Len(line) - 1 \in Int /\ \A i \in 1 .. Len(line) - 1 : line[i] \in Chars
      BY <1>3
    <3>2. /\ l \in Seq(Chars)
          /\ Len(l) = IF 1 <= Len(line) - 1 THEN Len(line) - 1 - 1 + 1 ELSE 0
          /\ \A i \in 1 .. Len(line) - 1 - 1 + 1 : l[i] = line[1 + i - 1]
      BY <3>1, SubSeqProperties
    <3> DEFINE n == Len(line)
    <3>3. n \in Nat /\ n >= 1
      BY <1>3
    <3> HIDE DEF l, n
    <3>4. /\ Len(l) = IF 1 <= n - 1 THEN n - 1 - 1 + 1 ELSE 0
          /\ \A i \in 1 .. n - 1 - 1 + 1 : l[i] = line[1 + i - 1]
      BY <3>2 DEF n
    <3>5. Len(l) = n - 1
      BY <3>3, <3>4
    <3>6. \A i \in 1 .. n - 1 : l[i] = line[i]
      BY <3>3, <3>4
    <3> QED BY <3>2, <3>5, <3>6 DEF n
  <2> HIDE DEF l
  <2>3. Append(l, x) \in Seq(Chars) /\ Len(Append(l, x)) = Len(line)
    BY <1>3, <2>1, <2>2
  <2>4. \A i \in 1 .. Len(line) : Append(l, x)[i] = line[i]
    BY <1>3, <2>1, <2>2
  <2>5. line = Append(l, x)
    BY <1>3, <2>3, <2>4, SeqEqual
  <2> QED BY <2>1, <2>2, <2>5
<1> HIDE DEF l, x
<1>5. Rubout \in Seq(Chars \cup Control)
  BY CharFacts DEF Rubout, Control
<1>6. Bounds'
  BY <1>1, <1>3, <1>4, <1>5 DEF Bounds
<1>7. RoomFor' => Echoed'
  <2> SUFFICES ASSUME RoomFor' PROVE Echoed'
    OBVIOUS
  <2>1. RoomFor
    BY <1>1, <1>2 DEF RoomFor, Same, prompt
  <2>2. text \in Seq(Chars) /\ Written(text) /\ (mode.fb => Col = Len(text))
    BY <1>1, <2>1, Waiting
  <2>3. PICK w \in Seq(Chars) : w = text
    BY <2>2
  <2>4. Written(w)' /\ (mode.fb => Col = Len(w))
    BY <1>1, <2>2, <2>3, ScreenStays DEF Assumptions
  <2>5. w = Append(prompt \o l, x)
    BY <1>4, <2>3, Joined, CharFacts DEF text
  <2>6. Echoing(w)'
    BY <1>1, <1>3, <1>4, <2>5 DEF Echoing, text
  <2> QED BY <1>2, <2>4, <2>6 DEF Echoed, Same
<1> QED BY <1>1, <1>2, <1>6, <1>7 DEF IInv, Same

LEMMA TypeStep ==
    ASSUME Assumptions, IInv, NEW c \in Keys, Type(c)
    PROVE  IInv'
<1>1. /\ pc = "read" /\ pc' = pc /\ line' = Append(line, c) /\ out' = <<c>> /\ Room
      /\ reach' = IF Len(line') > reach THEN Len(line') ELSE reach
      /\ UNCHANGED screen /\ ScreenInv /\ Ahead /\ Bounds /\ Reading
  BY DEF Type, IInv, Reading
<1>2. Same /\ Ahead' /\ Col' = Col /\ Cols' = Cols
  BY <1>1, ScreenStays DEF Assumptions
<1>3. /\ Len(line) \in Nat /\ line \in Seq(Chars) /\ c \in Chars \ Control
      /\ reach >= Len(line) /\ reach \in Nat /\ reach <= LINE_MAX - 1 /\ LINE_MAX \in Nat
      /\ Len(line) < LINE_MAX - 1
  BY <1>1, CharFacts DEF Bounds, Type, Room
<1>4. Len(line') = Len(line) + 1 /\ line' \in Seq(Chars)
  BY <1>1, <1>3
<1>5. Bounds' /\ reach' >= reach
  BY <1>1, <1>3, <1>4 DEF Bounds
<1>6. RoomFor' => Echoed'
  <2> SUFFICES ASSUME RoomFor' PROVE Echoed'
    OBVIOUS
  <2>1. RoomFor
    <3>1. Len(prompt) = 2 /\ Cols \in Nat /\ reach' \in Nat
      BY <1>1, <1>3, <1>4, CharFacts, SizeFacts DEF Assumptions
    <3>2. prompt' = prompt /\ mode' = mode
      BY <1>2 DEF Same, prompt
    <3>3. mode.fb => Len(prompt) + reach' < Cols
      BY <1>2, <3>2 DEF RoomFor
    <3>4. Len(prompt) + reach' < Cols => Len(prompt) + reach < Cols
      <4> DEFINE n == reach'
                 m == Len(prompt)
      <4>1. n \in Nat /\ reach \in Nat /\ n >= reach /\ Cols \in Nat /\ m = 2
        BY <1>3, <1>5, <3>1
      <4> HIDE DEF n, m
      <4>2. m + n < Cols => m + reach < Cols
        BY <4>1
      <4> QED BY <4>2 DEF n, m
    <3> QED BY <3>3, <3>4 DEF RoomFor
  <2>2. text \in Seq(Chars) /\ Written(text) /\ (mode.fb => Col = Len(text))
    BY <1>1, <2>1, Waiting
  <2>3. PICK w \in Seq(Chars) : w = text
    BY <2>2
  <2>4. Written(w)' /\ (mode.fb => Col = Len(w))
    BY <1>1, <2>2, <2>3, ScreenStays DEF Assumptions
  <2>5. Echoing(w)'
    BY <1>1, <1>3, <2>3 DEF Echoing, text, prompt
  <2> QED BY <1>2, <2>4, <2>5 DEF Echoed, Same
<1> QED BY <1>1, <1>2, <1>5, <1>6 DEF IInv, Same

LEMMA ReadlineStart ==
    ASSUME Assumptions, Init
    PROVE  IInv /\ TS!Init
<1>1. ScreenInv /\ TS!Init /\ Grid = [cell \in Cells |-> Blank]
  BY TerminalStart DEF Assumptions, Init
<1>2. Col = 0
  BY <1>1 DEF TS!Init
<1>3. Ahead
  <2>1. Cursor \in 0 .. Count - 1 /\ Count \in Nat
    BY <1>1, SizeFacts DEF Assumptions
  <2>2. ASSUME NEW k \in Cursor .. Count - 1 PROVE CellAt(k) = Blank
    <3>1. k \in 0 .. Count - 1
      BY <2>1
    <3> QED BY <1>1, <3>1, PlaceIn DEF Assumptions
  <2> QED BY <2>2 DEF Ahead
<1>4. Bounds
  <2>1. LINE_MAX \in Nat /\ LINE_MAX >= 1
    BY CharFacts
  <2>2. Len(<<>>) = 0 /\ <<>> \in Seq(Chars) /\ <<>> \in Seq(Chars \cup Control)
    OBVIOUS
  <2> QED BY <2>1, <2>2 DEF Bounds, Init
<1> QED BY <1>1, <1>2, <1>3, <1>4 DEF IInv, Init, Ended

LEMMA ReadlineStep ==
    ASSUME Assumptions, IInv, [Next]_vars
    PROVE  IInv'
<1>1. CASE UNCHANGED vars
  <2>1. UNCHANGED <<screen, mode, pc, line, out, reach>>
    BY <1>1 DEF vars, screen
  <2>2. /\ Same /\ Col' = Col /\ Cols' = Cols /\ (Ahead => Ahead')
        /\ \A w : Written(w) => Written(w)'
    BY <2>1, ScreenStays DEF Assumptions, IInv
  <2>3. Echoed => Echoed'
    BY <2>1, <2>2 DEF Echoed, Echoing, text, prompt, Rubout
  <2>4. RoomFor' => RoomFor
    BY <2>1, <2>2 DEF RoomFor, prompt
  <2> QED BY <2>1, <2>2, <2>3, <2>4 DEF IInv, Bounds, Ended, Same
<1>2. ASSUME NEW c \in Keys, Type(c) PROVE IInv'
  BY <1>2, TypeStep
<1> QED BY <1>1, <1>2, WriteStep, StartStep, PromptStep, EraseStep, EnterStep, CommandStep DEF Next

(* Between keys, for every display, prompt and line: the screen shows the  *)
(* line as readline holds it, so that what main runs is what was shows.     *)
LEMMA EchoFromInv ==
    ASSUME Assumptions, IInv
    PROVE  LineShown
<1> SUFFICES ASSUME Reading, mode.fb => Len(prompt) + reach < Cols
             PROVE  /\ \A k \in 1 .. Len(text) : CellAt(Cursor - Len(text) + k - 1) = Face(text[k])
                    /\ \A k \in Cursor .. Rows * Cols - 1 : CellAt(k) = Blank
  BY DEF LineShown, text
<1>1. text \in Seq(Chars) /\ Written(text)
  BY Waiting DEF RoomFor
<1>2. Cursor \in 0 .. Count - 1 /\ Count \in Nat /\ Len(text) \in Nat
  BY <1>1, SizeFacts DEF Assumptions, IInv
<1>3. ASSUME NEW k \in 1 .. Len(text)
      PROVE  CellAt(Cursor - Len(text) + k - 1) = Face(text[k])
  <2> DEFINE j == Cursor - Len(text) + k - 1
  <2>1. j \in 0 .. Count - 1
    BY <1>1, <1>2 DEF Written
  <2> QED BY <1>1, <2>1 DEF Written
<1> QED BY <1>3 DEF IInv, Ahead, Count

(* The terminal does nothing that a text screen does not, whatever the     *)
(* program writes to it.                                                   *)
LEMMA ScreenStep ==
    ASSUME Assumptions, IInv, [Next]_vars
    PROVE  [TS!Next]_<<<<Rows, Cols>>, Grid, terminal_row, Col>>
<1>1. CASE Write
  <2>1. terminal_putchar(Head(out)) /\ Head(out) \in Printable \cup Others \cup Control
    BY <1>1 DEF Write, IInv, Bounds, Chars
  <2> QED BY <2>1, StepOrStutter DEF Assumptions, IInv
<1>2. CASE ~Write
  <2>1. clear_terminal \/ UNCHANGED screen
    BY <1>2 DEF Next, Start, Prompt, Erase, Type, Enter, Command, vars
  <2> QED BY <2>1, StepOrStutter DEF Assumptions, IInv
<1> QED BY <1>1, <1>2

(* What is entered is what is shows, over wraps, scrolling and erasing; the *)
(* line stays inside readline's buffer with room for the terminator, and   *)
(* the cursor on the screen.                                               *)
THEOREM EchoKept ==
    ASSUME Assumptions
    PROVE  Spec => []EchoShowsLine
<1>1. Init => IInv
  BY ReadlineStart
<1>2. IInv /\ [Next]_vars => IInv'
  BY ReadlineStep
<1>3. IInv => TypeOK
  BY DEF IInv, ScreenInv, Bounds, TypeOK
<1>4. IInv => LineShown
  BY EchoFromInv
<1>5. IInv => EchoShowsLine
  BY <1>3, <1>4 DEF EchoShowsLine
<1> QED BY <1>1, <1>2, <1>5, PTL DEF Spec

(* Under readline too, terminal.c and fb.c implement a text screen.        *)
THEOREM ReadlineOnTextScreen ==
    ASSUME Assumptions
    PROVE  Spec => RefinesTextScreen
<1>1. Init => IInv /\ TS!Init
  BY ReadlineStart
<1>2. IInv /\ [Next]_vars => IInv'
  BY ReadlineStep
<1>3. IInv /\ [Next]_vars => [TS!Next]_<<<<Rows, Cols>>, Grid, terminal_row, Col>>
  BY ScreenStep
<1> QED BY <1>1, <1>2, <1>3, PTL DEF Spec, RefinesTextScreen, TS!Spec, Grid, Cells
--------------------------------------------------------------------------------
(***************************************************************************)
(* process_keys pushes a key once however it is held, for every number of  *)
(* places and every set of keys.  Between reports prev_keys stands for     *)
(* what is held: the keys that were down through plain reports are in it,  *)
(* and no key that is up is.  Within a report a key that is new has been   *)
(* pushed when the counter has passed its one place.                       *)
(***************************************************************************)

ReportsTypeOK ==
    /\ held \subseteq Codes /\ plain \subseteq held
    /\ intr_buf \in [1 .. Places -> Nat]
    /\ prev_keys \in [1 .. Places -> Nat]
    /\ report_pc \in {"idle", "keys"} /\ place \in 1 .. Places + 1
    /\ got \in [Codes -> 0 .. MaxGot]

\* The place of k in r, which has no other.
At(r, k, p) == p \in 1 .. Places /\ \A q \in 1 .. Places : r[q] = k <=> q = p

\* The codes in r are those of keys of s, or none, or the rollover code.
Within(r, s) == \A q \in 1 .. Places : r[q] \in s \cup {0, Rollover}

Pushed(k) == k \in Printing => got[k] = 1

IdleInv ==
    report_pc = "idle" =>
        /\ Within(prev_keys, held)
        /\ \A k \in plain : seen(k) /\ Pushed(k)

KeysInv ==
    report_pc = "keys" =>
        /\ Within(intr_buf, held)
        /\ \A k \in plain : \E p \in 1 .. Places :
              /\ At(intr_buf, k, p)
              /\ seen(k) \/ place > p => Pushed(k)
              /\ ~seen(k) /\ place <= p => got[k] = 0

ReportsInv == ReportsTypeOK /\ IdleInv /\ KeysInv

--------------------------------------------------------------------------------

(* A plain report has each key that is down in exactly one place.          *)
LEMMA ListingAt ==
    ASSUME NEW s \in SUBSET Codes, NEW r \in Listing(s), NEW k \in s
    PROVE  \E p \in 1 .. Places : At(r, k, p)
<1> DEFINE P == {p \in 1 .. Places : r[p] = k}
<1>1. Cardinality(P) = 1
  BY DEF Listing
<1>2. IsFiniteSet(P)
  BY ReportAssumption, FS_Interval, FS_Subset, 1 \in Int, Places \in Int
<1>3. PICK p : P = {p}
  BY <1>1, <1>2, FS_Singleton
<1>4. At(r, k, p)
  BY <1>3 DEF At
<1> QED
  BY <1>4 DEF At

(* The initial state is in the invariant.                                  *)
LEMMA InitInv == ReportsInit => ReportsInv
  BY ReportAssumption, CodesAssumption
  DEF ReportsInit, ReportsInv, ReportsTypeOK, IdleInv, KeysInv, Within, Rollover

(* What a poll leaves when the report is plain: a key that was down before *)
(* is in prev_keys and has been pushed, one that was not is in neither.    *)
LEMMA PlainReport ==
    ASSUME ReportsInv, NEW s \in SUBSET Codes, Poll(s, Listing(s), TRUE)
    PROVE  ReportsInv'
<1> USE ReportAssumption, CodesAssumption DEF ReportsInv
<1>1. intr_buf' \in [1 .. Places -> s \cup {0}]
  BY DEF Poll, Listing
<1>2. ReportsTypeOK'
  <2>1. held' \in SUBSET Codes /\ plain' \in SUBSET held'
    BY DEF Poll
  <2>2. intr_buf' \in [1 .. Places -> Nat]
    <3>1. s \cup {0} \subseteq Nat
      OBVIOUS
    <3> QED
      BY <1>1, <3>1
  <2>3. got' \in [Codes -> 0 .. MaxGot]
    BY DEF Poll, ReportsTypeOK
  <2> QED
    BY <2>1, <2>2, <2>3 DEF Poll, ReportsTypeOK
<1>3. IdleInv'
  BY DEF Poll, IdleInv
<1>4. Within(intr_buf, held)'
  BY <1>1 DEF Poll, Within
<1>5. ASSUME NEW k \in plain'
      PROVE  \E p \in 1 .. Places :
               /\ At(intr_buf, k, p)'
               /\ (seen(k) \/ place > p => Pushed(k))'
               /\ (~seen(k) /\ place <= p => got[k] = 0)'
  <2>1. k \in s /\ k \in Codes /\ k # 0 /\ k # Rollover
    BY <1>5 DEF Poll, Rollover
  <2>2. PICK p \in 1 .. Places : At(intr_buf', k, p)
    BY <2>1, ListingAt DEF Poll
  <2>3. CASE k \in plain
    <3>1. seen(k) /\ Pushed(k) /\ k \in held
      BY <2>3 DEF IdleInv, Poll, ReportsTypeOK
    <3>2. got'[k] = got[k] /\ prev_keys' = prev_keys
      BY <2>1, <3>1 DEF Poll
    <3>3. seen(k)' /\ Pushed(k)'
      BY <3>1, <3>2 DEF seen, Pushed
    <3>4. At(intr_buf, k, p)'
      BY <2>2 DEF At
    <3> QED
      BY <3>3, <3>4
  <2>4. CASE k \notin plain
    <3>1. k \in s \ held
      BY <2>4, <1>5 DEF Poll
    <3>2. ~seen(k)
      BY <2>1, <3>1 DEF seen, IdleInv, Within, Poll
    <3>3. got'[k] = 0 /\ prev_keys' = prev_keys /\ place' = 1
      BY <2>1, <3>1 DEF Poll
    <3>4. ~seen(k)'
      BY <3>2, <3>3 DEF seen
    <3>5. ~(place > p)'
      BY <3>3
    <3>6. At(intr_buf, k, p)'
      BY <2>2 DEF At
    <3> QED
      BY <3>3, <3>4, <3>5, <3>6
  <2> QED
    BY <2>3, <2>4
<1> QED
  BY <1>2, <1>3, <1>4, <1>5 DEF KeysInv

(* Any other report, the rollover code or nothing in every place, keeps    *)
(* the invariant: no key counts as down through plain reports after it.    *)
LEMMA OtherReport ==
    ASSUME ReportsInv, NEW s \in SUBSET Codes, NEW c \in {0, Rollover},
           Poll(s, {[p \in 1 .. Places |-> c]}, FALSE)
    PROVE  ReportsInv'
<1> USE ReportAssumption, CodesAssumption DEF ReportsInv, Poll
<1>1. ReportsTypeOK'
  BY DEF ReportsTypeOK, Rollover
<1>2. IdleInv'
  BY DEF IdleInv
<1>3. KeysInv'
  BY DEF KeysInv, Within
<1> QED
  BY <1>1, <1>2, <1>3

(* One place of the report: the key there is pushed if it is new, and no   *)
(* other key's place is passed.                                            *)
LEMMA ProcessKeyInv == ReportsInv /\ ProcessKey => ReportsInv'
<1> SUFFICES ASSUME ReportsInv, ProcessKey PROVE ReportsInv'
  OBVIOUS
<1> USE ReportAssumption, CodesAssumption DEF ReportsInv
<1> DEFINE c == intr_buf[place]
<1>1. place \in 1 .. Places /\ place' = place + 1 /\ c \in Nat
  BY DEF ProcessKey, ReportsTypeOK
<1>2. UNCHANGED <<held, intr_buf, prev_keys, report_pc, plain>> /\ report_pc = "keys"
  BY DEF ProcessKey
<1>3. got' \in [Codes -> 0 .. MaxGot]
  <2>1. CASE got' = got
    BY <2>1 DEF ReportsTypeOK
  <2>2. CASE got' # got
    <3>1. c \in Codes /\ got' = [got EXCEPT ![c] = IF @ < MaxGot THEN @ + 1 ELSE @]
      BY <2>2 DEF ProcessKey, hid_key_to_ascii
    <3> HIDE DEF c
    <3>2. got \in [Codes -> 0 .. MaxGot]
      BY DEF ReportsTypeOK
    <3>3. got[c] \in 0 .. MaxGot
      BY <3>1, <3>2
    <3> QED
      BY <3>1, <3>2, <3>3
  <2> QED
    BY <2>1, <2>2
<1>4. ReportsTypeOK'
  BY <1>1, <1>2, <1>3 DEF ReportsTypeOK
<1>5. ASSUME NEW k \in plain
      PROVE  \E p \in 1 .. Places :
               /\ At(intr_buf, k, p)
               /\ (seen(k) \/ place > p => Pushed(k))'
               /\ (~seen(k) /\ place <= p => got[k] = 0)'
  <2>1. PICK p \in 1 .. Places :
               /\ At(intr_buf, k, p)
               /\ seen(k) \/ place > p => Pushed(k)
               /\ ~seen(k) /\ place <= p => got[k] = 0
    BY <1>2 DEF KeysInv
  <2>2. seen(k)' = seen(k) /\ k \in Codes /\ k # 0
    BY <1>2 DEF seen, ReportsTypeOK
  <2>3. CASE p = place /\ ~seen(k) /\ k \in Printing
    <3>1. c = k /\ got[k] = 0
      BY <1>1, <2>1, <2>3 DEF At
    <3>2. got'[k] = 1
      BY <2>2, <2>3, <3>1 DEF ProcessKey, ReportsTypeOK, hid_key_to_ascii
    <3> QED
      BY <1>1, <2>1, <2>3, <3>2 DEF Pushed
  <2>4. CASE ~(p = place /\ ~seen(k) /\ k \in Printing)
    <3>1. got'[k] = got[k]
      BY <1>1, <2>1, <2>2, <2>4 DEF ProcessKey, ReportsTypeOK, At, hid_key_to_ascii
    <3> QED
      BY <1>1, <2>1, <2>2, <2>4, <3>1 DEF Pushed
  <2> QED
    BY <2>3, <2>4
<1> QED
  BY <1>2, <1>4, <1>5 DEF IdleInv, KeysInv, Within, At

(* At the end of the report every plain key has been pushed, and prev_keys *)
(* takes its place.                                                        *)
LEMMA RememberInv == ReportsInv /\ Remember => ReportsInv'
<1> SUFFICES ASSUME ReportsInv, Remember PROVE ReportsInv'
  OBVIOUS
<1> USE ReportAssumption, CodesAssumption DEF ReportsInv
<1>1. ReportsTypeOK'
  BY DEF Remember, ReportsTypeOK
<1>2. Within(prev_keys, held)'
  BY DEF Remember, KeysInv, Within
<1>3. ASSUME NEW k \in plain PROVE seen(k)' /\ Pushed(k)'
  <2>1. PICK p \in 1 .. Places : At(intr_buf, k, p) /\ (place > p => Pushed(k))
    BY DEF KeysInv, Remember
  <2>2. place > p /\ intr_buf[p] = k
    BY <2>1 DEF Remember, ReportsTypeOK, At
  <2>3. prev_keys' = intr_buf /\ got' = got
    BY DEF Remember
  <2> QED
    BY <2>1, <2>2, <2>3 DEF seen, Pushed
<1> QED
  BY <1>1, <1>2, <1>3 DEF Remember, IdleInv, KeysInv

(* No step of the keyboard or of process_keys leaves the invariant.        *)
LEMMA NextInv == ReportsInv /\ [ReportsNext]_reportVars => ReportsInv'
<1> SUFFICES ASSUME ReportsInv, [ReportsNext]_reportVars PROVE ReportsInv'
  OBVIOUS
<1>1. CASE Report
  <2>1. PICK s \in SUBSET Codes :
          \/ Poll(s, Listing(s), TRUE)
          \/ Poll(s, {[p \in 1 .. Places |-> Rollover]}, FALSE)
    BY <1>1 DEF Report
  <2> QED
    BY <2>1, PlainReport, OtherReport
<1>2. CASE Fail
  BY <1>2, OtherReport DEF Fail, ReportsInv, ReportsTypeOK
<1>3. CASE UNCHANGED reportVars
  BY <1>3 DEF reportVars, ReportsInv, ReportsTypeOK, IdleInv, KeysInv, Within, At, seen, Pushed
<1> QED
  BY <1>1, <1>2, <1>3, ProcessKeyInv, RememberInv DEF ReportsNext

(* A key that goes down is pushed exactly once however long it is held and *)
(* wherever in the report it moves, for every number of places and keys:   *)
(* process_keys compares a report with the whole of the previous one.      *)
THEOREM PushedOnceHolds == ReportsSpec => []PushedOnce
<1>1. ReportsInv => PushedOnce
  BY DEF ReportsInv, IdleInv, PushedOnce, Pushed
<1> QED
  BY <1>1, InitInv, NextInv, PTL DEF ReportsSpec

--------------------------------------------------------------------------------
(***************************************************************************)
(* System calls, for every chain of handlers, every size of the fields     *)
(* and every name.  Each store into struct sys_info keeps the strings      *)
(* before it, and cpu_get_brand's move leaves the brand without its blanks *)
(* however many there are and wherever its NUL is.                         *)
(***************************************************************************)

(* Numbers *)

Less == {ss \in Nat \X Nat : ss[1] < ss[2]}

\* A set of numbers has a least one.
LEMMA Minimum ==
    ASSUME NEW T, T \subseteq Nat, T # {}
    PROVE  \E x \in T : \A y \in T : x <= y
<1>1. IsWellFoundedOn(Less, Nat)
  BY NatLessThanWellFounded DEF OpToRel, Less
<1>2. PICK x \in T : \A y \in T : ~ (<<y, x>> \in Less)
  BY <1>1, WFMin
<1>3. ASSUME NEW y \in T PROVE x <= y
  <2>1. ~ (<<y, x>> \in Less) /\ x \in Nat /\ y \in Nat
    BY <1>2
  <2> QED BY <2>1 DEF Less
<1> QED BY <1>3

\* The lesser of two numbers.
LEMMA Lesser ==
    ASSUME NEW a \in Nat, NEW b \in Nat, NEW r, r = IF a < b THEN a ELSE b
    PROVE  r \in Nat /\ r <= a /\ r <= b
  OBVIOUS

\* A sum within its bound.
LEMMA Sum ==
    ASSUME NEW a \in Nat, NEW b \in Nat, NEW c \in Nat, NEW r, r = a + b, NEW n \in Nat, a <= c, c + b <= n
    PROVE  r \in Nat /\ r <= n
  OBVIOUS

--------------------------------------------------------------------------------
(* Strings in memory *)

CharBytes == Characters \cup {NUL}

\* The string t, with its NUL, stands at address at.
StringAt(m, at, t) ==
    /\ \A x \in 1 .. Len(t) : m[at + x - 1] = t[x]
    /\ m[at + Len(t)] = NUL

Info(m) == DOMAIN m = 0 .. InfoSize - 1

\* What is at at, up to its NUL, is the string there.
LEMMA StringIs ==
    ASSUME TextsAssumption,
           NEW N \in Nat, NEW m, DOMAIN m = 0 .. N - 1, NEW at \in Nat, NEW t \in Text,
           at + Len(t) < N, StringAt(m, at, t)
    PROVE  String(m, at) = t
<1> DEFINE Ends(x) == /\ x >= at /\ m[x] = NUL
                      /\ \A y \in at .. x - 1 : m[y] # NUL
           z == at + Len(t)
<1>1. Len(t) \in Nat /\ t = [x \in 1 .. Len(t) |-> t[x]]
  BY DEF Text
<1>2. \A x \in 1 .. Len(t) : m[at + x - 1] = t[x] /\ t[x] # NUL
  <2>1. \A x \in 1 .. Len(t) : t[x] \in Characters
    BY DEF Text
  <2>2. NUL \notin Characters
    BY DEF TextsAssumption
  <2> QED BY <2>1, <2>2 DEF StringAt
<1>3. \A y \in at .. z - 1 : m[y] # NUL
  <2> SUFFICES ASSUME NEW y \in at .. z - 1 PROVE m[y] # NUL
    OBVIOUS
  <2>1. y - at + 1 \in 1 .. Len(t) /\ at + (y - at + 1) - 1 = y
    BY <1>1
  <2> QED BY <1>2, <2>1
<1>4. z \in DOMAIN m /\ Ends(z)
  BY <1>1, <1>3 DEF StringAt
<1>5. ASSUME NEW x \in DOMAIN m, Ends(x) PROVE x = z
  <2>1. x \in Nat /\ z \in Nat /\ m[z] = NUL
    BY <1>1, <1>4
  <2>2. ~(x < z)
    BY <1>3, <1>5, <2>1
  <2>3. ~(z < x)
    BY <1>1, <1>5, <2>1
  <2> QED BY <2>1, <2>2, <2>3
<1>6. (CHOOSE x \in DOMAIN m : Ends(x)) = z
  BY <1>4, <1>5
<1>7. String(m, at) = [x \in 1 .. z - at |-> m[at + x - 1]]
  BY <1>6 DEF String
<1>8. z - at = Len(t)
  BY <1>1
<1> QED BY <1>1, <1>2, <1>7, <1>8

\* The memory after a string has been stored in it.
LEMMA Stored ==
    ASSUME NEW N \in Nat, NEW m, DOMAIN m = 0 .. N - 1,
           NEW at \in Nat, NEW s \in Seq(CharBytes), at + Len(s) <= N
    PROVE  /\ DOMAIN Store(m, at, s) = 0 .. N - 1
           /\ \A x \in 1 .. Len(s) : Store(m, at, s)[at + x - 1] = s[x]
           /\ \A a \in 0 .. N - 1 : a < at \/ a >= at + Len(s) => Store(m, at, s)[a] = m[a]
<1>1. Len(s) \in Nat /\ DOMAIN s = 1 .. Len(s)
  OBVIOUS
<1>2. ASSUME NEW x \in DOMAIN s PROVE at + x - 1 \in 0 .. N - 1
  BY <1>1
<1>3. DOMAIN m \cup {at + x - 1 : x \in DOMAIN s} = 0 .. N - 1
  BY <1>2
<1>4. Store(m, at, s) = [a \in 0 .. N - 1 |-> IF a - at + 1 \in DOMAIN s THEN s[a - at + 1] ELSE m[a]]
  BY <1>3 DEF Store
<1>5. ASSUME NEW x \in 1 .. Len(s) PROVE Store(m, at, s)[at + x - 1] = s[x]
  <2>1. (at + x - 1) - at + 1 = x /\ x \in DOMAIN s /\ at + x - 1 \in 0 .. N - 1
    BY <1>1, <1>2
  <2> QED BY <1>4, <2>1
<1>6. ASSUME NEW a \in 0 .. N - 1, a < at \/ a >= at + Len(s) PROVE Store(m, at, s)[a] = m[a]
  <2>1. a - at + 1 \notin DOMAIN s
    BY <1>1, <1>6
  <2> QED BY <1>4, <2>1
<1> QED BY <1>4, <1>5, <1>6

\* A text that is stored with its NUL stands there.
LEMMA StoredText ==
    ASSUME NEW N \in Nat, NEW m, DOMAIN m = 0 .. N - 1, NEW at \in Nat, NEW t \in Text,
           at + Len(t) < N
    PROVE  /\ DOMAIN Store(m, at, Append(t, NUL)) = 0 .. N - 1
           /\ StringAt(Store(m, at, Append(t, NUL)), at, t)
           /\ \A a \in 0 .. N - 1 : a < at \/ a > at + Len(t)
                 => Store(m, at, Append(t, NUL))[a] = m[a]
<1> DEFINE s == Append(t, NUL)
<1>1. t \in Seq(CharBytes) /\ Len(t) \in Nat /\ NUL \in CharBytes
  BY DEF Text, CharBytes
<1>2. /\ s \in Seq(CharBytes) /\ Len(s) = Len(t) + 1 /\ s[Len(t) + 1] = NUL
      /\ \A x \in 1 .. Len(t) : s[x] = t[x]
  BY <1>1, AppendProperties
<1> HIDE DEF s
<1>3. at + Len(s) <= N
  BY <1>1, <1>2
<1>4. /\ DOMAIN Store(m, at, s) = 0 .. N - 1
      /\ \A x \in 1 .. Len(s) : Store(m, at, s)[at + x - 1] = s[x]
      /\ \A a \in 0 .. N - 1 : a < at \/ a >= at + Len(s) => Store(m, at, s)[a] = m[a]
  BY <1>2, <1>3, Stored
<1>5. StringAt(Store(m, at, s), at, t)
  <2>1. at + (Len(t) + 1) - 1 = at + Len(t) /\ Len(t) + 1 \in 1 .. Len(s)
    BY <1>1, <1>2
  <2>2. Store(m, at, s)[at + Len(t)] = NUL
    BY <1>2, <1>4, <2>1
  <2>3. \A x \in 1 .. Len(t) : x \in 1 .. Len(s)
    BY <1>1, <1>2
  <2> QED BY <1>2, <1>4, <2>2, <2>3 DEF StringAt
<1>6. \A a \in 0 .. N - 1 : a > at + Len(t) => a >= at + Len(s)
  BY <1>1, <1>2
<1> QED BY <1>4, <1>5, <1>6 DEF s

\* A string stays where nothing else is stored.
LEMMA StringStays ==
    ASSUME NEW N \in Nat, NEW m, NEW n, NEW at \in Nat, NEW t \in Text, at + Len(t) < N,
           \A a \in at .. at + Len(t) : n[a] = m[a], StringAt(m, at, t)
    PROVE  StringAt(n, at, t)
<1>1. Len(t) \in Nat
  BY DEF Text
<1>2. \A x \in 1 .. Len(t) : at + x - 1 \in at .. at + Len(t)
  BY <1>1
<1>3. at + Len(t) \in at .. at + Len(t)
  BY <1>1
<1> QED BY <1>2, <1>3 DEF StringAt

--------------------------------------------------------------------------------
(* Names that are cut *)

\* The beginning of a text is one.
LEMMA Cut ==
    ASSUME NEW t \in Text, NEW n \in Nat
    PROVE  /\ Prefix(t, n) \in Text /\ Len(Prefix(t, n)) = IF Len(t) < n THEN Len(t) ELSE n
           /\ \A x \in 1 .. Len(Prefix(t, n)) : Prefix(t, n)[x] = t[x]
<1> DEFINE l == IF Len(t) < n THEN Len(t) ELSE n
<1>1. Len(t) \in Nat /\ l \in Nat /\ l <= Len(t) /\ \A x \in 1 .. l : t[x] \in Characters
  BY DEF Text
<1> HIDE DEF l
<1>2. /\ SubSeq(t, 1, l) \in Seq(Characters)
      /\ Len(SubSeq(t, 1, l)) = IF 1 <= l THEN l - 1 + 1 ELSE 0
      /\ \A x \in 1 .. l - 1 + 1 : SubSeq(t, 1, l)[x] = t[1 + x - 1]
  <2> QED BY <1>1, l \in Int, 1 \in Int, SubSeqProperties
<1>3. Len(SubSeq(t, 1, l)) = l
  BY <1>1, <1>2
<1>4. \A x \in 1 .. l : SubSeq(t, 1, l)[x] = t[x]
  BY <1>1, <1>2
<1> QED BY <1>2, <1>3, <1>4 DEF Prefix, Text, l

\* Two texts make one.
LEMMA Glue ==
    ASSUME NEW u \in Text, NEW t \in Text
    PROVE  /\ u \o t \in Text /\ Len(u \o t) = Len(u) + Len(t)
           /\ Len(u) \in Nat /\ Len(t) \in Nat
           /\ \A x \in 1 .. Len(u) + Len(t) :
                 (u \o t)[x] = IF x <= Len(u) THEN u[x] ELSE t[x - Len(u)]
<1>1. u \in Seq(Characters) /\ t \in Seq(Characters)
  BY DEF Text
<1> QED BY <1>1, ConcatProperties DEF Text

\* Cutting two names behind the end of the first.
LEMMA CutSecond ==
    ASSUME NEW u \in Text, NEW t \in Text, NEW n \in Nat, Len(u) <= n
    PROVE  Prefix(u \o t, n) = u \o Prefix(t, n - Len(u))
<1> DEFINE m == n - Len(u)
           a == Prefix(u \o t, n)
           b == u \o Prefix(t, m)
<1>1. Len(u) \in Nat /\ Len(t) \in Nat /\ m \in Nat
  <2>1. Len(u) \in Nat /\ Len(t) \in Nat
    BY DEF Text
  <2> QED BY <2>1
<1>2. /\ u \o t \in Text /\ Len(u \o t) = Len(u) + Len(t)
      /\ \A x \in 1 .. Len(u) + Len(t) :
            (u \o t)[x] = IF x <= Len(u) THEN u[x] ELSE t[x - Len(u)]
  BY Glue
<1>3. /\ a \in Text /\ Len(a) = IF Len(u) + Len(t) < n THEN Len(u) + Len(t) ELSE n
      /\ \A x \in 1 .. Len(a) : a[x] = (u \o t)[x]
  BY <1>2, Cut
<1> HIDE DEF m
<1>4. /\ Prefix(t, m) \in Text /\ Len(Prefix(t, m)) = IF Len(t) < m THEN Len(t) ELSE m
      /\ \A x \in 1 .. Len(Prefix(t, m)) : Prefix(t, m)[x] = t[x]
  BY <1>1, Cut
<1>5. /\ b \in Text /\ Len(b) = Len(u) + Len(Prefix(t, m))
      /\ \A x \in 1 .. Len(u) + Len(Prefix(t, m)) :
            b[x] = IF x <= Len(u) THEN u[x] ELSE Prefix(t, m)[x - Len(u)]
  BY <1>4, Glue
<1> HIDE DEF a, b
<1>6. Len(a) = Len(b) /\ Len(a) \in Nat
  <2>1. Len(Prefix(t, m)) = IF Len(t) < n - Len(u) THEN Len(t) ELSE n - Len(u)
    BY <1>4 DEF m
  <2>2. Len(a) = Len(u) + Len(Prefix(t, m)) /\ Len(a) \in Nat
    <3> DEFINE k == Len(u)
               l == Len(t)
               r == Len(a)
               s == Len(Prefix(t, m))
    <3>1. /\ k \in Nat /\ l \in Nat /\ k <= n
          /\ r = (IF k + l < n THEN k + l ELSE n) /\ s = (IF l < n - k THEN l ELSE n - k)
      BY <1>1, <1>3, <2>1
    <3> HIDE DEF k, l, r, s
    <3>2. r = k + s /\ r \in Nat /\ s \in Nat
      BY <3>1
    <3> QED BY <3>2 DEF k, r, s
  <2> QED BY <1>5, <2>2
<1>7. ASSUME NEW x \in 1 .. Len(a) PROVE a[x] = b[x]
  <2>1. CASE x <= Len(u)
    BY <1>1, <1>2, <1>3, <1>5, <1>6, <2>1
  <2>2. CASE x > Len(u)
    <3>1. x - Len(u) \in 1 .. Len(Prefix(t, m))
      BY <1>1, <1>4, <1>5, <1>6, <2>2
    <3>2. b[x] = Prefix(t, m)[x - Len(u)] /\ Prefix(t, m)[x - Len(u)] = t[x - Len(u)]
      BY <1>1, <1>4, <1>5, <1>6, <2>2, <3>1
    <3>3. a[x] = t[x - Len(u)]
      BY <1>1, <1>2, <1>3, <2>2
    <3> QED BY <3>2, <3>3
  <2> QED BY <1>1, <2>1, <2>2
<1>8. a = b
  BY <1>3, <1>5, <1>6, <1>7, SeqEqual DEF Text
<1> QED BY <1>8 DEF a, b, m

\* The names that the machine and the kernel give are texts.
LEMMA NameFacts ==
    ASSUME EffectsAssumption, TextsAssumption, machine \in Machines
    PROVE  /\ OrUnknown(machine.vendor) \in Text /\ OrUnknown(machine.board) \in Text
           /\ Version \in Text /\ Unknown \in Text /\ Len(Unknown) = 1 /\ <<" ">> \in Text
           /\ machine.brand \in Seq(CharBytes) /\ Len(machine.brand) <= BRAND_MAX
<1>1. Unknown \in Text /\ Len(Unknown) = 1 /\ <<" ">> \in Text
  <2>1. Unknown \in Text /\ " " \in Characters
    BY DEF TextsAssumption
  <2>2. Len(Unknown) = 1
    BY DEF Unknown
  <2>3. \A c \in Characters : <<c>> \in Text
    BY DEF Text
  <2> QED BY <2>1, <2>2, <2>3
<1> QED BY <1>1 DEF TextsAssumption, OrUnknown, CharBytes

\* What EffectHost writes into host: the two names, cut where the field ends.
LEMMA HostIs ==
    ASSUME EffectsAssumption, TextsAssumption, NEW u \in Text, NEW t \in Text
    PROVE  LET s == Prefix(Prefix(u, VENDOR_MAX) \o <<" ">> \o t, HOST_MAX - 1)
           IN  HostText(u, t) = Append(s, NUL) /\ s \in Text /\ Len(s) < HOST_MAX
<1> DEFINE v0 == Prefix(u, VENDOR_MAX)
           v  == Append(v0, " ")
           n  == HOST_MAX - 1
           s  == Prefix(v0 \o <<" ">> \o t, n)
<1>1. n \in Nat /\ VENDOR_MAX \in Nat /\ VENDOR_MAX + 1 <= n /\ HOST_MAX = n + 1
  BY DEF EffectsAssumption
<1>2. v0 \in Text /\ Len(v0) <= VENDOR_MAX /\ Len(v0) \in Nat
  <2>1. v0 \in Text /\ Len(v0) = IF Len(u) < VENDOR_MAX THEN Len(u) ELSE VENDOR_MAX
    BY <1>1, Cut
  <2>2. Len(u) \in Nat
    BY DEF Text
  <2> QED BY <1>1, <2>1, <2>2
<1> HIDE DEF v0, n
<1>3. " " \in Characters
  BY DEF TextsAssumption
<1>4. v = v0 \o <<" ">> /\ v \in Text /\ Len(v) = Len(v0) + 1
  <2>1. v0 \in Seq(Characters) /\ " " \in Characters
    BY <1>2, <1>3 DEF Text
  <2> QED BY <2>1, AppendIsConcat, AppendProperties DEF Text
<1> HIDE DEF v
<1>5. s = v \o Prefix(t, n - Len(v))
  <2>1. Len(v) <= n
    BY <1>1, <1>2, <1>4, Sum, 1 \in Nat
  <2> QED BY <1>1, <1>4, <2>1, CutSecond
<1>6. s \in Text /\ Len(s) <= n /\ Len(s) \in Nat
  <2>1. v \o t \in Text
    BY <1>4, Glue
  <2>2. s \in Text /\ Len(s) = IF Len(v \o t) < n THEN Len(v \o t) ELSE n
    BY <1>1, <1>4, <2>1, Cut
  <2>3. Len(v \o t) \in Nat
    BY <2>1 DEF Text
  <2> HIDE DEF s
  <2> QED BY <1>1, <2>2, <2>3, Lesser
<1>7. HostText(u, t) = v \o Prefix(t, n - Len(v)) \o <<NUL>>
  BY DEF HostText, v, v0, n
<1> HIDE DEF s
<1>8. s \o <<NUL>> = Append(s, NUL)
  <2>1. s \in Seq(CharBytes) /\ NUL \in CharBytes
    BY <1>6 DEF Text, CharBytes
  <2> QED BY <2>1, AppendIsConcat
<1>9. HostText(u, t) = Append(s, NUL) /\ s \in Text /\ Len(s) < HOST_MAX
  <2>1. HostText(u, t) = Append(s, NUL)
    BY <1>5, <1>7, <1>8
  <2>2. Len(s) < HOST_MAX
    BY <1>1, <1>6
  <2> QED BY <1>6, <2>1, <2>2
<1> QED BY <1>9 DEF s, v0, n

--------------------------------------------------------------------------------
(* The brand of the processor *)

\* How far the members of G reach without a gap.
LEMMA Gap ==
    ASSUME NEW l \in Nat, NEW G
    PROVE  \E z \in 0 .. l : (\A y \in 1 .. z : y \in G) /\ (z < l => z + 1 \notin G)
<1> DEFINE T == {k \in 1 .. l + 1 : k = l + 1 \/ k \notin G}
<1>1. PICK n \in T : \A x \in T : n <= x
  <2>1. T \subseteq Nat /\ l + 1 \in T
    OBVIOUS
  <2> HIDE DEF T
  <2> QED BY <2>1, Minimum
<1>2. n \in 1 .. l + 1 /\ (n = l + 1 \/ n \notin G)
  OBVIOUS
<1>3. \A x \in 1 .. n - 1 : x \in G
  <2> SUFFICES ASSUME NEW x \in 1 .. n - 1, x \notin G PROVE FALSE
    OBVIOUS
  <2>1. x \in T /\ x < n
    BY <1>2
  <2> QED BY <1>1, <1>2, <2>1
<1> DEFINE z == n - 1
<1>4. z \in 0 .. l /\ n = z + 1
  BY <1>2
<1> HIDE DEF z
<1>5. (\A y \in 1 .. z : y \in G) /\ (z < l => z + 1 \notin G)
  BY <1>2, <1>3, <1>4 DEF z
<1> QED BY <1>4, <1>5

\* CHOOSE finds the greatest member.
LEMMA Greatest ==
    ASSUME NEW K, K \subseteq Int, NEW z \in K, \A y \in K : y <= z
    PROVE  (CHOOSE k \in K : \A y \in K : y <= k) = z
<1>1. ASSUME NEW k \in K, \A y \in K : y <= k PROVE k = z
  <2>1. k <= z /\ z <= k /\ k \in Int /\ z \in Int
    BY <1>1
  <2> QED BY <2>1
<1> QED BY <1>1

FieldFacts ==
    /\ HostAt \in Nat /\ CpuAt \in Nat /\ GpuAt \in Nat /\ KernelAt \in Nat /\ InfoSize \in Nat
    /\ HOST_MAX \in Nat /\ CPU_MAX \in Nat /\ KERNEL_MAX \in Nat /\ HOST_MAX > 1 /\ KERNEL_MAX > 1
    /\ HostAt = 0 /\ CpuAt = HOST_MAX /\ GpuAt = CpuAt + CPU_MAX
    /\ KernelAt = GpuAt + CPU_MAX /\ InfoSize = KernelAt + KERNEL_MAX
    /\ BRAND_MAX \in Nat /\ BRAND_MAX >= 1 /\ BRAND_MAX + 1 <= CPU_MAX

\* Where the fields of struct sys_info lie.
LEMMA Fields ==
    ASSUME EffectsAssumption
    PROVE  FieldFacts
<1>1. /\ HOST_MAX \in Nat /\ CPU_MAX \in Nat /\ KERNEL_MAX \in Nat
      /\ BRAND_MAX \in Nat /\ BRAND_MAX >= 1 /\ BRAND_MAX + 1 <= CPU_MAX
      /\ HOST_MAX > 1 /\ KERNEL_MAX > 1
  BY DEF EffectsAssumption
<1> QED BY <1>1 DEF FieldFacts, HostAt, CpuAt, GpuAt, KernelAt, InfoSize

\* Stored and StoredText for struct sys_info.
LEMMA InfoStored ==
    ASSUME InfoSize \in Nat, NEW m, Info(m),
           NEW at \in Nat, NEW s \in Seq(CharBytes), at + Len(s) <= InfoSize
    PROVE  /\ Info(Store(m, at, s))
           /\ \A x \in 1 .. Len(s) : Store(m, at, s)[at + x - 1] = s[x]
           /\ \A a \in 0 .. InfoSize - 1 : a < at \/ a >= at + Len(s) => Store(m, at, s)[a] = m[a]
<1> DEFINE N == InfoSize
<1>1. N \in Nat /\ DOMAIN m = 0 .. N - 1 /\ at + Len(s) <= N
  BY DEF Info
<1> HIDE DEF N
<1>2. /\ DOMAIN Store(m, at, s) = 0 .. N - 1
      /\ \A x \in 1 .. Len(s) : Store(m, at, s)[at + x - 1] = s[x]
      /\ \A a \in 0 .. N - 1 : a < at \/ a >= at + Len(s) => Store(m, at, s)[a] = m[a]
  BY <1>1, Stored
<1> QED BY <1>2 DEF Info, N

\* The text among them, with its NUL.
LEMMA InfoStoredText ==
    ASSUME InfoSize \in Nat, NEW m, Info(m),
           NEW at \in Nat, NEW t \in Text, at + Len(t) < InfoSize
    PROVE  /\ Info(Store(m, at, Append(t, NUL)))
           /\ StringAt(Store(m, at, Append(t, NUL)), at, t)
           /\ \A a \in 0 .. InfoSize - 1 : a < at \/ a > at + Len(t)
                 => Store(m, at, Append(t, NUL))[a] = m[a]
<1> DEFINE N == InfoSize
<1>1. N \in Nat /\ DOMAIN m = 0 .. N - 1 /\ at + Len(t) < N
  BY DEF Info
<1> HIDE DEF N
<1>2. /\ DOMAIN Store(m, at, Append(t, NUL)) = 0 .. N - 1
      /\ StringAt(Store(m, at, Append(t, NUL)), at, t)
      /\ \A a \in 0 .. N - 1 : a < at \/ a > at + Len(t)
            => Store(m, at, Append(t, NUL))[a] = m[a]
  BY <1>1, StoredText
<1> QED BY <1>2 DEF Info, N

\* The string that stands at a place of the answer is what is read there.
LEMMA InfoString ==
    ASSUME TextsAssumption, InfoSize \in Nat, NEW m, Info(m),
           NEW at \in Nat, NEW t \in Text, at + Len(t) < InfoSize, StringAt(m, at, t)
    PROVE  String(m, at) = t
<1> DEFINE N == InfoSize
<1>1. N \in Nat /\ DOMAIN m = 0 .. N - 1 /\ at + Len(t) < N
  BY DEF Info
<1> HIDE DEF N
<1> QED BY <1>1, StringIs

\* The brand up to its NUL, and how many blanks it begins with.
BrandEnd(b) ==
    LET ends == {k \in 1 .. Len(b) + 1 : \A y \in 1 .. k - 1 : b[y] # NUL}
    IN  CHOOSE k \in ends : \A y \in ends : y <= k
Entire(b) == SubSeq(b, 1, BrandEnd(b) - 1)
Lead(s) ==
    LET cuts == {k \in 0 .. Len(s) : \A y \in 1 .. k : s[y] = " "}
    IN  CHOOSE k \in cuts : \A y \in cuts : y <= k

\* The brand up to its NUL has no NUL, and ends where the brand has one.
LEMMA WholeIs ==
    ASSUME TextsAssumption, NEW b \in Seq(CharBytes)
    PROVE  /\ Entire(b) \in Text /\ Len(Entire(b)) <= Len(b)
           /\ \A x \in 1 .. Len(Entire(b)) : Entire(b)[x] = b[x]
           /\ Len(Entire(b)) < Len(b) => b[Len(Entire(b)) + 1] = NUL
<1> DEFINE l == Len(b)
           G == {y \in 1 .. l : b[y] # NUL}
           K == {k \in 1 .. l + 1 : \A y \in 1 .. k - 1 : b[y] # NUL}
           z == BrandEnd(b)
<1>1. l \in Nat /\ \A x \in 1 .. l : b[x] \in CharBytes
  OBVIOUS
<1>2. z = CHOOSE k \in K : \A y \in K : y <= k
  BY DEF BrandEnd
<1> HIDE DEF l, z
<1>3. PICK n \in 0 .. l : (\A y \in 1 .. n : y \in G) /\ (n < l => n + 1 \notin G)
  <2> HIDE DEF G
  <2> QED BY <1>1, Gap
<1>4. z \in 1 .. l + 1 /\ (\A y \in 1 .. z - 1 : y \in G) /\ (z <= l => z \notin G)
  <2>1. n + 1 \in K /\ K \subseteq Int
    BY <1>1, <1>3
  <2>2. ASSUME NEW k \in K, k > n + 1 PROVE FALSE
    <3>1. n + 1 \in 1 .. k - 1 /\ n < l
      BY <1>1, <2>2
    <3> QED BY <1>1, <1>3, <3>1
  <2>3. \A k \in K : k <= n + 1
    BY <1>1, <2>2
  <2>4. z = n + 1
    <3> DEFINE m == n + 1
    <3> HIDE DEF K, m
    <3>1. m \in K /\ \A k \in K : k <= m
      BY <2>1, <2>3 DEF m
    <3> QED BY <1>2, <2>1, <3>1, Greatest DEF m
  <2> QED BY <1>1, <1>3, <2>4
<1> HIDE DEF K
<1>5. \A x \in 1 .. z - 1 : b[x] \in Characters
  BY <1>1, <1>4 DEF CharBytes
<1>6. Entire(b) = SubSeq(b, 1, z - 1)
  BY DEF Entire, z
<1>7. /\ SubSeq(b, 1, z - 1) \in Text
      /\ Len(SubSeq(b, 1, z - 1)) = IF 1 <= z - 1 THEN z - 1 - 1 + 1 ELSE 0
      /\ \A x \in 1 .. z - 1 - 1 + 1 : SubSeq(b, 1, z - 1)[x] = b[1 + x - 1]
  BY <1>1, <1>4, <1>5, z - 1 \in Int, 1 \in Int, SubSeqProperties DEF Text
<1>8. Len(Entire(b)) = z - 1
  BY <1>1, <1>4, <1>6, <1>7
<1>9. \A x \in 1 .. z - 1 : Entire(b)[x] = b[x]
  BY <1>1, <1>4, <1>6, <1>7
<1>10. z - 1 < l => b[z] = NUL /\ z = z - 1 + 1
  BY <1>1, <1>4
<1> QED BY <1>1, <1>4, <1>6, <1>7, <1>8, <1>9, <1>10 DEF l

\* Without its leading blanks it is a text still, and itself if there are none.
LEMMA LeadIs ==
    ASSUME TextsAssumption, NEW s \in Text
    PROVE  /\ Lead(s) \in 0 .. Len(s)
           /\ SubSeq(s, 1 + Lead(s), Len(s)) \in Text
           /\ Len(SubSeq(s, 1 + Lead(s), Len(s))) = Len(s) - Lead(s)
           /\ Lead(s) = 0 => SubSeq(s, 1 + Lead(s), Len(s)) = s
<1> DEFINE l == Len(s)
           c == " "
           G == {y \in 1 .. l : s[y] = c}
           K == {k \in 0 .. l : \A y \in 1 .. k : s[y] = c}
           z == Lead(s)
<1>1. l \in Nat /\ \A x \in 1 .. l : s[x] \in Characters
  BY DEF Text
<1>2. z = CHOOSE k \in K : \A y \in K : y <= k
  BY DEF Lead
<1> HIDE DEF z, l, c
<1>3. PICK n \in 0 .. l : (\A y \in 1 .. n : y \in G) /\ (n < l => n + 1 \notin G)
  <2> HIDE DEF G
  <2> QED BY <1>1, Gap
<1>4. z \in 0 .. l
  <2>1. n \in K /\ K \subseteq Int
    BY <1>1, <1>3
  <2>2. ASSUME NEW k \in K, k > n PROVE FALSE
    <3>1. n + 1 \in 1 .. k /\ n < l /\ n + 1 \in 1 .. l
      BY <1>1, <2>2
    <3>2. s[n + 1] = c
      BY <3>1
    <3> QED BY <1>3, <3>1, <3>2
  <2>3. \A k \in K : k <= n
    BY <1>1, <2>2
  <2>4. z = n
    <3> HIDE DEF K
    <3> QED BY <1>2, <2>1, <2>3, Greatest
  <2> QED BY <1>1, <1>3, <2>4
<1> HIDE DEF K
<1>5. /\ SubSeq(s, 1 + z, l) \in Text
      /\ Len(SubSeq(s, 1 + z, l)) = IF 1 + z <= l THEN l - (1 + z) + 1 ELSE 0
      /\ \A x \in 1 .. l - (1 + z) + 1 : SubSeq(s, 1 + z, l)[x] = s[1 + z + x - 1]
  <2>1. 1 + z \in Int /\ l \in Int /\ \A x \in 1 + z .. l : s[x] \in Characters
    BY <1>1, <1>4
  <2> QED BY <2>1, SubSeqProperties DEF Text
<1>6. Len(SubSeq(s, 1 + z, l)) = l - z
  <2> QED BY <1>1, <1>4, <1>5
<1>7. z = 0 => SubSeq(s, 1 + z, l) = s
  <2> SUFFICES ASSUME z = 0 PROVE SubSeq(s, 1, l) = s
    BY <1>1
  <2>1. \A x \in 1 .. l : SubSeq(s, 1, l)[x] = s[x]
    BY <1>1
  <2> QED BY <1>1, SubSeqFull DEF Text, l
<1> QED BY <1>4, <1>5, <1>6, <1>7 DEF z, l

\* Brand is that: up to its NUL, without its leading blanks.
LEMMA BrandDef ==
    ASSUME NEW b
    PROVE  Brand(b) = SubSeq(Entire(b), 1 + Lead(Entire(b)), Len(Entire(b)))
  BY DEF Brand, Entire, BrandEnd, Lead

\* A brand that has been stored reads as far as its NUL.
LEMMA RawBrand ==
    ASSUME EffectsAssumption, TextsAssumption, NEW m, Info(m),
           NEW b \in Seq(CharBytes), Len(b) <= BRAND_MAX
    PROVE  LET raw == Store(m, CpuAt, Append(b, NUL))
           IN  /\ Info(raw) /\ StringAt(raw, CpuAt, Entire(b)) /\ String(raw, CpuAt) = Entire(b)
               /\ \A a \in 0 .. CpuAt - 1 : raw[a] = m[a]
<1> DEFINE raw == Store(m, CpuAt, Append(b, NUL))
           s == Append(b, NUL)
           w == Entire(b)
           l == Len(b)
           k == Len(w)
<1>1. FieldFacts
  BY Fields
<1>2. /\ s \in Seq(CharBytes) /\ Len(s) = l + 1 /\ s[l + 1] = NUL /\ l \in Nat
      /\ \A x \in 1 .. l : s[x] = b[x]
  <2>1. NUL \in CharBytes
    BY DEF CharBytes
  <2> QED BY <2>1, AppendProperties
<1>3. /\ w \in Text /\ k \in Nat /\ k <= l /\ \A x \in 1 .. k : w[x] = b[x]
      /\ k < l => b[k + 1] = NUL
  <2>1. w \in Text
    BY WholeIs
  <2>2. k \in Nat
    BY <2>1 DEF Text
  <2> QED BY <2>1, <2>2, WholeIs
<1> HIDE DEF s, w, l, k
<1>4. /\ CpuAt \in Nat /\ InfoSize \in Nat /\ DOMAIN m = 0 .. InfoSize - 1
      /\ l + 1 <= CPU_MAX /\ CpuAt + Len(s) <= InfoSize /\ CpuAt + k < InfoSize
  <2>1. l <= BRAND_MAX
    BY DEF l
  <2> QED BY <1>1, <1>2, <1>3, <2>1 DEF FieldFacts, Info
<1>5. /\ Info(Store(m, CpuAt, s))
      /\ \A x \in 1 .. Len(s) : Store(m, CpuAt, s)[CpuAt + x - 1] = s[x]
      /\ \A a \in 0 .. InfoSize - 1 : a < CpuAt \/ a >= CpuAt + Len(s) => Store(m, CpuAt, s)[a] = m[a]
  BY <1>2, <1>4, InfoStored
<1>6. raw = Store(m, CpuAt, s)
  BY DEF s
<1> HIDE DEF raw
<1>7. \A x \in 1 .. k : raw[CpuAt + x - 1] = w[x]
  <2> SUFFICES ASSUME NEW x \in 1 .. k PROVE raw[CpuAt + x - 1] = w[x]
    OBVIOUS
  <2>1. x \in 1 .. l /\ x \in 1 .. Len(s)
    BY <1>2, <1>3
  <2> QED BY <1>2, <1>3, <1>5, <1>6, <2>1
<1>8. raw[CpuAt + k] = NUL
  <2>1. k + 1 \in 1 .. Len(s) /\ CpuAt + (k + 1) - 1 = CpuAt + k
    BY <1>2, <1>3, <1>4
  <2>2. raw[CpuAt + k] = s[k + 1]
    BY <1>5, <1>6, <2>1
  <2>3. CASE k < l
    <3>1. k + 1 \in 1 .. l
      BY <1>2, <1>3, <2>3
    <3> QED BY <1>2, <1>3, <2>2, <2>3, <3>1
  <2>4. CASE k = l
    BY <1>2, <2>2, <2>4
  <2> QED BY <1>2, <1>3, <2>3, <2>4
<1>9. StringAt(raw, CpuAt, w)
  BY <1>7, <1>8 DEF StringAt, k
<1>10. String(raw, CpuAt) = w
  BY <1>3, <1>4, <1>5, <1>6, <1>9, InfoString DEF k
<1>11. \A a \in 0 .. CpuAt - 1 : raw[a] = m[a]
  BY <1>4, <1>5, <1>6
<1> QED BY <1>5, <1>6, <1>9, <1>10, <1>11 DEF Info, raw, w

\* cpu_get_brand leaves the brand without its blanks, inside its field.
LEMMA BrandIs ==
    ASSUME EffectsAssumption, TextsAssumption, NEW m, Info(m),
           NEW b \in Seq(CharBytes), Len(b) <= BRAND_MAX
    PROVE  LET n == cpu_get_brand(m, b)
               t == IF b = NULL THEN <<>> ELSE Brand(b)
           IN  /\ Info(n) /\ t \in Text /\ Len(t) < CPU_MAX
               /\ StringAt(n, CpuAt, t)
               /\ \A a \in 0 .. CpuAt - 1 : n[a] = m[a]
<1> DEFINE n == cpu_get_brand(m, b)
           t == IF b = NULL THEN <<>> ELSE Brand(b)
           raw == Store(m, CpuAt, Append(b, NUL))
           w == Entire(b)
<1>1. FieldFacts
  BY Fields
<1>2. /\ CpuAt \in Nat /\ InfoSize \in Nat /\ DOMAIN m = 0 .. InfoSize - 1
      /\ CPU_MAX \in Nat /\ CPU_MAX > BRAND_MAX /\ CpuAt + CPU_MAX <= InfoSize /\ BRAND_MAX \in Nat
  BY <1>1 DEF FieldFacts, Info
<1>3. CASE b = NULL
  <2>1. t = <<>> /\ t \in Text /\ Len(t) = 0 /\ Append(t, NUL) = <<NUL>>
    BY <1>3 DEF Text
  <2>2. n = Store(m, CpuAt, Append(t, NUL))
    BY <1>3, <2>1 DEF cpu_get_brand
  <2> HIDE DEF n, t
  <2>3. t \in Text /\ CpuAt + Len(t) < InfoSize
    BY <1>2, <2>1
  <2>4. /\ Info(n) /\ StringAt(n, CpuAt, t)
        /\ \A a \in 0 .. InfoSize - 1 : a < CpuAt \/ a > CpuAt + Len(t) => n[a] = m[a]
    BY <1>2, <2>2, <2>3, InfoStoredText
  <2>5. \A a \in 0 .. CpuAt - 1 : n[a] = m[a]
    BY <1>2, <2>4
  <2>6. Len(t) < CPU_MAX
    BY <1>2, <2>1
  <2> QED BY <2>1, <2>4, <2>5, <2>6 DEF n, t
<1>4. CASE b # NULL
  <2> DEFINE d == Lead(w)
             cut == SubSeq(w, 1 + d, Len(w))
  <2>1. /\ Info(raw) /\ StringAt(raw, CpuAt, w) /\ String(raw, CpuAt) = w
        /\ \A a \in 0 .. CpuAt - 1 : raw[a] = m[a]
    BY RawBrand
  <2>2. w \in Text /\ Len(w) <= Len(b) /\ Len(w) \in Nat /\ Len(b) \in Nat
    <3>1. w \in Text /\ Len(w) <= Len(b)
      BY WholeIs
    <3> QED BY <3>1 DEF Text
  <2>3. t = cut
    BY <1>4, BrandDef
  <2>4. n = IF d = 0 THEN raw
            ELSE Store(raw, CpuAt, Append(SubSeq(w, d + 1, Len(w)), NUL))
    <3> HIDE DEF w, raw
    <3> DEFINE u == String(raw, CpuAt)
    <3>1. cpu_get_brand(m, b) =
            IF Lead(u) = 0 THEN raw ELSE Store(raw, CpuAt, Append(SubSeq(u, Lead(u) + 1, Len(u)), NUL))
      BY <1>4 DEF cpu_get_brand, raw, Lead
    <3>2. u = w
      BY <2>1
    <3> HIDE DEF u
    <3> QED BY <3>1, <3>2
  <2> HIDE DEF raw, w, n, t
  <2>5. /\ d \in 0 .. Len(w) /\ cut \in Text /\ Len(cut) = Len(w) - d
        /\ d = 0 => cut = w
    BY <2>2, LeadIs
  <2> HIDE DEF d, cut
  <2>6. Len(cut) \in Nat /\ Len(cut) < CPU_MAX /\ CpuAt + Len(cut) < InfoSize /\ d + 1 = 1 + d
    BY <1>2, <2>2, <2>5
  <2>7. CASE d = 0
    <3>1. n = raw /\ t = w
      BY <2>3, <2>4, <2>5, <2>7
    <3> QED BY <2>1, <2>3, <2>5, <2>6, <3>1 DEF n, t
  <2>8. CASE d # 0
    <3>1. n = Store(raw, CpuAt, Append(cut, NUL))
      BY <2>4, <2>6, <2>8 DEF cut
    <3>2. /\ Info(n) /\ StringAt(n, CpuAt, cut)
          /\ \A a \in 0 .. InfoSize - 1 : a < CpuAt \/ a > CpuAt + Len(cut) => n[a] = raw[a]
      BY <1>2, <2>5, <2>6, <2>1, <3>1, InfoStoredText
    <3>3. \A a \in 0 .. CpuAt - 1 : n[a] = m[a]
      BY <1>2, <2>1, <3>2
    <3> QED BY <2>3, <2>5, <2>6, <3>2, <3>3 DEF n, t
  <2> QED BY <2>7, <2>8
<1> QED BY <1>3, <1>4

--------------------------------------------------------------------------------
(* IOCTL_GET_INFO *)

\* A string stays when what is in front of low does.
LEMMA Behind ==
    ASSUME NEW m, NEW n, NEW at \in Nat, NEW t \in Text, NEW low \in Nat, at + Len(t) < low,
           \A a \in 0 .. low - 1 : n[a] = m[a], StringAt(m, at, t)
    PROVE  StringAt(n, at, t)
<1>1. Len(t) \in Nat
  BY DEF Text
<1>2. \A a \in at .. at + Len(t) : n[a] = m[a]
  BY <1>1
<1> QED BY <1>1, <1>2, StringStays

\* Storing a name at the beginning of a field keeps the memory in front of it.
LEMMA FieldStored ==
    ASSUME InfoSize \in Nat, NEW m, Info(m), NEW at \in Nat, NEW size \in Nat,
           at + size <= InfoSize, NEW t \in Text, Len(t) < size
    PROVE  LET n == Store(m, at, Append(t, NUL))
           IN  Info(n) /\ StringAt(n, at, t) /\ \A a \in 0 .. at - 1 : n[a] = m[a]
<1>1. Len(t) \in Nat /\ at + Len(t) < InfoSize
  <2>1. Len(t) \in Nat
    BY DEF Text
  <2> QED BY <2>1
<1>2. /\ Info(Store(m, at, Append(t, NUL)))
      /\ StringAt(Store(m, at, Append(t, NUL)), at, t)
      /\ \A a \in 0 .. InfoSize - 1 : a < at \/ a > at + Len(t)
            => Store(m, at, Append(t, NUL))[a] = m[a]
  BY <1>1, InfoStoredText
<1>3. \A a \in 0 .. at - 1 : a \in 0 .. InfoSize - 1 /\ a < at
  BY <1>1
<1> QED BY <1>2, <1>3

HostName == Prefix(Prefix(OrUnknown(machine.vendor), VENDOR_MAX) \o <<" ">>
                       \o OrUnknown(machine.board), HOST_MAX - 1)
BrandName == IF machine.brand = NULL THEN <<>> ELSE Brand(machine.brand)
CpuName == IF BrandName = <<>> THEN Unknown ELSE BrandName
KernelName == Prefix(Version, KERNEL_MAX - 1)

\* What is in cpu when its name is empty.
LEMMA CpuFirst ==
    ASSUME TextsAssumption, NEW m, NEW t \in Text, CpuAt \in Nat, StringAt(m, CpuAt, t)
    PROVE  m[CpuAt] = NUL <=> t = <<>>
<1>1. Len(t) \in Nat /\ \A x \in 1 .. Len(t) : t[x] \in Characters
  BY DEF Text
<1>2. CASE t = <<>>
  <2>1. Len(t) = 0 /\ CpuAt + 0 = CpuAt
    BY <1>2
  <2> QED BY <1>2, <2>1 DEF StringAt
<1>3. CASE t # <<>>
  <2>1. Len(t) # 0
    BY <1>3, EmptySeq DEF Text
  <2>2. 1 \in 1 .. Len(t) /\ CpuAt + 1 - 1 = CpuAt
    BY <1>1, <2>1
  <2>3. m[CpuAt] = t[1]
    BY <2>2 DEF StringAt
  <2> QED BY <1>1, <1>3, <2>2, <2>3 DEF TextsAssumption
<1> QED BY <1>2, <1>3

\* Each field of the answer is the name it should be.
LEMMA Filled ==
    ASSUME EffectsAssumption, TextsAssumption, machine \in Machines, NEW m, Info(m)
    PROVE  LET n == FillInfo(m)
           IN  /\ Info(n) /\ String(n, HostAt) = HostName /\ String(n, CpuAt) = CpuName
               /\ String(n, GpuAt) = Unknown /\ String(n, KernelAt) = KernelName
<1> DEFINE m1 == Store(m, HostAt, HostText(OrUnknown(machine.vendor), OrUnknown(machine.board)))
           m2 == cpu_get_brand(m1, machine.brand)
           m3 == IF m2[CpuAt] = NUL THEN Store(m2, CpuAt, Append(Unknown, NUL)) ELSE m2
           m4 == Store(m3, GpuAt, Append(Unknown, NUL))
           m5 == Store(m4, KernelAt, Append(KernelName, NUL))
           h0 == HostName
           b0 == BrandName
           c0 == CpuName
           k0 == KernelName
<1>1. FieldFacts
  BY Fields
<1>2. /\ HostAt \in Nat /\ CpuAt \in Nat /\ GpuAt \in Nat /\ KernelAt \in Nat /\ InfoSize \in Nat
      /\ HOST_MAX \in Nat /\ CPU_MAX \in Nat /\ KERNEL_MAX \in Nat /\ CPU_MAX > 1
      /\ HostAt + HOST_MAX = CpuAt /\ CpuAt + CPU_MAX = GpuAt
      /\ GpuAt + CPU_MAX = KernelAt /\ KernelAt + KERNEL_MAX = InfoSize
      /\ CpuAt <= InfoSize /\ GpuAt <= InfoSize /\ KernelAt <= InfoSize
      /\ KERNEL_MAX - 1 \in Nat
  BY <1>1 DEF FieldFacts
<1>3. /\ OrUnknown(machine.vendor) \in Text /\ OrUnknown(machine.board) \in Text
      /\ Version \in Text /\ Unknown \in Text /\ Len(Unknown) = 1
      /\ machine.brand \in Seq(CharBytes) /\ Len(machine.brand) <= BRAND_MAX
  BY NameFacts
<1>4. FillInfo(m) = m5
  BY DEF FillInfo, KernelName
<1>5. Info(m1) /\ StringAt(m1, HostAt, h0) /\ h0 \in Text /\ Len(h0) < HOST_MAX
  <2>1. HostText(OrUnknown(machine.vendor), OrUnknown(machine.board)) = Append(h0, NUL)
        /\ h0 \in Text /\ Len(h0) < HOST_MAX
    BY <1>3, HostIs DEF HostName
  <2>2. m1 = Store(m, HostAt, Append(h0, NUL))
    BY <2>1
  <2> HIDE DEF m1, h0
  <2>3. HostAt + HOST_MAX <= InfoSize
    BY <1>2
  <2> QED BY <1>2, <2>1, <2>2, <2>3, FieldStored
<1> HIDE DEF m1, h0
<1>6. /\ Info(m2) /\ b0 \in Text /\ Len(b0) < CPU_MAX /\ StringAt(m2, CpuAt, b0)
      /\ \A a \in 0 .. CpuAt - 1 : m2[a] = m1[a]
  BY <1>3, <1>5, BrandIs DEF BrandName
<1> HIDE DEF m2, b0
<1>7. StringAt(m2, HostAt, h0)
  <2>1. HostAt + Len(h0) < CpuAt
    <3>1. Len(h0) \in Nat
      BY <1>5 DEF Text
    <3> QED BY <1>2, <1>5, <3>1
  <2> QED BY <1>2, <1>5, <1>6, <2>1, Behind
<1>8. c0 = IF b0 = <<>> THEN Unknown ELSE b0
  BY DEF CpuName, b0
<1> HIDE DEF c0
<1>9. /\ Info(m3) /\ c0 \in Text /\ Len(c0) < CPU_MAX /\ StringAt(m3, CpuAt, c0)
      /\ \A a \in 0 .. CpuAt - 1 : m3[a] = m2[a]
  <2>1. m2[CpuAt] = NUL <=> b0 = <<>>
    BY <1>2, <1>6, CpuFirst
  <2>2. CASE b0 = <<>>
    <3>1. c0 = Unknown /\ m3 = Store(m2, CpuAt, Append(Unknown, NUL))
      BY <1>8, <2>1, <2>2
    <3>2. CpuAt + CPU_MAX <= InfoSize /\ c0 \in Text /\ Len(c0) < CPU_MAX
      BY <1>2, <1>3, <3>1
    <3>3. m3 = Store(m2, CpuAt, Append(c0, NUL))
      BY <3>1
    <3> HIDE DEF m3
    <3>4. /\ Info(m3) /\ StringAt(m3, CpuAt, c0)
          /\ \A a \in 0 .. CpuAt - 1 : m3[a] = m2[a]
      BY <1>2, <1>6, <3>2, <3>3, FieldStored
    <3> QED BY <3>2, <3>4
  <2>3. CASE b0 # <<>>
    <3>1. c0 = b0 /\ m3 = m2
      BY <1>8, <2>1, <2>3
    <3> HIDE DEF m3
    <3> QED BY <1>6, <3>1
  <2> QED BY <2>2, <2>3
<1> HIDE DEF m3
<1>10. /\ Info(m4) /\ StringAt(m4, GpuAt, Unknown) /\ \A a \in 0 .. GpuAt - 1 : m4[a] = m3[a]
  <2> DEFINE u == Unknown
  <2>1. GpuAt + CPU_MAX <= InfoSize /\ u \in Text /\ Len(u) < CPU_MAX
    BY <1>2, <1>3
  <2>2. m4 = Store(m3, GpuAt, Append(u, NUL))
    OBVIOUS
  <2> HIDE DEF u, m4
  <2>3. Info(m4) /\ StringAt(m4, GpuAt, u) /\ \A a \in 0 .. GpuAt - 1 : m4[a] = m3[a]
    BY <1>2, <1>9, <2>1, <2>2, FieldStored
  <2> QED BY <2>3 DEF u
<1> HIDE DEF m4
<1>11. /\ Info(m5) /\ k0 \in Text /\ KernelAt + Len(k0) < InfoSize /\ StringAt(m5, KernelAt, k0)
       /\ \A a \in 0 .. KernelAt - 1 : m5[a] = m4[a]
  <2>1. k0 \in Text /\ Len(k0) < KERNEL_MAX /\ Len(k0) \in Nat
    <3> DEFINE n == KERNEL_MAX - 1
    <3>1. n \in Nat /\ n < KERNEL_MAX
      BY <1>2
    <3>2. k0 = Prefix(Version, n)
      BY DEF KernelName
    <3> HIDE DEF n, k0
    <3>3. k0 \in Text /\ Len(k0) = IF Len(Version) < n THEN Len(Version) ELSE n
      BY <1>3, <3>1, <3>2, Cut
    <3>4. Len(Version) \in Nat
      BY <1>3 DEF Text
    <3>5. Len(k0) \in Nat /\ Len(k0) <= n
      BY <3>1, <3>3, <3>4, Lesser
    <3> QED BY <1>2, <3>1, <3>3, <3>5
  <2> HIDE DEF k0
  <2>2. m5 = Store(m4, KernelAt, Append(k0, NUL))
    BY DEF k0
  <2> HIDE DEF m5
  <2>3. KernelAt + KERNEL_MAX <= InfoSize /\ KernelAt + Len(k0) < InfoSize
    BY <1>2, <2>1
  <2> QED BY <1>2, <1>10, <2>1, <2>2, <2>3, FieldStored
<1> HIDE DEF m5, k0
<1>12. \A a \in 0 .. GpuAt - 1 : m5[a] = m3[a]
  BY <1>2, <1>10, <1>11
<1>13. \A a \in 0 .. CpuAt - 1 : m5[a] = m2[a]
  BY <1>2, <1>9, <1>12
<1>14. /\ Len(h0) \in Nat /\ HostAt + Len(h0) < CpuAt /\ HostAt + Len(h0) < InfoSize
       /\ Len(c0) \in Nat /\ CpuAt + Len(c0) < GpuAt /\ CpuAt + Len(c0) < InfoSize
  <2>1. Len(h0) \in Nat /\ Len(c0) \in Nat
    BY <1>5, <1>9 DEF Text
  <2> QED BY <1>2, <1>5, <1>9, <2>1
<1>gpu. StringAt(m5, GpuAt, Unknown) /\ GpuAt + Len(Unknown) < KernelAt /\ GpuAt + Len(Unknown) < InfoSize
  <2> DEFINE u == Unknown
  <2>1. u \in Text /\ Len(u) \in Nat /\ GpuAt + Len(u) < KernelAt /\ GpuAt + Len(u) < InfoSize
    BY <1>2, <1>3
  <2>2. StringAt(m4, GpuAt, u)
    BY <1>10
  <2> HIDE DEF u
  <2>3. StringAt(m5, GpuAt, u)
    BY <1>2, <1>11, <2>1, <2>2, Behind
  <2> QED BY <2>1, <2>3 DEF u
<1>15. StringAt(m5, HostAt, h0) /\ StringAt(m5, CpuAt, c0)
  <2>1. StringAt(m5, HostAt, h0)
    BY <1>2, <1>5, <1>7, <1>13, <1>14, Behind
  <2>2. StringAt(m5, CpuAt, c0)
    BY <1>2, <1>9, <1>12, <1>14, Behind
  <2> QED BY <2>1, <2>2
<1>16. /\ String(m5, HostAt) = h0 /\ String(m5, CpuAt) = c0
       /\ String(m5, GpuAt) = Unknown /\ String(m5, KernelAt) = k0
  <2>1. String(m5, HostAt) = h0
    BY <1>2, <1>5, <1>11, <1>14, <1>15, InfoString
  <2>2. String(m5, CpuAt) = c0
    BY <1>2, <1>9, <1>11, <1>14, <1>15, InfoString
  <2>3. String(m5, KernelAt) = k0
    BY <1>2, <1>11, InfoString
  <2>4. String(m5, GpuAt) = Unknown
    BY <1>2, <1>3, <1>gpu, <1>11, InfoString
  <2> QED BY <2>1, <2>2, <2>3, <2>4
<1> QED BY <1>4, <1>11, <1>16 DEF h0, c0, k0

--------------------------------------------------------------------------------
(* The calls *)

\* A call starts with nothing done and no error; the answer keeps its size.
CallInv ==
    /\ call_pc \in {"boot", "user", "perform", "stopped"}
    /\ machine \in Machines
    /\ Info(info)
    /\ call_pc = "boot" => asked.op = "NOP"
    /\ call_pc \in {"boot", "perform"} => done = {}
    /\ call_pc = "perform" => e = [result |-> 0, error |-> 0]

CallsInv == CallInv /\ DoneOrRefused /\ InfoRight

\* info is filled in as InfoRight wants it.
LEMMA FilledRight ==
    ASSUME EffectsAssumption, TextsAssumption, machine \in Machines, Info(info),
           machine' = machine, info' = FillInfo(info)
    PROVE  Info(info)' /\ InfoRight'
<1> DEFINE n == FillInfo(info)
<1>1. /\ Info(n) /\ String(n, HostAt) = HostName /\ String(n, CpuAt) = CpuName
      /\ String(n, GpuAt) = Unknown /\ String(n, KernelAt) = KernelName
  BY Filled
<1> HIDE DEF n
<1>2. info' = n
  BY DEF n
<1>3. Info(info)'
  BY <1>1, <1>2 DEF Info, InfoSize, KernelAt, GpuAt, CpuAt
<1>4. /\ String(info', HostAt) = HostName /\ String(info', CpuAt) = CpuName
      /\ String(info', GpuAt) = Unknown /\ String(info', KernelAt) = KernelName
      /\ DOMAIN info' = 0 .. InfoSize - 1
  BY <1>1, <1>2 DEF Info
<1>5. /\ HostName = Prefix(Prefix(OrUnknown(machine'.vendor), VENDOR_MAX) \o <<" ">>
                              \o OrUnknown(machine'.board), HOST_MAX - 1)
      /\ CpuName = IF (IF machine'.brand = NULL THEN <<>> ELSE Brand(machine'.brand)) = <<>>
                   THEN Unknown ELSE (IF machine'.brand = NULL THEN <<>> ELSE Brand(machine'.brand))
      /\ KernelName = Prefix(Version, KERNEL_MAX - 1)
  BY DEF HostName, BrandName, CpuName, KernelName
<1> HIDE DEF HostName, CpuName, KernelName
<1> QED BY <1>3, <1>4, <1>5 DEF InfoRight, HostAt, InfoSize, KernelAt, GpuAt, CpuAt

\* The answer stays right while it is left alone.
LEMMA StaysRight ==
    ASSUME InfoRight, UNCHANGED <<machine, info>>, "info" \in done' => "info" \in done
    PROVE  InfoRight'
  BY DEF InfoRight

\* Before the first call nothing is done.
LEMMA CallsInit ==
    ASSUME EffectsAssumption, EffectsInit
    PROVE  CallsInv
<1>1. Info(info)
  BY DEF EffectsInit, Info
<1> QED BY <1>1 DEF EffectsInit, CallsInv, CallInv, DoneOrRefused, InfoRight

\* What came of a call: something done, or an error.
LEMMA OneDone ==
    ASSUME NEW what, done = {}, done' = done \cup {what}, e'.error = 0
    PROVE  DoneOrRefused'
<1>1. done' = {what}
  OBVIOUS
<1> QED BY <1>1 DEF DoneOrRefused

\* What came of a call that is refused.
LEMMA NoneDone ==
    ASSUME done = {}, done' = done, e'.error # 0
    PROVE  DoneOrRefused'
  BY DEF DoneOrRefused

\* An operation that is done sets a result and no error.
LEMMA DidKeeps ==
    ASSUME CallsInv, call_pc = "perform", NEW what, what # "info", NEW result,
           Did(what, result), UNCHANGED <<machine, asked>>
    PROVE  CallsInv'
<1>1. done = {} /\ e = [result |-> 0, error |-> 0]
  BY DEF CallsInv, CallInv
<1>2. done' = done \cup {what} /\ call_pc' = "user" /\ e'.error = 0 /\ info' = info
  BY <1>1 DEF Did, ToUser
<1>3. DoneOrRefused'
  BY <1>1, <1>2, OneDone
<1>4. InfoRight'
  BY <1>1, <1>2, StaysRight DEF CallsInv
<1> QED BY <1>2, <1>3, <1>4 DEF CallsInv, CallInv, Info, InfoSize, KernelAt, GpuAt, CpuAt

\* One that is refused does nothing.
LEMMA RefuseKeeps ==
    ASSUME CallsInv, call_pc = "perform", NEW error, error # 0,
           Refuse(error), UNCHANGED <<machine, asked>>
    PROVE  CallsInv'
<1>1. done = {} /\ e = [result |-> 0, error |-> 0]
  BY DEF CallsInv, CallInv
<1>2. done' = done /\ call_pc' = "user" /\ e'.error = error /\ info' = info
  BY <1>1 DEF Refuse, ToUser
<1>3. DoneOrRefused'
  BY <1>1, <1>2, NoneDone
<1>4. InfoRight'
  BY <1>2, StaysRight DEF CallsInv
<1> QED BY <1>2, <1>3, <1>4 DEF CallsInv, CallInv, Info, InfoSize, KernelAt, GpuAt, CpuAt

\* One that stops the machine does not come back.
LEMMA StopKeeps ==
    ASSUME CallsInv, call_pc = "perform", NEW what, what # "info",
           Stop(what), UNCHANGED <<machine, asked>>
    PROVE  CallsInv'
<1>1. done' = done \cup {what} /\ call_pc' = "stopped" /\ info' = info
  BY DEF Stop
<1>2. InfoRight'
  BY <1>1, StaysRight DEF CallsInv
<1> QED BY <1>1, <1>2 DEF CallsInv, CallInv, DoneOrRefused, Info, InfoSize, KernelAt, GpuAt, CpuAt

\* IOCTL_GET_INFO fills in the answer.
LEMMA InfoKeeps ==
    ASSUME EffectsAssumption, TextsAssumption, CallsInv, call_pc = "perform",
           info' = FillInfo(info), done' = done \cup {"info"},
           ToUser([e EXCEPT !.result = 0]), UNCHANGED <<machine, asked>>
    PROVE  CallsInv'
<1>1. done = {} /\ e = [result |-> 0, error |-> 0] /\ machine \in Machines /\ Info(info)
  BY DEF CallsInv, CallInv
<1>2. call_pc' = "user" /\ e'.error = 0
  BY <1>1 DEF ToUser
<1>3. DoneOrRefused'
  BY <1>1, <1>2, OneDone
<1>4. Info(info)' /\ InfoRight'
  BY <1>1, FilledRight
<1> QED BY <1>1, <1>2, <1>3, <1>4 DEF CallsInv, CallInv

\* The core handler does one of these.
LEMMA CoreKeeps ==
    ASSUME EffectsAssumption, TextsAssumption, CallsInv, effect_core_handler
    PROVE  CallsInv'
<1>1. call_pc = "perform" /\ UNCHANGED <<machine, asked>>
  BY DEF effect_core_handler
<1>2. EFAULT # 0 /\ EINVAL # 0
  BY DEF EFAULT, EINVAL
<1>3. CASE Did("write", asked.len)
  BY <1>1, <1>3, DidKeeps
<1>4. CASE \E len \in Readable(asked.len) : Did("read", len)
  BY <1>1, <1>4, DidKeeps
<1>5. CASE ioctl
  <2>clear. CASE Did("clear", 0)
    BY <1>1, <2>clear, DidKeeps
  <2>stop. CASE asked.cmd \in {"SHUTDOWN", "REBOOT"} /\ Stop(asked.cmd)
    BY <1>1, <2>stop, StopKeeps
  <2>ticks. CASE \E count \in 0 .. 1 : Did("ticks", count)
    BY <1>1, <2>ticks, DidKeeps
  <2>info. CASE GetInfo
    <3>1. CASE Refuse(EFAULT)
      BY <1>1, <1>2, <3>1, RefuseKeeps
    <3>2. CASE /\ info' = FillInfo(info) /\ done' = done \cup {"info"}
               /\ ToUser([e EXCEPT !.result = 0])
      BY <1>1, <3>2, InfoKeeps
    <3> QED BY <2>info, <3>1, <3>2 DEF GetInfo
  <2>unknown. CASE Refuse(EINVAL)
    BY <1>1, <1>2, <2>unknown, RefuseKeeps
  <2> QED BY <1>5, <2>clear, <2>stop, <2>ticks, <2>info, <2>unknown DEF ioctl
<1>6. CASE Stop("exit")
  BY <1>1, <1>6, StopKeeps
<1> QED BY <1>3, <1>4, <1>5, <1>6 DEF effect_core_handler

\* A handler that passes changes nothing; the end of the chain is an error.
LEMMA PassKeeps ==
    ASSUME CallsInv, Pass
    PROVE  CallsInv'
<1>1. call_pc = "perform" /\ UNCHANGED <<machine, asked, info, done>>
  BY DEF Pass
<1>2. InfoRight'
  BY <1>1, StaysRight DEF CallsInv
<1>3. CASE ToUser([e EXCEPT !.error = ENOSYS])
  <2>1. done = {} /\ e = [result |-> 0, error |-> 0]
    BY <1>1 DEF CallsInv, CallInv
  <2>2. call_pc' = "user" /\ e'.error # 0
    BY <1>3, <2>1 DEF ToUser, ENOSYS
  <2>3. DoneOrRefused'
    BY <1>1, <2>1, <2>2, NoneDone
  <2> QED BY <1>1, <1>2, <2>2, <2>3
          DEF CallsInv, CallInv, Info, InfoSize, KernelAt, GpuAt, CpuAt
<1>4. CASE UNCHANGED <<call_pc, e>>
  BY <1>1, <1>2, <1>4
  DEF CallsInv, CallInv, DoneOrRefused, Info, InfoSize, KernelAt, GpuAt, CpuAt
<1> QED BY <1>3, <1>4 DEF Pass

\* int 0x80 clears the effect.
LEMMA SyscallKeeps ==
    ASSUME CallsInv, NEW r, Syscall(r)
    PROVE  CallsInv'
<1>1. /\ call_pc' = "perform" /\ UNCHANGED <<machine, info>> /\ done' = {}
      /\ e' = [result |-> 0, error |-> 0]
  BY DEF Syscall
<1>2. InfoRight'
  BY <1>1 DEF InfoRight
<1> QED BY <1>1, <1>2 DEF CallsInv, CallInv, DoneOrRefused, Info, InfoSize, KernelAt, GpuAt, CpuAt

\* Until the last handler is in the table there is no call.
LEMMA RegisterKeeps ==
    ASSUME CallsInv, effect_register
    PROVE  CallsInv'
<1>1. /\ call_pc = "boot" /\ call_pc' \in {"boot", "user"} /\ UNCHANGED <<machine, asked, e, info, done>>
  BY DEF effect_register
<1>2. InfoRight'
  BY <1>1, StaysRight DEF CallsInv
<1>3. asked.op = "NOP" /\ done = {}
  BY <1>1 DEF CallsInv, CallInv
<1> QED BY <1>1, <1>2, <1>3
        DEF CallsInv, CallInv, DoneOrRefused, Info, InfoSize, KernelAt, GpuAt, CpuAt

(* A call that comes back did one thing or carries an error, and after     *)
(* IOCTL_GET_INFO every field of struct sys_info holds the name it should, *)
(* whatever names the firmware and cpuid gave: CallsAnswered.              *)
THEOREM CallsAnsweredHolds ==
    ASSUME EffectsAssumption, TextsAssumption
    PROVE  EffectsSpec => []CallsAnswered
<1>1. ASSUME EffectsInit PROVE CallsInv
  BY <1>1, CallsInit
<1>2. ASSUME CallsInv, [EffectsNext]_effectVars PROVE CallsInv'
  <2>register. CASE effect_register
    BY <1>2, <2>register, RegisterKeeps
  <2>syscall. CASE \E r \in Requests : Syscall(r)
    BY <1>2, <2>syscall, SyscallKeeps
  <2>core. CASE effect_core_handler
    BY <1>2, <2>core, CoreKeeps
  <2>pass. CASE Pass
    BY <1>2, <2>pass, PassKeeps
  <2>stutter. CASE UNCHANGED effectVars
    BY <1>2, <2>stutter
    DEF effectVars, CallsInv, CallInv, DoneOrRefused, InfoRight, Info, InfoSize, KernelAt, GpuAt, CpuAt
  <2> QED BY <1>2, <2>register, <2>syscall, <2>core, <2>pass, <2>stutter DEF EffectsNext
<1>3. CallsInv => CallsAnswered
  BY DEF CallsInv, CallsAnswered
<1> QED BY <1>1, <1>2, <1>3, PTL DEF EffectsSpec

================================================================================
