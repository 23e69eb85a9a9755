------------------------------- MODULE TextScreen ------------------------------
(***************************************************************************)
(* What a terminal promises: a grid of characters and a cursor that never  *)
(* leaves it.  Text wraps at the right edge and scrolls at the bottom.     *)
(* A backspace rubs out the character before the cursor; in the first      *)
(* column it may go up to the end of the row above or stay where it is.    *)
(***************************************************************************)
EXTENDS Integers

CONSTANTS Chars, Blank

VARIABLES size, grid, row, col

Rows == size[1]
Cols == size[2]

Cells == (0 .. Rows - 1) \X (0 .. Cols - 1)

Clear == /\ grid' = [cell \in Cells |-> Blank]
         /\ row' = 0 /\ col' = 0

\* The cursor moves to the start of the next row over the grid g.
NextRow(g) ==
    IF row < Rows - 1
    THEN grid' = g /\ row' = row + 1 /\ col' = 0
    ELSE /\ grid' = [cell \in Cells |->
                        IF cell[1] = Rows - 1 THEN Blank ELSE g[<<cell[1] + 1, cell[2]>>]]
         /\ row' = row /\ col' = 0

Newline == NextRow(grid)

Put(ch) ==
    LET g == [grid EXCEPT ![<<row, col>>] = ch]
    IN  IF col = Cols - 1 THEN NextRow(g)
        ELSE grid' = g /\ col' = col + 1 /\ UNCHANGED row

RubOut(r, c) == /\ row' = r /\ col' = c
                /\ grid' = [grid EXCEPT ![<<r, c>>] = Blank]

Backspace ==
    \/ col > 0 /\ RubOut(row, col - 1)
    \/ col = 0 /\ RubOut(row, 0)
    \/ col = 0 /\ row > 0 /\ RubOut(row - 1, Cols - 1)

Init == grid = [cell \in Cells |-> Blank] /\ row = 0 /\ col = 0

Next == /\ Clear \/ Newline \/ Backspace \/ \E ch \in Chars : Put(ch)
        /\ UNCHANGED size

Spec == Init /\ [][Next]_<<size, grid, row, col>>
================================================================================
