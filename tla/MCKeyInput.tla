------------------------------ MODULE MCKeyInput ------------------------------
(***************************************************************************)
(* KeyInput on a ring of two or three cells.  The characters are           *)
(* interchangeable.                                                        *)
(***************************************************************************)
EXTENDS KeyInput, TLC

CharSymmetry == Permutations(Chars)
===============================================================================
