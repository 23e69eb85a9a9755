-------------------------------- MODULE MCXhci --------------------------------
(* Xhci on rings of three entries, one of them the link. *)
EXTENDS Xhci, TLC
===============================================================================
