-------------------------------- MODULE MCTraps --------------------------------
(* The PIT, the keyboard, a spurious line and the USB controller. *)
EXTENDS Traps

AllExceptions == 0 .. 31
SomeInts      == {3, 32, 33, 64, 128, 200}
================================================================================
