----------------------------- MODULE KeyboardSearch ----------------------------
(***************************************************************************)
(* The way to the keyboard in usb_init: the controller is searched for and *)
(* started, then setup_keyboard looks for the endpoint in the              *)
(* configuration of a device on it.                                        *)
(***************************************************************************)
EXTENDS PciScan, HidDescriptor

searchVars == <<pciVars, hidVars>>

SearchInit == PciInit /\ HidInit

\* The device answers only once its controller runs.
Walk == pci_pc = "run" /\ HidNext

SearchNext ==
    \/ PciNext /\ UNCHANGED hidVars
    \/ Walk /\ UNCHANGED pciVars

SearchSpec == SearchInit /\ [][SearchNext]_searchVars /\ WF_hidVars(Walk)

--------------------------------------------------------------------------------
(* Properties *)

(* The first controller of the right kind, at its own base address, and on *)
(* it the first endpoint of a boot keyboard.  A configuration whose total  *)
(* length is in what was received, and no more than that, is not judged by *)
(* bytes of an earlier transfer; others are (see ReadsReceived).           *)
KeyboardFound == FindsFirst /\ RunsAtBase /\ FindsKeyboard /\ ReadsReceived

(* The walk ends, for descriptors of any length, also of length zero.      *)
WalkEnds == pci_pc = "run" /\ hid_pc = "parts" ~> hid_pc # "parts"
================================================================================
