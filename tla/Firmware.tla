------------------------------- MODULE Firmware --------------------------------
(***************************************************************************)
(* What the kernel asks the firmware for when it starts: smbios_init and   *)
(* acpi_init, one after the other, which share no state.                   *)
(***************************************************************************)
EXTENDS Smbios, Acpi

(* The firmware's tables are read as they are meant: the vendor and name   *)
(* of the board, which the answer to IOCTL_GET_INFO is made of, are those  *)
(* that SMBIOS states, and acpi_init ends with the sleep types that the    *)
(* ACPI tables state.  acpi_shutdown does not use these.                   *)
FirmwareRead == BoardNamed /\ SleepTypesRead
================================================================================
