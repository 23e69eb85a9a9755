--------------------------------- MODULE MCBoot --------------------------------
(***************************************************************************)
(* What the kernel does, once each, with what it finds when it starts: the *)
(* boot loader's tags, SMBIOS, ACPI, the LAPIC timer, the image of the     *)
(* shell, and the way to the keyboard.  These parts share no state: a      *)
(* behaviour is one of them on one input, and the variables of the others  *)
(* stay as they are at first, or 0, so that their properties hold too.     *)
(***************************************************************************)
EXTENDS Multiboot, Firmware, LapicTimer, Elf, KeyboardSearch, MCBootInputs

VARIABLE part

ASSUME DelayAssumption /\ HzAssumption /\ FilesAssumption
ASSUME LoadersAssumption /\ FirmwaresAssumption /\ PlatformsAssumption
ASSUME SystemsAssumption /\ DevicesAssumption

--------------------------------------------------------------------------------
(* The variables that a part has alone, and what the others leave alone.   *)

usbVars == <<pciVars, hidVars>>

\* A machine that plays no role counts as on.
NoLoader == tags = <<>> /\ loader_pc = "tags" /\ tag = 8 /\ g_mmap_buffer = <<>>
            /\ g_mb_info = 0 /\ mmap = 0 /\ total_ram = 0
NoSmbios == fw = EmptyFirmware /\ anchor = 1 /\ smbios_table = 0 /\ smbios_count = 0
            /\ smbios_pc = "init" /\ sm_type = 0 /\ sm_offset = 0 /\ sm_i = 0 /\ hdr = 1
            /\ str = 1 /\ nth = 0 /\ sm_ret = 0 /\ sm_top = 0
NoAcpi == platform = EmptyPlatform /\ acpi_pc = "rsdp" /\ rsdp = 1 /\ entry_size = 0
          /\ sdt = 0 /\ entry = 1 /\ dsdt_phys = 0 /\ pm1a_cnt_blk = "0" /\ slp_typa = 5
          /\ slp_typb = 5 /\ have_s5 = FALSE /\ is_qemu = FALSE /\ power = "on"
NoTimer == pc = "none" /\ phase = 0 /\ ticks = 0 /\ start = 0 /\ used = 0 /\ elapsed = 0
           /\ lvt = 0 /\ initial = 0 /\ cur = 0 /\ lapic_ticks = 0
NoUsb == sys = XhciSystem /\ type = 0 /\ bus = 0 /\ slot = 0 /\ func = 0 /\ pci_pc = "idle" /\ outDev = 0
         /\ cmd = 0 /\ bar = 0 /\ base = 0
         /\ dev = EmptyDevice /\ cfg = dev.bytes /\ hid_pc = "parts" /\ off = 0
         /\ in_hid_iface = FALSE /\ out_iface = 0 /\ out_ep = 0 /\ hid_top = 0
NoElf == file = EmptyFile /\ mem = Loaded0(file) /\ elf_pc = "start" /\ segment = 1
         /\ j = 0 /\ rip = 0

BootInit ==
    \/ part = "loader" /\ LoaderInit /\ NoSmbios /\ NoAcpi /\ NoTimer /\ NoUsb /\ NoElf
    \/ part = "smbios" /\ SmbiosInit /\ NoLoader /\ NoAcpi /\ NoTimer /\ NoUsb /\ NoElf
    \/ part = "acpi" /\ AcpiInit /\ NoLoader /\ NoSmbios /\ NoTimer /\ NoUsb /\ NoElf
    \/ part = "timer" /\ Init /\ NoLoader /\ NoSmbios /\ NoAcpi /\ NoUsb /\ NoElf
    \/ part = "elf" /\ ElfInit /\ NoLoader /\ NoSmbios /\ NoAcpi /\ NoTimer /\ NoUsb
    \/ /\ part = "usb" /\ NoLoader /\ NoSmbios /\ NoAcpi /\ NoTimer /\ NoElf
       /\ \/ sys = XhciSystem /\ PciInit /\ HidInit
          \/ dev = EmptyDevice /\ HidInit /\ PciInit

BootNext ==
    /\ UNCHANGED part
    /\ \/ part = "loader" /\ LoaderNext
          /\ UNCHANGED <<smbiosVars, acpiVars, vars, elfVars, usbVars>>
       \/ part = "smbios" /\ SmbiosNext
          /\ UNCHANGED <<loaderVars, acpiVars, vars, elfVars, usbVars>>
       \/ part = "acpi" /\ AcpiNext
          /\ UNCHANGED <<loaderVars, smbiosVars, vars, elfVars, usbVars>>
       \/ part = "timer" /\ Next
          /\ UNCHANGED <<loaderVars, smbiosVars, acpiVars, elfVars, usbVars>>
       \/ part = "elf" /\ ElfNext
          /\ UNCHANGED <<loaderVars, smbiosVars, acpiVars, vars, usbVars>>
       \/ part = "usb" /\ SearchNext
          /\ (dev # EmptyDevice => type' = "Xhci")   \* only it has a driver behind it
          /\ UNCHANGED <<loaderVars, smbiosVars, acpiVars, vars, elfVars>>

bootVars == <<part, loaderVars, smbiosVars, acpiVars, vars, elfVars, usbVars>>

\* The fairness of the parts: a call that is begun goes on, time passes and
\* the counters count.
BootSpec ==
    /\ BootInit /\ [][BootNext]_bootVars
    /\ WF_vars(part = "timer" /\ lapic_timer_init) /\ WF_vars(part = "timer" /\ Tick)
    /\ WF_vars(part = "timer" /\ CountDown)
    /\ WF_acpiVars(part = "acpi" /\ Ending)
    /\ WF_hidVars(part = "usb" /\ Walk)

--------------------------------------------------------------------------------
(* What is waited for comes: the calibration against the PIT, the end of a *)
(* walk over descriptors of any length, the reset whatever the keyboard    *)
(* controller does, and power off on the machines whose ports are known.   *)
CallsEnd == CalibrationEnds /\ WalkEnds /\ RebootResets /\ EmulatorsPowerOff
================================================================================
