--------------------------------- MODULE PciScan -------------------------------
(***************************************************************************)
(* drivers/pci.cpp and the first half of usb_init (drivers/usb.cpp): the   *)
(* search of the PCI functions for a device, the decoding of its base      *)
(* address, and what usb_init makes of it.  A 32-bit register is a number  *)
(* below Word; the 64-bit base address is below Word squared.              *)
(***************************************************************************)
EXTENDS Integers

CONSTANTS
    Buses, Slots, Funcs,    \* 256, 32 and 8 in the code
    Word,                   \* 2^32 in the code
    PageSize,
    Systems                 \* what the functions of a machine answer

Sites == (0 .. Buses - 1) \X (0 .. Slots - 1) \X (0 .. Funcs - 1)

Register == 0 .. Word - 1
Functions ==
    [vendor : Nat, device : Nat, class : Nat, subclass : Nat, progIf : Nat,
     multi : BOOLEAN, bar0 : Register, bar1 : Register]

\* A read of a place without a device gives all ones.
Absent == [vendor |-> 65535, device |-> 65535, class |-> 255, subclass |-> 255,
           progIf |-> 255, multi |-> TRUE, bar0 |-> Word - 1, bar1 |-> Word - 1]

\* A read of 65535 for the vendor tells that there is none: it is no vendor's.
SystemsAssumption ==
    /\ {Buses, Slots, Funcs, Word, PageSize} \subseteq Nat \ {0}
    /\ \A s \in Systems : /\ s \in [Sites -> Functions]
                          /\ \A x \in Sites : s[x].vendor = 65535 => s[x] = Absent

VARIABLES
    sys,                    \* [Places -> answers]
    type,                   \* the parameter of findPciDevice
    bus, slot, func,
    pci_pc,
    outDev,
    cmd,                    \* [Places -> the bits set in the command register]
    bar,                    \* usb_init's
    base                    \* the address that the driver is started at

pciVars == <<sys, type, bus, slot, func, pci_pc, outDev, cmd, bar, base>>

--------------------------------------------------------------------------------
(* The devices (external).  A function is [vendor, device, class, subclass,*)
(* progIf, multi, bar0, bar1]; a device with one function answers for it   *)
(* whatever the function number.                                           *)

readConfig(b, s, f) ==
    LET zero == sys[<<b, s, 0>>]
    IN  IF ~zero.multi THEN zero ELSE sys[<<b, s, f>>]

--------------------------------------------------------------------------------
(* findPciDevice *)

lookup_table ==
    [Xhci |-> [by_class |-> TRUE, class |-> 12, subclass |-> 3],
     Ehci |-> [by_class |-> TRUE, class |-> 12, subclass |-> 3],
     Ahci |-> [by_class |-> TRUE, class |-> 1, subclass |-> 6],
     Nvme |-> [by_class |-> TRUE, class |-> 1, subclass |-> 8],
     IntelE1000 |-> [by_class |-> FALSE, vendor |-> 32902, device |-> 4110]]

AnyInterface(c) == TRUE
InterfaceFits(c) ==
    /\ type = "Xhci" => c.progIf = 48
    /\ type = "Ehci" => c.progIf = 32

is_match(c) ==
    LET sig == lookup_table[type]
    IN  IF sig.by_class
        THEN c.class = sig.class /\ c.subclass = sig.subclass /\ InterfaceFits(c)
        ELSE c.vendor = sig.vendor /\ c.device = sig.device

\* The last bits of a base address register: 1 is I/O space, 4 a 64-bit base.
IsIo(b)   == b % 2 = 1
Is64(b)   == (b \div 2) % 4 = 2
Low(b, n) == b - (b % n)

Decode32(c) == IF IsIo(c.bar0) THEN Low(c.bar0, 4) ELSE Low(c.bar0, 16)
mmio_base(c) ==
    IF IsIo(c.bar0) THEN Low(c.bar0, 4)
    ELSE Low(c.bar0, 16) + (IF Is64(c.bar0) THEN c.bar1 * Word ELSE 0)

findPciDevice(t) ==
    /\ pci_pc = "idle"
    /\ type' = t
    /\ bus' = 0 /\ slot' = 0 /\ func' = 0
    /\ pci_pc' = "scan"
    /\ UNCHANGED <<sys, outDev, cmd, bar, base>>

\* The function after this one: the next of the slot, or the first of the next.
NextSlot ==
    /\ func' = 0
    /\ slot' = (slot + 1) % Slots
    /\ bus' = IF slot + 1 = Slots THEN bus + 1 ELSE bus
    /\ UNCHANGED <<pci_pc, outDev>>

NextFunc ==
    IF func + 1 = Funcs THEN NextSlot
    ELSE func' = func + 1 /\ UNCHANGED <<bus, slot, pci_pc, outDev>>

ScanFunction ==
    LET c == readConfig(bus, slot, func)
    IN  /\ pci_pc = "scan" /\ bus < Buses
        /\ IF readConfig(bus, slot, 0).vendor = 65535 \/ (func > 0 /\ ~readConfig(bus, slot, 0).multi)
           THEN NextSlot
           ELSE IF c.vendor = 65535 \/ ~is_match(c)
           THEN NextFunc
           ELSE /\ outDev' = [place |-> <<bus, slot, func>>, vendor |-> c.vendor,
                              device |-> c.device, mmio_base |-> mmio_base(c)]
                /\ pci_pc' = "found"
                /\ UNCHANGED <<bus, slot, func>>
        /\ UNCHANGED <<sys, type, cmd, bar, base>>

NotFound ==
    /\ pci_pc = "scan" /\ bus = Buses
    /\ pci_pc' = "none"
    /\ UNCHANGED <<sys, type, bus, slot, func, outDev, cmd, bar, base>>

--------------------------------------------------------------------------------
(* usb_init, after the search for an xHCI controller *)

EnableDevice ==
    /\ pci_pc = "found" /\ type = "Xhci"
    /\ cmd' = [cmd EXCEPT ![outDev.place] = @ \cup {"io", "memory", "master"}]
    /\ pci_pc' = "bar"
    /\ UNCHANGED <<sys, type, bus, slot, func, outDev, bar, base>>

Give32(c) == Low(c.bar0, 16)
pci_read_bar64(c) ==
    IF IsIo(c.bar0) THEN Low(c.bar0, 4)
    ELSE IF Is64(c.bar0) THEN c.bar1 * Word + Low(c.bar0, 16)
    ELSE Low(c.bar0, 16)

ReadBar ==
    LET c == readConfig(outDev.place[1], outDev.place[2], outDev.place[3])
    IN  /\ pci_pc = "bar"
        /\ bar' = pci_read_bar64(c)
        /\ pci_pc' = IF bar' = 0 \/ IsIo(c.bar0) THEN "none" ELSE "map"
        /\ UNCHANGED <<sys, type, bus, slot, func, outDev, cmd, base>>

\* The pages around the registers are mapped one to one (module Vmm), and the
\* driver is started at the base address.
StartDriver ==
    LET phys_page_start == Low(bar, PageSize)
    IN  /\ pci_pc = "map"
        /\ base' = phys_page_start + (bar % PageSize)
        /\ pci_pc' = "run"
        /\ UNCHANGED <<sys, type, bus, slot, func, outDev, cmd, bar>>

PciInit ==
    /\ sys \in Systems
    /\ type = "Xhci" /\ bus = 0 /\ slot = 0 /\ func = 0
    /\ pci_pc = "idle"
    /\ outDev = [place |-> <<0, 0, 0>>, vendor |-> 0, device |-> 0, mmio_base |-> 0]
    /\ cmd = [x \in Sites |-> {"io"}]
    /\ bar = 0 /\ base = 0

PciNext ==
    \/ \E t \in DOMAIN lookup_table : findPciDevice(t)
    \/ ScanFunction \/ NotFound \/ EnableDevice \/ ReadBar \/ StartDriver

PciSpec == PciInit /\ [][PciNext]_pciVars

--------------------------------------------------------------------------------
(* Properties *)

Wanted(c) ==
    CASE type = "Xhci" -> c.class = 12 /\ c.subclass = 3 /\ c.progIf = 48
      [] type = "Ehci" -> c.class = 12 /\ c.subclass = 3 /\ c.progIf = 32
      [] type = "Ahci" -> c.class = 1 /\ c.subclass = 6
      [] type = "Nvme" -> c.class = 1 /\ c.subclass = 8
      [] type = "IntelE1000" -> c.vendor = 32902 /\ c.device = 4110

\* The functions that exist: a function zero, and the others of a device that
\* says it has several.
Exists(x) ==
    /\ sys[x] # Absent /\ sys[<<x[1], x[2], 0>>] # Absent
    /\ x[3] > 0 => sys[<<x[1], x[2], 0>>].multi

Matches == {x \in Sites : Exists(x) /\ Wanted(sys[x])}
Rank(x) == (x[1] * Slots + x[2]) * Funcs + x[3]

(* The search returns the first function in the order of bus, slot and     *)
(* function that is of the type, and fails only when there is none: behind *)
(* other controllers of the class with another interface, behind holes in  *)
(* the function numbers, and past devices of one function that answer for  *)
(* all eight numbers.                                                      *)
FindsFirst ==
    /\ pci_pc = "found" => /\ outDev.place \in Matches
                       /\ \A x \in Matches : Rank(outDev.place) <= Rank(x)
    /\ pci_pc = "none" /\ bus = Buses => Matches = {}

(* The driver runs only on a controller whose memory and bus mastering are *)
(* enabled, at its own base address in all its 64 bits, the one the search *)
(* reported, and never on an I/O port or on address zero.                  *)
RunsAtBase ==
    pci_pc = "run" =>
        LET c == sys[outDev.place]
        IN  /\ {"memory", "master"} \subseteq cmd[outDev.place]
            /\ ~IsIo(c.bar0) /\ base > 0
            /\ base = (c.bar0 \div 16) * 16 + (IF (c.bar0 % 8) \div 2 = 2 THEN Word * c.bar1 ELSE 0)
            /\ base = outDev.mmio_base
            /\ \A x \in Sites \ {outDev.place} : cmd[x] = {"io"}
================================================================================
