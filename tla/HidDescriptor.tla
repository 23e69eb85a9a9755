------------------------------ MODULE HidDescriptor ----------------------------
(***************************************************************************)
(* find_hid_keyboard of drivers/usb.cpp and its use in setup_keyboard: the *)
(* walk over the configuration that a device returned, for the interrupt   *)
(* endpoint of a boot keyboard.  ctrl_buf keeps what was in it behind the  *)
(* bytes received, and the total length is read there, received or not.    *)
(***************************************************************************)
EXTENDS Integers, Sequences

CONSTANTS
    Request,    \* bytes asked for (256)
    Stale,      \* ctrl_buf before the request: the device descriptor is in it
    Devices     \* [parts : its descriptors, each a sequence of bytes,
                \*  starts : where each begins in bytes, and where the last ends,
                \*  bytes : all of them, sent : how many of them it sends at most]

\* ctrl_buf has room for what is asked for, and the descriptors follow one another.
DevicesAssumption ==
    /\ Request \in Nat /\ Request >= 4
    /\ Stale \in Seq(0 .. 255) /\ Request <= Len(Stale)
    /\ \A d \in Devices :
          /\ d.parts \in Seq(Seq(0 .. 255)) /\ d.bytes \in Seq(0 .. 255) /\ d.sent \in Nat
          /\ d.starts \in [1 .. Len(d.parts) + 1 -> Nat]
          /\ d.starts[1] = 0 /\ d.starts[Len(d.parts) + 1] = Len(d.bytes)
          /\ \A k \in DOMAIN d.parts :
                /\ d.starts[k + 1] = d.starts[k] + Len(d.parts[k])
                /\ \A x \in 1 .. Len(d.parts[k]) : d.bytes[d.starts[k] + x] = d.parts[k][x]

VARIABLES
    dev,        \* the device
    cfg,        \* ctrl_buf
    hid_pc,     \* "parts", "found" or "none"
    off, in_hid_iface,
    out_iface, out_ep,
    hid_top     \* ghost: bytes of ctrl_buf read, from the first

hidVars == <<dev, cfg, hid_pc, off, in_hid_iface, out_iface, out_ep, hid_top>>

\* A device sends no more than it has and than is asked for, and may break off.
Smaller(n, k)  == IF n < k THEN n ELSE k
Received(d) == SubSeq(d.bytes, 1, Smaller(d.sent, Smaller(Len(d.bytes), Request)))

Ctrl(k) == cfg[k + 1]

\* Bytes of the device descriptor, if the answer is shorter than four bytes.
total == Ctrl(2) + 256 * Ctrl(3)

Raise(n) == hid_top' = IF n > hid_top THEN n ELSE hid_top

--------------------------------------------------------------------------------
(* find_hid_keyboard *)

HeadFits == off + 2 <= total

IsKeyboard == Ctrl(off + 5) = 3 /\ Ctrl(off + 6) = 1 /\ Ctrl(off + 7) = 1

KeepsHid ==
    /\ off + 9 <= total /\ Ctrl(off + 1) = 4
    /\ in_hid_iface' = (in_hid_iface \/ IsKeyboard)
    /\ out_iface' = IF IsKeyboard THEN Ctrl(off + 2) ELSE out_iface
    /\ off' = off + Ctrl(off)
    /\ Raise(off + 9)
    /\ UNCHANGED <<hid_pc, out_ep>>

Interface ==
    /\ off + 9 <= total /\ Ctrl(off + 1) = 4
    /\ in_hid_iface' = IsKeyboard
    /\ out_iface' = IF IsKeyboard THEN Ctrl(off + 2) ELSE out_iface
    /\ off' = off + Ctrl(off)
    /\ Raise(off + 9)
    /\ UNCHANGED <<hid_pc, out_ep>>

IsInterruptIn == Ctrl(off + 3) % 4 = 3 /\ Ctrl(off + 2) >= 128

EndpointAnywhere == Ctrl(off + 1) = 5 /\ in_hid_iface
IsEndpoint == Ctrl(off + 1) = 5 /\ off + 7 <= total /\ in_hid_iface

Endpoint ==
    /\ IsEndpoint
    /\ IF IsInterruptIn
       THEN /\ out_ep' = [addr |-> Ctrl(off + 2), mps |-> Ctrl(off + 4) + 256 * Ctrl(off + 5),
                          interval |-> Ctrl(off + 6)]
            /\ hid_pc' = "found" /\ UNCHANGED off
       ELSE off' = off + Ctrl(off) /\ UNCHANGED <<hid_pc, out_ep>>
    /\ Raise(off + 7)
    /\ UNCHANGED <<in_hid_iface, out_iface>>

OtherPart ==
    /\ ~IsEndpoint /\ (Ctrl(off + 1) = 4 => off + 9 > total)
    /\ off' = off + Ctrl(off)
    /\ Raise(off + 2)
    /\ UNCHANGED <<hid_pc, in_hid_iface, out_iface, out_ep>>

NeverZero == FALSE
ZeroLength == HeadFits /\ Ctrl(off) = 0

WalkPart ==
    /\ hid_pc = "parts" /\ HeadFits /\ ~ZeroLength
    /\ Interface \/ Endpoint \/ OtherPart
    /\ UNCHANGED <<dev, cfg>>

EndOfWalk ==
    /\ hid_pc = "parts" /\ (HeadFits => ZeroLength)
    /\ hid_pc' = "none"
    /\ UNCHANGED <<dev, cfg, off, in_hid_iface, out_iface, out_ep, hid_top>>

HidInit ==
    /\ dev \in Devices
    /\ cfg = Received(dev) \o SubSeq(Stale, Len(Received(dev)) + 1, Len(Stale))
    /\ hid_pc = "parts" /\ off = 0 /\ in_hid_iface = FALSE
    /\ out_iface = 0 /\ out_ep = [addr |-> 0, mps |-> 0, interval |-> 0]
    /\ hid_top = 0

HidNext == WalkPart \/ EndOfWalk

HidSpec == HidInit /\ [][HidNext]_hidVars

--------------------------------------------------------------------------------
(* Properties *)

\* A configuration that came whole, of the length that it states, of descriptors
\* as long as they state and as their kind is at least.
WellFormed(p) == /\ Len(p) >= 2 /\ p[1] = Len(p)
                 /\ p[2] = 4 => Len(p) >= 9
                 /\ p[2] = 5 => Len(p) >= 7
Whole == /\ Received(dev) = dev.bytes /\ total = Len(dev.bytes)
         /\ \A k \in DOMAIN dev.parts : WellFormed(dev.parts[k])

\* The endpoint k belongs to the interface h: no other interface is between.
Interfaces == {k \in DOMAIN dev.parts : dev.parts[k][2] = 4}
Belongs(k, h) == h < k /\ \A g \in Interfaces : g <= h \/ g > k
Keyboards == {h \in Interfaces : dev.parts[h][6] = 3 /\ dev.parts[h][7] = 1 /\ dev.parts[h][8] = 1}
Suitable(k) == dev.parts[k][2] = 5 /\ dev.parts[k][4] % 4 = 3 /\ dev.parts[k][3] >= 128
Pairs == {x \in (DOMAIN dev.parts) \X Keyboards : Suitable(x[1]) /\ Belongs(x[1], x[2])}

(* Of a whole configuration the walk returns the first interrupt endpoint  *)
(* towards the host of an interface that is a boot keyboard, together with *)
(* the number of that very interface, and none exactly when there is none. *)
FindsKeyboard ==
    Whole =>
        /\ hid_pc = "none" => Pairs = {}
        /\ hid_pc = "found" =>
              \E x \in Pairs :
                  /\ \A y \in Pairs : x[1] <= y[1]
                  /\ out_iface = dev.parts[x[2]][3]
                  /\ out_ep.addr = dev.parts[x[1]][3]
                  /\ out_ep.mps = dev.parts[x[1]][5] + 256 * dev.parts[x[1]][6]

(* When the total length in ctrl_buf is no more than what was received,    *)
(* even if that breaks off in the middle of a descriptor, no byte of an    *)
(* earlier transfer is read.  The code does not check this: of a device    *)
(* that states more than it returned, or returned fewer than the four      *)
(* bytes with the total length in them, it reads what the device           *)
(* descriptor left in ctrl_buf, and nothing is claimed of it.              *)
ReadsReceived == total <= Len(Received(dev)) => hid_top <= Len(Received(dev))
================================================================================
