------------------------------ MODULE MCBootInputs -----------------------------
(***************************************************************************)
(* What the kernel finds when it starts: the boot loader's tags, the       *)
(* tables of the firmware, the devices on the bus, the image of the shell  *)
(* and the descriptors of a keyboard.                                      *)
(***************************************************************************)
EXTENDS Integers, Sequences, SequencesExt

--------------------------------------------------------------------------------
(* Up to three tags of every kind and of lengths that need padding or not, *)
(* maps with entries of 24 and 32 bytes, more entries than fit, and a list *)
(* with or without an end tag.                                             *)

Region(a, n, t) == [addr |-> a, len |-> n, type |-> t]
MapTag(s, es) == [type |-> "mmap", size |-> 16 + s * Len(es), entry_size |-> s, entries |-> es]

SmallMaps == {<<>>, <<Region(0, 1, 1)>>, <<Region(0, 1, 1), Region(1, 2, 2)>>,
         <<Region(8, 4, 1), Region(12, 8, 1), Region(30, 16, 2)>>}

BootTags ==
    {[type |-> "basic", size |-> 16, mem_upper |-> m] : m \in {1, 2}}
    \cup {[type |-> "loader", size |-> s] : s \in {9, 16}}
    \cup {[type |-> "framebuffer", size |-> s, screen |-> s] : s \in {36, 32}}
    \cup {[type |-> "other", size |-> s] : s \in {8, 12}}
    \cup {MapTag(24, es) : es \in SmallMaps} \cup {MapTag(32, es) : es \in {m \in SmallMaps : Len(m) > 1}}

EndTags == {<<>>, <<[type |-> "end", size |-> 8]>>}

SmallLoaders ==
    {s \o e : s \in UNION {[1 .. n -> BootTags] : n \in 0 .. 3}, e \in EndTags}

--------------------------------------------------------------------------------
(* SMBIOS tables of two structures, the board among them, and the end      *)
(* marker; the entry point comes after slots that only look like one, or   *)
(* not at all.                                                             *)

Struct(t, d, s) == [type |-> t, data |-> d, strings |-> s]

Structures ==
    {Struct(1, <<>>, <<>>), Struct(1, <<0, 0, 0>>, << <<9>> >>), Struct(127, <<>>, <<>>)}
    \cup {Struct(2, d, s) : d \in {<<>>, <<1>>, <<1, 2>>, <<2, 1>>, <<0, 3>>},
                       s \in {<<>>, << <<7>> >>, << <<7, 8>>, <<5>> >>, << <<1>> >>}}

EndStruct == Struct(127, <<>>, <<>>)

Anchor(s, l, c, a, num) ==
    [sig |-> s, length |-> l, sum |-> c, address |-> a, count |-> num]
FalseAnchors ==
    <<Anchor(FALSE, 31, 0, 8, 3), Anchor(TRUE, 31, 1, 8, 3),
      Anchor(TRUE, 30, 0, 8, 3), Anchor(TRUE, 31, 0, 3, 3)>>

Terminated(ss) == FlattenSeq([k \in DOMAIN ss |-> ss[k] \o <<0>>])

EncodeStruct(s) ==
    <<s.type, 4 + Len(s.data), 0, 0>> \o s.data
    \o (IF s.strings = <<>> THEN <<0, 0>> ELSE Terminated(s.strings) \o <<0>>)

Firmware(sl, t) ==
    LET upto(k) == FlattenSeq([x \in 1 .. k |-> EncodeStruct(t[x])])
        start   == [k \in 1 .. Len(t) + 1 |-> 1 + Len(upto(k - 1))]
    IN  [slots |-> sl, table |-> t, bytes |-> upto(Len(t)), starts |-> start,
         heads |-> [k \in DOMAIN t |->
                      [x \in 1 .. Len(t[k].strings) + 1 |->
                         start[k] + 4 + Len(t[k].data) + Len(Terminated(SubSeq(t[k].strings, 1, x - 1)))]]]

SmallFirmwares ==
    {Firmware(Append(FalseAnchors, Anchor(TRUE, 31, 0, 8, num)), <<a, b, EndStruct>>) :
        a, b \in Structures, num \in {1, 3, 5}}
    \cup {Firmware(FalseAnchors, <<EndStruct>>)}

\* A machine without an entry point.
EmptyFirmware == Firmware(<<>>, <<EndStruct>>)

--------------------------------------------------------------------------------
(* ACPI: one SSDT and a DSDT, whole or cut, a root pointer behind slots    *)
(* that only look like one, and each state of the keyboard controller.     *)

Num(f, n) == [form |-> f, low |-> n]

\* Byte code: a name object with a package of integers, a mere reference to
\* the name, or something else.
Name(sz, s) == [kind |-> "name", size |-> sz, ints |-> s]
Ref == [kind |-> "ref"]
Other == [kind |-> "other"]

EncodeInt(v) ==
    CASE v.form = "const" -> <<v.low>>
      [] v.form = "byte"  -> <<10, v.low>>
      [] v.form = "word"  -> <<11, v.low, 0>>
      [] v.form = "dword" -> <<12, v.low, 0, 0, 0>>
      [] v.form = "qword" -> <<14, v.low, 0, 0, 0, 0, 0, 0, 0>>

EncodeTerm(t) ==
    CASE t.kind = "name"  -> <<8, 95, 83, 53, 95, 18, 64 * (t.size - 1)>> \o [k \in 1 .. t.size - 1 |-> 0]
                             \o <<Len(t.ints)>> \o FlattenSeq([k \in DOMAIN t.ints |-> EncodeInt(t.ints[k])])
      [] t.kind = "ref"   -> <<95, 83, 53, 95>>
      [] t.kind = "other" -> <<16>>

Aml(sig, terms, cut) ==
    LET upto(k) == FlattenSeq([x \in 1 .. k |-> EncodeTerm(terms[x])])
        all     == upto(Len(terms))
    IN  [sig |-> sig, terms |-> terms, starts |-> [k \in DOMAIN terms |-> Len(upto(k - 1))],
         cut |-> cut, code |-> SubSeq(all, 1, Len(all) - cut)]

Zeros == <<Num("const", 0), Num("const", 0)>>
Packs ==
    {<<Num("byte", 5), Num("const", 0)>> \o Zeros, <<Num("const", 1), Num("word", 7)>>,
     <<Num("dword", 6), Num("byte", 6)>> \o Zeros, <<Num("qword", 3), Num("const", 255)>>, Zeros}

AmlTerms == {<<Other>>, <<Ref, Other, Ref>>, <<Name(1, <<Num("byte", 4)>>), Name(2, <<Num("byte", 5), Num("byte", 2)>>)>>}
         \cup {<<Ref, Name(sz, s)>> : sz \in 1 .. 4, s \in Packs}

\* Of two tables one is any, and one states nothing, the default, or types.
Bodies == {<<Other>>, <<Name(1, Zeros)>>, <<Name(1, <<Num("byte", 3), Num("word", 4)>>)>>}
TwoBodies  == AmlTerms \X Bodies \cup Bodies \X AmlTerms

RootTable(s, l, e) == [sig |-> s, oem |-> "BOCHS", length |-> l, entries |-> e]
Facp(l, d, x) == [sig |-> "FACP", long |-> l, dsdt |-> d, x_dsdt |-> x, pm1a |-> "0x604"]
Rsdp(g, s, r, rs, xs) == [sig |-> g, sum |-> s, revision |-> r, rsdt |-> rs, xsdt |-> xs]

Tables(ss, sc, ds, dc, f) ==
    [a \in 1 .. 6 |->
        CASE a = 1 -> RootTable("RSDT", 8, <<3, 4>>)
          [] a = 2 -> RootTable("XSDT", 24, <<4, 3, 6>>)
          [] a = 3 -> Aml("SSDT", ss, sc)
          [] a = 4 -> f
          [] a = 5 -> Aml("DSDT", ds, dc)
          [] a = 6 -> Aml("SSDT", <<Name(1, <<Num("byte", 9), Num("byte", 8)>>)>>, 0)]

Machine(e, b, t, p, c, y, k, u) ==
    [ebda |-> e, bios |-> b, tables |-> t, past |-> p, cnt |-> c, typ |-> y, kbc |-> k, pulses |-> u]

FalsePointers == <<Rsdp(FALSE, 0, 0, 5, 0), Rsdp(TRUE, 1, 0, 5, 0)>>
NoS5 == <<Other>>

SmallPlatforms ==
    {Machine(<<>>, Append(FalsePointers, Rsdp(TRUE, 0, 0, 1, 2)), Tables(t[1], 0, t[2], 0, Facp(TRUE, 3, 5)), 0, "0x604", 0, "idle", TRUE) :
        t \in TwoBodies}
    \cup {Machine(<<r>>, FalsePointers, Tables(ss, 0, ds, 0, f), 0, "0xB004", 0, "late", FALSE) :
        r \in {Rsdp(TRUE, 0, 2, 1, 2), Rsdp(TRUE, 0, 2, 1, 0), Rsdp(TRUE, 0, 1, 5, 2)}, ss \in AmlTerms, ds \in Bodies,
        f \in {Facp(FALSE, 5, 3), Facp(TRUE, 5, 0), Facp(TRUE, 3, 5)}}
    \cup {Machine(FalsePointers, <<>>, Tables(NoS5, 0, NoS5, 0, Facp(TRUE, 5, 5)), 0, "0x1804", 5, k, u) :
        k \in {"idle", "late", "stuck"}, u \in BOOLEAN}
    \cup {Machine(<<>>, <<Rsdp(TRUE, 0, 0, 1, 0)>>, Tables(ss, sc, NoS5, 0, Facp(TRUE, 5, 5)), p, "0x604", 0, "stuck", FALSE) :
        ss \in AmlTerms, sc \in 0 .. 12, p \in {0, 192}}

\* A machine without tables.
EmptyPlatform == Machine(<<>>, <<>>, <<>>, 0, "0x1804", 5, "idle", TRUE)

--------------------------------------------------------------------------------
(* Two buses of two slots of three functions: one slot holds any device of *)
(* several functions, the others a device of one function or nothing.      *)

NoDevice == [vendor |-> 65535, device |-> 65535, class |-> 255, subclass |-> 255,
             progIf |-> 255, multi |-> TRUE, bar0 |-> 255, bar1 |-> 255]

Function(c, s, p, m, b0, b1) ==
    [vendor |-> 6900, device |-> 1, class |-> c, subclass |-> s, progIf |-> p,
     multi |-> m, bar0 |-> b0, bar1 |-> b1]
Nic == [Function(2, 0, 0, FALSE, 1, 0) EXCEPT !.vendor = 32902, !.device = 4110]

Ehci == Function(12, 3, 32, TRUE, 16, 0)
Singles == {NoDevice, Nic, Function(1, 6, 1, FALSE, 32, 0), Function(12, 3, 48, FALSE, 20, 3)}
Controllers ==
    {NoDevice, Nic, Ehci, Function(1, 8, 2, TRUE, 0, 0)}
    \cup {Function(12, 3, 48, TRUE, b0, b1) : b0 \in {0, 4, 17, 32, 44, 84}, b1 \in {0, 2}}
Seconds == {NoDevice, Nic, Ehci, Function(12, 3, 48, TRUE, 32, 2), Function(12, 3, 48, TRUE, 84, 2)}

SmallSystems ==
    {[x \in (0 .. 1) \X (0 .. 1) \X (0 .. 2) |->
        IF x[1] = 0 /\ x[2] = 1
        THEN (CASE x[3] = 0 -> a [] x[3] = 1 -> NoDevice [] x[3] = 2 -> b)
        ELSE IF x[3] > 0 THEN NoDevice
        ELSE IF x = <<0, 0, 0>> THEN c ELSE IF x = <<1, 0, 0>> THEN d ELSE NoDevice] :
        a \in Controllers, b \in Seconds, c, d \in Singles}

\* One of them, with an xHCI controller.
XhciSystem ==
    [x \in (0 .. 1) \X (0 .. 1) \X (0 .. 2) |->
        IF x = <<0, 1, 0>> THEN Function(12, 3, 48, TRUE, 44, 2) ELSE NoDevice]

--------------------------------------------------------------------------------
(* ELF images of five bytes at 8, with up to three program headers that    *)
(* may overlap one another or the image.  The ELF header is its first      *)
(* byte, the program headers begin at the third.                           *)

Ph(t, o, v, f, n) == [type |-> t, offset |-> o, vaddr |-> v, filesz |-> f, memsz |-> n]
ProgramHeaders ==
    {Ph("load", o, v, f, n) : o \in {0, 2}, v \in {0, 3, 6, 9}, f \in {0, 3}, n \in {2, 4}}
    \cup {Ph("note", 0, 1, 2, 2)}

SmallAddrs == 0 .. 13

File(m, c, e, p) ==
    [magic |-> m, machine |-> c, entry |-> e, size |-> 5, ph |-> p,
     at |-> [k \in 0 .. Len(p) |-> IF k = 0 THEN {0} ELSE {k + 1}]]

SmallFiles ==
    {File(m, c, e, p) : m \in BOOLEAN, c \in {"x86-64", "arm"}, e \in {1, 4},
                        p \in UNION {[1 .. n -> ProgramHeaders] : n \in 0 .. 1}}
    \cup {File(TRUE, "x86-64", 1, p) : p \in [1 .. 2 -> ProgramHeaders]}
    \cup {File(TRUE, "x86-64", 1, <<h, Ph("note", 0, 1, 2, 2), g>>) : h, g \in ProgramHeaders}

\* One of them, without segments.
EmptyFile == File(TRUE, "x86-64", 1, <<>>)

--------------------------------------------------------------------------------
(* USB configurations of up to three parts behind the first, or of four    *)
(* that begin with an interface.  With two parts, also such that state and *)
(* send any shorter length, or state their full length and break off.      *)

InterfacePart(n, c, s, p) == <<9, 4, n, 0, 1, c, s, p, 0>>
EndpointPart(a, t) == <<7, 5, a, t, 8, 0, 10>>
Header(n) == <<9, 2, n % 256, n \div 256, 1, 1, 0, 160, 50>>

Descriptors == {InterfacePart(0, 3, 1, 1), InterfacePart(1, 3, 1, 2), InterfacePart(2, 3, 1, 1), EndpointPart(129, 3), EndpointPart(130, 2), EndpointPart(1, 3), <<4, 33, 17, 1>>, <<0, 0>>}

Configurations ==
    UNION {[1 .. n -> Descriptors] : n \in 0 .. 3}
    \cup {<<i>> \o ps : i \in {InterfacePart(0, 3, 1, 1), InterfacePart(1, 3, 1, 2)}, ps \in [1 .. 3 -> Descriptors]}

\* The device descriptor, of USB 1.10, in ctrl_buf; nothing else was in it.
Leftover == <<18, 1, 16, 1, 0, 0, 0, 8, 109, 4, 28, 1, 0, 1, 1, 2, 0, 1>> \o [k \in 1 .. 254 |-> 0]

\* A configuration that states n bytes; the device sends at most m.
Device(ps, n, m) ==
    LET qs == <<Header(n)>> \o ps
    IN  [parts |-> qs, bytes |-> FlattenSeq(qs), sent |-> m,
         starts |-> [k \in 1 .. Len(qs) + 1 |-> Len(FlattenSeq(SubSeq(qs, 1, k - 1)))]]

Stated(ps) == LET n == 9 + Len(FlattenSeq(ps)) IN Device(ps, n, n)

SmallDevices ==
    {Stated(ps) : ps \in Configurations}
    \cup {Device(<<p, q>>, n, n) : p, q \in Descriptors, n \in 0 .. 27}
    \cup {Device(<<p, q>>, 9 + Len(p) + Len(q), m) : p, q \in Descriptors, m \in {0, 2, 3, 12}}

\* One of them.
EmptyDevice == Stated(<<>>)
================================================================================
