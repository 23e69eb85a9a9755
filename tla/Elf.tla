----------------------------------- MODULE Elf ---------------------------------
(***************************************************************************)
(* kernel/elf.c and the head of jump_to_user (kernel/user/user.c): the     *)
(* shell's image, which is linked into the kernel, is copied to the        *)
(* addresses that its program headers name.  File and segments are bytes   *)
(* of the same memory, and the loops read the headers there while they     *)
(* write: a segment may fall on a header that is still to be read.         *)
(***************************************************************************)
EXTENDS Integers, Sequences

CONSTANTS
    Addrs,      \* the addresses, 0 .. n
    FileAt,     \* _binary_shell_elf_start
    Files       \* [magic, machine, entry, ph, at, size], ph a sequence of
                \* [type, offset, vaddr, filesz, memsz], at the places in the
                \* image of the ELF header, at[0], and of program header k, at[k]

\* No segment reaches beyond memory, nor its bytes and headers beyond the image.
FilesAssumption ==
    /\ Addrs \subseteq Nat /\ FileAt \in Nat
    /\ \A f \in Files :
          /\ f.size \in Nat /\ FileAt .. FileAt + f.size - 1 \subseteq Addrs
          /\ f.ph \in Seq([type : STRING, offset : Nat, vaddr : Nat, filesz : Nat, memsz : Nat])
          /\ f.at \in [0 .. Len(f.ph) -> SUBSET Nat]
          /\ \A k \in 0 .. Len(f.ph) : \A o \in f.at[k] : o < f.size
          /\ \A k \in DOMAIN f.ph :
                LET ph == f.ph[k]
                IN  ph.type = "load" =>
                      /\ ph.vaddr .. ph.vaddr + ph.filesz - 1 \subseteq Addrs
                      /\ ph.vaddr .. ph.vaddr + ph.memsz - 1 \subseteq Addrs
                      /\ ph.offset + ph.filesz <= f.size

VARIABLES
    file,       \* this image
    mem,        \* [Addrs -> bytes]
    elf_pc,     \* "start", "segment", "bytes", "failed", "entered" or "astray"
    segment, j, \* elf_load's counters
    rip         \* where the user program is entered

elfVars == <<file, mem, elf_pc, segment, j, rip>>

--------------------------------------------------------------------------------

\* Distinct bytes in the image, other ones around it.
Loaded0(f) == [a \in Addrs |-> IF a >= FileAt /\ a < FileAt + f.size THEN a ELSE -1]

elf_load ==
    /\ elf_pc = "start"
    /\ elf_pc' = IF file.magic /\ file.machine = "x86-64" THEN "segment" ELSE "failed"
    /\ UNCHANGED <<file, mem, segment, j, rip>>

\* A header is still the one in the file when elf_load reads it.
Intact(k) == \A o \in file.at[k] : mem[FileAt + o] = FileAt + o

AnyType(ph)  == TRUE
IsLoad(ph) == ph.type = "load"

NextSegment ==
    /\ elf_pc = "segment" /\ Intact(0) /\ segment <= Len(file.ph) /\ Intact(segment)
    /\ IF IsLoad(file.ph[segment])
       THEN elf_pc' = "bytes" /\ j' = 0 /\ UNCHANGED segment
       ELSE segment' = segment + 1 /\ UNCHANGED <<elf_pc, j>>
    /\ UNCHANGED <<file, mem, rip>>

CopyAll(ph, k)   == mem[FileAt + ph.offset + k]
SegmentByte(ph, k) == IF k < ph.filesz THEN mem[FileAt + ph.offset + k] ELSE 0

\* One byte of the two loops: filesz of the file, then zeros up to memsz, which
\* are read for every byte; p_vaddr and p_offset are read before the first.
CopyByte ==
    LET ph == file.ph[segment]
    IN  /\ elf_pc = "bytes" /\ Intact(segment)
        /\ IF j < ph.filesz \/ j < ph.memsz
           THEN /\ mem' = [mem EXCEPT ![ph.vaddr + j] = SegmentByte(ph, j)]
                /\ j' = j + 1
                /\ UNCHANGED <<elf_pc, segment>>
           ELSE /\ elf_pc' = "segment" /\ segment' = segment + 1
                /\ UNCHANGED <<mem, j>>
        /\ UNCHANGED <<file, rip>>

\* The header that is read next is overwritten: what elf_load does from here on
\* depends on what a segment left in its place, and is not followed.
Astray ==
    /\ \/ elf_pc = "segment" /\ ~(Intact(0) /\ (segment <= Len(file.ph) => Intact(segment)))
       \/ elf_pc = "bytes" /\ ~Intact(segment)
    /\ elf_pc' = "astray"
    /\ UNCHANGED <<file, mem, segment, j, rip>>

jump_to_user ==
    /\ elf_pc = "segment" /\ Intact(0) /\ segment > Len(file.ph)
    /\ rip' = file.entry
    /\ elf_pc' = "entered"
    /\ UNCHANGED <<file, mem, segment, j>>

ElfInit ==
    /\ file \in Files
    /\ mem = Loaded0(file)
    /\ elf_pc = "start" /\ segment = 1 /\ j = 0 /\ rip = 0

ElfNext == elf_load \/ NextSegment \/ CopyByte \/ Astray \/ jump_to_user

ElfSpec == ElfInit /\ [][ElfNext]_elfVars

--------------------------------------------------------------------------------
(* Properties *)

Loads == {k \in DOMAIN file.ph : file.ph[k].type = "load"}
Bigger(ph) == IF ph.filesz > ph.memsz THEN ph.filesz ELSE ph.memsz
Target(k) == {a \in Addrs : a >= file.ph[k].vaddr /\ a < file.ph[k].vaddr + Bigger(file.ph[k])}
Image == {a \in Addrs : a >= FileAt /\ a < FileAt + file.size}

\* The segments lie apart from one another and from the image in the kernel.
Apart ==
    \A k \in Loads : Target(k) \cap Image = {} /\ \A h \in Loads \ {k} : Target(k) \cap Target(h) = {}

(* If the segments lie apart, no header is overwritten before it is read,  *)
(* and when the program is entered, at its entry, every loadable segment   *)
(* holds the bytes of the file and behind them zeros, in whatever order    *)
(* the segments come and whatever was in memory before.                    *)
ImageLoaded ==
    Apart =>
        /\ elf_pc # "astray"
        /\ elf_pc = "entered" =>
              /\ rip = file.entry
              /\ \A k \in Loads : \A x \in 0 .. Bigger(file.ph[k]) - 1 :
                     mem[file.ph[k].vaddr + x] =
                         IF x < file.ph[k].filesz THEN FileAt + file.ph[k].offset + x ELSE 0

(* Nothing but the loadable segments is ever written, also when they       *)
(* overlap one another or the image, until elf_load reads a header that    *)
(* one of them has overwritten; of what it does then nothing is claimed.   *)
(* Nothing at all is written for an image of another kind, which is never  *)
(* entered.                                                                *)
OnlySegments ==
    /\ elf_pc # "astray" =>
          \A a \in Addrs : mem[a] # Loaded0(file)[a] => \E k \in Loads : a \in Target(k)
    /\ ~file.magic \/ file.machine # "x86-64" => mem = Loaded0(file) /\ elf_pc \in {"start", "failed"}

ProgramLoaded == ImageLoaded /\ OnlySegments
================================================================================
