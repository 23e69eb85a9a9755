------------------------------- MODULE BootProofs -------------------------------
(***************************************************************************)
(* What the kernel does once; each part has its state, its steps and its   *)
(* invariant to itself:                                                    *)
(*   - lapic_timer_init's measurement keeps its bounds (LapicTimer),       *)
(*   - elf_load puts every segment in its place (Elf),                     *)
(*   - the keyboard that is found is one (KeyboardSearch),                 *)
(*   - the loader's tags and map are read whole (Multiboot),               *)
(*   - the board is named as the firmware's table says (Smbios),           *)
(*   - and the machine will be put to sleep as its tables say (Acpi).      *)
(***************************************************************************)
EXTENDS LapicTimer, Elf, KeyboardSearch, Multiboot, Firmware,
        FiniteSetTheorems, SequenceTheorems, WellFoundedInduction, TLAPS

--------------------------------------------------------------------------------
(* Numbers *)

Less == {ss \in Nat \X Nat : ss[1] < ss[2]}

\* A set of numbers has a least one.
LEMMA Minimum ==
    ASSUME NEW T, T \subseteq Nat, T # {}
    PROVE  \E x \in T : \A y \in T : x <= y
<1>1. IsWellFoundedOn(Less, Nat)
  BY NatLessThanWellFounded DEF OpToRel, Less
<1>2. PICK x \in T : \A y \in T : ~ (<<y, x>> \in Less)
  BY <1>1, WFMin
<1>3. ASSUME NEW y \in T PROVE x <= y
  <2>1. ~ (<<y, x>> \in Less) /\ x \in Nat /\ y \in Nat
    BY <1>2
  <2> QED BY <2>1 DEF Less
<1> QED BY <1>3

--------------------------------------------------------------------------------
(***************************************************************************)
(* The error of lapic_timer_init's measurement, for every length of the    *)
(* PIT's period and every delay of the code shorter than that.  Time is    *)
(* counted on the PIT's own scale from the tick before start was read; the *)
(* LAPIC's count is behind it by less than a period, or ahead of it by no  *)
(* more than the delay before start was read.                              *)
(***************************************************************************)

USE DEF DelayAssumption

TimerTypeOK ==
    /\ pc \in {"calibrate", "begun", "check", "halt", "asleep", "read", "arm", "armed"}
    /\ phase \in 0 .. Pit - 1
    /\ ticks \in Nat /\ start \in Nat /\ used \in 0 .. Delay
    /\ elapsed \in Nat /\ initial \in Nat

Time == phase + Pit * (ticks - start)

\* The count and the scale differ by where in a period each of them began.
InPhase == 0 - Delay <= Time - elapsed /\ Time - elapsed < Pit

\* The last tick that the loop waits for is the sixth at most: a hlt is
\* entered before it, and it ends every hlt.
TimeInv ==
    /\ pc = "calibrate" => elapsed = 0
    /\ pc = "begun" => elapsed = used
    /\ pc \in {"check", "halt", "asleep", "read"} => InPhase
    /\ pc = "check" => Time <= 6 * Pit + used
    /\ pc = "halt" => Time < 5 * Pit + used
    /\ pc = "asleep" => Time < 6 * Pit
    /\ pc = "read" => 5 * Pit <= Time /\ Time <= 6 * Pit + Delay + used

TimerIInv == TimerTypeOK /\ TimeInv /\ CalibrationBounds

--------------------------------------------------------------------------------

(* Six whole periods leave no phase.                                       *)
LEMMA WholePeriods ==
    ASSUME DelayAssumption, NEW n \in Int, NEW p \in 0 .. Pit - 1, p + Pit * n = 6 * Pit
    PROVE  p = 0
<1>1. Pit * n \in Int
  OBVIOUS
<1>2. ASSUME n >= 7 PROVE Pit * n >= Pit * 7
  BY <1>2
<1>3. ASSUME n <= 5 PROVE Pit * n <= Pit * 5
  BY <1>3
<1>4. CASE n = 6
  BY <1>4
<1>5. CASE n # 6
  BY <1>1, <1>2, <1>3, <1>5
<1> QED
  BY <1>4, <1>5

(* Time is an integer, and says how many whole periods have passed.        *)
LEMMA TimePeriods ==
    ASSUME DelayAssumption, TimerTypeOK
    PROVE  /\ Time \in Int
           /\ ticks - start >= 5 => Time >= 5 * Pit
           /\ ticks - start < 5 => Time < 5 * Pit
<1> DEFINE n == ticks - start
<1>1. n \in Int /\ Pit \in Nat /\ phase \in 0 .. Pit - 1
  BY DEF TimerTypeOK
<1> HIDE DEF n
<1>2. Time = phase + Pit * n
  BY DEF Time, n
<1>3. ASSUME n >= 5 PROVE Pit * n >= Pit * 5
  BY <1>1, <1>3
<1>4. ASSUME n <= 4 PROVE Pit * n <= Pit * 4
  BY <1>1, <1>4
<1>5. Pit * n \in Int
  BY <1>1
<1> QED
  BY <1>1, <1>2, <1>3, <1>4, <1>5 DEF n

(* A step of the PIT is a step of Time, also where the phase wraps.        *)
LEMMA TickTime ==
    ASSUME DelayAssumption, TimerTypeOK, Tick
    PROVE  Time' = Time + 1 /\ phase' \in 0 .. Pit - 1 /\ ticks' \in Nat
<1>1. CASE phase + 1 = Pit
  <2>1. phase' = 0 /\ ticks' = ticks + 1 /\ start' = start
    BY <1>1 DEF Tick, TimerTypeOK
  <2>2. Pit * (ticks + 1 - start) = Pit * (ticks - start) + Pit
    BY DEF TimerTypeOK
  <2> QED
    BY <1>1, <2>1, <2>2 DEF Time, TimerTypeOK
<1>2. CASE phase + 1 # Pit
  <2>1. phase' = phase + 1 /\ ticks' = ticks /\ start' = start
    BY <1>2 DEF Tick, TimerTypeOK
  <2>2. Pit * (ticks - start) \in Int
    BY DEF TimerTypeOK
  <2> QED
    BY <1>2, <2>1, <2>2 DEF Time, TimerTypeOK
<1> QED
  BY <1>1, <1>2

(* Dividing the count by a divisor and multiplying it again exceeds it not.*)
LEMMA DivBelow ==
    ASSUME NEW a \in Nat, NEW d \in Nat, d > 0
    PROVE  a \div d \in Nat /\ d * (a \div d) <= a
  OBVIOUS

(* The invariant holds at the call.                                        *)
LEMMA TimerInit ==
    ASSUME DelayAssumption
    PROVE  Init => TimerIInv
  BY DEF Init, TimerIInv, TimerTypeOK, TimeInv, CalibrationBounds

(* It holds while time passes.                                             *)
LEMMA TimerTick ==
    ASSUME DelayAssumption
    PROVE  TimerIInv /\ Tick => TimerIInv'
<1> SUFFICES ASSUME TimerIInv, Tick PROVE TimerIInv'
  OBVIOUS
<1> USE DEF TimerIInv
<1>1. Time' = Time + 1 /\ phase' \in 0 .. Pit - 1 /\ ticks' \in Nat
  BY TickTime
<1>2. TimerTypeOK'
  BY <1>1 DEF TimerTypeOK, Tick
<1>3. Time \in Int /\ (Time' = 6 * Pit => phase' = 0)
  <2>1. Time \in Int /\ ticks' - start' \in Int
    BY <1>2, TimePeriods DEF TimerTypeOK
  <2>2. ASSUME Time' = 6 * Pit PROVE phase' = 0
    BY <1>1, <2>1, <2>2, WholePeriods DEF Time
  <2> QED
    BY <2>1, <2>2
<1>4. TimeInv'
  BY <1>1, <1>3 DEF TimeInv, InPhase, Tick, TimerTypeOK, Measuring
<1>5. CalibrationBounds'
  BY DEF Tick, CalibrationBounds, Measuring
<1> QED
  BY <1>2, <1>4, <1>5

(* It holds over every step of lapic_timer_init.                           *)
LEMMA TimerStep ==
    ASSUME DelayAssumption, HzAssumption
    PROVE  TimerIInv /\ lapic_timer_init => TimerIInv'
<1> SUFFICES ASSUME TimerIInv, lapic_timer_init PROVE TimerIInv'
  OBVIOUS
<1> USE DEF TimerIInv, Go
<1>1. CASE Begin
  BY <1>1 DEF Begin, TimerTypeOK, TimeInv, CalibrationBounds
<1>2. CASE ReadStart
  <2>1. TimerTypeOK' /\ CalibrationBounds'
    BY <1>2 DEF ReadStart, TimerTypeOK, CalibrationBounds
  <2>2. Pit * (ticks - ticks) = 0
    BY DEF TimerTypeOK
  <2>3. Time' = phase
    BY <1>2, <2>2 DEF ReadStart, Time, TimerTypeOK
  <2>4. TimeInv'
    BY <1>2, <2>3 DEF ReadStart, TimeInv, InPhase, TimerTypeOK
  <2> QED
    BY <2>1, <2>4
<1>3. CASE Check \/ Halt
  <2>1. Time' = Time /\ TimerTypeOK' /\ CalibrationBounds'
    BY <1>3 DEF Check, Halt, Time, TimerTypeOK, CalibrationBounds
  <2>2. TimeInv'
    BY <1>3, <2>1, TimePeriods DEF Check, Halt, TimeInv, InPhase, TimerTypeOK, Waited
  <2> QED
    BY <2>1, <2>2
<1>4. CASE ReadCounter
  <2>1. Periods \in Nat /\ Periods > 0
    BY DEF HzAssumption, Periods
  <2> DEFINE n == elapsed \div Periods
  <2>2. n \in Nat /\ Periods * n <= elapsed
    BY <2>1, DivBelow DEF TimerTypeOK
  <2>3. initial' \in Nat /\ initial' >= MinTicks /\ (initial' > MinTicks => initial' = n)
    BY <1>4, <2>2 DEF HzAssumption, ReadCounter, ticks_per_period
  <2>4. 4 * Pit <= elapsed /\ elapsed <= 6 * Pit + 3 * Delay
    BY <1>4, TimePeriods DEF ReadCounter, TimeInv, InPhase, TimerTypeOK
  <2> HIDE DEF n
  <2>5. initial' > MinTicks => Periods * initial' <= 6 * Pit + 3 * Delay
    BY <2>1, <2>2, <2>3, <2>4 DEF TimerTypeOK
  <2>6. pc' = "arm" /\ used' = 0 /\ UNCHANGED <<phase, ticks, start, elapsed>>
    BY <1>4 DEF ReadCounter
  <2> QED
    BY <2>3, <2>4, <2>5, <2>6 DEF TimerTypeOK, TimeInv, CalibrationBounds
<1>5. CASE Arm
  BY <1>5 DEF Arm, TimerTypeOK, TimeInv, CalibrationBounds
<1> QED
  BY <1>1, <1>2, <1>3, <1>4, <1>5 DEF lapic_timer_init

(* It holds over every step.                                               *)
LEMMA TimerNext ==
    ASSUME DelayAssumption, HzAssumption
    PROVE  TimerIInv /\ [Next]_vars => TimerIInv'
<1> SUFFICES ASSUME TimerIInv, [Next]_vars PROVE TimerIInv'
  OBVIOUS
<1>1. CASE Wake
  BY <1>1, TimePeriods DEF Wake, TimerIInv, TimerTypeOK, TimeInv, InPhase, Time, CalibrationBounds
<1>2. CASE CountDown \/ UNCHANGED vars
  <2>1. UNCHANGED <<pc, phase, ticks, start, used, elapsed, initial>>
    BY <1>2 DEF CountDown, vars
  <2> QED
    BY <2>1 DEF TimerIInv, TimerTypeOK, TimeInv, InPhase, Time, CalibrationBounds
<1> QED
  BY <1>1, <1>2, TimerTick, TimerStep DEF Next

(* lapic_timer_init's measurement stands for at least four periods of the  *)
(* PIT and at most six and three delays, and the initial count is not more *)
(* than that says, for every period and every shorter delay.               *)
THEOREM CalibrationBounded ==
    ASSUME DelayAssumption, HzAssumption
    PROVE  Spec => []CalibrationBounds
<1>1. TimerIInv => CalibrationBounds
  BY DEF TimerIInv
<1> QED
  BY <1>1, TimerInit, TimerNext, PTL DEF Spec

HIDE DEF DelayAssumption

--------------------------------------------------------------------------------
(***************************************************************************)
(* elf_load, for every image whose segments lie within memory: what the    *)
(* loops have copied so far is in its place, since no later byte of this   *)
(* or another segment falls on it, nor on the bytes of the file that are   *)
(* still to be copied, nor on the headers that are still to be read.       *)
(***************************************************************************)

\* The byte that segment k is to have at place x.
SegByte(k, x) ==
    IF x < file.ph[k].filesz THEN FileAt + file.ph[k].offset + x ELSE 0

\* What elf_load has copied of segment k.
Copied(k) == IF k < segment THEN 0 .. Bigger(file.ph[k]) - 1
             ELSE IF k = segment /\ elf_pc = "bytes" THEN 0 .. j - 1 ELSE {}

ElfTypeOK ==
    /\ file \in Files /\ mem \in [Addrs -> Int]
    /\ elf_pc \in {"start", "segment", "bytes", "failed", "entered", "astray"}
    /\ segment \in 1 .. Len(file.ph) + 1 /\ j \in Nat
    /\ elf_pc = "bytes" => segment \in Loads /\ j <= Bigger(file.ph[segment])

ElfInv ==
    /\ ElfTypeOK /\ OnlySegments
    /\ elf_pc = "entered" => segment = Len(file.ph) + 1 /\ rip = file.entry
    /\ elf_pc = "astray" => ~Apart
    /\ ~file.magic \/ file.machine # "x86-64" => elf_pc \in {"start", "failed"}
    /\ Apart => \A k \in Loads : \A x \in Copied(k) : mem[file.ph[k].vaddr + x] = SegByte(k, x)

\* What FilesAssumption says of a loadable segment and of the bytes of the image.
LEMMA SegmentFacts ==
    ASSUME FilesAssumption, file \in Files
    PROVE  /\ Len(file.ph) \in Nat /\ DOMAIN file.ph = 1 .. Len(file.ph)
           /\ Addrs \subseteq Nat /\ FileAt \in Nat /\ file.size \in Nat
           /\ \A x \in Nat : x < file.size => FileAt + x \in Addrs
           /\ \A k \in Loads :
                /\ k \in 1 .. Len(file.ph)
                /\ file.ph[k].offset \in Nat /\ file.ph[k].vaddr \in Nat
                /\ file.ph[k].filesz \in Nat /\ file.ph[k].memsz \in Nat
                /\ Bigger(file.ph[k]) \in Nat /\ Bigger(file.ph[k]) >= file.ph[k].filesz
                /\ file.ph[k].offset + file.ph[k].filesz <= file.size
                /\ \A x \in Nat : x < Bigger(file.ph[k]) =>
                      file.ph[k].vaddr + x \in Addrs /\ file.ph[k].vaddr + x \in Target(k)
<1> DEFINE S == [type : STRING, offset : Nat, vaddr : Nat, filesz : Nat, memsz : Nat]
<1>1. /\ file.ph \in Seq(S) /\ Addrs \subseteq Nat /\ FileAt \in Nat /\ file.size \in Nat
      /\ FileAt .. FileAt + file.size - 1 \subseteq Addrs
  BY DEF FilesAssumption
<1>2. Len(file.ph) \in Nat /\ DOMAIN file.ph = 1 .. Len(file.ph)
  BY <1>1
<1>3. ASSUME NEW x \in Nat, x < file.size PROVE FileAt + x \in Addrs
  <2>1. FileAt + x \in FileAt .. FileAt + file.size - 1
    BY <1>1, <1>3
  <2> QED BY <1>1, <2>1
<1>4. ASSUME NEW k \in Loads
      PROVE  /\ k \in 1 .. Len(file.ph)
             /\ file.ph[k].offset \in Nat /\ file.ph[k].vaddr \in Nat
             /\ file.ph[k].filesz \in Nat /\ file.ph[k].memsz \in Nat
             /\ Bigger(file.ph[k]) \in Nat /\ Bigger(file.ph[k]) >= file.ph[k].filesz
             /\ file.ph[k].offset + file.ph[k].filesz <= file.size
             /\ \A x \in Nat : x < Bigger(file.ph[k]) =>
                   file.ph[k].vaddr + x \in Addrs /\ file.ph[k].vaddr + x \in Target(k)
  <2> DEFINE ph == file.ph[k]
  <2>1. k \in 1 .. Len(file.ph) /\ ph.type = "load"
    BY <1>2 DEF Loads
  <2>2. ph \in S
    <3> HIDE DEF S
    <3> QED BY <1>1, <2>1
  <2>3. /\ ph.offset \in Nat /\ ph.vaddr \in Nat /\ ph.filesz \in Nat /\ ph.memsz \in Nat
        /\ Bigger(ph) \in Nat /\ Bigger(ph) >= ph.filesz
    BY <2>2 DEF Bigger
  <2>4. /\ ph.vaddr .. ph.vaddr + ph.filesz - 1 \subseteq Addrs
        /\ ph.vaddr .. ph.vaddr + ph.memsz - 1 \subseteq Addrs
        /\ ph.offset + ph.filesz <= file.size
    BY <1>2, <2>1 DEF FilesAssumption
  <2>5. ASSUME NEW x \in Nat, x < Bigger(ph) PROVE ph.vaddr + x \in Addrs
    <3> HIDE DEF ph
    <3>1. \/ ph.vaddr + x \in ph.vaddr .. ph.vaddr + ph.filesz - 1
          \/ ph.vaddr + x \in ph.vaddr .. ph.vaddr + ph.memsz - 1
      BY <2>3, <2>5 DEF Bigger
    <3> QED BY <2>4, <3>1
  <2>6. ASSUME NEW x \in Nat, x < Bigger(ph) PROVE ph.vaddr + x \in Target(k)
    <3>1. ph.vaddr + x >= ph.vaddr /\ ph.vaddr + x < ph.vaddr + Bigger(ph)
      <4> HIDE DEF ph
      <4> QED BY <2>3, <2>6
    <3> QED BY <2>5, <2>6, <3>1 DEF Target
  <2> QED BY <2>1, <2>3, <2>4, <2>5, <2>6
<1> QED BY <1>1, <1>2, <1>3, <1>4

\* A segment that lies apart from the image leaves every header in it as it is.
LEMMA HeadersIntact ==
    ASSUME FilesAssumption, file \in Files, Apart, OnlySegments, elf_pc # "astray",
           NEW k \in 0 .. Len(file.ph)
    PROVE  Intact(k)
<1> SUFFICES ASSUME NEW o \in file.at[k] PROVE mem[FileAt + o] = FileAt + o
  BY DEF Intact
<1>place. o \in Nat /\ o < file.size /\ FileAt \in Nat /\ file.size \in Nat
  BY DEF FilesAssumption
<1>image. FileAt + o \in Addrs /\ FileAt + o \in Image
  <2>1. FileAt + o \in Addrs
    BY <1>place, SegmentFacts
  <2> QED BY <1>place, <2>1 DEF Image
<1>apart. \A n \in Loads : FileAt + o \notin Target(n)
  BY <1>image DEF Apart
<1>kept. mem[FileAt + o] = Loaded0(file)[FileAt + o]
  BY <1>image, <1>apart DEF OnlySegments
<1> QED BY <1>image, <1>kept DEF Loaded0, Image

\* At the start nothing has been copied.
LEMMA ElfStart ==
    ASSUME FilesAssumption, ElfInit
    PROVE  ElfInv
<1>1. file \in Files
  BY DEF ElfInit
<1>2. Loaded0(file) \in [Addrs -> Int]
  BY SegmentFacts, <1>1 DEF Loaded0
<1>3. Len(file.ph) \in Nat
  BY SegmentFacts, <1>1
<1>4. ElfTypeOK
  BY <1>1, <1>2, <1>3 DEF ElfInit, ElfTypeOK
<1>5. OnlySegments
  BY DEF ElfInit, OnlySegments
<1>6. \A k \in Loads : Copied(k) = {}
  BY SegmentFacts, <1>1 DEF ElfInit, Copied
<1> QED BY <1>4, <1>5, <1>6 DEF ElfInv, ElfInit

\* A byte of a segment, of the file or behind it.
LEMMA CopyByteStep ==
    ASSUME FilesAssumption, ElfInv, CopyByte, j < Bigger(file.ph[segment])
    PROVE  ElfInv'
<1> DEFINE ph == file.ph[segment]
           a  == ph.vaddr + j
           b  == SegmentByte(ph, j)
<1>1. /\ elf_pc = "bytes" /\ segment \in Loads /\ j \in Nat /\ file \in Files /\ mem \in [Addrs -> Int]
      /\ file.magic /\ file.machine = "x86-64"
  BY DEF ElfInv, ElfTypeOK, CopyByte
<1>2. /\ ph.offset \in Nat /\ ph.vaddr \in Nat /\ ph.filesz \in Nat /\ ph.memsz \in Nat
      /\ a \in Addrs /\ a \in Target(segment) /\ FileAt \in Nat
      /\ segment \in 1 .. Len(file.ph) /\ Len(file.ph) \in Nat
      /\ j < ph.filesz => FileAt + ph.offset + j \in Addrs
      /\ ph.offset + ph.filesz <= file.size /\ file.size \in Nat
  <2>1. /\ ph.offset \in Nat /\ ph.vaddr \in Nat /\ ph.filesz \in Nat /\ ph.memsz \in Nat
        /\ a \in Addrs /\ a \in Target(segment) /\ FileAt \in Nat /\ file.size \in Nat
        /\ segment \in 1 .. Len(file.ph) /\ Len(file.ph) \in Nat
        /\ ph.offset + ph.filesz <= file.size
    BY <1>1, SegmentFacts
  <2>2. ASSUME j < ph.filesz PROVE FileAt + ph.offset + j \in Addrs
    <3>1. ph.offset + j \in Nat /\ ph.offset + j < file.size
      BY <1>1, <2>1, <2>2
    <3>2. FileAt + (ph.offset + j) \in Addrs
      BY <1>1, <3>1, SegmentFacts
    <3> QED BY <1>1, <2>1, <3>2
  <2> QED BY <2>1, <2>2
<1>3. b \in Int
  BY <1>1, <1>2 DEF SegmentByte
<1>4. /\ mem' = [mem EXCEPT ![a] = b] /\ j' = j + 1 /\ elf_pc' = elf_pc /\ segment' = segment /\ file' = file /\ rip' = rip
  <2>1. j < ph.filesz \/ j < ph.memsz
    BY <1>1, <1>2 DEF Bigger
  <2> QED BY <2>1 DEF CopyByte
<1>5. Loads' = Loads /\ Apart' = Apart /\ \A k : Target(k)' = Target(k)
  BY <1>4 DEF Loads, Apart, Target, Bigger, Image
<1>6. ElfTypeOK'
  <2>1. mem' \in [Addrs -> Int]
    BY <1>1, <1>3, <1>4
  <2>2. j' <= Bigger(ph)
    BY <1>1, <1>4, SegmentFacts
  <2>3. Bigger(ph)' = Bigger(ph) /\ segment' \in Loads'
    BY <1>1, <1>4, <1>5 DEF Bigger
  <2>4. j' \in Nat
    BY <1>1, <1>4
  <2>5. file' \in Files /\ elf_pc' = "bytes" /\ segment' \in 1 .. Len(file'.ph) + 1
    BY <1>1, <1>2, <1>4
  <2> QED BY <1>4, <2>1, <2>2, <2>3, <2>4, <2>5 DEF ElfTypeOK
<1>7. OnlySegments'
  <2>1. \A c \in Addrs : c # a => mem'[c] = mem[c]
    BY <1>1, <1>4
  <2>2. Loaded0(file') = Loaded0(file)
    BY <1>4
  <2> QED BY <1>1, <1>2, <1>4, <1>5, <2>1, <2>2 DEF ElfInv, OnlySegments
<1>8. ASSUME Apart', NEW k \in Loads', NEW x \in Copied(k)'
      PROVE  mem'[file'.ph[k].vaddr + x] = SegByte(k, x)'
  <2>1. Apart /\ k \in Loads /\ SegByte(k, x)' = SegByte(k, x)
    BY <1>4, <1>5, <1>8 DEF SegByte
  <2>2. /\ k \in 1 .. Len(file.ph) /\ file.ph[k].vaddr \in Nat /\ Bigger(file.ph[k]) \in Nat
        /\ \A y \in Nat : y < Bigger(file.ph[k]) =>
              file.ph[k].vaddr + y \in Addrs /\ file.ph[k].vaddr + y \in Target(k)
    BY <1>1, <2>1, SegmentFacts
  <2>3. CASE k = segment /\ x = j
    <3>1. mem'[a] = b
      BY <1>1, <1>2, <1>4
    <3>2. b = SegByte(segment, j)
      <4>1. CASE j < ph.filesz
        <5> DEFINE c == FileAt + ph.offset + j
        <5>1. c \in Addrs /\ c \in Image
          <6>1. c < FileAt + file.size /\ c >= FileAt
            <7> DEFINE o == ph.offset
                       z == ph.filesz
                       n == file.size
            <7>1. /\ o \in Nat /\ z \in Nat /\ n \in Nat /\ FileAt \in Nat /\ j \in Nat
                  /\ o + z <= n /\ j < z /\ c = FileAt + o + j
              BY <1>1, <1>2, <4>1
            <7> HIDE DEF o, z, n, c
            <7>2. c < FileAt + n /\ c >= FileAt
              BY <7>1
            <7> QED BY <7>2 DEF n
          <6> QED BY <1>2, <4>1, <6>1 DEF Image
        <5>2. \A n \in Loads : c \notin Target(n)
          BY <2>1, <5>1 DEF Apart
        <5>3. mem[c] = Loaded0(file)[c]
          BY <1>1, <5>1, <5>2 DEF ElfInv, OnlySegments
        <5>4. Loaded0(file)[c] = c
          BY <5>1 DEF Loaded0, Image
        <5> QED BY <4>1, <5>3, <5>4 DEF SegmentByte, SegByte
      <4>2. CASE ~(j < ph.filesz)
        BY <4>2 DEF SegmentByte, SegByte
      <4> QED BY <4>1, <4>2
    <3> QED BY <1>4, <2>1, <2>3, <3>1, <3>2
  <2>4. CASE ~(k = segment /\ x = j)
    <3>1. x \in Copied(k)
      BY <1>1, <1>4, <1>8, <2>4 DEF Copied
    <3>2. x \in Nat /\ x < Bigger(file.ph[k])
      BY <1>1, <2>2, <3>1 DEF Copied, ElfInv, ElfTypeOK
    <3>3. file.ph[k].vaddr + x \in Addrs /\ file.ph[k].vaddr + x \in Target(k)
      BY <2>2, <3>2
    <3>4. file.ph[k].vaddr + x # a
      <4>1. CASE k = segment
        BY <1>1, <1>2, <2>4, <3>2, <4>1
      <4>2. CASE k # segment
        <5>1. Target(k) \cap Target(segment) = {}
          BY <1>1, <2>1, <4>2 DEF Apart
        <5> QED BY <1>2, <3>3, <5>1
      <4> QED BY <4>1, <4>2
    <3>5. mem'[file.ph[k].vaddr + x] = mem[file.ph[k].vaddr + x]
      BY <1>1, <1>4, <3>3, <3>4
    <3>6. mem[file.ph[k].vaddr + x] = SegByte(k, x)
      BY <2>1, <3>1 DEF ElfInv
    <3> QED BY <1>4, <2>1, <3>5, <3>6
  <2> QED BY <2>3, <2>4
<1> QED BY <1>1, <1>4, <1>6, <1>7, <1>8 DEF ElfInv

\* The other steps copy nothing, and the end of a segment completes it.
LEMMA ElfStep ==
    ASSUME FilesAssumption, ElfInv, [ElfNext]_elfVars
    PROVE  ElfInv'
<1>1. CASE CopyByte
  <2>1. CASE j < Bigger(file.ph[segment])
    BY <1>1, <2>1, CopyByteStep
  <2>2. CASE ~(j < Bigger(file.ph[segment]))
    <3>1. /\ elf_pc = "bytes" /\ segment \in Loads /\ j \in Nat /\ file \in Files /\ j = Bigger(file.ph[segment])
          /\ segment \in 1 .. Len(file.ph) /\ Len(file.ph) \in Nat
          /\ file.ph[segment].filesz \in Nat /\ file.ph[segment].memsz \in Nat
      BY <1>1, <2>2, SegmentFacts DEF CopyByte, ElfInv, ElfTypeOK
    <3>2. ~(j < file.ph[segment].filesz \/ j < file.ph[segment].memsz)
      BY <3>1 DEF Bigger
    <3>3. elf_pc' = "segment" /\ segment' = segment + 1 /\ UNCHANGED <<mem, j, file, rip>>
      BY <1>1, <3>2 DEF CopyByte
    <3>4. Loads' = Loads /\ Apart' = Apart /\ OnlySegments'
      BY <3>1, <3>3 DEF Loads, Apart, Target, Bigger, Image, ElfInv, OnlySegments, Loaded0
    <3>5. \A k \in Loads : Copied(k)' = Copied(k)
      BY <3>1, <3>3, SegmentFacts DEF Copied, Bigger
    <3>6. \A k, x : SegByte(k, x)' = SegByte(k, x)
      BY <3>3 DEF SegByte
    <3> QED BY <3>1, <3>3, <3>4, <3>5, <3>6 DEF ElfInv, ElfTypeOK
  <2> QED BY <2>1, <2>2
<1>2. CASE Astray
  <2>kept. UNCHANGED <<file, mem, segment, j, rip>> /\ elf_pc' = "astray"
    BY <1>2 DEF Astray
  <2>segments. Loads' = Loads /\ Apart' = Apart
    BY <2>kept DEF Loads, Apart, Target, Bigger, Image
  <2>overlap. ~Apart
    <3>1. file \in Files /\ Len(file.ph) \in Nat /\ segment \in 1 .. Len(file.ph) + 1
      BY SegmentFacts DEF ElfInv, ElfTypeOK
    <3>2. elf_pc = "bytes" => segment \in 1 .. Len(file.ph)
      BY <3>1, SegmentFacts DEF ElfInv, ElfTypeOK
    <3>3. elf_pc # "astray"
      BY <1>2 DEF Astray
    <3>4. 0 \in 0 .. Len(file.ph) /\ (segment <= Len(file.ph) => segment \in 0 .. Len(file.ph))
      BY <3>1
    <3> QED BY <1>2, <3>1, <3>2, <3>3, <3>4, HeadersIntact DEF Astray, ElfInv
  <2>type. ElfTypeOK'
    BY <2>kept DEF ElfInv, ElfTypeOK
  <2>kind. file.magic /\ file.machine = "x86-64"
    BY <1>2 DEF Astray, ElfInv
  <2>written. OnlySegments'
    BY <2>kept, <2>kind DEF OnlySegments
  <2> QED BY <2>kept, <2>segments, <2>overlap, <2>type, <2>kind, <2>written DEF ElfInv
<1>3. CASE elf_load \/ NextSegment \/ jump_to_user \/ UNCHANGED elfVars
  <2>1. UNCHANGED <<file, mem>>
    BY <1>3 DEF elf_load, NextSegment, jump_to_user, elfVars
  <2>2. Loads' = Loads /\ Apart' = Apart
    BY <2>1 DEF Loads, Apart, Target, Bigger, Image
  <2>3. /\ file \in Files /\ Len(file.ph) \in Nat /\ DOMAIN file.ph = 1 .. Len(file.ph)
        /\ \A k \in Loads : k \in 1 .. Len(file.ph) /\ Bigger(file.ph[k]) \in Nat
    BY SegmentFacts DEF ElfInv, ElfTypeOK
  <2>4. ElfTypeOK'
    BY <1>3, <2>1, <2>3
    DEF elf_load, NextSegment, IsLoad, jump_to_user, elfVars, ElfInv, ElfTypeOK, Loads, Bigger
  <2>5. OnlySegments' /\ (elf_pc' = "entered" => segment' = Len(file.ph) + 1 /\ rip' = file'.entry)
        /\ (~file.magic \/ file.machine # "x86-64" => elf_pc' \in {"start", "failed"})
        /\ (elf_pc' = "astray" => ~Apart)
    BY <1>3, <2>1, <2>2, <2>3
    DEF elf_load, NextSegment, jump_to_user, elfVars, ElfInv, ElfTypeOK, OnlySegments, Target, Bigger
  <2>6. \A k \in Loads : Copied(k)' \subseteq Copied(k)
    BY <1>3, <2>1, <2>3 DEF elf_load, NextSegment, IsLoad, jump_to_user, elfVars, Copied, Loads, ElfInv,
       ElfTypeOK, Bigger
  <2>7. \A k, x : SegByte(k, x)' = SegByte(k, x)
    BY <2>1 DEF SegByte
  <2> QED BY <2>1, <2>2, <2>4, <2>5, <2>6, <2>7 DEF ElfInv
<1> QED BY <1>1, <1>2, <1>3 DEF ElfNext

(* An image of x86-64 whose segments lie apart is entered at its entry     *)
(* with the bytes of the file and zeros behind them in every segment, in   *)
(* whatever order they come.  Whether they lie apart or not, nothing else  *)
(* is written until elf_load reads a header that a segment has overwritten *)
(* (its own header may be in the way: the loops read it in memory), and    *)
(* then nothing is claimed.  An image of another kind writes nothing and   *)
(* is never entered, ProgramLoaded.                                        *)
THEOREM ElfLoaded ==
    ASSUME FilesAssumption
    PROVE  ElfSpec => []ProgramLoaded
<1>1. ElfInit => ElfInv
  BY ElfStart
<1>2. ElfInv /\ [ElfNext]_elfVars => ElfInv'
  BY ElfStep
<1>3. ElfInv => ProgramLoaded
  <2>astray. ElfInv /\ Apart => elf_pc # "astray"
    BY DEF ElfInv
  <2> SUFFICES ASSUME ElfInv, elf_pc = "entered", Apart
               PROVE  /\ rip = file.entry
                      /\ \A k \in Loads : \A x \in 0 .. Bigger(file.ph[k]) - 1 :
                            mem[file.ph[k].vaddr + x] = SegByte(k, x)
    BY <2>astray DEF ProgramLoaded, ImageLoaded, ElfInv, SegByte
  <2>1. \A k \in Loads : k \in 1 .. Len(file.ph) /\ Len(file.ph) \in Nat
    BY SegmentFacts DEF ElfInv, ElfTypeOK
  <2>2. \A k \in Loads : Copied(k) = 0 .. Bigger(file.ph[k]) - 1
    BY <2>1 DEF Copied, ElfInv
  <2> QED BY <2>2 DEF ElfInv
<1> QED BY <1>1, <1>2, <1>3, PTL DEF ElfSpec

--------------------------------------------------------------------------------
(***************************************************************************)
(* The way to the keyboard in usb_init, for every bus, every device and    *)
(* every page size.  What the search has passed in the order of bus, slot  *)
(* and function holds nothing that is wanted; the walk over the            *)
(* configuration stands before one of its descriptors, in_hid_iface tells  *)
(* of the interface before it, and no endpoint to return lies behind it.   *)
(***************************************************************************)

\* The place that the search looks at, and the places before it.
Passed(x) ==
    \/ x[1] < bus
    \/ x[1] = bus /\ x[2] < slot
    \/ x[1] = bus /\ x[2] = slot /\ x[3] < func

Located == pci_pc \in {"found", "bar", "map", "run"}
Enabled == pci_pc \in {"bar", "map", "run"}

PciTypeOK ==
    /\ sys \in Systems /\ type \in DOMAIN lookup_table
    /\ bus \in 0 .. Buses /\ slot \in 0 .. Slots - 1 /\ func \in 0 .. Funcs - 1
    /\ bus = Buses => slot = 0 /\ func = 0
    /\ pci_pc \in {"idle", "scan", "found", "none", "bar", "map", "run"}

ScanInv ==
    /\ pci_pc = "scan" => \A x \in Matches : ~Passed(x)
    /\ pci_pc = "none" /\ bus = Buses => Matches = {}

FoundInv ==
    Located =>
        /\ outDev.place = <<bus, slot, func>> /\ bus < Buses
        /\ outDev.place \in Matches
        /\ \A x \in Matches : ~Passed(x)
        /\ outDev.mmio_base = mmio_base(sys[outDev.place])

CmdInv ==
    /\ cmd \in [Sites -> SUBSET {"io", "memory", "master"}]
    /\ Enabled => cmd[outDev.place] = {"io", "memory", "master"}
    /\ \A x \in Sites : (Enabled /\ x = outDev.place) \/ pci_pc = "none" \/ cmd[x] = {"io"}

BaseInv ==
    /\ pci_pc \in {"map", "run"} =>
          LET c == sys[outDev.place] IN ~IsIo(c.bar0) /\ bar = mmio_base(c) /\ bar # 0
    /\ pci_pc = "run" => base = bar

PciInv == PciTypeOK /\ ScanInv /\ FoundInv /\ CmdInv /\ BaseInv

--------------------------------------------------------------------------------

LEMMA SystemFacts ==
    ASSUME SystemsAssumption, sys \in Systems
    PROVE  /\ Buses \in Nat \ {0} /\ Slots \in Nat \ {0} /\ Funcs \in Nat \ {0} /\ Word \in Nat \ {0}
           /\ PageSize \in Nat \ {0}
           /\ \A x \in Sites : /\ sys[x] \in Functions
                               /\ sys[x].vendor = 65535 <=> sys[x] = Absent
<1>1. {Buses, Slots, Funcs, Word, PageSize} \subseteq Nat \ {0}
  BY DEF SystemsAssumption
<1>2. Absent.vendor = 65535
  BY DEF Absent
<1> QED BY <1>1, <1>2 DEF SystemsAssumption

\* What the search reads of a function is what the function answers, if it exists.
ReadsWell(b, s, f) ==
    /\ Exists(<<b, s, f>>) =>
          /\ readConfig(b, s, 0).vendor # 65535
          /\ f > 0 => readConfig(b, s, 0).multi
          /\ readConfig(b, s, f) = sys[<<b, s, f>>]
          /\ readConfig(b, s, f).vendor # 65535
    /\ /\ readConfig(b, s, 0).vendor # 65535
       /\ f > 0 => readConfig(b, s, 0).multi
       /\ readConfig(b, s, f).vendor # 65535
       => Exists(<<b, s, f>>) /\ readConfig(b, s, f) = sys[<<b, s, f>>]

LEMMA ReadsFunction ==
    ASSUME SystemsAssumption, sys \in Systems
    PROVE  \A b \in 0 .. Buses - 1 : \A s \in 0 .. Slots - 1 : \A f \in 0 .. Funcs - 1 :
              ReadsWell(b, s, f)
<1> SUFFICES ASSUME NEW b \in 0 .. Buses - 1, NEW s \in 0 .. Slots - 1, NEW f \in 0 .. Funcs - 1
             PROVE  ReadsWell(b, s, f)
  OBVIOUS
<1>1. <<b, s, f>> \in Sites /\ <<b, s, 0>> \in Sites
  BY SystemFacts DEF Sites
<1>2. /\ sys[<<b, s, f>>].vendor = 65535 <=> sys[<<b, s, f>>] = Absent
      /\ sys[<<b, s, 0>>].vendor = 65535 <=> sys[<<b, s, 0>>] = Absent
  BY <1>1, SystemFacts
<1>3. readConfig(b, s, 0) = sys[<<b, s, 0>>]
  BY DEF readConfig
<1>4. readConfig(b, s, f) = IF ~sys[<<b, s, 0>>].multi THEN sys[<<b, s, 0>>] ELSE sys[<<b, s, f>>]
  BY DEF readConfig
<1>5. Exists(<<b, s, f>>) <=>
         /\ sys[<<b, s, f>>] # Absent /\ sys[<<b, s, 0>>] # Absent
         /\ f > 0 => sys[<<b, s, 0>>].multi
  BY DEF Exists
<1>6. f = 0 => <<b, s, f>> = <<b, s, 0>>
  OBVIOUS
<1> QED BY <1>2, <1>3, <1>4, <1>5, <1>6 DEF ReadsWell

\* The test of the code is the kind of function that is wanted.
LEMMA MatchIsWanted ==
    ASSUME type \in DOMAIN lookup_table, NEW c
    PROVE  is_match(c) <=> Wanted(c)
<1>1. type \in {"Xhci", "Ehci", "Ahci", "Nvme", "IntelE1000"}
  BY DEF lookup_table
<1>2. CASE type = "Xhci"
  BY <1>2 DEF lookup_table, is_match, Wanted, InterfaceFits
<1>3. CASE type = "Ehci"
  BY <1>3 DEF lookup_table, is_match, Wanted, InterfaceFits
<1>4. CASE type = "Ahci"
  BY <1>4 DEF lookup_table, is_match, Wanted, InterfaceFits
<1>5. CASE type = "Nvme"
  BY <1>5 DEF lookup_table, is_match, Wanted, InterfaceFits
<1>6. CASE type = "IntelE1000"
  BY <1>6 DEF lookup_table, is_match, Wanted, InterfaceFits
<1> QED BY <1>1, <1>2, <1>3, <1>4, <1>5, <1>6

\* The order of Rank is that of bus, slot and function.
LEMMA RankOrder ==
    ASSUME SystemsAssumption, sys \in Systems, NEW b \in 0 .. Buses - 1, bus = b,
           slot \in 0 .. Slots - 1, func \in 0 .. Funcs - 1,
           NEW x \in Sites, ~Passed(x)
    PROVE  Rank(<<bus, slot, func>>) <= Rank(x)
<1> DEFINE b2 == x[1]  s2 == x[2]  f2 == x[3]
<1>1. /\ Slots \in Nat \ {0} /\ Funcs \in Nat \ {0}
      /\ bus \in Nat /\ slot \in Nat /\ func \in Nat /\ slot < Slots /\ func < Funcs
      /\ b2 \in Nat /\ s2 \in Nat /\ f2 \in Nat /\ s2 < Slots /\ f2 < Funcs
  BY SystemFacts DEF Sites
<1>2. ~(b2 < bus) /\ ~(b2 = bus /\ s2 < slot) /\ ~(b2 = bus /\ s2 = slot /\ f2 < func)
  BY DEF Passed
<1>3. Rank(x) = (b2 * Slots + s2) * Funcs + f2
  BY DEF Rank
<1>4. Rank(<<bus, slot, func>>) = (bus * Slots + slot) * Funcs + func
  BY DEF Rank
<1> HIDE DEF b2, s2, f2
<1>5. ASSUME bus < b2 PROVE bus * Slots + slot + 1 <= b2 * Slots + s2
  <2>1. (bus + 1) * Slots <= b2 * Slots
    BY <1>1, <1>5
  <2>2. (bus + 1) * Slots = bus * Slots + Slots
    BY <1>1
  <2>3. bus * Slots \in Nat /\ b2 * Slots \in Nat
    BY <1>1
  <2> QED BY <1>1, <2>1, <2>2, <2>3
<1> DEFINE u == bus * Slots + slot  v == b2 * Slots + s2
<1>6. u \in Nat /\ v \in Nat
  BY <1>1
<1>7. u + 1 <= v \/ (u = v /\ func <= f2)
  <2>1. CASE bus < b2
    BY <2>1, <1>5
  <2>2. CASE bus = b2
    BY <2>2, <1>1, <1>2, <1>6
  <2> QED BY <2>1, <2>2, <1>1, <1>2
<1> HIDE DEF u, v
<1>8. CASE u + 1 <= v
  <2>1. (u + 1) * Funcs <= v * Funcs
    BY <1>1, <1>6, <1>8
  <2>2. (u + 1) * Funcs = u * Funcs + Funcs
    BY <1>1, <1>6
  <2>3. u * Funcs \in Nat /\ v * Funcs \in Nat
    BY <1>1, <1>6
  <2>4. u * Funcs + func <= v * Funcs + f2
    BY <1>1, <2>1, <2>2, <2>3
  <2> QED BY <1>3, <1>4, <2>4 DEF u, v
<1>9. CASE u = v /\ func <= f2
  <2>1. u * Funcs \in Nat
    BY <1>1, <1>6
  <2>2. u * Funcs + func <= v * Funcs + f2
    BY <1>1, <1>9, <2>1
  <2> QED BY <1>3, <1>4, <2>2 DEF u, v
<1> QED BY <1>7, <1>8, <1>9

\* A remainder taken twice.
LEMMA Remainder ==
    ASSUME NEW n \in Nat \ {0}, NEW k \in Nat
    PROVE  /\ k % n \in 0 .. n - 1
           /\ k < n => k % n = k
           /\ n % n = 0
           /\ k - (k % n) + (k % n) = k
OBVIOUS

\* Both decodings of a base address give the one that the register means.
LEMMA BaseAddress ==
    ASSUME SystemsAssumption, sys \in Systems, NEW c \in Functions
    PROVE  /\ pci_read_bar64(c) = mmio_base(c)
           /\ mmio_base(c) \in Nat
           /\ ~IsIo(c.bar0) =>
                 mmio_base(c) = (c.bar0 \div 16) * 16
                                + (IF (c.bar0 % 8) \div 2 = 2 THEN Word * c.bar1 ELSE 0)
<1> DEFINE b == c.bar0  hi == c.bar1
<1>1. b \in Nat /\ hi \in Nat /\ Word \in Nat
  <2>1. c.bar0 \in Register /\ c.bar1 \in Register
    BY DEF Functions
  <2> QED BY <2>1, SystemFacts DEF Register
<1>2. mmio_base(c) = IF b % 2 = 1 THEN b - (b % 4)
                     ELSE b - (b % 16) + (IF (b \div 2) % 4 = 2 THEN hi * Word ELSE 0)
  BY DEF mmio_base, IsIo, Is64, Low
<1>3. pci_read_bar64(c) = IF b % 2 = 1 THEN b - (b % 4)
                          ELSE IF (b \div 2) % 4 = 2 THEN hi * Word + (b - (b % 16))
                          ELSE b - (b % 16)
  BY DEF pci_read_bar64, IsIo, Is64, Low
<1>4. IsIo(c.bar0) <=> b % 2 = 1
  BY DEF IsIo
<1> HIDE DEF b, hi
<1> DEFINE w == hi * Word
<1>5. w \in Nat /\ w = Word * hi
  BY <1>1
<1> HIDE DEF w
<1>6. /\ b - (b % 4) \in Nat /\ b - (b % 16) \in Nat /\ (b \div 16) * 16 = b - (b % 16)
      /\ b % 2 # 1 => ((b \div 2) % 4 = 2 <=> (b % 8) \div 2 = 2)
  BY <1>1
<1>7. pci_read_bar64(c) = mmio_base(c) /\ mmio_base(c) \in Nat
  BY <1>2, <1>3, <1>5, <1>6 DEF w
<1>8. ~IsIo(c.bar0) => mmio_base(c) = (b \div 16) * 16 + (IF (b % 8) \div 2 = 2 THEN Word * hi ELSE 0)
  BY <1>2, <1>4, <1>5, <1>6 DEF w
<1> QED BY <1>7, <1>8 DEF b, hi

--------------------------------------------------------------------------------

LEMMA PciStart == ASSUME SystemsAssumption, PciInit PROVE PciInv
<1>1. PciTypeOK
  BY SystemFacts DEF PciInit, PciTypeOK, lookup_table
<1>2. ScanInv /\ FoundInv /\ CmdInv /\ BaseInv
  BY DEF PciInit, ScanInv, FoundInv, CmdInv, BaseInv, Located, Enabled
<1> QED BY <1>1, <1>2 DEF PciInv

\* Steps that begin no search, and find nothing, leave what there is to find.
LEMMA SameWanted ==
    ASSUME UNCHANGED <<sys, type>>
    PROVE  /\ Matches' = Matches
           /\ \A x : mmio_base(sys[x])' = mmio_base(sys[x])
BY DEF Matches, Exists, Wanted, mmio_base, IsIo, Is64, Low, Sites, Absent

\* A search begins with nothing passed.
LEMMA SearchBegins ==
    ASSUME SystemsAssumption, PciInv, NEW t \in DOMAIN lookup_table, findPciDevice(t)
    PROVE  PciInv'
<1> USE DEF findPciDevice
<1>1. PciTypeOK'
  BY SystemFacts DEF PciInv, PciTypeOK, lookup_table
<1>2. ASSUME NEW x \in Sites PROVE ~Passed(x)'
  BY SystemFacts DEF Passed, Sites, PciInv, PciTypeOK
<1>3. ScanInv'
  BY <1>2 DEF ScanInv, Matches
<1>4. CmdInv'
  BY DEF CmdInv, PciInv, Enabled
<1> QED BY <1>1, <1>3, <1>4 DEF PciInv, FoundInv, BaseInv, Located

\* A slot is left when none of its functions from this one on is wanted.
LEMMA SlotPassed ==
    ASSUME SystemsAssumption, PciTypeOK, bus < Buses, NextSlot,
           \A x \in Matches : ~Passed(x),
           \A f \in func .. Funcs - 1 : <<bus, slot, f>> \notin Matches,
           UNCHANGED <<sys, type>>
    PROVE  PciTypeOK' /\ \A x \in Matches' : ~Passed(x)'
<1>1. /\ Slots \in Nat \ {0} /\ Funcs \in Nat \ {0} /\ Buses \in Nat \ {0}
      /\ bus \in 0 .. Buses - 1 /\ slot \in 0 .. Slots - 1 /\ func \in 0 .. Funcs - 1
  BY SystemFacts DEF PciTypeOK
<1>2. /\ func' = 0
      /\ IF slot + 1 = Slots THEN slot' = 0 /\ bus' = bus + 1 ELSE slot' = slot + 1 /\ bus' = bus
  <2>1. CASE slot + 1 = Slots
    <3>1. Slots % Slots = 0
      BY <1>1, Remainder
    <3> QED BY <2>1, <3>1 DEF NextSlot
  <2>2. CASE slot + 1 # Slots
    <3>1. slot + 1 \in Nat /\ slot + 1 < Slots
      BY <1>1, <2>2
    <3>2. (slot + 1) % Slots = slot + 1
      BY <1>1, <3>1, Remainder
    <3> QED BY <2>2, <3>2 DEF NextSlot
  <2> QED BY <2>1, <2>2
<1>3. pci_pc' = pci_pc
  BY DEF NextSlot
<1>4. PciTypeOK'
  BY <1>1, <1>2, <1>3 DEF PciTypeOK
<1>5. ASSUME NEW x \in Matches, Passed(x)' PROVE FALSE
  <2>1. x \in Sites
    BY DEF Matches
  <2>2. /\ x = <<x[1], x[2], x[3]>> /\ x[1] \in 0 .. Buses - 1
        /\ x[2] \in 0 .. Slots - 1 /\ x[3] \in 0 .. Funcs - 1
    BY <2>1 DEF Sites
  <2>3. ~Passed(x)
    OBVIOUS
  <2>4. x[1] = bus /\ x[2] = slot /\ x[3] \in func .. Funcs - 1
    BY <1>1, <1>2, <1>5, <2>2, <2>3 DEF Passed
  <2> QED BY <2>2, <2>4
<1> QED BY <1>4, <1>5, SameWanted

\* One function is left when it is not wanted.
LEMMA FunctionPassed ==
    ASSUME SystemsAssumption, PciTypeOK, bus < Buses, NextFunc,
           \A x \in Matches : ~Passed(x),
           <<bus, slot, func>> \notin Matches,
           UNCHANGED <<sys, type>>
    PROVE  PciTypeOK' /\ \A x \in Matches' : ~Passed(x)'
<1>1. /\ Slots \in Nat \ {0} /\ Funcs \in Nat \ {0} /\ Buses \in Nat \ {0}
      /\ bus \in 0 .. Buses - 1 /\ slot \in 0 .. Slots - 1 /\ func \in 0 .. Funcs - 1
  BY SystemFacts DEF PciTypeOK
<1>2. CASE func + 1 = Funcs
  <2>1. NextSlot
    BY <1>2 DEF NextFunc
  <2>2. ASSUME NEW f \in func .. Funcs - 1 PROVE <<bus, slot, f>> \notin Matches
    <3>1. f = func
      BY <1>1, <1>2
    <3> QED BY <3>1
  <2> QED BY <2>1, <2>2, SlotPassed
<1>3. CASE func + 1 # Funcs
  <2>1. func' = func + 1 /\ bus' = bus /\ slot' = slot /\ pci_pc' = pci_pc
    BY <1>3 DEF NextFunc
  <2>2. PciTypeOK'
    BY <1>1, <1>3, <2>1 DEF PciTypeOK
  <2>3. ASSUME NEW x \in Matches, Passed(x)' PROVE FALSE
    <3>1. x \in Sites
      BY DEF Matches
    <3>2. /\ x = <<x[1], x[2], x[3]>> /\ x[1] \in 0 .. Buses - 1
          /\ x[2] \in 0 .. Slots - 1 /\ x[3] \in 0 .. Funcs - 1
      BY <3>1 DEF Sites
    <3>3. ~Passed(x)
      OBVIOUS
    <3>4. x[1] = bus /\ x[2] = slot /\ x[3] = func
      BY <1>1, <2>1, <2>3, <3>2, <3>3 DEF Passed
    <3> QED BY <3>2, <3>4
  <2> QED BY <2>2, <2>3, SameWanted
<1> QED BY <1>2, <1>3

\* One place of the search.
LEMMA ScanStep ==
    ASSUME SystemsAssumption, PciInv, ScanFunction
    PROVE  PciInv'
<1> DEFINE c == readConfig(bus, slot, func)
<1>1. /\ pci_pc = "scan" /\ bus < Buses
      /\ UNCHANGED <<sys, type, cmd, bar, base>>
  BY DEF ScanFunction
<1>2. /\ bus \in 0 .. Buses - 1 /\ slot \in 0 .. Slots - 1 /\ func \in 0 .. Funcs - 1
      /\ sys \in Systems /\ type \in DOMAIN lookup_table /\ PciTypeOK
      /\ \A x \in Matches : ~Passed(x)
      /\ Buses \in Nat /\ Slots \in Nat /\ Funcs \in Nat \ {0}
  BY <1>1, SystemFacts DEF PciInv, PciTypeOK, ScanInv
<1>3. ASSUME NEW f \in 0 .. Funcs - 1 PROVE <<bus, slot, f>> \in Sites
  BY <1>2, <1>3 DEF Sites
<1>7. \A f \in 0 .. Funcs - 1 : ReadsWell(bus, slot, f)
  BY <1>2, ReadsFunction
<1>4. CASE readConfig(bus, slot, 0).vendor = 65535 \/ (func > 0 /\ ~readConfig(bus, slot, 0).multi)
  <2>1. NextSlot
    BY <1>4 DEF ScanFunction
  <2>2. ASSUME NEW f \in func .. Funcs - 1 PROVE <<bus, slot, f>> \notin Matches
    <3>1. f \in 0 .. Funcs - 1 /\ (func > 0 => f > 0)
      BY <1>2
    <3>2. ~Exists(<<bus, slot, f>>)
      BY <1>2, <1>4, <3>1, <1>7 DEF ReadsWell
    <3> QED BY <3>2 DEF Matches
  <2>3. PciTypeOK' /\ \A x \in Matches' : ~Passed(x)'
    BY <1>1, <1>2, <2>1, <2>2, SlotPassed
  <2>4. pci_pc' = "scan" /\ outDev' = outDev
    BY <1>1, <2>1 DEF NextSlot
  <2> QED BY <1>1, <2>3, <2>4 DEF PciInv, ScanInv, FoundInv, CmdInv, BaseInv, Located, Enabled
<1>5. CASE /\ ~(readConfig(bus, slot, 0).vendor = 65535 \/ (func > 0 /\ ~readConfig(bus, slot, 0).multi))
           /\ c.vendor = 65535 \/ ~is_match(c)
  <2>1. NextFunc
    BY <1>5 DEF ScanFunction
  <2>2. <<bus, slot, func>> \notin Matches
    <3>1. CASE c.vendor = 65535
      BY <1>2, <3>1, <1>7 DEF Matches, ReadsWell
    <3>2. CASE ~is_match(c)
      <4>1. Exists(<<bus, slot, func>>) => c = sys[<<bus, slot, func>>]
        BY <1>2, <1>7 DEF ReadsWell
      <4> QED BY <1>2, <3>2, <4>1, MatchIsWanted DEF Matches
    <3> QED BY <1>5, <3>1, <3>2
  <2>3. PciTypeOK' /\ \A x \in Matches' : ~Passed(x)'
    BY <1>1, <1>2, <2>1, <2>2, FunctionPassed
  <2>4. pci_pc' = "scan" /\ outDev' = outDev
    BY <1>1, <2>1 DEF NextFunc, NextSlot
  <2> QED BY <1>1, <2>3, <2>4 DEF PciInv, ScanInv, FoundInv, CmdInv, BaseInv, Located, Enabled
<1>6. CASE /\ ~(readConfig(bus, slot, 0).vendor = 65535 \/ (func > 0 /\ ~readConfig(bus, slot, 0).multi))
           /\ ~(c.vendor = 65535 \/ ~is_match(c))
  <2>1. /\ outDev' = [place |-> <<bus, slot, func>>, vendor |-> c.vendor,
                     device |-> c.device, mmio_base |-> mmio_base(c)]
        /\ pci_pc' = "found" /\ UNCHANGED <<bus, slot, func>>
    BY <1>6 DEF ScanFunction
  <2>2. Exists(<<bus, slot, func>>) /\ c = sys[<<bus, slot, func>>]
    BY <1>2, <1>6, <1>7 DEF ReadsWell
  <2>3. <<bus, slot, func>> \in Matches
    BY <1>2, <1>3, <1>6, <2>2, MatchIsWanted DEF Matches
  <2>4. PciTypeOK'
    BY <1>1, <1>2, <2>1 DEF PciTypeOK
  <2>5. \A x \in Matches' : ~Passed(x)'
    BY <1>1, <1>2, <2>1, SameWanted DEF Passed
  <2>6. FoundInv'
    <3>1. outDev'.place = <<bus', slot', func'>> /\ bus' < Buses
      BY <1>1, <2>1
    <3>2. outDev'.place \in Matches'
      BY <1>1, <2>1, <2>3, SameWanted
    <3>3. outDev'.mmio_base = mmio_base(sys[outDev.place])'
      BY <1>1, <2>1, <2>2 DEF mmio_base, IsIo, Is64, Low
    <3> QED BY <2>5, <3>1, <3>2, <3>3 DEF FoundInv
  <2> QED BY <1>1, <2>1, <2>4, <2>6 DEF PciInv, ScanInv, CmdInv, BaseInv, Enabled
<1> QED BY <1>4, <1>5, <1>6

\* The last place is passed: nothing was there.
LEMMA SearchEnds ==
    ASSUME SystemsAssumption, PciInv, NotFound
    PROVE  PciInv'
<1>1. /\ pci_pc = "scan" /\ bus = Buses /\ pci_pc' = "none"
      /\ UNCHANGED <<sys, type, bus, slot, func, outDev, cmd, bar, base>>
  BY DEF NotFound
<1>2. Matches = {}
  <2>1. ASSUME NEW x \in Matches PROVE FALSE
    <3>1. x \in Sites /\ ~Passed(x)
      BY <1>1, <2>1 DEF Matches, PciInv, ScanInv
    <3>2. x[1] < bus
      BY <1>1, <3>1, SystemFacts DEF Sites, PciInv, PciTypeOK
    <3> QED BY <3>1, <3>2 DEF Passed
  <2> QED BY <2>1
<1>3. Matches' = {}
  BY <1>1, <1>2, SameWanted
<1>4. PciTypeOK'
  BY <1>1 DEF PciInv, PciTypeOK
<1> QED BY <1>1, <1>3, <1>4 DEF PciInv, ScanInv, FoundInv, CmdInv, BaseInv, Located, Enabled

\* What was found stays what it is while usb_init works on it.
LEMMA FoundKept ==
    ASSUME PciInv, Located, Located',
           UNCHANGED <<sys, type, bus, slot, func, outDev>>
    PROVE  FoundInv'
<1>1. \A x \in Matches' : ~Passed(x)'
  BY SameWanted DEF Passed, PciInv, FoundInv
<1>2. Matches' = Matches /\ mmio_base(sys[outDev.place])' = mmio_base(sys[outDev.place])
  BY SameWanted
<1> QED BY <1>1, <1>2 DEF PciInv, FoundInv

\* The place that was found is a place, and its registers are read there.
LEMMA FoundRead ==
    ASSUME SystemsAssumption, PciInv, Located
    PROVE  /\ outDev.place \in Sites /\ sys[outDev.place] \in Functions
           /\ readConfig(outDev.place[1], outDev.place[2], outDev.place[3]) = sys[outDev.place]
<1>1. /\ outDev.place = <<bus, slot, func>> /\ outDev.place \in Matches
      /\ bus \in 0 .. Buses - 1 /\ slot \in 0 .. Slots - 1 /\ func \in 0 .. Funcs - 1
      /\ sys \in Systems
  BY SystemFacts DEF PciInv, PciTypeOK, FoundInv
<1>2. outDev.place \in Sites /\ Exists(<<bus, slot, func>>)
  BY <1>1 DEF Matches
<1>3. readConfig(bus, slot, func) = sys[<<bus, slot, func>>]
  BY <1>1, <1>2, ReadsFunction DEF ReadsWell
<1> QED BY <1>1, <1>2, <1>3, SystemFacts

LEMMA Enabling ==
    ASSUME SystemsAssumption, PciInv, EnableDevice
    PROVE  PciInv'
<1>1. /\ pci_pc = "found" /\ pci_pc' = "bar"
      /\ cmd' = [cmd EXCEPT ![outDev.place] = @ \cup {"io", "memory", "master"}]
      /\ UNCHANGED <<sys, type, bus, slot, func, outDev, bar, base>>
  BY DEF EnableDevice
<1>2. Located /\ Located'
  BY <1>1 DEF Located
<1>3. outDev.place \in Sites
  BY <1>2, FoundRead
<1>4. CmdInv'
  BY <1>1, <1>3 DEF PciInv, CmdInv, Enabled
<1>5. PciTypeOK' /\ ScanInv' /\ BaseInv'
  BY <1>1, SameWanted DEF PciInv, PciTypeOK, ScanInv, BaseInv
<1> QED BY <1>1, <1>2, <1>4, <1>5, FoundKept DEF PciInv

LEMMA Reading ==
    ASSUME SystemsAssumption, PciInv, ReadBar
    PROVE  PciInv'
<1> DEFINE c == sys[outDev.place]
<1>1. /\ pci_pc = "bar"
      /\ UNCHANGED <<sys, type, bus, slot, func, outDev, cmd, base>>
  BY DEF ReadBar
<1>2. Located
  BY <1>1 DEF Located
<1>3. /\ bar' = pci_read_bar64(c)
      /\ pci_pc' = IF bar' = 0 \/ IsIo(c.bar0) THEN "none" ELSE "map"
  BY <1>2, FoundRead DEF ReadBar
<1>4. bar' = mmio_base(c)
  BY <1>2, <1>3, FoundRead, BaseAddress DEF PciInv, PciTypeOK
<1>5. PciTypeOK'
  BY <1>1, <1>3 DEF PciInv, PciTypeOK
<1>6. CmdInv'
  BY <1>1, <1>3 DEF PciInv, CmdInv, Enabled
<1>7. CASE bar' = 0 \/ IsIo(c.bar0)
  <2>1. pci_pc' = "none" /\ bus' # Buses
    BY <1>1, <1>2, <1>3, <1>7, SystemFacts DEF PciInv, FoundInv, PciTypeOK
  <2> QED BY <1>5, <1>6, <2>1 DEF PciInv, ScanInv, FoundInv, BaseInv, Located
<1>8. CASE ~(bar' = 0 \/ IsIo(c.bar0))
  <2>1. pci_pc' = "map"
    BY <1>3, <1>8
  <2>2. FoundInv'
    BY <1>1, <1>2, <2>1, FoundKept DEF Located
  <2>3. BaseInv'
    BY <1>1, <1>4, <1>8, <2>1, SameWanted DEF BaseInv, IsIo
  <2> QED BY <1>5, <1>6, <2>1, <2>2, <2>3 DEF PciInv, ScanInv
<1> QED BY <1>7, <1>8

LEMMA Starting ==
    ASSUME SystemsAssumption, PciInv, StartDriver
    PROVE  PciInv'
<1>1. /\ pci_pc = "map" /\ pci_pc' = "run"
      /\ base' = Low(bar, PageSize) + (bar % PageSize)
      /\ UNCHANGED <<sys, type, bus, slot, func, outDev, cmd, bar>>
  BY DEF StartDriver
<1>2. Located /\ Located'
  BY <1>1 DEF Located
<1>3. bar \in Nat
  <2>1. bar = mmio_base(sys[outDev.place])
    BY <1>1 DEF PciInv, BaseInv
  <2> QED BY <1>2, <2>1, FoundRead, BaseAddress DEF PciInv, PciTypeOK
<1>4. base' = bar'
  <2>1. PageSize \in Nat \ {0}
    BY SystemFacts DEF PciInv, PciTypeOK
  <2>2. bar - (bar % PageSize) + (bar % PageSize) = bar
    BY <1>3, <2>1, Remainder
  <2> QED BY <1>1, <2>2 DEF Low
<1>5. BaseInv'
  BY <1>1, <1>4, SameWanted DEF PciInv, BaseInv, IsIo
<1>6. PciTypeOK' /\ CmdInv' /\ ScanInv'
  BY <1>1, SameWanted DEF PciInv, PciTypeOK, CmdInv, ScanInv, Enabled
<1> QED BY <1>1, <1>2, <1>5, <1>6, FoundKept DEF PciInv

LEMMA PciStep ==
    ASSUME SystemsAssumption, PciInv, [PciNext]_pciVars
    PROVE  PciInv'
<1>1. CASE UNCHANGED pciVars
  <2>1. \A x \in Matches : Passed(x)' <=> Passed(x)
    BY <1>1 DEF pciVars, Passed
  <2> QED BY <1>1, <2>1, SameWanted
          DEF pciVars, PciInv, PciTypeOK, ScanInv, FoundInv, CmdInv, BaseInv, Located, Enabled, IsIo
<1> QED BY <1>1, SearchBegins, ScanStep, SearchEnds, Enabling, Reading, Starting DEF PciNext

LEMMA PciShown ==
    ASSUME SystemsAssumption, PciInv
    PROVE  FindsFirst /\ RunsAtBase
<1> DEFINE c == sys[outDev.place]
<1>0. sys \in Systems
  BY DEF PciInv, PciTypeOK
<1>1. CASE Located
  <2>1. /\ outDev.place = <<bus, slot, func>> /\ outDev.place \in Matches /\ bus < Buses
        /\ \A x \in Matches : ~Passed(x)
        /\ outDev.mmio_base = mmio_base(c)
    BY <1>1 DEF PciInv, FoundInv
  <2>2. bus \in 0 .. Buses - 1 /\ slot \in 0 .. Slots - 1 /\ func \in 0 .. Funcs - 1
    BY <2>1, <1>0, SystemFacts DEF PciInv, PciTypeOK
  <2>3. ASSUME NEW x \in Matches PROVE Rank(outDev.place) <= Rank(x)
    <3>1. x \in Sites /\ ~Passed(x)
      BY <2>1 DEF Matches
    <3> QED BY <1>0, <2>1, <2>2, <3>1, RankOrder
  <2>4. FindsFirst
    BY <1>1, <2>1, <2>3 DEF FindsFirst, Located
  <2>5. RunsAtBase
    <3>1. SUFFICES ASSUME pci_pc = "run"
                   PROVE  /\ {"memory", "master"} \subseteq cmd[outDev.place]
                          /\ ~IsIo(c.bar0) /\ base > 0
                          /\ base = (c.bar0 \div 16) * 16 + (IF (c.bar0 % 8) \div 2 = 2 THEN Word * c.bar1 ELSE 0)
                          /\ base = outDev.mmio_base
                          /\ \A x \in Sites \ {outDev.place} : cmd[x] = {"io"}
      BY DEF RunsAtBase
    <3>2. ~IsIo(c.bar0) /\ base = mmio_base(c) /\ base # 0
      BY <3>1 DEF PciInv, BaseInv
    <3>3. c \in Functions
      BY <1>1, FoundRead
    <3>4. /\ base \in Nat
          /\ base = (c.bar0 \div 16) * 16 + (IF (c.bar0 % 8) \div 2 = 2 THEN Word * c.bar1 ELSE 0)
      BY <1>0, <3>2, <3>3, BaseAddress
    <3>5. /\ cmd[outDev.place] = {"io", "memory", "master"}
          /\ \A x \in Sites \ {outDev.place} : cmd[x] = {"io"}
      BY <3>1 DEF PciInv, CmdInv, Enabled
    <3> QED BY <2>1, <3>2, <3>4, <3>5
  <2> QED BY <2>4, <2>5
<1>2. CASE ~Located
  BY <1>2 DEF Located, FindsFirst, RunsAtBase, PciInv, ScanInv
<1> QED BY <1>1, <1>2

--------------------------------------------------------------------------------
(* The walk over the configuration *)

\* The walk stands before the descriptor k, behind the interface kb.
LastBefore(k, kb) == kb < k /\ \A g \in Interfaces : g <= kb \/ g >= k

StandsBefore(k) ==
    /\ off = dev.starts[k]
    /\ in_hid_iface => \E kb \in Keyboards : LastBefore(k, kb)
    /\ \A kb \in Keyboards : LastBefore(k, kb) => in_hid_iface /\ out_iface = dev.parts[kb][3]
    /\ \A x \in Pairs : x[1] >= k

Given == total <= Len(Received(dev))

HidTypeOK ==
    /\ dev \in Devices
    /\ cfg = Received(dev) \o SubSeq(Stale, Len(Received(dev)) + 1, Len(Stale))
    /\ in_hid_iface \in BOOLEAN
    /\ hid_pc \in {"parts", "found", "none"}

ReadInv == Given => off \in Nat /\ hid_top \in Nat /\ hid_top <= total

HidInv ==
    /\ HidTypeOK /\ ReadInv /\ FindsKeyboard
    /\ Whole /\ hid_pc = "parts" => \E k \in 1 .. Len(dev.parts) + 1 : StandsBefore(k)

--------------------------------------------------------------------------------

LEMMA DeviceFacts ==
    ASSUME DevicesAssumption, dev \in Devices
    PROVE  /\ Request \in Nat /\ Request >= 4 /\ Stale \in Seq(0 .. 255) /\ Request <= Len(Stale)
           /\ dev.parts \in Seq(Seq(0 .. 255)) /\ dev.bytes \in Seq(0 .. 255) /\ dev.sent \in Nat
           /\ dev.starts \in [1 .. Len(dev.parts) + 1 -> Nat]
           /\ dev.starts[1] = 0 /\ dev.starts[Len(dev.parts) + 1] = Len(dev.bytes)
           /\ \A k \in 1 .. Len(dev.parts) :
                 /\ dev.parts[k] \in Seq(0 .. 255)
                 /\ dev.starts[k + 1] = dev.starts[k] + Len(dev.parts[k])
                 /\ \A x \in 1 .. Len(dev.parts[k]) : dev.bytes[dev.starts[k] + x] = dev.parts[k][x]
<1>1. /\ Request \in Nat /\ Request >= 4 /\ Stale \in Seq(0 .. 255) /\ Request <= Len(Stale)
      /\ dev.parts \in Seq(Seq(0 .. 255)) /\ dev.bytes \in Seq(0 .. 255) /\ dev.sent \in Nat
      /\ dev.starts \in [1 .. Len(dev.parts) + 1 -> Nat]
      /\ dev.starts[1] = 0 /\ dev.starts[Len(dev.parts) + 1] = Len(dev.bytes)
      /\ \A k \in DOMAIN dev.parts :
            /\ dev.starts[k + 1] = dev.starts[k] + Len(dev.parts[k])
            /\ \A x \in 1 .. Len(dev.parts[k]) : dev.bytes[dev.starts[k] + x] = dev.parts[k][x]
  BY Zenon DEF DevicesAssumption
<1>2. DOMAIN dev.parts = 1 .. Len(dev.parts)
  BY <1>1
<1>3. \A k \in 1 .. Len(dev.parts) : dev.parts[k] \in Seq(0 .. 255)
  BY <1>1, ElementOfSeq
<1> QED BY <1>1, <1>2, <1>3

\* ctrl_buf begins with the bytes received, and the total length in it is a
\* number, whether it was received or not.
LEMMA ConfigBytes ==
    ASSUME DevicesAssumption, HidTypeOK
    PROVE  /\ Len(Received(dev)) \in Nat /\ Len(Received(dev)) <= Len(dev.bytes)
           /\ \A x \in 1 .. Len(Received(dev)) : cfg[x] = dev.bytes[x] /\ cfg[x] \in 0 .. 255
           /\ total \in Nat
<1> DEFINE t == dev.sent  l == Len(dev.bytes)  m == Smaller(t, Smaller(l, Request))
<1>1. /\ t \in Nat /\ l \in Nat /\ Request \in Nat
      /\ dev.bytes \in Seq(0 .. 255) /\ Stale \in Seq(0 .. 255) /\ Request >= 4 /\ Request <= Len(Stale)
  BY DeviceFacts DEF HidTypeOK
<1>2. m \in Nat /\ m <= l /\ m <= Request
  BY <1>1 DEF Smaller
<1>3. Received(dev) = SubSeq(dev.bytes, 1, m)
  BY DEF Received
<1> HIDE DEF m, t, l
<1>4. /\ Len(Received(dev)) = m /\ Received(dev) \in Seq(0 .. 255)
      /\ \A x \in 1 .. m : Received(dev)[x] = dev.bytes[x] /\ dev.bytes[x] \in 0 .. 255
  <2>1. \A i \in 1 .. m : dev.bytes[i] \in 0 .. 255
    <3>1. \A i \in 1 .. m : i \in 1 .. Len(dev.bytes)
      BY <1>1, <1>2 DEF l
    <3> QED BY <1>1, <3>1, ElementOfSeq
  <2>2. m \in Int /\ 1 \in Int
    BY <1>1, <1>2
  <2>3. /\ SubSeq(dev.bytes, 1, m) \in Seq(0 .. 255)
        /\ Len(SubSeq(dev.bytes, 1, m)) = IF 1 <= m THEN m - 1 + 1 ELSE 0
        /\ \A i \in 1 .. m - 1 + 1 : SubSeq(dev.bytes, 1, m)[i] = dev.bytes[1 + i - 1]
    BY <2>1, <2>2, SubSeqProperties
  <2> DEFINE r == SubSeq(dev.bytes, 1, m)  z == Len(SubSeq(dev.bytes, 1, m))
  <2> HIDE DEF r, z
  <2>4. z = m
    <3>1. z = IF 1 <= m THEN m - 1 + 1 ELSE 0
      BY <2>3 DEF z
    <3> QED BY <1>1, <1>2, <3>1
  <2>5. \A i \in 1 .. m : r[i] = dev.bytes[i]
    <3>1. \A i \in 1 .. m : i \in 1 .. m - 1 + 1 /\ 1 + i - 1 = i
      BY <1>1, <1>2
    <3> QED BY <2>3, <3>1 DEF r
  <2> QED BY <1>3, <2>1, <2>3, <2>4, <2>5 DEF r, z
<1>5. /\ \A x \in 1 .. m : cfg[x] = Received(dev)[x]
      /\ cfg \in Seq(0 .. 255) /\ Len(cfg) >= 4
  <2> DEFINE r == Received(dev)  s == SubSeq(Stale, Len(Received(dev)) + 1, Len(Stale))
  <2>1. cfg = r \o s
    BY DEF HidTypeOK
  <2>2. s \in Seq(0 .. 255) /\ Len(s) = Len(Stale) - m
    <3> DEFINE a == Len(Received(dev)) + 1  z == Len(Stale)
    <3>1. a \in Nat \ {0} /\ z \in Nat
      BY <1>1, <1>2, <1>4
    <3>2. \A i \in a .. z : i \in 1 .. Len(Stale)
      BY <3>1
    <3>3. \A i \in a .. z : Stale[i] \in 0 .. 255
      BY <1>1, <3>2, ElementOfSeq
    <3> HIDE DEF a, z
    <3>4. /\ SubSeq(Stale, a, z) \in Seq(0 .. 255)
          /\ Len(SubSeq(Stale, a, z)) = IF a <= z THEN z - a + 1 ELSE 0
      BY <3>1, <3>3, SubSeqProperties
    <3>5. z = Len(Stale) /\ a = m + 1 /\ m <= z
      BY <1>1, <1>2, <1>4 DEF a, z
    <3>6. (IF a <= z THEN z - a + 1 ELSE 0) = z - m
      BY <1>2, <3>1, <3>5
    <3> QED BY <3>4, <3>5, <3>6 DEF a, z
  <2>3. r \in Seq(0 .. 255) /\ Len(r) = m
    BY <1>4
  <2> HIDE DEF r, s
  <2>4. \A x \in 1 .. m : (r \o s)[x] = r[x]
    BY <1>1, <1>2, <2>2, <2>3
  <2>5. r \o s \in Seq(0 .. 255) /\ Len(r \o s) >= 4
    <3>1. r \o s \in Seq(0 .. 255) /\ Len(r \o s) = Len(r) + Len(s)
      BY <2>2, <2>3, ConcatProperties
    <3> DEFINE z == Len(Stale)  y == Len(s)
    <3>2. m \in Nat /\ z \in Nat /\ z >= 4 /\ y = z - m
      BY <1>1, <1>2, <2>2
    <3> HIDE DEF y, z
    <3>3. m + y >= 4
      BY <3>2
    <3> QED BY <2>3, <3>1, <3>3 DEF y
  <2> QED BY <2>1, <2>4, <2>5 DEF r
<1>6. total \in Nat
  <2>1. \A x \in 1 .. 4 : x \in 1 .. Len(cfg)
    BY <1>5
  <2>2. cfg[3] \in 0 .. 255 /\ cfg[4] \in 0 .. 255
    BY <1>5, <2>1, ElementOfSeq
  <2>3. total = cfg[3] + 256 * cfg[4]
    BY DEF total, Ctrl
  <2>4. \A a, b \in 0 .. 255 : a + 256 * b \in Nat
    OBVIOUS
  <2> QED BY <2>2, <2>3, <2>4
<1> QED BY <1>1, <1>2, <1>4, <1>5, <1>6 DEF l

\* Where no more is stated than was received, the bytes read are the device's.
LEMMA OwnBytes ==
    ASSUME DevicesAssumption, HidTypeOK, Given
    PROVE  /\ total \in Nat /\ total <= Len(dev.bytes) /\ Len(Received(dev)) \in Nat
           /\ \A x \in 1 .. total : cfg[x] = dev.bytes[x] /\ cfg[x] \in 0 .. 255
<1>1. Len(dev.bytes) \in Nat
  BY DeviceFacts DEF HidTypeOK
<1>2. total <= Len(Received(dev))
  BY DEF Given
<1> QED BY <1>1, <1>2, ConfigBytes

LEMMA WholeGiven ==
    ASSUME DevicesAssumption, HidTypeOK, Whole
    PROVE  Given /\ total = dev.starts[Len(dev.parts) + 1]
<1>1. Received(dev) = dev.bytes /\ total = Len(dev.bytes)
  BY DEF Whole
<1>2. total \in Nat
  BY ConfigBytes
<1>3. dev.starts[Len(dev.parts) + 1] = Len(dev.bytes)
  BY DeviceFacts DEF HidTypeOK
<1> QED BY <1>1, <1>2, <1>3 DEF Given

\* The descriptors begin one after the other.
LEMMA StartsGrow ==
    ASSUME DevicesAssumption, dev \in Devices, NEW k \in 1 .. Len(dev.parts) + 1
    PROVE  dev.starts[k] <= dev.starts[Len(dev.parts) + 1]
<1> DEFINE n == Len(dev.parts)  S == dev.starts
<1>1. n \in Nat /\ S \in [1 .. n + 1 -> Nat]
  BY DeviceFacts
<1>2. \A i \in 1 .. n : S[i] <= S[i + 1]
  <2> TAKE i \in 1 .. n
  <2>1. dev.parts[i] \in Seq(0 .. 255) /\ S[i + 1] = S[i] + Len(dev.parts[i])
    BY DeviceFacts
  <2>2. Len(dev.parts[i]) \in Nat /\ S[i] \in Nat
    BY <1>1, <2>1
  <2> QED BY <2>1, <2>2
<1> HIDE DEF n, S
<1>3. \A d \in 0 .. n : S[n + 1 - d] <= S[n + 1]
  <2> DEFINE G == {d \in 0 .. n : S[n + 1 - d] > S[n + 1]}
  <2>0. \A d \in 0 .. n : n + 1 - d \in 1 .. n + 1 /\ S[n + 1 - d] \in Nat /\ S[n + 1] \in Nat
    BY <1>1
  <2>1. SUFFICES ASSUME G # {} PROVE FALSE
    BY <2>0
  <2>2. G \subseteq Nat
    BY <1>1
  <2>3. PICK d \in G : \A v \in G : d <= v
    BY <2>1, <2>2, Minimum
  <2>4. d # 0 /\ d - 1 \in 0 .. n /\ d - 1 \notin G
    <3>1. d \in 0 .. n /\ S[n + 1 - d] > S[n + 1]
      BY <2>3
    <3>2. d # 0
      BY <1>1, <2>0, <3>1
    <3>3. d - 1 \in 0 .. n /\ ~(d <= d - 1)
      BY <1>1, <3>1, <3>2
    <3> QED BY <2>3, <3>2, <3>3
  <2>5. S[n + 1 - (d - 1)] <= S[n + 1]
    BY <2>0, <2>4
  <2>6. n + 1 - d \in 1 .. n /\ (n + 1 - d) + 1 = n + 1 - (d - 1)
    BY <1>1, <2>3, <2>4
  <2>7. S[n + 1 - d] <= S[n + 1 - (d - 1)]
    BY <1>2, <2>6
  <2> QED BY <2>0, <2>3, <2>4, <2>5, <2>7
<1>4. n + 1 - k \in 0 .. n /\ n + 1 - (n + 1 - k) = k
  BY <1>1 DEF n
<1> QED BY <1>3, <1>4 DEF n, S

--------------------------------------------------------------------------------

LEMMA HidStart == ASSUME DevicesAssumption, HidInit PROVE HidInv
<1>1. HidTypeOK /\ FindsKeyboard
  BY DEF HidInit, HidTypeOK, FindsKeyboard
<1>2. ReadInv
  <2>1. total \in Nat
    BY <1>1, ConfigBytes
  <2> QED BY <2>1 DEF HidInit, ReadInv
<1>3. ASSUME Whole PROVE StandsBefore(1) /\ 1 \in 1 .. Len(dev.parts) + 1
  <2>1. Len(dev.parts) \in Nat /\ dev.starts[1] = 0
    BY DeviceFacts DEF HidInit
  <2>2. \A kb \in Keyboards : ~LastBefore(1, kb)
    BY <2>1 DEF Keyboards, Interfaces, LastBefore
  <2>3. \A x \in Pairs : x[1] >= 1
    BY <2>1 DEF Pairs
  <2> QED BY <2>1, <2>2, <2>3 DEF StandsBefore, HidInit
<1> QED BY <1>1, <1>2, <1>3 DEF HidInv

\* Where no more is stated than was received, a step reads within that.
LEMMA ReadStep ==
    ASSUME DevicesAssumption, HidInv, WalkPart
    PROVE  ReadInv'
<1>1. dev' = dev /\ cfg' = cfg /\ HeadFits
  BY DEF WalkPart
<1>2. total' = total /\ (Given' <=> Given)
  BY <1>1 DEF Given, total, Ctrl, Received, Smaller
<1>3. SUFFICES ASSUME Given PROVE off' \in Nat /\ hid_top' \in Nat /\ hid_top' <= total
  BY <1>1, <1>2 DEF ReadInv
<1>4. off \in Nat /\ hid_top \in Nat /\ hid_top <= total /\ total \in Nat /\ off + 2 <= total
  BY <1>1, <1>3, OwnBytes DEF HidInv, ReadInv, HeadFits
<1>5. Ctrl(off) \in Nat
  <2>1. off + 1 \in 1 .. total
    BY <1>4
  <2>2. cfg[off + 1] \in 0 .. 255
    BY <1>3, <2>1, OwnBytes DEF HidInv
  <2> QED BY <2>2 DEF Ctrl
<1>6. ASSUME NEW n \in Nat, n <= total, Raise(n) PROVE hid_top' \in Nat /\ hid_top' <= total
  BY <1>4, <1>6 DEF Raise
<1>7. off + Ctrl(off) \in Nat
  BY <1>4, <1>5
<1>8. CASE Interface
  <2>1. off + 9 \in Nat /\ off + 9 <= total /\ Raise(off + 9) /\ off' = off + Ctrl(off)
    BY <1>4, <1>8 DEF Interface
  <2> QED BY <1>6, <1>7, <2>1
<1>9. CASE Endpoint
  <2>1. off + 7 \in Nat /\ off + 7 <= total /\ Raise(off + 7) /\ (off' = off \/ off' = off + Ctrl(off))
    BY <1>4, <1>9 DEF Endpoint, IsEndpoint
  <2> QED BY <1>4, <1>6, <1>7, <2>1
<1>10. CASE OtherPart
  <2>1. off + 2 \in Nat /\ off + 2 <= total /\ Raise(off + 2) /\ off' = off + Ctrl(off)
    BY <1>4, <1>10 DEF OtherPart
  <2> QED BY <1>6, <1>7, <2>1
<1> QED BY <1>8, <1>9, <1>10 DEF WalkPart

\* The descriptor that the walk stands before, as it reads it.
ConfigReads(k) ==
    /\ k \in 1 .. Len(dev.parts) /\ WellFormed(dev.parts[k])
    /\ \A i \in 0 .. Len(dev.parts[k]) - 1 : Ctrl(off + i) = dev.parts[k][i + 1]
    /\ Len(dev.parts[k]) \in Nat /\ off \in Nat /\ total \in Nat
    /\ off + Len(dev.parts[k]) <= total
    /\ dev.starts[k + 1] = off + Len(dev.parts[k])

LEMMA WalkReads ==
    ASSUME DevicesAssumption, HidInv, Whole, NEW k \in 1 .. Len(dev.parts) + 1, StandsBefore(k)
    PROVE  /\ k <= Len(dev.parts) => ConfigReads(k) /\ HeadFits /\ ~ZeroLength
           /\ k = Len(dev.parts) + 1 => ~HeadFits
<1> DEFINE n == Len(dev.parts)  S == dev.starts  p == dev.parts[k]  l == Len(dev.parts[k])
<1>1. /\ dev \in Devices /\ HidTypeOK /\ off = S[k]
      /\ n \in Nat /\ S \in [1 .. n + 1 -> Nat] /\ Given /\ total = S[n + 1] /\ total \in Nat
  BY DeviceFacts, WholeGiven, OwnBytes DEF HidInv, HidTypeOK, StandsBefore
<1>2. CASE k = n + 1
  BY <1>1, <1>2 DEF HeadFits
<1>3. CASE k <= n
  <2>1. k \in 1 .. n
    BY <1>1, <1>3
  <2>2. /\ p \in Seq(0 .. 255) /\ S[k + 1] = S[k] + l
        /\ \A x \in 1 .. l : dev.bytes[S[k] + x] = p[x]
    BY <1>1, <2>1, DeviceFacts
  <2>3. l \in Nat /\ S[k] \in Nat
    <3>1. l \in Nat
      BY <2>2
    <3>2. k \in 1 .. n + 1
      OBVIOUS
    <3> QED BY <1>1, <3>1, <3>2
  <2>4. S[k + 1] <= total
    <3>1. k + 1 \in 1 .. n + 1
      BY <1>1, <2>1
    <3> QED BY <1>1, <3>1, StartsGrow
  <2>5. WellFormed(p)
    BY <2>1 DEF Whole
  <2>6. l >= 2 /\ p[1] = l
    BY <2>5 DEF WellFormed
  <2> HIDE DEF l, p, S, n
  <2> DEFINE o == S[k]
  <2>a. o \in Nat /\ l \in Nat /\ off = o /\ o + l <= total /\ total \in Nat
    BY <1>1, <2>2, <2>3, <2>4
  <2> HIDE DEF o
  <2>7. ASSUME NEW i \in 0 .. l - 1 PROVE Ctrl(off + i) = p[i + 1]
    <3>1. i + 1 \in 1 .. l /\ o + (i + 1) \in 1 .. total /\ off + i + 1 = o + (i + 1)
      BY <2>a
    <3>2. cfg[o + (i + 1)] = dev.bytes[o + (i + 1)]
      BY <1>1, <3>1, OwnBytes
    <3>3. dev.bytes[o + (i + 1)] = p[i + 1]
      BY <2>2, <3>1 DEF o
    <3> QED BY <3>1, <3>2, <3>3 DEF Ctrl
  <2>8. ConfigReads(k)
    BY <1>1, <2>1, <2>2, <2>3, <2>4, <2>5, <2>7 DEF ConfigReads, l, p, S, n
  <2>9. HeadFits
    BY <1>1, <2>2, <2>3, <2>4, <2>6 DEF HeadFits
  <2>10. Ctrl(off) = l
    <3>1. 0 \in 0 .. l - 1
      BY <2>3, <2>6
    <3>2. Ctrl(off + 0) = p[0 + 1]
      BY <2>7, <3>1
    <3> QED BY <1>1, <2>3, <2>6, <3>2
  <2>11. ~ZeroLength
    BY <2>3, <2>6, <2>10 DEF ZeroLength
  <2>12. k # n + 1
    BY <1>1, <1>3
  <2> QED BY <2>8, <2>9, <2>11, <2>12 DEF n
<1> QED BY <1>1, <1>2, <1>3

\* Its bytes by name.
LEMMA PartBytes ==
    ASSUME DevicesAssumption, dev \in Devices, NEW k, ConfigReads(k)
    PROVE  LET p == dev.parts[k]
           IN  /\ Ctrl(off) = Len(p) /\ Ctrl(off + 1) = p[2]
               /\ p[2] = 4 => /\ off + 9 <= total /\ Ctrl(off + 2) = p[3]
                              /\ IsKeyboard <=> p[6] = 3 /\ p[7] = 1 /\ p[8] = 1
               /\ p[2] = 5 => /\ off + 7 <= total
                              /\ Ctrl(off + 2) = p[3] /\ Ctrl(off + 3) = p[4]
                              /\ Ctrl(off + 4) = p[5] /\ Ctrl(off + 5) = p[6]
                              /\ IsInterruptIn <=> p[4] % 4 = 3 /\ p[3] >= 128
<1> DEFINE p == dev.parts[k]  l == Len(dev.parts[k])
<1>1. /\ \A i \in 0 .. l - 1 : Ctrl(off + i) = p[i + 1]
      /\ l \in Nat /\ off \in Nat /\ total \in Nat /\ off + l <= total
      /\ WellFormed(p)
  BY DEF ConfigReads
<1>2. l >= 2 /\ p[1] = l /\ (p[2] = 4 => l >= 9) /\ (p[2] = 5 => l >= 7)
  BY <1>1 DEF WellFormed
<1> HIDE DEF p, l
<1>3. ASSUME NEW i \in Nat, i < l PROVE Ctrl(off + i) = p[i + 1]
  BY <1>1, <1>3
<1>4. Ctrl(off) = l /\ Ctrl(off + 1) = p[2]
  <2>1. Ctrl(off + 0) = p[0 + 1] /\ Ctrl(off + 1) = p[1 + 1]
    BY <1>1, <1>2, <1>3
  <2>2. off + 0 = off
    BY <1>1
  <2> QED BY <1>2, <2>1, <2>2
<1>5. ASSUME p[2] = 4
      PROVE  /\ off + 9 <= total /\ Ctrl(off + 2) = p[3]
             /\ IsKeyboard <=> p[6] = 3 /\ p[7] = 1 /\ p[8] = 1
  <2>1. /\ Ctrl(off + 2) = p[2 + 1] /\ Ctrl(off + 5) = p[5 + 1]
        /\ Ctrl(off + 6) = p[6 + 1] /\ Ctrl(off + 7) = p[7 + 1]
    BY <1>1, <1>2, <1>3, <1>5
  <2>2. off + 9 <= total
    BY <1>1, <1>2, <1>5
  <2> QED BY <2>1, <2>2 DEF IsKeyboard
<1>6. ASSUME p[2] = 5
      PROVE  /\ off + 7 <= total
             /\ Ctrl(off + 2) = p[3] /\ Ctrl(off + 3) = p[4]
             /\ Ctrl(off + 4) = p[5] /\ Ctrl(off + 5) = p[6]
             /\ IsInterruptIn <=> p[4] % 4 = 3 /\ p[3] >= 128
  <2>1. /\ Ctrl(off + 2) = p[2 + 1] /\ Ctrl(off + 3) = p[3 + 1]
        /\ Ctrl(off + 4) = p[4 + 1] /\ Ctrl(off + 5) = p[5 + 1]
    BY <1>1, <1>2, <1>3, <1>6
  <2>2. off + 7 <= total
    BY <1>1, <1>2, <1>6
  <2> QED BY <2>1, <2>2 DEF IsInterruptIn
<1> QED BY <1>4, <1>5, <1>6 DEF p, l

\* The walk's places are numbers.
LEMMA WalkPlaces ==
    ASSUME DevicesAssumption, HidInv
    PROVE  /\ Len(dev.parts) \in Nat
           /\ Interfaces \subseteq 1 .. Len(dev.parts) /\ Keyboards \subseteq Interfaces
           /\ \A g \in Interfaces : g \in Nat /\ dev.parts[g][2] = 4
           /\ \A x \in Pairs : /\ x[1] \in 1 .. Len(dev.parts) /\ x[1] \in Nat /\ x[2] \in Keyboards
                              /\ Suitable(x[1]) /\ Belongs(x[1], x[2])
<1>1. dev.parts \in Seq(Seq(0 .. 255))
  BY DeviceFacts DEF HidInv, HidTypeOK
<1>2. Len(dev.parts) \in Nat /\ DOMAIN dev.parts = 1 .. Len(dev.parts)
  BY <1>1
<1>3. Interfaces \subseteq 1 .. Len(dev.parts) /\ \A g \in Interfaces : dev.parts[g][2] = 4
  BY <1>2 DEF Interfaces
<1>4. \A g \in 1 .. Len(dev.parts) : g \in Nat
  BY <1>2
<1>5. \A x \in Pairs : /\ x[1] \in 1 .. Len(dev.parts) /\ x[2] \in Keyboards
                       /\ Suitable(x[1]) /\ Belongs(x[1], x[2])
  BY <1>2 DEF Pairs
<1>6. Keyboards \subseteq Interfaces
  BY DEF Keyboards
<1> QED BY <1>2, <1>3, <1>4, <1>5, <1>6

\* The walk passes a descriptor that is no interface and no endpoint to return.
LEMMA OtherPassed ==
    ASSUME DevicesAssumption, HidInv, NEW k \in 1 .. Len(dev.parts), StandsBefore(k),
           ConfigReads(k), dev.parts[k][2] # 4,
           ~(Suitable(k) /\ in_hid_iface),
           off' = off + Ctrl(off), UNCHANGED <<dev, in_hid_iface, out_iface>>
    PROVE  StandsBefore(k + 1)'
<1>1. k \in Nat /\ k \notin Interfaces
  BY WalkPlaces
<1>2. \A kb \in Interfaces : LastBefore(k + 1, kb) <=> LastBefore(k, kb)
  <2>1. \A kb \in Interfaces : kb \in Nat /\ kb # k
    BY <1>1, WalkPlaces
  <2>2. \A kb \in Interfaces : /\ kb < k + 1 <=> kb < k
                               /\ kb >= k + 1 <=> kb >= k
    BY <1>1, <2>1
  <2> QED BY <2>2 DEF LastBefore
<1>3. \A x \in Pairs : x[1] >= k + 1
  <2>1. SUFFICES ASSUME NEW x \in Pairs, ~(x[1] >= k + 1) PROVE FALSE
    OBVIOUS
  <2>2. x[1] \in Nat /\ x[1] >= k /\ x[2] \in Keyboards /\ Suitable(x[1]) /\ Belongs(x[1], x[2])
    BY WalkPlaces DEF StandsBefore
  <2>3. x[1] = k
    BY <1>1, <2>1, <2>2
  <2>4. LastBefore(k, x[2])
    <3>1. x[2] < k /\ \A g \in Interfaces : g <= x[2] \/ g > k
      BY <2>2, <2>3 DEF Belongs
    <3>2. \A g \in Interfaces : g \in Nat
      BY WalkPlaces
    <3>3. \A g \in Interfaces : g > k => g >= k
      BY <1>1, <3>2
    <3> QED BY <3>1, <3>3 DEF LastBefore
  <2>5. in_hid_iface
    BY <2>2, <2>4 DEF StandsBefore
  <2> QED BY <2>2, <2>3, <2>5
<1>4. off' = dev.starts[k + 1]
  BY PartBytes DEF ConfigReads, HidInv, HidTypeOK
<1>5. Keyboards \subseteq Interfaces
  BY DEF Keyboards
<1>6. Interfaces' = Interfaces /\ Keyboards' = Keyboards /\ Pairs' = Pairs
  BY DEF Interfaces, Keyboards, Pairs, Suitable, Belongs
<1> HIDE DEF StandsBefore
<1>7. /\ in_hid_iface => \E kb \in Keyboards : LastBefore(k + 1, kb)
      /\ \A kb \in Keyboards : LastBefore(k + 1, kb) => in_hid_iface /\ out_iface = dev.parts[kb][3]
  BY <1>2, <1>5 DEF StandsBefore
<1>8. \A kb \in Keyboards : LastBefore(k + 1, kb)' <=> LastBefore(k + 1, kb)
  BY <1>6 DEF LastBefore
<1> QED BY <1>3, <1>4, <1>6, <1>7, <1>8 DEF StandsBefore

\* The walk passes an interface.
LEMMA InterfacePassed ==
    ASSUME DevicesAssumption, HidInv, NEW k \in 1 .. Len(dev.parts), StandsBefore(k),
           ConfigReads(k), dev.parts[k][2] = 4, Interface, dev' = dev
    PROVE  StandsBefore(k + 1)'
<1>0. /\ in_hid_iface' = IsKeyboard
      /\ out_iface' = IF IsKeyboard THEN Ctrl(off + 2) ELSE out_iface
      /\ off' = off + Ctrl(off)
  BY DEF Interface
<1>1. k \in Nat /\ k \in Interfaces /\ (IsKeyboard <=> k \in Keyboards) /\ Ctrl(off + 2) = dev.parts[k][3]
  BY PartBytes DEF Interfaces, Keyboards, HidInv, HidTypeOK
<1>2. \A kb \in Interfaces : LastBefore(k + 1, kb) <=> kb = k
  <2>1. \A kb \in Interfaces : kb \in Nat
    BY WalkPlaces
  <2>2. ASSUME NEW kb \in Interfaces, LastBefore(k + 1, kb) PROVE kb = k
    <3>1. kb < k + 1 /\ (k <= kb \/ k >= k + 1)
      BY <1>1, <2>2 DEF LastBefore
    <3> QED BY <1>1, <2>1, <3>1
  <2>3. LastBefore(k + 1, k)
    <3>1. k < k + 1 /\ \A g \in Interfaces : g <= k \/ g >= k + 1
      BY <1>1, <2>1
    <3> QED BY <3>1 DEF LastBefore
  <2> QED BY <2>2, <2>3
<1>3. \A x \in Pairs : x[1] >= k + 1
  <2>1. SUFFICES ASSUME NEW x \in Pairs, ~(x[1] >= k + 1) PROVE FALSE
    OBVIOUS
  <2>2. x[1] \in Nat /\ x[1] >= k /\ Suitable(x[1])
    BY WalkPlaces DEF StandsBefore
  <2>3. x[1] = k
    BY <1>1, <2>1, <2>2
  <2> QED BY <2>2, <2>3 DEF Suitable
<1>4. off' = dev.starts[k + 1]
  BY <1>0, PartBytes DEF ConfigReads, HidInv, HidTypeOK
<1>5. Keyboards \subseteq Interfaces
  BY DEF Keyboards
<1>6. Interfaces' = Interfaces /\ Keyboards' = Keyboards /\ Pairs' = Pairs
  BY DEF Interfaces, Keyboards, Pairs, Suitable, Belongs
<1>7. /\ in_hid_iface' => \E kb \in Keyboards : LastBefore(k + 1, kb)
      /\ \A kb \in Keyboards : LastBefore(k + 1, kb) => in_hid_iface' /\ out_iface' = dev.parts[kb][3]
  BY <1>0, <1>1, <1>2, <1>5
<1>8. \A kb \in Keyboards : LastBefore(k + 1, kb)' <=> LastBefore(k + 1, kb)
  BY <1>6 DEF LastBefore
<1> QED BY <1>3, <1>4, <1>6, <1>7, <1>8 DEF StandsBefore

\* The endpoint that is returned is the first, of the interface before it.
LEMMA EndpointFound ==
    ASSUME DevicesAssumption, HidInv, NEW k \in 1 .. Len(dev.parts), StandsBefore(k),
           ConfigReads(k), Endpoint, IsInterruptIn, dev' = dev
    PROVE  hid_pc' = "found" /\ FindsKeyboard'
<1>1. /\ out_ep' = [addr |-> Ctrl(off + 2), mps |-> Ctrl(off + 4) + 256 * Ctrl(off + 5),
                    interval |-> Ctrl(off + 6)]
      /\ hid_pc' = "found" /\ UNCHANGED <<off, in_hid_iface, out_iface>>
      /\ Ctrl(off + 1) = 5 /\ in_hid_iface
  BY DEF Endpoint, IsEndpoint
<1>2. /\ dev.parts[k][2] = 5 /\ Suitable(k)
      /\ Ctrl(off + 2) = dev.parts[k][3]
      /\ Ctrl(off + 4) = dev.parts[k][5] /\ Ctrl(off + 5) = dev.parts[k][6]
  BY <1>1, PartBytes DEF HidInv, HidTypeOK, Suitable
<1>3. PICK kb \in Keyboards : LastBefore(k, kb)
  BY <1>1 DEF StandsBefore
<1>4. out_iface = dev.parts[kb][3]
  BY <1>3 DEF StandsBefore
<1>5. Belongs(k, kb)
  <2>1. \A g \in Interfaces : g \in Nat /\ g # k
    BY <1>2, WalkPlaces DEF Suitable
  <2>2. \A g \in Interfaces : g >= k => g > k
    BY <2>1
  <2> QED BY <1>3, <2>2 DEF LastBefore, Belongs
<1>6. <<k, kb>> \in Pairs
  BY <1>2, <1>3, <1>5 DEF Pairs
<1>7. \A y \in Pairs : k <= y[1]
  <2>1. \A y \in Pairs : y[1] >= k /\ y[1] \in Nat
    BY WalkPlaces DEF StandsBefore
  <2> QED BY <2>1
<1> DEFINE x == <<k, kb>>
<1>8. /\ x \in Pairs /\ \A y \in Pairs : x[1] <= y[1]
      /\ out_iface' = dev.parts[x[2]][3]
      /\ out_ep'.addr = dev.parts[x[1]][3]
      /\ out_ep'.mps = dev.parts[x[1]][5] + 256 * dev.parts[x[1]][6]
  BY <1>1, <1>2, <1>4, <1>6, <1>7
<1>9. Pairs' = Pairs
  BY DEF Interfaces, Keyboards, Pairs, Suitable, Belongs
<1> QED BY <1>1, <1>8, <1>9 DEF FindsKeyboard

LEMMA HidStep ==
    ASSUME DevicesAssumption, HidInv, [HidNext]_hidVars
    PROVE  HidInv'
<1>1. CASE UNCHANGED hidVars
  <2>1. UNCHANGED <<total, Whole, Given, FindsKeyboard, Pairs, Interfaces, Keyboards>>
    BY <1>1 DEF hidVars, total, Ctrl, Whole, Given, FindsKeyboard, Received, Smaller, Pairs,
                Interfaces, Keyboards, Suitable, Belongs
  <2>2. HidTypeOK' /\ ReadInv'
    BY <1>1, <2>1 DEF hidVars, HidInv, HidTypeOK, ReadInv, Received, Smaller
  <2>3. \A k : StandsBefore(k)' <=> StandsBefore(k)
    BY <1>1, <2>1 DEF hidVars, StandsBefore, LastBefore
  <2> QED BY <1>1, <2>1, <2>2, <2>3 DEF hidVars, HidInv
<1>2. CASE EndOfWalk
  <2>1. /\ hid_pc = "parts" /\ (HeadFits => ZeroLength) /\ hid_pc' = "none"
        /\ UNCHANGED <<dev, cfg, off, in_hid_iface, out_iface, out_ep, hid_top>>
    BY <1>2 DEF EndOfWalk
  <2>2. UNCHANGED <<total, Whole, Given, Pairs>>
    BY <2>1 DEF total, Ctrl, Whole, Given, Received, Smaller, Pairs, Interfaces, Keyboards, Suitable,
                Belongs
  <2>3. HidTypeOK' /\ ReadInv'
    BY <2>1, <2>2 DEF HidInv, HidTypeOK, ReadInv, Received, Smaller
  <2>4. ASSUME Whole PROVE Pairs = {}
    <3>1. PICK k \in 1 .. Len(dev.parts) + 1 : StandsBefore(k)
      BY <2>1, <2>4 DEF HidInv
    <3>2. k = Len(dev.parts) + 1 /\ Len(dev.parts) \in Nat
      <4>1. ~(k <= Len(dev.parts))
        BY <2>1, <2>4, <3>1, WalkReads
      <4>2. Len(dev.parts) \in Nat
        BY DeviceFacts DEF HidInv, HidTypeOK
      <4> QED BY <3>1, <4>1, <4>2
    <3>3. ASSUME NEW x \in Pairs PROVE FALSE
      <4>1. x[1] \in 1 .. Len(dev.parts) /\ x[1] >= k
        BY <3>1, WalkPlaces DEF StandsBefore
      <4> QED BY <3>2, <4>1
    <3> QED BY <3>3
  <2>5. FindsKeyboard'
    BY <2>1, <2>2, <2>4 DEF FindsKeyboard
  <2> QED BY <2>1, <2>3, <2>5 DEF HidInv
<1>3. CASE WalkPart
  <2>1. /\ hid_pc = "parts" /\ HeadFits /\ ~ZeroLength /\ dev' = dev /\ cfg' = cfg
        /\ Interface \/ Endpoint \/ OtherPart
    BY <1>3 DEF WalkPart
  <2>2. UNCHANGED <<total, Whole>> /\ Received(dev)' = Received(dev)
    BY <2>1 DEF total, Ctrl, Whole, Received, Smaller
  <2>3. HidTypeOK'
    <3>1. in_hid_iface' \in BOOLEAN
      BY <2>1 DEF Interface, Endpoint, OtherPart, HidInv, HidTypeOK, IsKeyboard
    <3>2. hid_pc' \in {"parts", "found", "none"}
      BY <2>1 DEF Interface, Endpoint, OtherPart
    <3> QED BY <2>1, <2>2, <3>1, <3>2 DEF HidInv, HidTypeOK
  <2>4. ReadInv'
    BY <1>3, ReadStep
  <2>5. hid_pc' # "none"
    BY <2>1 DEF Interface, Endpoint, OtherPart
  <2>6. CASE ~Whole
    BY <2>2, <2>3, <2>4, <2>6 DEF HidInv, FindsKeyboard
  <2>7. CASE Whole
    <3>1. PICK k \in 1 .. Len(dev.parts) + 1 : StandsBefore(k)
      BY <2>1, <2>7 DEF HidInv
    <3>2. Len(dev.parts) \in Nat
      BY WalkPlaces
    <3>3. k \in 1 .. Len(dev.parts) /\ ConfigReads(k)
      <4>1. k # Len(dev.parts) + 1
        BY <2>1, <2>7, <3>1, WalkReads
      <4>2. k <= Len(dev.parts) /\ k \in 1 .. Len(dev.parts)
        BY <3>1, <3>2, <4>1
      <4> QED BY <2>7, <3>1, <4>2, WalkReads
    <3> DEFINE Goal == /\ FindsKeyboard'
                       /\ hid_pc' = "parts" => \E i \in 1 .. Len(dev.parts) + 1 : StandsBefore(i)'
    <3>4. /\ Ctrl(off + 1) = dev.parts[k][2]
          /\ dev.parts[k][2] = 4 => off + 9 <= total
          /\ dev.parts[k][2] = 5 => off + 7 <= total
                                    /\ (IsInterruptIn <=> dev.parts[k][4] % 4 = 3 /\ dev.parts[k][3] >= 128)
          /\ off \in Nat /\ total \in Nat
      BY <3>3, PartBytes DEF HidInv, HidTypeOK, ConfigReads
    <3>5. k + 1 \in 1 .. Len(dev.parts) + 1
      BY <3>2, <3>3
    <3>6. ASSUME hid_pc' = "parts", StandsBefore(k + 1)' PROVE Goal
      BY <3>5, <3>6 DEF FindsKeyboard
    <3>7. ASSUME Interface PROVE Goal
      <4>1. dev.parts[k][2] = 4 /\ hid_pc' = "parts"
        BY <2>1, <3>4, <3>7 DEF Interface
      <4>2. StandsBefore(k + 1)'
        BY <2>1, <3>1, <3>3, <3>7, <4>1, InterfacePassed
      <4> QED BY <3>6, <4>1, <4>2
    <3>8. ASSUME Endpoint /\ IsInterruptIn PROVE Goal
      <4>1. hid_pc' = "found" /\ FindsKeyboard'
        BY <2>1, <3>1, <3>3, <3>8, EndpointFound
      <4> QED BY <4>1
    <3>9. ASSUME Endpoint /\ ~IsInterruptIn PROVE Goal
      <4>1. /\ dev.parts[k][2] = 5 /\ hid_pc' = "parts" /\ off' = off + Ctrl(off)
            /\ UNCHANGED <<in_hid_iface, out_iface>>
        BY <2>1, <3>4, <3>9 DEF Endpoint, IsEndpoint
      <4>2. ~Suitable(k)
        BY <3>4, <3>9, <4>1 DEF Suitable
      <4>3. StandsBefore(k + 1)'
        BY <2>1, <3>1, <3>3, <4>1, <4>2, OtherPassed
      <4> QED BY <3>6, <4>1, <4>3
    <3>10. ASSUME OtherPart PROVE Goal
      <4>1. /\ ~IsEndpoint /\ (Ctrl(off + 1) = 4 => off + 9 > total)
            /\ hid_pc' = "parts" /\ off' = off + Ctrl(off) /\ UNCHANGED <<in_hid_iface, out_iface>>
        BY <2>1, <3>10 DEF OtherPart
      <4>2. dev.parts[k][2] # 4
        BY <3>4, <4>1
      <4>3. ~(Suitable(k) /\ in_hid_iface)
        BY <3>4, <4>1 DEF IsEndpoint, Suitable
      <4>4. StandsBefore(k + 1)'
        BY <2>1, <3>1, <3>3, <4>1, <4>2, <4>3, OtherPassed
      <4> QED BY <3>6, <4>1, <4>4
    <3>11. Goal
      BY <2>1, <3>7, <3>8, <3>9, <3>10
    <3> QED BY <2>1, <2>3, <2>4, <3>11 DEF HidInv
  <2> QED BY <2>6, <2>7
<1> QED BY <1>1, <1>2, <1>3 DEF HidNext

(* The search for the keyboard, for every machine, every device and every  *)
(* sequence of descriptors: usb_init starts the first xHCI controller at   *)
(* its own base address, and of a configuration that came whole            *)
(* find_hid_keyboard returns the first endpoint of a boot keyboard with    *)
(* its own interface.  It reads no byte of an earlier transfer while the   *)
(* total length in ctrl_buf is no more than what was received; of a device *)
(* that states more, or that returns less than four bytes, it does.        *)
THEOREM KeyboardAlwaysFound ==
    ASSUME SystemsAssumption, DevicesAssumption
    PROVE  SearchSpec => []KeyboardFound
<1>1. SearchInit => PciInv /\ HidInv
  BY PciStart, HidStart DEF SearchInit
<1>2. PciInv /\ HidInv /\ [SearchNext]_searchVars => (PciInv /\ HidInv)'
  <2>1. [SearchNext]_searchVars => [PciNext]_pciVars /\ [HidNext]_hidVars
    BY DEF SearchNext, searchVars, Walk
  <2> QED BY <2>1, PciStep, HidStep
<1>3. PciInv /\ HidInv => KeyboardFound
  <2> SUFFICES ASSUME PciInv, HidInv PROVE KeyboardFound
    OBVIOUS
  <2>1. FindsFirst /\ RunsAtBase
    BY PciShown
  <2>2. ReadsReceived
    <3> SUFFICES ASSUME Given PROVE hid_top <= Len(Received(dev))
      BY DEF ReadsReceived, Given
    <3>1. hid_top \in Nat /\ hid_top <= total /\ total \in Nat /\ total <= Len(Received(dev))
      BY OwnBytes DEF Given, HidInv, ReadInv
    <3>2. Len(Received(dev)) \in Nat
      BY OwnBytes DEF HidInv
    <3> QED BY <3>1, <3>2
  <2> QED BY <2>1, <2>2 DEF HidInv, KeyboardFound
<1> QED BY <1>1, <1>2, <1>3, PTL DEF SearchSpec

--------------------------------------------------------------------------------
(***************************************************************************)
(* The boot loader's tags, for every sequence of them and every size of    *)
(* the buffer.  The invariant follows the conversion tag by tag: what is   *)
(* in the buffer and in the structure is what the first k tags say, and    *)
(* the walk looks at the start of tag k + 1.  Then the walk over the map   *)
(* stands at a whole entry, and the sum is that of the entries before it.  *)
(***************************************************************************)

\* What is true of 0 and of the number after each is true of all up to n.
LEMMA Reaching ==
    ASSUME NEW n \in Nat, NEW T, 0 \in T, \A k \in 0 .. n - 1 : k \in T => k + 1 \in T
    PROVE  \A k \in 0 .. n : k \in T
<1> DEFINE G == {k \in 0 .. n : k \notin T}
<1>1. SUFFICES ASSUME G # {} PROVE FALSE
  OBVIOUS
<1>2. G \subseteq Nat
  OBVIOUS
<1>3. PICK d \in G : \A x \in G : d <= x
  BY <1>1, <1>2, Minimum
<1>4. d \in 0 .. n /\ d \notin T
  OBVIOUS
<1>5. d # 0 /\ d - 1 \in 0 .. n - 1 /\ d - 1 \notin G
  BY <1>3, <1>4
<1>6. d - 1 \in T /\ (d - 1) + 1 = d
  BY <1>4, <1>5
<1> QED BY <1>4, <1>5, <1>6

\* The sums of the first numbers of w are what the recursion says.
LEMMA SumsAre ==
    ASSUME NEW n \in Nat, NEW w
    PROVE  Sums(w, n) = [k \in 0 .. n |-> IF k = 0 THEN 0 ELSE Sums(w, n)[k - 1] + w[k]]
<1> DEFINE Is(g, m) == g = [k \in 0 .. m |-> IF k = 0 THEN 0 ELSE g[k - 1] + w[k]]
           T == {m \in 0 .. n : \E g : Is(g, m)}
<1>1. 0 \in T
  <2> DEFINE f == [k \in 0 .. 0 |-> 0]
  <2>1. f = [k \in 0 .. 0 |-> IF k = 0 THEN 0 ELSE f[k - 1] + w[k]]
    OBVIOUS
  <2> HIDE DEF f
  <2>2. \E g : Is(g, 0)
    BY <2>1
  <2>3. 0 \in 0 .. n
    OBVIOUS
  <2> QED BY <2>2, <2>3
<1>2. ASSUME NEW m \in 0 .. n - 1, m \in T PROVE m + 1 \in T
  <2>1. PICK g : Is(g, m)
    BY <1>2
  <2> DEFINE f == [k \in 0 .. m + 1 |-> IF k = m + 1 THEN g[m] + w[m + 1] ELSE g[k]]
  <2>2. ASSUME NEW k \in 0 .. m + 1 PROVE f[k] = IF k = 0 THEN 0 ELSE f[k - 1] + w[k]
    <3>1. CASE k = m + 1
      <4>1. k # 0 /\ k - 1 = m
        BY <3>1
      <4>3. f[m + 1] = g[m] + w[m + 1]
        OBVIOUS
      <4>2. f[m] = g[m]
        OBVIOUS
      <4> QED BY <3>1, <4>1, <4>2, <4>3
    <3>2. CASE k # m + 1
      <4>1. k \in 0 .. m /\ f[k] = g[k]
        BY <3>2
      <4>2. g[k] = IF k = 0 THEN 0 ELSE g[k - 1] + w[k]
        BY <2>1, <4>1
      <4>3. k # 0 => k - 1 \in 0 .. m + 1 /\ k - 1 # m + 1
        BY <4>1
      <4>4. k # 0 => f[k - 1] = g[k - 1]
        BY <4>3
      <4> QED BY <4>1, <4>2, <4>4
    <3> QED BY <3>1, <3>2
  <2>3. f = [k \in 0 .. m + 1 |-> f[k]]
    OBVIOUS
  <2> HIDE DEF f
  <2>4. Is(f, m + 1)
    BY <2>2, <2>3
  <2>5. m + 1 \in 0 .. n
    OBVIOUS
  <2> QED BY <2>4, <2>5
<1>3. \A m \in 0 .. n : m \in T
  <2> HIDE DEF T
  <2> QED BY <1>1, <1>2, Reaching
<1>4. \E g : Is(g, n)
  <2>1. n \in T
    <3> HIDE DEF T
    <3> QED BY <1>3
  <2> QED BY <2>1
<1>5. Sums(w, n) = CHOOSE g : Is(g, n)
  BY DEF Sums
<1>6. Is(Sums(w, n), n)
  BY <1>4, <1>5
<1> QED BY <1>6

LEMMA JoinedAre ==
    ASSUME NEW n \in Nat, NEW w
    PROVE  Joined(w, n) = [k \in 0 .. n |-> IF k = 0 THEN <<>> ELSE Joined(w, n)[k - 1] \o w[k]]
<1> DEFINE Is(g, m) == g = [k \in 0 .. m |-> IF k = 0 THEN <<>> ELSE g[k - 1] \o w[k]]
           T == {m \in 0 .. n : \E g : Is(g, m)}
<1>1. 0 \in T
  <2> DEFINE f == [k \in 0 .. 0 |-> <<>>]
  <2>1. f = [k \in 0 .. 0 |-> IF k = 0 THEN <<>> ELSE f[k - 1] \o w[k]]
    OBVIOUS
  <2> HIDE DEF f
  <2>2. \E g : Is(g, 0)
    BY <2>1
  <2>3. 0 \in 0 .. n
    OBVIOUS
  <2> QED BY <2>2, <2>3
<1>2. ASSUME NEW m \in 0 .. n - 1, m \in T PROVE m + 1 \in T
  <2>1. PICK g : Is(g, m)
    BY <1>2
  <2> DEFINE f == [k \in 0 .. m + 1 |-> IF k = m + 1 THEN g[m] \o w[m + 1] ELSE g[k]]
  <2>2. ASSUME NEW k \in 0 .. m + 1 PROVE f[k] = IF k = 0 THEN <<>> ELSE f[k - 1] \o w[k]
    <3>1. CASE k = m + 1
      <4>1. k # 0 /\ k - 1 = m
        BY <3>1
      <4>3. f[m + 1] = g[m] \o w[m + 1]
        OBVIOUS
      <4>2. f[m] = g[m]
        OBVIOUS
      <4> QED BY <3>1, <4>1, <4>2, <4>3
    <3>2. CASE k # m + 1
      <4>1. k \in 0 .. m /\ f[k] = g[k]
        BY <3>2
      <4>2. g[k] = IF k = 0 THEN <<>> ELSE g[k - 1] \o w[k]
        BY <2>1, <4>1
      <4>3. k # 0 => k - 1 \in 0 .. m + 1 /\ k - 1 # m + 1
        BY <4>1
      <4>4. k # 0 => f[k - 1] = g[k - 1]
        BY <4>3
      <4> QED BY <4>1, <4>2, <4>4
    <3> QED BY <3>1, <3>2
  <2>3. f = [k \in 0 .. m + 1 |-> f[k]]
    OBVIOUS
  <2> HIDE DEF f
  <2>4. Is(f, m + 1)
    BY <2>2, <2>3
  <2>5. m + 1 \in 0 .. n
    OBVIOUS
  <2> QED BY <2>4, <2>5
<1>3. \A m \in 0 .. n : m \in T
  <2> HIDE DEF T
  <2> QED BY <1>1, <1>2, Reaching
<1>4. \E g : Is(g, n)
  <2>1. n \in T
    <3> HIDE DEF T
    <3> QED BY <1>3
  <2> QED BY <2>1
<1>5. Joined(w, n) = CHOOSE g : Is(g, n)
  BY DEF Joined
<1>6. Is(Joined(w, n), n)
  BY <1>4, <1>5
<1> QED BY <1>6

--------------------------------------------------------------------------------

LEMMA TagFacts ==
    ASSUME LoadersAssumption, tags \in Loaders
    PROVE  /\ Cap \in Nat /\ EntryBytes \in Nat /\ EntryBytes > 4
           /\ Len(tags) \in Nat /\ DOMAIN tags = 1 .. Len(tags)
           /\ \A k \in 1 .. Len(tags) :
                 /\ tags[k].size \in Nat /\ tags[k].size >= 8
                 /\ tags[k].type \in {"basic", "framebuffer", "loader", "other", "end", "mmap"}
                 /\ tags[k].type = "end" => k = Len(tags)
                 /\ tags[k].type = "mmap" =>
                       /\ tags[k].entries \in Seq(Regions)
                       /\ (tags[k].size - 16) \div tags[k].entry_size = Len(tags[k].entries)
<1>1. /\ tags \in Seq(Tags) /\ Cap \in Nat /\ EntryBytes \in Nat \ (0 .. 4)
      /\ \A k \in DOMAIN tags :
            /\ tags[k].type = "end" => k = Len(tags)
            /\ tags[k].type = "mmap" =>
                  (tags[k].size - 16) \div tags[k].entry_size = Len(tags[k].entries)
  BY DEF LoadersAssumption
<1>2. Len(tags) \in Nat /\ DOMAIN tags = 1 .. Len(tags)
  BY <1>1
<1>3. \A k \in 1 .. Len(tags) : tags[k] \in Tags
  BY <1>1, ElementOfSeq
<1>4. \A t \in Tags :
         /\ t.size \in Sizes
         /\ t.type \in {"basic", "framebuffer", "loader", "other", "end", "mmap"}
         /\ t.type = "mmap" => t.entries \in Seq(Regions)
  BY DEF Tags
<1>5. \A n \in Sizes : n \in Nat /\ n >= 8
  BY DEF Sizes
<1>6. EntryBytes \in Nat /\ EntryBytes > 4
  BY <1>1
<1>7. ASSUME NEW k \in 1 .. Len(tags)
      PROVE  /\ tags[k].size \in Nat /\ tags[k].size >= 8
             /\ tags[k].type \in {"basic", "framebuffer", "loader", "other", "end", "mmap"}
             /\ tags[k].type = "end" => k = Len(tags)
             /\ tags[k].type = "mmap" =>
                   /\ tags[k].entries \in Seq(Regions)
                   /\ (tags[k].size - 16) \div tags[k].entry_size = Len(tags[k].entries)
  <2>1. tags[k] \in Tags /\ k \in DOMAIN tags
    BY <1>2, <1>3
  <2> QED BY <1>1, <1>4, <1>5, <2>1, Zenon
<1> QED BY <1>1, <1>2, <1>6, <1>7

\* A tag starts where the one before it ends, at the next multiple of eight.
LEMMA StartsAre ==
    ASSUME LoadersAssumption, tags \in Loaders
    PROVE  /\ Start(1) = 8 /\ total_size = Start(Len(tags) + 1)
           /\ \A k \in 1 .. Len(tags) : Start(k + 1) = Start(k) + Aligned(tags[k].size)
           /\ \A k \in 1 .. Len(tags) : Aligned(tags[k].size) \in Nat /\ Aligned(tags[k].size) > 0
           /\ \A k \in 1 .. Len(tags) + 1 : Start(k) \in Nat
<1> DEFINE n == Len(tags)  w == [x \in DOMAIN tags |-> Padded(tags[x].size)]  s == Sums(w, n)
<1>1. n \in Nat /\ \A k \in 1 .. n : tags[k].size \in Nat /\ tags[k].size >= 8
  BY TagFacts
<1>2. ASSUME NEW x \in Nat, x >= 8 PROVE Padded(x) = Aligned(x) /\ Padded(x) \in Nat /\ Padded(x) > 0
  BY <1>2 DEF Padded, Aligned
<1>3. \A k \in 1 .. n : w[k] = Aligned(tags[k].size) /\ w[k] \in Nat /\ w[k] > 0
  BY <1>1, <1>2, TagFacts
<1>4. s = [k \in 0 .. n |-> IF k = 0 THEN 0 ELSE s[k - 1] + w[k]]
  BY <1>1, SumsAre
<1>5. \A k : Start(k) = 8 + s[k - 1]
  BY DEF Start
<1> HIDE DEF s, w, n
<1>6. s[0] = 0 /\ \A k \in 1 .. n : s[k] = s[k - 1] + w[k]
  BY <1>1, <1>4
<1>7. \A k \in 0 .. n : s[k] \in Nat
  <2> DEFINE T == {k \in 0 .. n : s[k] \in Nat}
  <2>1. 0 \in T
    BY <1>1, <1>6
  <2>2. ASSUME NEW k \in 0 .. n - 1, k \in T PROVE k + 1 \in T
    <3>1. k + 1 \in 1 .. n /\ (k + 1) - 1 = k /\ k + 1 \in 0 .. n
      BY <1>1
    <3>2. s[k + 1] = s[k] + w[k + 1]
      BY <1>6, <3>1
    <3>3. s[k] \in Nat /\ w[k + 1] \in Nat
      BY <1>3, <2>2, <3>1
    <3> QED BY <3>1, <3>2, <3>3
  <2> HIDE DEF T
  <2>3. \A k \in 0 .. n : k \in T
    BY <1>1, <2>1, <2>2, Reaching
  <2> QED BY <2>3 DEF T
<1>8. \A k \in 1 .. n + 1 : Start(k) \in Nat
  BY <1>1, <1>5, <1>7
<1>9. ASSUME NEW k \in 1 .. n PROVE Start(k + 1) = Start(k) + Aligned(tags[k].size)
  <2>1. s[k] = s[k - 1] + w[k] /\ (k + 1) - 1 = k /\ s[k - 1] \in Nat /\ w[k] \in Nat
    BY <1>1, <1>3, <1>6, <1>7
  <2>2. Start(k + 1) = 8 + s[k] /\ Start(k) = 8 + s[k - 1]
    BY <1>5, <2>1
  <2> QED BY <1>3, <2>1, <2>2
<1>10. Start(1) = 8
  BY <1>5, <1>6
<1> QED BY <1>3, <1>8, <1>9, <1>10 DEF n, total_size

\* A tag starts before those behind it.
LEMMA StartsApart ==
    ASSUME LoadersAssumption, tags \in Loaders, NEW k \in 1 .. Len(tags) + 1
    PROVE  /\ \A l \in 1 .. Len(tags) + 1 : k < l => Start(k) < Start(l)
           /\ \A l \in 1 .. Len(tags) + 1 : Start(l) = Start(k) => l = k
<1> DEFINE n == Len(tags)
<1>1. n \in Nat /\ \A x \in 1 .. n + 1 : Start(x) \in Nat
  BY TagFacts, StartsAre
<1>2. ASSUME NEW x \in 1 .. n PROVE Start(x) < Start(x + 1)
  <2>1. Start(x + 1) = Start(x) + Aligned(tags[x].size) /\ Start(x) \in Nat
        /\ Aligned(tags[x].size) \in Nat /\ Aligned(tags[x].size) > 0
    BY <1>1, StartsAre
  <2> QED BY <2>1
<1> HIDE DEF n
<1>3. ASSUME NEW x \in 1 .. n + 1 PROVE \A d \in 0 .. n + 1 - x : d = 0 \/ Start(x) < Start(x + d)
  <2> DEFINE T == {d \in 0 .. n + 1 - x : d = 0 \/ Start(x) < Start(x + d)}
  <2>1. 0 \in T /\ n + 1 - x \in Nat
    BY <1>1
  <2>2. ASSUME NEW d \in 0 .. (n + 1 - x) - 1, d \in T PROVE d + 1 \in T
    <3>1. x + d \in 1 .. n /\ d + 1 \in 0 .. n + 1 - x /\ x + (d + 1) = (x + d) + 1
          /\ x + d + 1 \in 1 .. n + 1
      BY <1>1
    <3>2. Start(x + d) < Start((x + d) + 1)
      BY <1>2, <3>1
    <3>3. d = 0 \/ Start(x) < Start(x + d)
      BY <2>2
    <3>4. d = 0 => x + d = x
      BY <1>1
    <3>5. Start(x) < Start((x + d) + 1)
      <4>1. Start(x) \in Nat /\ Start(x + d) \in Nat /\ Start((x + d) + 1) \in Nat
        BY <1>1, <3>1
      <4>2. CASE d = 0
        BY <3>2, <3>4, <4>2
      <4>3. CASE d # 0
        BY <3>2, <3>3, <4>1, <4>3
      <4> QED BY <4>2, <4>3
    <3> QED BY <3>1, <3>5
  <2> HIDE DEF T
  <2>3. \A d \in 0 .. n + 1 - x : d \in T
    BY <2>1, <2>2, Reaching
  <2> QED BY <2>3 DEF T
<1>4. ASSUME NEW x \in 1 .. n + 1, NEW l \in 1 .. n + 1, x < l PROVE Start(x) < Start(l)
  <2>1. l - x \in 0 .. n + 1 - x /\ l - x # 0 /\ x + (l - x) = l
    BY <1>1, <1>4
  <2> QED BY <1>3, <2>1
<1>5. ASSUME NEW l \in 1 .. n + 1, Start(l) = Start(k), l # k PROVE FALSE
  <2>1. k \in 1 .. n + 1
    BY DEF n
  <2>2. k < l \/ l < k
    BY <1>1, <1>5, <2>1
  <2> QED BY <1>1, <1>4, <1>5, <2>1, <2>2
<1> QED BY <1>4, <1>5 DEF n

--------------------------------------------------------------------------------

\* The entries of the first k tags, and what the conversion has made of them.
MapUpTo(k) == Joined(MapsOf, Len(tags))[k]
Written(r) == [size |-> EntryBytes - 4, addr |-> r.addr, len |-> r.len, type |-> r.type]
Room(n)    == IF n < Cap THEN n ELSE Cap
Before(t, k) == {l \in 1 .. k : tags[l].type = t}

BootFlags == {"memory", "mem_map", "loader_name", "framebuffer"}
InfoOK == g_mb_info \in [flags : SUBSET BootFlags, mem_upper : Nat, mmap_length : Nat, framebuffer : Nat]

MapDone(k) ==
    /\ g_mmap_buffer = [x \in 1 .. Room(Len(MapUpTo(k))) |-> Written(MapUpTo(k)[x])]
    /\ g_mb_info.mmap_length = Room(Len(MapUpTo(k))) * EntryBytes
    /\ "mem_map" \in g_mb_info.flags <=> Before("mmap", k) # {}
    /\ Before("mmap", k) = {} => MapUpTo(k) = <<>>

Noted(k) ==
    /\ "framebuffer" \in g_mb_info.flags <=> Before("framebuffer", k) # {}
    /\ \A l \in Before("basic", k) :
          (\A x \in Before("basic", k) : x <= l) => g_mb_info.mem_upper = tags[l].mem_upper
    /\ \A l \in Before("framebuffer", k) :
          (\A x \in Before("framebuffer", k) : x <= l) => g_mb_info.framebuffer = tags[l].screen

Converted(k) == MapDone(k) /\ Noted(k)

LoaderInv ==
    /\ tags \in Loaders /\ InfoOK /\ total_ram \in Nat
    /\ loader_pc \in {"tags", "walk", "done"}
    /\ loader_pc = "tags" =>
          /\ mmap = 0 /\ total_ram = 0
          /\ \E k \in 0 .. Len(tags) : tag = Start(k + 1) /\ Converted(k)
    /\ loader_pc # "tags" => Converted(Len(tags))
    /\ loader_pc = "walk" =>
          \E x \in 0 .. Len(Kept) : mmap = x * EntryBytes /\ total_ram = Sums(RamOf, Len(Kept))[x]
    /\ RamCounted

--------------------------------------------------------------------------------

LEMMA MapsAre ==
    ASSUME LoadersAssumption, tags \in Loaders
    PROVE  /\ MapUpTo(0) = <<>>
           /\ \A k \in 0 .. Len(tags) : MapUpTo(k) \in Seq(Regions)
           /\ \A k \in 0 .. Len(tags) - 1 :
                 MapUpTo(k + 1) = IF tags[k + 1].type = "mmap" THEN MapUpTo(k) \o tags[k + 1].entries
                                  ELSE MapUpTo(k)
<1> DEFINE n == Len(tags)  w == MapsOf  s == Joined(w, n)
<1>1. n \in Nat /\ DOMAIN tags = 1 .. n
  BY TagFacts
<1>2. s = [k \in 0 .. n |-> IF k = 0 THEN <<>> ELSE s[k - 1] \o w[k]]
  BY <1>1, JoinedAre
<1>3. ASSUME NEW k \in 1 .. n
      PROVE  /\ w[k] = IF tags[k].type = "mmap" THEN tags[k].entries ELSE <<>>
             /\ w[k] \in Seq(Regions)
  <2>1. w[k] = IF tags[k].type = "mmap" THEN tags[k].entries ELSE <<>>
    BY <1>1 DEF MapsOf
  <2>2. tags[k].type = "mmap" => tags[k].entries \in Seq(Regions)
    BY TagFacts
  <2>3. <<>> \in Seq(Regions)
    OBVIOUS
  <2> QED BY <2>1, <2>2, <2>3
<1>4. \A k : MapUpTo(k) = s[k]
  BY DEF MapUpTo
<1> HIDE DEF s, w, n
<1>5. s[0] = <<>> /\ \A k \in 1 .. n : s[k] = s[k - 1] \o w[k]
  <2>1. ASSUME NEW k \in 0 .. n PROVE s[k] = IF k = 0 THEN <<>> ELSE s[k - 1] \o w[k]
    BY <1>2, Zenon
  <2>2. 0 \in 0 .. n /\ \A k \in 1 .. n : k \in 0 .. n /\ k # 0
    BY <1>1
  <2> QED BY <2>1, <2>2
<1>6. \A k \in 0 .. n : s[k] \in Seq(Regions)
  <2> DEFINE T == {k \in 0 .. n : s[k] \in Seq(Regions)}
  <2>1. 0 \in T
    <3>1. s[0] \in Seq(Regions)
      <4>1. <<>> \in Seq(Regions)
        OBVIOUS
      <4> QED BY <1>5, <4>1
    <3>2. 0 \in 0 .. n
      BY <1>1
    <3> QED BY <3>1, <3>2
  <2>2. ASSUME NEW k \in 0 .. n - 1, k \in T PROVE k + 1 \in T
    <3>1. k + 1 \in 1 .. n /\ (k + 1) - 1 = k /\ k + 1 \in 0 .. n
      BY <1>1
    <3>2. s[k + 1] = s[k] \o w[k + 1]
      BY <1>5, <3>1
    <3>3. s[k] \in Seq(Regions) /\ w[k + 1] \in Seq(Regions)
      BY <1>3, <2>2, <3>1
    <3>4. s[k] \o w[k + 1] \in Seq(Regions)
      BY <3>3, ConcatProperties
    <3> QED BY <3>1, <3>2, <3>4
  <2> HIDE DEF T
  <2>3. \A k \in 0 .. n : k \in T
    BY <1>1, <2>1, <2>2, Reaching
  <2> QED BY <2>3 DEF T
<1>7. ASSUME NEW k \in 0 .. n - 1
      PROVE  s[k + 1] = IF tags[k + 1].type = "mmap" THEN s[k] \o tags[k + 1].entries ELSE s[k]
  <2>1. k + 1 \in 1 .. n /\ (k + 1) - 1 = k /\ k \in 0 .. n
    BY <1>1
  <2>2. s[k + 1] = s[k] \o w[k + 1]
    BY <1>5, <2>1
  <2>3. s[k] \o <<>> = s[k]
    BY <1>6, <2>1, ConcatEmptySeq
  <2> QED BY <1>3, <2>1, <2>2, <2>3
<1> QED BY <1>4, <1>5, <1>6, <1>7 DEF n

\* The next tag is one more of its kind.
LEMMA OneMore ==
    ASSUME LoadersAssumption, tags \in Loaders, NEW k \in 0 .. Len(tags) - 1, NEW t
    PROVE  Before(t, k + 1) = IF tags[k + 1].type = t THEN Before(t, k) \cup {k + 1} ELSE Before(t, k)
<1>0. Len(tags) \in Nat
  BY TagFacts
<1>1. k \in Nat
  BY <1>0
<1>2. 1 .. k + 1 = (1 .. k) \cup {k + 1}
  BY <1>1
<1> QED BY <1>2 DEF Before

LEMMA RoomLeft ==
    ASSUME NEW l \in Nat, NEW d \in Nat, Cap \in Nat, NEW a, NEW c,
           a = Room(l), c = IF d < Cap - a THEN d ELSE Cap - a
    PROVE  /\ a \in Nat /\ a <= l /\ c \in Nat /\ c <= d
           /\ Room(l + d) = a + c /\ (c > 0 => a = l)
<1>1. CASE l < Cap
  BY <1>1 DEF Room
<1>2. CASE ~(l < Cap)
  BY <1>2 DEF Room
<1> QED BY <1>1, <1>2

\* The conversion of a map tag goes on where that of the ones before it ended.
LEMMA FillGoesOn ==
    ASSUME LoadersAssumption, NEW M \in Seq(Regions), NEW E \in Seq(Regions), NEW c,
           c = IF Len(E) < Cap - Room(Len(M)) THEN Len(E) ELSE Cap - Room(Len(M))
    PROVE  [x \in 1 .. Room(Len(M)) |-> Written(M[x])] \o [x \in 1 .. c |-> Written(E[x])]
           = [x \in 1 .. Room(Len(M \o E)) |-> Written((M \o E)[x])]
<1> DEFINE l == Len(M)  a == Room(l)  d == Len(E)
           S == [size : {EntryBytes - 4}, addr : Nat, len : Nat, type : Nat]
           u == [x \in 1 .. a |-> Written(M[x])]
           v == [x \in 1 .. c |-> Written(E[x])]
<1>1. /\ l \in Nat /\ d \in Nat /\ Cap \in Nat
      /\ c = IF d < Cap - a THEN d ELSE Cap - a
  BY DEF LoadersAssumption
<1>2. /\ a \in Nat /\ a <= l /\ c \in Nat /\ c <= d
      /\ Room(l + d) = a + c /\ (c > 0 => a = l)
  <2> HIDE DEF l, d
  <2> QED BY <1>1, RoomLeft
<1>3. \A r \in Regions : Written(r) \in S
  BY DEF Regions, Written
<1>4. /\ \A x \in 1 .. l : M[x] \in Regions
      /\ \A x \in 1 .. d : E[x] \in Regions
  BY ElementOfSeq
<1>5. /\ M \o E \in Seq(Regions) /\ Len(M \o E) = l + d
      /\ \A x \in 1 .. l + d : (M \o E)[x] = IF x <= l THEN M[x] ELSE E[x - l]
  BY ConcatProperties
<1> HIDE DEF l, d, a, S
<1>6. u \in [1 .. a -> S] /\ v \in [1 .. c -> S]
  <2>1. \A x \in 1 .. a : x \in 1 .. l
    BY <1>1, <1>2
  <2>2. \A x \in 1 .. c : x \in 1 .. d
    BY <1>1, <1>2
  <2> QED BY <1>3, <1>4, <2>1, <2>2
<1>o. u = [x \in 1 .. a |-> Written(M[x])] /\ v = [x \in 1 .. c |-> Written(E[x])]
  OBVIOUS
<1> HIDE DEF u, v
<1>7. u \in Seq(S) /\ v \in Seq(S) /\ Len(u) = a /\ Len(v) = c
  <2>1. DOMAIN u = 1 .. a /\ DOMAIN v = 1 .. c
    BY <1>6
  <2>2. Seq(S) = UNION {[1 .. n -> S] : n \in Nat}
    BY SeqDef
  <2>3. u \in Seq(S)
    BY <1>2, <1>6, <2>2
  <2>4. v \in Seq(S)
    BY <1>2, <1>6, <2>2
  <2> QED BY <1>2, <2>1, <2>3, <2>4
<1>8. /\ u \o v \in Seq(S) /\ Len(u \o v) = a + c
      /\ \A x \in 1 .. a + c : (u \o v)[x] = IF x <= a THEN u[x] ELSE v[x - a]
  <2>1. /\ u \o v \in Seq(S) /\ Len(u \o v) = Len(u) + Len(v)
        /\ \A x \in 1 .. Len(u) + Len(v) : (u \o v)[x] = IF x <= Len(u) THEN u[x] ELSE v[x - Len(u)]
    BY <1>7, ConcatProperties
  <2> QED BY <1>7, <2>1
<1> DEFINE s == u \o v  g == [x \in 1 .. a + c |-> Written((M \o E)[x])]
<1>9. ASSUME NEW x \in 1 .. a + c PROVE s[x] = g[x]
  <2>1. CASE x <= a
    <3>1. x \in 1 .. a /\ x \in 1 .. l + d /\ x <= l
      BY <1>1, <1>2, <2>1
    <3> QED BY <1>5, <1>8, <2>1, <3>1 DEF u
  <2>2. CASE ~(x <= a)
    <3>1. /\ x - a \in 1 .. c /\ a = l /\ x \in 1 .. l + d /\ ~(x <= l)
      BY <1>1, <1>2, <2>2
    <3> QED BY <1>5, <1>8, <2>2, <3>1 DEF v
  <2> QED BY <2>1, <2>2
<1> HIDE DEF s
<1>10. s = [x \in 1 .. a + c |-> s[x]]
  <2>1. s \in Seq(S) /\ Len(s) = a + c
    BY <1>8 DEF s
  <2>2. DOMAIN s = 1 .. a + c
    BY <2>1
  <2>3. s \in [1 .. a + c -> S]
    BY <2>1, <2>2, ElementOfSeq
  <2> QED BY <2>3
<1>11. s = g
  BY <1>9, <1>10
<1> QED BY <1>2, <1>5, <1>11 DEF s, u, v, a, l

--------------------------------------------------------------------------------

LEMMA LoaderStart == ASSUME LoadersAssumption, LoaderInit PROVE LoaderInv
<1>1. Len(tags) \in Nat /\ tags \in Loaders /\ Cap \in Nat /\ EntryBytes \in Nat
  BY TagFacts DEF LoaderInit
<1>2. MapUpTo(0) = <<>>
  BY <1>1, MapsAre
<1>3. Before("mmap", 0) = {} /\ Before("basic", 0) = {} /\ Before("framebuffer", 0) = {}
  BY DEF Before
<1>4. Room(Len(MapUpTo(0))) = 0
  BY <1>1, <1>2 DEF Room
<1>5. MapDone(0)
  <2>1. <<>> = [x \in 1 .. 0 |-> Written(MapUpTo(0)[x])]
    OBVIOUS
  <2> QED BY <1>1, <1>2, <1>3, <1>4, <2>1 DEF MapDone, LoaderInit
<1>6. Noted(0)
  BY <1>3 DEF Noted, LoaderInit
<1>7. tag = Start(0 + 1) /\ 0 \in 0 .. Len(tags)
  BY <1>1, StartsAre DEF LoaderInit
<1> QED BY <1>1, <1>5, <1>6, <1>7 DEF LoaderInv, LoaderInit, InfoOK, RamCounted, Converted

\* What does not depend on how far the conversion is.
LEMMA SameTags ==
    ASSUME tags' = tags
    PROVE  /\ \A k : Start(k)' = Start(k) /\ MapUpTo(k)' = MapUpTo(k)
           /\ \A t, k : Before(t, k)' = Before(t, k)
           /\ Kept' = Kept /\ RamOf' = RamOf /\ total_size' = total_size
BY DEF Start, MapUpTo, MapsOf, Before, Kept, Maps, RamOf, total_size

\* The tag that is read is the one that starts there.
LEMMA TagThere ==
    ASSUME LoadersAssumption, tags \in Loaders, NEW k \in 0 .. Len(tags), tag = Start(k + 1)
    PROVE  /\ tag < total_size <=> k < Len(tags)
           /\ k < Len(tags) => k + 1 \in Starts /\ TagAt = tags[k + 1]
           /\ k = Len(tags) => tag = total_size
<1>1. Len(tags) \in Nat /\ DOMAIN tags = 1 .. Len(tags) /\ total_size = Start(Len(tags) + 1)
  BY TagFacts, StartsAre
<1>2. \A x \in 1 .. Len(tags) + 1 : Start(x) \in Nat
  BY StartsAre
<1>3. k + 1 \in 1 .. Len(tags) + 1 /\ Len(tags) + 1 \in 1 .. Len(tags) + 1
  <2> DEFINE n == Len(tags)
  <2>1. n \in Nat /\ k \in 0 .. n
    BY <1>1
  <2> HIDE DEF n
  <2>2. k + 1 \in 1 .. n + 1 /\ n + 1 \in 1 .. n + 1
    BY <2>1
  <2> QED BY <2>2 DEF n
<1>4. CASE k < Len(tags)
  <2>1. tag < total_size
    <3>1. k + 1 < Len(tags) + 1
      BY <1>1, <1>4
    <3> QED BY <1>1, <1>3, <3>1, StartsApart
  <2>2. Starts = {k + 1}
    <3>1. k + 1 \in 1 .. Len(tags)
      BY <1>1, <1>4
    <3>2. \A x \in 1 .. Len(tags) : x \in 1 .. Len(tags) + 1
      BY <1>1
    <3>3. \A x \in 1 .. Len(tags) + 1 : Start(x) = Start(k + 1) => x = k + 1
      BY <1>3, StartsApart
    <3> QED BY <1>1, <3>1, <3>2, <3>3 DEF Starts
  <2> QED BY <1>1, <1>4, <2>1, <2>2 DEF TagAt
<1>5. CASE k = Len(tags)
  BY <1>1, <1>2, <1>3, <1>5
<1>6. k < Len(tags) \/ k = Len(tags)
  <2> DEFINE n == Len(tags)
  <2>1. n \in Nat /\ k \in 0 .. n
    BY <1>1
  <2> HIDE DEF n
  <2>2. k < n \/ k = n
    BY <2>1
  <2> QED BY <2>2 DEF n
<1> QED BY <1>1, <1>4, <1>5, <1>6

--------------------------------------------------------------------------------

LEMMA KeptIs ==
    ASSUME LoadersAssumption, tags \in Loaders
    PROVE  /\ Maps = MapUpTo(Len(tags)) /\ Maps \in Seq(Regions)
           /\ Len(Kept) \in Nat /\ Len(Kept) = Room(Len(Maps)) /\ DOMAIN Kept = 1 .. Len(Kept)
           /\ \A x \in 1 .. Len(Kept) : Kept[x] = Maps[x] /\ Kept[x] \in Regions
<1> DEFINE n == Len(tags)  l == Len(Maps)  r == Room(l)
<1>1. Maps = MapUpTo(n)
  BY DEF Maps, MapUpTo
<1>2. n \in Nat /\ Cap \in Nat
  BY TagFacts
<1>3. Maps \in Seq(Regions)
  <2>1. n \in 0 .. n
    BY <1>2
  <2> QED BY <1>1, <2>1, MapsAre
<1>4. Kept = SubSeq(Maps, 1, r)
  BY DEF Kept, Room
<1>5. l \in Nat
  BY <1>3
<1>6. \A x \in 1 .. l : Maps[x] \in Regions
  BY <1>3, ElementOfSeq
<1> HIDE DEF l
<1>7. r \in Nat /\ r <= l
  BY <1>2, <1>5 DEF Room
<1> HIDE DEF r
<1>8. \A x \in 1 .. r : Maps[x] \in Regions
  BY <1>5, <1>6, <1>7
<1>9. /\ Kept \in Seq(Regions) /\ Len(Kept) = IF 1 <= r THEN r - 1 + 1 ELSE 0
      /\ \A x \in 1 .. r - 1 + 1 : Kept[x] = Maps[1 + x - 1]
  BY <1>4, <1>7, <1>8, SubSeqProperties
<1>10. Len(Kept) = r
  BY <1>7, <1>9
<1>11. \A x \in 1 .. r : Kept[x] = Maps[x]
  <2>1. \A x \in 1 .. r : x \in 1 .. r - 1 + 1 /\ 1 + x - 1 = x
    BY <1>7
  <2> QED BY <1>9, <2>1
<1>12. DOMAIN Kept = 1 .. Len(Kept)
  BY <1>9
<1> QED BY <1>1, <1>3, <1>7, <1>8, <1>10, <1>11, <1>12 DEF r, l

\* The entries that a map tag adds stand behind those of the tags before it.
LEMMA MapTagFills ==
    ASSUME LoadersAssumption, tags \in Loaders, NEW k \in 0 .. Len(tags) - 1, MapDone(k),
           tags[k + 1].type = "mmap"
    PROVE  LET b == FillMap(tags[k + 1])  m == MapUpTo(k + 1)
           IN  b = [x \in 1 .. Room(Len(m)) |-> Written(m[x])] /\ Len(b) = Room(Len(m))
<1> DEFINE t == tags[k + 1]  M == MapUpTo(k)  E == t.entries  a == Room(Len(M))
           c == IF Len(E) < Cap - a THEN Len(E) ELSE Cap - a
<1>1. Len(tags) \in Nat /\ Cap \in Nat
  BY TagFacts
<1>2. k \in 0 .. Len(tags) /\ k + 1 \in 1 .. Len(tags) /\ k + 1 \in 0 .. Len(tags)
  <2> DEFINE n == Len(tags)
  <2>1. n \in Nat /\ k \in 0 .. n - 1
    BY <1>1
  <2> HIDE DEF n
  <2>2. k \in 0 .. n /\ k + 1 \in 1 .. n /\ k + 1 \in 0 .. n
    BY <2>1
  <2> QED BY <2>2 DEF n
<1>3. E \in Seq(Regions) /\ (t.size - 16) \div t.entry_size = Len(E)
  BY <1>2, TagFacts
<1>4. M \in Seq(Regions) /\ MapUpTo(k + 1) = M \o E
  BY <1>2, MapsAre
<1>5. g_mmap_buffer = [x \in 1 .. a |-> Written(M[x])]
  BY DEF MapDone
<1>6. a \in Nat /\ Room(Len(M \o E)) \in Nat
  <2>1. Len(M) \in Nat /\ Len(M \o E) \in Nat
    BY <1>3, <1>4, ConcatProperties
  <2> QED BY <1>1, <2>1 DEF Room
<1>7. Len(g_mmap_buffer) = a
  <2> HIDE DEF a
  <2> QED BY <1>5, <1>6
<1>8. FillMap(t) = g_mmap_buffer \o [x \in 1 .. c |-> Written(E[x])]
  <2> HIDE DEF a, t
  <2> QED BY <1>3, <1>7 DEF FillMap, Written, E, t
<1>9. FillMap(t) = [x \in 1 .. Room(Len(M \o E)) |-> Written((M \o E)[x])]
  <2> HIDE DEF M, t
  <2> QED BY <1>3, <1>4, <1>5, <1>8, FillGoesOn
<1>10. Len(FillMap(t)) = Room(Len(M \o E))
  <2> DEFINE r == Room(Len(M \o E))
  <2> HIDE DEF M, t
  <2>1. r \in Nat /\ FillMap(t) = [x \in 1 .. r |-> Written((M \o E)[x])]
    BY <1>6, <1>9
  <2> HIDE DEF r
  <2>2. Len(FillMap(t)) = r
    BY <2>1
  <2> QED BY <2>2 DEF r
<1> QED BY <1>4, <1>9, <1>10

\* What the conversion of a tag writes.
LEMMA TagWrites ==
    ASSUME NEW t, ConvertTag(t)
    PROVE  /\ t.type = "mmap" =>
                 /\ g_mmap_buffer' = FillMap(t)
                 /\ g_mb_info' = [g_mb_info EXCEPT !.mmap_length = Len(g_mmap_buffer') * EntryBytes,
                                                   !.flags = @ \cup {"mem_map"}]
           /\ t.type = "basic" =>
                 /\ g_mmap_buffer' = g_mmap_buffer
                 /\ g_mb_info' = [g_mb_info EXCEPT !.mem_upper = t.mem_upper,
                                                   !.flags = @ \cup {"memory"}]
           /\ t.type = "framebuffer" =>
                 /\ g_mmap_buffer' = g_mmap_buffer
                 /\ g_mb_info' = [g_mb_info EXCEPT !.framebuffer = t.screen,
                                                   !.flags = @ \cup {"framebuffer"}]
           /\ t.type = "loader" =>
                 /\ g_mmap_buffer' = g_mmap_buffer
                 /\ g_mb_info' = [g_mb_info EXCEPT !.flags = @ \cup {"loader_name"}]
           /\ t.type = "other" => g_mmap_buffer' = g_mmap_buffer /\ g_mb_info' = g_mb_info
<1>1. ASSUME t.type = "mmap"
      PROVE  /\ g_mmap_buffer' = FillMap(t)
             /\ g_mb_info' = [g_mb_info EXCEPT !.mmap_length = Len(g_mmap_buffer') * EntryBytes,
                                               !.flags = @ \cup {"mem_map"}]
  BY <1>1 DEF ConvertTag
<1>2. ASSUME t.type = "basic"
      PROVE  /\ g_mmap_buffer' = g_mmap_buffer
             /\ g_mb_info' = [g_mb_info EXCEPT !.mem_upper = t.mem_upper,
                                               !.flags = @ \cup {"memory"}]
  BY <1>2 DEF ConvertTag
<1>3. ASSUME t.type = "framebuffer"
      PROVE  /\ g_mmap_buffer' = g_mmap_buffer
             /\ g_mb_info' = [g_mb_info EXCEPT !.framebuffer = t.screen,
                                               !.flags = @ \cup {"framebuffer"}]
  BY <1>3 DEF ConvertTag
<1>4. ASSUME t.type = "loader"
      PROVE  /\ g_mmap_buffer' = g_mmap_buffer
             /\ g_mb_info' = [g_mb_info EXCEPT !.flags = @ \cup {"loader_name"}]
  BY <1>4 DEF ConvertTag
<1>5. ASSUME t.type = "other" PROVE g_mmap_buffer' = g_mmap_buffer /\ g_mb_info' = g_mb_info
  BY <1>5 DEF ConvertTag
<1> QED BY <1>1, <1>2, <1>3, <1>4, <1>5

\* The fields that a tag of each kind leaves in the structure.
LEMMA FieldsWritten ==
    ASSUME InfoOK, NEW m \in BootFlags, NEW n \in Nat
    PROVE  /\ LET i == [g_mb_info EXCEPT !.mem_upper = n, !.flags = @ \cup {m}]
              IN  /\ i \in [flags : SUBSET BootFlags, mem_upper : Nat, mmap_length : Nat, framebuffer : Nat]
                  /\ i.mem_upper = n /\ i.flags = g_mb_info.flags \cup {m}
                  /\ i.mmap_length = g_mb_info.mmap_length /\ i.framebuffer = g_mb_info.framebuffer
           /\ LET i == [g_mb_info EXCEPT !.framebuffer = n, !.flags = @ \cup {m}]
              IN  /\ i \in [flags : SUBSET BootFlags, mem_upper : Nat, mmap_length : Nat, framebuffer : Nat]
                  /\ i.framebuffer = n /\ i.flags = g_mb_info.flags \cup {m}
                  /\ i.mmap_length = g_mb_info.mmap_length /\ i.mem_upper = g_mb_info.mem_upper
           /\ LET i == [g_mb_info EXCEPT !.mmap_length = n, !.flags = @ \cup {m}]
              IN  /\ i \in [flags : SUBSET BootFlags, mem_upper : Nat, mmap_length : Nat, framebuffer : Nat]
                  /\ i.mmap_length = n /\ i.flags = g_mb_info.flags \cup {m}
                  /\ i.framebuffer = g_mb_info.framebuffer /\ i.mem_upper = g_mb_info.mem_upper
           /\ LET i == [g_mb_info EXCEPT !.flags = @ \cup {m}]
              IN  /\ i \in [flags : SUBSET BootFlags, mem_upper : Nat, mmap_length : Nat, framebuffer : Nat]
                  /\ i.flags = g_mb_info.flags \cup {m} /\ i.mem_upper = g_mb_info.mem_upper
                  /\ i.mmap_length = g_mb_info.mmap_length /\ i.framebuffer = g_mb_info.framebuffer
BY DEF InfoOK

LEMMA TagNotes ==
    ASSUME InfoOK, NEW t \in Tags, ConvertTag(t), t.type # "end", EntryBytes \in Nat,
           t.type = "mmap" => Len(FillMap(t)) \in Nat
    PROVE  /\ InfoOK'
           /\ g_mb_info'.mem_upper = IF t.type = "basic" THEN t.mem_upper ELSE g_mb_info.mem_upper
           /\ g_mb_info'.framebuffer =
                 IF t.type = "framebuffer" THEN t.screen ELSE g_mb_info.framebuffer
           /\ g_mmap_buffer' = IF t.type = "mmap" THEN FillMap(t) ELSE g_mmap_buffer
           /\ g_mb_info'.mmap_length =
                 IF t.type = "mmap" THEN Len(FillMap(t)) * EntryBytes ELSE g_mb_info.mmap_length
           /\ "mem_map" \in g_mb_info'.flags <=> "mem_map" \in g_mb_info.flags \/ t.type = "mmap"
           /\ "framebuffer" \in g_mb_info'.flags <=>
                 "framebuffer" \in g_mb_info.flags \/ t.type = "framebuffer"
<1> DEFINE I == [flags : SUBSET BootFlags, mem_upper : Nat, mmap_length : Nat, framebuffer : Nat]
           F == g_mb_info.flags
<1>1. t.type \in {"basic", "mmap", "loader", "framebuffer", "other"}
  BY DEF Tags
<1>2. CASE t.type = "basic"
  <2>1. t.mem_upper \in Nat
    BY <1>2 DEF Tags
  <2>2. g_mb_info' = [g_mb_info EXCEPT !.mem_upper = t.mem_upper, !.flags = @ \cup {"memory"}]
        /\ g_mmap_buffer' = g_mmap_buffer
    BY <1>2, TagWrites
  <2> DEFINE n == t.mem_upper  m == "memory"
  <2>3. m \in BootFlags /\ m # "mem_map" /\ m # "framebuffer"
    BY DEF BootFlags
  <2> HIDE DEF n, m
  <2>4. LET i == [g_mb_info EXCEPT !.mem_upper = n, !.flags = @ \cup {m}]
        IN  /\ i \in I /\ i.mem_upper = n /\ i.flags = F \cup {m}
            /\ i.mmap_length = g_mb_info.mmap_length /\ i.framebuffer = g_mb_info.framebuffer
    BY <2>1, <2>3, FieldsWritten DEF n
  <2>5. /\ g_mb_info' \in I /\ g_mb_info'.mem_upper = n /\ g_mb_info'.flags = F \cup {m}
        /\ g_mb_info'.mmap_length = g_mb_info.mmap_length
        /\ g_mb_info'.framebuffer = g_mb_info.framebuffer
    BY <2>2, <2>4 DEF n, m
  <2>6. /\ "mem_map" \in g_mb_info'.flags <=> "mem_map" \in F
        /\ "framebuffer" \in g_mb_info'.flags <=> "framebuffer" \in F
    BY <2>3, <2>5
  <2>7. InfoOK' /\ t.type # "mmap" /\ t.type # "framebuffer"
    BY <1>2, <2>5 DEF InfoOK
  <2> QED BY <1>2, <2>2, <2>5, <2>6, <2>7 DEF n
<1>3. CASE t.type = "framebuffer"
  <2>1. t.screen \in Nat
    BY <1>3 DEF Tags
  <2>2. g_mb_info' = [g_mb_info EXCEPT !.framebuffer = t.screen, !.flags = @ \cup {"framebuffer"}]
        /\ g_mmap_buffer' = g_mmap_buffer
    BY <1>3, TagWrites
  <2> DEFINE n == t.screen  m == "framebuffer"
  <2>3. m \in BootFlags /\ m # "mem_map"
    BY DEF BootFlags
  <2> HIDE DEF n, m
  <2>4. LET i == [g_mb_info EXCEPT !.framebuffer = n, !.flags = @ \cup {m}]
        IN  /\ i \in I /\ i.framebuffer = n /\ i.flags = F \cup {m}
            /\ i.mmap_length = g_mb_info.mmap_length /\ i.mem_upper = g_mb_info.mem_upper
    BY <2>1, <2>3, FieldsWritten DEF n
  <2>5. /\ g_mb_info' \in I /\ g_mb_info'.framebuffer = n /\ g_mb_info'.flags = F \cup {m}
        /\ g_mb_info'.mmap_length = g_mb_info.mmap_length
        /\ g_mb_info'.mem_upper = g_mb_info.mem_upper
    BY <2>2, <2>4 DEF n, m
  <2>6. /\ "mem_map" \in g_mb_info'.flags <=> "mem_map" \in F
        /\ m \in g_mb_info'.flags
    BY <2>3, <2>5
  <2>7. InfoOK' /\ t.type # "mmap" /\ t.type # "basic"
    BY <1>3, <2>5 DEF InfoOK
  <2> QED BY <1>3, <2>2, <2>5, <2>6, <2>7 DEF n, m
<1>4. CASE t.type = "mmap"
  <2>1. Len(FillMap(t)) * EntryBytes \in Nat
    BY <1>4
  <2>2. g_mb_info' = [g_mb_info EXCEPT !.mmap_length = Len(FillMap(t)) * EntryBytes,
                                       !.flags = @ \cup {"mem_map"}]
        /\ g_mmap_buffer' = FillMap(t)
    BY <1>4, TagWrites
  <2> DEFINE n == Len(FillMap(t)) * EntryBytes  m == "mem_map"
  <2>3. m \in BootFlags /\ m # "framebuffer"
    BY DEF BootFlags
  <2> HIDE DEF n, m
  <2>4. LET i == [g_mb_info EXCEPT !.mmap_length = n, !.flags = @ \cup {m}]
        IN  /\ i \in I /\ i.mmap_length = n /\ i.flags = F \cup {m}
            /\ i.framebuffer = g_mb_info.framebuffer /\ i.mem_upper = g_mb_info.mem_upper
    BY <2>1, <2>3, FieldsWritten DEF n
  <2>5. /\ g_mb_info' \in I /\ g_mb_info'.mmap_length = n /\ g_mb_info'.flags = F \cup {m}
        /\ g_mb_info'.framebuffer = g_mb_info.framebuffer
        /\ g_mb_info'.mem_upper = g_mb_info.mem_upper
    BY <2>2, <2>4 DEF n, m
  <2>6. /\ "framebuffer" \in g_mb_info'.flags <=> "framebuffer" \in F
        /\ m \in g_mb_info'.flags
    BY <2>3, <2>5
  <2>7. InfoOK' /\ t.type # "framebuffer" /\ t.type # "basic"
    BY <1>4, <2>5 DEF InfoOK
  <2> QED BY <1>4, <2>2, <2>5, <2>6, <2>7 DEF n, m
<1>5. CASE t.type = "loader"
  <2>2. g_mb_info' = [g_mb_info EXCEPT !.flags = @ \cup {"loader_name"}]
        /\ g_mmap_buffer' = g_mmap_buffer
    BY <1>5, TagWrites
  <2> DEFINE m == "loader_name"
  <2>3. m \in BootFlags /\ m # "framebuffer" /\ m # "mem_map"
    BY DEF BootFlags
  <2> HIDE DEF m
  <2>4. LET i == [g_mb_info EXCEPT !.flags = @ \cup {m}]
        IN  /\ i \in I /\ i.flags = F \cup {m} /\ i.mem_upper = g_mb_info.mem_upper
            /\ i.mmap_length = g_mb_info.mmap_length /\ i.framebuffer = g_mb_info.framebuffer
    <3>1. 0 \in Nat
      OBVIOUS
    <3> QED BY <2>3, <3>1, FieldsWritten
  <2>5. /\ g_mb_info' \in I /\ g_mb_info'.flags = F \cup {m}
        /\ g_mb_info'.mmap_length = g_mb_info.mmap_length
        /\ g_mb_info'.framebuffer = g_mb_info.framebuffer
        /\ g_mb_info'.mem_upper = g_mb_info.mem_upper
    BY <2>2, <2>4 DEF m
  <2>6. /\ "framebuffer" \in g_mb_info'.flags <=> "framebuffer" \in F
        /\ "mem_map" \in g_mb_info'.flags <=> "mem_map" \in F
    BY <2>3, <2>5
  <2>7. InfoOK' /\ t.type # "framebuffer" /\ t.type # "basic" /\ t.type # "mmap"
    BY <1>5, <2>5 DEF InfoOK
  <2> QED BY <2>2, <2>5, <2>6, <2>7
<1>6. CASE t.type = "other"
  <2>1. g_mb_info' = g_mb_info /\ g_mmap_buffer' = g_mmap_buffer
    BY <1>6, TagWrites
  <2> QED BY <1>6, <2>1 DEF InfoOK
<1> QED BY <1>1, <1>2, <1>3, <1>4, <1>5, <1>6

\* A tag converted: one more of its kind, and a map tag's entries at the end.
LEMMA TagConverted ==
    ASSUME LoadersAssumption, tags \in Loaders, InfoOK, NEW k \in 0 .. Len(tags) - 1, Converted(k),
           tags' = tags, tags[k + 1].type # "end", ConvertTag(tags[k + 1])
    PROVE  InfoOK' /\ Converted(k + 1)'
<1> DEFINE t == tags[k + 1]  m == MapUpTo(k + 1)  r == Room(Len(m))
<1>1. Len(tags) \in Nat /\ EntryBytes \in Nat /\ Cap \in Nat
  BY TagFacts
<1>2. k \in 0 .. Len(tags) /\ k + 1 \in 1 .. Len(tags) /\ k + 1 \in 0 .. Len(tags) /\ k \in Nat
  <2> DEFINE n == Len(tags)
  <2>1. n \in Nat /\ k \in 0 .. n - 1
    BY <1>1
  <2> HIDE DEF n
  <2>2. k \in 0 .. n /\ k + 1 \in 1 .. n /\ k + 1 \in 0 .. n /\ k \in Nat
    BY <2>1
  <2> QED BY <2>2 DEF n
<1>3. t \in Tags
  BY <1>2, ElementOfSeq DEF LoadersAssumption
<1>4. /\ MapUpTo(k + 1)' = m
      /\ Before("mmap", k + 1)' = Before("mmap", k + 1)
      /\ Before("basic", k + 1)' = Before("basic", k + 1)
      /\ Before("framebuffer", k + 1)' = Before("framebuffer", k + 1)
  BY SameTags
<1>5. m \in Seq(Regions) /\ (t.type # "mmap" => m = MapUpTo(k))
  BY <1>2, MapsAre
<1>6. r \in Nat
  <2>1. Len(m) \in Nat
    BY <1>5
  <2> QED BY <1>1, <2>1 DEF Room
<1>7. \A u : Before(u, k + 1) = IF t.type = u THEN Before(u, k) \cup {k + 1} ELSE Before(u, k)
  BY OneMore
<1>8. \A u : \A x \in Before(u, k) : x \in Nat /\ x < k + 1
  BY <1>2 DEF Before
<1>9. t.type = "mmap" =>
         FillMap(t) = [x \in 1 .. r |-> Written(m[x])] /\ Len(FillMap(t)) = r
  BY MapTagFills DEF Converted
<1> HIDE DEF t, m, r
<1>10. /\ InfoOK'
       /\ g_mb_info'.mem_upper = IF t.type = "basic" THEN t.mem_upper ELSE g_mb_info.mem_upper
       /\ g_mb_info'.framebuffer =
             IF t.type = "framebuffer" THEN t.screen ELSE g_mb_info.framebuffer
       /\ g_mmap_buffer' = IF t.type = "mmap" THEN FillMap(t) ELSE g_mmap_buffer
       /\ g_mb_info'.mmap_length =
             IF t.type = "mmap" THEN Len(FillMap(t)) * EntryBytes ELSE g_mb_info.mmap_length
       /\ "mem_map" \in g_mb_info'.flags <=> "mem_map" \in g_mb_info.flags \/ t.type = "mmap"
       /\ "framebuffer" \in g_mb_info'.flags <=>
             "framebuffer" \in g_mb_info.flags \/ t.type = "framebuffer"
  <2>1. ConvertTag(t) /\ t.type # "end"
    BY DEF t
  <2> QED BY <1>1, <1>3, <1>6, <1>9, <2>1, TagNotes
<1>11. MapDone(k + 1)'
  <2>1. SUFFICES /\ g_mmap_buffer' = [x \in 1 .. r |-> Written(m[x])]
                 /\ g_mb_info'.mmap_length = r * EntryBytes
                 /\ "mem_map" \in g_mb_info'.flags <=> Before("mmap", k + 1) # {}
                 /\ Before("mmap", k + 1) = {} => m = <<>>
    BY <1>4 DEF MapDone, Room, Written, r
  <2>2. CASE t.type = "mmap"
    <3>1. Before("mmap", k + 1) # {}
      BY <1>7, <2>2
    <3> QED BY <1>9, <1>10, <2>2, <3>1
  <2>3. CASE t.type # "mmap"
    <3>1. m = MapUpTo(k) /\ Before("mmap", k + 1) = Before("mmap", k)
      BY <1>5, <1>7, <2>3
    <3>2. MapDone(k)
      BY DEF Converted
    <3> QED BY <1>10, <2>3, <3>1, <3>2 DEF MapDone, r
  <2> QED BY <2>2, <2>3
<1>12. Noted(k + 1)'
  <2> DEFINE fb == Before("framebuffer", k + 1)  ba == Before("basic", k + 1)
  <2>1. SUFFICES /\ "framebuffer" \in g_mb_info'.flags <=> fb # {}
                 /\ \A l \in ba : (\A x \in ba : x <= l) => g_mb_info'.mem_upper = tags[l].mem_upper
                 /\ \A l \in fb : (\A x \in fb : x <= l) => g_mb_info'.framebuffer = tags[l].screen
    BY <1>4 DEF Noted
  <2>2. Noted(k)
    BY DEF Converted
  <2>3. "framebuffer" \in g_mb_info'.flags <=> fb # {}
    <3>1. fb # {} <=> Before("framebuffer", k) # {} \/ t.type = "framebuffer"
      BY <1>7
    <3> QED BY <1>10, <2>2, <3>1 DEF Noted
  <2>4. ASSUME NEW l \in ba, \A x \in ba : x <= l PROVE g_mb_info'.mem_upper = tags[l].mem_upper
    <3>1. CASE t.type = "basic"
      <4>0. ba = Before("basic", k) \cup {k + 1}
        BY <1>7, <3>1
      <4>1. k + 1 \in ba /\ (l = k + 1 \/ l \in Before("basic", k))
        BY <2>4, <4>0
      <4>2. l = k + 1
        BY <1>2, <1>8, <2>4, <4>1
      <4> QED BY <1>10, <3>1, <4>2 DEF t
    <3>2. CASE t.type # "basic"
      <4>1. ba = Before("basic", k)
        BY <1>7, <3>2
      <4> QED BY <1>10, <2>2, <2>4, <3>2, <4>1 DEF Noted
    <3> QED BY <3>1, <3>2
  <2>5. ASSUME NEW l \in fb, \A x \in fb : x <= l PROVE g_mb_info'.framebuffer = tags[l].screen
    <3>1. CASE t.type = "framebuffer"
      <4>0. fb = Before("framebuffer", k) \cup {k + 1}
        BY <1>7, <3>1
      <4>1. k + 1 \in fb /\ (l = k + 1 \/ l \in Before("framebuffer", k))
        BY <2>5, <4>0
      <4>2. l = k + 1
        BY <1>2, <1>8, <2>5, <4>1
      <4> QED BY <1>10, <3>1, <4>2 DEF t
    <3>2. CASE t.type # "framebuffer"
      <4>1. fb = Before("framebuffer", k)
        BY <1>7, <3>2
      <4> QED BY <1>10, <2>2, <2>5, <3>2, <4>1 DEF Noted
    <3> QED BY <3>1, <3>2
  <2> QED BY <2>3, <2>4, <2>5
<1> QED BY <1>10, <1>11, <1>12 DEF Converted

--------------------------------------------------------------------------------
(* The steps *)

LEMMA TagStep ==
    ASSUME LoadersAssumption, LoaderInv, ReadTag
    PROVE  LoaderInv'
<1>1. /\ tags \in Loaders /\ InfoOK /\ loader_pc = "tags" /\ tag < total_size
      /\ tags' = tags /\ loader_pc' = "tags" /\ mmap' = 0 /\ total_ram' = 0
      /\ tag' = tag + Aligned(TagAt.size) /\ ConvertTag(TagAt) /\ TagAt.type # "end"
  BY DEF LoaderInv, ReadTag
<1>2. PICK k \in 0 .. Len(tags) : tag = Start(k + 1) /\ Converted(k)
  BY <1>1 DEF LoaderInv
<1>3. k < Len(tags) /\ TagAt = tags[k + 1]
  BY <1>1, <1>2, TagThere
<1>4. k \in 0 .. Len(tags) - 1 /\ k + 1 \in 1 .. Len(tags) /\ k + 1 \in 0 .. Len(tags)
  <2> DEFINE n == Len(tags)
  <2>1. n \in Nat /\ k \in 0 .. n /\ k < n
    BY <1>1, <1>3, TagFacts
  <2> HIDE DEF n
  <2>2. k \in 0 .. n - 1 /\ k + 1 \in 1 .. n /\ k + 1 \in 0 .. n
    BY <2>1
  <2> QED BY <2>2 DEF n
<1>5. InfoOK' /\ Converted(k + 1)'
  BY <1>1, <1>2, <1>3, <1>4, TagConverted
<1>6. tag' = Start((k + 1) + 1)'
  <2>1. Start((k + 1) + 1) = Start(k + 1) + Aligned(tags[k + 1].size)
    BY <1>1, <1>4, StartsAre
  <2>2. Start((k + 1) + 1)' = Start((k + 1) + 1)
    BY <1>1, SameTags
  <2> QED BY <1>1, <1>2, <1>3, <2>1, <2>2
<1>7. \E x \in 0 .. Len(tags') : tag' = Start(x + 1)' /\ Converted(x)'
  BY <1>1, <1>4, <1>5, <1>6
<1>8. loader_pc' \in {"tags", "walk", "done"} /\ ~(loader_pc' = "walk") /\ ~(loader_pc' = "done")
  BY <1>1
<1> QED BY <1>1, <1>5, <1>7, <1>8 DEF LoaderInv, RamCounted

\* The end tag adds nothing: at the end of the walk all tags are converted.
LEMMA AllConverted ==
    ASSUME LoadersAssumption, LoaderInv, EndOfTags
    PROVE  Converted(Len(tags))
<1>1. tags \in Loaders /\ loader_pc = "tags" /\ (tag < total_size => TagAt.type = "end")
  BY DEF LoaderInv, EndOfTags
<1>2. PICK k \in 0 .. Len(tags) : tag = Start(k + 1) /\ Converted(k)
  BY <1>1 DEF LoaderInv
<1>3. CASE k = Len(tags)
  BY <1>2, <1>3
<1>4. CASE k < Len(tags)
  <2>1. k \in 0 .. Len(tags) - 1 /\ k + 1 \in 1 .. Len(tags)
    <3> DEFINE n == Len(tags)
    <3>1. n \in Nat /\ k \in 0 .. n /\ k < n
      BY <1>1, <1>4, TagFacts
    <3> HIDE DEF n
    <3>2. k \in 0 .. n - 1 /\ k + 1 \in 1 .. n
      BY <3>1
    <3> QED BY <3>2 DEF n
  <2>2. tags[k + 1].type = "end"
    BY <1>1, <1>2, <1>4, TagThere
  <2>3. k + 1 = Len(tags)
    BY <1>1, <2>1, <2>2, TagFacts
  <2>4. MapUpTo(k + 1) = MapUpTo(k)
    BY <1>1, <2>1, <2>2, MapsAre
  <2>5. /\ Before("mmap", k + 1) = Before("mmap", k)
        /\ Before("basic", k + 1) = Before("basic", k)
        /\ Before("framebuffer", k + 1) = Before("framebuffer", k)
    BY <1>1, <2>1, <2>2, OneMore
  <2>6. Converted(k + 1)
    BY <1>2, <2>4, <2>5 DEF Converted, MapDone, Noted
  <2> QED BY <2>3, <2>6
<1>5. k < Len(tags) \/ k = Len(tags)
  <2> DEFINE n == Len(tags)
  <2>1. n \in Nat /\ k \in 0 .. n
    BY <1>1, TagFacts
  <2> HIDE DEF n
  <2>2. k < n \/ k = n
    BY <2>1
  <2> QED BY <2>2 DEF n
<1> QED BY <1>3, <1>4, <1>5

LEMMA SameConverted ==
    ASSUME UNCHANGED <<tags, g_mmap_buffer, g_mb_info>>, NEW k, Converted(k)
    PROVE  Converted(k)'
<1>1. /\ MapUpTo(k)' = MapUpTo(k)
      /\ Before("mmap", k)' = Before("mmap", k)
      /\ Before("basic", k)' = Before("basic", k)
      /\ Before("framebuffer", k)' = Before("framebuffer", k)
  BY SameTags
<1> QED BY <1>1 DEF Converted, MapDone, Noted, Room, Written

LEMMA SumsStart ==
    ASSUME LoadersAssumption, tags \in Loaders
    PROVE  Sums(RamOf, Len(Kept))[0] = 0
<1> DEFINE n == Len(Kept)  s == Sums(RamOf, n)
<1>1. n \in Nat
  BY KeptIs
<1>2. s = [k \in 0 .. n |-> IF k = 0 THEN 0 ELSE s[k - 1] + RamOf[k]]
  BY <1>1, SumsAre
<1> HIDE DEF n, s
<1>3. 0 \in 0 .. n
  BY <1>1
<1>4. s[0] = 0
  BY <1>2, <1>3
<1> QED BY <1>4 DEF n, s

LEMMA TagsEnd ==
    ASSUME LoadersAssumption, LoaderInv, EndOfTags
    PROVE  LoaderInv'
<1>1. /\ tags \in Loaders /\ InfoOK /\ mmap = 0 /\ total_ram = 0
      /\ UNCHANGED <<tags, tag, g_mmap_buffer, g_mb_info, mmap, total_ram>>
      /\ loader_pc' = IF "mem_map" \in g_mb_info.flags THEN "walk" ELSE "done"
  BY DEF LoaderInv, EndOfTags
<1>2. Converted(Len(tags)) /\ Converted(Len(tags))'
  <2>1. Converted(Len(tags))
    BY AllConverted
  <2>2. Converted(Len(tags))'
    BY <1>1, <2>1, SameConverted
  <2> QED BY <2>1, <2>2
<1>3. InfoOK'
  BY <1>1 DEF InfoOK
<1>4. Len(Kept) \in Nat /\ Len(Kept) = Room(Len(Maps)) /\ Maps = MapUpTo(Len(tags))
      /\ Cap \in Nat /\ EntryBytes \in Nat
  BY <1>1, KeptIs, TagFacts
<1>5. Sums(RamOf, Len(Kept))[0] = 0
  BY <1>1, SumsStart
<1>6. Kept' = Kept /\ RamOf' = RamOf
  BY <1>1, SameTags
<1>7. loader_pc' = "done" => total_ram' = Sums(RamOf, Len(Kept))[Len(Kept)]
  <2>1. SUFFICES ASSUME loader_pc' = "done" PROVE Len(Kept) = 0
    BY <1>1, <1>5
  <2>2. Before("mmap", Len(tags)) = {}
    BY <1>1, <1>2, <2>1 DEF Converted, MapDone
  <2>3. Maps = <<>>
    BY <1>2, <1>4, <2>2 DEF Converted, MapDone
  <2> QED BY <1>4, <2>3 DEF Room
<1>8. \E x \in 0 .. Len(Kept) : mmap' = x * EntryBytes /\ total_ram' = Sums(RamOf, Len(Kept))[x]
  <2>1. 0 \in 0 .. Len(Kept) /\ 0 = 0 * EntryBytes
    BY <1>4
  <2> QED BY <1>1, <1>5, <2>1
<1>9. loader_pc' \in {"tags", "walk", "done"} /\ ~(loader_pc' = "tags")
  BY <1>1
<1> QED BY <1>1, <1>2, <1>3, <1>6, <1>7, <1>8, <1>9 DEF LoaderInv, RamCounted

LEMMA WholeEntries ==
    ASSUME NEW x \in Nat, NEW l \in Nat, NEW b \in Nat, b > 0
    PROVE  /\ (x * b) \div b = x
           /\ x * b < l * b <=> x < l
           /\ (x + 1) * b = x * b + b
<1>1. (x + 1) * b = x * b + b
  OBVIOUS
<1>2. (x * b) \div b = x
  OBVIOUS
<1>3. ASSUME NEW y \in Nat, NEW z \in Nat, y <= z PROVE y * b <= z * b
  <2>1. PICK d \in Nat : z = y + d
    <3>1. z - y \in Nat /\ z = y + (z - y)
      BY <1>3
    <3> QED BY <3>1
  <2>2. z * b = y * b + d * b /\ d * b \in Nat /\ y * b \in Nat
    BY <2>1
  <2> QED BY <2>2
<1>4. x * b \in Nat /\ l * b \in Nat
  OBVIOUS
<1>5. l <= x => l * b <= x * b
  BY <1>3
<1>6. x + 1 <= l => (x + 1) * b <= l * b
  <2>1. x + 1 \in Nat
    OBVIOUS
  <2> QED BY <1>3, <2>1
<1>7. (l <= x \/ x + 1 <= l) /\ (x < l <=> x + 1 <= l) /\ (x < l <=> ~(l <= x))
  OBVIOUS
<1> DEFINE p == x * b  q == l * b  r == (x + 1) * b
<1>8. p \in Nat /\ q \in Nat /\ r = p + b /\ (l <= x => q <= p) /\ (x + 1 <= l => r <= q)
  BY <1>1, <1>4, <1>5, <1>6
<1> HIDE DEF p, q, r
<1>9. p < q <=> x < l
  BY <1>7, <1>8
<1> QED BY <1>1, <1>2, <1>9 DEF p, q

LEMMA MapStep ==
    ASSUME LoadersAssumption, LoaderInv, WalkMap
    PROVE  LoaderInv'
<1> DEFINE n == Len(Kept)  s == Sums(RamOf, n)
<1>1. /\ tags \in Loaders /\ InfoOK /\ loader_pc = "walk" /\ Converted(Len(tags))
      /\ total_ram \in Nat /\ mmap < g_mb_info.mmap_length
      /\ UNCHANGED <<tags, loader_pc, tag, g_mmap_buffer, g_mb_info>>
      /\ mmap' = mmap + Stride(Entry)
      /\ total_ram' = IF Entry.type = 1 THEN total_ram + Entry.len ELSE total_ram
  BY DEF LoaderInv, WalkMap
<1>2. PICK x \in 0 .. n : mmap = x * EntryBytes /\ total_ram = s[x]
  BY <1>1 DEF LoaderInv
<1>3. /\ n \in Nat /\ n = Room(Len(Maps)) /\ Maps = MapUpTo(Len(tags)) /\ DOMAIN Kept = 1 .. n
      /\ \A y \in 1 .. n : Kept[y] = Maps[y] /\ Kept[y] \in Regions
  BY <1>1, KeptIs
<1>4. EntryBytes \in Nat /\ EntryBytes > 4
  BY <1>1, TagFacts
<1>5. s = [k \in 0 .. n |-> IF k = 0 THEN 0 ELSE s[k - 1] + RamOf[k]]
  BY <1>3, SumsAre
<1>6. Kept' = Kept /\ RamOf' = RamOf
  BY <1>1, SameTags
<1>7. /\ g_mmap_buffer = [y \in 1 .. n |-> Written(Maps[y])]
      /\ g_mb_info.mmap_length = n * EntryBytes
  BY <1>1, <1>3 DEF Converted, MapDone
<1> HIDE DEF n, s
<1>8. /\ x < n /\ x + 1 \in 1 .. n /\ x + 1 \in 0 .. n
      /\ mmap \div EntryBytes = x /\ mmap + EntryBytes = (x + 1) * EntryBytes
  <2>1. x \in Nat
    BY <1>3
  <2>2. /\ (x * EntryBytes) \div EntryBytes = x
        /\ x * EntryBytes < n * EntryBytes => x < n
        /\ (x + 1) * EntryBytes = x * EntryBytes + EntryBytes
    BY <1>3, <1>4, <2>1, WholeEntries
  <2>3. x < n
    BY <1>1, <1>2, <1>7, <2>2
  <2> QED BY <1>2, <1>3, <2>1, <2>2, <2>3
<1>9. Entry = Written(Kept[x + 1])
  <2>1. Entry = g_mmap_buffer[1 + x] /\ 1 + x = x + 1
    BY <1>3, <1>8 DEF Entry
  <2> QED BY <1>3, <1>7, <1>8, <2>1
<1> DEFINE r == Kept[x + 1]
<1>10. r \in Regions /\ r.len \in Nat
  <2>1. r \in Regions
    BY <1>3, <1>8
  <2> QED BY <2>1 DEF Regions
<1>11. s[x + 1] = s[x] + RamOf[x + 1]
  <2>1. x + 1 # 0 /\ (x + 1) - 1 = x
    BY <1>3
  <2> QED BY <1>5, <1>8, <2>1
<1>12. RamOf[x + 1] = IF r.type = 1 THEN r.len ELSE 0
  BY <1>3, <1>8 DEF RamOf
<1> HIDE DEF r
<1>13. Entry.type = r.type /\ Entry.len = r.len /\ Stride(Entry) = EntryBytes
  <2>1. Entry = [size |-> EntryBytes - 4, addr |-> r.addr, len |-> r.len, type |-> r.type]
    BY <1>9 DEF Written, r
  <2>2. Entry.type = r.type /\ Entry.len = r.len /\ Entry.size = EntryBytes - 4
    BY <2>1
  <2>3. Stride(Entry) = (EntryBytes - 4) + 4
    BY <2>2 DEF Stride
  <2> QED BY <1>4, <2>2, <2>3
<1>14. mmap' = (x + 1) * EntryBytes /\ total_ram' = s[x + 1] /\ total_ram' \in Nat
  <2>1. mmap' = (x + 1) * EntryBytes
    BY <1>1, <1>8, <1>13
  <2>2. CASE r.type = 1
    BY <1>1, <1>2, <1>10, <1>11, <1>12, <1>13, <2>1, <2>2
  <2>3. CASE r.type # 1
    BY <1>1, <1>2, <1>11, <1>12, <1>13, <2>1, <2>3
  <2> QED BY <2>2, <2>3
<1>15. \E y \in 0 .. n : mmap' = y * EntryBytes /\ total_ram' = s[y]
  BY <1>8, <1>14
<1>16. Converted(Len(tags))'
  BY <1>1, SameConverted
<1>17. InfoOK' /\ loader_pc' = "walk"
  BY <1>1 DEF InfoOK
<1>18. loader_pc' # "tags" /\ loader_pc' # "done"
  BY <1>17
<1> QED BY <1>1, <1>6, <1>14, <1>15, <1>16, <1>17, <1>18 DEF LoaderInv, RamCounted, n, s

LEMMA MapEnd ==
    ASSUME LoadersAssumption, LoaderInv, EndOfMap
    PROVE  LoaderInv'
<1> DEFINE n == Len(Kept)  s == Sums(RamOf, n)
<1>1. /\ tags \in Loaders /\ InfoOK /\ loader_pc = "walk" /\ Converted(Len(tags))
      /\ total_ram \in Nat /\ mmap >= g_mb_info.mmap_length /\ loader_pc' = "done"
      /\ UNCHANGED <<tags, tag, g_mmap_buffer, g_mb_info, mmap, total_ram>>
  BY DEF LoaderInv, EndOfMap
<1>2. PICK x \in 0 .. n : mmap = x * EntryBytes /\ total_ram = s[x]
  BY <1>1 DEF LoaderInv
<1>3. n \in Nat /\ n = Room(Len(Maps)) /\ Maps = MapUpTo(Len(tags))
  BY <1>1, KeptIs
<1>4. EntryBytes \in Nat /\ EntryBytes > 4
  BY <1>1, TagFacts
<1>5. Kept' = Kept /\ RamOf' = RamOf
  BY <1>1, SameTags
<1>6. g_mb_info.mmap_length = n * EntryBytes
  BY <1>1, <1>3 DEF Converted, MapDone
<1> HIDE DEF n, s
<1>7. x = n
  <2>1. x \in Nat /\ x <= n
    BY <1>3
  <2>3. x * EntryBytes < n * EntryBytes <=> x < n
    BY <1>3, <1>4, <2>1, WholeEntries
  <2>4. n * EntryBytes \in Nat /\ x * EntryBytes \in Nat
    BY <1>3, <1>4, <2>1
  <2> QED BY <1>1, <1>2, <1>3, <1>6, <2>1, <2>3, <2>4
<1>8. total_ram' = s[n]
  BY <1>1, <1>2, <1>7
<1>9. Converted(Len(tags))'
  BY <1>1, SameConverted
<1>10. InfoOK' /\ loader_pc' # "tags" /\ loader_pc' # "walk"
  BY <1>1 DEF InfoOK
<1> QED BY <1>1, <1>5, <1>8, <1>9, <1>10 DEF LoaderInv, RamCounted, n, s

LEMMA LoaderSame ==
    ASSUME LoaderInv, UNCHANGED loaderVars
    PROVE  LoaderInv'
<1>1. UNCHANGED <<tags, loader_pc, tag, g_mmap_buffer, g_mb_info, mmap, total_ram>>
  BY DEF loaderVars
<1>2. /\ Kept' = Kept /\ RamOf' = RamOf /\ \A k : Start(k)' = Start(k)
  BY <1>1, SameTags
<1>3. \A k : Converted(k) => Converted(k)'
  BY <1>1, SameConverted
<1>4. InfoOK' <=> InfoOK
  BY <1>1 DEF InfoOK
<1>5. RamCounted' <=> RamCounted
  BY <1>1, <1>2 DEF RamCounted
<1> QED BY <1>1, <1>2, <1>3, <1>4, <1>5 DEF LoaderInv

LEMMA LoaderInvHolds == ASSUME LoadersAssumption PROVE LoaderSpec => []LoaderInv
<1>1. LoaderInit => LoaderInv
  BY LoaderStart
<1>2. LoaderInv /\ [LoaderNext]_loaderVars => LoaderInv'
  BY TagStep, TagsEnd, MapStep, MapEnd, LoaderSame DEF LoaderNext
<1> QED BY <1>1, <1>2, PTL DEF LoaderSpec

--------------------------------------------------------------------------------

LEMMA InvMapFaithful == ASSUME LoadersAssumption, LoaderInv PROVE MapFaithful
<1> DEFINE n == Len(Kept)
<1>1. SUFFICES ASSUME loader_pc # "tags"
               PROVE  /\ Len(g_mmap_buffer) = n
                      /\ \A k \in DOMAIN Kept : \A f \in {"addr", "len", "type"} :
                            g_mmap_buffer[k][f] = Kept[k][f]
                      /\ \A k \in LastOf("basic") : g_mb_info.mem_upper = tags[k].mem_upper
                      /\ \A k \in LastOf("framebuffer") : g_mb_info.framebuffer = tags[k].screen
                      /\ ("mem_map" \in g_mb_info.flags) = (Of("mmap") # {})
                      /\ ("framebuffer" \in g_mb_info.flags) = (Of("framebuffer") # {})
  BY DEF MapFaithful
<1>2. tags \in Loaders /\ MapDone(Len(tags)) /\ Noted(Len(tags))
  BY <1>1 DEF LoaderInv, Converted
<1>3. /\ n \in Nat /\ n = Room(Len(Maps)) /\ Maps = MapUpTo(Len(tags)) /\ DOMAIN Kept = 1 .. n
      /\ \A y \in 1 .. n : Kept[y] = Maps[y]
  BY <1>2, KeptIs
<1>4. \A u : Before(u, Len(tags)) = Of(u)
  BY <1>2, TagFacts DEF Before, Of
<1>5. g_mmap_buffer = [y \in 1 .. n |-> Written(Maps[y])]
  BY <1>2, <1>3 DEF MapDone
<1> HIDE DEF n
<1>6. Len(g_mmap_buffer) = n
  BY <1>3, <1>5
<1>7. ASSUME NEW k \in DOMAIN Kept, NEW f \in {"addr", "len", "type"}
      PROVE  g_mmap_buffer[k][f] = Kept[k][f]
  <2>1. g_mmap_buffer[k] = Written(Kept[k])
    BY <1>3, <1>5, <1>7
  <2>2. Written(Kept[k])[f] = Kept[k][f]
    BY <1>7 DEF Written
  <2> QED BY <2>1, <2>2
<1>8. ASSUME NEW k \in LastOf("basic") PROVE g_mb_info.mem_upper = tags[k].mem_upper
  BY <1>2, <1>4, <1>8 DEF LastOf, Noted
<1>9. ASSUME NEW k \in LastOf("framebuffer") PROVE g_mb_info.framebuffer = tags[k].screen
  BY <1>2, <1>4, <1>9 DEF LastOf, Noted
<1>10. ("mem_map" \in g_mb_info.flags) = (Of("mmap") # {})
  BY <1>2, <1>4 DEF MapDone
<1>11. ("framebuffer" \in g_mb_info.flags) = (Of("framebuffer") # {})
  BY <1>2, <1>4 DEF Noted
<1> QED BY <1>6, <1>7, <1>8, <1>9, <1>10, <1>11

LEMMA InvWalksTags == ASSUME LoadersAssumption, LoaderInv PROVE WalksTags
<1>1. SUFFICES ASSUME loader_pc = "tags" PROVE Starts # {} \/ tag = total_size
  BY DEF WalksTags
<1>2. tags \in Loaders
  BY DEF LoaderInv
<1>3. PICK k \in 0 .. Len(tags) : tag = Start(k + 1)
  BY <1>1 DEF LoaderInv
<1>4. (k < Len(tags) => k + 1 \in Starts) /\ (k = Len(tags) => tag = total_size)
  BY <1>2, <1>3, TagThere
<1>5. k < Len(tags) \/ k = Len(tags)
  <2> DEFINE n == Len(tags)
  <2>1. n \in Nat /\ k \in 0 .. n
    BY <1>2, TagFacts
  <2> HIDE DEF n
  <2>2. k < n \/ k = n
    BY <2>1
  <2> QED BY <2>2 DEF n
<1> QED BY <1>4, <1>5

\* convert_mb2_to_mb1 and the walks over the map, whatever tags, in whatever
\* number and sizes, a loader leaves: each tag is read from its start, the map is
\* that of the map tags up to the buffer's end, and the RAM is that of its entries.
THEOREM LoaderAlwaysRead == ASSUME LoadersAssumption PROVE LoaderSpec => []LoaderRead
<1>1. LoaderSpec => []LoaderInv
  BY LoaderInvHolds
<1>2. LoaderInv => LoaderRead
  BY InvMapFaithful, InvWalksTags DEF LoaderRead, LoaderInv
<1> QED BY <1>1, <1>2, PTL

--------------------------------------------------------------------------------
(* Smbios: the strings of the board.                                       *)

\* A sequence of numbers that never falls from one to the next never falls.
LEMMA Growing ==
    ASSUME NEW n \in Nat, NEW g, \A x \in 1 .. n + 1 : g[x] \in Nat,
           \A x \in 1 .. n : g[x] <= g[x + 1]
    PROVE  \A x \in 1 .. n + 1 : \A y \in x .. n + 1 : g[x] <= g[y]
<1>1. ASSUME NEW x \in 1 .. n + 1 PROVE \A d \in 0 .. n + 1 - x : g[x] <= g[x + d]
  <2> DEFINE T == {d \in 0 .. n + 1 - x : g[x] <= g[x + d]}
  <2>1. 0 \in T /\ n + 1 - x \in Nat
    <3>1. x + 0 = x /\ 0 \in 0 .. n + 1 - x /\ n + 1 - x \in Nat /\ g[x] \in Nat
      OBVIOUS
    <3> QED BY <3>1
  <2>2. ASSUME NEW d \in 0 .. (n + 1 - x) - 1, d \in T PROVE d + 1 \in T
    <3>1. x + d \in 1 .. n /\ d + 1 \in 0 .. n + 1 - x /\ x + (d + 1) = (x + d) + 1
          /\ x + d \in 1 .. n + 1 /\ (x + d) + 1 \in 1 .. n + 1
      OBVIOUS
    <3>2. g[x + d] <= g[(x + d) + 1] /\ g[x] <= g[x + d]
      BY <2>2, <3>1
    <3>3. g[x] \in Nat /\ g[x + d] \in Nat /\ g[(x + d) + 1] \in Nat
      BY <3>1
    <3> DEFINE a == g[x]  b == g[x + d]  c == g[(x + d) + 1]
    <3>4. a <= c
      <4>1. a \in Nat /\ b \in Nat /\ c \in Nat /\ a <= b /\ b <= c
        BY <3>2, <3>3
      <4> HIDE DEF a, b, c
      <4> QED BY <4>1
    <3> QED BY <3>1, <3>4
  <2> HIDE DEF T
  <2>3. \A d \in 0 .. n + 1 - x : d \in T
    BY <2>1, <2>2, Reaching
  <2> QED BY <2>3 DEF T
<1>2. ASSUME NEW x \in 1 .. n + 1, NEW y \in x .. n + 1 PROVE g[x] <= g[y]
  <2>1. y - x \in 0 .. n + 1 - x /\ x + (y - x) = y
    OBVIOUS
  <2> QED BY <1>1, <2>1
<1> QED BY <1>2

LEMMA FwFacts ==
    ASSUME FirmwaresAssumption, fw \in Firmwares
    PROVE  /\ Len(fw.table) \in Nat /\ Len(fw.table) >= 1 /\ DOMAIN fw.table = 1 .. Len(fw.table)
           /\ Len(Bytes) \in Nat /\ DOMAIN Bytes = 1 .. Len(Bytes)
           /\ Bytes \in Seq(0 .. 255)
           /\ fw.table[Len(fw.table)].type = 127
           /\ fw.slots \in Seq(Anchors)
           /\ fw.starts[1] = 1 /\ fw.starts[Len(fw.table) + 1] = Len(Bytes) + 1
           /\ \A k \in 1 .. Len(fw.table) + 1 : fw.starts[k] \in Nat
           /\ \A k \in 1 .. Len(fw.table) :
                 /\ LaidOut(fw, k) /\ fw.table[k].type \in 0 .. 255
                 /\ fw.table[k].data \in Seq(0 .. 255)
                 /\ fw.table[k].strings \in Seq(Seq(1 .. 255) \ {<<>>})
<1>1. /\ fw.slots \in Seq(Anchors)
      /\ fw.table \in Seq(Structs) /\ fw.table # <<>> /\ fw.table[Len(fw.table)].type = 127
      /\ Bytes \in Seq(0 .. 255)
      /\ fw.starts \in [1 .. Len(fw.table) + 1 -> Nat]
      /\ fw.starts[1] = 1 /\ fw.starts[Len(fw.table) + 1] = Len(Bytes) + 1
      /\ \A k \in DOMAIN fw.table : LaidOut(fw, k)
  BY DEF FirmwaresAssumption, Bytes
<1>2. Len(fw.table) \in Nat /\ Len(fw.table) >= 1 /\ DOMAIN fw.table = 1 .. Len(fw.table)
  BY <1>1, EmptySeq
<1>3. Len(Bytes) \in Nat /\ DOMAIN Bytes = 1 .. Len(Bytes)
  BY <1>1
<1>4. \A k \in 1 .. Len(fw.table) : fw.table[k] \in Structs
  BY <1>1, ElementOfSeq
<1>5. \A s \in Structs : /\ s.type \in 0 .. 255 /\ s.data \in Seq(0 .. 255)
                         /\ s.strings \in Seq(Seq(1 .. 255) \ {<<>>})
  BY DEF Structs
<1>6. \A k \in 1 .. Len(fw.table) + 1 : fw.starts[k] \in Nat
  BY <1>1
<1>7. ASSUME NEW k \in 1 .. Len(fw.table)
      PROVE  /\ LaidOut(fw, k) /\ fw.table[k].type \in 0 .. 255
             /\ fw.table[k].data \in Seq(0 .. 255)
             /\ fw.table[k].strings \in Seq(Seq(1 .. 255) \ {<<>>})
  <2>1. LaidOut(fw, k) /\ fw.table[k] \in Structs
    BY <1>1, <1>2, <1>4
  <2> QED BY <1>5, <2>1, Zenon
<1> QED BY <1>1, <1>2, <1>3, <1>6, <1>7, Zenon

\* Strings of lengths w begin at hs in B, the first at b, each with a zero behind
\* it, and are followed by a zero, or by two if there are none; f is the next
\* address, and no byte up to there is behind N.
StringList(B, N, l, hs, w, b, f) ==
    /\ N \in Nat /\ l \in Nat /\ b \in Nat /\ b >= 1 /\ hs[1] = b
    /\ \A t \in 1 .. l + 1 : hs[t] \in Nat
    /\ \A t \in 1 .. l : /\ w[t] \in Nat /\ w[t] >= 1 /\ hs[t + 1] = hs[t] + w[t] + 1
                         /\ B[hs[t + 1] - 1] = 0
                         /\ \A x \in 1 .. w[t] : B[hs[t] + x - 1] # 0
    /\ B[hs[l + 1]] = 0
    /\ l = 0 => B[hs[1] + 1] = 0
    /\ f \in Nat /\ f = hs[l + 1] + (IF l = 0 THEN 2 ELSE 1) /\ f <= N + 1

\* The first zero from the start of a string on is behind it, and the first two
\* zeros are behind them all.
StringEnds(B, N, l, hs, b, f) ==
    /\ \A t \in 1 .. l + 1 : b <= hs[t] /\ hs[t] <= hs[l + 1] /\ hs[t] < f
    /\ \A t \in 1 .. l : /\ hs[t + 1] - 1 \in hs[t] .. N /\ B[hs[t + 1] - 1] = 0
                         /\ \A x \in hs[t] .. (hs[t + 1] - 1) - 1 : B[x] # 0
                         /\ B[hs[t]] # 0
    /\ f - 2 \in b .. N - 1 /\ B[f - 2] = 0 /\ B[(f - 2) + 1] = 0
    /\ \A x \in b .. (f - 2) - 1 : B[x] # 0 \/ B[x + 1] # 0

LEMMA StringsEnd ==
    ASSUME NEW B, NEW N, NEW l, NEW hs, NEW w, NEW b, NEW f, StringList(B, N, l, hs, w, b, f)
    PROVE  StringEnds(B, N, l, hs, b, f)
<1> USE DEF StringList, StringEnds
<1>1. ASSUME NEW t \in 1 .. l
      PROVE  /\ hs[t] \in Nat /\ hs[t + 1] \in Nat /\ w[t] \in Nat /\ w[t] >= 1
             /\ hs[t + 1] = hs[t] + w[t] + 1
  <2>1. t \in 1 .. l + 1 /\ t + 1 \in 1 .. l + 1
    OBVIOUS
  <2> QED BY <2>1
<1>2. \A t \in 1 .. l : hs[t] <= hs[t + 1]
  <2>1. SUFFICES ASSUME NEW t \in 1 .. l PROVE hs[t] <= hs[t + 1]
    OBVIOUS
  <2> DEFINE p == hs[t]  q == hs[t + 1]  r == w[t]
  <2>2. p \in Nat /\ r \in Nat /\ q = p + r + 1
    BY <1>1
  <2> HIDE DEF p, q, r
  <2>3. p <= q
    BY <2>2
  <2> QED BY <2>3 DEF p, q
<1>3. \A x \in 1 .. l + 1 : \A y \in x .. l + 1 : hs[x] <= hs[y]
  BY <1>2, Growing
<1> DEFINE last == hs[l + 1]
<1>4. last \in Nat /\ l + 1 \in 1 .. l + 1 /\ 1 \in 1 .. l + 1 /\ 1 \in 1 .. l + 1 /\ last <= N /\ f > last
  <2>1. l + 1 \in 1 .. l + 1 /\ 1 \in 1 .. l + 1
    OBVIOUS
  <2>2. last \in Nat
    BY <2>1
  <2> HIDE DEF last
  <2>3. f = last + (IF l = 0 THEN 2 ELSE 1)
    BY DEF last
  <2> QED BY <2>1, <2>2, <2>3
<1>5. ASSUME NEW t \in 1 .. l + 1 PROVE b <= hs[t] /\ hs[t] <= last /\ hs[t] < f
  <2>1. t \in 1 .. l + 1 /\ l + 1 \in t .. l + 1
    BY <1>4
  <2>2. hs[t] \in Nat /\ hs[1] <= hs[t] /\ hs[t] <= last
    BY <1>3, <1>4, <2>1
  <2> DEFINE p == hs[t]
  <2>3. p \in Nat /\ b <= p /\ p <= last
    BY <2>2
  <2> HIDE DEF p, last
  <2>4. b <= p /\ p <= last /\ p < f
    BY <1>4, <2>3
  <2> QED BY <2>4 DEF p
<1>6. ASSUME NEW t \in 1 .. l
      PROVE  /\ hs[t + 1] - 1 \in hs[t] .. N /\ B[hs[t + 1] - 1] = 0
             /\ \A x \in hs[t] .. (hs[t + 1] - 1) - 1 : B[x] # 0
             /\ B[hs[t]] # 0
  <2> DEFINE p == hs[t]  q == hs[t + 1]  r == w[t]
  <2>1. p \in Nat /\ q \in Nat /\ r \in Nat /\ r >= 1 /\ q = p + r + 1 /\ q <= last
    <3>1. t + 1 \in 1 .. l + 1
      OBVIOUS
    <3> QED BY <1>1, <1>5, <3>1
  <2>2. B[q - 1] = 0 /\ \A x \in 1 .. r : B[p + x - 1] # 0
    OBVIOUS
  <2> HIDE DEF p, q, r, last
  <2>3. q - 1 \in p .. N
    BY <1>4, <2>1
  <2>4. \A x \in p .. (q - 1) - 1 : B[x] # 0
    <3>1. SUFFICES ASSUME NEW x \in p .. (q - 1) - 1 PROVE B[x] # 0
      OBVIOUS
    <3>2. x - p + 1 \in 1 .. r /\ p + (x - p + 1) - 1 = x
      BY <2>1
    <3> QED BY <2>2, <3>2
  <2>5. B[p] # 0
    <3>1. p \in p .. (q - 1) - 1
      BY <2>1
    <3> QED BY <2>4, <3>1
  <2> QED BY <2>2, <2>3, <2>4, <2>5 DEF p, q
<1>7. CASE l = 0
  <2>1. last = b /\ f = b + 2
    BY <1>7
  <2>2. f - 2 = b /\ b \in b .. N - 1 /\ b + 1 = (f - 2) + 1
    BY <2>1
  <2>3. B[b] = 0 /\ B[b + 1] = 0
    BY <1>7
  <2>4. \A x \in b .. (f - 2) - 1 : B[x] # 0 \/ B[x + 1] # 0
    BY <2>2
  <2> QED BY <1>5, <1>6, <2>2, <2>3, <2>4
<1>8. CASE l # 0
  <2>1. f = last + 1 /\ l \in 1 .. l
    BY <1>8
  <2>2. B[last] = 0 /\ B[last - 1] = 0
    BY <2>1
  <2>3. last >= b + 2
    <3> DEFINE p == hs[l]  r == w[l]
    <3>1. p \in Nat /\ r \in Nat /\ r >= 1 /\ last = p + r + 1 /\ b <= p
      <4>1. l \in 1 .. l + 1
        BY <2>1
      <4> QED BY <1>1, <1>5, <2>1, <4>1
    <3> HIDE DEF p, r, last
    <3> QED BY <3>1
  <2>4. f - 2 = last - 1 /\ (f - 2) + 1 = last /\ f - 2 \in b .. N - 1
    <3> HIDE DEF last
    <3> QED BY <1>4, <2>1, <2>3
  <2>5. ASSUME NEW x \in b .. (f - 2) - 1 PROVE B[x] # 0 \/ B[x + 1] # 0
    <3> DEFINE T == {t \in 1 .. l : x < hs[t + 1]}
    <3>1. x \in Nat /\ x < last - 1 /\ b <= x
      <4> HIDE DEF last
      <4> QED BY <1>4, <2>4
    <3>2. l \in T /\ T \subseteq Nat
      <4>1. x < last
        <5> HIDE DEF last
        <5> QED BY <1>4, <3>1
      <4> QED BY <2>1, <4>1
    <3>3. PICK t \in T : \A y \in T : t <= y
      <4> HIDE DEF T
      <4> QED BY <3>2, Minimum
    <3> DEFINE p == hs[t]  q == hs[t + 1]
    <3>4. t \in 1 .. l /\ x < q
      OBVIOUS
    <3>5. p <= x
      <4>1. CASE t = 1
        BY <3>1, <4>1
      <4>2. CASE t # 1
        <5>1. t - 1 \in 1 .. l /\ (t - 1) + 1 = t /\ ~(t <= t - 1) /\ t \in 1 .. l + 1
          BY <3>4, <4>2
        <5>2. t - 1 \notin T
          <6> HIDE DEF T
          <6> QED BY <3>3, <5>1
        <5>3. ~(x < p)
          BY <5>1, <5>2
        <5>4. p \in Nat
          BY <5>1
        <5> HIDE DEF p
        <5> QED BY <3>1, <5>3, <5>4
      <4> QED BY <4>1, <4>2
    <3>6. p \in Nat /\ q \in Nat
      BY <1>1, <3>4
    <3>7. CASE x < q - 1
      <4>1. x \in p .. (q - 1) - 1
        <5> HIDE DEF p, q
        <5> QED BY <3>1, <3>5, <3>6, <3>7
      <4> QED BY <1>6, <3>4, <4>1
    <3>8. CASE ~(x < q - 1)
      <4>1. x + 1 = q
        <5> HIDE DEF p, q
        <5> QED BY <3>1, <3>4, <3>6, <3>8
      <4>2. t # l
        <5>1. q # last
          <6> HIDE DEF q, last
          <6> QED BY <1>4, <3>1, <3>6, <4>1
        <5> QED BY <5>1
      <4>3. t + 1 \in 1 .. l
        BY <3>4, <4>2
      <4>4. B[q] # 0
        BY <1>6, <4>3
      <4> QED BY <4>1, <4>4
    <3> QED BY <3>7, <3>8
  <2> QED BY <1>5, <1>6, <2>2, <2>4, <2>5
<1> QED BY <1>7, <1>8

\* A structure of the table begins in the bytes and ends there.
LEMMA StructGrows ==
    ASSUME FirmwaresAssumption, fw \in Firmwares, NEW k \in 1 .. Len(fw.table)
    PROVE  /\ fw.starts[k] \in Nat /\ fw.starts[k + 1] \in Nat
           /\ fw.starts[k] + 4 + Len(fw.table[k].data) < fw.starts[k + 1]
<1> DEFINE s == fw.table[k]  a == fw.starts[k]  hs == fw.heads[k]  l == Len(s.strings)
           d == Len(s.data)  f == fw.starts[k + 1]
<1>1. LaidOut(fw, k) /\ s.data \in Seq(0 .. 255) /\ s.strings \in Seq(Seq(1 .. 255) \ {<<>>})
  BY FwFacts
<1>2. a \in Nat /\ f \in Nat
  <2>1. k \in 1 .. Len(fw.table) + 1 /\ k + 1 \in 1 .. Len(fw.table) + 1
    BY FwFacts
  <2> QED BY <2>1, FwFacts
<1>3. d \in Nat /\ l \in Nat /\ DOMAIN s.strings = 1 .. l
  BY <1>1
<1>4. /\ hs \in [1 .. l + 1 -> Nat] /\ hs[1] = a + 4 + d
      /\ \A t \in 1 .. l : hs[t + 1] = hs[t] + Len(s.strings[t]) + 1
      /\ f = hs[l + 1] + (IF l = 0 THEN 2 ELSE 1)
  BY <1>1, <1>3 DEF LaidOut
<1>5. \A t \in 1 .. l : s.strings[t] \in Seq(1 .. 255) \ {<<>>}
  BY <1>1, <1>3, ElementOfSeq
<1> HIDE DEF s, a, hs, l, d, f
<1>6. \A t \in 1 .. l + 1 : hs[t] \in Nat
  BY <1>4
<1>7. \A t \in 1 .. l : hs[t] <= hs[t + 1]
  <2>1. SUFFICES ASSUME NEW t \in 1 .. l PROVE hs[t] <= hs[t + 1]
    OBVIOUS
  <2> DEFINE p == hs[t]  q == hs[t + 1]  r == Len(s.strings[t])
  <2>2. t \in 1 .. l + 1 /\ r \in Nat
    BY <1>3, <1>5
  <2>3. p \in Nat /\ q = p + r + 1
    BY <1>4, <1>6, <2>2
  <2> HIDE DEF p, q, r
  <2>4. p <= q
    BY <2>2, <2>3
  <2> QED BY <2>4 DEF p, q
<1>8. hs[1] <= hs[l + 1] /\ hs[1] \in Nat /\ hs[l + 1] \in Nat
  <2>1. 1 \in 1 .. l + 1 /\ l + 1 \in 1 .. l + 1
    BY <1>3
  <2> QED BY <1>3, <1>6, <1>7, <2>1, Growing
<1>9. a + 4 + d < f
  <2> DEFINE p == hs[1]  q == hs[l + 1]
  <2>1. p \in Nat /\ q \in Nat /\ p <= q /\ p = a + 4 + d /\ f = q + (IF l = 0 THEN 2 ELSE 1)
    BY <1>4, <1>8
  <2> HIDE DEF p, q
  <2> QED BY <1>2, <1>3, <2>1
<1> QED BY <1>2, <1>9 DEF a, d, f, s

LEMMA StructInside ==
    ASSUME FirmwaresAssumption, fw \in Firmwares, NEW k \in 1 .. Len(fw.table)
    PROVE  1 <= fw.starts[k] /\ fw.starts[k + 1] <= Len(Bytes) + 1
<1> DEFINE n == Len(fw.table)
<1>1. n \in Nat /\ fw.starts[1] = 1 /\ fw.starts[n + 1] = Len(Bytes) + 1
      /\ \A x \in 1 .. n + 1 : fw.starts[x] \in Nat
  BY FwFacts
<1>2. \A x \in 1 .. n : fw.starts[x] <= fw.starts[x + 1]
  <2>1. SUFFICES ASSUME NEW x \in 1 .. n PROVE fw.starts[x] <= fw.starts[x + 1]
    OBVIOUS
  <2> DEFINE p == fw.starts[x]  q == fw.starts[x + 1]  r == Len(fw.table[x].data)
  <2>2. p \in Nat /\ q \in Nat /\ p + 4 + r < q
    BY StructGrows
  <2>3. r \in Nat
    BY FwFacts
  <2> HIDE DEF p, q, r
  <2>4. p <= q
    BY <2>2, <2>3
  <2> QED BY <2>4 DEF p, q
<1> HIDE DEF n
<1>3. \A x \in 1 .. n + 1 : \A y \in x .. n + 1 : fw.starts[x] <= fw.starts[y]
  BY <1>1, <1>2, Growing
<1>4. 1 \in 1 .. n + 1 /\ k \in 1 .. n + 1 /\ k + 1 \in 1 .. n + 1 /\ n + 1 \in (k + 1) .. n + 1
  BY <1>1 DEF n
<1> QED BY <1>1, <1>3, <1>4

\* What find_field and smbios_string see at a structure and at its strings.
LEMMA StructFacts ==
    ASSUME FirmwaresAssumption, fw \in Firmwares, NEW k \in 1 .. Len(fw.table)
    PROVE  /\ fw.starts[k] \in 1 .. Len(Bytes) /\ fw.starts[k] + 1 \in 1 .. Len(Bytes)
           /\ Byte(fw.starts[k]) = fw.table[k].type
           /\ Byte(fw.starts[k] + 1) = 4 + Len(fw.table[k].data)
           /\ Len(fw.table[k].data) \in Nat /\ Len(fw.table[k].strings) \in Nat
           /\ fw.starts[k] + Byte(fw.starts[k] + 1) = fw.heads[k][1]
           /\ \A t \in 1 .. Len(fw.table[k].strings) + 1 : fw.heads[k][t] \in 1 .. Len(Bytes)
           /\ Byte(fw.heads[k][Len(fw.table[k].strings) + 1]) = 0
           /\ \A t \in 1 .. Len(fw.table[k].strings) :
                 /\ Byte(fw.heads[k][t]) # 0
                 /\ Zero(fw.heads[k][t]) = fw.heads[k][t + 1] - 1
           /\ DoubleZero(fw.heads[k][1]) = fw.starts[k + 1] - 2
<1> DEFINE s == fw.table[k]  a == fw.starts[k]  hs == fw.heads[k]  l == Len(s.strings)
           d == Len(s.data)  f == fw.starts[k + 1]  N == Len(Bytes)
           w == [t \in 1 .. l |-> Len(s.strings[t])]
<1>1. LaidOut(fw, k) /\ s.data \in Seq(0 .. 255) /\ s.strings \in Seq(Seq(1 .. 255) \ {<<>>})
  BY FwFacts
<1>2. a \in Nat /\ f \in Nat /\ 1 <= a /\ f <= N + 1 /\ a + 4 + d < f /\ N \in Nat
  BY StructGrows, StructInside, FwFacts
<1>3. d \in Nat /\ l \in Nat /\ DOMAIN s.strings = 1 .. l
  BY <1>1
<1>4. /\ hs \in [1 .. l + 1 -> Nat] /\ hs[1] = a + 4 + d
      /\ \A t \in 1 .. l :
            /\ hs[t + 1] = hs[t] + Len(s.strings[t]) + 1 /\ Bytes[hs[t + 1] - 1] = 0
            /\ \A x \in DOMAIN s.strings[t] : Bytes[hs[t] + x - 1] = s.strings[t][x]
      /\ Bytes[hs[l + 1]] = 0
      /\ l = 0 => Bytes[hs[1] + 1] = 0
      /\ f = hs[l + 1] + (IF l = 0 THEN 2 ELSE 1)
      /\ Bytes[a] = s.type /\ Bytes[a + 1] = 4 + d
  BY <1>1, <1>3, Zenon DEF LaidOut, Bytes
<1>5. \A t \in 1 .. l : s.strings[t] \in Seq(1 .. 255) \ {<<>>}
  BY <1>1, <1>3, ElementOfSeq
<1> HIDE DEF s, a, hs, l, d, f, N
<1>6. ASSUME NEW t \in 1 .. l
      PROVE  /\ w[t] \in Nat /\ w[t] >= 1 /\ hs[t + 1] = hs[t] + w[t] + 1
             /\ Bytes[hs[t + 1] - 1] = 0 /\ \A x \in 1 .. w[t] : Bytes[hs[t] + x - 1] # 0
  <2>1. s.strings[t] \in Seq(1 .. 255) /\ s.strings[t] # <<>> /\ w[t] = Len(s.strings[t])
    BY <1>5
  <2>2. w[t] \in Nat /\ w[t] >= 1 /\ DOMAIN s.strings[t] = 1 .. w[t]
    BY <2>1, EmptySeq
  <2>3. \A x \in 1 .. w[t] : s.strings[t][x] \in 1 .. 255
    BY <2>1, <2>2, ElementOfSeq
  <2>4. \A v \in 1 .. 255 : v # 0
    OBVIOUS
  <2>5. \A x \in 1 .. w[t] : s.strings[t][x] # 0
    BY <2>3, <2>4, Zenon
  <2> QED BY <1>4, <2>1, <2>2, <2>5
<1> DEFINE b == a + 4 + d
<1>7. b \in Nat /\ b >= 1 /\ hs[1] = b /\ (\A t \in 1 .. l + 1 : hs[t] \in Nat)
  BY <1>2, <1>3, <1>4
<1> HIDE DEF b, w
<1>8. StringEnds(Bytes, N, l, hs, b, f)
  <2>1. \A t \in 1 .. l : /\ w[t] \in Nat /\ w[t] >= 1 /\ hs[t + 1] = hs[t] + w[t] + 1
                            /\ Bytes[hs[t + 1] - 1] = 0
                            /\ \A x \in 1 .. w[t] : Bytes[hs[t] + x - 1] # 0
    BY <1>6
  <2>2. /\ N \in Nat /\ l \in Nat /\ b \in Nat /\ b >= 1 /\ hs[1] = b /\ f \in Nat /\ f <= N + 1
        /\ Bytes[hs[l + 1]] = 0 /\ (l = 0 => Bytes[hs[1] + 1] = 0)
        /\ f = hs[l + 1] + (IF l = 0 THEN 2 ELSE 1)
        /\ \A t \in 1 .. l + 1 : hs[t] \in Nat
    BY <1>2, <1>3, <1>4, <1>7
  <2>3. StringList(Bytes, N, l, hs, w, b, f)
    BY <2>1, <2>2, Zenon DEF StringList
  <2> QED BY <2>3, StringsEnd, Zenon
<1>9. \A t \in 1 .. l + 1 : hs[t] \in 1 .. N
  <2>1. SUFFICES ASSUME NEW t \in 1 .. l + 1 PROVE hs[t] \in 1 .. N
    OBVIOUS
  <2>2. hs[t] \in Nat /\ b <= hs[t] /\ hs[t] < f
    BY <1>7, <1>8 DEF StringEnds
  <2> QED BY <1>2, <1>7, <2>2
<1>10. ASSUME NEW t \in 1 .. l PROVE Byte(hs[t]) # 0 /\ Zero(hs[t]) = hs[t + 1] - 1
  <2> DEFINE p == hs[t]  z == hs[t + 1] - 1
  <2>1. /\ z \in p .. N /\ Bytes[z] = 0 /\ (\A x \in p .. z - 1 : Bytes[x] # 0) /\ Bytes[p] # 0
        /\ p \in Int /\ N \in Int
    <3>1. t \in 1 .. l + 1
      BY <1>3
    <3> QED BY <1>2, <1>7, <1>8, <3>1 DEF StringEnds
  <2> HIDE DEF p, z
  <2>2. \A y \in p .. N : Bytes[y] = 0 /\ (\A x \in p .. y - 1 : Bytes[x] # 0) => y = z
    <3>1. SUFFICES ASSUME NEW y \in p .. N, Bytes[y] = 0, \A x \in p .. y - 1 : Bytes[x] # 0
                   PROVE  y = z
      OBVIOUS
    <3>2. ~(y < z)
      <4>1. y < z => y \in p .. z - 1
        BY <2>1
      <4> QED BY <2>1, <3>1, <4>1
    <3>3. ~(z < y)
      <4>1. z < y => z \in p .. y - 1
        BY <2>1
      <4> QED BY <2>1, <3>1, <4>1
    <3> QED BY <2>1, <3>2, <3>3
  <2>3. Zero(p) = z
    <3>1. Zero(p) = CHOOSE y \in p .. N : Bytes[y] = 0 /\ \A x \in p .. y - 1 : Bytes[x] # 0
      BY Zenon DEF Zero, Byte, N
    <3> QED BY <2>1, <2>2, <3>1
  <2> QED BY <2>1, <2>3 DEF Byte, p, z
<1>11. DoubleZero(b) = f - 2
  <2> DEFINE z == f - 2
  <2>1. /\ z \in b .. N - 1 /\ Bytes[z] = 0 /\ Bytes[z + 1] = 0
        /\ (\A x \in b .. z - 1 : Bytes[x] # 0 \/ Bytes[x + 1] # 0)
        /\ b \in Int /\ N \in Int
    BY <1>2, <1>7, <1>8 DEF StringEnds
  <2> HIDE DEF z
  <2>2. \A y \in b .. N - 1 :
           Bytes[y] = 0 /\ Bytes[y + 1] = 0 /\ (\A x \in b .. y - 1 : Bytes[x] # 0 \/ Bytes[x + 1] # 0)
           => y = z
    <3>1. SUFFICES ASSUME NEW y \in b .. N - 1, Bytes[y] = 0, Bytes[y + 1] = 0,
                          \A x \in b .. y - 1 : Bytes[x] # 0 \/ Bytes[x + 1] # 0
                   PROVE  y = z
      OBVIOUS
    <3>2. ~(y < z)
      <4>1. y < z => y \in b .. z - 1
        BY <2>1
      <4> QED BY <2>1, <3>1, <4>1
    <3>3. ~(z < y)
      <4>1. z < y => z \in b .. y - 1
        BY <2>1
      <4> QED BY <2>1, <3>1, <4>1
    <3> QED BY <2>1, <3>2, <3>3
  <2>3. DoubleZero(b) =
          CHOOSE y \in b .. N - 1 :
             Bytes[y] = 0 /\ Bytes[y + 1] = 0 /\ (\A x \in b .. y - 1 : Bytes[x] # 0 \/ Bytes[x + 1] # 0)
    BY Zenon DEF DoubleZero, Byte, N
  <2>4. DoubleZero(b) = z
    BY <2>1, <2>2, <2>3
  <2> QED BY <2>4 DEF z
<1>12. a \in 1 .. N /\ a + 1 \in 1 .. N /\ Byte(a) = s.type /\ Byte(a + 1) = 4 + d
       /\ a + Byte(a + 1) = b /\ Byte(hs[l + 1]) = 0
  BY <1>2, <1>3, <1>4 DEF Byte, b
<1> QED
  BY <1>3, <1>7, <1>9, <1>10, <1>11, <1>12, Zenon DEF s, a, hs, l, d, f, N

\* The bytes from the start of a string to its zero are the string.
LEMMA StringThere ==
    ASSUME FirmwaresAssumption, fw \in Firmwares, NEW k \in 1 .. Len(fw.table),
           NEW t \in 1 .. Len(fw.table[k].strings)
    PROVE  SubSeq(Bytes, fw.heads[k][t], Zero(fw.heads[k][t]) - 1) = fw.table[k].strings[t]
<1> DEFINE s == fw.table[k].strings[t]  p == fw.heads[k][t]  z == Zero(p)  l == Len(fw.table[k].strings)
<1>1. LaidOut(fw, k) /\ fw.table[k].strings \in Seq(Seq(1 .. 255) \ {<<>>})
  BY FwFacts
<1>2. s \in Seq(1 .. 255) /\ t \in DOMAIN fw.table[k].strings /\ l \in Nat
  BY <1>1, ElementOfSeq
<1>3. z = fw.heads[k][t + 1] - 1 /\ p \in Nat
  <2>1. t \in 1 .. l + 1 /\ l \in Nat
    BY <1>2
  <2>2. p \in 1 .. Len(Bytes)
    BY <2>1, StructFacts
  <2>3. z = fw.heads[k][t + 1] - 1
    BY StructFacts
  <2> QED BY <2>2, <2>3, FwFacts
<1>4. /\ fw.heads[k][t + 1] = p + Len(s) + 1
      /\ \A x \in DOMAIN s : Bytes[p + x - 1] = s[x]
  BY <1>1, <1>2, Zenon DEF LaidOut, Bytes
<1>5. Len(s) \in Nat /\ DOMAIN s = 1 .. Len(s)
  BY <1>2
<1> HIDE DEF s, p, z
<1>6. z - 1 = p + Len(s) - 1
  BY <1>3, <1>4, <1>5
<1>7. p \in Int /\ z - 1 \in p - 1 .. Len(Bytes) /\ 1 <= p /\ Bytes \in Seq(0 .. 255) /\ p \in 1 .. Len(Bytes) + 1
  <2>1. t + 1 \in 1 .. l + 1 /\ t \in 1 .. l + 1
    BY <1>2
  <2>2. fw.heads[k][t + 1] \in 1 .. Len(Bytes) /\ p \in 1 .. Len(Bytes)
    BY <2>1, StructFacts DEF p
  <2>3. Len(Bytes) \in Nat /\ Bytes \in Seq(0 .. 255)
    BY FwFacts
  <2> QED BY <1>3, <1>4, <1>5, <1>6, <2>2, <2>3
<1>8. /\ SubSeq(Bytes, p, z - 1) \in Seq(0 .. 255)
      /\ Len(SubSeq(Bytes, p, z - 1)) = Len(s)
      /\ \A x \in 1 .. Len(s) : SubSeq(Bytes, p, z - 1)[x] = s[x]
  <2> DEFINE u == SubSeq(Bytes, p, z - 1)
  <2>1. z - 1 \in Int /\ (z - 1) - p + 1 = Len(s) /\ (Len(s) # 0 => p <= z - 1)
    BY <1>5, <1>6, <1>7
  <2> DEFINE y == z - 1
  <2>2. \A x \in p .. y : Bytes[x] \in 0 .. 255
    <3>1. SUFFICES ASSUME NEW x \in p .. y PROVE Bytes[x] \in 0 .. 255
      OBVIOUS
    <3>2. x \in 1 .. Len(Bytes) /\ Bytes \in Seq(0 .. 255)
      BY <1>7
    <3> QED BY <3>2, ElementOfSeq
  <2>3. y \in Int /\ p \in Int /\ y - p + 1 = Len(s)
    BY <1>7, <2>1
  <2> HIDE DEF y
  <2>4. /\ SubSeq(Bytes, p, y) \in Seq(0 .. 255)
        /\ Len(SubSeq(Bytes, p, y)) = IF p <= y THEN y - p + 1 ELSE 0
        /\ \A x \in 1 .. y - p + 1 : SubSeq(Bytes, p, y)[x] = Bytes[p + x - 1]
    BY <2>2, <2>3, SubSeqProperties
  <2>5. Len(SubSeq(Bytes, p, y)) = Len(s)
    BY <1>5, <2>3, <2>4
  <2>6. \A x \in 1 .. Len(s) : SubSeq(Bytes, p, y)[x] = Bytes[p + x - 1]
    BY <2>3, <2>4
  <2> QED BY <1>4, <1>5, <2>4, <2>5, <2>6 DEF y
<1>9. SubSeq(Bytes, p, z - 1) = s
  <2> DEFINE u == SubSeq(Bytes, p, z - 1)
  <2> HIDE DEF u
  <2>1. u \in Seq(0 .. 255) /\ Len(u) = Len(s) /\ \A x \in 1 .. Len(s) : u[x] = s[x]
    BY <1>8 DEF u
  <2>2. u = [x \in 1 .. Len(s) |-> u[x]] /\ s = [x \in 1 .. Len(s) |-> s[x]]
    <3>1. u = [x \in 1 .. Len(u) |-> u[x]]
      BY <2>1
    <3>2. s = [x \in 1 .. Len(s) |-> s[x]]
      BY <1>2
    <3> QED BY <2>1, <3>1, <3>2
  <2>3. u = s
    BY <2>1, <2>2
  <2> QED BY <2>3 DEF u
<1> QED BY <1>9 DEF s, p, z

\* The byte at the offset of a field is the field.
LEMMA FieldThere ==
    ASSUME FirmwaresAssumption, fw \in Firmwares, NEW k \in 1 .. Len(fw.table), sm_offset \in {4, 5}
    PROVE  /\ HasField(fw.starts[k]) <=> /\ fw.table[k].type = sm_type
                                         /\ Len(fw.table[k].data) > sm_offset - 4
           /\ Len(fw.table[k].data) > sm_offset - 4 =>
                 /\ Byte(fw.starts[k] + sm_offset) = FieldOf(fw.table[k])
                 /\ fw.starts[k] + sm_offset \in 1 .. Len(Bytes)
           /\ ~(Len(fw.table[k].data) > sm_offset - 4) => FieldOf(fw.table[k]) = 0
           /\ FieldOf(fw.table[k]) \in Nat
           /\ ~(Byte(fw.starts[k] + 1) < 4)
<1> DEFINE s == fw.table[k].data  a == fw.starts[k]  d == Len(s)  f == fw.starts[k + 1]
<1>1. LaidOut(fw, k) /\ s \in Seq(0 .. 255)
  BY FwFacts
<1>2. /\ a \in Nat /\ f \in Nat /\ 1 <= a /\ f <= Len(Bytes) + 1 /\ a + 4 + d < f /\ Len(Bytes) \in Nat
      /\ Byte(a) = fw.table[k].type /\ Byte(a + 1) = 4 + d /\ d \in Nat
  BY StructGrows, StructInside, StructFacts, FwFacts
<1>3. \A x \in 1 .. d : Byte(a + 3 + x) = s[x] /\ s[x] \in 0 .. 255
  <2>1. \A x \in DOMAIN s : Byte(a + 3 + x) = s[x]
    BY <1>1, Zenon DEF LaidOut, Bytes, Byte
  <2>2. DOMAIN s = 1 .. d
    BY <1>1
  <2> QED BY <1>1, <2>1, <2>2, ElementOfSeq
<1> HIDE DEF s, a, d, f
<1>4. HasField(a) <=> fw.table[k].type = sm_type /\ d > sm_offset - 4
  BY <1>2 DEF HasField
<1>5. ~(Byte(a + 1) < 4)
  BY <1>2
<1>6. FieldOf(fw.table[k]) = IF d > sm_offset - 4 THEN s[sm_offset - 3] ELSE 0
  BY DEF FieldOf, d, s
<1>7. CASE d > sm_offset - 4
  <2>1. sm_offset - 3 \in 1 .. d /\ a + 3 + (sm_offset - 3) = a + sm_offset
        /\ a + sm_offset \in 1 .. Len(Bytes)
    BY <1>2, <1>7
  <2> DEFINE y == sm_offset - 3
  <2>2. y \in 1 .. d /\ a + 3 + y = a + sm_offset
    BY <2>1
  <2>3. Byte(a + 3 + y) = s[y] /\ s[y] \in Nat
    <3> HIDE DEF y
    <3>1. Byte(a + 3 + y) = s[y] /\ s[y] \in 0 .. 255
      BY <1>3, <2>2, Zenon
    <3>2. \A v \in 0 .. 255 : v \in Nat
      OBVIOUS
    <3> QED BY <3>1, <3>2, Zenon
  <2> QED BY <1>4, <1>5, <1>6, <1>7, <2>1, <2>2, <2>3 DEF a, d, s
<1>8. CASE ~(d > sm_offset - 4)
  BY <1>4, <1>5, <1>6, <1>8 DEF a, d, s
<1> QED BY <1>7, <1>8

--------------------------------------------------------------------------------

SmbiosType ==
    /\ fw \in Firmwares
    /\ anchor \in Nat \ {0} /\ smbios_count \in Nat
    /\ smbios_pc \in {"init", "idle", "scan", "string", "skip", "done"}
    /\ sm_top \in 0 .. Len(Bytes)

\* The structure looked at, and the strings behind it.
Here  == fw.table[sm_i + 1]
Lists == fw.heads[sm_i + 1]

\* The loop stands at the start of a structure; none before it ends the table or
\* holds the field.
AtStart ==
    smbios_pc \in {"scan", "string", "skip"} =>
        /\ smbios_table # 0 /\ sm_offset \in {4, 5} /\ sm_ret = 0
        /\ sm_i \in Nat /\ sm_i + 1 \in 1 .. Len(fw.table)
        /\ hdr = fw.starts[sm_i + 1]
        /\ \A x \in 1 .. sm_i : fw.table[x].type # 127 /\ x \notin Holders

\* smbios_string stands at the start of a string no later than the one sought,
\* or behind the last.
AtString ==
    smbios_pc = "string" =>
        /\ sm_i < smbios_count /\ Here.type = sm_type /\ Here.type # 127
        /\ Len(Here.data) > sm_offset - 4 /\ FieldOf(Here) # 0
        /\ nth \in 1 .. Len(Here.strings) + 1 /\ nth <= FieldOf(Here)
        /\ str = Lists[nth]

AtSkip ==
    smbios_pc = "skip" => Here.type # 127 /\ sm_i + 1 \notin Holders

SmbiosInv == SmbiosType /\ AtStart /\ AtString /\ AtSkip /\ FindsField

LEMMA SmbiosInitInv == FirmwaresAssumption /\ SmbiosInit => SmbiosInv
<1> SUFFICES ASSUME FirmwaresAssumption, SmbiosInit PROVE SmbiosInv
  OBVIOUS
<1>1. Len(Bytes) \in Nat
  BY FwFacts DEF SmbiosInit
<1> QED BY <1>1 DEF SmbiosInit, SmbiosInv, SmbiosType, AtStart, AtString, AtSkip, FindsField

LEMMA ReadsTop ==
    ASSUME SmbiosType, NEW a \in 1 .. Len(Bytes), Reads(a), UNCHANGED fw
    PROVE  sm_top' \in 0 .. Len(Bytes')
<1>1. Bytes' = Bytes
  BY DEF Bytes
<1> QED BY <1>1 DEF SmbiosType, Reads

\* No structure holds the field, or the first that does is k.
LEMMA NamedIs ==
    /\ Holders = {} => Named = <<>>
    /\ \A k \in Holders :
          smbios_table # 0 /\ (\A x \in Holders : k <= x) /\ (\A x \in Holders : x \in Int) =>
              Named = fw.table[k].strings[FieldOf(fw.table[k])]
<1>1. Holders = {} => Named = <<>>
  BY DEF Named
<1>2. ASSUME NEW k \in Holders, smbios_table # 0, \A x \in Holders : k <= x, \A x \in Holders : x \in Int
      PROVE  Named = fw.table[k].strings[FieldOf(fw.table[k])]
  <2> DEFINE m == CHOOSE y \in Holders : \A x \in Holders : y <= x
  <2>1. m \in Holders /\ \A x \in Holders : m <= x
    BY <1>2
  <2>2. m = k
    BY <1>2, <2>1
  <2>3. Named = fw.table[m].strings[FieldOf(fw.table[m])]
    BY <1>2, Zenon DEF Named
  <2> QED BY <2>2, <2>3
<1> QED BY <1>1, <1>2

\* What every step of the walk leaves alone.
Fixed == UNCHANGED <<fw, anchor, smbios_table, smbios_count, sm_type, sm_offset>>

LEMMA FixedNames == Fixed => /\ Bytes' = Bytes /\ Holders' = Holders /\ Named' = Named
BY DEF Fixed, Bytes, Holders, Named, FieldOf

\* The walk ends and has found nothing: no structure holds the field.
LEMMA NothingFound ==
    ASSUME SmbiosInv, Fixed, Holders = {}, sm_ret' = 0, smbios_pc' = "done",
           sm_top' \in 0 .. Len(Bytes')
    PROVE  SmbiosInv'
<1>1. Named' = <<>>
  BY NamedIs, FixedNames
<1>2. FindsField'
  BY <1>1 DEF FindsField
<1>3. SmbiosType'
  BY DEF SmbiosInv, SmbiosType, Fixed
<1> QED BY <1>2, <1>3 DEF SmbiosInv, AtStart, AtString, AtSkip

LEMMA StructScanInv == FirmwaresAssumption /\ SmbiosInv /\ Scan => SmbiosInv'
<1> SUFFICES ASSUME FirmwaresAssumption, SmbiosInv, Scan PROVE SmbiosInv'
  OBVIOUS
<1> DEFINE k == sm_i + 1
<1>1. /\ SmbiosType /\ fw \in Firmwares /\ smbios_pc = "scan" /\ sm_i \in Nat /\ k \in 1 .. Len(fw.table)
      /\ hdr = fw.starts[k] /\ sm_offset \in {4, 5} /\ sm_ret = 0 /\ smbios_table # 0
      /\ \A x \in 1 .. sm_i : fw.table[x].type # 127 /\ x \notin Holders
      /\ smbios_count \in Nat
  BY DEF SmbiosInv, SmbiosType, AtStart, Scan
<1>2. Fixed /\ UNCHANGED <<sm_i, hdr, sm_ret>>
  BY DEF Fixed, Scan
<1>3. Bytes' = Bytes /\ Holders' = Holders
  BY <1>2, FixedNames
<1>4. \A x \in Holders : x \in Nat /\ x > sm_i /\ x <= smbios_count
  <2>1. SUFFICES ASSUME NEW x \in Holders PROVE x \in Nat /\ x > sm_i /\ x <= smbios_count
    OBVIOUS
  <2>2. x \in 1 .. Len(fw.table) /\ x <= smbios_count
    BY <1>1, FwFacts DEF Holders
  <2>3. x \notin 1 .. sm_i
    BY <1>1, <2>1
  <2> QED BY <1>1, <2>2, <2>3, FwFacts
<1>5. /\ hdr + 1 \in 1 .. Len(Bytes)
      /\ Byte(hdr) = fw.table[k].type /\ ~(Byte(hdr + 1) < 4)
      /\ hdr + Byte(hdr + 1) = fw.heads[k][1]
      /\ Len(fw.table[k].strings) \in Nat
  BY <1>1, StructFacts, FieldThere
<1>6. /\ HasField(hdr) <=> fw.table[k].type = sm_type /\ Len(fw.table[k].data) > sm_offset - 4
      /\ Len(fw.table[k].data) > sm_offset - 4 =>
            Byte(hdr + sm_offset) = FieldOf(fw.table[k]) /\ hdr + sm_offset \in 1 .. Len(Bytes)
      /\ ~(Len(fw.table[k].data) > sm_offset - 4) => FieldOf(fw.table[k]) = 0
      /\ FieldOf(fw.table[k]) \in Nat
  BY <1>1, FieldThere
<1>7. CASE sm_i >= smbios_count
  <2>1. Holders = {}
    BY <1>1, <1>4, <1>7
  <2>2. sm_top' = sm_top /\ smbios_pc' = "done"
    BY <1>7 DEF Scan
  <2>3. sm_top' \in 0 .. Len(Bytes')
    BY <1>1, <1>3, <2>2 DEF SmbiosType
  <2> QED BY <1>1, <1>2, <2>1, <2>2, <2>3, NothingFound
<1>8. CASE ~(sm_i >= smbios_count) /\ EndsAt(hdr)
  <2>1. fw.table[k].type = 127
    BY <1>5, <1>8 DEF EndsAt
  <2>2. Holders = {}
    <3>1. SUFFICES ASSUME NEW x \in Holders PROVE FALSE
      OBVIOUS
    <3>2. k \in 1 .. x
      BY <1>1, <1>4
    <3> QED BY <2>1, <3>2 DEF Holders
  <2>3. smbios_pc' = "done" /\ Reads(hdr + 1)
    BY <1>8 DEF Scan
  <2>4. sm_top' \in 0 .. Len(Bytes')
    BY <1>1, <1>2, <1>5, <2>3, ReadsTop DEF Fixed
  <2> QED BY <1>1, <1>2, <2>2, <2>3, <2>4, NothingFound
<1>9. CASE /\ ~(sm_i >= smbios_count) /\ ~EndsAt(hdr)
           /\ HasField(hdr) /\ Byte(hdr + sm_offset) # 0
  <2>1. smbios_pc' = "string" /\ str' = fw.heads[k][1] /\ nth' = 1 /\ Reads(hdr + sm_offset)
    BY <1>5, <1>9 DEF Scan
  <2>2. sm_top' \in 0 .. Len(Bytes')
    BY <1>1, <1>2, <1>6, <1>9, <2>1, ReadsTop DEF Fixed
  <2>3. SmbiosType'
    BY <1>1, <1>2, <2>1, <2>2 DEF SmbiosType, Fixed
  <2>4. AtStart'
    BY <1>1, <1>2, <1>3 DEF AtStart, Fixed
  <2>5. AtString'
    <3>1. fw.table[k].type = sm_type /\ fw.table[k].type # 127 /\ Len(fw.table[k].data) > sm_offset - 4
      BY <1>5, <1>6, <1>9 DEF EndsAt
    <3>2. FieldOf(fw.table[k]) # 0 /\ 1 <= FieldOf(fw.table[k])
      BY <1>6, <1>9, <3>1
    <3>3. FieldOf(fw.table[k])' = FieldOf(fw.table[k]) /\ sm_i < smbios_count
      BY <1>1, <1>2, <1>9 DEF FieldOf, Fixed
    <3>4. 1 \in 1 .. Len(fw.table[k].strings) + 1
      BY <1>5
    <3> QED BY <1>2, <2>1, <3>1, <3>2, <3>3, <3>4 DEF AtString, Here, Lists, Fixed
  <2> QED BY <2>1, <2>3, <2>4, <2>5 DEF SmbiosInv, AtSkip, FindsField
<1>10. CASE /\ ~(sm_i >= smbios_count) /\ ~EndsAt(hdr)
            /\ ~(HasField(hdr) /\ Byte(hdr + sm_offset) # 0)
  <2>1. smbios_pc' = "skip" /\ Reads(hdr + 1)
    BY <1>10 DEF Scan
  <2>2. sm_top' \in 0 .. Len(Bytes')
    BY <1>1, <1>2, <1>5, <2>1, ReadsTop DEF Fixed
  <2>3. SmbiosType'
    BY <1>1, <1>2, <2>1, <2>2 DEF SmbiosType, Fixed
  <2>4. AtStart'
    BY <1>1, <1>2, <1>3 DEF AtStart, Fixed
  <2>5. fw.table[k].type # 127
    BY <1>5, <1>10 DEF EndsAt
  <2>6. k \notin Holders
    <3>1. fw.table[k].type # sm_type \/ FieldOf(fw.table[k]) = 0
      BY <1>6, <1>10
    <3>2. FieldOf(fw.table[k]) = 0 => FieldOf(fw.table[k]) \notin 1 .. Len(fw.table[k].strings)
      BY <1>5
    <3> QED BY <3>1, <3>2 DEF Holders
  <2>7. AtSkip'
    BY <1>2, <1>3, <2>5, <2>6 DEF AtSkip, Here, Fixed
  <2> QED BY <2>1, <2>3, <2>4, <2>7 DEF SmbiosInv, AtString, FindsField
<1> QED BY <1>7, <1>8, <1>9, <1>10

LEMMA BoardStringInv == FirmwaresAssumption /\ SmbiosInv /\ smbios_string => SmbiosInv'
<1> SUFFICES ASSUME FirmwaresAssumption, SmbiosInv, smbios_string PROVE SmbiosInv'
  OBVIOUS
<1> DEFINE k == sm_i + 1  l == Len(fw.table[k].strings)  hs == fw.heads[k]
           o == FieldOf(fw.table[k])
<1>1. /\ SmbiosType /\ fw \in Firmwares /\ smbios_pc = "string" /\ sm_i \in Nat /\ k \in 1 .. Len(fw.table)
      /\ hdr = fw.starts[k] /\ sm_offset \in {4, 5} /\ sm_ret = 0 /\ smbios_table # 0
      /\ \A x \in 1 .. sm_i : fw.table[x].type # 127 /\ x \notin Holders
      /\ smbios_count \in Nat
  BY DEF SmbiosInv, SmbiosType, AtStart, smbios_string
<1>2. Fixed /\ UNCHANGED <<sm_i, hdr>>
  BY DEF Fixed, smbios_string
<1>3. Bytes' = Bytes /\ Holders' = Holders /\ Named' = Named
  BY <1>2, FixedNames
<1>4. /\ sm_i < smbios_count /\ fw.table[k].type = sm_type /\ fw.table[k].type # 127
      /\ Len(fw.table[k].data) > sm_offset - 4 /\ o # 0
      /\ nth \in 1 .. l + 1 /\ nth <= o /\ str = hs[nth]
  BY <1>1 DEF SmbiosInv, AtString, Here, Lists
<1>5. /\ l \in Nat /\ \A t \in 1 .. l + 1 : hs[t] \in 1 .. Len(Bytes)
      /\ Byte(hs[l + 1]) = 0
      /\ \A t \in 1 .. l : Byte(hs[t]) # 0 /\ Zero(hs[t]) = hs[t + 1] - 1
      /\ Byte(hdr + sm_offset) = o /\ o \in Nat
      /\ Len(Bytes) \in Nat
  BY <1>1, <1>4, StructFacts, FieldThere, FwFacts
<1>6. AtStart' \/ smbios_pc' = "done"
  BY <1>1, <1>2, <1>3 DEF AtStart, Fixed, smbios_string
<1>7. CASE Byte(str) = 0
  <2>1. smbios_pc' = "skip" /\ Reads(str) /\ UNCHANGED <<str, nth, sm_ret>>
    BY <1>7 DEF smbios_string
  <2>2. sm_top' \in 0 .. Len(Bytes')
    BY <1>1, <1>2, <1>4, <1>5, <2>1, ReadsTop DEF Fixed
  <2>3. SmbiosType'
    BY <1>1, <1>2, <2>1, <2>2 DEF SmbiosType, Fixed
  <2>4. k \notin Holders
    <3>1. nth \notin 1 .. l
      BY <1>4, <1>5, <1>7
    <3>2. o \notin 1 .. l
      BY <1>4, <1>5, <3>1
    <3> QED BY <3>2 DEF Holders
  <2>5. AtSkip'
    BY <1>2, <1>3, <1>4, <2>4 DEF AtSkip, Here, Fixed
  <2> QED BY <1>6, <2>1, <2>3, <2>5 DEF SmbiosInv, AtString, FindsField
<1>8. nth \in 1 .. l \/ Byte(str) = 0
  <2>1. nth = l + 1 => Byte(str) = 0
    BY <1>4, <1>5
  <2> QED BY <1>4, <1>5, <2>1
<1>9. CASE Byte(str) # 0 /\ nth = Byte(hdr + sm_offset)
  <2>1. sm_ret' = str /\ smbios_pc' = "done" /\ Reads(str)
    BY <1>9 DEF smbios_string
  <2>2. sm_top' \in 0 .. Len(Bytes')
    BY <1>1, <1>2, <1>4, <1>5, <2>1, ReadsTop DEF Fixed
  <2>3. SmbiosType'
    BY <1>1, <1>2, <2>1, <2>2 DEF SmbiosType, Fixed
  <2>4. nth = o /\ o \in 1 .. l /\ str \in 1 .. Len(Bytes)
    BY <1>4, <1>5, <1>8, <1>9
  <2>5. k \in Holders
    <3>1. \A x \in 1 .. k : fw.table[x].type # 127
      <4>1. \A x \in 1 .. k : x \in 1 .. sm_i \/ x = k
        BY <1>1
      <4> QED BY <1>1, <1>4, <4>1
    <3>2. k <= smbios_count /\ k \in DOMAIN fw.table
      BY <1>1, <1>4, FwFacts
    <3> QED BY <1>4, <2>4, <3>1, <3>2 DEF Holders
  <2>6. \A x \in Holders : x \in Int /\ k <= x
    <3>1. SUFFICES ASSUME NEW x \in Holders PROVE x \in Int /\ k <= x
      OBVIOUS
    <3>2. x \in 1 .. Len(fw.table) /\ x \notin 1 .. sm_i
      BY <1>1, FwFacts DEF Holders
    <3> QED BY <1>1, <3>2, FwFacts
  <2>7. Named = fw.table[k].strings[o]
    BY <1>1, <2>5, <2>6, NamedIs
  <2>8. SubSeq(Bytes, str, Zero(str) - 1) = fw.table[k].strings[o]
    BY <1>1, <1>4, <2>4, StringThere
  <2>9. FindsField'
    <3>1. Zero(str)' = Zero(str)' /\ sm_ret' # 0
      BY <2>1, <2>4
    <3>2. Zero(sm_ret)' = Zero(str)
      BY <1>2, <1>3, <2>1 DEF Zero, Byte
    <3>3. SubSeq(Bytes', sm_ret', Zero(sm_ret)' - 1) = Named'
      BY <1>3, <2>1, <2>7, <2>8, <3>2
    <3> QED BY <3>1, <3>3 DEF FindsField
  <2> QED BY <2>1, <2>3, <2>9 DEF SmbiosInv, AtStart, AtString, AtSkip
<1>10. CASE Byte(str) # 0 /\ nth # Byte(hdr + sm_offset)
  <2>1. /\ smbios_pc' = "string" /\ sm_ret' = sm_ret /\ nth' = nth + 1
        /\ str' = Zero(str) + 1 /\ Reads(Zero(str))
    BY <1>1, <1>10 DEF smbios_string
  <2>2. nth \in 1 .. l /\ nth + 1 \in 1 .. l + 1 /\ nth + 1 <= o
    BY <1>4, <1>5, <1>8, <1>10
  <2>3. Zero(str) = hs[nth + 1] - 1 /\ hs[nth + 1] \in 1 .. Len(Bytes) /\ str' = hs[nth + 1]
    BY <1>4, <1>5, <2>1, <2>2
  <2>4. sm_top' \in 0 .. Len(Bytes')
    <3>1. CASE Zero(str) \in 1 .. Len(Bytes)
      BY <1>1, <1>2, <2>1, <3>1, ReadsTop DEF Fixed
    <3>2. CASE Zero(str) = 0
      BY <1>1, <1>3, <1>5, <2>1, <3>2 DEF Reads, SmbiosType
    <3> QED BY <1>5, <2>3, <3>1, <3>2
  <2>5. SmbiosType'
    BY <1>1, <1>2, <2>1, <2>4 DEF SmbiosType, Fixed
  <2>6. AtString'
    <3>1. FieldOf(fw.table[k])' = o
      BY <1>2 DEF FieldOf, Fixed
    <3> QED BY <1>2, <1>4, <2>1, <2>2, <2>3, <3>1 DEF AtString, Here, Lists, Fixed
  <2> QED BY <1>6, <2>1, <2>5, <2>6 DEF SmbiosInv, AtSkip, FindsField
<1> QED BY <1>7, <1>9, <1>10

LEMMA StructSkipInv == FirmwaresAssumption /\ SmbiosInv /\ Skip => SmbiosInv'
<1> SUFFICES ASSUME FirmwaresAssumption, SmbiosInv, Skip PROVE SmbiosInv'
  OBVIOUS
<1> DEFINE k == sm_i + 1
<1>1. /\ SmbiosType /\ fw \in Firmwares /\ smbios_pc = "skip" /\ sm_i \in Nat /\ k \in 1 .. Len(fw.table)
      /\ hdr = fw.starts[k] /\ sm_offset \in {4, 5} /\ sm_ret = 0 /\ smbios_table # 0
      /\ \A x \in 1 .. sm_i : fw.table[x].type # 127 /\ x \notin Holders
      /\ fw.table[k].type # 127 /\ k \notin Holders
  BY DEF SmbiosInv, SmbiosType, AtStart, AtSkip, Here, Skip
<1>2. Fixed /\ sm_ret' = sm_ret
  BY DEF Fixed, Skip
<1>3. Bytes' = Bytes /\ Holders' = Holders
  BY <1>2, FixedNames
<1>4. After(hdr + Byte(hdr + 1)) = fw.starts[k + 1]
  <2>1. fw.starts[k + 1] \in Nat /\ DoubleZero(hdr + Byte(hdr + 1)) = fw.starts[k + 1] - 2
    BY <1>1, StructFacts, StructGrows
  <2> QED BY <2>1 DEF After
<1>5. /\ hdr' = fw.starts[k + 1] /\ sm_i' = k /\ smbios_pc' = "scan" /\ Reads(fw.starts[k + 1] - 1)
  <2>1. hdr' = fw.starts[k + 1] /\ sm_i' = k /\ smbios_pc' = "scan" /\ Reads(hdr' - 1)
    BY <1>4 DEF Skip
  <2>2. hdr' - 1 = fw.starts[k + 1] - 1
    BY <2>1
  <2> QED BY <2>1, <2>2 DEF Reads
<1>6. sm_top' \in 0 .. Len(Bytes')
  <2>1. fw.starts[k + 1] - 1 \in 1 .. Len(Bytes)
    <3> DEFINE a == fw.starts[k]  f == fw.starts[k + 1]  d == Len(fw.table[k].data)
    <3>1. a \in Nat /\ f \in Nat /\ 1 <= a /\ f <= Len(Bytes) + 1 /\ a + 4 + d < f /\ d \in Nat
          /\ Len(Bytes) \in Nat
      BY <1>1, StructGrows, StructInside, StructFacts, FwFacts
    <3> HIDE DEF a, f, d
    <3>2. f - 1 \in 1 .. Len(Bytes)
      BY <3>1
    <3> QED BY <3>2 DEF f
  <2> QED BY <1>1, <1>2, <1>5, <2>1, ReadsTop DEF Fixed
<1>7. k + 1 \in 1 .. Len(fw.table)
  <2>1. k # Len(fw.table)
    BY <1>1, FwFacts
  <2> QED BY <1>1, <2>1, FwFacts
<1>8. \A x \in 1 .. k : fw.table[x].type # 127 /\ x \notin Holders
  <2>1. \A x \in 1 .. k : x \in 1 .. sm_i \/ x = k
    BY <1>1
  <2> QED BY <1>1, <2>1
<1>9. AtStart'
  <2>1. k \in Nat
    BY <1>1
  <2> QED BY <1>1, <1>2, <1>3, <1>5, <1>7, <1>8, <2>1 DEF AtStart, Fixed
<1>10. SmbiosType'
  BY <1>1, <1>2, <1>5, <1>6 DEF SmbiosType, Fixed
<1> QED BY <1>5, <1>9, <1>10 DEF SmbiosInv, AtString, AtSkip, FindsField

LEMMA FieldInv ==
    ASSUME FirmwaresAssumption, SmbiosInv, NEW t \in {2}, NEW o \in {4, 5}, find_field(t, o)
    PROVE  SmbiosInv'
<1>1. fw' = fw /\ Bytes' = Bytes /\ Len(Bytes) \in Nat /\ fw \in Firmwares /\ sm_top' = 0
      /\ sm_offset' = o /\ sm_i' = 0 /\ hdr' = 1 /\ sm_ret' = 0
      /\ smbios_table' = smbios_table
  BY FwFacts DEF SmbiosInv, SmbiosType, find_field, Bytes
<1>2. SmbiosType'
  BY <1>1 DEF SmbiosInv, SmbiosType, find_field
<1>3. AtStart'
  <2>1. smbios_pc' \in {"scan", "string", "skip"} => smbios_table' # 0
    BY DEF find_field
  <2>2. 0 + 1 \in 1 .. Len(fw.table) /\ fw.starts[0 + 1] = 1 /\ 1 .. 0 = {}
    BY <1>1, FwFacts
  <2> QED BY <1>1, <2>1, <2>2 DEF AtStart
<1>4. FindsField'
  <2>1. smbios_pc' = "done" => smbios_table' = 0
    BY DEF find_field
  <2> QED BY <1>1, <2>1 DEF FindsField, Named
<1>5. smbios_pc' \notin {"string", "skip"}
  BY DEF find_field
<1> QED BY <1>2, <1>3, <1>4, <1>5 DEF SmbiosInv, AtString, AtSkip

LEMMA SmbiosNextInv ==
    FirmwaresAssumption /\ SmbiosInv /\ [SmbiosNext]_smbiosVars => SmbiosInv'
<1> SUFFICES ASSUME FirmwaresAssumption, SmbiosInv, [SmbiosNext]_smbiosVars PROVE SmbiosInv'
  OBVIOUS
<1>1. CASE smbios_init
  <2>1. fw \in Firmwares /\ fw' = fw /\ Bytes' = Bytes /\ sm_top' = sm_top /\ fw.slots \in Seq(Anchors)
    BY <1>1, FwFacts DEF SmbiosInv, SmbiosType, smbios_init, search, Bytes
  <2>2. anchor' \in Nat \ {0} /\ smbios_count' \in Nat /\ smbios_pc' \in {"init", "idle"}
    <3>1. anchor <= Len(fw.slots) => fw.slots[anchor] \in Anchors
      BY <2>1, ElementOfSeq DEF SmbiosInv, SmbiosType
    <3>2. \A s \in Anchors : s.count \in Nat
      BY DEF Anchors
    <3> QED BY <1>1, <2>1, <3>1, <3>2 DEF SmbiosInv, SmbiosType, smbios_init
  <2>3. SmbiosType'
    BY <2>1, <2>2 DEF SmbiosInv, SmbiosType
  <2> QED BY <2>2, <2>3 DEF SmbiosInv, AtStart, AtString, AtSkip, FindsField
<1>2. CASE BoardVendor
  BY <1>2, FieldInv DEF BoardVendor
<1>3. CASE BoardName
  BY <1>3, FieldInv DEF BoardName
<1>4. CASE Scan
  BY <1>4, StructScanInv
<1>5. CASE smbios_string
  BY <1>5, BoardStringInv
<1>6. CASE Skip
  BY <1>6, StructSkipInv
<1>7. CASE Again
  BY <1>7 DEF Again, search, SmbiosInv, SmbiosType, AtStart, AtString, AtSkip, FindsField, Bytes
<1>8. CASE UNCHANGED smbiosVars
  <2>1. /\ Bytes' = Bytes /\ Named' = Named /\ Holders' = Holders
        /\ \A a : Zero(a)' = Zero(a)
    BY <1>8 DEF smbiosVars, Bytes, Named, Holders, FieldOf, Zero, Byte
  <2>2. SmbiosType' /\ AtStart' /\ AtSkip'
    BY <1>8, <2>1 DEF smbiosVars, SmbiosInv, SmbiosType, AtStart, AtSkip, Here
  <2>3. AtString'
    BY <1>8 DEF smbiosVars, SmbiosInv, AtString, Here, Lists, FieldOf
  <2>4. FindsField'
    BY <1>8, <2>1 DEF smbiosVars, SmbiosInv, FindsField
  <2> QED BY <2>2, <2>3, <2>4 DEF SmbiosInv
<1> QED BY <1>1, <1>2, <1>3, <1>4, <1>5, <1>6, <1>7, <1>8 DEF SmbiosNext

(* smbios_get_board_vendor and smbios_get_board_name return the string     *)
(* that the firmware's table names, or none, and no byte behind the table  *)
(* is read, for every table of structures that ends in the end marker and  *)
(* every count in the entry point.  The walk stands at the start of a      *)
(* structure, since the two zero bytes that it stops at are the first      *)
(* behind the strings, and no structure before that holds the field.       *)
THEOREM BoardAlwaysNamed ==
    ASSUME FirmwaresAssumption PROVE SmbiosSpec => []BoardNamed
<1>1. SmbiosInv => BoardNamed
  <2> SUFFICES ASSUME SmbiosInv PROVE BoardNamed
    OBVIOUS
  <2>1. Len(Bytes) \in Nat
    BY FwFacts DEF SmbiosInv, SmbiosType
  <2>2. smbios_pc \in {"scan", "string"} => hdr + 1 \in 1 .. Len(Bytes)
    BY StructFacts DEF SmbiosInv, SmbiosType, AtStart
  <2> QED BY <2>1, <2>2 DEF SmbiosInv, SmbiosType, BoardNamed, ReadsInside
<1> QED BY <1>1, SmbiosInitInv, SmbiosNextInv, PTL DEF SmbiosSpec
--------------------------------------------------------------------------------
(***************************************************************************)
(* acpi_init's sleep types.  Where byte code is what its terms mean, the   *)
(* first occurrence of the name that find_s5 takes is the first package of *)
(* two integers (FindsS5); the walk over the tables then keeps the first   *)
(* table that states the types and the last FACP's DSDT (AcpiInv).  That   *)
(* find_s5 reads one byte behind at most needs no assumption on the code.  *)
(***************************************************************************)

USE DEF S5Name

Code == Seq(0 .. 255)

(* A byte is a byte, also behind the table, and gives a length's size.     *)
LEMMA ByteRead ==
    ASSUME platform.past \in 0 .. 255, NEW c \in Code, NEW o \in Nat
    PROVE  AmlByte(c, o) \in 0 .. 255 /\ pkglen_size(AmlByte(c, o)) \in 1 .. 4
<1>1. AmlByte(c, o) \in 0 .. 255
  <2>1. ASSUME o < Len(c) PROVE c[o + 1] \in 0 .. 255
    <3>1. Len(c) \in Nat /\ c \in Seq(0 .. 255)
      BY DEF Code
    <3>2. o + 1 \in 1 .. Len(c)
      BY <2>1, <3>1
    <3> QED BY <3>1, <3>2, ElementOfSeq
  <2> QED BY <2>1 DEF AmlByte
<1>2. \A b \in 0 .. 255 : 1 + b \div 64 \in 1 .. 4
  OBVIOUS
<1> QED BY <1>1, <1>2 DEF pkglen_size

(* parse_int_element leaves the byte behind the code alone.                *)
LEMMA ElementRead ==
    ASSUME NEW c \in Code, NEW o \in Nat
    PROVE  /\ parse_int_element(c, o).ok \in BOOLEAN
           /\ parse_int_element(c, o).off \in Nat
           /\ parse_int_element(c, o).top \in Nat
           /\ parse_int_element(c, o).top <= Len(c)
<1>1. Len(c) \in Nat
  BY DEF Code
<1>2. ASSUME NEW n \in Nat, o < Len(c)
      PROVE  /\ Operand(n, c, o).ok \in BOOLEAN /\ Operand(n, c, o).off \in Nat
             /\ Operand(n, c, o).top \in Nat /\ Operand(n, c, o).top <= Len(c)
  BY <1>1, <1>2 DEF Operand
<1> DEFINE b == AmlByte(c, o)
<1> HIDE DEF b
<1>3. CASE o >= Len(c)
  BY <1>1, <1>3 DEF parse_int_element
<1>4. CASE o < Len(c)
  <2>1. parse_int_element(c, o) =
            CASE b = 10 -> Operand(1, c, o)
              [] b = 11 -> Operand(2, c, o)
              [] b = 12 -> Operand(4, c, o)
              [] b = 14 -> Operand(8, c, o)
              [] OTHER -> [ok |-> TRUE, out |-> b, off |-> o + 1, top |-> o]
    BY <1>1, <1>4 DEF parse_int_element, b
  <2>2. CASE b \in {10, 11, 12, 14}
    BY <1>2, <1>4, <2>1, <2>2
  <2>3. CASE b \notin {10, 11, 12, 14}
    <3>1. parse_int_element(c, o) = [ok |-> TRUE, out |-> b, off |-> o + 1, top |-> o]
      BY <2>1, <2>3
    <3> QED BY <1>1, <1>4, <3>1
  <2> QED BY <2>2, <2>3
<1> QED BY <1>1, <1>3, <1>4

(* The end of the search for the package stays in the code or is behind it.*)
LEMMA PackageRead ==
    ASSUME platform.past \in 0 .. 255, NEW c \in Code, NEW o \in Nat
    PROVE  PackageAt(c, o) \in Nat
<1> DEFINE b   == Behind(c, o)
           h   == b + 2 + pkglen_size(AmlByte(c, b + 1))
           pks == {k \in 0 .. 15 : h + k < Len(c) /\ AmlByte(c, h + k) = 18}
<1>1. b \in Nat
  BY DEF Behind
<1>2. h \in Nat
  BY <1>1, ByteRead
<1> HIDE DEF b, h
<1>3. PackageAt(c, o) =
          IF ~IsMethod(c, b) THEN b
          ELSE IF pks = {} THEN h
          ELSE h + CHOOSE k \in pks : \A q \in pks : k <= q
  BY DEF PackageAt, b, h
<1>4. ASSUME pks # {} PROVE (CHOOSE k \in pks : \A q \in pks : k <= q) \in Nat
  <2>1. pks \subseteq Nat
    OBVIOUS
  <2> HIDE DEF pks
  <2>2. \E k \in pks : \A q \in pks : k <= q
    BY <1>4, <2>1, Minimum
  <2>3. (CHOOSE k \in pks : \A q \in pks : k <= q) \in pks
    BY <2>2
  <2> QED BY <2>1, <2>3
<1> HIDE DEF pks
<1> QED BY <1>1, <1>2, <1>3, <1>4

(* Whatever the code, an occurrence of the name makes find_s5 read at most *)
(* the byte behind it.                                                     *)
LEMMA OneBehind ==
    ASSUME platform.past \in 0 .. 255, NEW c \in Code, NEW o \in Occurrences(c)
    PROVE  Occurrence(c, o).top <= Len(c)
<1> DEFINE L  == Len(c)
           b  == Behind(c, o + 4)
           p  == PackageAt(c, o + 4)
           rd == IF IsMethod(c, b) THEN b + 1 ELSE o + 4
           n  == p + 1 + pkglen_size(AmlByte(c, p + 1))
           x  == parse_int_element(c, n + 1)
           y  == IF x.ok THEN parse_int_element(c, x.off) ELSE x
<1>1. L \in Nat /\ o \in Nat /\ o + 5 <= L
  BY DEF Occurrences, Code
<1>2. p \in Nat /\ n \in Nat
  <2>1. p \in Nat
    BY <1>1, PackageRead
  <2> QED BY <2>1, ByteRead
<1>3. rd \in Nat /\ rd <= L
  BY <1>1 DEF Behind, IsMethod
<1>4. /\ x.ok \in BOOLEAN /\ x.off \in Nat /\ x.top \in Nat /\ x.top <= L
  BY <1>2, ElementRead
<1>5. y.top \in Nat /\ y.top <= L
  <2>1. parse_int_element(c, x.off).top \in Nat /\ parse_int_element(c, x.off).top <= L
    BY <1>4, ElementRead
  <2> HIDE DEF x
  <2> QED BY <1>4, <2>1
<1>6. Occurrence(c, o) =
          IF p >= L THEN [ok |-> FALSE, a |-> 0, b |-> 0, top |-> rd]
          ELSE IF AmlByte(c, p) # 18 THEN [ok |-> FALSE, a |-> 0, b |-> 0, top |-> Larger(p, rd)]
          ELSE IF ~(n < L) THEN [ok |-> FALSE, a |-> 0, b |-> 0, top |-> Larger(p + 1, rd)]
          ELSE IF AmlByte(c, n) < 2 THEN [ok |-> FALSE, a |-> 0, b |-> 0, top |-> n]
          ELSE [ok |-> TRUE, a |-> x.out, b |-> y.out, top |-> Larger(n, Larger(x.top, y.top))]
  BY DEF Occurrence, CountFits
<1> HIDE DEF L, b, p, rd, n, x, y
<1>7. \A u, v \in Nat : u <= L /\ v <= L => Larger(u, v) \in Nat /\ Larger(u, v) <= L
  BY DEF Larger
<1>8. Larger(x.top, y.top) \in Nat /\ Larger(x.top, y.top) <= L
  BY <1>4, <1>5, <1>7
<1> DEFINE z == Larger(x.top, y.top)
<1> HIDE DEF z
<1>9. n < L => Larger(n, z) <= L
  BY <1>1, <1>2, <1>7, <1>8 DEF z
<1>10. ASSUME p < L PROVE Larger(p, rd) <= L /\ Larger(p + 1, rd) <= L
  <2>1. p + 1 \in Nat /\ p + 1 <= L /\ p <= L
    BY <1>1, <1>2, <1>10
  <2>2. Larger(p, rd) <= L
    BY <1>2, <1>3, <1>7, <2>1
  <2>3. Larger(p + 1, rd) <= L
    BY <1>3, <1>7, <2>1
  <2> QED BY <2>2, <2>3
<1> QED BY <1>1, <1>2, <1>3, <1>6, <1>9, <1>10 DEF L, z

(* A constant, or the byte behind the prefix, is what an integer gives.    *)
LEMMA NumberRead ==
    ASSUME NEW c \in Code, NEW o \in Nat, NEW v \in Numbers, NumberAt(c, o, v)
    PROVE  /\ parse_int_element(c, o).ok
           /\ parse_int_element(c, o).out = v.low
           /\ parse_int_element(c, o).off = o + Width(v.form)
<1>1. Len(c) \in Nat /\ o + Width(v.form) <= Len(c)
  BY DEF Code, NumberAt
<1>2. v.form \in {"const", "byte", "word", "dword", "qword"}
  BY DEF Numbers
<1>3. \A x \in Nat : \A b : Holds(c, x, b) => x < Len(c) /\ AmlByte(c, x) = b
  BY DEF Holds, AmlByte
<1>4. CASE v.form = "const"
  <2>1. o < Len(c) /\ AmlByte(c, o) = v.low /\ v.low \notin {10, 11, 12, 14}
    BY <1>3, <1>4 DEF NumberAt
  <2> QED BY <1>1, <1>4, <2>1 DEF parse_int_element, Width
<1>5. ASSUME NEW n \in Nat, NEW b, Holds(c, o, b), Holds(c, o + 1, v.low), o + n < Len(c)
      PROVE  /\ o < Len(c) /\ AmlByte(c, o) = b
             /\ Operand(n, c, o) = [ok |-> TRUE, out |-> v.low, off |-> o + n + 1, top |-> o + 1]
  <2>1. o < Len(c) /\ AmlByte(c, o) = b
    BY <1>3, <1>5
  <2>2. AmlByte(c, o + 1) = v.low
    BY <1>3, <1>5
  <2> QED BY <1>5, <2>1, <2>2 DEF Operand
<1>6. CASE v.form = "byte"
  <2>1. Holds(c, o, 10) /\ Holds(c, o + 1, v.low) /\ o + 1 < Len(c)
    BY <1>1, <1>6 DEF NumberAt, Width
  <2> QED BY <1>1, <1>5, <1>6, <2>1 DEF parse_int_element, Width
<1>7. CASE v.form = "word"
  <2>1. Holds(c, o, 11) /\ Holds(c, o + 1, v.low) /\ o + 2 < Len(c)
    BY <1>1, <1>7 DEF NumberAt, Width
  <2> QED BY <1>1, <1>5, <1>7, <2>1 DEF parse_int_element, Width
<1>8. CASE v.form = "dword"
  <2>1. Holds(c, o, 12) /\ Holds(c, o + 1, v.low) /\ o + 4 < Len(c)
    BY <1>1, <1>8 DEF NumberAt, Width
  <2> QED BY <1>1, <1>5, <1>8, <2>1 DEF parse_int_element, Width
<1>9. CASE v.form = "qword"
  <2>1. Holds(c, o, 14) /\ Holds(c, o + 1, v.low) /\ o + 8 < Len(c)
    BY <1>1, <1>9 DEF NumberAt, Width
  <2> QED BY <1>1, <1>5, <1>9, <2>1 DEF parse_int_element, Width
<1> QED BY <1>2, <1>4, <1>6, <1>7, <1>8, <1>9

(* Where find_s5 looks, it reads the code itself.                          *)
LEMMA NameIs ==
    ASSUME NEW c \in Code, NEW o \in 0 .. Len(c) - 5
    PROVE  IsName(c, o) <=> NameAt(c, o)
<1>1. Len(c) \in Nat
  BY DEF Code
<1>2. \A k \in 0 .. 3 : o + k < Len(c)
  BY <1>1
<1> QED BY <1>2 DEF IsName, NameAt, Holds, AmlByte

(* A mere reference to the name is passed.                                 *)
LEMMA ReferencePassed ==
    ASSUME NEW c \in Code, NEW o \in 0 .. Len(c) - 5, ReferenceAt(c, o)
    PROVE  ~ Occurrence(c, o).ok
<1> DEFINE b == Behind(c, o + 4)
<1>1. Len(c) \in Nat /\ b \in Nat
  BY DEF Code, Behind
<1>2. ~ Holds(c, b, 18) /\ ~ Holds(c, b, 20)
  BY DEF ReferenceAt, Behind, Holds, AmlByte
<1>3. ~ IsMethod(c, b)
  BY <1>2 DEF IsMethod, Holds, AmlByte
<1>4. PackageAt(c, o + 4) = b
  BY <1>3 DEF PackageAt
<1>5. b >= Len(c) \/ AmlByte(c, b) # 18
  BY <1>1, <1>2 DEF Holds, AmlByte
<1> QED BY <1>4, <1>5 DEF Occurrence

(* A package behind the name gives its first two integers, if it has them. *)
LEMMA PackageGives ==
    ASSUME NEW c \in Code, NEW s \in Nat, NEW t \in Terms, t.kind = "name", ObjectAt(c, s, t)
    PROVE  /\ s + 1 <= Len(c) - 5
           /\ Occurrence(c, s + 1).ok <=> Len(t.ints) >= 2
           /\ Len(t.ints) >= 2 => /\ Occurrence(c, s + 1).a = t.ints[1].low
                                  /\ Occurrence(c, s + 1).b = t.ints[2].low
<1>1. t.size \in 1 .. 4 /\ t.ints \in Seq(Numbers) /\ Len(t.ints) \in Nat /\ Len(c) \in Nat
  BY DEF Terms, Code
<1>2. /\ Holds(c, s + 5, 18)
      /\ Holds(c, s + 6 + t.size, Len(t.ints))
  BY DEF ObjectAt
<1>3. PICK lead \in 0 .. 63 : Holds(c, s + 6, 64 * (t.size - 1) + lead)
  BY DEF ObjectAt
<1>4. \A x \in Nat : \A b : Holds(c, x, b) => x < Len(c) /\ AmlByte(c, x) = b
  BY DEF Holds, AmlByte
<1>5. /\ s + 5 < Len(c) /\ AmlByte(c, s + 5) = 18
      /\ AmlByte(c, s + 6) = 64 * (t.size - 1) + lead
      /\ s + 6 + t.size < Len(c) /\ AmlByte(c, s + 6 + t.size) = Len(t.ints)
  BY <1>1, <1>2, <1>3, <1>4
<1>6. Behind(c, s + 5) = s + 5 /\ ~ IsMethod(c, s + 5) /\ PackageAt(c, s + 5) = s + 5
  BY <1>5 DEF Behind, IsMethod, PackageAt
<1>7. pkglen_size(AmlByte(c, s + 6)) = t.size
  <2>1. \A z \in 1 .. 4, l \in 0 .. 63 : 1 + (64 * (z - 1) + l) \div 64 = z
    OBVIOUS
  <2> QED BY <1>1, <1>5, <2>1 DEF pkglen_size
<1> DEFINE n == s + 6 + t.size
           x == parse_int_element(c, n + 1)
           y == IF x.ok THEN parse_int_element(c, x.off) ELSE x
<1>8. Occurrence(c, s + 1) =
          IF AmlByte(c, n) < 2 THEN [ok |-> FALSE, a |-> 0, b |-> 0, top |-> n]
          ELSE [ok |-> TRUE, a |-> x.out, b |-> y.out, top |-> Larger(n, Larger(x.top, y.top))]
  <2>1. s + 1 + 4 = s + 5 /\ s + 5 + 1 = s + 6
    OBVIOUS
  <2>2. s + 5 + 1 + t.size = n /\ n < Len(c) /\ s + 5 < Len(c) /\ ~ (s + 5 >= Len(c))
    BY <1>1, <1>5
  <2> HIDE DEF n, x, y
  <2>3. x = parse_int_element(c, n + 1) /\ y = IF x.ok THEN parse_int_element(c, x.off) ELSE x
    BY DEF x, y
  <2> QED BY <1>5, <1>6, <1>7, <2>1, <2>2, <2>3 DEF Occurrence, CountFits
<1>9. ASSUME Len(t.ints) >= 2 PROVE x.out = t.ints[1].low /\ y.out = t.ints[2].low
  <2>1. t.ints[1] \in Numbers /\ t.ints[2] \in Numbers
    BY <1>1, <1>9, ElementOfSeq
  <2>2. n + 1 = s + 7 + t.size /\ n + 1 \in Nat
    BY <1>1
  <2>3. NumberAt(c, n + 1, t.ints[1]) /\ NumberAt(c, n + 1 + Width(t.ints[1].form), t.ints[2])
    BY <1>9, <2>2 DEF ObjectAt
  <2>4. Width(t.ints[1].form) \in Nat
    BY <2>1 DEF Width, Numbers
  <2> HIDE DEF n
  <2>5. x.ok /\ x.out = t.ints[1].low /\ x.off = n + 1 + Width(t.ints[1].form)
    BY <2>1, <2>2, <2>3, NumberRead
  <2>6. n + 1 + Width(t.ints[1].form) \in Nat
    BY <2>2, <2>4
  <2>7. parse_int_element(c, x.off).out = t.ints[2].low
    BY <2>1, <2>3, <2>5, <2>6, NumberRead
  <2> HIDE DEF x
  <2> QED BY <2>5, <2>7
<1>10. s + 1 <= Len(c) - 5 /\ AmlByte(c, n) = Len(t.ints)
  BY <1>1, <1>5
<1> HIDE DEF n, x, y
<1>11. CASE Len(t.ints) >= 2
  <2>1. Occurrence(c, s + 1) = [ok |-> TRUE, a |-> x.out, b |-> y.out, top |-> Larger(n, Larger(x.top, y.top))]
    BY <1>1, <1>8, <1>10, <1>11
  <2> QED BY <1>9, <1>10, <1>11, <2>1
<1>12. CASE Len(t.ints) < 2
  <2>1. Occurrence(c, s + 1) = [ok |-> FALSE, a |-> 0, b |-> 0, top |-> n]
    BY <1>8, <1>10, <1>12
  <2> QED BY <1>1, <1>10, <1>12, <2>1
<1> QED BY <1>1, <1>11, <1>12

(* What find_s5 returns for code that means its terms.                     *)
FindsS5(t) ==
    LET r == find_s5(t.code)
    IN  /\ r.ok <=> Packages(t) # {}
        /\ r.ok => <<r.a, r.b>> = S5Of(t)

LEMMA FoundS5 ==
    ASSUME NEW t, t.code \in Code, MeansTerms(t)
    PROVE  FindsS5(t)
<1> DEFINE c    == t.code
           good == {o \in Occurrences(c) : Occurrence(c, o).ok}
           least(S) == CHOOSE x \in S : \A y \in S : x <= y
<1>1. /\ t.terms \in Seq(Terms) /\ t.starts \in [DOMAIN t.terms -> Nat]
      /\ \A k, x \in DOMAIN t.terms : k < x => t.starts[k] < t.starts[x]
      /\ \A k \in DOMAIN t.terms :
            /\ t.terms[k].kind = "name" =>
                  NameAt(c, t.starts[k] + 1) /\ ObjectAt(c, t.starts[k], t.terms[k])
            /\ t.terms[k].kind = "ref" => ReferenceAt(c, t.starts[k])
      /\ \A o \in 0 .. Len(c) - 5 : NameAt(c, o) => \E k \in DOMAIN t.terms :
            \/ t.terms[k].kind = "name" /\ o = t.starts[k] + 1
            \/ t.terms[k].kind = "ref" /\ o = t.starts[k]
  BY DEF MeansTerms
<1>2. Len(c) \in Nat /\ good \subseteq Nat /\ Packages(t) \subseteq Nat
  BY <1>1 DEF Code, Occurrences, Packages
<1>3. ASSUME NEW k \in DOMAIN t.terms, t.terms[k].kind = "name"
      PROVE  /\ t.starts[k] + 1 \in Occurrences(c)
             /\ Occurrence(c, t.starts[k] + 1).ok <=> k \in Packages(t)
             /\ k \in Packages(t) =>
                   /\ Occurrence(c, t.starts[k] + 1).a = t.terms[k].ints[1].low
                   /\ Occurrence(c, t.starts[k] + 1).b = t.terms[k].ints[2].low
  <2>1. t.terms[k] \in Terms /\ t.starts[k] \in Nat
    BY <1>1
  <2>2. NameAt(c, t.starts[k] + 1) /\ ObjectAt(c, t.starts[k], t.terms[k])
    BY <1>1, <1>3
  <2>3. /\ t.starts[k] + 1 <= Len(c) - 5
        /\ Occurrence(c, t.starts[k] + 1).ok <=> Len(t.terms[k].ints) >= 2
        /\ Len(t.terms[k].ints) >= 2 =>
              /\ Occurrence(c, t.starts[k] + 1).a = t.terms[k].ints[1].low
              /\ Occurrence(c, t.starts[k] + 1).b = t.terms[k].ints[2].low
    BY <1>3, <2>1, <2>2, PackageGives
  <2>4. t.starts[k] + 1 \in 0 .. Len(c) - 5
    BY <1>2, <2>1, <2>3
  <2>5. IsName(c, t.starts[k] + 1)
    BY <2>2, <2>4, NameIs
  <2> QED BY <1>3, <2>3, <2>4, <2>5 DEF Occurrences, Packages
<1>4. ASSUME NEW o \in good PROVE \E k \in Packages(t) : o = t.starts[k] + 1
  <2>1. o \in 0 .. Len(c) - 5 /\ NameAt(c, o) /\ Occurrence(c, o).ok
    BY NameIs DEF Occurrences
  <2>2. PICK k \in DOMAIN t.terms :
            \/ t.terms[k].kind = "name" /\ o = t.starts[k] + 1
            \/ t.terms[k].kind = "ref" /\ o = t.starts[k]
    BY <1>1, <2>1
  <2>3. CASE t.terms[k].kind = "name" /\ o = t.starts[k] + 1
    BY <1>3, <2>1, <2>3
  <2>4. CASE t.terms[k].kind = "ref" /\ o = t.starts[k]
    <3>1. ReferenceAt(c, o)
      BY <1>1, <2>4
    <3> QED BY <2>1, <3>1, ReferencePassed
  <2> QED BY <2>2, <2>3, <2>4
<1>5. \A k \in Packages(t) : k \in DOMAIN t.terms /\ t.terms[k].kind = "name"
  BY DEF Packages
<1>6. \A k \in Packages(t) : t.starts[k] + 1 \in good
  BY <1>3, <1>5
<1>7. find_s5(c) = IF good = {} THEN [ok |-> FALSE, a |-> 0, b |-> 0] ELSE Occurrence(c, least(good))
  BY DEF find_s5
<1>8. CASE Packages(t) = {}
  <2>1. good = {}
    BY <1>4, <1>8
  <2> QED BY <1>7, <1>8, <2>1 DEF FindsS5
<1>9. CASE Packages(t) # {}
  <2> DEFINE k == least(Packages(t))
             o == least(good)
  <2>1. k \in Packages(t) /\ \A x \in Packages(t) : k <= x
    <3>1. \E x \in Packages(t) : \A y \in Packages(t) : x <= y
      BY <1>2, <1>9, Minimum
    <3> QED BY <3>1
  <2>2. t.starts[k] + 1 \in good
    BY <1>6, <2>1
  <2>3. o \in good /\ \A x \in good : o <= x
    <3>1. good # {}
      BY <2>2
    <3> HIDE DEF good
    <3>2. \E x \in good : \A y \in good : x <= y
      BY <1>2, <3>1, Minimum
    <3> QED BY <3>2
  <2> HIDE DEF k, o
  <2>4. PICK x \in Packages(t) : o = t.starts[x] + 1
    BY <1>4, <2>3
  <2>5. o = t.starts[k] + 1
    <3>1. k \in Nat /\ x \in Nat /\ k <= x
      BY <1>2, <2>1, <2>4
    <3>2. t.starts[k] \in Nat /\ t.starts[x] \in Nat
      BY <1>1, <1>5, <2>1, <2>4
    <3>3. k < x => t.starts[k] < t.starts[x]
      BY <1>1, <1>5, <2>1, <2>4
    <3>4. o <= t.starts[k] + 1
      BY <2>2, <2>3
    <3> QED BY <2>4, <3>1, <3>2, <3>3, <3>4
  <2>6. find_s5(c) = Occurrence(c, t.starts[k] + 1)
    BY <1>7, <2>2, <2>5 DEF o
  <2>7. S5Of(t) = <<t.terms[k].ints[1].low, t.terms[k].ints[2].low>>
    BY DEF S5Of, k
  <2>8. /\ Occurrence(c, t.starts[k] + 1).ok
        /\ Occurrence(c, t.starts[k] + 1).a = t.terms[k].ints[1].low
        /\ Occurrence(c, t.starts[k] + 1).b = t.terms[k].ints[2].low
    BY <1>3, <1>5, <2>1
  <2> QED BY <1>9, <2>6, <2>7, <2>8 DEF FindsS5
<1> QED BY <1>8, <1>9

--------------------------------------------------------------------------------

Least(x, S) == x \in S /\ \A y \in S : x <= y

Defaults == slp_typa = 5 /\ slp_typb = 5 /\ have_s5 = FALSE

DsdtAt(l) == IF l.long /\ l.x_dsdt # 0 THEN l.x_dsdt ELSE l.dsdt

\* Before the e-th table of the root table: the first that states the types
\* has given them, the last FACP has given its DSDT.
TypesTo(e) ==
    /\ have_s5 \in BOOLEAN
    /\ have_s5 <=> \E k \in Stating : k < e
    /\ ~ have_s5 => Defaults
    /\ \A k \in Stating : Least(k, Stating) /\ k < e => <<slp_typa, slp_typb>> = TypesOf(Listed[k])

DsdtTo(e) ==
    /\ (\A k \in Facps : k >= e) => dsdt_phys = 0
    /\ \A k \in Facps :
          k < e /\ (\A x \in Facps : x <= k \/ x >= e) => dsdt_phys = DsdtAt(Listed[k])

AcpiInv ==
    /\ platform \in Platforms
    /\ acpi_pc = "rsdp" =>
          rsdp \in Nat \ {0} /\ entry = 1 /\ dsdt_phys = 0 /\ Defaults /\ \A x \in Good : rsdp <= x
    /\ acpi_pc = "root" => Least(rsdp, Good) /\ entry = 1 /\ dsdt_phys = 0 /\ Defaults
    /\ acpi_pc \in {"tables", "dsdt"} /\ Sound =>
          /\ Good # {} /\ Root.sig \in {"RSDT", "XSDT"}
          /\ sdt = RootOf(Pointer) /\ Entries = Len(Root.entries)
          /\ entry \in 1 .. Len(Root.entries) + 1
          /\ acpi_pc = "dsdt" => entry = Len(Root.entries) + 1
          /\ TypesTo(entry) /\ DsdtTo(entry)
    /\ S5Right

FixedPlatform == platform' = platform

LEMMA SamePlatform ==
    ASSUME FixedPlatform
    PROVE  /\ Area' = Area /\ Good' = Good /\ Pointer' = Pointer /\ Root' = Root
           /\ Listed' = Listed /\ Stating' = Stating /\ Facps' = Facps /\ Sleep' = Sleep
           /\ Sound' = Sound /\ \A a : Table(a)' = Table(a)
<1>1. platform' = platform
  BY DEF FixedPlatform
<1>2. Area' = Area
  BY <1>1 DEF Area
<1>3. \A a : Table(a)' = Table(a)
  BY <1>1 DEF Table
<1>4. Good' = Good
  BY <1>2 DEF Good
<1>5. Pointer' = Pointer
  BY <1>2, <1>4 DEF Pointer
<1>6. Root' = Root
  BY <1>1, <1>5 DEF Root, Table
<1>7. Listed' = Listed
  BY <1>1, <1>4, <1>6 DEF Listed, Table
<1>8. Stating' = Stating /\ Facps' = Facps
  BY <1>7 DEF Stating, Facps
<1>9. LastFacp' = LastFacp
  BY <1>7, <1>8 DEF LastFacp
<1>10. DsdtOf' = DsdtOf
  BY <1>1, <1>9 DEF DsdtOf, Table
<1>11. Sleep' = Sleep
  BY <1>7, <1>8, <1>10 DEF Sleep
<1>12. Sound' = Sound
  BY <1>1, <1>2, <1>4 DEF Sound
<1> QED BY <1>2, <1>3, <1>4, <1>5, <1>6, <1>7, <1>8, <1>11, <1>12

(* The first valid pointer is where find_rsdp stops.                       *)
LEMMA AreaFacts ==
    ASSUME PlatformsAssumption, platform \in Platforms
    PROVE  /\ Area \in Seq(Pointers) /\ Good \subseteq 1 .. Len(Area)
           /\ platform.past \in 0 .. 255
           /\ \A x : Least(x, Good) => Pointer = Area[x]
<1>1. platform.ebda \in Seq(Pointers) /\ platform.bios \in Seq(Pointers) /\ platform.past \in 0 .. 255
  BY DEF PlatformsAssumption
<1>2. Area \in Seq(Pointers)
  BY <1>1, ConcatProperties DEF Area
<1>3. Good \subseteq 1 .. Len(Area)
  BY <1>2 DEF Good
<1>4. ASSUME NEW x, Least(x, Good) PROVE Pointer = Area[x]
  <2>1. PICK y : y = CHOOSE k \in Good : \A z \in Good : k <= z
    OBVIOUS
  <2>2. Least(y, Good)
    BY <1>4, <2>1 DEF Least
  <2>3. x \in Nat /\ y \in Nat /\ x <= y /\ y <= x
    BY <1>2, <1>3, <1>4, <2>2 DEF Least
  <2>4. x = y
    BY <2>3
  <2> QED BY <2>1, <2>4 DEF Pointer
<1> QED BY <1>1, <1>2, <1>3, <1>4

(* A whole table of byte code gives its types to try_table_s5.             *)
LEMMA TableStates ==
    ASSUME PlatformsAssumption, platform \in Platforms, Sound,
           NEW a, Table(a).sig \in {"SSDT", "DSDT"}
    PROVE  FindsS5(Table(a))
<1>1. a \in DOMAIN platform.tables /\ Table(a) = platform.tables[a]
  BY DEF Table, Blank
<1>2. Table(a).cut = 0
  BY <1>1 DEF Sound
<1>3. Table(a).code \in Code /\ MeansTerms(Table(a))
  BY <1>1, <1>2 DEF PlatformsAssumption, Code
<1> QED BY <1>3, FoundS5

LEMMA FacpStates ==
    ASSUME PlatformsAssumption, platform \in Platforms, Sound,
           NEW a, Table(a).sig = "FACP"
    PROVE  DsdtAt(Table(a)) \in Nat /\ Dsdt(Table(a)) = DsdtAt(Table(a))
<1>1. a \in DOMAIN platform.tables /\ Table(a) = platform.tables[a]
  BY DEF Table, Blank
<1> DEFINE t == Table(a)
<1>2. /\ t.dsdt \in Nat /\ t.x_dsdt \in Nat /\ t.long \in BOOLEAN
      /\ t.dsdt < Wide /\ t.x_dsdt < Wide
  BY <1>1 DEF PlatformsAssumption, Sound
<1> HIDE DEF t
<1>3. DsdtAt(t) \in Nat /\ DsdtAt(t) < Wide
  BY <1>2 DEF DsdtAt
<1>4. Dsdt(t) = DsdtAt(t) % Wide
  BY DEF Dsdt, DsdtAt
<1>5. \A x \in Nat : x < Wide => x % Wide = x
  BY WideAssumption
<1> QED BY <1>3, <1>4, <1>5 DEF t

(* What try_table_s5 leaves.                                               *)
LEMMA TableTried ==
    ASSUME NEW t, FindsS5(t), try_table_s5(t), have_s5 \in BOOLEAN
    PROVE  /\ have_s5' \in BOOLEAN
           /\ have_s5 \/ Packages(t) = {} => UNCHANGED <<slp_typa, slp_typb, have_s5>>
           /\ ~ have_s5 /\ Packages(t) # {} => have_s5' = TRUE /\ <<slp_typa', slp_typb'>> = TypesOf(t)
<1> DEFINE r == find_s5(t.code)
<1>1. /\ r.ok <=> Packages(t) # {}
      /\ r.ok => <<r.a, r.b>> = S5Of(t)
  BY DEF FindsS5
<1>2. IF have_s5 \/ ~r.ok
      THEN UNCHANGED <<slp_typa, slp_typb, have_s5>>
      ELSE /\ slp_typa' = IF r.a = 0 /\ r.b = 0 THEN 5 ELSE r.a
           /\ slp_typb' = IF r.a = 0 /\ r.b = 0 THEN 5 ELSE r.b
           /\ have_s5' = TRUE
  BY DEF try_table_s5
<1> HIDE DEF r
<1>3. ASSUME ~ have_s5, Packages(t) # {}
      PROVE  have_s5' = TRUE /\ <<slp_typa', slp_typb'>> = TypesOf(t)
  <2>1. S5Of(t) = <<r.a, r.b>>
    BY <1>1, <1>3
  <2>2. /\ slp_typa' = IF r.a = 0 /\ r.b = 0 THEN 5 ELSE r.a
        /\ slp_typb' = IF r.a = 0 /\ r.b = 0 THEN 5 ELSE r.b
        /\ have_s5' = TRUE
    BY <1>1, <1>2, <1>3
  <2>3. S5Of(t) = <<0, 0>> <=> r.a = 0 /\ r.b = 0
    BY <2>1
  <2> QED BY <2>1, <2>2, <2>3 DEF TypesOf
<1>4. ASSUME have_s5 \/ Packages(t) = {} PROVE UNCHANGED <<slp_typa, slp_typb, have_s5>>
  BY <1>1, <1>2, <1>4
<1> QED BY <1>3, <1>4

LEMMA AcpiStart == AcpiInit /\ PlatformsAssumption => AcpiInv
<1> SUFFICES ASSUME AcpiInit, PlatformsAssumption PROVE AcpiInv
  OBVIOUS
<1>1. platform \in Platforms /\ acpi_pc = "rsdp" /\ rsdp = 1 /\ entry = 1 /\ dsdt_phys = 0 /\ Defaults
  BY DEF AcpiInit, Defaults
<1>2. Good \subseteq 1 .. Len(Area) /\ Area \in Seq(Pointers)
  BY <1>1, AreaFacts
<1>3. \A x \in Good : 1 <= x
  BY <1>2
<1> QED BY <1>1, <1>3 DEF AcpiInv, S5Right

\* The walk that finds no table leaves what the tables, of which there are
\* none, state.
LEMMA NothingListed ==
    ASSUME Listed = <<>> PROVE Sleep = <<5, 5>>
<1>1. Stating = {} /\ Facps = {}
  BY DEF Stating, Facps
<1> QED BY <1>1 DEF Sleep

LEMMA FindRsdpInv == ASSUME PlatformsAssumption, AcpiInv, find_rsdp PROVE AcpiInv'
<1>1. /\ platform \in Platforms /\ acpi_pc = "rsdp" /\ rsdp \in Nat \ {0} /\ entry = 1 /\ dsdt_phys = 0
      /\ Defaults /\ \A x \in Good : rsdp <= x
  BY DEF AcpiInv, find_rsdp
<1>2. FixedPlatform /\ entry' = 1 /\ dsdt_phys' = 0 /\ Defaults' /\ platform' \in Platforms
  BY <1>1 DEF find_rsdp, FixedPlatform, found, Defaults
<1>3. Area \in Seq(Pointers) /\ Good \subseteq 1 .. Len(Area) /\ Len(Area) \in Nat
  BY <1>1, AreaFacts
<1>4. Good' = Good /\ Sleep' = Sleep
  BY <1>2, SamePlatform
<1>5. CASE rsdp > Len(Area)
  <2>1. acpi_pc' = "up"
    BY <1>5 DEF find_rsdp
  <2>2. Good = {}
    BY <1>1, <1>3, <1>5
  <2>3. Sleep = <<5, 5>>
    BY <2>2, NothingListed DEF Listed
  <2>4. slp_typa' = 5 /\ slp_typb' = 5
    BY <1>2 DEF Defaults
  <2> QED BY <1>2, <1>4, <2>1, <2>3, <2>4 DEF AcpiInv, S5Right
<1>6. CASE ~ (rsdp > Len(Area)) /\ Area[rsdp].sig /\ Area[rsdp].sum = 0
  <2>1. acpi_pc' = "root" /\ rsdp' = rsdp
    BY <1>6 DEF find_rsdp
  <2>2. rsdp \in Good
    BY <1>1, <1>3, <1>6 DEF Good, Valid
  <2> QED BY <1>1, <1>2, <1>4, <2>1, <2>2 DEF AcpiInv, S5Right, Least
<1>7. CASE ~ (rsdp > Len(Area)) /\ ~ (Area[rsdp].sig /\ Area[rsdp].sum = 0)
  <2>1. acpi_pc' = "rsdp" /\ rsdp' = rsdp + 1
    BY <1>1, <1>7 DEF find_rsdp
  <2>2. rsdp \notin Good
    BY <1>7 DEF Good, Valid
  <2>3. ASSUME NEW x \in Good PROVE rsdp + 1 <= x
    <3>1. x \in Nat /\ rsdp <= x /\ rsdp # x
      BY <1>1, <1>3, <2>2
    <3> QED BY <1>1, <3>1
  <2>4. rsdp' \in Nat \ {0} /\ \A x \in Good' : rsdp' <= x
    BY <1>1, <1>4, <2>1, <2>3
  <2> QED BY <1>2, <2>1, <2>4 DEF AcpiInv, S5Right
<1> QED BY <1>5, <1>6, <1>7

\* The table that the first valid pointer names, and its length.
LEMMA RootThere ==
    ASSUME PlatformsAssumption, platform \in Platforms, Sound, NEW x, Least(x, Good)
    PROVE  /\ Pointer = Area[x] /\ Pointer \in Pointers
           /\ RootOf(Pointer) \in Nat /\ RootOf(Pointer) < Wide
           /\ Root.sig \in {"RSDT", "XSDT"} =>
                 /\ Root.entries \in Seq(Nat)
                 /\ Root.length = (IF Extended(Pointer) THEN 8 ELSE 4) * Len(Root.entries)
<1> DEFINE a == RootOf(Pointer)
<1>1. /\ Area \in Seq(Pointers) /\ Good \subseteq 1 .. Len(Area)
      /\ Pointer = Area[x] /\ x \in Good /\ x \in 1 .. Len(Area)
  BY AreaFacts DEF Least
<1>2. Pointer \in Pointers /\ Valid(Pointer)
  BY <1>1, ElementOfSeq DEF Good
<1>3. a \in Nat /\ a < Wide
  BY <1>1, <1>2 DEF Sound, RootOf, Pointers
<1>4. ASSUME Root.sig \in {"RSDT", "XSDT"}
      PROVE  /\ Root.entries \in Seq(Nat)
             /\ Root.length = (IF Extended(Pointer) THEN 8 ELSE 4) * Len(Root.entries)
  <2>1. a \in DOMAIN platform.tables /\ Root = platform.tables[a]
    BY <1>4 DEF Root, Table, Blank
  <2>2. x \in DOMAIN (platform.ebda \o platform.bios) /\ (platform.ebda \o platform.bios)[x] = Pointer
    <3>1. x \in DOMAIN Area /\ Area[x] = Pointer
      BY <1>1
    <3> QED BY <3>1 DEF Area
  <2> HIDE DEF a
  <2>3. Root.entries \in Seq(Nat)
    BY <1>4, <2>1 DEF PlatformsAssumption
  <2>4. Valid(Pointer) /\ RootOf(Pointer) \in DOMAIN platform.tables
        /\ platform.tables[RootOf(Pointer)].sig \in {"RSDT", "XSDT"} =>
            platform.tables[RootOf(Pointer)].length
              = (IF Extended(Pointer) THEN 8 ELSE 4) * Len(platform.tables[RootOf(Pointer)].entries)
    BY <2>2 DEF PlatformsAssumption
  <2> QED BY <1>2, <1>4, <2>1, <2>3, <2>4 DEF a
<1> QED BY <1>1, <1>2, <1>3, <1>4

LEMMA ReadRootInv == ASSUME PlatformsAssumption, AcpiInv, ReadRoot PROVE AcpiInv'
<1> DEFINE r   == Area[rsdp]
           ext == r.revision >= 2 /\ r.xsdt # 0
           at  == IF ext THEN r.xsdt % Wide ELSE r.rsdt
<1>1. /\ platform \in Platforms /\ acpi_pc = "root" /\ Least(rsdp, Good)
      /\ entry = 1 /\ dsdt_phys = 0 /\ Defaults
  BY DEF AcpiInv, ReadRoot
<1>2. FixedPlatform /\ entry' = 1 /\ dsdt_phys' = 0 /\ Defaults' /\ platform' \in Platforms
  BY <1>1 DEF ReadRoot, FixedPlatform, Defaults
<1>3. /\ IF Table(at).sig \notin {"RSDT", "XSDT"}
         THEN acpi_pc' = "up"
         ELSE acpi_pc' = "tables" /\ sdt' = at /\ entry_size' = IF ext THEN 8 ELSE 4
  BY DEF ReadRoot
<1>4. /\ Sound' = Sound /\ Sleep' = Sleep /\ Good' = Good /\ Root' = Root /\ Pointer' = Pointer
      /\ Listed' = Listed /\ Stating' = Stating /\ Facps' = Facps /\ \A b : Table(b)' = Table(b)
  BY <1>2, SamePlatform
<1> HIDE DEF r, ext, at
<1>5. acpi_pc' \in {"up", "tables"}
  BY <1>3
<1>6. CASE ~ Sound
  BY <1>2, <1>4, <1>5, <1>6 DEF AcpiInv, S5Right
<1>7. CASE Sound
  <2>1. /\ Pointer = r /\ Pointer \in Pointers
        /\ RootOf(Pointer) \in Nat /\ RootOf(Pointer) < Wide
        /\ Root.sig \in {"RSDT", "XSDT"} =>
              /\ Root.entries \in Seq(Nat)
              /\ Root.length = (IF Extended(Pointer) THEN 8 ELSE 4) * Len(Root.entries)
    BY <1>1, <1>7, RootThere DEF r
  <2>2. ext = Extended(Pointer) /\ at = RootOf(Pointer)
    <3>1. \A x \in Nat : x < Wide => x % Wide = x
      BY WideAssumption
    <3> QED BY <2>1, <3>1 DEF ext, at, Extended, RootOf, Pointers
  <2>3. Table(at) = Root
    BY <2>2 DEF Root
  <2>4. Good # {}
    BY <1>1 DEF Least
  <2>5. CASE Root.sig \notin {"RSDT", "XSDT"}
    <3>1. acpi_pc' = "up"
      BY <1>3, <2>3, <2>5
    <3>2. Sleep = <<5, 5>>
      BY <2>5, NothingListed DEF Listed
    <3> QED BY <1>2, <1>4, <3>1, <3>2 DEF AcpiInv, S5Right, Defaults
  <2>6. CASE Root.sig \in {"RSDT", "XSDT"}
    <3>1. acpi_pc' = "tables" /\ sdt' = at /\ entry_size' = IF Extended(Pointer) THEN 8 ELSE 4
      BY <1>3, <2>2, <2>3, <2>6
    <3>2. Entries' = Len(Root.entries)
      <4>1. Table(sdt)' = Root
        BY <1>2, <2>3, <3>1 DEF Table, FixedPlatform
      <4>2. Entries' = Root.length \div entry_size'
        BY <4>1 DEF Entries
      <4>3. Len(Root.entries) \in Nat
        BY <2>1, <2>6
      <4>4. \A n \in Nat : (8 * n) \div 8 = n /\ (4 * n) \div 4 = n
        OBVIOUS
      <4> QED BY <2>1, <2>6, <3>1, <4>2, <4>3, <4>4
    <3>3. \A k \in Stating \cup Facps : k \in Nat /\ k >= 1
      <4>1. Listed = [k \in DOMAIN Root.entries |-> Table(Root.entries[k])]
        BY <2>4, <2>6 DEF Listed
      <4> QED BY <2>1, <2>6, <4>1 DEF Stating, Facps
    <3>4. TypesTo(1)' /\ DsdtTo(1)'
      <4>1. have_s5' = FALSE /\ dsdt_phys' = 0
        BY <1>2 DEF Defaults
      <4>2. \A k \in Stating' \cup Facps' : ~ (k < 1)
        BY <1>4, <3>3
      <4> QED BY <1>2, <4>1, <4>2 DEF TypesTo, DsdtTo
    <3>5. 1 \in 1 .. Len(Root.entries) + 1
      BY <2>1, <2>6
    <3>6. /\ acpi_pc' = "tables" /\ Good' # {} /\ Root'.sig \in {"RSDT", "XSDT"}
          /\ sdt' = RootOf(Pointer') /\ Entries' = Len(Root'.entries)
          /\ entry' \in 1 .. Len(Root'.entries) + 1
          /\ TypesTo(entry)' /\ DsdtTo(entry)'
      BY <1>2, <1>4, <2>2, <2>4, <2>6, <3>1, <3>2, <3>4, <3>5
    <3> QED BY <1>2, <3>6 DEF AcpiInv, S5Right
  <2> QED BY <2>5, <2>6
<1> QED BY <1>6, <1>7

\* Positions in the root table are numbers.
LEMMA ListedFacts ==
    ASSUME PlatformsAssumption, platform \in Platforms, Sound,
           Good # {}, Root.sig \in {"RSDT", "XSDT"}
    PROVE  /\ Root.entries \in Seq(Nat) /\ Len(Root.entries) \in Nat
           /\ DOMAIN Listed = 1 .. Len(Root.entries)
           /\ \A k \in 1 .. Len(Root.entries) : Listed[k] = Table(Root.entries[k])
           /\ Stating \subseteq Nat /\ Facps \subseteq Nat
<1>1. Good \subseteq Nat
  BY AreaFacts
<1>2. PICK x \in Good : \A y \in Good : x <= y
  BY <1>1, Minimum
<1>3. Least(x, Good)
  BY <1>2 DEF Least
<1>4. Root.entries \in Seq(Nat)
  BY <1>3, RootThere
<1>5. Listed = [k \in DOMAIN Root.entries |-> Table(Root.entries[k])]
  BY DEF Listed
<1>6. DOMAIN Root.entries = 1 .. Len(Root.entries) /\ Len(Root.entries) \in Nat
  BY <1>4
<1> QED BY <1>4, <1>5, <1>6 DEF Stating, Facps

LEMMA NextTypes ==
    ASSUME PlatformsAssumption, platform \in Platforms, Sound, FixedPlatform,
           Good # {}, Root.sig \in {"RSDT", "XSDT"},
           NEW e \in 1 .. Len(Root.entries), TypesTo(e),
           IF Listed[e].sig = "SSDT" THEN try_table_s5(Listed[e])
           ELSE UNCHANGED <<slp_typa, slp_typb, have_s5>>
    PROVE  TypesTo(e + 1)'
<1>1. /\ Listed[e] = Table(Root.entries[e]) /\ e \in DOMAIN Listed /\ Stating \subseteq Nat /\ e \in Nat
  BY ListedFacts
<1>2. Listed' = Listed /\ Stating' = Stating
  BY SamePlatform
<1>3. /\ have_s5 \in BOOLEAN
      /\ have_s5 <=> \E k \in Stating : k < e
      /\ ~ have_s5 => Defaults
      /\ \A k \in Stating : Least(k, Stating) /\ k < e => <<slp_typa, slp_typb>> = TypesOf(Listed[k])
  BY DEF TypesTo
<1>4. CASE e \notin Stating
  <2>1. UNCHANGED <<slp_typa, slp_typb, have_s5>>
    <3>1. CASE Listed[e].sig = "SSDT"
      <4>1. Packages(Listed[e]) = {}
        BY <1>1, <1>4, <3>1 DEF Stating
      <4>2. FindsS5(Listed[e])
        BY <1>1, <3>1, TableStates
      <4> QED BY <1>3, <3>1, <4>1, <4>2, TableTried
    <3> QED BY <3>1
  <2>2. ASSUME NEW k \in Stating PROVE k < e + 1 <=> k < e
    <3>1. k \in Nat /\ k # e
      BY <1>1, <1>4
    <3> QED BY <1>1, <3>1
  <2>3. TypesTo(e)' /\ TypesTo(e)' = TypesTo(e + 1)'
    <3>1. Defaults' = Defaults
      BY <2>1 DEF Defaults
    <3>2. TypesTo(e)'
      BY <1>2, <1>3, <2>1, <3>1 DEF TypesTo
    <3> QED BY <1>2, <2>2, <3>2 DEF TypesTo
  <2> QED BY <2>3
<1>5. CASE e \in Stating
  <2>1. /\ Listed[e].sig = "SSDT" /\ Packages(Listed[e]) # {}
        /\ FindsS5(Listed[e]) /\ try_table_s5(Listed[e])
    BY <1>1, <1>5, TableStates DEF Stating
  <2>2. /\ have_s5 => UNCHANGED <<slp_typa, slp_typb, have_s5>>
        /\ ~ have_s5 => have_s5' = TRUE /\ <<slp_typa', slp_typb'>> = TypesOf(Listed[e])
    BY <1>3, <2>1, TableTried
  <2>3. have_s5' = TRUE
    BY <1>3, <2>2, Zenon
  <2>4. ASSUME NEW k \in Stating, Least(k, Stating), k < e + 1
        PROVE  <<slp_typa', slp_typb'>> = TypesOf(Listed[k])
    <3>1. k \in Nat /\ k <= e
      BY <1>1, <1>5, <2>4 DEF Least
    <3>2. CASE have_s5
      <4>1. PICK x \in Stating : x < e
        BY <1>3, <3>2
      <4>2. k <= x /\ x \in Nat
        BY <1>1, <2>4, <4>1 DEF Least
      <4>3. k < e
        BY <1>1, <3>1, <4>1, <4>2
      <4> QED BY <1>3, <2>2, <2>4, <3>2, <4>3
    <3>3. CASE ~ have_s5
      <4>1. ~ (k < e)
        BY <1>3, <3>3
      <4>2. k = e
        BY <1>1, <3>1, <4>1
      <4> QED BY <2>2, <3>3, <4>2
    <3> QED BY <3>2, <3>3
  <2>5. e < e + 1
    BY <1>1
  <2> QED BY <1>2, <1>5, <2>3, <2>4, <2>5 DEF TypesTo, Least
<1> QED BY <1>4, <1>5

LEMMA NextDsdt ==
    ASSUME PlatformsAssumption, platform \in Platforms, Sound, FixedPlatform,
           Good # {}, Root.sig \in {"RSDT", "XSDT"},
           NEW e \in 1 .. Len(Root.entries), DsdtTo(e),
           IF Listed[e].sig = "FACP" THEN dsdt_phys' = Dsdt(Listed[e]) ELSE UNCHANGED dsdt_phys
    PROVE  DsdtTo(e + 1)'
<1>1. /\ Listed[e] = Table(Root.entries[e]) /\ e \in DOMAIN Listed /\ Facps \subseteq Nat /\ e \in Nat
  BY ListedFacts
<1>2. Listed' = Listed /\ Facps' = Facps
  BY SamePlatform
<1>3. CASE e \notin Facps
  <2>1. dsdt_phys' = dsdt_phys
    BY <1>1, <1>3 DEF Facps
  <2>2. ASSUME NEW k \in Facps PROVE (k < e + 1 <=> k < e) /\ (k >= e + 1 <=> k >= e)
    <3>1. k \in Nat /\ k # e
      BY <1>1, <1>3
    <3> QED BY <1>1, <3>1
  <2>3. DsdtTo(e + 1)
    BY <2>2 DEF DsdtTo
  <2> QED BY <1>2, <2>1, <2>3 DEF DsdtTo
<1>4. CASE e \in Facps
  <2>1. dsdt_phys' = DsdtAt(Listed[e])
    BY <1>1, <1>4, FacpStates DEF Facps
  <2>2. ~ (e >= e + 1)
    BY <1>1
  <2>3. ASSUME NEW k \in Facps, k < e + 1, \A x \in Facps : x <= k \/ x >= e + 1 PROVE k = e
    BY <1>1, <1>4, <2>3
  <2> QED BY <1>2, <1>4, <2>1, <2>2, <2>3 DEF DsdtTo
<1> QED BY <1>3, <1>4

LEMMA NextTableInv == ASSUME PlatformsAssumption, AcpiInv, NextTable PROVE AcpiInv'
<1>1. platform \in Platforms /\ acpi_pc = "tables" /\ FixedPlatform /\ platform' \in Platforms
  BY DEF AcpiInv, NextTable, FixedPlatform
<1>2. /\ Sound' = Sound /\ Sleep' = Sleep /\ Good' = Good /\ Root' = Root /\ Pointer' = Pointer
      /\ Listed' = Listed /\ Stating' = Stating /\ Facps' = Facps /\ \A b : Table(b)' = Table(b)
  BY <1>1, SamePlatform
<1>3. acpi_pc' \in {"tables", "dsdt"} /\ sdt' = sdt /\ entry_size' = entry_size
  BY <1>1 DEF NextTable
<1>4. CASE ~ Sound
  BY <1>1, <1>2, <1>3, <1>4 DEF AcpiInv, S5Right
<1>5. CASE Sound
  <2>1. /\ Good # {} /\ Root.sig \in {"RSDT", "XSDT"}
        /\ sdt = RootOf(Pointer) /\ Entries = Len(Root.entries)
        /\ entry \in 1 .. Len(Root.entries) + 1
        /\ TypesTo(entry) /\ DsdtTo(entry)
    BY <1>1, <1>5 DEF AcpiInv
  <2>2. /\ Len(Root.entries) \in Nat
        /\ \A k \in 1 .. Len(Root.entries) : Listed[k] = Table(Root.entries[k])
    BY <1>1, <1>5, <2>1, ListedFacts
  <2>3. Entries' = Len(Root.entries) /\ Table(sdt) = Root
    BY <1>2, <1>3, <2>1 DEF Entries, Root
  <2>4. CASE entry > Entries
    <3>1. acpi_pc' = "dsdt" /\ entry' = entry /\ dsdt_phys' = dsdt_phys /\ found' = found
      BY <2>4 DEF NextTable
    <3>2. entry = Len(Root.entries) + 1
      BY <2>1, <2>2, <2>4
    <3>3. Defaults' = Defaults
      BY <3>1 DEF Defaults, found
    <3>4. TypesTo(entry)' /\ DsdtTo(entry)'
      BY <1>2, <2>1, <3>1, <3>3 DEF TypesTo, DsdtTo, found
    <3>5. entry' \in 1 .. Len(Root'.entries) + 1 /\ entry' = Len(Root'.entries) + 1
      BY <1>2, <2>1, <3>1, <3>2
    <3> QED BY <1>1, <1>2, <1>3, <2>1, <2>3, <3>1, <3>4, <3>5 DEF AcpiInv, S5Right
  <2>5. CASE entry <= Entries
    <3> DEFINE t == Table(Table(sdt).entries[entry])
    <3>1. entry \in 1 .. Len(Root.entries) /\ ~ (entry > Entries)
      BY <2>1, <2>2, <2>5
    <3>2. t = Listed[entry]
      BY <2>2, <2>3, <3>1
    <3>3. /\ entry' = entry + 1 /\ acpi_pc' = "tables"
          /\ IF t.sig = "FACP" THEN dsdt_phys' = Dsdt(t) ELSE UNCHANGED dsdt_phys
          /\ IF t.sig = "SSDT" THEN try_table_s5(t) ELSE UNCHANGED <<slp_typa, slp_typb, have_s5>>
      BY <1>1, <3>1 DEF NextTable
    <3> HIDE DEF t
    <3>4. PICK e \in 1 .. Len(Root.entries) : e = entry
      BY <3>1
    <3>5. TypesTo(e) /\ DsdtTo(e) /\ t = Listed[e]
      BY <2>1, <3>2, <3>4
    <3>6. TypesTo(e + 1)'
      BY <1>1, <1>5, <2>1, <3>3, <3>5, NextTypes
    <3>7. DsdtTo(e + 1)'
      BY <1>1, <1>5, <2>1, <3>3, <3>5, NextDsdt
    <3>8. entry' = e + 1
      BY <3>3, <3>4
    <3>9. TypesTo(entry)' /\ DsdtTo(entry)'
      BY <3>6, <3>7, <3>8 DEF TypesTo, DsdtTo
    <3>10. entry' \in 1 .. Len(Root'.entries) + 1
      BY <1>2, <2>2, <3>1, <3>3
    <3> QED BY <1>1, <1>2, <1>3, <2>1, <2>3, <3>3, <3>9, <3>10 DEF AcpiInv, S5Right
  <2>6. entry > Entries \/ entry <= Entries
    BY <2>1, <2>2
  <2> QED BY <2>4, <2>5, <2>6
<1> QED BY <1>4, <1>5

\* The last of the FACPs.
LEMMA LastThere ==
    ASSUME NEW n \in Nat, NEW S, S \subseteq 1 .. n, S # {}
    PROVE  \E k \in S : \A x \in S : x <= k
<1> DEFINE T == {d \in 0 .. n : n - d \in S}
<1>1. T # {}
  <2>1. PICK k \in S : TRUE
    OBVIOUS
  <2>2. k \in 1 .. n /\ n - (n - k) = k /\ n - k \in 0 .. n
    OBVIOUS
  <2>3. n - k \in T
    BY <2>1, <2>2
  <2> QED BY <2>3
<1>2. PICK d \in T : \A y \in T : d <= y
  <2>1. T \subseteq Nat
    OBVIOUS
  <2> HIDE DEF T
  <2> QED BY <1>1, <2>1, Minimum
<1>3. n - d \in S /\ d \in 0 .. n
  BY <1>2
<1>4. ASSUME NEW x \in S PROVE x <= n - d
  <2>1. x \in 1 .. n /\ n - (n - x) = x /\ n - x \in 0 .. n
    OBVIOUS
  <2>2. n - x \in T
    BY <2>1
  <2>3. d <= n - x
    BY <1>2, <2>2
  <2> QED BY <1>3, <2>1, <2>3
<1> QED BY <1>3, <1>4

LEMMA ReadDsdtInv == ASSUME PlatformsAssumption, AcpiInv, ReadDsdt PROVE AcpiInv'
<1>1. /\ platform \in Platforms /\ acpi_pc = "dsdt" /\ FixedPlatform /\ platform' \in Platforms
      /\ acpi_pc' = "up"
  BY DEF AcpiInv, ReadDsdt, FixedPlatform
<1>2. Sound' = Sound /\ Sleep' = Sleep
  BY <1>1, SamePlatform
<1>3. IF dsdt_phys # 0 /\ Table(dsdt_phys).sig = "DSDT"
      THEN try_table_s5(Table(dsdt_phys))
      ELSE UNCHANGED <<slp_typa, slp_typb, have_s5>>
  BY DEF ReadDsdt
<1>4. ASSUME Sound PROVE <<slp_typa', slp_typb'>> = Sleep
  <2>1. /\ Good # {} /\ Root.sig \in {"RSDT", "XSDT"}
        /\ entry = Len(Root.entries) + 1
        /\ TypesTo(entry) /\ DsdtTo(entry)
    BY <1>1, <1>4 DEF AcpiInv
  <2>2. Len(Root.entries) \in Nat /\ DOMAIN Listed = 1 .. Len(Root.entries)
    BY <1>1, <1>4, <2>1, ListedFacts
  <2>3. Stating \subseteq 1 .. Len(Root.entries) /\ Facps \subseteq 1 .. Len(Root.entries)
    BY <2>2 DEF Stating, Facps
  <2>4. \A k \in Stating \cup Facps : k < entry /\ ~ (k >= entry)
    BY <2>1, <2>2, <2>3
  <2>5. /\ have_s5 \in BOOLEAN
        /\ have_s5 <=> Stating # {}
        /\ ~ have_s5 => Defaults
        /\ \A k \in Stating : Least(k, Stating) => <<slp_typa, slp_typb>> = TypesOf(Listed[k])
    BY <2>1, <2>4 DEF TypesTo
  <2>6. /\ Facps = {} => dsdt_phys = 0
        /\ \A k \in Facps : (\A x \in Facps : x <= k) => dsdt_phys = DsdtAt(Listed[k])
    BY <2>1, <2>4 DEF DsdtTo
  <2>7. Table(dsdt_phys).sig = "DSDT" => FindsS5(Table(dsdt_phys))
    BY <1>1, <1>4, TableStates
  <2>8. CASE have_s5
    <3>1. <<slp_typa', slp_typb'>> = <<slp_typa, slp_typb>>
      BY <1>3, <2>5, <2>7, <2>8, TableTried
    <3>2. \E k \in Stating : \A x \in Stating : k <= x
      <4>1. Stating \subseteq Nat
        BY <2>2, <2>3
      <4>2. Stating # {}
        BY <2>5, <2>8
      <4> QED BY <4>1, <4>2, Minimum
    <3> DEFINE k == CHOOSE k \in Stating : \A x \in Stating : k <= x
    <3>3. Least(k, Stating)
      BY <3>2 DEF Least
    <3>4. Sleep = TypesOf(Listed[k])
      BY <2>5, <2>8 DEF Sleep
    <3> HIDE DEF k
    <3>5. <<slp_typa, slp_typb>> = TypesOf(Listed[k])
      BY <2>5, <3>3 DEF Least
    <3> QED BY <3>1, <3>4, <3>5
  <2>9. CASE ~ have_s5
    <3>1. Stating = {} /\ slp_typa = 5 /\ slp_typb = 5
      BY <2>5, <2>9 DEF Defaults
    <3>2. Sleep = IF Facps # {} /\ DsdtOf.sig = "DSDT" /\ Packages(DsdtOf) # {} THEN TypesOf(DsdtOf) ELSE <<5, 5>>
      BY <3>1 DEF Sleep
    <3>3. CASE Facps = {}
      BY <1>3, <2>6, <3>1, <3>2, <3>3
    <3>4. CASE Facps # {}
      <4>1. \E k \in Facps : \A x \in Facps : x <= k
        BY <2>2, <2>3, <3>4, LastThere
      <4> DEFINE k == CHOOSE k \in Facps : \A x \in Facps : x <= k
      <4>2. k \in Facps /\ \A x \in Facps : x <= k
        BY <4>1
      <4>3. LastFacp = Listed[k]
        BY DEF LastFacp
      <4> HIDE DEF k
      <4>4. DsdtOf = Table(dsdt_phys)
        BY <2>6, <4>2, <4>3 DEF DsdtOf, DsdtAt
      <4>5. Table(dsdt_phys).sig = "DSDT" => dsdt_phys # 0
        BY <1>1 DEF Table, Blank, PlatformsAssumption
      <4>6. CASE Table(dsdt_phys).sig = "DSDT"
        <5>1. FindsS5(Table(dsdt_phys)) /\ try_table_s5(Table(dsdt_phys))
          BY <1>3, <2>7, <4>5, <4>6
        <5>2. /\ Packages(Table(dsdt_phys)) = {} => UNCHANGED <<slp_typa, slp_typb, have_s5>>
              /\ Packages(Table(dsdt_phys)) # {} => <<slp_typa', slp_typb'>> = TypesOf(Table(dsdt_phys))
          BY <2>5, <2>9, <5>1, TableTried
        <5> QED BY <3>1, <3>2, <3>4, <4>4, <4>6, <5>2
      <4>7. CASE Table(dsdt_phys).sig # "DSDT"
        BY <1>3, <3>1, <3>2, <4>4, <4>7
      <4> QED BY <4>6, <4>7
    <3> QED BY <3>3, <3>4
  <2> QED BY <2>5, <2>8, <2>9
<1> QED BY <1>1, <1>2, <1>4 DEF AcpiInv, S5Right

LEMMA AcpiKept ==
    ASSUME PlatformsAssumption, AcpiInv, [AcpiNext]_acpiVars
    PROVE  AcpiInv'
<1>1. CASE find_rsdp
  BY <1>1, FindRsdpInv
<1>2. CASE ReadRoot
  BY <1>2, ReadRootInv
<1>3. CASE NextTable
  BY <1>3, NextTableInv
<1>4. CASE ReadDsdt
  BY <1>4, ReadDsdtInv
<1>5. CASE acpi_shutdown \/ acpi_reboot \/ Ending
  <2>1. platform' = platform /\ acpi_pc' \notin {"rsdp", "root", "tables", "dsdt", "up"}
    BY <1>5 DEF acpi_shutdown, acpi_reboot, Ending, WritePort604, WritePortB004, WaitController,
                PulseReset, TripleFault
  <2> QED BY <2>1 DEF AcpiInv, S5Right
<1>6. CASE UNCHANGED acpiVars
  <2>1. FixedPlatform
    BY <1>6 DEF acpiVars, FixedPlatform
  <2>2. /\ Sound' = Sound /\ Sleep' = Sleep /\ Good' = Good /\ Root' = Root /\ Pointer' = Pointer
        /\ Listed' = Listed /\ Stating' = Stating /\ Facps' = Facps /\ \A b : Table(b)' = Table(b)
    BY <2>1, SamePlatform
  <2>3. Entries' = Entries /\ Defaults' = Defaults
    BY <1>6, <2>2 DEF acpiVars, Entries, Defaults
  <2>4. TypesTo(entry)' = TypesTo(entry) /\ DsdtTo(entry)' = DsdtTo(entry)
    BY <1>6, <2>2, <2>3 DEF acpiVars, TypesTo, DsdtTo
  <2>5. S5Right' = S5Right
    BY <1>6, <2>2 DEF acpiVars, S5Right
  <2> QED BY <1>6, <2>2, <2>3, <2>4, <2>5 DEF acpiVars, AcpiInv
<1> QED BY <1>1, <1>2, <1>3, <1>4, <1>5, <1>6 DEF AcpiNext

(* For every byte code that means its terms, every length that a header    *)
(* may state, and every state of the firmware's tables.                    *)
LEMMA InvSleepTypes == ASSUME PlatformsAssumption, AcpiInv PROVE SleepTypesRead
<1>1. platform \in Platforms /\ S5Right
  BY DEF AcpiInv
<1>2. platform.past \in 0 .. 255
  BY <1>1 DEF PlatformsAssumption
<1>3. ASSUME NEW a \in DOMAIN platform.tables, platform.tables[a].sig \in {"SSDT", "DSDT"},
             NEW o \in Occurrences(platform.tables[a].code)
      PROVE  Occurrence(platform.tables[a].code, o).top <= Len(platform.tables[a].code)
  <2>1. platform.tables[a].code \in Code
    BY <1>1, <1>3 DEF PlatformsAssumption, Code
  <2> QED BY <1>2, <1>3, <2>1, OneBehind
<1> QED BY <1>1, <1>3 DEF SleepTypesRead, ReadsOneBehind

LEMMA AcpiInvHolds == ASSUME PlatformsAssumption PROVE AcpiSpec => []AcpiInv
<1>1. AcpiInit => AcpiInv
  BY AcpiStart
<1>2. AcpiInv /\ [AcpiNext]_acpiVars => AcpiInv'
  BY AcpiKept
<1> QED BY <1>1, <1>2, PTL DEF AcpiSpec

(* smbios_init names the board as its table says, and acpi_init takes the  *)
(* sleep types that the ACPI tables state, whatever the firmware holds and *)
(* whichever of the two runs on.                                           *)
THEOREM FirmwareAlwaysRead ==
    ASSUME FirmwaresAssumption, PlatformsAssumption
    PROVE  SmbiosSpec /\ AcpiSpec => []FirmwareRead
<1>1. AcpiSpec => []AcpiInv
  BY AcpiInvHolds
<1>2. AcpiInv => SleepTypesRead
  BY InvSleepTypes
<1>3. SmbiosSpec => []BoardNamed
  BY BoardAlwaysNamed
<1>4. BoardNamed /\ SleepTypesRead => FirmwareRead
  BY DEF FirmwareRead
<1> QED BY <1>1, <1>2, <1>3, <1>4, PTL
================================================================================
