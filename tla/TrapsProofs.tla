------------------------------- MODULE TrapsProofs -----------------------------
(***************************************************************************)
(* Interrupt entry and return, for every set of lines, exceptions and int  *)
(* n: every stack that the stubs, the handlers and iretq meet has its      *)
(* frame where struct regs has it, and every interrupt of a device is      *)
(* counted and acknowledged once.  The invariant says what the kernel's    *)
(* stack holds at each point of the code, what kernel_main has set up      *)
(* after each of its steps, and what is in service.                        *)
(***************************************************************************)
EXTENDS Traps, SequenceTheorems, TLAPS

Names  == {"ss", "rsp", "rflags", "cs", "rip", "error", "vector"}
Values == {"", "0", "on", "off", "kernel", "user", "cli", "syscall"}
Word   == [name : Names, val : Values]

--------------------------------------------------------------------------------
(* What the kernel's stack holds *)

\* The words that the processor pushed above the first k.
Pushed(k, n) ==
    /\ Len(stack) = k + n
    /\ stack[k + 3].name = "rflags" /\ stack[k + 4].name = "cs" /\ stack[k + 5].name = "rip"
    /\ n > 5 => stack[k + 6].name = "error"
    /\ n > 6 => stack[k + 7].name = "vector"

\* The frame of a system call at the bottom of the stack.
CallFrame ==
    /\ stack[3].name = "rflags" /\ stack[4].name = "cs" /\ stack[5].name = "rip"
    /\ stack[6].name = "error" /\ stack[7].name = "vector"
    /\ stack[4].val = "user" /\ stack[5].val = "user"

\* A frame of n words that an entry left: on an empty stack it returns to the
\* program or to kernel_main, on that of a system call to its wait.
Entered(n) ==
    \/ /\ Pushed(0, n)
       /\ stack[4].val = stack[5].val /\ stack[5].val \in {"kernel", "user"}
       /\ pc \in {"stub", "exception"} /\ vec = 128 => stack[5].val = "user"
    \/ /\ Pushed(7, n) /\ CallFrame
       /\ stack[11].val = "kernel" /\ stack[12].val \in {"cli", "syscall"}
       /\ pc \in {"irq_dispatch", "handle", "iret"} \/ vec >= 32 => stack[12].val = "cli"
       /\ pc \in {"stub", "exception"} => vec # 128

StackInv ==
    /\ stack \in Seq(Word) /\ Len(stack) <= 14
    /\ ring = (IF pc = "user" THEN "user" ELSE "kernel")
    /\ pc \in {"kernel", "user"} => stack = <<>>
    /\ pc \in {"syscall", "hlt", "cli"} => Len(stack) = 7 /\ CallFrame
    /\ pc = "stub" => Entered(IF vec \in CpuError THEN 6 ELSE 5)
    /\ pc \in {"exception", "irq_dispatch", "handle", "iret"} => Entered(7)

--------------------------------------------------------------------------------
(* What kernel_main has set up, and what is in service *)

\* Vectors that an entry may have; it turns interrupts off.
VecInv ==
    /\ pc \in {"stub", "irq_dispatch"} => ~intr
    /\ pc = "stub" => vec \in 0 .. 79 \cup {128}
    /\ pc = "exception" => vec \in 0 .. 31 \cup {128}
    /\ pc = "irq_dispatch" => vec \in 32 .. 79

StepInv ==
    /\ pc # "kernel" => step > 3
    /\ intr \/ pc \in {"user", "syscall", "hlt", "cli", "irq_dispatch", "handle", "iret"} => step > 6
    /\ pc \in {"stub", "exception"} /\ vec >= 32 => step > 6
    /\ msi \/ (pc \in {"stub", "irq_dispatch"} /\ vec = USB_IRQ_VECTOR) => step > 7

SetUpInv ==
    /\ step > 3 => idt = [v \in Vectors |-> Gate(v)]
    /\ handler = (IF step <= 4 THEN {} ELSE IF step <= 7 THEN {32, 33} ELSE Handled)
    /\ step \in 3 .. 5 => mask = 0 .. 15
    /\ step > 5 => mask = (0 .. 15) \ {0, 1}
    /\ count \in [Handled -> Nat] /\ accepted \in [Handled -> Nat]
    /\ step <= 6 => \A v \in Handled : accepted[v] = 0
    /\ step <= 7 => accepted[USB_IRQ_VECTOR] = 0

\* The interrupt of vector v is taken and not acknowledged.
Taken(v) == pc \in {"stub", "irq_dispatch"} /\ vec = v

ServiceInv ==
    /\ isr = (IF Taken(32) THEN {0} ELSE IF Taken(33) THEN {1} ELSE {})
    /\ apic = (IF Taken(USB_IRQ_VECTOR) THEN {USB_IRQ_VECTOR} ELSE {})
    /\ \A v \in Handled : accepted[v] = IF Taken(v) THEN count[v] + 1 ELSE count[v]

IInv == TypeOK /\ StackInv /\ VecInv /\ StepInv /\ SetUpInv /\ ServiceInv

--------------------------------------------------------------------------------
(* The stack *)

(* Pushing leaves what is below, and puts the words above it.              *)
LEMMA Push ==
    ASSUME NEW s \in Seq(Word), NEW t \in Seq(Word)
    PROVE  /\ s \o t \in Seq(Word) /\ Len(s \o t) = Len(s) + Len(t)
           /\ Len(s) \in Nat /\ Len(t) \in Nat
           /\ \A j \in 1 .. Len(s) : (s \o t)[j] = s[j]
           /\ \A j \in 1 .. Len(t) : (s \o t)[Len(s) + j] = t[j]
<1>1. Len(s) \in Nat /\ Len(t) \in Nat
  OBVIOUS
<1>2. /\ s \o t \in Seq(Word) /\ Len(s \o t) = Len(s) + Len(t)
      /\ \A j \in 1 .. Len(s) + Len(t) : (s \o t)[j] = IF j <= Len(s) THEN s[j] ELSE t[j - Len(s)]
  BY ConcatProperties
<1> QED
  BY <1>1, <1>2

(* A sequence of one word.                                                 *)
LEMMA One ==
    ASSUME NEW a \in Word
    PROVE  <<a>> \in Seq(Word) /\ Len(<<a>>) = 1 /\ <<a>>[1] = a
  OBVIOUS

(* A sequence of five words.                                               *)
LEMMA Five ==
    ASSUME NEW a \in Word, NEW b \in Word, NEW c \in Word, NEW d \in Word, NEW e \in Word
    PROVE  /\ <<a, b, c, d, e>> \in Seq(Word) /\ Len(<<a, b, c, d, e>>) = 5
           /\ <<a, b, c, d, e>>[3] = c /\ <<a, b, c, d, e>>[4] = d /\ <<a, b, c, d, e>>[5] = e
  OBVIOUS

(* What the processor pushes: five words, or six with an error code.       *)
LEMMA CpuFrameIs ==
    ASSUME NEW v \in Nat, NEW rip \in Values, ring \in {"kernel", "user"}
    PROVE  /\ CpuFrame(v, rip) \in Seq(Word)
           /\ Len(CpuFrame(v, rip)) = IF v \in CpuError THEN 6 ELSE 5
           /\ CpuFrame(v, rip)[3].name = "rflags"
           /\ CpuFrame(v, rip)[4].name = "cs" /\ CpuFrame(v, rip)[4].val = ring
           /\ CpuFrame(v, rip)[5].name = "rip" /\ CpuFrame(v, rip)[5].val = rip
           /\ v \in CpuError => CpuFrame(v, rip)[6].name = "error"
<1> DEFINE ss == W("ss", "")
           rsp == W("rsp", "")
           rflags == W("rflags", Flag)
           cs == W("cs", ring)
           rp == W("rip", rip)
           error == W("error", "")
           five == <<ss, rsp, rflags, cs, rp>>
           code == IF v \in CpuError THEN <<error>> ELSE <<>>
<1>1. ss \in Word /\ rsp \in Word /\ error \in Word /\ error.name = "error"
  BY DEF W, Word, Names, Values
<1>2. rflags \in Word /\ rflags.name = "rflags"
  BY DEF W, Word, Names, Values, Flag
<1>3. cs \in Word /\ cs.name = "cs" /\ cs.val = ring
  BY DEF W, Word, Names, Values
<1>4. rp \in Word /\ rp.name = "rip" /\ rp.val = rip
  BY DEF W, Word, Names
<1>5. CpuFrame(v, rip) = five \o code
  BY DEF CpuFrame
<1> HIDE DEF ss, rsp, rflags, cs, rp, error
<1>6. five \in Seq(Word) /\ Len(five) = 5 /\ five[3] = rflags /\ five[4] = cs /\ five[5] = rp
  BY <1>1, <1>2, <1>3, <1>4, Five
<1>7. code \in Seq(Word) /\ Len(code) = (IF v \in CpuError THEN 1 ELSE 0) /\ (v \in CpuError => code[1] = error)
  BY <1>1, One
<1> HIDE DEF five, code
<1>8. /\ five \o code \in Seq(Word) /\ Len(five \o code) = Len(five) + Len(code)
      /\ \A j \in 1 .. Len(five) : (five \o code)[j] = five[j]
      /\ \A j \in 1 .. Len(code) : (five \o code)[Len(five) + j] = code[j]
  BY <1>6, <1>7, Push
<1>9. (five \o code)[3] = five[3] /\ (five \o code)[4] = five[4] /\ (five \o code)[5] = five[5]
  BY <1>6, <1>8
<1>10. v \in CpuError => (five \o code)[6] = code[1]
  BY <1>6, <1>7, <1>8
<1>11. Len(five \o code) = IF v \in CpuError THEN 6 ELSE 5
  BY <1>6, <1>7, <1>8
<1> QED
  BY <1>1, <1>2, <1>3, <1>4, <1>5, <1>6, <1>7, <1>8, <1>9, <1>10, <1>11

(* The stubs complete the frame: the error code, where the processor has   *)
(* pushed none, and the vector.                                            *)
LEMMA StubFrameIs ==
    ASSUME NEW v \in Nat
    PROVE  /\ StubFrame(v) \in Seq(Word)
           /\ Len(StubFrame(v)) = IF v \in CpuError THEN 1 ELSE 2
           /\ v \in CpuError => StubFrame(v)[1].name = "vector"
           /\ v \notin CpuError => StubFrame(v)[1].name = "error" /\ StubFrame(v)[2].name = "vector"
<1> DEFINE error == W("error", "0")
           vector == W("vector", "")
           code == IF v \in CpuError THEN <<>> ELSE <<error>>
           last == <<vector>>
<1>1. StubFrame(v) = code \o last
  BY DEF StubFrame, ISR_ERR, CpuError
<1>2. error \in Word /\ vector \in Word /\ error.name = "error" /\ vector.name = "vector"
  BY DEF W, Word, Names, Values
<1> HIDE DEF error, vector
<1>3. code \in Seq(Word) /\ Len(code) = (IF v \in CpuError THEN 0 ELSE 1) /\ (v \notin CpuError => code[1] = error)
  BY <1>2, One
<1>4. last \in Seq(Word) /\ Len(last) = 1 /\ last[1] = vector
  BY <1>2, One
<1> HIDE DEF code, last
<1>5. /\ code \o last \in Seq(Word) /\ Len(code \o last) = Len(code) + Len(last)
      /\ \A j \in 1 .. Len(code) : (code \o last)[j] = code[j]
      /\ \A j \in 1 .. Len(last) : (code \o last)[Len(code) + j] = last[j]
  BY <1>3, <1>4, Push
<1>6. v \in CpuError => (code \o last)[1] = last[1]
  BY <1>3, <1>4, <1>5
<1>7. v \notin CpuError => (code \o last)[1] = code[1] /\ (code \o last)[2] = last[1]
  BY <1>3, <1>4, <1>5
<1> QED
  BY <1>1, <1>2, <1>3, <1>4, <1>5, <1>6, <1>7
--------------------------------------------------------------------------------
(* Entry and return *)

(* The processor's entry, from the program, kernel_main, a system call or  *)
(* its wait, leaves the words of the frame above what was there.           *)
LEMMA DeliverStack ==
    ASSUME StackInv, NEW v \in Nat, NEW rip \in Values, Deliver(v, rip), idt[v].present,
           \/ pc \in {"kernel", "user"} /\ rip = pc /\ (v = 128 => pc = "user")
           \/ /\ pc \in {"hlt", "syscall"} /\ v # 128
              /\ rip \in {"cli", "syscall"} /\ (v >= 32 => rip = "cli")
    PROVE  StackInv'
<1> DEFINE n == IF v \in CpuError THEN 6 ELSE 5
           f == CpuFrame(v, rip)
<1>1. ring \in {"kernel", "user"} /\ stack \in Seq(Word)
  BY DEF StackInv
<1>2. /\ f \in Seq(Word) /\ Len(f) = n /\ f[3].name = "rflags"
      /\ f[4].name = "cs" /\ f[4].val = ring /\ f[5].name = "rip" /\ f[5].val = rip
      /\ n > 5 => f[6].name = "error"
  BY <1>1, CpuFrameIs
<1>3. n \in {5, 6}
  OBVIOUS
<1>4. pc' = "stub" /\ ring' = "kernel" /\ vec' = v
  BY DEF Deliver
<1>5. stack' = stack \o f
  BY <1>1 DEF Deliver, StackInv, rsp0
<1> HIDE DEF f, n
<1>6. /\ stack' \in Seq(Word) /\ Len(stack') = Len(stack) + n
      /\ \A j \in 1 .. Len(stack) : stack'[j] = stack[j]
      /\ \A j \in 1 .. n : stack'[Len(stack) + j] = f[j]
  BY <1>1, <1>2, <1>5, Push
<1>7. CASE pc \in {"kernel", "user"} /\ rip = pc /\ (v = 128 => pc = "user")
  <2>1. Len(stack) = 0 /\ ring = pc
    BY <1>7 DEF StackInv
  <2>2. stack'[3] = f[3] /\ stack'[4] = f[4] /\ stack'[5] = f[5] /\ (n > 5 => stack'[6] = f[6])
    BY <1>3, <1>6, <2>1
  <2>3. Len(stack') = n
    BY <1>3, <1>6, <2>1
  <2>4. Pushed(0, n)'
    BY <1>2, <1>3, <2>2, <2>3 DEF Pushed
  <2>5. /\ stack'[4].val = stack'[5].val /\ stack'[5].val \in {"kernel", "user"}
        /\ vec' = 128 => stack'[5].val = "user"
    BY <1>2, <1>4, <1>7, <2>1, <2>2
  <2>6. Entered(n)'
    BY <2>4, <2>5 DEF Entered
  <2> QED
    BY <1>3, <1>4, <1>6, <2>3, <2>6 DEF StackInv, n
<1>8. CASE /\ pc \in {"hlt", "syscall"} /\ v # 128
           /\ rip \in {"cli", "syscall"} /\ (v >= 32 => rip = "cli")
  <2>1. Len(stack) = 7 /\ CallFrame /\ ring = "kernel"
    BY <1>8 DEF StackInv
  <2>2. stack'[10] = f[3] /\ stack'[11] = f[4] /\ stack'[12] = f[5] /\ (n > 5 => stack'[13] = f[6])
    BY <1>3, <1>6, <2>1
  <2>3. stack'[3] = stack[3] /\ stack'[4] = stack[4] /\ stack'[5] = stack[5]
        /\ stack'[6] = stack[6] /\ stack'[7] = stack[7]
    BY <1>6, <2>1
  <2>4. Len(stack') = 7 + n
    BY <1>6, <2>1
  <2>5. Pushed(7, n)'
    BY <1>2, <1>3, <2>2, <2>4 DEF Pushed
  <2>6. CallFrame'
    BY <2>1, <2>3 DEF CallFrame
  <2>7. Entered(n)'
    BY <1>2, <1>4, <1>8, <2>1, <2>2, <2>5, <2>6 DEF Entered
  <2>8. Len(stack') <= 14
    BY <1>3, <2>4
  <2>9. Entered(IF v \in CpuError THEN 6 ELSE 5)'
    BY <2>7 DEF n
  <2> QED
    BY <1>4, <1>6, <2>8, <2>9 DEF StackInv
<1> QED
  BY <1>7, <1>8

(* The stubs' words complete the frame, at either depth.                   *)
LEMMA StubStack ==
    ASSUME StackInv, pc = "stub", vec \in Nat, UNCHANGED <<ring, vec>>,
           stack' = stack \o StubFrame(vec),
           \/ pc' = "exception"
           \/ pc' = "irq_dispatch" /\ vec >= 32
    PROVE  StackInv'
<1> DEFINE n == IF vec \in CpuError THEN 6 ELSE 5
           f == StubFrame(vec)
<1>1. /\ f \in Seq(Word) /\ Len(f) = 7 - n
      /\ n = 6 => f[1].name = "vector"
      /\ n = 5 => f[1].name = "error" /\ f[2].name = "vector"
  <2>1. /\ f \in Seq(Word)
        /\ Len(f) = IF vec \in CpuError THEN 1 ELSE 2
        /\ vec \in CpuError => f[1].name = "vector"
        /\ vec \notin CpuError => f[1].name = "error" /\ f[2].name = "vector"
    BY StubFrameIs
  <2> HIDE DEF f
  <2> QED
    BY <2>1
<1>2. n \in {5, 6} /\ Entered(n) /\ stack \in Seq(Word) /\ ring = "kernel"
  BY DEF StackInv
<1> HIDE DEF f, n
<1>3. /\ stack' \in Seq(Word) /\ Len(stack') = Len(stack) + (7 - n)
      /\ \A j \in 1 .. Len(stack) : stack'[j] = stack[j]
      /\ \A j \in 1 .. 7 - n : stack'[Len(stack) + j] = f[j]
  BY <1>1, <1>2, Push DEF f
<1>4. ASSUME NEW k \in {0, 7}, Pushed(k, n)
      PROVE  /\ Pushed(k, 7)' /\ stack'[k + 4] = stack[k + 4] /\ stack'[k + 5] = stack[k + 5]
             /\ k = 7 /\ CallFrame => CallFrame'
  <2>1. Len(stack) = k + n /\ Len(stack') = k + 7
    BY <1>2, <1>3, <1>4 DEF Pushed
  <2>2. /\ stack'[k + 3] = stack[k + 3] /\ stack'[k + 4] = stack[k + 4] /\ stack'[k + 5] = stack[k + 5]
        /\ k = 7 => /\ stack'[3] = stack[3] /\ stack'[4] = stack[4] /\ stack'[5] = stack[5]
                    /\ stack'[6] = stack[6] /\ stack'[7] = stack[7]
    BY <1>2, <1>3, <2>1
  <2>3. stack'[k + 6].name = "error" /\ stack'[k + 7].name = "vector"
    <3>1. CASE n = 6
      <4>1. stack'[k + 6] = stack[k + 6] /\ stack'[k + 7] = f[1]
        BY <1>3, <2>1, <3>1
      <4> QED
        BY <1>1, <1>4, <3>1, <4>1 DEF Pushed
    <3>2. CASE n = 5
      <4>1. stack'[k + 6] = f[1] /\ stack'[k + 7] = f[2]
        BY <1>3, <2>1, <3>2
      <4> QED
        BY <1>1, <3>2, <4>1
    <3> QED
      BY <1>2, <3>1, <3>2
  <2> QED
    BY <1>4, <2>1, <2>2, <2>3 DEF Pushed, CallFrame
<1>5. Entered(7)'
  <2>1. CASE Pushed(0, n)
    <3>1. Pushed(0, 7)' /\ stack'[4] = stack[4] /\ stack'[5] = stack[5]
      <4>1. 0 \in {0, 7}
        OBVIOUS
      <4>2. Pushed(0, 7)' /\ stack'[0 + 4] = stack[0 + 4] /\ stack'[0 + 5] = stack[0 + 5]
        BY <1>4, <2>1, <4>1
      <4>3. stack'[4] = stack[4] /\ stack'[5] = stack[5]
        BY <4>2, 0 + 4 = 4, 0 + 5 = 5
      <4> QED
        BY <4>2, <4>3
    <3>2. ~Pushed(7, n)
      BY <1>2, <2>1 DEF Pushed
    <3> QED
      BY <1>2, <3>1, <3>2 DEF Entered
  <2>2. CASE Pushed(7, n)
    <3>1. Pushed(7, 7)' /\ stack'[11] = stack[11] /\ stack'[12] = stack[12] /\ (CallFrame => CallFrame')
      <4>1. 7 \in {0, 7}
        OBVIOUS
      <4>2. Pushed(7, 7)' /\ stack'[7 + 4] = stack[7 + 4] /\ stack'[7 + 5] = stack[7 + 5]
            /\ (CallFrame => CallFrame')
        BY <1>4, <2>2, <4>1
      <4>3. stack'[11] = stack[11] /\ stack'[12] = stack[12]
        BY <4>2, 7 + 4 = 11, 7 + 5 = 12
      <4> QED
        BY <4>2, <4>3
    <3>2. ~Pushed(0, n)
      BY <1>2, <2>2 DEF Pushed
    <3> QED
      BY <1>2, <3>1, <3>2 DEF Entered
  <2> QED
    BY <1>2, <2>1, <2>2 DEF Entered
<1>6. Len(stack') <= 14
  BY <1>5 DEF Entered, Pushed
<1> QED
  BY <1>2, <1>3, <1>5, <1>6 DEF StackInv

(* iretq takes the top frame off and goes where it says, to a place with   *)
(* the stack that belongs there.                                           *)
LEMMA IretStack ==
    ASSUME StackInv, Iret
    PROVE  StackInv' /\ pc' \in {"kernel", "user", "cli"}
<1>1. Entered(7) /\ stack \in Seq(Word) /\ pc = "iret"
  BY DEF StackInv, Iret
<1>2. Len(stack) \in Nat /\ \A j \in 1 .. Len(stack) : stack[j] \in Word
  BY <1>1
<1>3. CASE Pushed(0, 7) /\ stack[4].val = stack[5].val /\ stack[5].val \in {"kernel", "user"}
  <2>1. Len(stack) = 7
    BY <1>3 DEF Pushed
  <2>2. pc' = stack[5].val /\ ring' = stack[4].val /\ stack' = SubSeq(stack, 1, 0)
    BY <2>1 DEF Iret, Top
  <2>3. stack' = <<>>
    BY <1>1, <2>2, SubSeqProperties
  <2> QED
    BY <1>3, <2>2, <2>3 DEF StackInv
<1>4. CASE Pushed(7, 7) /\ CallFrame /\ stack[11].val = "kernel" /\ stack[12].val = "cli"
  <2>1. Len(stack) = 14
    BY <1>4 DEF Pushed
  <2>2. pc' = "cli" /\ ring' = "kernel" /\ stack' = SubSeq(stack, 1, 7)
    BY <1>4, <2>1 DEF Iret, Top
  <2>3. \A j \in 1 .. 7 : stack[j] \in Word
    BY <1>2, <2>1
  <2>4. stack' \in Seq(Word) /\ Len(stack') = 7 /\ \A j \in 1 .. 7 : stack'[j] = stack[j]
    BY <2>2, <2>3, SubSeqProperties
  <2>5. CallFrame'
    BY <1>4, <2>4 DEF CallFrame
  <2> QED
    BY <2>2, <2>4, <2>5 DEF StackInv
<1> QED
  BY <1>1, <1>3, <1>4 DEF Entered
--------------------------------------------------------------------------------
(* kernel_main *)

(* Which step of kernel_main is which.                                     *)
LEMMA BootSteps ==
    ASSUME step \in 1 .. Len(BootOrder) + 1
    PROVE  /\ Len(BootOrder) = 8
           /\ Do("irq_init") => step = 1
           /\ Do("pic_remap") => step = 2
           /\ Do("init_idt") => step = 3
           /\ Do("register") => step = 4
           /\ Do("unmask") => step = 5
           /\ Do("sti") => step = 6
           /\ Do("usb") => step = 7
           /\ Do("user") => step = 8
<1>1. Len(BootOrder) = 8
  BY DEF BootOrder
<1>2. ASSUME NEW what, Do(what) PROVE step \in 1 .. 8 /\ BootOrder[step] = what
  <2>1. step \in 1 .. 8 + 1 /\ step <= 8 /\ BootOrder[step] = what
    BY <1>1, <1>2 DEF Do
  <2> QED
    BY <2>1
<1>3. /\ BootOrder[1] = "irq_init" /\ BootOrder[2] = "pic_remap" /\ BootOrder[3] = "init_idt"
      /\ BootOrder[4] = "register" /\ BootOrder[5] = "unmask" /\ BootOrder[6] = "sti"
      /\ BootOrder[7] = "usb" /\ BootOrder[8] = "user"
  BY DEF BootOrder
<1> QED
  BY <1>1, <1>2, <1>3

(* A step of kernel_main keeps the invariant: the gates are there before   *)
(* an exception can come, the handlers before sti.                         *)
LEMMA BootInv == IInv /\ Boot => IInv'
<1> SUFFICES ASSUME IInv, Boot PROVE IInv'
  OBVIOUS
<1> USE VectorsAssumption DEF IInv
<1>1. Len(BootOrder) = 8 /\ step \in 1 .. 9
  <2>1. Len(BootOrder) = 8 /\ step \in 1 .. 8 + 1
    BY BootSteps DEF TypeOK
  <2> QED
    BY <2>1
<1>2. pc = "kernel" /\ step <= 8 /\ step' = step + 1
  BY <1>1 DEF Boot, irq_init, pic_remap, init_idt, Register, Unmask, Sti, UsbStart, jump_to_user, Do
<1>3. CASE irq_init \/ pic_remap \/ init_idt \/ Register \/ Unmask \/ Sti \/ UsbStart
  <2>1. UNCHANGED <<pc, ring, vec, stack, isr, apic, msi, accepted>>
    BY <1>3 DEF irq_init, pic_remap, init_idt, Register, Unmask, Sti, UsbStart, cpu, pic
  <2>2. intr' # intr => step = 6 /\ intr' = TRUE
    BY <1>1, <1>3, BootSteps DEF irq_init, pic_remap, init_idt, Register, Unmask, Sti, UsbStart, cpu
  <2>3. TypeOK' /\ StackInv' /\ VecInv' /\ StepInv'
    <3>1. TypeOK'
      <4>1. step' \in 1 .. Len(BootOrder) + 1
        BY <1>1, <1>2
      <4>2. intr' \in BOOLEAN
        BY <2>2 DEF TypeOK
      <4> QED
        BY <2>1, <4>1, <4>2 DEF TypeOK
    <3>2. StackInv' /\ VecInv'
      BY <1>2, <2>1 DEF StackInv, VecInv
    <3>3. StepInv'
      BY <1>1, <1>2, <2>1, <2>2 DEF StepInv
    <3> QED
      BY <3>1, <3>2, <3>3
  <2>4. SetUpInv' /\ ServiceInv'
    <3> USE <1>1, <1>2, <2>1, BootSteps DEF TypeOK, Handled
    <3>0. /\ count \in [Handled -> Nat] /\ accepted \in [Handled -> Nat]
          /\ \A v \in Handled : ~Taken(v) /\ ~Taken(v)' /\ accepted[v] = count[v]
          /\ isr = {} /\ apic = {}
      BY DEF SetUpInv, ServiceInv, Taken
    <3>1. CASE irq_init
      <4>1. step = 1 /\ handler' = {} /\ UNCHANGED <<idt, mask>> /\ count' = [v \in Handled |-> 0]
        BY <3>1 DEF irq_init, pic
      <4> QED
        BY <3>0, <4>1 DEF SetUpInv, ServiceInv
    <3>2. CASE pic_remap
      <4>1. step = 2 /\ mask' = 0 .. 15 /\ UNCHANGED <<idt, handler, count>>
        BY <3>2 DEF pic_remap
      <4> QED
        BY <3>0, <4>1 DEF SetUpInv, ServiceInv
    <3>3. CASE init_idt
      <4>1. step = 3 /\ idt' = [v \in Vectors |-> Gate(v)] /\ UNCHANGED <<mask, handler, count>>
        BY <3>3 DEF init_idt, pic
      <4> QED
        BY <3>0, <4>1 DEF SetUpInv, ServiceInv
    <3>4. CASE Register
      <4>1. /\ step = 4 /\ handler' = handler \cup {32, 33} /\ UNCHANGED <<idt, mask>>
            /\ count' = [v \in Handled |-> IF v \in {32, 33} \ handler THEN 0 ELSE count[v]]
        BY <3>4 DEF Register, irq_register, pic
      <4> QED
        BY <3>0, <4>1 DEF SetUpInv, ServiceInv
    <3>5. CASE Unmask
      <4>1. step = 5 /\ mask' = mask \ {0, 1} /\ UNCHANGED <<idt, handler, count>>
        BY <3>5 DEF Unmask
      <4> QED
        BY <3>0, <4>1 DEF SetUpInv, ServiceInv
    <3>6. CASE Sti
      <4>1. step = 6 /\ UNCHANGED <<idt, mask, handler, count>>
        BY <3>6 DEF Sti, pic
      <4> QED
        BY <3>0, <4>1 DEF SetUpInv, ServiceInv
    <3>7. CASE UsbStart
      <4>1. /\ step = 7 /\ handler' = handler \cup {USB_IRQ_VECTOR} /\ UNCHANGED <<idt, mask>>
            /\ count' = [v \in Handled |-> IF v \in {USB_IRQ_VECTOR} \ handler THEN 0 ELSE count[v]]
        BY <3>7 DEF UsbStart, irq_register, pic
      <4> QED
        BY <3>0, <4>1 DEF SetUpInv, ServiceInv
    <3> QED
      BY <1>3, <3>1, <3>2, <3>3, <3>4, <3>5, <3>6, <3>7
  <2> QED
    BY <2>3, <2>4
<1>4. CASE jump_to_user
  <2>1. step = 8 /\ pc' = "user" /\ ring' = "user" /\ stack' = <<>>
        /\ UNCHANGED <<vec, idt, handler, count, mask, irr, isr, apic, msi, accepted>>
    BY <1>1, <1>4, BootSteps DEF jump_to_user, TypeOK, rsp0, pic
  <2>2. TypeOK' /\ VecInv' /\ StepInv'
    BY <1>1, <1>2, <1>4, <2>1 DEF jump_to_user, TypeOK, VecInv, StepInv
  <2>3. StackInv'
    BY <2>1 DEF StackInv
  <2>4. SetUpInv' /\ ServiceInv'
    BY <1>2, <2>1 DEF SetUpInv, ServiceInv, Taken
  <2> QED
    BY <2>2, <2>3, <2>4
<1> QED
  BY <1>3, <1>4 DEF Boot
--------------------------------------------------------------------------------
(* Interrupts and exceptions *)

(* Every vector that is delivered after init_idt has a gate; only that of  *)
(* isr128 lets the program through.                                        *)
LEMMA GateIs ==
    ASSUME IInv, step > 3, NEW v \in Vectors
    PROVE  /\ v < 80 \/ v = 128 => idt[v].present
           /\ idt[v].dpl = 3 => v = 128
<1>1. idt[v] = Gate(v)
  BY DEF IInv, SetUpInv
<1>2. Gate(v).present = (v < 80 \/ v = 128)
  BY DEF Gate
<1>3. Gate(v).dpl = IF v = 128 THEN 3 ELSE 0
  BY DEF Gate
<1>4. idt[v].present = (v < 80 \/ v = 128)
  BY <1>1, <1>2
<1>5. idt[v].dpl = 3 => v = 128
  BY <1>1, <1>3
<1> QED
  BY <1>4, <1>5

(* An entry that is none of a device's keeps the invariant.                *)
LEMMA ExceptionEntry ==
    ASSUME IInv, NEW v \in Vectors, NEW rip \in Values, Deliver(v, rip),
           UNCHANGED <<conf, count, mask, isr, apic, msi, accepted>>,
           v \in 0 .. 31 \cup {39, 128}, step > 3,
           v >= 32 => step > 6,
           \/ pc \in {"kernel", "user"} /\ rip = pc /\ (v = 128 => pc = "user")
           \/ /\ pc \in {"hlt", "syscall"} /\ v # 128
              /\ rip \in {"cli", "syscall"} /\ (v >= 32 => rip = "cli")
    PROVE  IInv'
<1> USE VectorsAssumption DEF IInv
<1>1. idt[v].present
  BY GateIs
<1>2. StackInv'
  BY <1>1, DeliverStack
<1>3. pc' = "stub" /\ vec' = v /\ ring' = "kernel" /\ intr' = FALSE
  BY <1>1 DEF Deliver
<1>4. UNCHANGED <<step, idt, handler, count, mask, isr, apic, msi, accepted>>
  BY DEF conf
<1>5. v \notin Handled /\ v # 32 /\ v # 33 /\ v # USB_IRQ_VECTOR
  BY DEF Handled
<1>6. TypeOK'
  BY <1>3, <1>4 DEF TypeOK
<1>7. VecInv' /\ StepInv'
  BY <1>3, <1>4, <1>5 DEF VecInv, StepInv
<1>8. SetUpInv'
  BY <1>4 DEF SetUpInv
<1>9. ServiceInv'
  BY <1>3, <1>4, <1>5 DEF ServiceInv, Taken, Handled
<1> QED
  BY <1>2, <1>6, <1>7, <1>8, <1>9
(* int n and the exceptions: the program cannot make an interrupt of a     *)
(* device, and an exception does not come before its gate.                 *)
LEMMA ProgramInv ==
    IInv /\ ((\E n \in UserInts : UserInt(n)) \/ (\E v \in Exceptions : Exception(v))) => IInv'
<1> SUFFICES ASSUME IInv, (\E n \in UserInts : UserInt(n)) \/ (\E v \in Exceptions : Exception(v))
             PROVE  IInv'
  OBVIOUS
<1>1. ASSUME NEW n \in UserInts, UserInt(n) PROVE IInv'
  <2>1. pc = "user" /\ step > 3 /\ step > 6 /\ n \in Vectors /\ 13 \in Vectors /\ 128 \in Vectors
    BY <1>1 DEF UserInt, IInv, StepInv, TypeOK, Vectors
  <2>2. PICK v \in {13, 128} : Deliver(v, "user")
    BY <1>1, <2>1, GateIs DEF UserInt
  <2>3. UNCHANGED <<conf, count, mask, isr, apic, msi, accepted>>
    BY <1>1 DEF UserInt, pic
  <2>4. "user" \in Values /\ v \in Vectors /\ v \in 0 .. 31 \cup {39, 128} /\ v # 39
    BY <2>1, <2>2 DEF Values
  <2> QED
    BY <2>1, <2>2, <2>3, <2>4, ExceptionEntry
<1>2. ASSUME NEW v \in Exceptions, Exception(v) PROVE IInv'
  <2>1. Deliver(v, pc) /\ UNCHANGED <<conf, count, mask, isr, apic, msi, accepted>>
    BY <1>2 DEF Exception, pic
  <2>2. v \in Vectors /\ v \in 0 .. 31 /\ ~(v >= 32) /\ v # 128
    BY VectorsAssumption DEF Vectors
  <2>3. step > 3 /\ pc \in {"user", "kernel", "syscall"}
    BY <1>2 DEF Exception, IInv, StepInv
  <2>4. pc \in Values
    BY <2>3 DEF Values
  <2> QED
    BY <2>1, <2>2, <2>3, <2>4, ExceptionEntry
<1> QED
  BY <1>1, <1>2

(* An interrupt is accepted with nothing in service, from a place that it  *)
(* can return to.                                                          *)
LEMMA AcceptFrom ==
    ASSUME IInv, Running
    PROVE  /\ step > 6 /\ isr = {} /\ apic = {} /\ Resume \in Values
           /\ \A v \in Handled : ~Taken(v) /\ accepted[v] = count[v]
           /\ \/ pc \in {"kernel", "user"} /\ Resume = pc
              \/ pc = "hlt" /\ Resume = "cli"
  BY DEF IInv, StepInv, ServiceInv, Running, Resume, Values, Taken

(* An interrupt of a device: it is taken, and counted as such.             *)
LEMMA DeviceEntry ==
    ASSUME IInv, Running, NEW v \in Handled, Deliver(v, Resume),
           UNCHANGED <<conf, count, mask>>,
           accepted' = [accepted EXCEPT ![v] = @ + 1],
           v = USB_IRQ_VECTOR => step > 7, msi' => msi,
           v = 32 => isr' = {0} /\ apic' = {},
           v = 33 => isr' = {1} /\ apic' = {},
           v = USB_IRQ_VECTOR => isr' = {} /\ apic' = {USB_IRQ_VECTOR}, v \in Vectors
    PROVE  IInv'
<1> USE VectorsAssumption DEF IInv
<1>1. /\ step > 6 /\ Resume \in Values
      /\ \A u \in Handled : ~Taken(u) /\ accepted[u] = count[u]
      /\ \/ pc \in {"kernel", "user"} /\ Resume = pc
         \/ pc = "hlt" /\ Resume = "cli"
  BY AcceptFrom
<1>2. v \in 32 .. 79 /\ v # 128
  BY DEF Handled
<1>3. step \in Int /\ idt[v].present
  BY <1>1, <1>2, GateIs DEF TypeOK
<1>4. StackInv'
  BY <1>1, <1>2, <1>3, DeliverStack
<1>5. pc' = "stub" /\ vec' = v /\ ring' = "kernel" /\ intr' = FALSE
  BY <1>3 DEF Deliver
<1>6. UNCHANGED <<step, idt, handler, count, mask>>
  BY DEF conf
<1>7. TypeOK'
  BY <1>5, <1>6 DEF TypeOK
<1>8. VecInv' /\ StepInv'
  BY <1>1, <1>2, <1>3, <1>5, <1>6 DEF VecInv, StepInv
<1>9. accepted' \in [Handled -> Nat]
  BY DEF SetUpInv
<1>10. SetUpInv'
  BY <1>1, <1>3, <1>6, <1>9 DEF SetUpInv, Handled
<1>11. \A u \in Handled : accepted'[u] = IF u = v THEN count[u] + 1 ELSE count[u]
  BY <1>1 DEF SetUpInv
<1>12. ServiceInv'
  BY <1>2, <1>5, <1>6, <1>11 DEF ServiceInv, Taken, Handled
<1> QED
  BY <1>4, <1>7, <1>8, <1>10, <1>12
(* The interrupts that the PIC and the LAPIC deliver.                      *)
LEMMA AcceptInv == IInv /\ Accept => IInv'
<1> SUFFICES ASSUME IInv, Accept PROVE IInv'
  OBVIOUS
<1> USE VectorsAssumption
<1>1. ASSUME NEW l \in Lines \ Spurious, AcceptPic(l) PROVE IInv'
  <2>1. Running /\ l \in irr \ mask /\ Deliver(32 + l, Resume)
    BY <1>1 DEF AcceptPic
  <2>2. step > 6 /\ isr = {} /\ apic = {}
    BY <2>1, AcceptFrom
  <2>3. mask = (0 .. 15) \ {0, 1} /\ l \in 0 .. 15
    BY <2>2 DEF IInv, SetUpInv, TypeOK
  <2>4. l \in {0, 1}
    BY <2>1, <2>3
  <2>5. 32 + l \in Handled /\ 32 + l \in Vectors /\ 32 + l # USB_IRQ_VECTOR
    BY <2>4 DEF Handled, Vectors
  <2>6. isr' = {l} /\ apic' = {} /\ UNCHANGED <<conf, count, mask>> /\ (msi' => msi)
        /\ accepted' = [accepted EXCEPT ![32 + l] = @ + 1]
    BY <1>1, <2>2 DEF AcceptPic
  <2>7. CASE l = 0
    <3>1. /\ 32 \in Handled /\ 32 \in Vectors /\ Deliver(32, Resume) /\ isr' = {0}
          /\ accepted' = [accepted EXCEPT ![32] = @ + 1] /\ 32 # 33 /\ 32 # USB_IRQ_VECTOR
      BY <2>1, <2>5, <2>6, <2>7, 32 + 0 = 32
    <3> QED
      BY <2>1, <2>6, <3>1, DeviceEntry
  <2>8. CASE l = 1
    <3>1. /\ 33 \in Handled /\ 33 \in Vectors /\ Deliver(33, Resume) /\ isr' = {1}
          /\ accepted' = [accepted EXCEPT ![33] = @ + 1] /\ 32 # 33 /\ 33 # USB_IRQ_VECTOR
      BY <2>1, <2>5, <2>6, <2>8, 32 + 1 = 33
    <3> QED
      BY <2>1, <2>6, <3>1, DeviceEntry
  <2> QED
    BY <2>4, <2>7, <2>8
<1>2. ASSUME NEW l \in Spurious, AcceptSpurious(l) PROVE IInv'
  <2>1. Running /\ Deliver(39, Resume) /\ UNCHANGED <<conf, count, mask, isr, apic, msi, accepted>>
    BY <1>2 DEF AcceptSpurious
  <2>2. /\ step > 6 /\ Resume \in Values
        /\ \/ pc \in {"kernel", "user"} /\ Resume = pc
           \/ pc = "hlt" /\ Resume = "cli"
    BY <2>1, AcceptFrom
  <2>3. 39 \in Vectors /\ step > 3 /\ 39 \in 0 .. 31 \cup {39, 128} /\ 39 # 128
    BY <2>2 DEF Vectors, IInv, TypeOK
  <2>4. \/ pc \in {"kernel", "user"} /\ Resume = pc /\ (39 = 128 => pc = "user")
        \/ /\ pc \in {"hlt", "syscall"} /\ 39 # 128
           /\ Resume \in {"cli", "syscall"} /\ (39 >= 32 => Resume = "cli")
    BY <2>2
  <2> QED
    BY <2>1, <2>2, <2>3, <2>4, ExceptionEntry
<1>3. CASE AcceptMsi
  <2>1. Running /\ msi /\ Deliver(USB_IRQ_VECTOR, Resume)
    BY <1>3 DEF AcceptMsi
  <2>2. isr = {} /\ step > 7
    BY <2>1, AcceptFrom DEF IInv, StepInv
  <2>3. USB_IRQ_VECTOR \in Handled /\ USB_IRQ_VECTOR \in Vectors
        /\ USB_IRQ_VECTOR # 32 /\ USB_IRQ_VECTOR # 33
    BY DEF Handled, Vectors
  <2>4. isr' = {} /\ apic' = {USB_IRQ_VECTOR} /\ UNCHANGED <<conf, count, mask>> /\ msi' = FALSE
        /\ accepted' = [accepted EXCEPT ![USB_IRQ_VECTOR] = @ + 1]
    BY <1>3, <2>2 DEF AcceptMsi
  <2> QED
    BY <2>1, <2>2, <2>3, <2>4, DeviceEntry
<1> QED
  BY <1>1, <1>2, <1>3 DEF Accept

(* irq_dispatch: the end of interrupt is for the interrupt that was taken, *)
(* whose handler is registered.                                            *)
LEMMA DispatchInv == IInv /\ irq_dispatch => IInv'
<1> SUFFICES ASSUME IInv, irq_dispatch PROVE IInv'
  OBVIOUS
<1> USE VectorsAssumption DEF IInv
<1>1. pc = "irq_dispatch" /\ vec \in 32 .. 79 /\ step > 6 /\ pc' \in {"handle", "iret"}
  BY DEF irq_dispatch, VecInv, StepInv
<1>2. UNCHANGED <<ring, intr, vec, stack, step, idt, handler, mask, msi, accepted>>
  BY DEF irq_dispatch, conf
<1>3. isr' = {} /\ apic' = {}
  <2>1. First({0}) = {0} /\ First({1}) = {1}
    BY DEF First
  <2>2. First({}) = {}
    BY DEF First
  <2>3. CASE vec < 48
    BY <1>1, <2>1, <2>2, <2>3 DEF irq_dispatch, Eoi, ServiceInv, Taken
  <2>4. CASE vec >= 48
    BY <1>1, <2>4 DEF irq_dispatch, Eoi, ServiceInv, Taken
  <2> QED
    BY <1>1, <2>3, <2>4
<1>4. vec \in handler <=> vec \in Handled
  BY <1>1 DEF SetUpInv, StepInv, Handled, TypeOK
<1>5. count' \in [Handled -> Nat] /\ \A v \in Handled : accepted[v] = count'[v]
  <2>1. CASE vec \in Handled
    <3>1. count' = [count EXCEPT ![vec] = @ + 1]
      BY <1>4, <2>1 DEF irq_dispatch
    <3>2. \A v \in Handled : accepted[v] = IF v = vec THEN count[v] + 1 ELSE count[v]
      BY <1>1 DEF ServiceInv, Taken
    <3> QED
      BY <2>1, <3>1, <3>2 DEF SetUpInv
  <2>2. CASE vec \notin Handled
    <3>1. count' = count
      BY <1>4, <2>2 DEF irq_dispatch
    <3> QED
      BY <2>2, <3>1 DEF SetUpInv, ServiceInv, Taken
  <2> QED
    BY <2>1, <2>2
<1>6. TypeOK' /\ VecInv' /\ StepInv'
  BY <1>1, <1>2 DEF TypeOK, VecInv, StepInv
<1>7. StackInv'
  BY <1>1, <1>2 DEF StackInv, Entered, Pushed, CallFrame
<1>8. SetUpInv'
  BY <1>2, <1>5 DEF SetUpInv
<1>9. ServiceInv'
  BY <1>1, <1>2, <1>3, <1>5 DEF ServiceInv, Taken
<1> QED
  BY <1>6, <1>7, <1>8, <1>9

(* The other steps in a handler or a system call: nothing is in service.   *)
LEMMA HandlerInv ==
    IInv /\ (Handle \/ exception_handler \/ Effect \/ Cli \/ Iret) => IInv'
<1> SUFFICES ASSUME IInv, Handle \/ exception_handler \/ Effect \/ Cli \/ Iret PROVE IInv'
  OBVIOUS
<1> USE VectorsAssumption DEF IInv
<1>1. UNCHANGED <<vec, step, idt, handler, count, mask, isr, apic, msi, accepted>>
  BY DEF Handle, exception_handler, Effect, Cli, Iret, conf, pic
<1>2. pc \notin {"stub", "irq_dispatch"}
  BY DEF Handle, exception_handler, Effect, Cli, Iret
<1>3. StackInv' /\ pc' \in {"iret", "syscall", "stopped", "hlt", "kernel", "user", "cli"}
  <2>1. CASE Handle
    BY <2>1 DEF Handle, StackInv, Entered, Pushed, CallFrame
  <2>2. CASE exception_handler
    BY <2>2 DEF exception_handler, StackInv, Entered, Pushed, CallFrame
  <2>3. CASE Effect
    <3>1. CASE pc' = "iret"
      BY <2>3, <3>1 DEF Effect, StackInv, Entered, Pushed, CallFrame
    <3>2. CASE pc' # "iret"
      BY <2>3, <3>2 DEF Effect, StackInv, CallFrame
    <3> QED
      BY <3>1, <3>2
  <2>4. CASE Cli
    BY <2>4 DEF Cli, StackInv, CallFrame
  <2>5. CASE Iret
    BY <2>5, IretStack
  <2> QED
    BY <2>1, <2>2, <2>3, <2>4, <2>5
<1>4. ring' \in {"kernel", "user"} /\ intr' \in BOOLEAN
  <2>1. ring' \in {"kernel", "user"}
    BY <1>3 DEF StackInv
  <2>2. intr' \in BOOLEAN
    BY DEF Handle, exception_handler, Effect, Cli, Iret, TypeOK
  <2> QED
    BY <2>1, <2>2
<1>5. step > 6 \/ (pc' = "stopped" /\ intr' = intr)
  BY DEF Handle, exception_handler, Effect, Cli, Iret, StepInv, VecInv
<1>6. TypeOK' /\ VecInv' /\ StepInv'
  <2>1. TypeOK'
    BY <1>1, <1>3, <1>4 DEF TypeOK
  <2>2. VecInv'
    BY <1>3 DEF VecInv
  <2>3. step > 3
    BY <1>5 DEF Handle, exception_handler, Effect, Cli, Iret, StepInv, TypeOK
  <2>4. StepInv'
    BY <1>1, <1>3, <1>5, <2>3 DEF StepInv
  <2> QED
    BY <2>1, <2>2, <2>4
<1>7. SetUpInv' /\ ServiceInv'
  BY <1>1, <1>2, <1>3 DEF SetUpInv, ServiceInv, Taken
<1> QED
  BY <1>3, <1>6, <1>7
(* The stubs.                                                              *)
LEMMA StubInv == IInv /\ (isr_common \/ irq_common) => IInv'
<1> SUFFICES ASSUME IInv, isr_common \/ irq_common PROVE IInv'
  OBVIOUS
<1> USE VectorsAssumption DEF IInv
<1>1. /\ pc = "stub" /\ stack' = stack \o StubFrame(vec) /\ vec \in 0 .. 79 \cup {128}
      /\ pc' = (IF vec \in 32 .. 79 THEN "irq_dispatch" ELSE "exception")
  <2>1. CASE isr_common
    <3>1. vec \in 0 .. 79 \cup {128} /\ (vec < 32 \/ vec = 128)
      BY <2>1 DEF isr_common, VecInv
    <3>2. vec \notin 32 .. 79
      BY <3>1
    <3> QED
      BY <2>1, <3>1, <3>2 DEF isr_common
  <2>2. CASE irq_common
    BY <2>2 DEF irq_common, VecInv
  <2> QED
    BY <2>1, <2>2
<1>2. UNCHANGED <<ring, intr, vec>> /\ UNCHANGED <<step, idt, handler, count, mask, isr, apic, msi, accepted>>
  BY DEF isr_common, irq_common, conf, pic
<1>3. StackInv'
  BY <1>1, <1>2, StubStack
<1>4. TypeOK' /\ VecInv' /\ StepInv'
  BY <1>1, <1>2 DEF TypeOK, VecInv, StepInv
<1>5. SetUpInv'
  BY <1>2 DEF SetUpInv
<1>6. ServiceInv'
  BY <1>1, <1>2 DEF ServiceInv, Taken, Handled
<1> QED
  BY <1>3, <1>4, <1>5, <1>6

(* A device that raises an interrupt disturbs nothing; the USB controller  *)
(* does it only after its handler is registered.                           *)
LEMMA RaiseInv == IInv /\ ((\E d \in Device : Raise(d)) \/ UNCHANGED vars) => IInv'
<1> SUFFICES ASSUME IInv, (\E d \in Device : Raise(d)) \/ UNCHANGED vars PROVE IInv'
  OBVIOUS
<1>1. UNCHANGED <<pc, ring, intr, vec, stack, step, idt, handler, count, mask, isr, apic, accepted>>
  BY DEF Raise, vars, cpu, conf, pic
<1>2. msi' = msi \/ step > 7
  BY DEF Raise, vars, pic
<1>3. TypeOK' /\ StackInv' /\ VecInv'
  BY <1>1 DEF IInv, TypeOK, StackInv, VecInv, Entered, Pushed, CallFrame
<1>4. StepInv' /\ SetUpInv' /\ ServiceInv'
  BY <1>1, <1>2 DEF IInv, StepInv, SetUpInv, ServiceInv, Taken
<1> QED
  BY <1>3, <1>4 DEF IInv

(* The invariant holds when kernel_main begins.                            *)
LEMMA InitInv == Init => IInv
<1> SUFFICES ASSUME Init PROVE IInv
  OBVIOUS
<1> USE VectorsAssumption DEF Init
<1>1. TypeOK
  <2>1. 0 \in Vectors /\ 1 \in 1 .. Len(BootOrder) + 1
    BY DEF Vectors, BootOrder
  <2> QED
    BY <2>1 DEF TypeOK
<1>2. StackInv
  BY DEF StackInv
<1>3. VecInv /\ StepInv /\ SetUpInv
  BY DEF VecInv, StepInv, SetUpInv, Handled
<1>4. ServiceInv
  BY DEF ServiceInv, Taken
<1> QED
  BY <1>1, <1>2, <1>3, <1>4 DEF IInv

(* It holds over every step.                                               *)
LEMMA NextInv == IInv /\ [Next]_vars => IInv'
  BY BootInv, ProgramInv, AcceptInv, DispatchInv, HandlerInv, StubInv, RaiseInv DEF Next, Kernel

(* Every state satisfies the invariant.                                    *)
LEMMA Invariance == Spec => []IInv
  BY InitInv, NextInv, PTL DEF Spec

(* The stubs, the handlers and iretq find every frame where struct regs    *)
(* has it, with or without the processor's error code, at both depths of   *)
(* the kernel's stack; no vector comes without a gate, and the stack is    *)
(* empty when the program runs.  For every set of lines, exceptions and    *)
(* int n.                                                                  *)
THEOREM FramesAlwaysRight == Spec => []FramesRight
<1>1. IInv => FramesRight
  <2> SUFFICES ASSUME IInv PROVE FramesRight
    OBVIOUS
  <2>1. TypeOK /\ StackBounded
    BY DEF IInv, StackInv, StackBounded
  <2>2. ASSUME pc \in {"exception", "irq_dispatch", "handle", "iret"} PROVE FrameMatches
    <3>1. Entered(7)
      BY <2>2 DEF IInv, StackInv
    <3>2. CASE Pushed(0, 7)
      BY <3>2 DEF Pushed, FrameMatches, Top
    <3>3. CASE Pushed(7, 7)
      BY <3>3 DEF Pushed, FrameMatches, Top
    <3> QED
      BY <3>1, <3>2, <3>3 DEF Entered
  <2>3. ASSUME pc \in {"syscall", "hlt", "cli"} PROVE FrameMatches
    <3>1. Len(stack) = 7 /\ CallFrame
      BY <2>3 DEF IInv, StackInv
    <3> QED
      BY <3>1 DEF CallFrame, FrameMatches, Top
  <2> QED
    BY <2>1, <2>2, <2>3 DEF FramesRight, FrameMatches
<1> QED
  BY <1>1, Invariance, PTL

(* Each interrupt of a device is counted by its handler once and nothing   *)
(* is in service while interrupts are on: kernel_main registers before it  *)
(* unmasks, irq_dispatch's end of interrupt is never another device's, and *)
(* the program raises none with int n.                                     *)
THEOREM InterruptsAlwaysServed == Spec => []InterruptsServed
<1>1. IInv => InterruptsServed
  <2> SUFFICES ASSUME IInv PROVE InterruptsServed
    OBVIOUS
  <2>1. CountExact
    BY DEF IInv, ServiceInv, Taken, CountExact
  <2>2. NothingInService
    BY DEF IInv, VecInv, ServiceInv, Taken, NothingInService
  <2> QED
    BY <2>1, <2>2 DEF InterruptsServed
<1> QED
  BY <1>1, Invariance, PTL
================================================================================
