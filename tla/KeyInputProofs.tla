---------------------------- MODULE KeyInputProofs ----------------------------
(***************************************************************************)
(* The properties of KeyInput hold for every ring size, every alphabet and *)
(* every read length, and KeyInput implements CharQueue.                   *)
(***************************************************************************)
EXTENDS KeyInput, SequenceTheorems, TLAPS

USE RingAssumption, CharsAssumption, ReadAssumption

(* The wrap-around of an index, without division. *)
LEMMA SuccCases ==
    ASSUME NEW i \in Cells
    PROVE  /\ Succ(i) \in Cells
           /\ Succ(i) = IF i + 1 < INPUT_BUFFER_SIZE THEN i + 1 ELSE 0
BY DEF Succ, Cells

(* The gates that init_idt installs clear the interrupt flag. *)
LEMMA GatesClearIF == IfOnEntry(irq_gate) = 0 /\ IfOnEntry(syscall_gate) = 0
BY DEF IfOnEntry, irq_gate, syscall_gate

LEMMA InitIInv == Init => IInv
<1> SUFFICES ASSUME Init PROVE IInv
  OBVIOUS
<1> USE DEF Init, Contexts, Irqs, Producers, TaskLabels, IrqLabels
<1>1. TypeOK
  BY DEF TypeOK, Cells
<1>2. FrameInv /\ FlagInv
  BY DEF FrameInv, FlagInv
<1>3. ReadInv /\ PushInv
  BY DEF ReadInv, PushInv, InRing
<1>4. QED
  BY <1>1, <1>2, <1>3 DEF IInv

(* No step leaves the ranges. *)
LEMMA TypeStep == TypeOK /\ [Next]_vars => TypeOK'
<1> SUFFICES ASSUME TypeOK, [Next]_vars PROVE TypeOK'
  OBVIOUS
<1> USE DEF TypeOK, ring, cpu, dev, push, read, Goto, Contexts, Irqs, Producers,
        TaskLabels, IrqLabels
<1>1. CASE UNCHANGED vars
  BY <1>1 DEF vars
<1>2. CASE Device
  <2>1. CASE PitTick
    BY <2>1 DEF PitTick
  <2>2. CASE Ps2Scancode
    BY <2>2 DEF Ps2Scancode
  <2>3. CASE UsbReport
    BY <2>3 DEF UsbReport
  <2>4. QED
    BY <1>2, <2>1, <2>2, <2>3 DEF Device
<1>3. ASSUME NEW i \in Irqs, EnterIrq(i) PROVE TypeOK'
  BY <1>3, GatesClearIF DEF EnterIrq
<1>3a. ASSUME NEW i \in Irqs, Iret(i) PROVE TypeOK'
  BY <1>3a DEF Iret
<1>4. CASE PitHandler \/ Ps2Handler \/ UsbHandler
  <2>1. CASE PitHandler
    BY <2>1 DEF PitHandler
  <2>2. CASE Ps2Handler
    BY <2>2 DEF Ps2Handler
  <2>3. CASE UsbHandler
    BY <2>3 DEF UsbHandler
  <2>4. QED
    BY <1>4, <2>1, <2>2, <2>3
<1>5. ASSUME NEW p \in Producers, PushTest(p) PROVE TypeOK'
  BY <1>5, SuccCases DEF PushTest, Return
<1>6. ASSUME NEW p \in Producers, PushStore(p) PROVE TypeOK'
  BY <1>6 DEF PushStore
<1>7. ASSUME NEW p \in Producers, PushPublish(p) PROVE TypeOK'
  BY <1>7 DEF PushPublish, Return, Cells
<1>8. CASE EnableInterrupts \/ JumpToUser \/ Syscall
  <2>1. CASE EnableInterrupts \/ JumpToUser
    BY <2>1 DEF EnableInterrupts, JumpToUser, TaskAt
  <2>2. CASE Syscall
    BY <2>2, GatesClearIF DEF Syscall, TaskAt
  <2>3. QED
    BY <1>8, <2>1, <2>2
<1>9. CASE CheckAvailable \/ StiHlt \/ Cli \/ CopyLoop
  <2>1. CASE CheckAvailable
    BY <2>1 DEF CheckAvailable, TaskAt
  <2>2. CASE StiHlt \/ Cli
    <3>1. CASE StiHlt
      BY <3>1 DEF StiHlt, TaskAt
    <3>2. CASE Cli
      BY <3>2 DEF Cli, TaskAt
    <3>3. QED
      BY <2>2, <3>1, <3>2
  <2>3. CASE CopyLoop
    BY <2>3 DEF CopyLoop, TaskAt
  <2>4. QED
    BY <1>9, <2>1, <2>2, <2>3
<1>10. CASE PopLoad \/ PopAdvance
  <2>1. CASE PopLoad
    BY <2>1 DEF PopLoad, TaskAt
  <2>2. CASE PopAdvance
    BY <2>2, SuccCases DEF PopAdvance, TaskAt
  <2>3. QED
    BY <1>10, <2>1, <2>2
<1>11. QED
  BY <1>1, <1>2, <1>3, <1>3a, <1>4, <1>5, <1>6, <1>7, <1>8, <1>9, <1>10
     DEF Next, Handlers, ReadSteps

(* Handlers do not nest, and the interrupt flag is a function of where the *)
(* task is: this is where the gate types are used.                         *)
LEMMA FlowStep == TypeOK /\ FrameInv /\ FlagInv /\ [Next]_vars => FrameInv' /\ FlagInv'
<1> SUFFICES ASSUME TypeOK, FrameInv, FlagInv, [Next]_vars PROVE FrameInv' /\ FlagInv'
  OBVIOUS
<1> DEFINE Kept == UNCHANGED <<cur, ifl, caller, savedIf>>
<1> USE DEF FrameInv, FlagInv, ring, cpu, dev, push, read, Goto, Contexts, Irqs,
        Producers, TaskLabels, IrqLabels
<1>0. pc \in [Contexts -> TaskLabels \cup IrqLabels]
  BY DEF TypeOK
<1>1. CASE UNCHANGED cpu
  BY <1>1
<1>2. ASSUME NEW i \in Irqs, EnterIrq(i) PROVE FrameInv' /\ FlagInv'
  <2>1. cur = "task" /\ pc["task"] \in {"kmain", "user", "halted", "woken"}
    BY <1>2 DEF EnterIrq, TypeOK
  <2>2. pc' = [pc EXCEPT ![i] = "entry",
                         !["task"] = IF @ = "halted" THEN "woken" ELSE @]
    BY <1>2, <2>1 DEF EnterIrq
  <2>3. ifl' = 0 /\ cur' = i
    BY <1>2, GatesClearIF DEF EnterIrq
  <2>4. caller'[i] = "task" /\ savedIf'[i] = 1
    BY <1>2, <2>1 DEF EnterIrq, TypeOK
  <2>5. QED
    BY <1>0, <2>1, <2>2, <2>3, <2>4
<1>3. ASSUME NEW i \in Irqs, Iret(i) PROVE FrameInv' /\ FlagInv'
  <2>1. cur' = "task" /\ ifl' = 1 /\ pc' = [pc EXCEPT ![i] = "idle"]
    BY <1>3 DEF Iret
  <2>2. cur = i /\ pc["task"] \in {"kmain", "user", "woken"}
    BY <1>3 DEF Iret
  <2>3. QED
    BY <1>0, <2>1, <2>2
<1>4. ASSUME NEW p \in Irqs, cur = p, pc[p] # "iret", pc[p] # "idle", Kept,
             NEW l \in {"push", "store", "publish", "entry", "iret"}, Goto(p, l)
      PROVE  FrameInv' /\ FlagInv'
  BY <1>0, <1>4
<1>5. CASE PitHandler \/ Ps2Handler \/ UsbHandler
  BY <1>4, <1>5 DEF PitHandler, Ps2Handler, UsbHandler
<1>6. ASSUME NEW p \in Producers, PushTest(p) \/ PushStore(p) \/ PushPublish(p)
      PROVE  FrameInv' /\ FlagInv'
  BY <1>4, <1>6 DEF PushTest, PushStore, PushPublish, Return
<1>7. ASSUME cur = "task", cur' = cur, UNCHANGED <<caller, savedIf>>,
             NEW l \in TaskLabels, Goto("task", l),
             ifl' = IF l \in {"kmain", "user", "halted", "woken"} THEN 1 ELSE 0
      PROVE  FrameInv' /\ FlagInv'
  BY <1>0, <1>7
<1>8. CASE EnableInterrupts \/ JumpToUser \/ Syscall \/ StiHlt \/ Cli
  BY <1>7, <1>8, GatesClearIF
     DEF EnableInterrupts, JumpToUser, Syscall, StiHlt, Cli, TaskAt
<1>9. CASE CheckAvailable \/ CopyLoop
  BY <1>7, <1>9 DEF CheckAvailable, CopyLoop, TaskAt
<1>10. CASE PopLoad \/ PopAdvance
  BY <1>7, <1>10 DEF PopLoad, PopAdvance, TaskAt
<1>11. CASE Device
  BY <1>1, <1>11 DEF Device, PitTick, Ps2Scancode, UsbReport
<1>12. QED
  BY <1>1, <1>2, <1>3, <1>5, <1>6, <1>8, <1>9, <1>10, <1>11
     DEF Next, Handlers, ReadSteps, vars

(* What a context has read from the ring does not go stale before it uses  *)
(* it: whoever else writes the ring is not running.                        *)
LEMMA RingStep == IInv /\ [Next]_vars => ReadInv' /\ PushInv'
<1> SUFFICES ASSUME IInv, [Next]_vars PROVE ReadInv' /\ PushInv'
  OBVIOUS
<1> USE DEF ring, cpu, dev, push, read, Goto, Contexts, Irqs, Producers, InRing
<1>0. /\ pc \in [Contexts -> TaskLabels \cup IrqLabels]
      /\ TypeOK /\ FrameInv /\ FlagInv /\ ReadInv /\ PushInv
  BY DEF IInv, TypeOK
<1>1. CASE UNCHANGED vars
  BY <1>0, <1>1 DEF vars, ReadInv, PushInv
<1>2. CASE Device
  BY <1>0, <1>2 DEF Device, PitTick, Ps2Scancode, UsbReport, ReadInv, PushInv
<1>3. ASSUME NEW i \in Irqs, EnterIrq(i) PROVE ReadInv' /\ PushInv'
  <2>1. cur = "task"
    BY <1>0, <1>3 DEF EnterIrq, TypeOK, FlagInv
  <2>2. QED
    BY <1>0, <1>3, <2>1 DEF EnterIrq, ReadInv, PushInv
<1>4. ASSUME NEW i \in Irqs, Iret(i) PROVE ReadInv' /\ PushInv'
  BY <1>0, <1>4 DEF Iret, ReadInv, PushInv
<1>5. CASE PitHandler
  BY <1>0, <1>5 DEF PitHandler, ReadInv, PushInv
<1>6. CASE Ps2Handler
  BY <1>0, <1>6 DEF Ps2Handler, ReadInv, PushInv, TypeOK
<1>7. CASE UsbHandler
  BY <1>0, <1>7 DEF UsbHandler, ReadInv, PushInv, TypeOK
<1>8. ASSUME NEW p \in Producers, PushTest(p) PROVE ReadInv' /\ PushInv'
  <2>1. \A o \in Producers : o # p => pc[o] = "idle"
    BY <1>0, <1>8 DEF PushTest, FrameInv
  <2>2. QED
    BY <1>0, <1>8, <2>1 DEF PushTest, ReadInv, PushInv, TypeOK, Return
<1>9. ASSUME NEW p \in Producers, PushStore(p) PROVE ReadInv' /\ PushInv'
  <2>1. \A o \in Producers : o # p => pc[o] = "idle"
    BY <1>0, <1>9 DEF PushStore, FrameInv
  <2>2. pc["task"] \in {"kmain", "user", "woken"}
    BY <1>0, <1>9 DEF PushStore, FlagInv
  <2>3. QED
    BY <1>0, <1>9, <2>1, <2>2 DEF PushStore, ReadInv, PushInv, TypeOK
<1>10. ASSUME NEW p \in Producers, PushPublish(p) PROVE ReadInv' /\ PushInv'
  <2>1. \A o \in Producers : o # p => pc[o] = "idle"
    BY <1>0, <1>10 DEF PushPublish, FrameInv
  <2>2. pc["task"] \in {"kmain", "user", "woken"}
    BY <1>0, <1>10 DEF PushPublish, FlagInv
  <2>3. QED
    BY <1>0, <1>10, <2>1, <2>2 DEF PushPublish, ReadInv, PushInv, TypeOK, Return
<1>11. CASE EnableInterrupts \/ JumpToUser \/ Syscall \/ ReadSteps
  <2>1. cur = "task" /\ \A p \in Producers : pc[p] = "idle"
    BY <1>0, <1>11 DEF EnableInterrupts, JumpToUser, Syscall, ReadSteps,
       CheckAvailable, StiHlt, Cli, CopyLoop, PopLoad, PopAdvance, TaskAt, FrameInv
  <2>2. PushInv'
    BY <1>0, <1>11, <2>1 DEF EnableInterrupts, JumpToUser, Syscall, ReadSteps,
       CheckAvailable, StiHlt, Cli, CopyLoop, PopLoad, PopAdvance, TaskAt, PushInv
  <2>3. CASE EnableInterrupts \/ JumpToUser \/ Syscall
    BY <1>0, <2>2, <2>3 DEF EnableInterrupts, JumpToUser, Syscall, TaskAt, ReadInv
  <2>4. CASE CheckAvailable \/ StiHlt \/ Cli
    BY <1>0, <2>2, <2>4 DEF CheckAvailable, input_available, StiHlt, Cli, TaskAt, ReadInv
  <2>5. CASE CopyLoop
    BY <1>0, <2>2, <2>5 DEF CopyLoop, input_available, TaskAt, ReadInv, TypeOK
  <2>6. CASE PopLoad \/ PopAdvance
    BY <1>0, <2>2, <2>6 DEF PopLoad, PopAdvance, TaskAt, ReadInv, TypeOK
  <2>7. QED
    BY <1>11, <2>3, <2>4, <2>5, <2>6 DEF ReadSteps
<1>12. QED
  BY <1>1, <1>2, <1>3, <1>4, <1>5, <1>6, <1>7, <1>8, <1>9, <1>10, <1>11
     DEF Next, Handlers

(* IInv is inductive. *)
THEOREM Invariance == SafetySpec => []IInv
<1>1. IInv /\ [Next]_vars => IInv'
  BY TypeStep, FlowStep, RingStep DEF IInv
<1>2. QED
  BY InitIInv, <1>1, PTL DEF SafetySpec

(* The ring's indices stay inside the buffer, whatever its size, and every *)
(* other variable in its range.                                            *)
THEOREM TypeCorrect == SafetySpec => []TypeOK
<1>1. IInv => TypeOK
  BY DEF IInv
<1>2. QED
  BY Invariance, <1>1, PTL

(* EFF_READ never sleeps in hlt on a ring that holds a character. *)
THEOREM WakeupNotLost == SafetySpec => []NoLostWakeup
<1>1. IInv => NoLostWakeup
  BY DEF IInv, ReadInv, NoLostWakeup
<1>2. QED
  BY Invariance, <1>1, PTL

(* input_push of the two handlers and input_pop never overlap: the gates   *)
(* of init_idt are all the locking the ring needs.                         *)
THEOREM ExclusiveAccess == SafetySpec => []RingAccessExclusive
<1>1. IInv => RingAccessExclusive
  BY DEF IInv, FrameInv, FlagInv, RingAccessExclusive, InRing, Irqs, Producers
<1>2. QED
  BY Invariance, <1>1, PTL

(* EFF_READ returns at least one byte if it was asked for any. *)
THEOREM ReadNotEmpty == SafetySpec => []ReadReturnsData
<1>1. IInv => ReadReturnsData
  BY DEF IInv, ReadInv, ReadReturnsData
<1>2. QED
  BY Invariance, <1>1, PTL

-------------------------------------------------------------------------------
(* Refinement *)

(* The abstract queue is a sequence over Chars and NUL of the ring's length. *)
LEMMA ContentsType ==
    ASSUME TypeOK
    PROVE  /\ Count \in 0 .. INPUT_BUFFER_SIZE - 1
           /\ \A k \in 1 .. Count : Slot(k - 1) \in Cells /\ Slot(k - 1) # head
           /\ Contents \in Seq(Chars \cup {NUL}) /\ Len(Contents) = Count
           /\ \A k \in 1 .. Count : Contents[k] = buffer[Slot(k - 1)]
<1>1. Count \in 0 .. INPUT_BUFFER_SIZE - 1
  BY DEF TypeOK, Cells, Count
<1>2. \A k \in 1 .. Count : Slot(k - 1) \in Cells /\ Slot(k - 1) # head
  BY DEF TypeOK, Cells, Count, Slot
<1>3. \A k \in 1 .. Count : buffer[Slot(k - 1)] \in Chars \cup {NUL}
  BY <1>2 DEF TypeOK
<1>4. Contents \in [1 .. Count -> Chars \cup {NUL}]
  BY <1>3 DEF Contents
<1>5. Contents \in Seq(Chars \cup {NUL}) /\ Len(Contents) = Count
  BY <1>1, <1>4
<1>6. QED
  BY <1>1, <1>2, <1>5 DEF Contents

(* The test of input_push is exact: the ring is full when SIZE - 1         *)
(* characters wait, and the test of input_available is exact too.          *)
LEMMA FullAndEmpty ==
    ASSUME TypeOK
    PROVE  /\ Succ(head) = tail <=> Count = INPUT_BUFFER_SIZE - 1
           /\ head = tail <=> Count = 0
<1>1. head \in Cells /\ tail \in Cells
  BY DEF TypeOK
<1>2. Succ(head) = IF head + 1 < INPUT_BUFFER_SIZE THEN head + 1 ELSE 0
  BY <1>1, SuccCases
<1>3. QED
  BY <1>1, <1>2 DEF Cells, Count

(* head = next appends the stored character to the abstract queue. *)
LEMMA PublishAccepts ==
    ASSUME IInv, IInv', NEW p \in Producers, PushPublish(p)
    PROVE  Abstract!Accept(c[p])
<1>0. TypeOK /\ TypeOK' /\ c[p] \in Chars
  BY DEF IInv, PushInv, PushPublish, InRing
<1>1. /\ head' = Succ(head) /\ head' # tail /\ buffer[head] = c[p]
      /\ tail' = tail /\ buffer' = buffer
  BY DEF IInv, PushInv, PushPublish
<1>2. Count' = Count + 1 /\ Slot(Count) = head /\ \A k \in Nat : Slot(k)' = Slot(k)
  <2>1. head \in Cells /\ tail \in Cells
    BY <1>0 DEF TypeOK
  <2>2. head' = IF head + 1 < INPUT_BUFFER_SIZE THEN head + 1 ELSE 0
    BY <1>1, <2>1, SuccCases
  <2>3. Count' = Count + 1
    BY <1>1, <2>1, <2>2 DEF Cells, Count
  <2>4. Slot(Count) = head
    BY <2>1 DEF Cells, Count, Slot
  <2>5. QED
    BY <1>1, <2>3, <2>4 DEF Slot
<1>3. Len(Contents) < INPUT_BUFFER_SIZE - 1
  BY <1>0, <1>1, FullAndEmpty, ContentsType
<1>4. /\ Contents' \in Seq(Chars \cup {NUL}) /\ Len(Contents') = Count'
      /\ \A k \in 1 .. Count' : Contents'[k] = buffer'[Slot(k - 1)']
  <2>1. (/\ Contents \in Seq(Chars \cup {NUL}) /\ Len(Contents) = Count
         /\ \A k \in 1 .. Count : Contents[k] = buffer[Slot(k - 1)])'
    BY <1>0, ContentsType, PTL
  <2>2. QED
    BY <2>1
<1>5. Contents' = Append(Contents, c[p])
  <2>1. /\ Append(Contents, c[p]) \in Seq(Chars \cup {NUL})
        /\ Len(Append(Contents, c[p])) = Count + 1
        /\ Append(Contents, c[p])[Count + 1] = c[p]
        /\ \A k \in 1 .. Count : Append(Contents, c[p])[k] = Contents[k]
    BY <1>0, ContentsType
  <2>2. \A k \in 1 .. Count + 1 : Contents'[k] = Append(Contents, c[p])[k]
    <3> TAKE k \in 1 .. Count + 1
    <3>1. CASE k = Count + 1
      BY <1>0, <1>1, <1>2, <1>4, <2>1, <3>1, ContentsType
    <3>2. CASE k \in 1 .. Count
      <4>1. Count \in Nat /\ Contents[k] = buffer[Slot(k - 1)]
        BY <1>0, <3>2, ContentsType
      <4>2. k \in 1 .. Count' /\ k - 1 \in Nat
        BY <1>2, <3>2, <4>1
      <4>3. Contents'[k] = buffer[Slot(k - 1)]
        BY <1>1, <1>2, <1>4, <4>2
      <4>4. QED
        BY <2>1, <3>2, <4>1, <4>3
    <3>3. QED
      BY <3>1, <3>2, <1>0, ContentsType
  <2>3. QED
    BY <1>2, <1>4, <2>1, <2>2, SeqEqual
<1>6. QED
  BY <1>3, <1>5 DEF Abstract!Accept, PushPublish, read

(* Advancing the tail takes the head of the abstract queue. *)
LEMMA AdvanceTakes ==
    ASSUME IInv, IInv', PopAdvance
    PROVE  Abstract!Take
<1>0. TypeOK /\ TypeOK'
  BY DEF IInv
<1>1. /\ tail' = Succ(tail) /\ head # tail /\ cell' = buffer[tail]
      /\ head' = head /\ buffer' = buffer /\ outcome' = outcome
  BY DEF IInv, ReadInv, PopAdvance, TaskAt, push
<1>2. Count' = Count - 1 /\ Slot(0) = tail /\ \A k \in 0 .. Count - 2 : Slot(k)' = Slot(k + 1)
  <2>1. head \in Cells /\ tail \in Cells
    BY <1>0 DEF TypeOK
  <2>2. tail' = IF tail + 1 < INPUT_BUFFER_SIZE THEN tail + 1 ELSE 0
    BY <1>1, <2>1, SuccCases
  <2>3. Count' = Count - 1
    BY <1>1, <2>1, <2>2 DEF Cells, Count
  <2>4. Slot(0) = tail
    BY <2>1 DEF Cells, Slot
  <2>5. \A k \in 0 .. Count - 2 : Slot(k)' = Slot(k + 1)
    BY <2>1, <2>2 DEF Cells, Count, Slot
  <2>6. QED
    BY <2>3, <2>4, <2>5
<1>3. Count > 0 /\ Contents # << >> /\ Head(Contents) = buffer[tail]
  BY <1>0, <1>1, <1>2, FullAndEmpty, ContentsType
<1>4. /\ Contents' \in Seq(Chars \cup {NUL}) /\ Len(Contents') = Count'
      /\ \A k \in 1 .. Count' : Contents'[k] = buffer'[Slot(k - 1)']
  <2>1. (/\ Contents \in Seq(Chars \cup {NUL}) /\ Len(Contents) = Count
         /\ \A k \in 1 .. Count : Contents[k] = buffer[Slot(k - 1)])'
    BY <1>0, ContentsType, PTL
  <2>2. QED
    BY <2>1
<1>5. Contents' = Tail(Contents)
  <2>1. /\ Tail(Contents) \in Seq(Chars \cup {NUL})
        /\ Len(Tail(Contents)) = Count - 1
        /\ \A k \in 1 .. Count - 1 : Tail(Contents)[k] = Contents[k + 1]
    BY <1>0, <1>3, ContentsType
  <2>2. \A k \in 1 .. Count - 1 : Contents'[k] = Tail(Contents)[k]
    <3> TAKE k \in 1 .. Count - 1
    <3>1. Contents'[k] = buffer[Slot(k - 1)']
      BY <1>0, <1>1, <1>2, <1>4, ContentsType
    <3>2. Slot(k - 1)' = Slot(k)
      BY <1>0, <1>2, ContentsType
    <3>3. Contents[k + 1] = buffer[Slot(k)]
      BY <1>0, ContentsType
    <3>4. QED
      BY <2>1, <3>1, <3>2, <3>3
  <2>3. QED
    BY <1>2, <1>4, <2>1, <2>2, SeqEqual
<1>6. QED
  BY <1>1, <1>3, <1>5 DEF Abstract!Take

(* A character stored beyond the newest one is not yet in the queue. *)
LEMMA StoreInvisible ==
    ASSUME IInv, NEW p \in Producers, PushStore(p)
    PROVE  Contents' = Contents
<1>1. TypeOK /\ buffer' = [buffer EXCEPT ![head] = c[p]] /\ head' = head /\ tail' = tail
  BY DEF IInv, PushStore
<1>2. Count' = Count /\ \A k \in 1 .. Count : Slot(k - 1)' = Slot(k - 1)
  BY <1>1 DEF Count, Slot
<1>3. \A k \in 1 .. Count : buffer'[Slot(k - 1)] = buffer[Slot(k - 1)]
  BY <1>1, ContentsType DEF TypeOK
<1>4. QED
  BY <1>2, <1>3 DEF Contents

LEMMA InitAbstract == Init => Abstract!Init
<1> SUFFICES ASSUME Init PROVE Abstract!Init
  OBVIOUS
<1>1. TypeOK
  BY InitIInv DEF IInv
<1>2. Contents = << >>
  BY <1>1, FullAndEmpty, ContentsType DEF Init
<1>3. QED
  BY <1>2 DEF Init, Abstract!Init

LEMMA StepAbstract == IInv /\ IInv' /\ [Next]_vars => [Abstract!Next]_Abstract!vars
<1> SUFFICES ASSUME IInv, IInv', [Next]_vars PROVE [Abstract!Next]_Abstract!vars
  OBVIOUS
<1> USE DEF ring, cpu, dev, push, read
<1>1. ASSUME UNCHANGED ring, UNCHANGED <<cell, outcome>>
      PROVE  UNCHANGED Abstract!vars
  BY <1>1 DEF Abstract!vars, Contents, Count, Slot
<1>2. CASE UNCHANGED vars
  BY <1>1, <1>2 DEF vars
<1>3. CASE Device
  BY <1>1, <1>3 DEF Device, PitTick, Ps2Scancode, UsbReport
<1>4. ASSUME NEW i \in Irqs, EnterIrq(i) \/ Iret(i) PROVE UNCHANGED Abstract!vars
  BY <1>1, <1>4 DEF EnterIrq, Iret
<1>5. CASE PitHandler \/ Ps2Handler \/ UsbHandler
  BY <1>1, <1>5 DEF PitHandler, Ps2Handler, UsbHandler
<1>6. ASSUME NEW p \in Producers, PushTest(p) PROVE [Abstract!Next]_Abstract!vars
  <2>1. CASE Succ(head) # tail
    BY <1>1, <1>6, <2>1 DEF PushTest
  <2>2. CASE Succ(head) = tail
    <3>1. Len(Contents) = INPUT_BUFFER_SIZE - 1
      BY <2>2, FullAndEmpty, ContentsType DEF IInv
    <3>2. Contents' = Contents
      BY <1>6 DEF PushTest, Contents, Count, Slot
    <3>3. Abstract!Refuse
      BY <1>6, <2>2, <3>1, <3>2 DEF PushTest, Abstract!Refuse
    <3>4. QED
      BY <3>3 DEF Abstract!Next
  <2>3. QED
    BY <2>1, <2>2
<1>7. ASSUME NEW p \in Producers, PushStore(p) PROVE UNCHANGED Abstract!vars
  BY <1>7, StoreInvisible DEF PushStore, Abstract!vars
<1>8. ASSUME NEW p \in Producers, PushPublish(p) PROVE Abstract!Next
  <2>1. c[p] \in Chars
    BY <1>8 DEF IInv, PushInv, PushPublish, InRing
  <2>2. QED
    BY <1>8, <2>1, PublishAccepts DEF Abstract!Next
<1>9. CASE EnableInterrupts \/ JumpToUser \/ Syscall
  BY <1>1, <1>9 DEF EnableInterrupts, JumpToUser, Syscall
<1>10. CASE CheckAvailable \/ StiHlt \/ Cli \/ CopyLoop \/ PopLoad
  BY <1>1, <1>10 DEF CheckAvailable, StiHlt, Cli, CopyLoop, PopLoad
<1>11. CASE PopAdvance
  BY <1>11, AdvanceTakes DEF Abstract!Next
<1>12. QED
  BY <1>2, <1>3, <1>4, <1>5, <1>6, <1>7, <1>8, <1>9, <1>10, <1>11
     DEF Next, Handlers, ReadSteps

(* The interrupt-driven ring implements the bounded FIFO: no character is  *)
(* lost, duplicated or reordered, and one is refused only on a full ring.  *)
THEOREM Refinement == SafetySpec => RefinesCharQueue
<1>1. QED
  BY Invariance, InitAbstract, StepAbstract, PTL DEF SafetySpec, RefinesCharQueue, Abstract!Spec
===============================================================================
