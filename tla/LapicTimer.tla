------------------------------- MODULE LapicTimer ------------------------------
(***************************************************************************)
(* lapic_timer_init of arch/x86_64/lapic.c: the LAPIC timer is measured    *)
(* against the PIT, then set up.  Time is counted in steps of the LAPIC's  *)
(* counter; a period of the PIT is Pit of them.  Between two steps of the  *)
(* code up to Delay of them may pass, for its instructions and for the     *)
(* interrupts served meanwhile; asleep in hlt, any number.                 *)
(***************************************************************************)
EXTENDS Integers

CONSTANTS
    Pit,        \* counter steps in a period of the PIT
    Delay,      \* counter steps that a step of the code may take
    Hz,         \* lapic_timer_init's parameter (100)
    MinTicks    \* least initial count (32)

DelayAssumption == Pit \in Nat /\ Delay \in Nat /\ Delay < Pit

\* Periods of the timer in the 50 ms of five ticks.
Periods == (50 * Hz) \div 1000

\* The divisor is not zero: the only caller passes 100.
HzAssumption == Hz \in Nat /\ Periods > 0 /\ MinTicks \in Nat

VARIABLES
    pc,         \* "calibrate", "begun", "check", "halt", "asleep", "read", "arm" or "armed"
    phase,      \* steps since the last tick of the PIT
    ticks,      \* pit_ticks, from the start of the measurement on
    start,
    used,       \* steps that the code has taken since it last did something
    elapsed,    \* 0xFFFFFFFF less the counter
    lvt,        \* "off", "on" or "masked"
    initial,    \* ticks_per_period, written to the initial count
    cur,        \* the counter, once armed
    lapic_ticks \* capped at 1

vars == <<pc, phase, ticks, start, used, elapsed, lvt, initial, cur, lapic_ticks>>

Init ==
    /\ pc = "calibrate" /\ phase \in 0 .. Pit - 1
    /\ ticks = 0 /\ start = 0 /\ used = 0 /\ elapsed = 0
    /\ lvt = "off" /\ initial = 0 /\ cur = 0 /\ lapic_ticks = 0

--------------------------------------------------------------------------------
(* The hardware (external) and pit_handler *)

Measuring == pc \in {"begun", "check", "halt", "asleep", "read"}

\* Time passes; the PIT may tick, which pit_handler counts and which ends a hlt.
Tick ==
    /\ pc \notin {"calibrate", "armed"}
    /\ pc # "asleep" => used < Delay
    /\ phase' = (phase + 1) % Pit
    /\ ticks' = IF phase' = 0 THEN ticks + 1 ELSE ticks
    /\ elapsed' = IF Measuring THEN elapsed + 1 ELSE elapsed
    /\ IF pc = "asleep" /\ phase' = 0
       THEN pc' = "check" /\ used' = 0
       ELSE used' = (IF pc = "asleep" THEN 0 ELSE used + 1) /\ UNCHANGED pc
    /\ UNCHANGED <<start, lvt, initial, cur, lapic_ticks>>

\* Another interrupt ends the hlt as well.
Wake ==
    /\ pc = "asleep"
    /\ pc' = "check" /\ used' = 0
    /\ UNCHANGED <<phase, ticks, start, elapsed, lvt, initial, cur, lapic_ticks>>

\* The armed counter runs down, once; at zero it interrupts if it may, and
\* lapic_timer_handler counts.
CountDown ==
    /\ pc = "armed" /\ cur > 0
    /\ cur' = cur - 1
    /\ lapic_ticks' = IF cur' = 0 /\ lvt = "on" THEN 1 ELSE lapic_ticks
    /\ UNCHANGED <<pc, phase, ticks, start, used, elapsed, lvt, initial>>

--------------------------------------------------------------------------------
(* lapic_timer_init *)

Go(to) == pc' = to /\ used' = 0

Begin ==
    /\ pc = "calibrate"
    /\ lvt' = "on"
    /\ Go("begun")
    /\ UNCHANGED <<phase, ticks, start, elapsed, initial, cur, lapic_ticks>>

ReadStart ==
    /\ pc = "begun"
    /\ start' = ticks
    /\ Go("check")
    /\ UNCHANGED <<phase, ticks, elapsed, lvt, initial, cur, lapic_ticks>>

WaitedFour == ticks - start >= 4
Waited     == ticks - start >= 5

Check ==
    /\ pc = "check"
    /\ Go(IF Waited THEN "read" ELSE "halt")
    /\ UNCHANGED <<phase, ticks, start, elapsed, lvt, initial, cur, lapic_ticks>>

HaltOff ==
    /\ pc = "halt"
    /\ Go("off")
    /\ UNCHANGED <<phase, ticks, start, elapsed, lvt, initial, cur, lapic_ticks>>

\* A tick between the check and this hlt does not end it.
Halt ==
    /\ pc = "halt"
    /\ Go("asleep")
    /\ UNCHANGED <<phase, ticks, start, elapsed, lvt, initial, cur, lapic_ticks>>

ticks_per_period ==
    LET n == elapsed \div Periods
    IN  IF n < MinTicks THEN MinTicks ELSE n

ReadCounter ==
    /\ pc = "read"
    /\ initial' = ticks_per_period
    /\ Go("arm")
    /\ UNCHANGED <<phase, ticks, start, elapsed, lvt, cur, lapic_ticks>>

\* LAPIC_TIMER_VECTOR | (1u << 16), and the initial count.
Arm ==
    /\ pc = "arm"
    /\ lvt' = "masked"
    /\ cur' = initial
    /\ Go("armed")
    /\ UNCHANGED <<phase, ticks, start, elapsed, initial, lapic_ticks>>

lapic_timer_init == Begin \/ ReadStart \/ Check \/ Halt \/ ReadCounter \/ Arm

Next == lapic_timer_init \/ Tick \/ Wake \/ CountDown

\* Time passes and the code runs.
Spec == Init /\ [][Next]_vars /\ WF_vars(lapic_timer_init) /\ WF_vars(Tick) /\ WF_vars(CountDown)

--------------------------------------------------------------------------------
(* Properties *)

(* Five ticks are counted from the middle of a period, and the last may    *)
(* fall between the check and the hlt: the count stands for at least four  *)
(* periods and at most six and what the code takes, so that the rate is    *)
(* off by no more than a fifth and three delays.                           *)
CalibrationBounds ==
    pc \in {"arm", "armed"} =>
        /\ 4 * Pit <= elapsed /\ elapsed <= 6 * Pit + 3 * Delay
        /\ initial >= MinTicks /\ (initial > MinTicks => Periods * initial <= 6 * Pit + 3 * Delay)

(* No lost wake-up stops the measurement, since the PIT goes on.           *)
CalibrationEnds == pc = "calibrate" ~> pc = "armed"

(* "LAPIC: timer at %d Hz": the timer interrupts.                          *)
TimerTicks == <>(lapic_ticks > 0)
================================================================================
