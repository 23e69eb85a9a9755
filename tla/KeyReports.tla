------------------------------- MODULE KeyReports ------------------------------
(***************************************************************************)
(* process_keys of drivers/usb.cpp: which of the keys in a report of the   *)
(* keyboard are new.  When the driver polls, the keyboard reports the keys *)
(* that are down, in any of its places; with more keys down than there are *)
(* places it reports the rollover code in all of them.  A transfer that    *)
(* fails leaves the buffer as queue_interrupt_in_async cleared it.         *)
(***************************************************************************)
EXTENDS Integers, FiniteSets

CONSTANTS
    Places,     \* key codes in a report (6)
    Codes,      \* key codes, from 2 on
    Printing,   \* those for which hid_key_to_ascii has a character
    MaxGot      \* bound on the count of pushes in got

ASSUME CodesAssumption ==
    Printing \subseteq Codes /\ Codes \subseteq Nat \ {0, 1} /\ IsFiniteSet(Codes)

\* A second push of a key shows.
ASSUME ReportAssumption == Places \in Nat /\ MaxGot \in Nat /\ MaxGot >= 2

VARIABLES
    held,       \* keys that were down at the last poll
    intr_buf,   \* the key codes of the report
    prev_keys,
    report_pc,  \* "idle" or "keys"
    place,      \* process_keys' counter
    got,        \* ghost: characters pushed for a key since it went down
    plain       \* ghost: keys that have been down through plain reports only

reportVars == <<held, intr_buf, prev_keys, report_pc, place, got, plain>>

Rollover == 1

ReportsInit ==
    /\ held = {} /\ intr_buf = [p \in 1 .. Places |-> 0]
    /\ prev_keys = [p \in 1 .. Places |-> 0]
    /\ report_pc = "idle" /\ place = 1
    /\ got = [k \in Codes |-> 0] /\ plain = {}

--------------------------------------------------------------------------------
(* The keyboard (external) *)

\* The reports that list the keys in s, each in one place.
Listing(s) == {r \in [1 .. Places -> s \cup {0}] :
                  \A k \in s : Cardinality({p \in 1 .. Places : r[p] = k}) = 1}

Poll(s, reports, good) ==
    /\ report_pc = "idle"
    /\ held' = s
    /\ intr_buf' \in reports
    /\ got' = [k \in Codes |-> IF k \in s \ held THEN 0 ELSE got[k]]
    /\ plain' = IF good THEN (plain \cap s) \cup (s \ held) ELSE {}
    /\ report_pc' = "keys" /\ place' = 1
    /\ UNCHANGED prev_keys

Report ==
    \E s \in SUBSET Codes :
        IF Cardinality(s) <= Places THEN Poll(s, Listing(s), TRUE)
        ELSE Poll(s, {[p \in 1 .. Places |-> Rollover]}, FALSE)

Fail == Poll(held, {[p \in 1 .. Places |-> 0]}, FALSE)

--------------------------------------------------------------------------------
(* process_keys *)

hid_key_to_ascii(k) == k \in Printing

SeenInPlace(k) == prev_keys[place] = k
seen(k) == \E j \in 1 .. Places : prev_keys[j] = k

\* One place of the report: a key that is new and has a character is pushed.
ProcessKey ==
    LET k == intr_buf[place]
    IN  /\ report_pc = "keys" /\ place <= Places
        /\ got' = IF k # 0 /\ ~seen(k) /\ hid_key_to_ascii(k)
                  THEN [got EXCEPT ![k] = IF @ < MaxGot THEN @ + 1 ELSE @] ELSE got
        /\ place' = place + 1
        /\ UNCHANGED <<held, intr_buf, prev_keys, report_pc, plain>>

Remember ==
    /\ report_pc = "keys" /\ place > Places
    /\ prev_keys' = intr_buf
    /\ report_pc' = "idle"
    /\ UNCHANGED <<held, intr_buf, place, got, plain>>

ReportsNext == Report \/ Fail \/ ProcessKey \/ Remember

ReportsSpec == ReportsInit /\ [][ReportsNext]_reportVars

--------------------------------------------------------------------------------
(* Properties *)

(* A key that goes down is pushed exactly once however long it is held,    *)
(* while other keys come and go and move between the places of the report, *)
(* as long as no rollover and no failed transfer comes between.            *)
PushedOnce ==
    report_pc = "idle" => \A k \in plain \cap Printing : got[k] = 1
================================================================================
