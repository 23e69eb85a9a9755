------------------------------ MODULE CharQueue ------------------------------
(***************************************************************************)
(* What the keyboard input path promises its reader: a bounded FIFO of     *)
(* characters.  A character offered while there is room is accepted and is *)
(* handed to the reader later, once, in the order of acceptance.  A        *)
(* character offered to a full queue is refused, and nothing else is ever  *)
(* refused.  KeyInput is the implementation.                               *)
(***************************************************************************)
EXTENDS Naturals, Sequences

CONSTANTS
    Chars,     \* the characters a key can produce
    NUL,       \* what the reader's cell holds before the first character
    Capacity   \* how many characters the queue holds

VARIABLES
    q,         \* accepted and not yet handed over, oldest first
    cell,      \* the character handed over last
    outcome    \* what became of the character offered last

vars == <<q, cell, outcome>>

Outcomes == {"none", "accepted", "refused"}

Init ==
    /\ q = << >>
    /\ cell = NUL
    /\ outcome = "none"

\* A character is offered and there is room for it.
Accept(c) ==
    /\ Len(q) < Capacity
    /\ q' = Append(q, c)
    /\ outcome' = "accepted"
    /\ UNCHANGED cell

\* A character is offered to a full queue.
Refuse ==
    /\ Len(q) = Capacity
    /\ outcome' = "refused"
    /\ UNCHANGED <<q, cell>>

\* The reader takes the oldest character.
Take ==
    /\ q # << >>
    /\ cell' = Head(q)
    /\ q' = Tail(q)
    /\ UNCHANGED outcome

Next == Take \/ Refuse \/ \E c \in Chars : Accept(c)

Spec == Init /\ [][Next]_vars
==============================================================================
