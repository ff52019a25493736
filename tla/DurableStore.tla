---------------------------- MODULE DurableStore ----------------------------
(***************************************************************************)
(* What a durable store promises its callers: "the exposed state is always *)
(* the complete old or the complete new one".  `value` is the state last   *)
(* acknowledged or last shown by an open; `maybe` holds the commits started *)
(* since whose outcome no caller has been told.                            *)
(***************************************************************************)
EXTENDS Naturals

CONSTANT Values   \* what a commit stores: a record with a field seq

VARIABLES up, value, maybe

vars == <<up, value, maybe>>

Init == ~up /\ value \in Values /\ maybe = {}

\* A commit reaches the point where it may survive.  Sequences go up by one.
Attempt ==
    /\ up
    /\ \E v \in Values : v.seq = value.seq + 1 /\ maybe' = maybe \cup {v}
    /\ UNCHANGED <<up, value>>

\* It is acknowledged: from now on nothing older may ever be seen.
Acknowledge ==
    /\ up
    /\ value' \in maybe
    /\ maybe' = {}
    /\ UNCHANGED up

Stop == up /\ up' = FALSE /\ UNCHANGED <<value, maybe>>

\* An open shows the last known state or one unresolved commit, and by showing
\* it settles the question.
Recover ==
    /\ ~up /\ up'
    /\ value' \in {value} \cup maybe
    /\ maybe' = {}

Next == Attempt \/ Acknowledge \/ Stop \/ Recover

Spec == Init /\ [][Next]_vars

=============================================================================
