---------------------------- MODULE ReviewPromise ----------------------------
(***************************************************************************)
(* What a ticket promises its reviewers: each is asked at most once, only  *)
(* while the ticket is open, never after he was ruled out, and no more of  *)
(* them than the budget allows.  Who had his data erased is forgotten, and *)
(* not asked any more.  Tickets implements this specification.             *)
(***************************************************************************)
EXTENDS Naturals, FiniteSets

CONSTANTS User, MaxPings

VARIABLES
    phase,      \* "draft", "open", "taken" or "closed"
    asks,       \* how often each user was asked
    out,        \* users ruled out: declined, timed out or unassigned
    erased      \* users whose data was erased

pvars == <<phase, asks, out, erased>>

Init ==
    /\ phase = "draft"
    /\ asks = [u \in User |-> 0]
    /\ out = {}
    /\ erased = {}

Publish ==
    /\ phase = "draft"
    /\ phase' = "open"
    /\ UNCHANGED <<asks, out, erased>>

Ask(u) ==
    /\ phase = "open"
    /\ asks[u] = 0
    /\ u \notin out \cup erased
    /\ Cardinality({v \in User : asks[v] > 0}) < MaxPings
    /\ asks' = [asks EXCEPT ![u] = 1]
    /\ UNCHANGED <<phase, out, erased>>

RuleOut(u) ==
    /\ phase = "open"
    /\ out' = out \cup {u}
    /\ UNCHANGED <<phase, asks, erased>>

Take ==
    /\ phase = "open"
    /\ phase' = "taken"
    /\ UNCHANGED <<asks, out, erased>>

GiveBack(u) ==
    /\ phase = "taken"
    /\ phase' = "open"
    /\ out' = out \cup {u}
    /\ UNCHANGED <<asks, erased>>

Closes ==
    /\ phase' = "closed"
    /\ out' = {}
    /\ asks' = [u \in User |-> 0]

Close == Closes /\ UNCHANGED erased

\* A ticket may end with the data of its author, and is given back with that of
\* the user who took it.
Forget(u) ==
    /\ u \notin erased
    /\ erased' = erased \cup {u}
    /\ \/ /\ phase' \in {phase} \cup (IF phase = "taken" THEN {"open"} ELSE {})
          /\ out' = out \ {u}
          /\ asks' = [asks EXCEPT ![u] = 0]
       \/ Closes

Next ==
    \/ Publish
    \/ Take
    \/ Close
    \/ \E u \in User : Ask(u) \/ RuleOut(u) \/ GiveBack(u) \/ Forget(u)

Spec == Init /\ [][Next]_pvars
=============================================================================
