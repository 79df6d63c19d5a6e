-------------------------- MODULE PunishmentPromise --------------------------
(***************************************************************************)
(* What the operation queue promises about a punishment that must not be   *)
(* repeated (a kick): the intention is made durable before the request     *)
(* leaves, the request leaves at most once, and the verdict the moderators *)
(* read is true and final.  OperationQueue implements this specification.  *)
(***************************************************************************)
EXTENDS Naturals

CONSTANT Punishment

VARIABLES
    armed,      \* the effect marker is durable
    issued,     \* requests sent
    verdict     \* "open", or what was recorded

pvars == <<armed, issued, verdict>>

Init ==
    /\ armed = [p \in Punishment |-> FALSE]
    /\ issued = [p \in Punishment |-> 0]
    /\ verdict = [p \in Punishment |-> "open"]

Arm(p) ==
    /\ verdict[p] = "open"
    /\ armed' = [armed EXCEPT ![p] = TRUE]
    /\ UNCHANGED <<issued, verdict>>

\* The request may leave after the verdict only if the verdict says that the
\* outcome is unknown.
Issue(p) ==
    /\ armed[p]
    /\ issued[p] = 0
    /\ verdict[p] \in {"open", "unknown"}
    /\ issued' = [issued EXCEPT ![p] = 1]
    /\ UNCHANGED <<armed, verdict>>

Settle(p, v) ==
    /\ verdict[p] = "open"
    /\ v = "done" => issued[p] = 1
    /\ v = "none" => issued[p] = 0
    /\ v = "unknown" => armed[p]
    /\ verdict' = [verdict EXCEPT ![p] = v]
    /\ UNCHANGED <<armed, issued>>

Next ==
    \E p \in Punishment :
        \/ Arm(p)
        \/ Issue(p)
        \/ \E v \in {"done", "none", "unknown"} : Settle(p, v)

Spec == Init /\ [][Next]_pvars
=============================================================================
