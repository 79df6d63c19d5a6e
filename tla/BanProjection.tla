---------------------------- MODULE BanProjection ----------------------------
(***************************************************************************)
(* From the observations of one member's bans and unbans to the actions     *)
(* that are counted (nhmoderation/projection.py).  The same ban is seen by  *)
(* several sources: a Red ModLog case, the audit log, the gateway and the   *)
(* list of active bans.  project_actions puts together what belongs to one  *)
(* ban; BanChart counts the actions.                                        *)
(*                                                                         *)
(* An observation is [source, hint, at, of, erased, run]: "hackban" and     *)
(* "tempban" go as "ban", at is when it occurred (for the gateway when it   *)
(* was handled, for the list of active bans when it was read), erased says  *)
(* that the member is no longer named, run tells the readings of the list   *)
(* apart.  The deed it is of is history: no operator of this module asks.   *)
(***************************************************************************)
EXTENDS Naturals, FiniteSets, Sequences, SequencesExt

CONSTANT CorrelationWindow

WindowAssumption == CorrelationWindow \in Nat

Sources == {"red_modlog", "discord_audit", "discord_gateway", "discord_ban_snapshot"}
Repeating == {"discord_gateway", "discord_ban_snapshot"}

\* The order of the rows, the time first and then the order they were stored in.
Rank(o) == CASE o.source = "red_modlog" -> 1
             [] o.source = "discord_audit" -> 2
             [] o.source = "discord_gateway" -> 3
             [] o.source = "discord_ban_snapshot" -> 4 + o.run
Before(a, b) == a.at < b.at \/ (a.at = b.at /\ Rank(a) < Rank(b))
Ordered(rows) ==
    [i \in 1..Cardinality(rows) |->
        CHOOSE a \in rows : Cardinality({b \in rows : Before(b, a)}) = i - 1]

Transition(o) == IF o.hint = "softban" THEN "none" ELSE o.hint
Distance(a, b) == IF a.at < b.at THEN b.at - a.at ELSE a.at - b.at
Named(a, b) == ~a.erased /\ ~b.erased
Matches(a, b) == Named(a, b) /\ Distance(a, b) <= CorrelationWindow

MatchesEvidence(a, b) ==
    \/ Matches(a, b)
    \/ /\ Named(a, b) /\ "discord_ban_snapshot" \in {a.source, b.source}
       /\ Transition(a) = "ban" /\ Transition(b) = "ban"

\* Nothing of the opposite kind lies between the two.
SameTransition(a, b, rows) ==
    /\ Transition(a) = Transition(b) /\ Transition(a) # "none"
    /\ ~ \E c \in rows :
          /\ c.erased = a.erased /\ Transition(c) \notin {"none", Transition(a)}
          /\ (Before(a, c) /\ Before(c, b)) \/ (Before(b, c) /\ Before(c, a))

Nearer(a, b, c) ==
    Distance(a, b) < Distance(a, c) \/ (Distance(a, b) = Distance(a, c) /\ Before(b, c))

\* The nearest one to a, or none.
Nearest(a, choice) == {b \in choice : \A c \in choice \ {b} : Nearer(a, b, c)}

\* A softban takes the nearest ban and the nearest unban.
SoftbanGroup(a, free) ==
    LET near == {b \in free : b.hint \in {"ban", "unban"} /\ Matches(a, b)}
    IN {a} \cup UNION {Nearest(a, {b \in near : b.hint = kind}) : kind \in {"ban", "unban"}}

CompatibleAcross(a, b, rows) ==
    b # a /\ b.hint = a.hint /\ (b.source # a.source \/ a.source \in Repeating) /\ MatchesEvidence(a, b)

\* A ban or an unban takes one row of the ModLog, one of the audit log and all of the others.
Compatible(a, b, rows) ==
    /\ b # a /\ b.hint = a.hint /\ (b.source # a.source \/ a.source \in Repeating)
    /\ MatchesEvidence(a, b) /\ SameTransition(a, b, rows)

ActionGroup(a, free, rows) ==
    LET those == {b \in free : Compatible(a, b, rows)}
        From(source) == {b \in those : b.source = source}
    IN {a} \cup UNION {From(source) : source \in Repeating}
           \cup UNION {Nearest(a, From(source)) : source \in Sources \ Repeating}

\* One pass over the softbans and one over the rest; what is used is not used again.
Take(found, kind, group) ==
    [used |-> found.used \cup group,
     actions |-> found.actions \cup {[kind |-> kind, rows |-> group]}]

TakeSoftban(found, a, rows) ==
    IF a.hint # "softban" THEN found
    ELSE Take(found, "softban", SoftbanGroup(a, rows \ found.used))

TakeAction(found, a, rows) ==
    IF a.hint = "softban" \/ a \in found.used THEN found
    ELSE Take(found, a.hint, ActionGroup(a, rows \ found.used, rows))

ProjectActions(rows) ==
    LET softbans == FoldLeft(LAMBDA found, a : TakeSoftban(found, a, rows),
                             [used |-> {}, actions |-> {}], Ordered(rows))
    IN FoldLeft(LAMBDA found, a : TakeAction(found, a, rows), softbans,
                Ordered(rows)).actions

\* chart_rows counts bans that have a time; the list of active bans gives none.
Charted(rows) ==
    {action \in ProjectActions(rows) :
        action.kind = "ban" /\ \E o \in action.rows : o.source # "discord_ban_snapshot"}
=============================================================================
