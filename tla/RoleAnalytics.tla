--------------------------- MODULE RoleAnalytics ---------------------------
(***************************************************************************)
(* Role analytics (NHCogs/nhmisc/role_analytics_*.py): SQLite mirrors of a *)
(* guild's members and roles, kept by gateway events and replaced by full  *)
(* synchronizations that stage a new generation while the events wait.     *)
(*                                                                         *)
(* One guild.  A member is "out", "plain", or has the one "role".          *)
(***************************************************************************)
EXTENDS Naturals, Sequences, FiniteSets

CONSTANTS
    Tracked,            \* members
    MaxGeneration,      \* generations that may exist at once
    AnalyticsLimits     \* what may happen of changes, gaps, faults, crashes, toggles

AnalyticsAssumption ==
    /\ MaxGeneration \in Nat \ {0}
    /\ AnalyticsLimits \subseteq
         [{"changes", "gaps", "faults", "crashes", "toggles"} -> Nat]

VARIABLES
    guild,          \* the member cache of the guild
    inbox,          \* events whose listeners wait for the event lock, in order
    analytics,      \* role_analytics_state
    mirror,         \* role_analytics_members and memberships, by generation
    applying,       \* the event the holder of the event lock applies, to which generation
    registered,     \* _sync_generations: the generation being staged, or 0
    waiting,        \* _event_queues
    sync,           \* the synchronization that holds the sync lock
    retrying,       \* the guild has a retry task
    disabling,      \* disable_guild waits for the sync lock
    straggler,      \* a generation a cancelled task's thread has yet to activate
    requested,      \* reconciliations that have marked the guild and not yet run
    missed,         \* a change reached the cache without an event, or an event was lost
    chances         \* what may still happen

analyticsVars == <<guild, inbox, analytics, mirror, applying, registered, waiting, sync,
                   retrying, disabling, straggler, requested, missed, chances>>

Membership == {"out", "plain", "role"}
Generation == 1..MaxGeneration
NoRows == [u \in Tracked |-> "out"]
Disabled == [enabled |-> FALSE, status |-> "disabled", active |-> 0]
NoEvent == [generation |-> 0, kind |-> "none", user |-> "none", to |-> "out"]
NoSync == [step |-> "none", by |-> "none", generation |-> 0, snapshot |-> NoRows,
           events |-> <<>>, missed |-> FALSE]

\* next_generation takes one above the highest in use; here it is any that is not in
\* use, so that numbers can be used again.
InUse(g) == mirror[g] # NoRows \/ analytics.active = g \/ straggler = g
Unused == CHOOSE g \in Generation : ~InUse(g)

Can(what) == chances[what] > 0 /\ chances' = [chances EXCEPT ![what] = @ - 1]
Apply(rows, e) ==
    IF e.kind = "replace" THEN [rows EXCEPT ![e.user] = e.to]
    ELSE [u \in Tracked |-> IF rows[u] = "role" THEN "plain" ELSE rows[u]]
Goes(s) == sync' = [sync EXCEPT !.step = s]

Init ==
    /\ guild \in [Tracked -> {"plain"}]
    /\ inbox = <<>> /\ analytics = Disabled
    /\ mirror = [g \in Generation |-> NoRows]
    /\ applying = NoEvent /\ registered = 0 /\ waiting = <<>>
    /\ sync = NoSync /\ retrying = FALSE /\ disabling = FALSE /\ straggler = 0
    /\ requested = FALSE /\ missed = FALSE
    /\ chances \in AnalyticsLimits

----------------------------------------------------------------------------
(* The gateway: the cache changes and a listener starts.                    *)
MemberChanges(u, to) ==
    /\ Can("changes") /\ guild[u] # to
    /\ guild' = [guild EXCEPT ![u] = to]
    /\ inbox' = Append(inbox, [generation |-> 0, kind |-> "replace", user |-> u, to |-> to])
    /\ UNCHANGED <<analytics, mirror, applying, registered, waiting, sync, retrying,
                   disabling, straggler, requested, missed>>

RoleDeleted ==
    /\ Can("changes") /\ \E u \in Tracked : guild[u] = "role"
    /\ guild' = Apply(guild, [NoEvent EXCEPT !.kind = "remove_role"])
    /\ inbox' = Append(inbox, [NoEvent EXCEPT !.kind = "remove_role"])
    /\ UNCHANGED <<analytics, mirror, applying, registered, waiting, sync, retrying,
                   disabling, straggler, requested, missed>>

\* A session that could not be resumed: the cache comes back without the events.
Gap(u, to) ==
    /\ Can("gaps") /\ guild[u] # to /\ inbox = <<>> /\ applying = NoEvent
    /\ guild' = [guild EXCEPT ![u] = to] /\ missed' = TRUE
    /\ sync' = [sync EXCEPT !.missed = TRUE]
    /\ UNCHANGED <<inbox, analytics, mirror, applying, registered, waiting, retrying,
                   disabling, straggler, requested>>

\* delete_user_everywhere takes a member out of every generation.
EraseMember(u) ==
    /\ Can("gaps") /\ \E g \in Generation : mirror[g][u] # "out"
    /\ mirror' = [g \in Generation |-> [mirror[g] EXCEPT ![u] = "out"]]
    /\ missed' = TRUE /\ sync' = [sync EXCEPT !.missed = TRUE]
    /\ UNCHANGED <<guild, inbox, analytics, applying, registered, waiting, retrying,
                   disabling, straggler, requested>>

\* _submit_event: the event waits for the synchronization, or for its turn to be applied
\* to the active generation, or concerns nobody.
EventFree == applying = NoEvent
Staging == registered # 0

Submit ==
    /\ inbox # <<>> /\ EventFree
    /\ inbox' = Tail(inbox)
    /\ IF Staging
       THEN waiting' = Append(waiting, Head(inbox)) /\ UNCHANGED applying
       ELSE /\ applying' = IF analytics.enabled /\ analytics.active # 0
                           THEN [Head(inbox) EXCEPT !.generation = analytics.active]
                           ELSE NoEvent
            /\ UNCHANGED waiting
    /\ UNCHANGED <<guild, analytics, mirror, registered, sync, retrying, disabling,
                   straggler, requested, missed, chances>>

\* _apply_event; the listener may fail.
ApplyEvent ==
    /\ applying # NoEvent
    /\ applying' = NoEvent
    /\ \/ /\ mirror' = [mirror EXCEPT ![applying.generation] = Apply(@, applying)]
          /\ UNCHANGED <<missed, chances>>
       \/ Can("faults") /\ missed' = TRUE /\ UNCHANGED mirror
    /\ UNCHANGED <<guild, inbox, analytics, registered, waiting, sync, retrying,
                   disabling, straggler, requested>>

----------------------------------------------------------------------------
(* sync_guild.                                                              *)
EnabledAndReady == analytics.status = "ready"

Enabled == analytics.enabled

StartSync(by) ==
    /\ sync.step = "none" /\ ~disabling
    /\ by # "manual" => Enabled
    /\ sync' = [NoSync EXCEPT !.step = "number", !.by = by]
    /\ UNCHANGED <<guild, inbox, analytics, mirror, applying, registered, waiting,
                   disabling, straggler, missed>>

\* The command; the reconciliations of the start, of a resumed session and of the day,
\* which mark the guild first; and the retry.
ManualSync ==
    /\ Can("toggles") /\ StartSync("manual") /\ UNCHANGED <<retrying, requested>>
Request ==
    /\ analytics.enabled /\ ~requested
    /\ analytics' = [analytics EXCEPT !.status = "needs_reconciliation"]
    /\ requested' = TRUE
    /\ UNCHANGED <<guild, inbox, mirror, applying, registered, waiting, sync, retrying,
                   disabling, straggler, missed, chances>>
Reconcile ==
    /\ requested /\ requested' = FALSE
    /\ IF Enabled /\ sync.step = "none" /\ ~disabling
       THEN StartSync("auto") /\ UNCHANGED <<retrying, chances>>
       ELSE UNCHANGED <<guild, inbox, analytics, mirror, applying, registered, waiting,
                        sync, retrying, disabling, straggler, missed, chances>>
Retry ==
    /\ retrying /\ sync.step = "none"
    /\ IF Enabled THEN StartSync("retry") /\ UNCHANGED retrying
       ELSE /\ retrying' = FALSE
            /\ UNCHANGED <<guild, inbox, analytics, mirror, applying, registered, waiting,
                           sync, disabling, straggler, missed>>
    /\ UNCHANGED <<requested, chances>>

NextGeneration ==
    /\ sync.step = "number"
    /\ analytics' = [analytics EXCEPT !.status = "syncing"]
    /\ sync' = [sync EXCEPT !.step = "register", !.generation = Unused]
    /\ UNCHANGED <<guild, inbox, mirror, applying, registered, waiting, retrying,
                   disabling, straggler, requested, missed, chances>>

\* From here the events wait.
Register ==
    /\ sync.step = "register" /\ EventFree
    /\ registered' = sync.generation /\ waiting' = <<>>
    /\ Goes("snapshot")
    /\ UNCHANGED <<guild, inbox, analytics, mirror, applying, retrying, disabling,
                   straggler, requested, missed, chances>>

\* guild.chunk, the check that the cache is complete and the copy of it.
Snapshot ==
    /\ sync.step = "snapshot"
    /\ sync' = [sync EXCEPT !.step = "write", !.snapshot = guild,
                             !.missed = sync.missed /\ waiting # <<>>]
    /\ UNCHANGED <<guild, inbox, analytics, mirror, applying, registered, waiting,
                   retrying, disabling, straggler, requested, missed, chances>>

WriteGeneration ==
    /\ sync.step = "write"
    /\ mirror' = [mirror EXCEPT ![sync.generation] = sync.snapshot]
    /\ sync' = [sync EXCEPT !.step = "replay", !.snapshot = NoRows]
    /\ UNCHANGED <<guild, inbox, analytics, applying, registered, waiting, retrying,
                   disabling, straggler, requested, missed, chances>>

\* _replay_and_activate: one turn of its loop under the event lock.
Activated(g) == [enabled |-> TRUE, status |-> "ready", active |-> g]
Replay ==
    /\ sync.step = "replay" /\ sync.events = <<>> /\ EventFree
    /\ IF waiting = <<>>
       THEN /\ analytics' = Activated(sync.generation)
            /\ registered' = 0 /\ missed' = sync.missed
            /\ Goes("sweep") /\ UNCHANGED waiting
       ELSE /\ sync' = [sync EXCEPT !.events = waiting] /\ waiting' = <<>>
            /\ UNCHANGED <<analytics, registered, missed>>
    /\ UNCHANGED <<guild, inbox, mirror, applying, retrying, disabling, straggler,
                   requested, chances>>

ReplayEvent ==
    /\ sync.step = "replay" /\ sync.events # <<>>
    /\ mirror' = [mirror EXCEPT ![sync.generation] = Apply(@, Head(sync.events))]
    /\ sync' = [sync EXCEPT !.events = Tail(@)]
    /\ UNCHANGED <<guild, inbox, analytics, applying, registered, waiting, retrying,
                   disabling, straggler, requested, missed, chances>>

Sweep ==
    /\ sync.step = "sweep"
    /\ mirror' = [g \in Generation |-> IF g = analytics.active THEN mirror[g] ELSE NoRows]
    /\ sync' = NoSync
    /\ retrying' = (retrying /\ sync.by # "retry")
    /\ UNCHANGED <<guild, inbox, analytics, applying, registered, waiting, disabling,
                   straggler, requested, missed, chances>>

\* What sync_guild does with an exception: the events that waited are gone, also for the
\* generation that stays in service.
FailSync ==
    /\ sync.step \in {"register", "snapshot", "write", "replay", "sweep"}
    /\ Can("faults") /\ sync' = [sync EXCEPT !.step = "failed"]
    /\ UNCHANGED <<guild, inbox, analytics, mirror, applying, registered, waiting,
                   retrying, disabling, straggler, requested, missed>>

CleanUp ==
    /\ sync.step = "failed" /\ EventFree
    /\ registered' = 0 /\ waiting' = <<>>
    /\ mirror' = [mirror EXCEPT ![sync.generation] = NoRows]
    /\ analytics' = [analytics EXCEPT !.status = IF sync.by = "manual" THEN "failed"
                                                 ELSE "retrying"]
    /\ retrying' = (retrying \/ sync.by # "manual")
    /\ sync' = NoSync
    /\ UNCHANGED <<guild, inbox, applying, disabling, straggler, requested, missed, chances>>

----------------------------------------------------------------------------
(* disable_guild cancels the retry, whose thread goes on, and waits for the *)
(* sync lock.                                                               *)
Disable ==
    /\ ~disabling /\ Can("toggles")
    /\ disabling' = TRUE /\ retrying' = FALSE
    /\ IF sync.by = "retry"
       THEN /\ sync' = NoSync
            /\ straggler' \in (IF sync.step = "replay" /\ sync.events = <<>>
                               THEN {0, sync.generation} ELSE {0})
       ELSE UNCHANGED <<sync, straggler>>
    /\ UNCHANGED <<guild, inbox, analytics, mirror, applying, registered, waiting,
                   requested, missed>>

ClearGuild ==
    /\ disabling /\ sync.step = "none"
    /\ disabling' = FALSE
    /\ analytics' = Disabled /\ mirror' = [g \in Generation |-> NoRows]
    /\ UNCHANGED <<guild, inbox, applying, registered, waiting, sync, retrying, straggler,
                   requested, missed, chances>>

\* The thread activates only a generation that still has its rows.
Straggle ==
    /\ straggler # 0
    /\ analytics' = IF mirror[straggler] # NoRows THEN Activated(straggler) ELSE analytics
    /\ missed' = (missed \/ mirror[straggler] # NoRows)
    /\ straggler' = 0
    /\ UNCHANGED <<guild, inbox, mirror, applying, registered, waiting, sync, retrying,
                   disabling, requested, chances>>

Restart ==
    /\ Can("crashes")
    /\ inbox' = <<>> /\ applying' = NoEvent /\ registered' = 0 /\ waiting' = <<>>
    /\ sync' = NoSync /\ retrying' = FALSE /\ disabling' = FALSE /\ straggler' = 0
    /\ requested' = FALSE /\ missed' = TRUE
    /\ UNCHANGED <<guild, analytics, mirror>>

Next ==
    \/ \E u \in Tracked, to \in Membership : MemberChanges(u, to) \/ Gap(u, to)
    \/ \E u \in Tracked : EraseMember(u)
    \/ RoleDeleted \/ Submit \/ ApplyEvent
    \/ ManualSync \/ Request \/ Reconcile \/ Retry \/ NextGeneration \/ Register
    \/ Snapshot \/ WriteGeneration \/ Replay \/ ReplayEvent \/ Sweep
    \/ FailSync \/ CleanUp \/ Disable \/ ClearGuild \/ Straggle \/ Restart

Listening == Submit \/ ApplyEvent
Synchronizing == \/ NextGeneration \/ Register \/ Snapshot \/ WriteGeneration \/ Replay
                 \/ ReplayEvent \/ Sweep \/ CleanUp

Spec == Init /\ [][Next]_analyticsVars

\* What has begun goes on, and the reconciliation of the day comes.
FairSpec == /\ Spec
            /\ WF_analyticsVars(Listening) /\ WF_analyticsVars(Synchronizing)
            /\ WF_analyticsVars(Request) /\ WF_analyticsVars(Reconcile)
            /\ WF_analyticsVars(Retry) /\ WF_analyticsVars(ClearGuild)
            /\ WF_analyticsVars(Straggle)

----------------------------------------------------------------------------
Event == [generation : 0..MaxGeneration, kind : {"none", "replace", "remove_role"},
          user : Tracked \cup {"none"}, to : Membership]

\* Every variable keeps to the values the code gives it.
TypeOK ==
    /\ guild \in [Tracked -> Membership]
    /\ inbox \in Seq(Event) /\ waiting \in Seq(Event) /\ applying \in Event
    /\ analytics \in [enabled : BOOLEAN, active : 0..MaxGeneration,
                      status : {"disabled", "syncing", "ready", "failed", "retrying",
                                "needs_reconciliation"}]
    /\ mirror \in [Generation -> [Tracked -> Membership]]
    /\ registered \in 0..MaxGeneration /\ straggler \in 0..MaxGeneration
    /\ sync.events \in Seq(Event) /\ sync.snapshot \in [Tracked -> Membership]
    /\ {retrying, disabling, requested, missed} \subseteq BOOLEAN

Served == mirror[analytics.active]

\* A status of "ready" means that the queries read what the guild is: no event is lost
\* while a generation is staged, written and replayed, and none is applied to the wrong
\* one (sync_guild, _submit_event, _replay_and_activate).
ReadyIsExact ==
    /\ analytics.status = "ready" /\ inbox = <<>> /\ applying = NoEvent
    /\ waiting = <<>> /\ ~missed
    => Served = guild

\* What the queries read becomes and stays what the guild is, however synchronizations
\* fail, are cancelled or are cut off by a restart.
AnalyticsConverge == <>[](analytics.enabled => Served = guild)
=============================================================================
