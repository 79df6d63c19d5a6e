-------------------------- MODULE ModerationHistory --------------------------
(***************************************************************************)
(* What NHModeration knows of the bans of one server (nhmoderation/).  Live  *)
(* events are stored as they come, synchronizations read the Red ModLog and *)
(* the audit log from their cursors; whatever is stored is projected into   *)
(* the actions that BanChart counts.  Events are lost while the bot is      *)
(* down, a synchronization may fail or be cut off anywhere, and two of them *)
(* may run at once.                                                         *)
(*                                                                         *)
(* One member is banned and unbanned, as a script says; an entry of a log   *)
(* is told by the time of its deed, which is also its ascending number.  A  *)
(* report of the gateway gets the time at which its handler begins.  An     *)
(* audit log page holds one entry (AUDIT_BATCH_SIZE), and everything is     *)
(* younger than AUDIT_OVERLAP.                                              *)
(***************************************************************************)
EXTENDS BanProjection, TLC

CONSTANTS
    HistoryCases    \* [deeds, modes, allowed]: a sequence of [does, at, red], ascending in at,
                    \* the modes that are asked for, and how often each of Happenings happens

HistoryAssumption ==
    \A case \in HistoryCases : \A i \in 1..Len(case.deeds) :
        /\ case.deeds[i].does \in {"ban", "unban", "softban"} /\ case.deeds[i].red \in BOOLEAN
        /\ case.modes \subseteq {"initial", "incremental", "weekly", "repair"}
        /\ case.deeds[i].at > IF i = 1 THEN 0 ELSE case.deeds[i - 1].at + 1

VARIABLES
    script,     \* what is done to the member, and the modes that are asked for
    done,       \* how much of it was done
    clock,      \* the time
    events,     \* live events that may still arrive
    up,         \* the cog is loaded
    joined,     \* the bot is in the server
    rows,       \* moderation_observations
    projected,  \* the observations that moderation_actions were made of
    cursors,    \* the cursors of moderation_sync_state; 0 is NULL
    migration,  \* its migration_state
    run,        \* moderation_migration_runs
    calls,      \* calls of _run_sync and their tasks
    current,    \* _sync_tasks of the server
    lock,       \* who holds the lock of the server, and what is left to do
    eraser,     \* delete_user_data
    allowed     \* what may still happen

historyVars == <<script, done, clock, events, up, joined, rows, projected, cursors, migration, run,
                 calls, current, lock, eraser, allowed>>

Call == 1..3
NoCall == 0
Modes == {"initial", "incremental", "weekly", "repair"}
Logs == {"modlog", "ban", "unban"}
Fresh == [log \in Logs |-> 0]
Quiet == [step |-> "none", mode |-> "none", behind |-> NoCall, from |-> Fresh, stage |-> "none",
          at |-> 0, read |-> 0, batch |-> {}, steps |-> {}, run |-> 0, since |-> 0]
Unlocked == [by |-> "none", call |-> NoCall, left |-> "none"]
NoRun == [id |-> 0, steps |-> {}, state |-> "none"]
Steps == {"modlog", "ban", "unban", "snapshot"}

Spend(what) == allowed[what] > 0 /\ allowed' = [allowed EXCEPT ![what] = @ - 1]
SetCall(c, f) == calls' = [calls EXCEPT ![c] = f @@ @]
Ends(c, how) ==
    calls' = [calls EXCEPT ![c] = [Quiet EXCEPT !.step = how, !.mode = calls[c].mode]]

----------------------------------------------------------------------------
(* The server.  A softban is a ban and an unban; what is done through Red    *)
(* has a case of the ModLog.  The logs keep the time of the deed, a report   *)
(* of the gateway has none.                                                  *)
Unknown == 0
Seen(source, hint, at, of) ==
    [source |-> source, hint |-> hint, at |-> at, of |-> of, erased |-> FALSE, run |-> 0]

Parts(deed) == CASE deed.does = "softban" -> {<<"ban", deed.at>>, <<"unban", deed.at + 1>>}
                 [] OTHER -> {<<deed.does, deed.at>>}

Observations(deed) ==
    {Seen("discord_audit", part[1], part[2], part[2]) : part \in Parts(deed)}
        \cup {Seen("discord_gateway", part[1], Unknown, part[2]) : part \in Parts(deed)}
        \cup (IF deed.red THEN {Seen("red_modlog", deed.does, deed.at, deed.at)} ELSE {})

Past == UNION {Observations(script.deeds[i]) : i \in 1..done}
Log(log) ==
    IF log = "modlog" THEN {o \in Past : o.source = "red_modlog"}
    ELSE {o \in Past : o.source = "discord_audit" /\ o.hint = log}
Banned == done > 0 /\ script.deeds[done].does = "ban"

Deed ==
    /\ done < Len(script.deeds) /\ done' = done + 1
    /\ LET deed == script.deeds[done']
       IN clock < deed.at /\ clock' = deed.at + (IF deed.does = "softban" THEN 1 ELSE 0)
    /\ events' = IF up /\ joined THEN events \cup Observations(script.deeds[done']) ELSE events
    /\ UNCHANGED <<script, up, joined, rows, projected, cursors, migration, run, calls, current,
                   lock, eraser, allowed>>

----------------------------------------------------------------------------
(* ModerationStore: a row with the key of another one is ignored, an erased  *)
(* row of the list of active bans has lost its key, gateway rows have none.  *)
SameKey(r, o) ==
    /\ <<r.source, r.hint, r.at, r.of, r.run>> = <<o.source, o.hint, o.at, o.of, o.run>>
    /\ o.source = "discord_ban_snapshot" => ~r.erased
Missing(batch) == {o \in batch : ~ \E r \in rows : SameKey(r, o)}
Key(o) == [o EXCEPT !.erased = FALSE]
Keys(set) == {Key(o) : o \in set}

Free == lock = Unlocked

\* on_member_ban and on_member_unban begin, in the order of the deeds: the report gets the time
\* of the clock, which is at once or only after the window of its deed.
Stamp(o) ==
    /\ up /\ allowed["live"] > 0 /\ o \in events /\ o.at = Unknown
    /\ \A p \in events : p.at = Unknown => o.of <= p.of
    /\ clock' \in {clock + 1, o.of + CorrelationWindow + 1} /\ clock' > clock
    /\ done < Len(script.deeds) => clock' < script.deeds[done + 1].at
    /\ events' = (events \ {o}) \cup {[o EXCEPT !.at = clock']}
    /\ UNCHANGED <<script, done, up, joined, rows, projected, cursors, migration, run, calls,
                   current, lock, eraser, allowed>>

\* The handlers and those of on_audit_log_entry_create and on_modlog_case_create: observe.
LiveEvent(o) ==
    /\ up /\ o \in events /\ o.at # Unknown /\ Free /\ Spend("live")
    /\ events' = events \ {o}
    /\ rows' = rows \cup Missing({o})
    /\ lock' = IF Missing({o}) = {} THEN Unlocked
               ELSE [by |-> "event", call |-> NoCall, left |-> "rebuild"]
    /\ UNCHANGED <<script, done, clock, up, joined, projected, cursors, migration, run, calls, current,
                   eraser>>

\* _rebuild_unlocked, for whoever holds the lock; ingest_batch sets the cursor afterwards.
Rebuild ==
    /\ lock.left = "rebuild" /\ projected' = rows
    /\ IF lock.by = "ingest" THEN lock' = [lock EXCEPT !.left = "cursor"] ELSE lock' = Unlocked
    /\ IF lock.by = "page" THEN SetCall(lock.call, [stage |-> "fetch", batch |-> {}])
       ELSE UNCHANGED calls
    /\ eraser' = IF lock.by = "eraser" THEN "none" ELSE eraser
    /\ UNCHANGED <<script, done, clock, events, up, joined, rows, cursors, migration, run, current,
                   allowed>>

----------------------------------------------------------------------------
(* _run_sync: a call waits for the task that runs; if that one was of its    *)
(* mode its result serves, otherwise the call starts a task of its own.      *)
Running(c) == c # NoCall /\ calls[c].step \in {"ready", "running"}

Ask(mode) ==
    /\ up /\ joined /\ Spend("calls")
    /\ mode \in script.modes /\ (mode = "weekly" => migration = "complete")
    /\ \E c \in Call :
          /\ calls[c].step = "none" /\ \A d \in 1..(c - 1) : calls[d].step # "none"
          /\ IF Running(current)
             THEN SetCall(c, [step |-> "waiting", mode |-> mode, behind |-> current])
                  /\ UNCHANGED current
             ELSE SetCall(c, [step |-> "ready", mode |-> mode]) /\ current' = c
    /\ UNCHANGED <<script, done, clock, events, up, joined, rows, projected, cursors, migration, run,
                   lock, eraser>>

GoOn(c) ==
    /\ calls[c].step = "waiting" /\ ~Running(calls[c].behind)
    /\ IF calls[calls[c].behind].step = "failed" \/ calls[calls[c].behind].mode = calls[c].mode
       THEN SetCall(c, [step |-> calls[calls[c].behind].step, behind |-> NoCall])
            /\ UNCHANGED current
       ELSE SetCall(c, [step |-> "ready", behind |-> NoCall]) /\ current' = c
    /\ UNCHANGED <<script, done, clock, events, up, joined, rows, projected, cursors, migration, run,
                   lock, eraser, allowed>>

----------------------------------------------------------------------------
(* ModerationSynchronizer.synchronize.                                       *)
Order == <<"modlog", "ban", "unban", "snapshot">>
Stages(mode) == IF mode \in {"initial", "repair"} THEN Steps ELSE Logs

\* The next source that was not read, or the end.
NextStage(mode, steps) ==
    LET left == {i \in 1..4 : Order[i] \in Stages(mode) \ steps}
    IN IF left = {} THEN "end" ELSE Order[CHOOSE i \in left : \A j \in left : i <= j]

\* The cursor that is read from: everything for an import or a repair; a weekly run reads the
\* audit log two weeks back.
After(mode, from, log) ==
    IF mode \in {"initial", "repair"} \/ (mode = "weekly" /\ log # "modlog") THEN 0 ELSE from[log]

\* The cursor that is kept at least; an import begins without one.
Floor(mode, from, log) == IF mode = "initial" THEN 0 ELSE from[log]

Reading(c, steps) ==
    LET mode == calls[c].mode
        stage == NextStage(mode, steps)
        from == IF calls[c].step = "ready" THEN cursors ELSE calls[c].from
    IN [step |-> "running", stage |-> "fetch", steps |-> steps, batch |-> {},
        at |-> IF stage \in Logs THEN After(mode, from, stage) ELSE 0,
        read |-> IF stage \in Logs THEN Floor(mode, from, stage) ELSE 0]

Start(c) ==
    /\ calls[c].step = "ready" /\ (calls[c].mode = "initial" => Free)
    /\ IF calls[c].mode = "initial" /\ migration = "complete"
       THEN Ends(c, "done") /\ UNCHANGED <<migration, run>>
       ELSE LET new == IF run = NoRun THEN [id |-> c, steps |-> {}, state |-> "running"] ELSE run
                import == calls[c].mode = "initial"
            IN /\ SetCall(c, [from |-> cursors, since |-> clock,
                               run |-> IF import THEN new.id ELSE c]
                              @@ Reading(c, IF import THEN new.steps ELSE {}))
               /\ run' = IF import THEN new ELSE run
               /\ migration' = IF import THEN "running" ELSE migration
    /\ UNCHANGED <<script, done, clock, events, up, joined, rows, projected, cursors, current, lock,
                   eraser, allowed>>

Stage(c) == NextStage(calls[c].mode, calls[c].steps)
Highest(set) == CHOOSE o \in set : \A p \in set : p.at <= o.at

\* The ModLog at once, the audit log by pages; what is short of a page ends the source.
Fetch(c) ==
    /\ calls[c].step = "running" /\ calls[c].stage = "fetch" /\ Stage(c) \in Logs /\ joined
    /\ LET new == {o \in Log(Stage(c)) : o.at > calls[c].at}
           first == {o \in new : \A p \in new : o.at <= p.at}
           got == IF Stage(c) = "modlog" THEN new ELSE first
           last == IF got = {} THEN calls[c].at ELSE Highest(got).at
       IN SetCall(c, [batch |-> got, at |-> last,
                      read |-> IF last > calls[c].read THEN last ELSE calls[c].read,
                      stage |-> IF Stage(c) # "modlog" /\ got # {} THEN "page" ELSE "ingest"])
    /\ UNCHANGED <<script, done, clock, events, up, joined, rows, projected, cursors, migration, run,
                   current, lock, eraser, allowed>>

FetchActiveBans(c) ==
    /\ calls[c].step = "running" /\ calls[c].stage = "fetch" /\ Stage(c) = "snapshot" /\ joined
    /\ LET seen == [Seen("discord_ban_snapshot", "ban", calls[c].since, Unknown)
                      EXCEPT !.run = calls[c].run]
       IN SetCall(c, [batch |-> IF Banned THEN {seen} ELSE {}, stage |-> "ingest"])
    /\ UNCHANGED <<script, done, clock, events, up, joined, rows, projected, cursors, migration, run,
                   current, lock, eraser, allowed>>

FetchFails(c) ==
    /\ calls[c].step = "running" /\ calls[c].stage = "fetch" /\ Stage(c) # "end"
    /\ joined => Spend("faults")
    /\ ~joined => UNCHANGED allowed
    /\ Ends(c, "failed")
    /\ UNCHANGED <<script, done, clock, events, up, joined, rows, projected, cursors, migration, run,
                   current, lock, eraser>>

\* observe_many of a page, which is projected if it was new.
StorePage(c) ==
    /\ calls[c].stage = "page" /\ Free
    /\ rows' = rows \cup Missing(calls[c].batch)
    /\ IF Missing(calls[c].batch) = {}
       THEN lock' = Unlocked /\ SetCall(c, [stage |-> "fetch", batch |-> {}])
       ELSE lock' = [by |-> "page", call |-> c, left |-> "rebuild"] /\ UNCHANGED calls
    /\ UNCHANGED <<script, done, clock, events, up, joined, projected, cursors, migration, run, current,
                   eraser, allowed>>

\* ingest_batch: append_batch, the projection and update_sync_state.
Ingest(c) ==
    /\ calls[c].stage = "ingest" /\ Free
    /\ rows' = rows \cup Missing(calls[c].batch)
    /\ lock' = [by |-> "ingest", call |-> c, left |-> "rebuild"]
    /\ UNCHANGED <<script, done, clock, events, up, joined, projected, cursors, migration, run, calls,
                   current, eraser, allowed>>

\* A cursor that was not read stays.
ReadToNow(c, log) == clock
ReadTo(c, log) == calls[c].read

SetCursor ==
    /\ lock.left = "cursor" /\ lock' = Unlocked
    /\ LET c == lock.call
           log == Stage(c)
       IN /\ cursors' = IF log \in Logs /\ ReadTo(c, log) # 0
                        THEN [cursors EXCEPT ![log] = ReadTo(c, log)] ELSE cursors
          /\ SetCall(c, IF calls[c].mode = "initial" THEN [stage |-> "mark"]
                        ELSE Reading(c, calls[c].steps \cup {log}))
    /\ UNCHANGED <<script, done, clock, events, up, joined, rows, projected, migration, run, current,
                   eraser, allowed>>

\* complete_migration_step, for the run that was begun.
MarkStep(c) ==
    /\ calls[c].stage = "mark" /\ Free
    /\ IF run.id = calls[c].run /\ run.state = "running"
       THEN LET steps == run.steps \cup {Stage(c)}
            IN run' = [run EXCEPT !.steps = steps] /\ SetCall(c, Reading(c, steps))
       ELSE Ends(c, "failed") /\ UNCHANGED run
    /\ UNCHANGED <<script, done, clock, events, up, joined, rows, projected, cursors, migration, current,
                   lock, eraser, allowed>>

\* complete_migration, once all sources were read; the other modes just end.
Finish(c) ==
    /\ calls[c].step = "running" /\ calls[c].stage = "fetch" /\ Stage(c) = "end"
    /\ IF calls[c].mode # "initial" THEN Ends(c, "done") /\ UNCHANGED <<migration, run>>
       ELSE /\ Free
            /\ IF run.id = calls[c].run /\ run.steps = Steps
               THEN /\ run' = [run EXCEPT !.state = "complete"] /\ migration' = "complete"
                    /\ Ends(c, "done")
               ELSE Ends(c, "failed") /\ UNCHANGED <<migration, run>>
    /\ UNCHANGED <<script, done, clock, events, up, joined, rows, projected, cursors, current, lock,
                   eraser, allowed>>

----------------------------------------------------------------------------
(* delete_user_data: the rows are changed without the lock, then the         *)
(* actions are made again.                                                   *)
EraseRows ==
    /\ up /\ eraser = "none" /\ Spend("erasures")
    /\ rows' = {[o EXCEPT !.erased = TRUE] : o \in rows}
    /\ eraser' = IF rows = {} THEN "none" ELSE "rebuild"
    /\ UNCHANGED <<script, done, clock, events, up, joined, projected, cursors, migration, run, calls,
                   current, lock>>

EraseActions ==
    /\ eraser = "rebuild" /\ Free
    /\ lock' = [by |-> "eraser", call |-> NoCall, left |-> "rebuild"]
    /\ UNCHANGED <<script, done, clock, events, up, joined, rows, projected, cursors, migration, run,
                   calls, current, eraser, allowed>>

\* on_guild_remove and a later return.
RemoveGuild ==
    /\ up /\ joined /\ Free /\ Spend("removals") /\ joined' = FALSE
    /\ rows' = {} /\ projected' = {} /\ cursors' = Fresh /\ migration' = "pending" /\ run' = NoRun
    /\ events' = {}
    /\ UNCHANGED <<script, done, clock, up, calls, current, lock, eraser>>

Return ==
    /\ ~joined /\ joined' = TRUE
    /\ UNCHANGED <<script, done, clock, events, up, rows, projected, cursors, migration, run, calls,
                   current, lock, eraser, allowed>>

----------------------------------------------------------------------------
(* The process ends; what was not stored of the live events is lost.         *)
Crash ==
    /\ up /\ Spend("crashes") /\ up' = FALSE
    /\ events' = {} /\ current' = NoCall /\ lock' = Unlocked /\ eraser' = "none"
    /\ calls' = [c \in Call |-> IF calls[c].step = "none" THEN calls[c]
                                ELSE [Quiet EXCEPT !.step = "done"]]
    /\ UNCHANGED <<script, done, clock, joined, rows, projected, cursors, migration, run>>

\* initialize projects again if a stored row is newer than the checkpoint.
Stale == Keys(rows) # Keys(projected)

Restart ==
    /\ ~up /\ up' = TRUE
    /\ projected' = IF Stale THEN rows ELSE projected
    /\ UNCHANGED <<script, done, clock, events, joined, rows, cursors, migration, run, calls, current,
                   lock, eraser, allowed>>

----------------------------------------------------------------------------
Init ==
    /\ \E case \in HistoryCases : /\ script = [deeds |-> case.deeds, modes |-> case.modes]
                                  /\ allowed = case.allowed
    /\ done = 0 /\ clock = 0 /\ events = {} /\ up = TRUE /\ joined = TRUE
    /\ rows = {} /\ projected = {} /\ cursors = Fresh /\ migration = "pending" /\ run = NoRun
    /\ calls = [c \in Call |-> Quiet] /\ current = NoCall /\ lock = Unlocked
    /\ eraser = "none"

Next ==
    \/ Deed \/ Rebuild \/ SetCursor \/ EraseRows \/ EraseActions
    \/ RemoveGuild \/ Return \/ Crash \/ Restart
    \/ \E o \in events : Stamp(o) \/ LiveEvent(o)
    \/ \E mode \in Modes : Ask(mode)
    \/ \E c \in Call : \/ GoOn(c) \/ Start(c) \/ Fetch(c) \/ FetchActiveBans(c) \/ FetchFails(c)
                       \/ StorePage(c) \/ Ingest(c) \/ MarkStep(c) \/ Finish(c)

Spec == Init /\ [][Next]_historyVars

----------------------------------------------------------------------------
\* Every variable keeps to the values the code gives it.
TypeOK ==
    /\ done \in 0..Len(script.deeds) /\ clock \in Nat /\ up \in BOOLEAN /\ joined \in BOOLEAN
    /\ \A o \in rows \cup projected : /\ o.source \in Sources
                                    /\ o.hint \in {"ban", "unban", "softban"}
    /\ cursors \in [Logs -> Nat] /\ migration \in {"pending", "running", "complete"}
    /\ run.steps \subseteq Steps /\ current \in Call \cup {NoCall}
    /\ lock.by \in {"none", "event", "page", "ingest", "eraser"}

\* No entry is skipped: once the import is complete, whatever a cursor has passed is stored,
\* however events were lost and synchronizations failed, were cut off or ran side by side.
NothingMissed ==
    migration = "complete" =>
        \A log \in Logs : \A o \in Log(log) : o.at <= cursors[log] => Missing({o}) = {}

\* The actions are made of what is stored whenever nobody is at work, also after a crash
\* between a row and its projection (guilds_needing_projection).
ActionsCurrent == up /\ Free /\ eraser = "none" => Keys(rows) = Keys(projected)

\* With the audit log read, no ban is missing in the chart and no two are taken for one.  Each
\* is counted once, with the evidence of no other ban, whichever of its other sources were
\* stored and in which order, if the gateway's reports were handled on time: on_member_ban
\* dates a report itself, and one that comes late is charted as a ban of its own.
Whole == \A log \in {"ban", "unban"} : Missing(Log(log)) = {}
Settled == up /\ Free /\ eraser = "none" /\ Whole /\ \A o \in rows : ~o.erased
OnTime(o) ==
    /\ o.at <= o.of + CorrelationWindow
    /\ \A i \in 1..done : o.of < script.deeds[i].at => o.at < script.deeds[i].at
Prompt == \A o \in rows : o.source = "discord_gateway" => OnTime(o)
Bans == {i \in 1..done : script.deeds[i].does = "ban"}
Softbans == \E i \in 1..Len(script.deeds) : script.deeds[i].does = "softban"
Deeds(action) == {o.of : o \in action.rows} \ {Unknown}
AuditRows(action) == {o \in action.rows : o.source = "discord_audit"}
ChartExact ==
    Settled /\ ~Softbans =>
        /\ \A i \in Bans : \E action \in Charted(projected) :
              {o.at : o \in AuditRows(action)} = {script.deeds[i].at}
        /\ Prompt => /\ Cardinality(Charted(projected)) = Cardinality(Bans)
                     /\ \A action \in Charted(projected) : Cardinality(Deeds(action)) = 1

\* A softban does not enter the chart once its own ModLog case is stored, whichever of its
\* other sources report it on time (nhmoderation/README.md:40).
SoftbanNotCharted ==
    Settled /\ Missing(Log("modlog")) = {} /\ Prompt =>
        Cardinality(Charted(projected)) = Cardinality(Bans)
=============================================================================
