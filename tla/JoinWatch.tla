------------------------------ MODULE JoinWatch ------------------------------
(***************************************************************************)
(* JoinWatch and its CAPTCHA for one member of one guild: the restriction  *)
(* a young account receives when it joins (honeypot/joinwatch.py), the     *)
(* verification that lifts it and the enrolments moderators start          *)
(* (honeypot/joinwatch_verification.py), and the timer that throws the     *)
(* member out when neither happened (joinwatch_auto_role_loop).            *)
(*                                                                         *)
(* Two stored rows carry an incident, "assignment" (a role still to be     *)
(* given) and "restriction" (the role is on, the timer runs), and a third  *)
(* fact says that the member once passed.  Everything that changes them    *)
(* holds the member's lock: `task' is the holder and where it waits for    *)
(* Discord.  The timer picks its work from a copy taken without the lock,  *)
(* `picked', and compares it again once it holds the lock.                 *)
(***************************************************************************)
EXTENDS Naturals, FiniteSets

CONSTANTS
  Policies,       \* the guild settings explored: [delay, captcha, action]
  MaxIncident,    \* bound on the incidents of a behaviour
  MaxSession,     \* bound on the verification sessions of a behaviour
  MaxRetry,       \* JOINWATCH_MAX_RETRIES, scaled down
  WatchLimits     \* how often each kind of event may happen

WatchEvents == {"visits", "enrolments", "meddlings", "faults", "crashes", "toggles"}

ASSUME WatchAssumption ==
  /\ Policies \subseteq [delay : BOOLEAN, captcha : BOOLEAN, action : {"none", "kick", "ban"}]
  /\ MaxIncident \in Nat /\ MaxSession \in Nat /\ MaxRetry \in Nat
  /\ WatchLimits \subseteq [WatchEvents -> Nat]

VARIABLES
  policy,      \* the settings in force
  dryRun,      \* the guild's dry_run setting
  present,     \* the member is in the guild
  barred,      \* the member is banned
  role,        \* the member holds the JoinWatch role
  arrival,     \* an on_member_join event is waiting to be handled
  removal,     \* an on_member_update event that takes the role away is waiting
  rows,        \* the live rows of the member
  archive,     \* the case store accepts verification history
  verified,    \* the "verified" row exists
  planned,     \* the enrolment prepared in memory (_planned)
  picked,      \* what the timer selected without the lock
  task,        \* the holder of the member's lock
  incidents, sessions,  \* how many incident and session ids were drawn
  thrown,      \* how often an incident threw the member out, as seen or as cut off by a crash
  passed,      \* incidents whose second right answer was saved, with no assignment left
  left         \* events still allowed

watchVars == <<policy, dryRun, present, barred, role, arrival, removal, rows, archive, verified,
               planned, picked, task, incidents, sessions, thrown, passed, left>>

Kind == {"assignment", "restriction"}
Ending == {"", "cancelled", "manual", "passed", "no_action", "dry_run", "action_failed",
            "action_uncertain", "member_absent", "thrown_out"}
Row == [id : 0..MaxIncident, source : {"", "join", "group", "wave", "test"},
        ready : BOOLEAN, expired : BOOLEAN, restore : BOOLEAN, captcha : BOOLEAN,
        failures : 0..2, stage : {0, 1}, session : 0..MaxSession, fresh : BOOLEAN,
        state : {"", "enrolling", "active", "release_pending"}, completion : Ending,
        terminal : Ending, started : BOOLEAN, retries : 0..MaxRetry, manual : BOOLEAN]

\* Where the holder of the lock stands, on which row and with which copy of it.
Holder == [at : {"", "direct", "add", "keep", "clear", "punish", "seal", "lift", "verify",
                 "close", "enroll"}, kind : Kind, row : Row]

NoRow == [id |-> 0, source |-> "", ready |-> FALSE, expired |-> FALSE, restore |-> FALSE,
          captcha |-> FALSE, failures |-> 0, stage |-> 0, session |-> 0, fresh |-> FALSE,
          state |-> "", completion |-> "", terminal |-> "", started |-> FALSE,
          retries |-> 0, manual |-> FALSE]

NoRows == [k \in Kind |-> NoRow]
Resting == [at |-> "", kind |-> "restriction", row |-> NoRow]
Unlocked == task = Resting

Use(kind) == left[kind] > 0 /\ left' = [left EXCEPT ![kind] = @ - 1]

\* The row of an incident that a member's join opens.
Incident(i, source) ==
  [NoRow EXCEPT !.id = i, !.source = source,
                !.captcha = IF source = "join" THEN policy.captcha ELSE TRUE]

WatchInit ==
  /\ policy \in Policies
  /\ dryRun = FALSE /\ present = FALSE /\ barred = FALSE /\ role = FALSE
  /\ arrival = FALSE /\ removal = FALSE /\ verified = FALSE
  /\ rows = NoRows /\ planned = NoRow /\ picked = NoRows /\ task = Resting
  /\ incidents = 0 /\ sessions = 0 /\ archive = TRUE
  /\ thrown = [i \in 1..MaxIncident |-> 0] /\ passed = {}
  /\ left \in WatchLimits

-----------------------------------------------------------------------------
(* The rows and how an incident ends *)

\* owner.finish: the outcome is written first and never replaced; the row goes
\* when the history is archived.  An archive that fails, or a process that
\* ends before it, leaves the marked row to settle_history.
Mark(row, outcome) == [row EXCEPT !.terminal = IF @ = "" THEN outcome ELSE @]

Finish(kind, row, outcome) ==
  rows' = [rows EXCEPT ![kind] = IF archive THEN NoRow ELSE Mark(row, outcome)]

\* delete_pending_assignment: a plain delete while the same incident is a
\* restriction, an end of the incident otherwise.
SameIncident == rows["assignment"].id = rows["restriction"].id

DropAssignment(outcome) ==
  IF rows["assignment"] = NoRow \/ SameIncident
  THEN rows' = [rows EXCEPT !["assignment"] = NoRow]
  ELSE Finish("assignment", rows["assignment"], outcome)

DropRestriction(outcome) ==
  IF rows["restriction"] = NoRow THEN UNCHANGED rows
  ELSE Finish("restriction", rows["restriction"], outcome)

Release == task' = Resting

Throw(id) == thrown' = [thrown EXCEPT ![id] = IF @ = 2 THEN 2 ELSE @ + 1]

\* What no handler of the lock touches.
Around == UNCHANGED <<policy, dryRun, barred, arrival, archive, picked, incidents, sessions>>

-----------------------------------------------------------------------------
(* The member and the moderators *)

\* The member joins; a ban keeps them out.
Enter ==
  /\ ~present /\ ~barred
  /\ Use("visits")
  /\ present' = TRUE /\ role' = FALSE /\ arrival' = TRUE
  /\ UNCHANGED <<policy, dryRun, barred, removal, rows, archive, verified, planned, picked, task,
                 incidents, sessions, thrown, passed>>

Leave ==
  /\ present /\ Use("visits")
  /\ present' = FALSE /\ role' = FALSE
  /\ UNCHANGED <<policy, dryRun, barred, arrival, removal, rows, archive, verified, planned, picked,
                 task, incidents, sessions, thrown, passed>>

\* A moderator takes the role away by hand.
TakeRole ==
  /\ role /\ Use("meddlings")
  /\ role' = FALSE /\ removal' = TRUE
  /\ UNCHANGED <<policy, dryRun, present, barred, arrival, rows, archive, verified, planned, picked,
                 task, incidents, sessions, thrown, passed>>

ToggleDryRun ==
  /\ Use("toggles") /\ dryRun' = ~dryRun
  /\ UNCHANGED <<policy, present, barred, role, arrival, removal, rows, archive, verified, planned,
                 picked, task, incidents, sessions, thrown, passed>>

\* The case store refuses verification history for a while.
ArchiveFails ==
  /\ archive /\ Use("faults") /\ archive' = FALSE
  /\ UNCHANGED <<policy, dryRun, present, barred, role, arrival, removal, rows, verified, planned,
                 picked, task, incidents, sessions, thrown, passed>>

ArchiveRecovers ==
  /\ ~archive /\ archive' = TRUE
  /\ UNCHANGED <<policy, dryRun, present, barred, role, arrival, removal, rows, verified, planned,
                 picked, task, incidents, sessions, thrown, passed, left>>

\* Deadlines pass.  A copy of a row holds the same deadline as the row.
Aged(row) == IF row = NoRow THEN row ELSE [row EXCEPT !.ready = TRUE, !.expired = TRUE]
Ripe(row) == IF row = NoRow THEN row ELSE [row EXCEPT !.ready = TRUE]
Idled(row) == [row EXCEPT !.fresh = FALSE]

PassTime(Older(_)) ==
  /\ rows' = [k \in Kind |-> Older(rows[k])]
  /\ picked' = [k \in Kind |-> Older(picked[k])]
  /\ task' = [task EXCEPT !.row = Older(@)]
  /\ rows' # rows
  /\ UNCHANGED <<policy, dryRun, present, barred, role, arrival, removal, archive, verified, planned,
                 incidents, sessions, thrown, passed, left>>

DelayEnds == PassTime(Ripe)
DeadlinePasses == PassTime(Aged)
SessionEnds == PassTime(Idled)

-----------------------------------------------------------------------------
(* Joining *)

\* The incident a join continues: the restriction, or the assignment alone.
Existing == IF rows["restriction"] # NoRow THEN rows["restriction"] ELSE rows["assignment"]

Interrupted ==
  rows["restriction"] = NoRow /\ rows["assignment"].source \in {"wave", "test"}

Skipped == Interrupted \/ (Existing = NoRow /\ verified)

\* on_member_join restores the incident of the member, or opens one, and
\* brings the role back: later, now through the assignment, or at once.
Join ==
  /\ arrival /\ Unlocked
  /\ arrival' = FALSE
  /\ IF Skipped \/ ~present
     THEN UNCHANGED <<rows, task, incidents>>
     ELSE /\ Existing # NoRow \/ incidents < MaxIncident
          /\ incidents' = IF Existing = NoRow THEN incidents + 1 ELSE incidents
          /\ LET opened == IF Existing = NoRow THEN Incident(incidents + 1, "join") ELSE Existing
                 incident == [opened EXCEPT !.restore = rows["restriction"] # NoRow]
                 waiting == [incident EXCEPT !.ready = rows["assignment"] # NoRow /\ rows["assignment"].ready]
                 now == [incident EXCEPT !.ready = TRUE]
             IN IF role
                THEN UNCHANGED <<rows, task>>
                ELSE \/ /\ policy.delay
                        /\ rows' = [rows EXCEPT !["assignment"] = waiting]
                        /\ UNCHANGED task
                     \/ /\ ~policy.delay /\ dryRun
                        /\ UNCHANGED <<rows, task>>
                     \/ /\ ~policy.delay /\ ~dryRun /\ incident.captcha
                        /\ rows' = [rows EXCEPT !["assignment"] = now]
                        /\ task' = IF now.terminal # "" \/ now.source \in {"wave", "test"}
                                   THEN task
                                   ELSE [at |-> "add", kind |-> "assignment", row |-> now]
                     \/ /\ ~policy.delay /\ ~dryRun /\ ~incident.captcha
                        /\ task' = [at |-> "direct", kind |-> "restriction", row |-> incident]
                        /\ UNCHANGED rows
  /\ UNCHANGED <<policy, dryRun, present, barred, role, removal, archive, verified, planned, picked,
                 sessions, thrown, passed, left>>

\* The direct path: the role first, its row after.  A refusal leaves neither.
AddDirectly ==
  /\ task.at = "direct"
  /\ \/ /\ present /\ role' = TRUE
        /\ task' = [task EXCEPT !.at = "keep"]
     \/ UNCHANGED role /\ Release
  /\ Around /\ UNCHANGED <<present, removal, rows, verified, planned, thrown, passed, left>>

-----------------------------------------------------------------------------
(* The timer *)

\* settle_history: what an earlier finish could not archive, and every
\* punishment whose end nobody saw, is finished without repeating it.
NotBegun(row) == FALSE
Begun(row) == row.started
Unsettled(row) == row # NoRow /\ (row.terminal # "" \/ Begun(row))

SettleHistory ==
  /\ Unlocked
  /\ \E k \in Kind :
       /\ Unsettled(rows[k])
       /\ Finish(k, rows[k], "action_uncertain")
  /\ Around
  /\ UNCHANGED <<present, role, removal, verified, planned, task, thrown, passed, left>>

\* select_due_joinwatch_assignments.
DueAssignment ==
  LET row == rows["assignment"]
  IN IF /\ row # NoRow /\ row.terminal = "" /\ row.state # "enrolling" /\ row.ready
        /\ row.source \in {"wave", "test"} => SameIncident
     THEN row ELSE NoRow
DueRestriction ==
  LET row == rows["restriction"]
  IN IF /\ row # NoRow /\ row.terminal = "" /\ row.source # "test"
        /\ row.state # "release_pending" /\ row.expired
     THEN row ELSE NoRow

Select ==
  /\ picked = NoRows
  /\ picked' = [k \in Kind |-> IF k = "assignment" THEN DueAssignment ELSE DueRestriction]
  /\ picked' # NoRows
  /\ UNCHANGED <<policy, dryRun, present, barred, role, arrival, removal, rows, archive, verified,
                 planned, task, incidents, sessions, thrown, passed, left>>

\* _execute_joinwatch_action up to the call: nothing to do, a punishment whose
\* end is unknown, or the mark that is written before the call.
Execute(kind, row) ==
  LET EndAs(outcome) ==
        Finish(kind, row, outcome) /\ Release /\ UNCHANGED <<present, role, removal>>
  IN \/ policy.action = "none" /\ EndAs("no_action")
     \/ policy.action # "none" /\ dryRun /\ EndAs("dry_run")
     \/ policy.action # "none" /\ ~dryRun /\ Begun(row) /\ EndAs("action_uncertain")
     \/ policy.action = "kick" /\ ~dryRun /\ ~Begun(row) /\ ~present /\ EndAs("member_absent")
     \/ /\ policy.action = "ban" \/ (policy.action = "kick" /\ present)
        /\ ~dryRun /\ ~Begun(row)
        /\ rows' = [rows EXCEPT ![kind] = [row EXCEPT !.started = TRUE]]
        /\ task' = [at |-> "punish", kind |-> kind, row |-> [row EXCEPT !.started = TRUE]]
        /\ UNCHANGED <<present, role, removal>>

StaleAssignment == picked["assignment"] = NoRow \/ rows["assignment"] # picked["assignment"]

\* One due assignment, under the lock.
TimeAssignment ==
  /\ Unlocked /\ picked["assignment"] # NoRow
  /\ picked' = [picked EXCEPT !["assignment"] = NoRow]
  /\ LET row == picked["assignment"]
     IN CASE StaleAssignment -> UNCHANGED <<present, role, removal, rows, task>>
          [] ~StaleAssignment /\ ~present /\ row.source = "test" ->
               DropAssignment("cancelled") /\ UNCHANGED <<present, role, removal, task>>
          [] ~StaleAssignment /\ ~present /\ row.source # "test" -> Execute("assignment", row)
          [] ~StaleAssignment /\ present /\ role ->
               DropAssignment("cancelled") /\ UNCHANGED <<present, role, removal, task>>
          [] ~StaleAssignment /\ present /\ ~role /\ dryRun ->
               DropAssignment("dry_run") /\ UNCHANGED <<present, role, removal, task>>
          [] OTHER ->
               /\ task' = [at |-> "add", kind |-> "assignment", row |-> row]
               /\ UNCHANGED <<present, role, removal, rows>>
  /\ UNCHANGED <<policy, dryRun, barred, arrival, archive, verified, planned, incidents, sessions,
                 thrown, passed, left>>

\* check_scheduled_group_assignment: without a working Verify panel a pure
\* group assignment is given up.
GiveUpGroup ==
  /\ Unlocked /\ ~StaleAssignment
  /\ rows["assignment"].source = "group" /\ ~rows["assignment"].restore
  /\ rows["assignment"].state = ""
  /\ Use("faults")
  /\ picked' = [picked EXCEPT !["assignment"] = NoRow]
  /\ rows' = [rows EXCEPT !["assignment"] = NoRow]
  /\ UNCHANGED <<policy, dryRun, present, barred, role, arrival, removal, archive, verified, planned,
                 task, incidents, sessions, thrown, passed>>

\* One due restriction, under the lock.
TimeRestriction ==
  /\ Unlocked /\ picked["restriction"] # NoRow /\ picked["assignment"] = NoRow
  /\ picked' = [picked EXCEPT !["restriction"] = NoRow]
  /\ LET row == picked["restriction"]
     IN \/ /\ rows["restriction"] # row \/ row.state = "release_pending"
           /\ UNCHANGED <<present, role, removal, rows, task>>
        \/ /\ rows["restriction"] = row /\ row.state # "release_pending"
           /\ present /\ ~role
           /\ Finish("restriction", row, "manual")
           /\ UNCHANGED <<present, role, removal, task>>
        \/ /\ rows["restriction"] = row /\ row.state # "release_pending"
           /\ present => role
           /\ Execute("restriction", row)
  /\ UNCHANGED <<policy, dryRun, barred, arrival, archive, verified, planned, incidents, sessions,
                 thrown, passed, left>>

\* _reschedule_retry: one more attempt a minute later, or the end.
PutBack(kind, row) ==
  [row EXCEPT !.retries = @ + 1, !.ready = IF kind = "assignment" THEN FALSE ELSE @,
              !.expired = IF kind = "restriction" THEN FALSE ELSE @]

RetryOnceMore(kind, row) ==
  IF row.retries > MaxRetry
  THEN Finish(kind, row, "action_failed")
  ELSE rows' = [rows EXCEPT ![kind] = IF rows[kind] = NoRow THEN NoRow ELSE PutBack(kind, row)]

Retry(kind, row) ==
  IF row.retries >= MaxRetry
  THEN Finish(kind, row, "action_failed")
  ELSE rows' = [rows EXCEPT ![kind] = IF rows[kind] = NoRow THEN NoRow ELSE PutBack(kind, row)]

\* The call of the assignment executor; a refusal is retried.
AddRole ==
  /\ task.at = "add"
  /\ \/ /\ present /\ role' = TRUE
        /\ task' = [task EXCEPT !.at = "keep"]
        /\ UNCHANGED rows
     \/ /\ Retry("assignment", task.row)
        /\ UNCHANGED role /\ Release
  /\ Around /\ UNCHANGED <<present, removal, verified, planned, thrown, passed, left>>

\* store_pending_role writes the row the task carried, whatever is stored now.
Kept(row) == [row EXCEPT !.state = IF @ = "" THEN "active" ELSE @, !.ready = FALSE]

KeepRole ==
  /\ task.at = "keep"
  /\ rows' = [rows EXCEPT !["restriction"] = Kept(task.row)]
  /\ task' = IF task.kind = "assignment" THEN [task EXCEPT !.at = "clear"] ELSE Resting
  /\ Around /\ UNCHANGED <<present, role, removal, verified, planned, thrown, passed, left>>

ClearAssignment ==
  /\ task.at = "clear"
  /\ DropAssignment("cancelled") /\ Release
  /\ Around /\ UNCHANGED <<present, role, removal, verified, planned, thrown, passed, left>>

\* The kick or the ban.  A refusal takes the mark back and is retried; a kick
\* of a member who has left either is one or closes the incident.
Punish ==
  /\ task.at = "punish"
  /\ \/ /\ present \/ policy.action = "ban"
        /\ present' = FALSE /\ role' = FALSE
        /\ barred' = (policy.action = "ban")
        /\ IF present THEN Throw(task.row.id) ELSE UNCHANGED thrown
        /\ task' = [task EXCEPT !.at = "seal"]
        /\ UNCHANGED rows
     \/ /\ present \/ policy.action = "kick"
        /\ Retry(task.kind, [task.row EXCEPT !.started = FALSE])
        /\ Release /\ UNCHANGED <<present, role, barred, thrown>>
     \/ /\ present
        /\ present' = FALSE /\ role' = FALSE /\ barred' = (policy.action = "ban")
        /\ Retry(task.kind, [task.row EXCEPT !.started = FALSE])
        /\ Release /\ UNCHANGED thrown
     \/ /\ ~present /\ policy.action = "kick"
        /\ Finish(task.kind, task.row, "cancelled")
        /\ Release /\ UNCHANGED <<present, role, barred, thrown>>
  /\ UNCHANGED <<policy, dryRun, arrival, removal, archive, verified, planned, picked, incidents,
                 sessions, passed, left>>

\* The outcome is written, then the moderation log, then the row goes.
Seal ==
  /\ task.at = "seal"
  /\ Finish(task.kind, task.row, "thrown_out") /\ Release
  /\ Around /\ UNCHANGED <<present, role, removal, verified, planned, thrown, passed, left>>

\* on_member_update: the role was taken away, so the incident ends.
NoticeRemoval ==
  /\ removal /\ Unlocked
  /\ removal' = FALSE
  /\ DropRestriction("manual")
  /\ Around /\ UNCHANGED <<present, role, verified, planned, task, thrown, passed, left>>

-----------------------------------------------------------------------------
(* Verification *)

Restriction == rows["restriction"]

\* start: the guards of an active timer, then a session of five minutes.
StartSession ==
  /\ Unlocked /\ present
  /\ Restriction # NoRow /\ Restriction.terminal = "" /\ Restriction.captcha
  /\ Restriction.state # "release_pending"
  /\ Restriction.expired => Restriction.source = "test"
  /\ Restriction.failures < 2 /\ ~Restriction.fresh
  /\ sessions < MaxSession
  /\ sessions' = sessions + 1
  /\ rows' = [rows EXCEPT !["restriction"].session = sessions + 1, !["restriction"].fresh = TRUE]
  /\ UNCHANGED <<policy, dryRun, present, barred, role, arrival, removal, archive, verified, planned,
                 picked, task, incidents, thrown, passed, left>>

\* Clicking Verify again resumes a release that did not go through.
ResumeRelease ==
  /\ Unlocked /\ present
  /\ Restriction.terminal = "" /\ Restriction.captcha
  /\ Restriction.state = "release_pending" /\ ~dryRun
  /\ task' = [at |-> "lift", kind |-> "restriction", row |-> Restriction]
  /\ UNCHANGED <<policy, dryRun, present, barred, role, arrival, removal, rows, archive, verified, planned,
                 picked, incidents, sessions, thrown, passed, left>>

\* An answer counts only in the session and at the question it was given for.
Accepted(session, stage) ==
  /\ Restriction # NoRow /\ Restriction.captcha
  /\ Restriction.session = session /\ Restriction.stage = stage
  /\ Restriction.state # "release_pending"
  /\ Restriction.failures < 2 /\ Restriction.fresh
  /\ Restriction.expired => Restriction.source = "test"
  /\ ~dryRun

AnswerWrong(session, stage) ==
  /\ Unlocked /\ present /\ Accepted(session, stage)
  /\ rows' = [rows EXCEPT !["restriction"].failures = @ + 1, !["restriction"].stage = 0,
                          !["restriction"].session = 0, !["restriction"].fresh = FALSE]
  /\ UNCHANGED <<policy, dryRun, present, barred, role, arrival, removal, archive, verified, planned,
                 picked, task, incidents, sessions, thrown, passed, left>>

AnswerRight(session, stage) ==
  /\ Unlocked /\ present /\ Accepted(session, stage)
  /\ LET next == IF stage = 0 THEN [Restriction EXCEPT !.stage = 1]
                 ELSE [Restriction EXCEPT !.state = "release_pending", !.completion = "passed"]
     IN /\ rows' = [rows EXCEPT !["restriction"] = next]
        /\ passed' = IF stage = 1 /\ rows["assignment"] = NoRow
                     THEN passed \cup {next.id} ELSE passed
        /\ task' = IF stage = 1
                   THEN [at |-> "lift", kind |-> "restriction", row |-> next]
                   ELSE task
  /\ UNCHANGED <<policy, dryRun, present, barred, role, arrival, removal, archive, verified, planned,
                 picked, incidents, sessions, thrown, left>>

\* release: a moderator or a rollback lifts the restriction.
ReleaseByHand ==
  /\ Unlocked /\ present /\ Restriction # NoRow /\ ~dryRun
  /\ Use("meddlings")
  /\ LET next == [Restriction EXCEPT !.state = "release_pending", !.completion = "manual"]
     IN /\ rows' = [rows EXCEPT !["restriction"] = next]
        /\ task' = [at |-> "lift", kind |-> "restriction", row |-> next]
  /\ UNCHANGED <<policy, dryRun, present, barred, role, arrival, removal, archive, verified, planned,
                 picked, incidents, sessions, thrown, passed>>

\* release_id of a member who has left ends the incident without a role to lift.
ReleaseAbsent ==
  /\ Unlocked /\ ~present /\ Restriction # NoRow
  /\ left["meddlings"] > 0
  /\ rows' = [k \in Kind |-> NoRow]
  /\ left' = [left EXCEPT !["meddlings"] = @ - 1]
  /\ UNCHANGED <<policy, dryRun, present, barred, role, arrival, removal, archive, verified, planned,
                 picked, task, incidents, sessions, thrown, passed>>

\* mark_manual_role_reason: a moderator wants the role for a reason of their own.
MarkManual ==
  /\ Unlocked /\ Restriction # NoRow /\ ~Restriction.manual
  /\ Use("meddlings")
  /\ rows' = [rows EXCEPT !["restriction"].manual = TRUE]
  /\ UNCHANGED <<policy, dryRun, present, barred, role, arrival, removal, archive, verified, planned,
                 picked, task, incidents, sessions, thrown, passed>>

\* _release_locked up to the Discord call.
Lift ==
  /\ task.at = "lift"
  /\ IF dryRun
     THEN Release /\ UNCHANGED <<role, removal, left>>
     ELSE \/ /\ task' = [task EXCEPT !.at = "verify"]
             /\ role' = (role /\ task.row.manual)
             /\ removal' = (removal \/ (role /\ ~task.row.manual))
             /\ UNCHANGED left
          \/ /\ role /\ ~task.row.manual
             /\ Use("faults")
             /\ Release /\ UNCHANGED <<role, removal>>
  /\ Around /\ UNCHANGED <<present, rows, verified, planned, thrown, passed>>

\* The rest of it: the verified row, the assignment, the end of the incident.
Verify ==
  /\ task.at = "verify"
  /\ verified' = (verified \/ (task.row.source # "test" /\ task.row.completion = "passed"))
  /\ task' = [task EXCEPT !.at = "close"]
  /\ DropAssignment("cancelled")
  /\ Around /\ UNCHANGED <<present, role, removal, planned, thrown, passed, left>>

CloseIncident ==
  /\ task.at = "close"
  /\ Finish("restriction", task.row, task.row.completion) /\ Release
  /\ Around /\ UNCHANGED <<present, role, removal, verified, planned, thrown, passed, left>>

-----------------------------------------------------------------------------
(* Enrolment by a wave, a test or a group *)

\* prepare_enrollment plans one enrolment of a free member; its images are made
\* in memory.
FreeFor(source) ==
  /\ present /\ ~role /\ rows = NoRows /\ ~dryRun
  /\ verified => source = "test"

Plan(source) ==
  /\ Unlocked /\ FreeFor(source) /\ planned = NoRow
  /\ incidents < MaxIncident /\ Use("enrolments")
  /\ incidents' = incidents + 1
  /\ planned' = Incident(incidents + 1, source)
  /\ UNCHANGED <<policy, dryRun, present, barred, role, arrival, removal, rows, archive, verified,
                 picked, task, sessions, thrown, passed>>

\* cancel_wave_preparation forgets a plan that has not been carried out.
CancelPlan ==
  /\ Unlocked /\ planned.source = "wave"
  /\ Use("meddlings")
  /\ planned' = NoRow
  /\ IF rows["assignment"].source = "wave"
     THEN rows' = [rows EXCEPT !["assignment"] = NoRow]
     ELSE UNCHANGED rows
  /\ UNCHANGED <<policy, dryRun, present, barred, role, arrival, removal, archive, verified, picked,
                 task, incidents, sessions, thrown, passed>>

\* enroll_prepared: the assignment first, then the role, then its row.
Enroll ==
  /\ Unlocked /\ planned # NoRow /\ FreeFor(planned.source)
  /\ LET row == [planned EXCEPT !.state = "enrolling", !.ready = TRUE]
     IN /\ planned' = row
        /\ rows' = [rows EXCEPT !["assignment"] = row]
        /\ task' = [at |-> "enroll", kind |-> "assignment", row |-> row]
  /\ UNCHANGED <<policy, dryRun, present, barred, role, arrival, removal, archive, verified, picked,
                 incidents, sessions, thrown, passed, left>>

\* A refusal gives the enrolment up; a failure that may have taken effect
\* leaves the assignment for a moderator to look at.
AddEnrolled ==
  /\ task.at = "enroll"
  /\ \/ /\ present /\ role' = TRUE
        /\ task' = [task EXCEPT !.at = "keep", !.row.state = "active"]
        /\ planned' = NoRow
        /\ UNCHANGED rows
     \/ /\ UNCHANGED role /\ Release
        /\ DropAssignment("action_failed")
        /\ UNCHANGED planned
     \/ /\ present
        /\ role' \in BOOLEAN /\ Release
        /\ UNCHANGED <<rows, planned>>
  /\ Around /\ UNCHANGED <<present, removal, verified, thrown, passed, left>>

\* schedule_group: a live cohort schedules the role through an assignment, or
\* adds its reason to the incident that already runs.
ScheduleGroup ==
  /\ Unlocked /\ FreeFor("group") /\ ~verified
  /\ incidents < MaxIncident /\ Use("enrolments")
  /\ incidents' = incidents + 1
  /\ rows' = [rows EXCEPT !["assignment"] =
                [Incident(incidents + 1, "group") EXCEPT !.ready = ~policy.delay]]
  /\ UNCHANGED <<policy, dryRun, present, barred, role, arrival, removal, archive, verified, planned,
                 picked, task, sessions, thrown, passed>>

JoinGroup ==
  /\ Unlocked /\ present
  /\ \E k \in Kind :
       /\ rows[k] # NoRow /\ ~rows[k].captcha
       /\ k = "assignment" => rows["restriction"] = NoRow
       /\ rows' = [rows EXCEPT ![k].captcha = TRUE]
  /\ Use("enrolments")
  /\ UNCHANGED <<policy, dryRun, present, barred, role, arrival, removal, archive, verified, planned,
                 picked, task, incidents, sessions, thrown, passed>>

\* enable_existing: the running timers are admitted to verification.
EnableExisting ==
  /\ Unlocked /\ Restriction # NoRow /\ ~Restriction.captcha
  /\ Use("meddlings")
  /\ rows' = [rows EXCEPT !["restriction"].captcha = TRUE]
  /\ UNCHANGED <<policy, dryRun, present, barred, role, arrival, removal, archive, verified, planned,
                 picked, task, incidents, sessions, thrown, passed>>

\* delete_user_data: every row, without a look at the role.
EraseRows ==
  /\ Unlocked /\ (rows # NoRows \/ verified)
  /\ Use("meddlings")
  /\ rows' = NoRows /\ verified' = FALSE /\ planned' = NoRow
  /\ UNCHANGED <<policy, dryRun, present, barred, role, arrival, removal, archive, picked, task,
                 incidents, sessions, thrown, passed>>

-----------------------------------------------------------------------------
(* A restart: memory is gone, a call in flight may have been carried out, and
   restore takes up the releases that were saved. *)
Cut(happened) ==
  /\ present' = (present /\ ~(happened /\ task.at = "punish"))
  /\ barred' = (barred \/ (happened /\ task.at = "punish" /\ policy.action = "ban"))
  /\ IF happened /\ task.at = "punish" /\ present THEN Throw(task.row.id) ELSE UNCHANGED thrown
  /\ role' = /\ present'
             /\ role \/ (happened /\ task.at \in {"add", "direct", "enroll"})
             /\ ~(happened /\ task.at = "lift" /\ ~task.row.manual)

Restart ==
  /\ Use("crashes")
  /\ \E happened \in BOOLEAN : Cut(happened)
  /\ planned' = NoRow /\ picked' = NoRows /\ arrival' = FALSE /\ removal' = FALSE
  /\ task' = IF present' /\ ~dryRun /\ Restriction.terminal = "" /\ ~Restriction.started
                /\ Restriction.captcha /\ Restriction.state = "release_pending"
             THEN [at |-> "lift", kind |-> "restriction", row |-> Restriction]
             ELSE Resting
  /\ UNCHANGED <<policy, dryRun, rows, archive, verified, incidents, sessions, passed>>

-----------------------------------------------------------------------------
TimerStep ==
  \/ SettleHistory \/ TimeAssignment \/ TimeRestriction
HolderStep ==
  \/ AddDirectly \/ AddRole \/ KeepRole \/ ClearAssignment \/ Punish \/ Seal
  \/ Lift \/ Verify \/ CloseIncident \/ AddEnrolled

WatchNext ==
  \/ Enter \/ Leave \/ TakeRole \/ ToggleDryRun
  \/ ArchiveFails \/ ArchiveRecovers
  \/ DelayEnds \/ DeadlinePasses \/ SessionEnds
  \/ Join \/ NoticeRemoval
  \/ TimerStep \/ Select \/ GiveUpGroup \/ HolderStep
  \/ StartSession \/ ResumeRelease
  \/ \E s \in 1..MaxSession, n \in {0, 1} : AnswerWrong(s, n) \/ AnswerRight(s, n)
  \/ ReleaseByHand \/ ReleaseAbsent \/ MarkManual
  \/ \E source \in {"wave", "test"} : Plan(source)
  \/ CancelPlan \/ Enroll \/ ScheduleGroup \/ JoinGroup
  \/ EnableExisting \/ EraseRows \/ Restart

WatchSpec == WatchInit /\ [][WatchNext]_watchVars

-----------------------------------------------------------------------------
WatchTypeOK ==
  /\ policy \in Policies
  /\ {dryRun, present, barred, role, arrival, removal, verified} \subseteq BOOLEAN
  /\ rows \in [Kind -> Row] /\ picked \in [Kind -> Row] /\ planned \in Row
  /\ task \in Holder
  /\ incidents \in 0..MaxIncident /\ sessions \in 0..MaxSession
  /\ archive \in BOOLEAN /\ thrown \in [1..MaxIncident -> 0..2] /\ passed \subseteq 1..MaxIncident
  /\ left \in [WatchEvents -> Nat]

\* No incident throws the member out a second time, even when the process
\* ended between the call and the record of its result
\* (_execute_joinwatch_action, settle_history).
ThrownOutOnce == \A i \in 1..MaxIncident : thrown[i] <= 1

\* A member whose verification was saved is not kicked for that incident, and
\* no punishment of its restriction begins, not by the timer, which may have
\* read the row before, nor after a restart or a rejoin (submit,
\* select_due_joinwatch_assignments, _apply_joinwatch_role_actions).  An
\* assignment of the incident that is still there would make a new restriction
\* of it.  If the role could not be lifted, a rejoin writes the saved incident
\* as an assignment; once that is due while the member is away, the timer bans
\* him although he passed: it looks at release_pending in restrictions only.
PassedIsNotThrownOut ==
  \A i \in passed :
    /\ policy.action = "ban" \/ thrown[i] = 0
    /\ task.at = "punish" /\ task.row.id = i =>
         task.kind = "assignment" /\ task.row.state = "release_pending"

\* JoinWatch throws a member out once for an incident, and after he passed only
\* as said above.
ThrownOutRightly == ThrownOutOnce /\ PassedIsNotThrownOut
=============================================================================
