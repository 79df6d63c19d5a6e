--------------------------- MODULE OperationQueue ---------------------------
(***************************************************************************)
(* The durable operation queue of one detection case and the executors     *)
(* that drain it (NHCogs/honeypot/detection_cases.py, the table            *)
(* detection_operations; NHCogs/honeypot/detection.py, the executor;       *)
(* NHCogs/honeypot/operations/, the handlers).                             *)
(*                                                                         *)
(* A row is claimed under a fresh token, executed by a handler while a     *)
(* heartbeat renews the claim, and settled under the same token.  Between  *)
(* two store calls anything may happen: another worker, a cancellation, a  *)
(* process crash, a claim that goes stale and is taken over.  Each action  *)
(* below is one store transaction or one Discord request.                  *)
(*                                                                         *)
(* The rows all belong to one case and one message of one member; role     *)
(* operations and moderator decisions have modules of their own.           *)
(***************************************************************************)
EXTENDS Naturals, FiniteSets

CONSTANTS
    Op,           \* the rows of the case
    Kind,         \* [Op -> Kinds]
    Task,         \* event handlers and buttons that claim a row by its id
    Loop,         \* the reconciliation loop, which claims batches
    NoOp,         \* an executor that holds no row
    BatchLimit,   \* claim_due_operations' limit (50 in the code)
    PurgeLimit,   \* attempts after which a cached purge gives up (3 in the code)
    MaxFaults     \* bound on crashes, cancellations, dead heartbeats and failures

Kinds == {"kick", "ban", "process", "purge", "update", "cleanup"}
Worker == Task \cup {Loop}

ASSUME OpAssumption ==
    /\ IsFiniteSet(Op)
    /\ NoOp \notin Op
    /\ Kind \in [Op -> Kinds]
ASSUME WorkerAssumption == Loop \notin Task
ASSUME BoundAssumption ==
    /\ BatchLimit \in Nat \ {0}
    /\ PurgeLimit \in Nat
    /\ MaxFaults \in Nat

VARIABLES
    row,          \* the table: one record per operation
    claims,       \* number of claim tokens ever issued (uuid4: never reused)
    exec,         \* what each executor is doing
    batch,        \* rows the loop has claimed and not begun: set of <<op, token>>
    stopped,      \* the loop's task has ended: it runs again after a restart only
    sourcePending,\* the message's delete_status is still 'pending'
    attention,    \* the case's needs_attention
    deleting,     \* a deletion of the case has been planned
    member,       \* what Discord knows of the author: "in", "out" or "banned"
    requests,     \* history: kick or ban requests sent to Discord, per row
    faults        \* faults spent

table    == <<row, claims>>
loopVars == <<batch, stopped>>
caseVars == <<sourcePending, attention, deleting>>
discord  == <<member, requests>>
vars     == <<row, claims, exec, loopVars, caseVars, discord, faults>>

Statuses == {"pending", "running", "succeeded", "failed", "abandoned"}

\* What a handler reports: results of success, then the kinds of failure.
Successes == {"kick", "ban", "planned", "kick_missing", "unknown", "done"}
Failures  == {"retry", "terminal", "giveup"}
Outcomes  == {"none"} \cup Successes \cup Failures

Row == [status   : Statuses,
        retryAt  : {"null", "future", "due"},
        attempts : Nat,
        token    : Nat,              \* 0 is NULL
        effect   : BOOLEAN,          \* effect_started_at IS NOT NULL
        stale    : BOOLEAN,          \* claimed_at <= now - 5 minutes
        result   : {"none"} \cup Successes]

Stages == {"idle", "load", "read", "decide", "flag", "start", "call", "work",
           "success", "failure", "defer"}

Exec == [stage     : Stages,
         op        : Op \cup {NoOp},
         token     : Nat,
         sawEffect : BOOLEAN,        \* the handler's reading of effect_started_at
         outcome   : Outcomes,
         beating   : BOOLEAN]        \* the heartbeat task is alive

TypeOK ==
    /\ row \in [Op -> Row]
    /\ claims \in Nat
    /\ exec \in [Worker -> Exec]
    /\ batch \subseteq (Op \X Nat)
    /\ stopped \in BOOLEAN
    /\ sourcePending \in BOOLEAN
    /\ attention \in BOOLEAN
    /\ deleting \in BOOLEAN
    /\ member \in {"in", "out", "banned"}
    /\ requests \in [Op -> Nat]
    /\ faults \in 0 .. MaxFaults

Fresh == [status |-> "pending", retryAt |-> "null", attempts |-> 0, token |-> 0,
          effect |-> FALSE, stale |-> FALSE, result |-> "none"]

Idle == [stage |-> "idle", op |-> NoOp, token |-> 0, sawEffect |-> FALSE,
         outcome |-> "none", beating |-> FALSE]

Init ==
    /\ row = [o \in Op |-> Fresh]
    /\ claims = 0
    /\ exec = [w \in Worker |-> Idle]
    /\ batch = {}
    /\ stopped = FALSE
    \* pending until the message's pipeline row, if the case still has it, ran
    /\ sourcePending = (\E o \in Op : Kind[o] = "process")
    /\ attention = FALSE
    /\ deleting = FALSE
    /\ member = "in"
    /\ requests = [o \in Op |-> 0]
    /\ faults = 0

Fault == faults < MaxFaults /\ faults' = faults + 1

-----------------------------------------------------------------------------
(* Claiming *)

Moderation(o) == Kind[o] \in {"kick", "ban"}

\* Faulty variant: the cleanup does not wait.
ProjectionIgnored(o) == TRUE

\* evidence_cleanup waits until every review_update of the case has succeeded.
ProjectionDone(o) ==
    Kind[o] = "cleanup" =>
        \A u \in Op : Kind[u] = "update" => row[u].status = "succeeded"

\* moderation_action waits for its source message, unless its effect has begun.
SourceSettled(o) == Moderation(o) => (row[o].effect \/ ~sourcePending)

\* The row as a claim leaves it: running, under a token of its own.
Claimed(r, t) ==
    [r EXCEPT !.status = "running", !.attempts = @ + 1, !.token = t, !.stale = FALSE]

\* _execute_detection_case_operation: the heartbeat starts with the execution.
Started(o, t) == [stage |-> "load", op |-> o, token |-> t, sawEffect |-> FALSE,
                  outcome |-> "none", beating |-> TRUE]

Begin(w, o, t) == exec' = [exec EXCEPT ![w] = Started(o, t)]

\* claim_operation's WHERE clause, at a claim time that has reached retry_at
\* when the row is due or the caller passes max(now, retry_at).
Claimable(o, reached) ==
    /\ row[o].status \in {"pending", "failed"}
    /\ row[o].retryAt \in reached
    /\ ~deleting
    /\ ProjectionDone(o)

ClaimWith(w, o, reached) ==
    /\ exec[w].stage = "idle"
    /\ Claimable(o, reached)
    /\ claims' = claims + 1
    /\ row' = [row EXCEPT ![o] = Claimed(row[o], claims + 1)]
    /\ Begin(w, o, claims + 1)
    /\ UNCHANGED <<loopVars, caseVars, discord, faults>>

\* A task claims a row of the case it is working on.
ClaimOperation(w, o) == ~Moderation(o) /\ ClaimWith(w, o, {"null", "due"})

\* The message pipeline claims the punishment of its message, after the source
\* message was dealt with; a failed row is claimed before its retry time.
ClaimMessageChild(w, o) ==
    /\ Moderation(o)
    /\ ~sourcePending
    /\ ClaimWith(w, o,
         {"null", "due"} \cup IF row[o].status = "failed" THEN {"future"} ELSE {})

\* Faulty variant: a row left running is never taken over.
NeverReclaimed(o) == FALSE

\* A claim nobody renewed for five minutes is up for a take-over.
Reclaimable(o) == row[o].status = "running" /\ row[o].stale

\* claim_due_operations' WHERE clause.
Due(o) ==
    /\ \/ row[o].status = "pending" /\ row[o].retryAt \in {"null", "due"}
       \/ row[o].status = "failed" /\ row[o].retryAt = "due"
       \/ Reclaimable(o)
    /\ ~deleting
    /\ ProjectionDone(o)
    /\ SourceSettled(o)

Rank(o) == CASE row[o].status = "pending" -> 0
             [] row[o].status = "running" -> 1
             [] OTHER -> 2

\* ORDER BY attempts, status (the final key, a random id, breaks ties freely).
Before(o, p) ==
    \/ row[o].attempts < row[p].attempts
    \/ row[o].attempts = row[p].attempts /\ Rank(o) < Rank(p)

\* A batch takes the first BatchLimit due rows.
IsBatch(S) ==
    LET due == {o \in Op : Due(o)}
    IN  /\ S \subseteq due
        /\ S # {}
        /\ Cardinality(S) <= BatchLimit
        /\ S # due => Cardinality(S) = BatchLimit
        /\ \A o \in due \ S, p \in S : ~Before(o, p)

\* One loop pass claims the whole batch in one transaction, a token per row.
ClaimDue ==
    /\ exec[Loop].stage = "idle"
    /\ ~stopped
    /\ batch = {}
    /\ \E S \in SUBSET Op :
        /\ IsBatch(S)
        /\ \E t \in [S -> (claims + 1) .. (claims + Cardinality(S))] :
            /\ \A o, p \in S : o # p => t[o] # t[p]
            /\ claims' = claims + Cardinality(S)
            /\ row' = [o \in Op |-> IF o \in S THEN Claimed(row[o], t[o]) ELSE row[o]]
            /\ batch' = {<<o, t[o]>> : o \in S}
    /\ UNCHANGED <<exec, stopped, caseVars, discord, faults>>

\* Faulty variant: a row that has been begun stays in the batch and is begun again.
TakeAgain(o, t) ==
    /\ exec[Loop].stage = "idle"
    /\ <<o, t>> \in batch
    /\ Begin(Loop, o, t)
    /\ UNCHANGED <<table, loopVars, caseVars, discord, faults>>

\* The loop executes its batch one row after the other; the heartbeat of a row
\* starts only now.
TakeFromBatch(o, t) ==
    /\ exec[Loop].stage = "idle"
    /\ <<o, t>> \in batch
    /\ batch' = batch \ {<<o, t>>}
    /\ Begin(Loop, o, t)
    /\ UNCHANGED <<table, stopped, caseVars, discord, faults>>

-----------------------------------------------------------------------------
(* Executing *)

At(w, s) == exec[w].stage = s

\* The lease (and its heartbeat) spans the handler, not the settlement.
Leased(s) == s \notin {"success", "failure", "defer"}

Moved(e, s) == [e EXCEPT !.stage = s, !.beating = @ /\ Leased(s)]

Reported(e, s, out) ==
    [e EXCEPT !.stage = s, !.outcome = out, !.beating = @ /\ Leased(s)]

Goto(w, s) == exec' = [exec EXCEPT ![w] = Moved(exec[w], s)]

Report(w, s, out) == exec' = [exec EXCEPT ![w] = Reported(exec[w], s, out)]

Read(w) == UNCHANGED <<table, loopVars, caseVars, discord>>

\* get_case and the choice of the handler.
LoadCase(w) ==
    /\ At(w, "load")
    /\ Goto(w, IF Moderation(exec[w].op) THEN "read" ELSE "work")
    /\ Read(w) /\ UNCHANGED faults

\* Message content is not available from the Gateway: the work waits.
ContentUnavailable(w) ==
    /\ At(w, "load")
    /\ Kind[exec[w].op] = "process"
    /\ Goto(w, "defer")
    /\ Fault
    /\ Read(w)

\* The handler reads the persisted effect marker, in a call of its own.
ReadEffectStarted(w) ==
    /\ At(w, "read")
    /\ exec' = [exec EXCEPT ![w] = [@ EXCEPT !.stage = "decide",
                                            !.sawEffect = row[exec[w].op].effect]]
    /\ Read(w) /\ UNCHANGED faults

\* Faulty variant: the marker of an earlier attempt is ignored.
MarkerIgnored(w) == FALSE

KickSeenStarted(w) == exec[w].sawEffect /\ Kind[exec[w].op] = "kick"

\* A kick that may already have happened is never repeated.
KickOutcomeUnknown(w) ==
    /\ At(w, "decide")
    /\ KickSeenStarted(w)
    /\ Report(w, "flag", "unknown")
    /\ Read(w) /\ UNCHANGED faults

\* The guild is in dry run: report what would have been done.
DryRun(w) ==
    /\ At(w, "decide")
    /\ ~KickSeenStarted(w)
    /\ Report(w, "success", "planned")
    /\ Read(w) /\ UNCHANGED faults

\* Faulty variant: a ban that was begun counts as applied.
BanAssumed == TRUE

\* fetch_ban finds the ban.
BanConfirmed == member = "banned"

\* A ban that may already have happened is looked up before it is repeated.
BanAlreadyApplied(w) ==
    /\ At(w, "decide")
    /\ exec[w].sawEffect /\ Kind[exec[w].op] = "ban"
    /\ BanConfirmed
    /\ Report(w, "success", "ban")
    /\ Read(w) /\ UNCHANGED faults

\* fetch_member answers NotFound: nobody is left to kick.
KickTargetMissing(w) ==
    /\ At(w, "decide")
    /\ ~KickSeenStarted(w) /\ Kind[exec[w].op] = "kick"
    /\ member # "in"
    /\ Report(w, "success", "kick_missing")
    /\ Read(w) /\ UNCHANGED faults

\* A target was found; a cached member may have left the guild since.
TargetFound(w) ==
    /\ At(w, "decide")
    /\ ~KickSeenStarted(w)
    /\ ~(exec[w].sawEffect /\ Kind[exec[w].op] = "ban" /\ BanConfirmed)
    /\ Goto(w, "start")
    /\ Read(w) /\ UNCHANGED faults

\* Any call the handler makes before the punishment may raise.
HandlerRaises(w) ==
    /\ exec[w].stage \in {"read", "decide", "work"}
    /\ Report(w, "failure", "retry")
    /\ Fault
    /\ Read(w)

\* Faulty variant: any running row will do, whoever claimed it.
HoldsAnyClaim(w) == row[exec[w].op].status = "running"

\* The WHERE clause of every settlement: still running, under my token.
Holds(w) == row[exec[w].op].status = "running" /\ row[exec[w].op].token = exec[w].token

\* start_operation_effect: the marker is persisted before the request is sent,
\* and only under a live claim.
StartEffect(w) ==
    /\ At(w, "start")
    /\ IF Holds(w)
       THEN /\ row' = [row EXCEPT ![exec[w].op] = [@ EXCEPT !.effect = TRUE]]
            /\ Goto(w, "call")
       ELSE /\ Report(w, "failure", "retry")
            /\ UNCHANGED row
    /\ UNCHANGED <<claims, loopVars, caseVars, discord, faults>>

Sent(w) == requests' = [requests EXCEPT ![exec[w].op] = @ + 1]

\* _execute_action found dry run switched on meanwhile.
CallPlanned(w) ==
    /\ At(w, "call")
    /\ Report(w, "success", "planned")
    /\ Read(w) /\ UNCHANGED faults

\* The bot lost the permission: nothing is sent.
CallForbidden(w) ==
    /\ At(w, "call")
    /\ Report(w, "failure", "retry")
    /\ Fault
    /\ Read(w)

CallKick(w) ==
    /\ At(w, "call") /\ Kind[exec[w].op] = "kick"
    /\ member = "in"
    /\ member' = "out"
    /\ Sent(w)
    /\ Report(w, "success", "kick")
    /\ UNCHANGED <<table, loopVars, caseVars, faults>>

\* Kicking a member who left answers NotFound: terminal with the warning
\* enabled, an ordinary failure without it.
CallKickNotFound(w) ==
    /\ At(w, "call") /\ Kind[exec[w].op] = "kick"
    /\ member # "in"
    /\ Sent(w)
    /\ \E out \in {"terminal", "retry"} : Report(w, "failure", out)
    /\ UNCHANGED <<table, loopVars, caseVars, member, faults>>

CallBan(w) ==
    /\ At(w, "call") /\ Kind[exec[w].op] = "ban"
    /\ member' = "banned"
    /\ Sent(w)
    /\ Report(w, "success", "ban")
    /\ UNCHANGED <<table, loopVars, caseVars, faults>>

\* An HTTP error: the request was sent and may or may not have taken effect.
CallError(w) ==
    /\ At(w, "call")
    /\ Sent(w)
    /\ \/ UNCHANGED member
       \/ /\ member' = IF Kind[exec[w].op] = "ban" THEN "banned"
                       ELSE IF member = "in" THEN "out" ELSE member
    /\ Report(w, "failure", "retry")
    /\ Fault
    /\ UNCHANGED <<table, loopVars, caseVars>>

\* The handlers of the other kinds: work that is safe to repeat.
Work(w) ==
    /\ At(w, "work")
    /\ sourcePending' = (sourcePending /\ Kind[exec[w].op] # "process")
    /\ Report(w, "success", "done")
    /\ UNCHANGED <<table, loopVars, attention, deleting, discord, faults>>

\* A cached purge that is forbidden, or failed for the last time, is given up.
PurgeFails(w) ==
    /\ At(w, "work") /\ Kind[exec[w].op] = "purge"
    /\ \/ /\ Report(w, "flag", "giveup")
          /\ UNCHANGED faults
       \/ /\ IF row[exec[w].op].attempts >= PurgeLimit
             THEN Report(w, "flag", "giveup")
             ELSE Report(w, "failure", "retry")
          /\ Fault
    /\ Read(w)

\* mark_case_needs_attention, a transaction of its own.
FlagAttention(w) ==
    /\ At(w, "flag")
    /\ attention' = TRUE
    /\ Goto(w, IF exec[w].outcome = "unknown" THEN "success" ELSE "failure")
    /\ UNCHANGED <<table, loopVars, sourcePending, deleting, discord, faults>>

-----------------------------------------------------------------------------
(* Settling *)

Rest(w) == exec' = [exec EXCEPT ![w] = Idle]

\* An exception nobody catches ends the task it reaches.  The loop has no
\* handler around its pass, and a tasks.Loop whose body raised does not run
\* again: the rest of the batch stays claimed, and nothing more is claimed.
Escapes(w) ==
    /\ Rest(w)
    /\ IF w = Loop THEN batch' = {} /\ stopped' = TRUE ELSE UNCHANGED loopVars

Succeeded(r, out) ==
    [r EXCEPT !.status = "succeeded", !.retryAt = "null", !.token = 0,
              !.stale = FALSE, !.result = out]

\* complete_operation; a lost claim raises out of the executor.
SettleSuccess(w) ==
    /\ At(w, "success")
    /\ IF Holds(w)
       THEN /\ row' = [row EXCEPT ![exec[w].op] = Succeeded(@, exec[w].outcome)]
            /\ Rest(w)
            /\ UNCHANGED loopVars
       ELSE Escapes(w) /\ UNCHANGED row
    /\ UNCHANGED <<claims, caseVars, discord, faults>>

\* Faulty variant: the failure is stored as the row's result.
FailedWithOutcome(r, out) ==
    [r EXCEPT !.status = "failed", !.retryAt = "null", !.token = 0,
              !.stale = FALSE, !.result = out]

\* The row after a failure: failed with a retry time, for good, or abandoned.
Failed(r, out) ==
    [r EXCEPT !.status = IF out = "giveup" THEN "abandoned" ELSE "failed",
              !.retryAt = IF out = "retry" THEN "future" ELSE "null",
              !.token = 0, !.stale = FALSE]

\* fail_operation, under a live claim; a lost one is left alone.
SettleFailure(w) ==
    /\ At(w, "failure")
    /\ row' = IF Holds(w)
              THEN [row EXCEPT ![exec[w].op] = Failed(@, exec[w].outcome)]
              ELSE row
    /\ Rest(w)
    /\ UNCHANGED <<claims, loopVars, caseVars, discord, faults>>

Deferred(r) ==
    [r EXCEPT !.status = "pending", !.retryAt = "future", !.token = 0,
              !.attempts = IF @ > 0 THEN @ - 1 ELSE 0, !.stale = FALSE]

\* defer_operation_for_capability: pending again, without spending an attempt.
Defer(w) ==
    /\ At(w, "defer")
    /\ row' = IF Holds(w)
              THEN [row EXCEPT ![exec[w].op] = Deferred(@)]
              ELSE row
    /\ Rest(w)
    /\ UNCHANGED <<claims, loopVars, caseVars, discord, faults>>

\* Settling happens outside the handler's try: a store error escapes.
StoreFails(w) ==
    /\ exec[w].stage \in {"success", "failure", "defer"}
    /\ Escapes(w)
    /\ Fault
    /\ UNCHANGED <<table, caseVars, discord>>

-----------------------------------------------------------------------------
(* Time, faults and the rest of the bot *)

\* renew_operation_claim keeps claimed_at fresh while a heartbeat beats.
Renewed(o) ==
    \E w \in Worker : exec[w].op = o /\ exec[w].beating /\ Holds(w)

GoStale(o) ==
    /\ row[o].status = "running" /\ ~row[o].stale
    /\ ~Renewed(o)
    /\ row' = [row EXCEPT ![o] = [@ EXCEPT !.stale = TRUE]]
    /\ UNCHANGED <<claims, exec, loopVars, caseVars, discord, faults>>

RetryComesDue(o) ==
    /\ row[o].retryAt = "future"
    /\ row' = [row EXCEPT ![o] = [@ EXCEPT !.retryAt = "due"]]
    /\ UNCHANGED <<claims, exec, loopVars, caseVars, discord, faults>>

\* The heartbeat task has no handler for a failing store call: it just ends.
HeartbeatDies(w) ==
    /\ exec[w].beating
    /\ exec' = [exec EXCEPT ![w] = [@ EXCEPT !.beating = FALSE]]
    /\ Fault
    /\ UNCHANGED <<table, loopVars, caseVars, discord>>

\* Cancellation leaves the row running; the loop's task ends with it.
Cancel(w) ==
    /\ ~At(w, "idle")
    /\ Escapes(w)
    /\ Fault
    /\ UNCHANGED <<table, caseVars, discord>>

\* The claim of a batch fails in the store.
LoopFails ==
    /\ At(Loop, "idle") /\ ~stopped /\ batch = {}
    /\ stopped' = TRUE
    /\ Fault
    /\ UNCHANGED <<table, exec, batch, caseVars, discord>>

\* The process dies, or the cog is reloaded, and starts again: only the
\* database survives.
Crash ==
    /\ stopped \/ \E w \in Worker : ~At(w, "idle")
    /\ exec' = [w \in Worker |-> Idle]
    /\ batch' = {}
    /\ stopped' = FALSE
    /\ Fault
    /\ UNCHANGED <<table, caseVars, discord>>

\* A privacy deletion is planned for the case.
PlanDeletion ==
    /\ ~deleting
    /\ deleting' = TRUE
    /\ UNCHANGED <<table, exec, loopVars, sourcePending, attention, discord, faults>>

\* The author leaves or joins again, on their own.
MemberMoves ==
    /\ \/ member = "in" /\ member' = "out"
       \/ member = "out" /\ member' = "in"
    /\ UNCHANGED <<table, exec, loopVars, caseVars, requests, faults>>

-----------------------------------------------------------------------------

Step(w) ==
    \/ LoadCase(w) \/ ContentUnavailable(w) \/ ReadEffectStarted(w)
    \/ KickOutcomeUnknown(w) \/ DryRun(w) \/ BanAlreadyApplied(w)
    \/ KickTargetMissing(w) \/ TargetFound(w) \/ HandlerRaises(w)
    \/ StartEffect(w) \/ CallPlanned(w) \/ CallForbidden(w) \/ CallKick(w)
    \/ CallKickNotFound(w) \/ CallBan(w) \/ CallError(w) \/ Work(w)
    \/ PurgeFails(w) \/ FlagAttention(w)
    \/ SettleSuccess(w) \/ SettleFailure(w) \/ Defer(w)

Next ==
    \/ \E w \in Task, o \in Op : ClaimOperation(w, o) \/ ClaimMessageChild(w, o)
    \/ ClaimDue
    \/ \E b \in batch : TakeFromBatch(b[1], b[2])
    \/ \E w \in Worker : Step(w) \/ StoreFails(w) \/ HeartbeatDies(w) \/ Cancel(w)
    \/ \E o \in Op : GoStale(o) \/ RetryComesDue(o)
    \/ LoopFails \/ Crash \/ PlanDeletion \/ MemberMoves

Spec == Init /\ [][Next]_vars

\* Coroutines that can proceed do, the loop runs every ten seconds, and time
\* passes.  Nothing is assumed of the tasks that might claim a row.
Fairness ==
    /\ \A w \in Worker : WF_vars(Step(w))
    /\ WF_vars(ClaimDue)
    /\ WF_vars(\E b \in batch : TakeFromBatch(b[1], b[2]))
    /\ \A o \in Op : WF_vars(GoStale(o)) /\ WF_vars(RetryComesDue(o))

FairSpec == Spec /\ Fairness

-----------------------------------------------------------------------------
(* Properties *)

\* A row asks Discord for a kick at most once, whatever crashes, cancellations,
\* dead heartbeats and take-overs happen around the request.
KickAtMostOnce ==
    \A o \in Op : Kind[o] = "kick" => requests[o] <= 1

\* No two executors (nor an executor and the loop's waiting batch) act under
\* the claim a row currently carries.
OneLeaseHolder ==
    \A o \in Op : row[o].status = "running" =>
        LET holders == {w \in Worker : exec[w].op = o /\ Holds(w)}
            waiting == {b \in batch : b[1] = o /\ b[2] = row[o].token}
        IN  /\ \A v, w \in holders : v = w
            /\ holders = {} \/ waiting = {}

\* What a settled punishment says happened did happen: a recorded kick or ban
\* was sent, and a kick reported as planned or as missing its target was not.
\* (A punishment planned after its effect was marked can only follow a dry run
\* switched on between the two checks.)
ResultTruthful ==
    \A o \in Op : (Moderation(o) /\ row[o].status = "succeeded") =>
        /\ row[o].result = "kick" => requests[o] = 1
        /\ row[o].result = "ban" => member = "banned"
        /\ (Kind[o] = "kick" /\ row[o].result \in {"planned", "kick_missing"})
              => requests[o] = 0
        /\ row[o].result = "unknown" => row[o].effect /\ attention

\* Evidence is deleted only once the final review projection has been written.
CleanupAfterProjection ==
    \A w \in Worker :
        (exec[w].stage \in {"work", "success"} /\ Kind[exec[w].op] = "cleanup") =>
            \A u \in Op : Kind[u] = "update" => row[u].status = "succeeded"

\* The rows keep the promise made about kicks: the marker is durable before the
\* request, one request per row, and a verdict that is true and final.
Kicks == {o \in Op : Kind[o] = "kick"}

Verdict(r) ==
    IF r.status # "succeeded" THEN "open"
    ELSE CASE r.result = "unknown"                      -> "unknown"
           [] r.result \in {"planned", "kick_missing"} -> "none"
           [] OTHER                                     -> "done"

Promise == INSTANCE PunishmentPromise WITH
    Punishment <- Kicks,
    armed      <- [o \in Kicks |-> row[o].effect],
    issued     <- [o \in Kicks |-> requests[o]],
    verdict    <- [o \in Kicks |-> Verdict(row[o])]

KeepsPromise == Promise!Spec

\* Every row comes to rest once faults stop, unless the case is being deleted
\* or the loop has ended and nobody reloads the cog.
AtRest(o) ==
    \/ row[o].status \in {"succeeded", "abandoned"}
    \/ row[o].status = "failed" /\ row[o].retryAt = "null"

EveryRowSettles == <>[](stopped \/ deleting \/ \A o \in Op : AtRest(o))
-----------------------------------------------------------------------------
(* The inductive invariant behind KickAtMostOnce and OneLeaseHolder *)

Active(w) == exec[w].stage # "idle"

\* Whoever acts, acts on a row and under a token, and settles a success with one.
Bound ==
    /\ \A w \in Worker : Active(w) => exec[w].op \in Op /\ exec[w].token > 0
    /\ \A w \in Worker : ~Active(w) => exec[w] = Idle
    /\ \A w \in Worker : At(w, "success") => exec[w].outcome \in Successes
    /\ \A b \in batch : b[2] > 0

\* Tokens come from one counter...
Issued ==
    /\ \A o \in Op : row[o].token <= claims
    /\ \A w \in Worker : Active(w) => exec[w].token <= claims
    /\ \A b \in batch : b[2] <= claims

\* ...and are held by one executor or one waiting entry at a time.
Distinct ==
    /\ \A v, w \in Worker :
          (Active(v) /\ Active(w) /\ exec[v].token = exec[w].token) => v = w
    /\ \A w \in Worker, b \in batch : Active(w) => exec[w].token # b[2]
    /\ \A b, d \in batch : b[2] = d[2] => b = d

KickAt(w, s) == exec[w].stage = s /\ Kind[exec[w].op] = "kick"

\* The marker precedes the request; a holder that saw no marker, and has not
\* lost its claim, can rely on what it saw; one executor at most may send.
Marked ==
    /\ \A o \in Kicks : requests[o] > 0 => row[o].effect
    /\ \A w \in Worker :
          (/\ KickAt(w, "start") \/ (KickAt(w, "decide") /\ ~exec[w].sawEffect)
           /\ row[exec[w].op].token = exec[w].token) => ~row[exec[w].op].effect
    /\ \A w \in Worker : KickAt(w, "call") =>
          row[exec[w].op].effect /\ requests[exec[w].op] = 0
    /\ \A v, w \in Worker :
          (KickAt(v, "call") /\ KickAt(w, "call") /\ exec[v].op = exec[w].op) => v = w

KickInv == TypeOK /\ Bound /\ Issued /\ Distinct /\ Marked /\ KickAtMostOnce

-----------------------------------------------------------------------------
(* The inductive invariant behind ResultTruthful and KeepsPromise *)

KickOutcomes == {"kick", "planned", "kick_missing", "unknown"}
NotSent      == {"planned", "kick_missing"}

\* No request for the kick has left, and no executor is about to send one.
Unsent(o) ==
    /\ requests[o] = 0
    /\ \A w \in Worker : ~(KickAt(w, "call") /\ exec[w].op = o)

\* What an executor read or is about to report is so, and stays so; that nothing
\* was sent, only as long as it holds the claim under which it reports.
Honest(w) ==
    /\ exec[w].sawEffect => row[exec[w].op].effect
    /\ ~KickAt(w, "work")
    /\ (KickAt(w, "flag") \/ KickAt(w, "success")) => exec[w].outcome \in KickOutcomes
    /\ ((At(w, "flag") \/ At(w, "success")) /\ exec[w].outcome = "unknown")
          => row[exec[w].op].effect
    /\ At(w, "success") =>
          /\ exec[w].outcome = "unknown" => attention
          /\ exec[w].outcome = "kick" => Kind[exec[w].op] = "kick" /\ requests[exec[w].op] > 0
          /\ exec[w].outcome = "ban" => member = "banned"
    /\ (/\ KickAt(w, "success") /\ exec[w].outcome \in NotSent
        /\ row[exec[w].op].token = exec[w].token) => Unsent(exec[w].op)

\* What a row records is so.
Recorded(o) ==
    row[o].status = "succeeded" =>
        /\ Kind[o] = "kick" => row[o].result \in KickOutcomes
        /\ row[o].result = "kick" => Kind[o] = "kick" /\ requests[o] > 0
        /\ row[o].result = "ban" => member = "banned"
        /\ (Kind[o] = "kick" /\ row[o].result \in NotSent) => Unsent(o)
        /\ row[o].result = "unknown" => row[o].effect /\ attention

ResultInv ==
    /\ KickInv
    /\ \A w \in Worker : Active(w) => Honest(w)
    /\ \A o \in Op : Recorded(o)

-----------------------------------------------------------------------------
(* The inductive invariant behind CleanupAfterProjection *)

Projected == \A u \in Op : Kind[u] = "update" => row[u].status = "succeeded"

\* Whoever works on a cleanup, or has claimed one, does so after the projection.
CleanupInv ==
    /\ KickInv
    /\ \A w \in Worker : (Active(w) /\ Kind[exec[w].op] = "cleanup") => Projected
    /\ \A b \in batch : Kind[b[1]] = "cleanup" => Projected
=============================================================================
