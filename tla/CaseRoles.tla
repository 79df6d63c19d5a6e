------------------------------ MODULE CaseRoles ------------------------------
(***************************************************************************)
(* The life of one member's detection cases and of the containment role    *)
(* the cases put on the member (NHCogs/honeypot/detection_cases.py, the    *)
(* tables detection_cases and detection_role_ownership; detection.py,      *)
(* resolve_detection_case; operations/role_apply.py, role_release.py and   *)
(* moderator_decision.py).                                                 *)
(*                                                                         *)
(* A case is resolved by whoever holds its resolving token: a moderator's  *)
(* ban or kick, a moderator's ignore, or a resolver (the expiry loops, the *)
(* end of an automatic punishment).  A new message joins the case that is  *)
(* open, or takes a case back from a resolution that has not acted yet.    *)
(* Role handlers run under the member's lock, between store transactions   *)
(* that know nothing of that lock.  OperationQueue has the details of a    *)
(* row's claim; here a claim is its number.                                *)
(***************************************************************************)
EXTENDS Naturals, FiniteSets

CONSTANTS
    Case,          \* the cases the member may get, one open at a time
    NoCase,
    Worker,        \* executors of role operations
    Resolver,      \* callers of resolve_detection_case
    Teams,         \* which executors and resolvers a behaviour may have (a bound)
    MaxMessages,   \* bound on messages
    MaxClaims,     \* bound on the claims of one row
    MaxFaults      \* bound on crashes, dead heartbeats and failing calls

ASSUME NoCaseAssumption == NoCase \notin Case
ASSUME TeamAssumption == Teams \subseteq SUBSET (Worker \cup Resolver)
ASSUME ResolverAssumption == Resolver \cap {"none", "action", "ignore"} = {}
ASSUME BoundAssumption == MaxMessages \in Nat /\ MaxClaims \in Nat /\ MaxFaults \in Nat

VARIABLES
    case,          \* the table detection_cases
    action,        \* the case's moderator_ban or moderator_kick row
    ignored,       \* the case has a (succeeded) moderator_ignore row
    punished,      \* an automatic kick or ban of the case succeeded
    apply,         \* the case's role_apply row
    release,       \* the case's role_release row
    owner,         \* the row of detection_role_ownership: a case, or none
    hasRole,       \* the member carries the role
    added,         \* history: it was a case that put it there
    attention,     \* needs_attention
    exec,          \* the executors
    resolver,      \* the resolvers
    letGo,         \* cases whose ignore has not released its roles yet
    reopened,      \* history: cases that went from resolving back to pending
    team,          \* the executors and resolvers of this behaviour
    messages, faults

rows    == <<action, ignored, punished, apply, release>>
role    == <<owner, hasRole, added, attention>>
running == <<exec, resolver, letGo>>
bounds  == <<team, messages, faults>>
vars    == <<case, rows, role, running, reopened, bounds>>

Active == {"pending", "resolving"}
Terminal == {"resolved", "expired"}

\* What holds a resolving case: its action row, its ignore row, or a lease.
Holder == {"none", "action", "ignore"} \cup Resolver

CaseRow == [status : {"none"} \cup Active \cup Terminal,
            holder : Holder,
            stale  : BOOLEAN,      \* resolving_since <= now - 5 minutes
            due    : BOOLEAN,      \* expires_at <= now
            work   : {"capturing", "reviewing", "done"}]

Row == [status : {"none", "pending", "running", "failed", "succeeded", "abandoned"},
        effect : BOOLEAN,
        claim  : 0 .. MaxClaims]

Stages == {"idle", "load", "decide", "add", "record", "nest", "remove", "disown",
           "settle"}

Exec == [stage  : Stages,
         kind   : {"apply", "release"},
         case   : Case \cup {NoCase},
         claim  : 0 .. MaxClaims,
         outer  : 0 .. MaxClaims,   \* a release run inside an apply: its claim
         wanted : BOOLEAN,          \* snapshot: pending, and nobody punished yet
         failed : BOOLEAN]

Lease == [stage : {"idle", "claimed", "owned"},
          case  : Case \cup {NoCase},
          auto  : BOOLEAN,          \* automatic expiry
          owned : BOOLEAN]          \* owned_role_ids, read before finishing

TypeOK ==
    /\ case \in [Case -> CaseRow]
    /\ action \in [Case -> Row] /\ apply \in [Case -> Row] /\ release \in [Case -> Row]
    /\ ignored \in [Case -> BOOLEAN] /\ punished \in [Case -> BOOLEAN]
    /\ owner \in Case \cup {NoCase}
    /\ hasRole \in BOOLEAN /\ added \in BOOLEAN
    /\ attention \subseteq Case /\ letGo \subseteq Case /\ reopened \subseteq Case
    /\ exec \in [Worker -> Exec]
    /\ resolver \in [Resolver -> Lease]
    /\ team \in Teams /\ messages \in 0 .. MaxMessages /\ faults \in 0 .. MaxFaults

NoRow == [status |-> "none", effect |-> FALSE, claim |-> 0]
Pending == [NoRow EXCEPT !.status = "pending"]
Idle == [stage |-> "idle", kind |-> "apply", case |-> NoCase, claim |-> 0, outer |-> 0,
         wanted |-> FALSE, failed |-> FALSE]
NoLease == [stage |-> "idle", case |-> NoCase, auto |-> FALSE, owned |-> FALSE]
NoCaseRow == [status |-> "none", holder |-> "none", stale |-> FALSE, due |-> FALSE,
              work |-> "done"]

Init ==
    /\ case = [c \in Case |-> NoCaseRow]
    /\ action = [c \in Case |-> NoRow]
    /\ ignored = [c \in Case |-> FALSE]
    /\ punished = [c \in Case |-> FALSE]
    /\ apply = [c \in Case |-> NoRow]
    /\ release = [c \in Case |-> NoRow]
    /\ owner = NoCase
    /\ hasRole \in BOOLEAN        \* a moderator may have given the role
    /\ added = FALSE
    /\ attention = {}
    /\ exec = [w \in Worker |-> Idle]
    /\ resolver = [r \in Resolver |-> NoLease]
    /\ letGo = {} /\ reopened = {}
    /\ team \in Teams /\ messages = 0 /\ faults = 0

Fault == faults < MaxFaults /\ faults' = faults + 1 /\ UNCHANGED <<team, messages>>

\* INSERT OR IGNORE: a row that exists, in whatever state, stays as it is.
Ensured(r) == IF r.status = "none" THEN Pending ELSE r

\* A closed case is never looked at again but for its status.
Closed(s) == [NoCaseRow EXCEPT !.status = s]
Reopened(k) == [k EXCEPT !.status = "pending", !.holder = "none", !.stale = FALSE]
Resolving(k, h) == [k EXCEPT !.status = "resolving", !.holder = h, !.stale = FALSE]

-----------------------------------------------------------------------------
(* Messages *)

\* Faulty variant: only an ignore is kept; a kick under way is taken back too.
ProtectedByIgnore(c) == case[c].holder = "ignore"

\* A resolution that has acted is not taken back.
Protected(c) ==
    \/ case[c].holder = "action" /\ action[c].effect
    \/ case[c].holder = "ignore"

\* append_message: the message joins the open case, or opens one.  A resolving
\* case whose resolution has not acted becomes pending again, and its ban or
\* kick is abandoned.
Append(c, wantsRole) ==
    /\ messages < MaxMessages
    /\ \/ case[c].status \in Active
       \/ case[c].status = "none" /\ \A d \in Case : case[d].status \notin Active
    /\ LET back == case[c].status = "resolving" /\ ~Protected(c)
           opened == IF case[c].status = "resolving" /\ Protected(c)
                     THEN case[c] ELSE Reopened(case[c])
       IN  /\ case' = [case EXCEPT ![c] = [opened EXCEPT !.work = "capturing"]]
           /\ action' = IF /\ back /\ case[c].holder = "action"
                           /\ action[c].status \in {"pending", "running"}
                        THEN [action EXCEPT ![c].status = "abandoned"] ELSE action
           /\ reopened' = IF back THEN reopened \cup {c} ELSE reopened
    /\ apply' = IF wantsRole THEN [apply EXCEPT ![c] = Ensured(@)] ELSE apply
    /\ messages' = messages + 1
    /\ UNCHANGED <<ignored, punished, release, role, running, team, faults>>

\* The pipeline of the case's messages makes progress: captures end, then the
\* images are decided and the sources and purges are dealt with.
MessageWork(c) ==
    /\ case[c].status \in Active
    /\ case' = [case EXCEPT ![c].work =
                  IF @ = "capturing" THEN "reviewing" ELSE "done"]
    /\ case[c].work # "done"
    /\ UNCHANGED <<rows, role, running, reopened, bounds>>

\* The kick or ban a message called for succeeds.
Punish(c) ==
    /\ case[c].status \in Active /\ ~punished[c]
    /\ punished' = [punished EXCEPT ![c] = TRUE]
    /\ UNCHANGED <<case, action, ignored, apply, release, role, running, reopened, bounds>>

\* resume_capability_deferred_case: recovered evidence gets a fresh deadline.
ResumeDeferred(c) ==
    /\ case[c].status \in Active /\ case[c].work = "capturing" /\ case[c].due
    /\ case' = [case EXCEPT ![c].due = FALSE]
    /\ Fault
    /\ UNCHANGED <<rows, role, running, reopened>>

Expires(c) ==
    /\ case[c].status \in Active /\ ~case[c].due
    /\ case' = [case EXCEPT ![c].due = TRUE]
    /\ UNCHANGED <<rows, role, running, reopened, bounds>>

GoStale(c) ==
    /\ case[c].status = "resolving" /\ ~case[c].stale
    /\ case' = [case EXCEPT ![c].stale = TRUE]
    /\ UNCHANGED <<rows, role, running, reopened, bounds>>

-----------------------------------------------------------------------------
(* Moderators *)

\* claim_moderator_action: the action row takes the case, once; a row that was
\* abandoned before its effect makes room for a new one.
ClickAction(c) ==
    /\ case[c].status = "pending"
    /\ \/ action[c].status = "none"
       \/ action[c].status = "abandoned" /\ ~action[c].effect
    /\ action' = [action EXCEPT ![c] = Pending]
    /\ case' = [case EXCEPT ![c] = Resolving(@, "action")]
    /\ UNCHANGED <<ignored, punished, apply, release, role, running, reopened, bounds>>

ClaimAction(c) ==
    /\ action[c].status \in {"pending", "failed"}
    /\ action' = [action EXCEPT ![c].status = "running"]
    /\ UNCHANGED <<case, ignored, punished, apply, release, role, running, reopened, bounds>>

\* start_operation_effect, then the request.
StartAction(c) ==
    /\ action[c].status = "running" /\ ~action[c].effect
    /\ action' = [action EXCEPT ![c].effect = TRUE]
    /\ UNCHANGED <<case, ignored, punished, apply, release, role, running, reopened, bounds>>

FailAction(c) ==
    /\ action[c].status = "running"
    /\ action' = [action EXCEPT ![c].status = "failed"]
    /\ Fault
    /\ UNCHANGED <<case, ignored, punished, apply, release, role, running, reopened>>

\* The decision that holds the case has been carried out.
Decided(c) ==
    /\ case[c].status = "resolving"
    /\ \/ case[c].holder = "action" /\ action'[c].status = "succeeded"
       \/ case[c].holder = "ignore"

\* _finalize_moderator_action_locked, once nothing of the case is outstanding.
Finalized(c) ==
    IF Decided(c) /\ case[c].work = "done"
    THEN /\ case' = [case EXCEPT ![c] = Closed("resolved")]
         /\ release' = IF owner = c THEN [release EXCEPT ![c] = Ensured(@)] ELSE release
    ELSE UNCHANGED <<case, release>>

\* complete_moderator_action closes the case along with its row, if it can.
CompleteAction(c) ==
    /\ action[c].status = "running"
    /\ case[c].status = "resolving" /\ case[c].holder = "action"
    /\ action' = [action EXCEPT ![c].status = "succeeded"]
    /\ Finalized(c)
    /\ UNCHANGED <<ignored, punished, apply, role, running, reopened, bounds>>

\* record_moderator_ignore: a second one of the same case fails on its unique
\* key.  The roles are released afterwards, by the same caller.
ClickIgnore(c) ==
    /\ case[c].status = "pending" /\ ~ignored[c]
    /\ ignored' = [ignored EXCEPT ![c] = TRUE]
    /\ letGo' = letGo \cup {c}
    /\ IF case[c].work = "done"
       THEN /\ case' = [case EXCEPT ![c] = Closed("resolved")]
            /\ release' = IF owner = c THEN [release EXCEPT ![c] = Ensured(@)] ELSE release
       ELSE /\ case' = [case EXCEPT ![c] = Resolving(@, "ignore")]
            /\ UNCHANGED release
    /\ UNCHANGED <<action, punished, apply, role, exec, resolver, reopened, bounds>>

\* _release_detection_case_roles
ReleaseIgnored(c) ==
    /\ c \in letGo
    /\ letGo' = letGo \ {c}
    /\ release' = IF owner = c THEN [release EXCEPT ![c] = Ensured(@)] ELSE release
    /\ UNCHANGED <<case, action, ignored, punished, apply, role, exec, resolver, reopened,
                   bounds>>

\* reconcile_moderator_actions
Reconcile(c) ==
    /\ UNCHANGED action
    /\ Decided(c) /\ case[c].work = "done"
    /\ Finalized(c)
    /\ UNCHANGED <<ignored, punished, apply, role, running, reopened, bounds>>

-----------------------------------------------------------------------------
(* resolve_detection_case: for a case that is due, or, from the last image  *)
(* decision, for one that a punishment or an ignore has dealt with; what    *)
(* the latter read of the case's captures may be old by the time it claims. *)

\* claim_resolution: a pending case, or a stale resolution other than a
\* moderator's ban or kick.
ClaimResolution(r, c, auto) ==
    /\ resolver[r].stage = "idle"
    /\ IF auto THEN case[c].due /\ case[c].work # "capturing"
               ELSE punished[c] \/ ignored[c]
    /\ \/ case[c].status = "pending"
       \/ case[c].status = "resolving" /\ case[c].stale /\ case[c].holder # "action"
    /\ case' = [case EXCEPT ![c] = Resolving(@, r)]
    /\ resolver' = [resolver EXCEPT ![r] =
                      [stage |-> "claimed", case |-> c, auto |-> auto, owned |-> FALSE]]
    /\ UNCHANGED <<rows, role, exec, letGo, reopened, bounds>>

ReadOwned(r) ==
    /\ resolver[r].stage = "claimed"
    /\ resolver' = [resolver EXCEPT ![r].stage = "owned",
                                    ![r].owned = (owner = resolver[r].case)]
    /\ UNCHANGED <<case, rows, role, exec, letGo, reopened, bounds>>

Leased(r) == LET c == resolver[r].case
             IN  case[c].status = "resolving" /\ case[c].holder = r

\* finish_resolution: an expiry checks its conditions again, and gives a case
\* that no longer meets them back.
FinishResolution(r) ==
    /\ resolver[r].stage = "owned"
    /\ LET c == resolver[r].case
           auto == resolver[r].auto
           holds == Leased(r) /\ (auto => case[c].due /\ case[c].work # "capturing")
       IN  /\ case' = IF holds
                      THEN [case EXCEPT ![c] =
                              Closed(IF auto THEN "expired" ELSE "resolved")]
                      ELSE IF auto /\ Leased(r) THEN [case EXCEPT ![c] = Reopened(@)]
                      ELSE case
           /\ reopened' = IF ~holds /\ Leased(r) THEN reopened \cup {c} ELSE reopened
           /\ release' = IF holds /\ resolver[r].owned
                         THEN [release EXCEPT ![c] = Ensured(@)] ELSE release
    /\ resolver' = [resolver EXCEPT ![r] = NoLease]
    /\ UNCHANGED <<action, ignored, punished, apply, role, exec, letGo, bounds>>

\* release_resolution, when a call in between raises.
ReleaseResolution(r) ==
    /\ resolver[r].stage # "idle"
    /\ case' = IF Leased(r) THEN [case EXCEPT ![resolver[r].case] = Reopened(@)] ELSE case
    /\ reopened' = IF Leased(r) THEN reopened \cup {resolver[r].case} ELSE reopened
    /\ resolver' = [resolver EXCEPT ![r] = NoLease]
    /\ Fault
    /\ UNCHANGED <<rows, role, exec, letGo>>

-----------------------------------------------------------------------------
(* Role operations *)

Unfinished(k) == k.status \in {"pending", "running", "failed"}

Held(k, claim) == k.status = "running" /\ k.claim = claim

\* An executor is at work under the claim a row carries.
Attended(k, kind, c) ==
    \E w \in Worker :
        /\ exec[w].case = c
        /\ \/ exec[w].kind = kind /\ exec[w].claim = k.claim
           \/ kind = "apply" /\ exec[w].outer = k.claim

Claimed(k) == [k EXCEPT !.status = "running", !.claim = @ + 1]

\* A row that waits, one whose executor is gone, or one whose heartbeat died.
Claimable(k, kind, c) ==
    /\ Unfinished(k) /\ k.claim < MaxClaims
    /\ IF k.status = "running" /\ Attended(k, kind, c) THEN Fault ELSE UNCHANGED bounds

ClaimRole(w, kind, c) ==
    /\ exec[w].stage = "idle"
    /\ LET k == IF kind = "apply" THEN apply[c] ELSE release[c]
       IN  /\ Claimable(k, kind, c)
           /\ IF kind = "apply"
              THEN apply' = [apply EXCEPT ![c] = Claimed(k)] /\ UNCHANGED release
              ELSE release' = [release EXCEPT ![c] = Claimed(k)] /\ UNCHANGED apply
           /\ exec' = [exec EXCEPT ![w] = [Idle EXCEPT !.stage = "load", !.kind = kind,
                                              !.case = c, !.claim = k.claim + 1]]
    /\ UNCHANGED <<case, action, ignored, punished, role, resolver, letGo, reopened>>

\* The snapshot is taken before the handler waits for the member's lock.
Load(w) ==
    /\ exec[w].stage = "load"
    /\ LET c == exec[w].case
       IN  exec' = [exec EXCEPT ![w].stage = "decide",
                                ![w].wanted = /\ case[c].status = "pending"
                                              /\ ~punished[c] /\ ~ignored[c]
                                              /\ action[c].status # "succeeded"]
    /\ UNCHANGED <<case, rows, role, resolver, letGo, reopened, bounds>>

\* joinwatch_state.member_lock: a task that has it may take it again.
Inside(w) ==
    exec[w].stage \in {"add", "record", "nest", "remove", "disown"} \/ exec[w].outer > 0

LockedOut(w) == \E v \in Worker \ {w} : Inside(v)

Decides(w, kind) == exec[w].stage = "decide" /\ exec[w].kind = kind /\ ~LockedOut(w)

Goto(w, s) == exec' = [exec EXCEPT ![w].stage = s, ![w].wanted = FALSE]
Report(w, ok) ==
    exec' = [exec EXCEPT ![w].stage = "settle", ![w].wanted = FALSE, ![w].failed = ~ok]

Aside == UNCHANGED <<case, action, ignored, punished, resolver, letGo, reopened>>

\* Punished meanwhile, or no longer pending: nothing is applied.
ApplySuperseded(w) ==
    /\ Decides(w, "apply") /\ ~exec[w].wanted
    /\ Report(w, TRUE)
    /\ Aside /\ UNCHANGED <<apply, release, role, bounds>>

ApplyHeld(w) ==
    Held(apply[exec[w].case], exec[w].claim) /\ case[exec[w].case].status = "pending"

\* start_role_apply_effect, under the claim and only while the case is pending.
ApplyStarts(w) ==
    /\ Decides(w, "apply") /\ exec[w].wanted /\ ~hasRole
    /\ IF ApplyHeld(w)
       THEN apply' = [apply EXCEPT ![exec[w].case].effect = TRUE] /\ Goto(w, "add")
       ELSE Report(w, FALSE) /\ UNCHANGED apply
    /\ Aside /\ UNCHANGED <<release, role, bounds>>

\* An earlier attempt may have put the role there: moderators must look at it.
ApplyAmbiguous(w) ==
    /\ Decides(w, "apply") /\ exec[w].wanted /\ hasRole
    /\ apply[exec[w].case].effect
    /\ attention' = attention \cup {exec[w].case}
    /\ Report(w, TRUE)
    /\ Aside /\ UNCHANGED <<apply, release, owner, hasRole, added, bounds>>

\* transfer_terminal_role_ownership's WHERE clause: the case that owns the role
\* is closed, and its release has not begun.
Transferable(d, c) ==
    /\ d \notin {NoCase, c}
    /\ case[d].status \in Terminal
    /\ ~(release[d].effect /\ release[d].status # "succeeded")

\* The member already has the role: this case inherits it, waits for the
\* release of the case that owns it, or leaves a role of other origin alone.
ApplyReconciles(w) ==
    /\ Decides(w, "apply") /\ exec[w].wanted /\ hasRole
    /\ ~apply[exec[w].case].effect
    /\ LET c == exec[w].case
           inherits == ApplyHeld(w) /\ Transferable(owner, c)
       IN  /\ owner' = IF inherits THEN c ELSE owner
           /\ Report(w, inherits \/ owner \in {NoCase, c})
    /\ Aside /\ UNCHANGED <<apply, release, hasRole, added, attention, bounds>>

AddRole(w) ==
    /\ exec[w].stage = "add"
    /\ hasRole' = TRUE /\ added' = (added \/ ~hasRole)
    /\ Goto(w, "record")
    /\ Aside /\ UNCHANGED <<apply, release, owner, attention, bounds>>

\* An HTTP error, after which the role may or may not be there.
AddFails(w) ==
    /\ exec[w].stage = "add"
    /\ \/ hasRole' = TRUE /\ added' = (added \/ ~hasRole)
       \/ UNCHANGED <<hasRole, added>>
    /\ Report(w, FALSE)
    /\ Fault
    /\ Aside /\ UNCHANGED <<apply, release, owner, attention>>

\* Faulty variant: ownership of a case that closed meanwhile is just recorded.
NothingOwed(c) == FALSE

\* The case stopped waiting for review while the role was being added.
ReleaseRequired(c) == case[c].status # "pending"

\* record_operation_role_ownership
RecordOwnership(w) ==
    /\ exec[w].stage = "record"
    /\ LET c == exec[w].case
           recorded == Held(apply[c], exec[w].claim) /\ owner = NoCase
       IN  /\ owner' = IF recorded THEN c ELSE owner
           /\ attention' = IF recorded THEN attention ELSE attention \cup {c}
           /\ IF recorded /\ ReleaseRequired(c)
              THEN release' = [release EXCEPT ![c] = Ensured(@)] /\ Goto(w, "nest")
              ELSE UNCHANGED release /\ Report(w, TRUE)
    /\ Aside /\ UNCHANGED <<apply, hasRole, added, bounds>>

\* Any store call of the handler may fail.
HandlerRaises(w) ==
    /\ exec[w].stage \in {"decide", "record", "nest", "disown"}
    /\ exec[w].stage = "decide" => ~LockedOut(w)
    /\ Report(w, FALSE)
    /\ Fault
    /\ Aside /\ UNCHANGED <<apply, release, role>>

\* _run_pending_role_release: the release runs inside the apply, if it can be
\* claimed now.
NestRelease(w) ==
    /\ exec[w].stage = "nest"
    /\ LET c == exec[w].case
       IN  \/ /\ release[c].status \in {"pending", "failed"}
              /\ release[c].claim < MaxClaims
              /\ release' = [release EXCEPT ![c] = Claimed(@)]
              /\ exec' = [exec EXCEPT ![w].stage = "decide", ![w].kind = "release",
                                      ![w].claim = release[c].claim + 1,
                                      ![w].outer = exec[w].claim]
           \/ /\ release[c].status # "pending"
              /\ Report(w, TRUE)
              /\ UNCHANGED release
    /\ Aside /\ UNCHANGED <<apply, role, bounds>>

\* The role is another case's by now, or nobody's.
ReleaseMoot(w) ==
    /\ Decides(w, "release") /\ owner # exec[w].case
    /\ Report(w, TRUE)
    /\ Aside /\ UNCHANGED <<apply, release, role, bounds>>

\* Faulty variant: whose role it is by now is not looked at.
ReleaseUnasked(w) ==
    /\ Decides(w, "release")
    /\ release' = [release EXCEPT ![exec[w].case].effect = TRUE] /\ Goto(w, "remove")
    /\ Aside /\ UNCHANGED <<apply, role, bounds>>

\* Faulty variant: the ownership goes before the role does.
DisownsFirst(w) ==
    /\ Decides(w, "release") /\ owner = exec[w].case
    /\ release' = [release EXCEPT ![exec[w].case].effect = TRUE] /\ Goto(w, "remove")
    /\ owner' = NoCase
    /\ Aside /\ UNCHANGED <<apply, hasRole, added, attention, bounds>>

\* start_role_release_effect, under the claim and while the case owns the role.
ReleaseStarts(w) ==
    /\ Decides(w, "release") /\ owner = exec[w].case
    /\ IF Held(release[exec[w].case], exec[w].claim)
       THEN release' = [release EXCEPT ![exec[w].case].effect = TRUE] /\ Goto(w, "remove")
       ELSE Report(w, FALSE) /\ UNCHANGED release
    /\ Aside /\ UNCHANGED <<apply, role, bounds>>

RemoveRole(w) ==
    /\ exec[w].stage = "remove"
    /\ hasRole' = FALSE /\ added' = FALSE
    /\ Goto(w, "disown")
    /\ Aside /\ UNCHANGED <<apply, release, owner, attention, bounds>>

RemoveFails(w) ==
    /\ exec[w].stage = "remove"
    /\ \/ hasRole' = FALSE /\ added' = FALSE
       \/ UNCHANGED <<hasRole, added>>
    /\ Report(w, FALSE)
    /\ Fault
    /\ Aside /\ UNCHANGED <<apply, release, owner, attention>>

\* release_role_ownership, which asks for no claim.
Disown(w) ==
    /\ exec[w].stage = "disown"
    /\ owner' = IF owner = exec[w].case THEN NoCase ELSE owner
    /\ Report(w, TRUE)
    /\ Aside /\ UNCHANGED <<apply, release, hasRole, added, attention, bounds>>

\* Faulty variant: a failed attempt's row keeps its outcome as its status.
SettledWithOutcome(k, e) ==
    IF Held(k, e.claim)
    THEN [k EXCEPT !.status = IF e.failed THEN "rejected" ELSE "succeeded", !.claim = 0]
    ELSE k

Settled(k, e) ==
    IF Held(k, e.claim)
    THEN IF e.failed THEN [k EXCEPT !.status = "failed"]
         ELSE [k EXCEPT !.status = "succeeded", !.claim = 0]
    ELSE k

\* The row is settled under its claim.  A nested release returns to its apply,
\* which fails if the release succeeded under a claim it had lost.
Settle(w) ==
    /\ exec[w].stage = "settle"
    /\ LET e == exec[w]
           c == e.case
       IN  /\ IF e.kind = "apply"
              THEN apply' = [apply EXCEPT ![c] = Settled(@, e)] /\ UNCHANGED release
              ELSE release' = [release EXCEPT ![c] = Settled(@, e)] /\ UNCHANGED apply
           /\ exec' = [exec EXCEPT ![w] =
                 IF e.outer = 0 THEN Idle
                 ELSE [@ EXCEPT !.kind = "apply", !.claim = e.outer, !.outer = 0,
                                !.failed = ~e.failed /\ ~Held(release[c], e.claim)]]
    /\ Aside /\ UNCHANGED <<role, bounds>>

-----------------------------------------------------------------------------
(* Faults and the rest of the world *)

\* A moderator, or the member's leaving and joining, changes the role.
RoleChanges ==
    /\ hasRole' = ~hasRole /\ added' = FALSE
    /\ Fault
    /\ UNCHANGED <<case, rows, owner, attention, running, reopened>>

\* The process ends and starts again: only the database survives.
Crash ==
    /\ running # <<[w \in Worker |-> Idle], [r \in Resolver |-> NoLease], {}>>
    /\ exec' = [w \in Worker |-> Idle]
    /\ resolver' = [r \in Resolver |-> NoLease]
    /\ letGo' = {}
    /\ Fault
    /\ UNCHANGED <<case, rows, role, reopened>>

-----------------------------------------------------------------------------

Message(c) ==
    \/ \E wantsRole \in BOOLEAN : Append(c, wantsRole)
    \/ MessageWork(c) \/ Punish(c) \/ ResumeDeferred(c)

Moderate(c) ==
    \/ ClickAction(c) \/ ClaimAction(c) \/ StartAction(c) \/ FailAction(c)
    \/ CompleteAction(c) \/ ClickIgnore(c) \/ ReleaseIgnored(c) \/ Reconcile(c)

Resolve(r) ==
    \/ \E c \in Case, auto \in BOOLEAN : ClaimResolution(r, c, auto)
    \/ ReadOwned(r) \/ FinishResolution(r) \/ ReleaseResolution(r)

Execute(w) ==
    \/ \E kind \in {"apply", "release"}, c \in Case : ClaimRole(w, kind, c)
    \/ Load(w)
    \/ ApplySuperseded(w) \/ ApplyStarts(w) \/ ApplyAmbiguous(w) \/ ApplyReconciles(w)
    \/ AddRole(w) \/ AddFails(w) \/ RecordOwnership(w) \/ NestRelease(w)
    \/ ReleaseMoot(w) \/ ReleaseStarts(w) \/ RemoveRole(w) \/ RemoveFails(w)
    \/ Disown(w) \/ HandlerRaises(w) \/ Settle(w)

Next ==
    \/ \E c \in Case : Message(c) \/ Moderate(c) \/ Expires(c) \/ GoStale(c)
    \/ \E r \in Resolver \cap team : Resolve(r)
    \/ \E w \in Worker \cap team : Execute(w)
    \/ RoleChanges \/ Crash

Spec == Init /\ [][Next]_vars

-----------------------------------------------------------------------------
(* Properties *)

\* A release takes the role off only while its own case owns it: the next case,
\* which may have inherited it, keeps its member contained.
Removes(w) == exec[w].stage = "remove" /\ hasRole /\ ~hasRole' /\ exec'[w] # exec[w]

OnlyOwnRoleRemoved == [][\A w \in Worker : Removes(w) => owner = exec[w].case]_vars

\* While a case waits for its review, having never been taken back from a
\* resolution, its role stays on.
ContainedWhilePending ==
    [][\A w \in Worker : Removes(w) =>
          case[exec[w].case].status # "pending" \/ exec[w].case \in reopened]_vars

\* Containment means what the moderators read: the role stays on while its case is
\* pending, and a release takes off no other case's role (ReleaseStarts, Transferable).
ContainmentHonest == ContainedWhilePending /\ OnlyOwnRoleRemoved

\* A ban or kick that may have been sent decides its case: no message, no
\* expiry and no other moderator takes the case away from it.
SentActionDecides ==
    \A c \in Case : action[c].effect =>
        \/ case[c].status = "resolving" /\ case[c].holder = "action"
        \/ case[c].status = "resolved"

\* A closed case that still owns the role has its release before it, unless the
\* case was once taken back from a resolution.
ReleaseQueued ==
    \A c \in Case : (owner = c /\ case[c].status \in Terminal /\ c \notin reopened) =>
        Unfinished(release[c])

\* Failed calls and lost processes change neither: the role stays on while its case is
\* pending, and a step that closes a case leaves the release of its role queued.
ContainedWithFaults == ContainedWhilePending /\ [][ReleaseQueued']_vars

\* A closed case that still owns the role has its release before it, always.
RoleReleasedAtTheEnd ==
    \A c \in Case : (owner = c /\ case[c].status \in Terminal) => Unfinished(release[c])

\* A role that a case put on the member is owned by a case, or about to be, or
\* has been brought to the moderators' attention.
AddedRoleAccounted ==
    (hasRole /\ added) =>
        \/ owner # NoCase
        \/ attention # {}
        \/ \E c \in Case : apply[c].effect /\ Unfinished(apply[c])

\* No containment role is forgotten: one that a case put on has an owner or the
\* moderators' attention, and a closed case that owns one has its release queued.
RoleAccounted == AddedRoleAccounted /\ RoleReleasedAtTheEnd

-----------------------------------------------------------------------------
(* The inductive invariant behind ContainmentHonest and ContainedWithFaults *)

Busy(w) == exec[w].stage # "idle"
Applying(w) == Busy(w) /\ (exec[w].kind = "apply" \/ exec[w].outer > 0)
Releasing(w) == Busy(w) /\ exec[w].kind = "release"

\* Whoever acts, acts on a case and on a row of it that exists, at a stage of its
\* kind; an idle executor remembers nothing.
Placed(w) ==
    /\ IF Busy(w) THEN exec[w].case \in Case ELSE exec[w] = Idle
    /\ exec[w].outer > 0 => exec[w].kind = "release"
    /\ exec[w].stage \in {"add", "record", "nest"} =>
          exec[w].kind = "apply" /\ exec[w].outer = 0
    /\ exec[w].stage \in {"remove", "disown"} => exec[w].kind = "release"
    /\ Applying(w) => apply[exec[w].case].status # "none"
    /\ Releasing(w) => release[exec[w].case].status # "none"

Bound ==
    /\ \A w \in Worker : Placed(w)
    /\ \A r \in Resolver : resolver[r].stage # "idle" => resolver[r].case \in Case
    /\ \A c \in Case : apply[c].status # "none" => case[c].status # "none"

\* The member's lock: one executor at most is inside, and the one that takes the
\* role off does it for the case that owns it.
Locked ==
    /\ \A v, w \in Worker : Inside(v) /\ Inside(w) => v = w
    /\ \A w \in Worker : exec[w].stage = "remove" => owner = exec[w].case

\* A case whose role is to go is past its review, or was taken back once.
Past(c) == case[c].status \notin {"none", "pending"} \/ c \in reopened

Reviewed ==
    /\ \A c \in Case : release[c].status # "none" => Past(c)
    /\ \A c \in letGo : Past(c)

\* What a resolver read of the ownership, a release makes good.
Snapshots ==
    \A r \in Resolver :
        LET c == resolver[r].case
        IN  (resolver[r].stage = "owned" /\ Leased(r) /\ release[c].status = "none")
              => (resolver[r].owned <=> owner = c)

\* An apply that comes late finds the role owned; a release ends without it.
Timely(w) ==
    LET c == exec[w].case
    IN  c \notin reopened =>
          /\ exec[w].stage \in {"add", "record"} /\ release[c].status # "none" => owner = c
          /\ Releasing(w) /\ exec[w].stage = "settle" /\ ~exec[w].failed => owner # c

\* A closed case that owns the role has a release, and the release is not done with
\* before the ownership is.
Queued ==
    /\ \A c \in Case : owner = c /\ case[c].status \in Terminal => release[c].status # "none"
    /\ \A c \in Case \ reopened :
          owner = c /\ release[c].status # "none" => Unfinished(release[c])
    /\ \A w \in Worker : Timely(w)

RoleInv == TypeOK /\ Bound /\ Locked /\ Reviewed /\ Snapshots /\ Queued

-----------------------------------------------------------------------------
(* What else holds while no call has failed and the process has not ended *)

\* A moderator's ban or kick holds its case from the click to the end.
ActionHolds ==
    \A c \in Case :
        /\ action[c].status # "failed"
        /\ action[c].status \in {"pending", "running"} =>
              case[c].status = "resolving" /\ case[c].holder = "action"
        /\ action[c].effect =>
              \/ case[c].status = "resolving" /\ case[c].holder = "action"
              \/ case[c].status = "resolved"

ActionInv == faults = 0 => ActionHolds

\* The claim an executor works under is the one its row carries, and nobody else's.
ClaimsKept ==
    /\ \A w \in Worker : Busy(w) => exec[w].claim > 0
    /\ \A w \in Worker : Busy(w) /\ exec[w].kind = "apply" =>
          Held(apply[exec[w].case], exec[w].claim)
    /\ \A w \in Worker : exec[w].outer > 0 => Held(apply[exec[w].case], exec[w].outer)
    /\ \A w \in Worker : Releasing(w) => Held(release[exec[w].case], exec[w].claim)
    /\ \A v, w \in Worker :
          Applying(v) /\ Applying(w) /\ exec[v].case = exec[w].case => v = w
    /\ \A v, w \in Worker :
          Releasing(v) /\ Releasing(w) /\ exec[v].case = exec[w].case => v = w
    /\ \A c \in Case : apply[c].status = "running" =>
          \E w \in Worker : Applying(w) /\ exec[w].case = c

\* An apply that has not recorded an ownership.
Early(w) ==
    /\ exec[w].kind = "apply"
    /\ \/ exec[w].stage \in {"load", "decide", "add", "record"}
       \/ exec[w].stage = "settle" /\ exec[w].failed

\* A case owns the role, and has a release, through its one apply only.
OwnedOnce ==
    /\ \A c \in Case : apply[c].status \in {"none", "pending", "failed"} =>
          owner # c /\ release[c].status = "none"
    /\ \A w \in Worker : Early(w) =>
          owner # exec[w].case /\ release[exec[w].case].status = "none"
    /\ \A c \in Case : owner = c /\ release[c].status # "none" => Unfinished(release[c])
    /\ \A w \in Worker : Releasing(w) /\ exec[w].stage = "settle" /\ ~exec[w].failed =>
          owner # exec[w].case

\* The role a case put on is owned, flagged, or about to be either.
Accounted ==
    /\ \A w \in Worker : exec[w].stage \in {"add", "record"} => apply[exec[w].case].effect
    /\ \A w \in Worker : exec[w].stage = "disown" => ~added
    /\ hasRole /\ added =>
          \/ owner # NoCase
          \/ attention # {}
          \/ \E w \in Worker : exec[w].stage = "record"

NoFaultInv == faults = 0 => ClaimsKept /\ OwnedOnce /\ Accounted
=============================================================================
