---------------------------- MODULE GateIncrement ----------------------------
(***************************************************************************)
(* Gate increments (NHCogs/nhmisc): a moderator rewards the users of a     *)
(* source message with their next Gate role.  The operation of a message   *)
(* and its members are rows of gate_increment_store.py; the roles are      *)
(* Discord's; the handlers are those of nhmisc.py, each step what a        *)
(* handler does between two awaits.                                        *)
(*                                                                         *)
(* A gate role is its tier, 0 standing for none.  `badge' stands for the   *)
(* roles of the additional achievements of an increment.                   *)
(***************************************************************************)
EXTENDS Naturals, FiniteSets

CONSTANTS
    Gated,          \* users
    Source,         \* source messages
    Handler,        \* handlers that may be at work at once
    Recovery,       \* the task of the start, which is one of them
    NoHandler, NoSource,
    MaxTier,        \* len(GATE_TIER_ROLE_IDS)
    Mentions,       \* whom the source messages may name: users by message
    Extras,         \* whether an increment may come with another achievement
    GateLimits      \* what may happen: records of crashes, faults, changes and erasures

ASSUME GateAssumption ==
    /\ MaxTier \in Nat \ {0} /\ IsFiniteSet(Gated) /\ IsFiniteSet(Source)
    /\ NoHandler \notin Handler /\ Recovery \in Handler /\ NoSource \notin Source
    /\ Mentions \subseteq [Source -> SUBSET Gated] /\ Extras \subseteq BOOLEAN
    /\ GateLimits \subseteq [{"crashes", "faults", "changes", "erasures"} -> Nat]

VARIABLES
    operation,      \* gate_increment_operations, by source message
    granted,        \* gate_increment_members, by source message and user
    award,          \* the Stargate awards of the operations: state and ordinal
    bonus,          \* the other achievement's award: whose operation, and its state
    gates, badge,   \* Discord: the gate roles and the other role of a user
    congrats,       \* Discord: whom the result message of a source names
    handler,        \* what each handler is doing
    unrecovered,    \* what the recovery of the start has yet to visit
    loaded,         \* the cog is loaded
    moved,          \* users whose roles or rows were changed by someone else
    mentions,       \* whom the messages name
    budget          \* what may still happen

gateRows == <<operation, granted, award, bonus>>
gateDiscord == <<gates, badge, congrats>>
context == <<loaded, moved, mentions>>
gateVars == <<gateRows, gateDiscord, handler, unrecovered, loaded, moved, mentions, budget>>

Tiers == 0..MaxTier
MemberState == {"none", "pending", "in_progress", "completed", "failed", "conflict"}
NoOperation == [state |-> "none", completed |-> 0, published |-> 0, result |-> FALSE,
                lease |-> NoHandler, publication |-> NoHandler]
NoMember == [state |-> "none", known |-> FALSE, expected |-> 0, target |-> 0,
             extra |-> FALSE, logged |-> FALSE]
NoAward == [state |-> "none", ordinal |-> 0]
NoBonus == [of |-> NoSource, state |-> "none"]

\* A handler: its plan (expected tier and ordinal by user, 0 for no plan), what it has
\* read, and the member it works on.  `only' is selected_user_ids.
Idle == [step |-> "idle", of |-> NoSource, confirms |-> FALSE, only |-> {}, ordinal |-> <<>>,
         expected |-> <<>>, extra |-> FALSE, todo |-> {}, unnamed |-> {}, user |-> {},
         outcome |-> "none", unlogged |-> {}, behind |-> FALSE,
         count |-> 0, lines |-> {}]

Rows(m) == {u \in Gated : granted[m][u].state # "none"}
InState(m, s) == {u \in Gated : granted[m][u].state = s}
OrdinalsOf(u, states) ==
    {award[m][u].ordinal : m \in {n \in Source : award[n][u].state \in states}}
NextOrdinal(used) == CHOOSE i \in 1..(Cardinality(used) + 1) :
                         i \notin used /\ \A j \in 1..(i - 1) : j \in used
Spend(what) == budget[what] > 0 /\ budget' = [budget EXCEPT ![what] = @ - 1]
Step(h, s) == handler[h].step = s
Goto(h, r) == handler' = [handler EXCEPT ![h] = r]
At(h, s) == Goto(h, [handler[h] EXCEPT !.step = s])

Init ==
    /\ operation = [m \in Source |-> NoOperation]
    /\ granted = [m \in Source |-> [u \in Gated |-> NoMember]]
    /\ award = [m \in Source |-> [u \in Gated |-> NoAward]]
    /\ bonus = [u \in Gated |-> NoBonus]
    /\ gates = [u \in Gated |-> {}]
    /\ badge = [u \in Gated |-> FALSE]
    /\ congrats = [m \in Source |-> {}]
    /\ handler = [h \in Handler |-> Idle]
    /\ unrecovered = {}
    /\ loaded = TRUE
    /\ moved = {}
    /\ mentions \in Mentions
    /\ budget \in GateLimits

----------------------------------------------------------------------------
(* Confirm: what the moderator selected is checked and claimed.             *)

\* A user who may be selected: no row of this message, a gate role that agrees with his
\* active awards, and a tier left.
ActiveCount(u) == Cardinality(OrdinalsOf(u, {"active"}))
InSync(u) == gates[u] = (IF ActiveCount(u) = 0 THEN {} ELSE {ActiveCount(u)})
Candidate(m, u) == granted[m][u].state = "none" /\ InSync(u)
                   /\ ActiveCount(u) < MaxTier /\ u \in mentions[m]

Prepare(h, m, users, extra) ==
    /\ loaded /\ Step(h, "idle")
    /\ users # {} /\ \A u \in users : Candidate(m, u)
    /\ Goto(h, [Idle EXCEPT
           !.step = "claim", !.of = m, !.confirms = TRUE, !.only = users, !.extra = extra,
           !.expected = [u \in users |-> ActiveCount(u)],
           !.ordinal = [u \in users |-> NextOrdinal(OrdinalsOf(u, {"active"}))]])
    /\ UNCHANGED <<gateRows, gateDiscord, unrecovered, context, budget>>

\* claim: the new members become rows with a pending award, or nothing changes.
Fresh(h) == handler[h].only \ {u \in Rows(handler[h].of) : granted[handler[h].of][u].known}
Busy(m) == operation[m].state = "applying" \/ operation[m].lease # NoHandler
           \/ operation[m].publication # NoHandler
ProgressAgrees(h) ==
    \A u \in Fresh(h) :
        handler[h].ordinal[u] = NextOrdinal(OrdinalsOf(u, {"pending", "active"}))

Claim(h) ==
    LET r == handler[h]
        m == r.of
        first == operation[m].state = "none"
    IN  /\ Step(h, "claim")
        /\ IF (first \/ Fresh(h) # {}) /\ (first \/ ~Busy(m)) /\ ProgressAgrees(h)
           THEN /\ operation' = [operation EXCEPT ![m].state = "applying"]
                /\ award' = [award EXCEPT ![m] = [u \in Gated |->
                      IF u \in Fresh(h)
                      THEN [state |-> "pending", ordinal |-> r.ordinal[u]] ELSE @[u]]]
                /\ bonus' = [u \in Gated |->
                      IF u \in Fresh(h) /\ r.extra /\ bonus[u].state = "none"
                      THEN [of |-> m, state |-> "pending"] ELSE bonus[u]]
                /\ granted' = [granted EXCEPT ![m] = [u \in Gated |->
                      IF u \in Fresh(h)
                      THEN [state |-> "pending", known |-> TRUE, logged |-> FALSE,
                            expected |-> r.expected[u], target |-> r.expected[u] + 1,
                            extra |-> r.extra]
                      ELSE @[u]]]
                /\ Goto(h, [Idle EXCEPT !.step = "lease", !.of = m,
                                        !.confirms = TRUE, !.only = r.only])
           ELSE Goto(h, Idle) /\ UNCHANGED gateRows
        /\ UNCHANGED <<gateDiscord, unrecovered, context, budget>>

(* The other entries: the retry button, the context action on a message     *)
(* that has an operation, and the recovery of the start.                     *)
Resume(h, m) ==
    /\ loaded /\ Step(h, "idle") /\ operation[m].state \in {"applying", "partial"}
    /\ Goto(h, [Idle EXCEPT !.step = "lease", !.of = m, !.only = Gated])
    /\ UNCHANGED <<gateRows, gateDiscord, unrecovered, context, budget>>

Unlogged(m) == {u \in InState(m, "completed") : ~granted[m][u].logged}
Behind(m) == operation[m].published < operation[m].completed

Reopen(h, m) ==
    /\ loaded /\ Step(h, "idle") /\ operation[m].completed > 0
    /\ Goto(h, [Idle EXCEPT !.step = "log", !.of = m,
                            !.unlogged = Unlogged(m), !.behind = Behind(m)])
    /\ UNCHANGED <<gateRows, gateDiscord, unrecovered, context, budget>>

\* The recovery is one task: it visits the messages one by one.
Recover(m) ==
    /\ loaded /\ Step(Recovery, "idle") /\ m \in unrecovered
    /\ unrecovered' = unrecovered \ {m}
    /\ Goto(Recovery, [Idle EXCEPT !.step = "lease", !.of = m, !.only = Gated])
    /\ UNCHANGED <<gateRows, gateDiscord, context, budget>>

----------------------------------------------------------------------------
(* _execute_gate_increment_operation                                         *)

\* The lease, and with it a snapshot: what is left of the members.
AcquireLease(h) ==
    LET r == handler[h]
        m == r.of
        left == {u \in Rows(m) : granted[m][u].state # "completed"}
    IN  /\ Step(h, "lease")
        /\ IF operation[m].state \in {"applying", "partial"} /\ operation[m].lease = NoHandler
           THEN /\ operation' = [operation EXCEPT ![m].lease = h]
                /\ Goto(h, [Idle EXCEPT
                     !.step = "run", !.of = m,
                     !.todo = {u \in left : granted[m][u].known /\ u \in r.only},
                     !.unnamed = {u \in left : ~granted[m][u].known /\ ~r.confirms}])
           ELSE /\ Goto(h, IF operation[m].state = "applying" /\ ~r.confirms /\ h # Recovery
                           THEN Idle
                           ELSE [Idle EXCEPT !.step = "log", !.of = m,
                                     !.unlogged = Unlogged(m), !.behind = Behind(m)])
                /\ UNCHANGED operation
        /\ UNCHANGED <<granted, award, bonus, gateDiscord, unrecovered, context, budget>>

\* The roles of the guild are not configured: the lease is given back.
Refuse(h) ==
    /\ Step(h, "run") /\ handler[h].user = {} /\ Spend("faults")
    /\ operation' = [operation EXCEPT ![handler[h].of].lease = NoHandler]
    /\ Goto(h, Idle)
    /\ UNCHANGED <<granted, award, bonus, gateDiscord, unrecovered, context>>

\* mark_member_in_progress, of a member with or without a user.
Begin(h, u) ==
    LET r == handler[h] IN
    /\ Step(h, "run") /\ u \in r.todo \cup r.unnamed
    /\ granted' = [granted EXCEPT ![r.of][u].state = "in_progress"]
    /\ Goto(h, IF u \in r.unnamed
               THEN [r EXCEPT !.step = "mark", !.user = {u}, !.outcome = "conflict",
                              !.unnamed = @ \ {u}]
               ELSE [r EXCEPT !.step = "fetch", !.user = {u}, !.todo = @ \ {u}])
    /\ UNCHANGED <<operation, award, bonus, gateDiscord, unrecovered, context, budget>>

\* classify_member_recovery, and whether an additional role is due: the row's own awards.
Owes(m, u) == granted[m][u].known /\ bonus[u].of = m
Fetch(h) ==
    LET r == handler[h]
        u == CHOOSE x \in r.user : TRUE
        row == granted[r.of][u]
        outcome == IF gates[u] = {row.target} /\ row.target > 0
                   THEN IF Owes(r.of, u) /\ ~badge[u] THEN "edit" ELSE "completed"
                   ELSE IF gates[u] = {row.expected} \ {0} THEN "edit" ELSE "conflict"
    IN  /\ Step(h, "fetch")
        /\ \/ /\ Goto(h, [r EXCEPT !.step = IF outcome = "edit" THEN "edit" ELSE "mark",
                                   !.outcome = outcome,
                                   !.lines = {x \in {u} : badge[x] \/ Owes(r.of, x)}])
              /\ UNCHANGED budget
           \/ /\ Spend("faults")
              /\ Goto(h, [r EXCEPT !.step = "mark", !.outcome = "failed"])
        /\ UNCHANGED <<gateRows, gateDiscord, unrecovered, context>>

\* member.edit(roles=...) with the roles that were read, or its failure.
Edit(h) ==
    LET r == handler[h]
        u == CHOOSE x \in r.user : TRUE
    IN  /\ Step(h, "edit")
        /\ \/ /\ gates' = [gates EXCEPT ![u] = {granted[r.of][u].target}]
              /\ badge' = [badge EXCEPT ![u] = u \in r.lines]
              /\ Goto(h, [r EXCEPT !.step = "mark", !.outcome = "completed"])
              /\ UNCHANGED <<budget, congrats>>
           \/ /\ Spend("faults")
              /\ Goto(h, [r EXCEPT !.step = "mark", !.outcome = "failed"])
              /\ UNCHANGED gateDiscord
        /\ UNCHANGED <<gateRows, unrecovered, context>>

\* mark_member_completed makes the pending awards active, with the row.
Mark(h) ==
    LET r == handler[h]
        u == CHOOSE x \in r.user : TRUE
        done == r.outcome = "completed" /\ granted[r.of][u].known
    IN  /\ Step(h, "mark")
        /\ granted' = [granted EXCEPT ![r.of][u].state = r.outcome]
        /\ award' = IF done /\ award[r.of][u].state = "pending"
                    THEN [award EXCEPT ![r.of][u].state = "active"] ELSE award
        /\ bonus' = IF done /\ bonus[u] = [of |-> r.of, state |-> "pending"]
                    THEN [bonus EXCEPT ![u].state = "active"] ELSE bonus
        /\ Goto(h, [r EXCEPT !.step = "run", !.user = {}, !.outcome = "none", !.lines = {}])
        /\ UNCHANGED <<operation, gateDiscord, unrecovered, context, budget>>

\* finalize_operation counts the rows and drops the lease.
Finalize(h) ==
    LET r == handler[h]
        m == r.of
        count == Cardinality(InState(m, "completed"))
    IN  /\ Step(h, "run") /\ r.todo \cup r.unnamed = {}
        /\ operation' = [operation EXCEPT
             ![m].state = IF count = Cardinality(Rows(m)) THEN "completed" ELSE "partial",
             ![m].completed = count, ![m].lease = NoHandler]
        /\ Goto(h, [r EXCEPT !.step = "log", !.unlogged = Unlogged(m),
                             !.behind = operation[m].published < count])
        /\ UNCHANGED <<granted, award, bonus, gateDiscord, unrecovered, context, budget>>

----------------------------------------------------------------------------
(* The moderation log and the congratulations.                               *)

\* The log of what the snapshot holds; only what was sent is marked.
Log(h) ==
    /\ Step(h, "log")
    /\ \/ At(h, IF handler[h].unlogged = {} THEN "publish" ELSE "logged") /\ UNCHANGED budget
       \/ handler[h].unlogged # {} /\ Spend("faults")
          /\ Goto(h, [handler[h] EXCEPT !.step = "publish", !.unlogged = {}])
    /\ UNCHANGED <<gateRows, gateDiscord, unrecovered, context>>

MarkLogged(h) ==
    /\ Step(h, "logged")
    /\ granted' = [granted EXCEPT ![handler[h].of] = [u \in Gated |->
          IF u \in handler[h].unlogged /\ @[u].state = "completed"
          THEN [@[u] EXCEPT !.logged = TRUE] ELSE @[u]]]
    /\ Goto(h, [handler[h] EXCEPT !.step = "publish", !.unlogged = {}])
    /\ UNCHANGED <<operation, award, bonus, gateDiscord, unrecovered, context, budget>>

AcquireAnyway(h) ==
    /\ Step(h, "publish")
    /\ operation' = [operation EXCEPT ![handler[h].of].publication = h]
    /\ At(h, "read")
    /\ UNCHANGED <<granted, award, bonus, gateDiscord, unrecovered, context, budget>>

\* The publication's lease; the rows are read again after it is acquired.
AcquirePublication(h) ==
    LET m == handler[h].of
        op == operation[m]
    IN  /\ Step(h, "publish")
        /\ IF handler[h].behind /\ op.state \in {"completed", "partial"} /\ Behind(m)
              /\ op.publication = NoHandler
           THEN /\ operation' = [operation EXCEPT ![m].publication = h]
                /\ At(h, "read")
           ELSE Goto(h, Idle) /\ UNCHANGED operation
        /\ UNCHANGED <<granted, award, bonus, gateDiscord, unrecovered, context, budget>>

ReadLines(h) ==
    LET m == handler[h].of
        lines == {u \in InState(m, "completed") : granted[m][u].known}
    IN  /\ Step(h, "read")
        /\ IF lines = {}
           THEN /\ operation' = [operation EXCEPT ![m].publication = NoHandler]
                /\ Goto(h, Idle)
           ELSE /\ Goto(h, [handler[h] EXCEPT !.step = "deliver", !.lines = lines,
                                              !.count = operation[m].completed])
                /\ UNCHANGED operation
        /\ UNCHANGED <<granted, award, bonus, gateDiscord, unrecovered, context, budget>>

\* The result message is sent, or the recorded one edited.
Deliver(h) ==
    LET m == handler[h].of IN
    /\ Step(h, "deliver")
    /\ \/ /\ congrats' = [congrats EXCEPT ![m] = handler[h].lines]
          /\ At(h, "record")
          /\ UNCHANGED <<operation, budget>>
       \/ /\ Spend("faults")
          /\ operation' = [operation EXCEPT ![m].publication = NoHandler]
          /\ Goto(h, Idle)
          /\ UNCHANGED congrats
    /\ UNCHANGED <<granted, award, bonus, gates, badge, unrecovered, context>>

Record(h) ==
    LET m == handler[h].of IN
    /\ Step(h, "record")
    /\ operation' = IF operation[m].publication = h
                       /\ operation[m].state \in {"completed", "partial"}
                    THEN [operation EXCEPT ![m].result = TRUE, ![m].publication = NoHandler,
                                           ![m].published = handler[h].count]
                    ELSE operation
    /\ Goto(h, Idle)
    /\ UNCHANGED <<granted, award, bonus, gateDiscord, unrecovered, context, budget>>

----------------------------------------------------------------------------
(* Moderators change gate roles by hand; users have their data erased; the  *)
(* process ends and starts.                                                  *)

ChangeRoles(u, tiers) ==
    /\ tiers # gates[u] /\ Spend("changes")
    /\ gates' = [gates EXCEPT ![u] = tiers]
    /\ moved' = moved \cup {u}
    /\ UNCHANGED <<gateRows, badge, congrats, handler, unrecovered, loaded, mentions>>

\* delete_user_everywhere deletes the awards, redact_user_data what the rows say of him.
\* Bound: the message does not reward him again, which would be a second row of his.
Erase(u) ==
    /\ loaded /\ Spend("erasures")
    /\ \A h \in Handler : ~(Step(h, "claim") /\ u \in handler[h].only)
    /\ award' = [m \in Source |-> [award[m] EXCEPT ![u] = NoAward]]
    /\ bonus' = [bonus EXCEPT ![u] = NoBonus]
    /\ granted' = [m \in Source |-> [granted[m] EXCEPT ![u] =
          IF @.state = "completed" /\ operation[m].state \in {"completed", "partial"}
             /\ (operation[m].result \/ operation[m].completed = 0)
          THEN [@ EXCEPT !.known = FALSE, !.expected = 0, !.target = 0]
          ELSE [@ EXCEPT !.known = FALSE]]]
    /\ moved' = moved \cup {u}
    /\ UNCHANGED <<operation, gateDiscord, handler, unrecovered, loaded, mentions>>

Crash ==
    /\ loaded /\ Spend("crashes")
    /\ loaded' = FALSE /\ unrecovered' = {}
    /\ handler' = [h \in Handler |-> Idle]
    /\ UNCHANGED <<gateRows, gateDiscord, moved, mentions>>

StartWithLeases ==
    /\ ~loaded /\ loaded' = TRUE
    /\ unrecovered' = {m \in Source : \/ operation[m].state \in {"applying", "partial"}
                                      \/ Behind(m) \/ Unlogged(m) # {}}
    /\ UNCHANGED <<gateRows, gateDiscord, handler, moved, mentions, budget>>

\* The store drops the leases; what is unfinished will be visited.
Start ==
    /\ ~loaded /\ loaded' = TRUE
    /\ operation' = [m \in Source |->
          IF operation[m].state \in {"applying", "partial"}
             \/ operation[m].publication # NoHandler
          THEN [operation[m] EXCEPT !.lease = NoHandler, !.publication = NoHandler]
          ELSE operation[m]]
    /\ unrecovered' = {m \in Source : \/ operation[m].state \in {"applying", "partial"}
                                      \/ Behind(m) \/ Unlogged(m) # {}}
    /\ UNCHANGED <<granted, award, bonus, gateDiscord, handler, moved, mentions, budget>>

----------------------------------------------------------------------------
Advance(h) ==
    \/ Claim(h) \/ AcquireLease(h) \/ Refuse(h)
    \/ \E u \in Gated : Begin(h, u)
    \/ Fetch(h) \/ Edit(h) \/ Mark(h) \/ Finalize(h)
    \/ Log(h) \/ MarkLogged(h)
    \/ AcquirePublication(h) \/ ReadLines(h) \/ Deliver(h) \/ Record(h)

Next ==
    \/ \E h \in Handler \ {Recovery}, m \in Source :
         \/ \E users \in SUBSET Gated, extra \in Extras : Prepare(h, m, users, extra)
         \/ Resume(h, m) \/ Reopen(h, m)
    \/ \E m \in Source : Recover(m)
    \/ \E h \in Handler : Advance(h)
    \/ \E u \in Gated : Erase(u) \/ \E tiers \in SUBSET (1..MaxTier) : ChangeRoles(u, tiers)
    \/ Crash \/ Start

Spec == Init /\ [][Next]_gateVars

\* Handlers are tasks of the event loop, and the cog is started again.
Fairness ==
    /\ \A h \in Handler : WF_gateVars(Advance(h))
    /\ WF_gateVars(\E m \in Source : Recover(m))
    /\ WF_gateVars(Start)
FairSpec == Spec /\ Fairness

----------------------------------------------------------------------------
TypeOK ==
    /\ operation \in [Source -> [state : {"none", "applying", "partial", "completed"},
                                 completed : Nat, published : Nat, result : BOOLEAN,
                                 lease : Handler \cup {NoHandler},
                                 publication : Handler \cup {NoHandler}]]
    /\ granted \in [Source -> [Gated -> [state : MemberState, known : BOOLEAN,
                                         expected : Tiers, target : Tiers,
                                         extra : BOOLEAN, logged : BOOLEAN]]]
    /\ award \in [Source -> [Gated -> [state : {"none", "pending", "active"}, ordinal : Tiers]]]
    /\ bonus \in [Gated -> [of : Source \cup {NoSource}, state : {"none", "pending", "active"}]]
    /\ gates \in [Gated -> SUBSET (1..MaxTier)]
    /\ badge \in [Gated -> BOOLEAN]
    /\ congrats \in [Source -> SUBSET Gated]
    /\ unrecovered \subseteq Source /\ loaded \in BOOLEAN /\ moved \subseteq Gated

\* A Gate is earned once.  The role of a user whom nobody else has touched is the one of
\* his active awards, whose ordinals are 1, 2, ... without a gap; or of one more, whose
\* award is pending and whose row was begun.  So neither two messages, nor a claim beside a retry, nor
\* a retry after the process ended between the edit and its record, increments him twice,
\* and no award stays behind without its role.
GateEarnedOnce ==
    \A u \in Gated \ moved :
        LET active == OrdinalsOf(u, {"active"})
            n == Cardinality({m \in Source : award[m][u].state = "active"})
        IN  /\ active = 1..n
            /\ \/ gates[u] = {n} \ {0}
               \/ /\ gates[u] = {n + 1}
                  /\ \E m \in Source : /\ award[m][u] = [state |-> "pending", ordinal |-> n + 1]
                                     /\ granted[m][u].state # "pending"

\* What users were told agrees with the rows: while nobody publishes, every completed member
\* is counted and nothing is left to publish, the result message names exactly those.
AnnouncementCurrent ==
    \A m \in Source :
        LET done == InState(m, "completed") IN
        (/\ operation[m].publication = NoHandler
         /\ operation[m].completed = Cardinality(done) /\ operation[m].published = Cardinality(done))
            => congrats[m] \ moved = done \ moved

\* Gates are earned once, and what was told agrees with the rows (GateIncrementStore,
\* publication lease).
IncrementsHonest == GateEarnedOnce /\ AnnouncementCurrent

\* Nobody is congratulated for a Gate that was not recorded as his.
CongratulationEarned ==
    [][\A m \in Source : \A u \in (congrats'[m] \ congrats[m]) \ moved' :
           award[m][u].state = "active" /\ granted[m][u].state = "completed"]_gateVars

\* What a crash interrupted is carried through and announced after the start, if Discord
\* fails no more: no lease keeps its message busy, and no handler that gives way to another
\* leaves the message to nobody.  An operation whose users were all erased has nothing to say.
Named(m) == {u \in InState(m, "completed") : granted[m][u].known}
Announced(m) == operation[m].state # "applying" /\ (Behind(m) => Named(m) = {})
IncrementAnnounced ==
    \A m \in Source : (m \in unrecovered /\ budget["faults"] = 0) ~> Announced(m)

\* What has been completed is announced, and nothing else is.
AnnouncedRightly == IncrementAnnounced /\ CongratulationEarned
=============================================================================
