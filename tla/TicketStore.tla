----------------------------- MODULE TicketStore -----------------------------
(***************************************************************************)
(* The row of a review ticket and what the transactions of                 *)
(* NHCogs/githubtickets/store.py make of it.  Each operator is one UPDATE, *)
(* applied to a row that satisfies the statement's WHERE clause; the       *)
(* callers (Tickets) have the guards.                                      *)
(*                                                                         *)
(* A point in time is "later" or "due"; a protection is over or not.       *)
(* transition_version, updated_at and the ticket's text are left out.  The *)
(* version guards the two writes of projection_sync_at, and only those who *)
(* hold the ticket's lock change an open or claimed row.                   *)
(***************************************************************************)
EXTENDS Naturals, FiniteSets

CONSTANTS
    User, Author, NoUser,      \* a ticket's author and the possible reviewers
    Message, NoMessage         \* message ids; a thread has its message's id

ASSUME UserAssumption == Author \in User /\ NoUser \notin User
ASSUME MessageAssumption == NoMessage \notin Message

Mode == {"none", "automatic", "direct_wait", "direct_automatic"}
PingAction == {"direct_ping", "automatic_ping"}
Time == {"none", "later", "due"}

\* pending_target_id and pending_ping_automatic.
NoPing == [user |-> NoUser, automatic |-> FALSE]
Ping == {NoPing} \cup [user : User, automatic : BOOLEAN]

Ticket ==
    [state     : {"creating", "open", "claimed", "finishing"},
     mode      : Mode,
     message   : Message \cup {NoMessage},
     thread    : Message \cup {NoMessage},
     direct    : User \cup {NoUser},
     target    : User \cup {NoUser},
     assignee  : User \cup {NoUser},
     pending   : Ping,
     pings     : Nat,
     protected : BOOLEAN,                     \* protection_until is ahead
     next      : {"none", "target_timeout"} \cup PingAction,
     nextAt    : Time,
     syncAt    : Time,                        \* projection_sync_at
     excluded  : SUBSET User,                 \* ticket_exclusions
     asked     : SUBSET User]                 \* ticket_pings

\* What cleanup leaves of a ticket: the ids of what is to be deleted.
Emptied(message, thread) ==
    [state |-> "finishing", mode |-> "none", message |-> message, thread |-> thread,
     direct |-> NoUser, target |-> NoUser, assignee |-> NoUser, pending |-> NoPing,
     pings |-> 0, protected |-> FALSE, next |-> "none", nextAt |-> "none",
     syncAt |-> "due", excluded |-> {}, asked |-> {}]

Created(mode, direct) ==
    [Emptied(NoMessage, NoMessage) EXCEPT
        !.state = "creating", !.mode = mode, !.direct = direct, !.syncAt = "none"]

AbsentIf(absent, id) == IF absent THEN NoMessage ELSE id

Finishing(t, messageAbsent, threadAbsent) ==
    Emptied(AbsentIf(messageAbsent, t.message), AbsentIf(threadAbsent, t.thread))

Scheduled(t, action) ==
    [t EXCEPT !.protected = TRUE, !.next = action,
              !.nextAt = IF action = "none" THEN "none" ELSE "later"]

Activated(t, message, thread) ==
    LET first == CASE t.mode = "automatic" -> "automatic_ping"
                   [] t.mode \in {"direct_wait", "direct_automatic"} -> "direct_ping"
                   [] OTHER -> "none"
    IN  [Scheduled(t, first) EXCEPT !.state = "open", !.message = message,
                                    !.thread = thread, !.syncAt = "none"]

\* A ticket that is free again is routed automatically, if it may be.
Released(t) ==
    [Scheduled(t, IF t.mode \in {"automatic", "direct_automatic"}
                  THEN "automatic_ping" ELSE "none") EXCEPT
        !.target = NoUser, !.pending = NoPing, !.syncAt = "due"]

Claimed(t, u) ==
    [Scheduled(t, "none") EXCEPT
        !.state = "claimed", !.assignee = u, !.target = NoUser, !.pending = NoPing,
        !.syncAt = "due"]

Excluding(t, u) == [t EXCEPT !.excluded = @ \cup {u}]

Declined(t, u) ==
    IF u \in {t.target, t.pending.user}
    THEN Released(Excluding(t, u))
    ELSE [Excluding(t, u) EXCEPT !.protected = TRUE]

\* A fault: the assignee is forgotten before he is excluded.
UnassignedTooEarly(t) ==
    Excluding([Released(t) EXCEPT !.state = "open", !.assignee = NoUser], NoUser)

Unassigned(t) ==
    [Released(Excluding(t, t.assignee)) EXCEPT !.state = "open", !.assignee = NoUser]

TimedOut(t) ==
    LET r == Released(Excluding(t, t.target)) IN [r EXCEPT !.pending = t.pending]

\* A fault: the exclusions are forgotten.
UsedIfAsked(t, u) == u \in t.asked

Used(t, u) == u \in t.asked \cup t.excluded

Reserved(t, u, automatic) ==
    [t EXCEPT !.pending = [user |-> u, automatic |-> automatic]]

Acknowledged(t) ==
    [t EXCEPT !.pings = @ + 1, !.target = t.pending.user, !.pending = NoPing,
              !.next = "target_timeout", !.nextAt = "later", !.syncAt = "due",
              !.asked = @ \cup {t.pending.user}]

Cancelled(t) == [t EXCEPT !.pending = NoPing]
Deferred(t)  == [t EXCEPT !.nextAt = "later"]
Exhausted(t) == [t EXCEPT !.next = "none", !.nextAt = "none", !.pending = NoPing]

Involves(t, u) == u \in {t.target, t.pending.user, t.assignee}
Concerns(t, u) == Involves(t, u) \/ t.direct = u

\* A fault: the erasure leaves the direct reviewer in the row.
RedactedButDirect(t, u) ==
    LET forgotten == [t EXCEPT !.excluded = @ \ {u}, !.asked = @ \ {u}]
    IN  IF t.state \in {"open", "claimed"} /\ Involves(t, u)
        THEN [Released(forgotten) EXCEPT !.state = "open", !.assignee = NoUser]
        ELSE forgotten

\* The data of a user who is not the author is erased.
Redacted(t, u) ==
    LET forgotten == [t EXCEPT !.excluded = @ \ {u}, !.asked = @ \ {u},
                               !.direct = IF @ = u THEN NoUser ELSE @]
    IN  IF \/ t.state = "open" /\ Concerns(t, u)
           \/ t.state = "claimed" /\ Involves(t, u)
        THEN [Released(forgotten) EXCEPT !.state = "open", !.direct = NoUser,
                                         !.assignee = NoUser]
        ELSE forgotten

\* Fault: the deadline of an update is forgotten.
IsDueToRoute(t) == t.state = "open" /\ t.nextAt = "due"

HasDeadline(t) == (t.state = "open" /\ t.nextAt # "none") \/ t.syncAt # "none"
IsDue(t) == (t.state = "open" /\ t.nextAt = "due") \/ t.syncAt = "due"
=============================================================================
