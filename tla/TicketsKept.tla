---------------------------- MODULE TicketsKept ----------------------------
(***************************************************************************)
(* The last proofs about Tickets, for any users, requests, budget and      *)
(* limits: that nothing about a ticket is forgotten.  Three invariants,    *)
(* each with the ones before it: WakeInv, that whoever sets a deadline     *)
(* wakes the scheduler; ShownInv, that a message shows the assignee or the *)
(* row owes an update; and KeptInv, that what a ticket has in Discord is   *)
(* listed by its row or by the creation that has just made it.             *)
(***************************************************************************)
EXTENDS TicketsProofs

-----------------------------------------------------------------------------
(* Nothing is forgotten: the invariants *)

\* A deadline has something to do, and the other way round.
Timed(t) == t.next = "none" <=> t.nextAt = "none"

\* The scheduler that waits beside a deadline will be woken: by the handler that has set
\* it, or by the update that follows an erasure.
Editing == job["locked"].at \in {"edit", "ack_edit"}
Awake ==
    sched = "wait" /\ Exists /\ HasDeadline(ticket) /\ ~woken =>
        Active /\ (resync \/ Editing)

WakeInv == (Exists => Timed(ticket)) /\ Awake

\* The message shows the assignee, or an update is owed.
Current ==
    /\ Active /\ ticket.syncAt = "none" => shown = ticket.assignee
    /\ Creating => ticket.assignee = NoUser /\ shown = NoUser
    /\ Editing /\ Exists => Active
    /\ At("locked", "ack_edit") /\ Exists => shown = ticket.assignee
    /\ Publishing /\ Exists => Creating
    /\ Making /\ Exists => ~Active
    /\ At("create", "rest") => shown = NoUser

ShownInv == ~limits.overlap => Current

\* What is in Discord is what these ids are of.
Empty == messages = {} /\ threads = {}
Within(m, h) == messages \subseteq {m} /\ threads \subseteq {h}

\* An event tells of what is gone for good.
Heralded ==
    /\ ~channel => Empty
    /\ \A e \in events : /\ e.kind = "channel" => ~channel
                         /\ e.kind = "message" => e.id \in made \ messages
                         /\ e.kind = "thread" => e.id \in made \ threads
    /\ limits.erasures = 0 => redacted = {}

\* The creation takes its own steps, and has noted what it made.
CreationSteps ==
    {"rest", "send", "record", "thread", "record_thread", "activate",
     "del_thread", "del_message", "del_row", "over"}
Noted ==
    LET at == job["create"].at
        m == job["create"].message
        h == job["create"].thread
    IN  /\ at \in CreationSteps
        /\ at \in {"rest", "send"} => made = {} /\ m = NoMessage
        /\ at \in {"rest", "send", "record", "thread"} =>
              threads = {} /\ h = NoMessage /\ \A e \in events : e.kind # "thread"
        /\ at \in {"record", "thread", "record_thread", "activate"} => m # NoMessage
        /\ at \in {"record", "thread", "record_thread", "activate", "del_thread"} => Within(m, h)
        /\ at = "del_message" => messages \subseteq {m} /\ threads = {}
        /\ at = "del_row" => Empty

\* After it, the row of a ticket that was published has; what is deleted goes with the
\* row; and nothing is sent for a row that is gone.
Over == At("create", "over")
Listed ==
    LET at == job["locked"].at
        m == job["locked"].message
        h == job["locked"].thread
    IN  /\ Over /\ ~Exists => Empty
        /\ Over /\ (Active \/ Closing) => Within(ticket.message, ticket.thread)
        /\ at \in {"del_thread", "del_message", "del_row"} /\ Exists => Closing
        /\ at = "del_thread" /\ Exists => m = ticket.message /\ h = ticket.thread
        /\ at = "del_message" /\ Exists => m = ticket.message /\ (Over => threads = {})
        /\ at = "del_row" /\ Over => Empty
        /\ Publishing /\ ~Exists => ~channel

\* A creation is undisturbed while nobody deletes: no event tells of its ticket, and the
\* row has the ids that it has noted.
Undisturbed ==
    LET at == job["create"].at
        m == job["create"].message
        h == job["create"].thread
    IN  /\ Making /\ at # "del_row" => Creating /\ events = {}
        /\ (Creating \/ Active) /\ events # {} => at = "del_row"
        /\ Creating /\ at \in {"send", "record"} =>
              ticket.message = NoMessage /\ ticket.thread = NoMessage
        /\ Creating /\ at \in {"thread", "record_thread"} =>
              ticket.message = m /\ ticket.thread = NoMessage
        /\ Creating /\ at = "record_thread" => threads \subseteq messages
        /\ Creating /\ at = "activate" => ticket.message = m /\ ticket.thread = h
        /\ Creating /\ at \in {"del_thread", "del_message", "del_row"} =>
              /\ ticket.message = m /\ ticket.thread = NoMessage
              /\ h = NoMessage /\ threads = {}

\* A creation that was broken off can be completed: what it made and did not record is
\* found, unless nothing ends the process and all is recorded.
Resumable ==
    LET at == job["locked"].at
        m == job["locked"].message
        h == job["locked"].thread
    IN  /\ ticket.message = NoMessage => ticket.thread = NoMessage
        /\ ticket.message # NoMessage => messages \subseteq {ticket.message}
        /\ ticket.thread # NoMessage => threads \subseteq {ticket.thread}
        /\ ticket.thread = NoMessage => threads \subseteq messages
        /\ limits.crashes = 0 =>
              /\ ticket.message = NoMessage /\ at # "record" => messages = {}
              /\ ticket.thread = NoMessage /\ at # "record_thread" => threads = {}
        /\ at \in {"send", "record"} => ticket.message = NoMessage
        /\ at = "record" => m # NoMessage /\ messages \subseteq {m}
        /\ at \in {"find_thread", "thread", "record_thread", "activate"} =>
              m # NoMessage /\ ticket.message = m
        /\ at \in {"thread", "record_thread"} => ticket.thread = NoMessage
        /\ at = "record_thread" => h = m
        /\ at = "activate" => h # NoMessage /\ ticket.thread = h

\* Only if the process may end, a request fail and nobody deletes, or the reverse, and if
\* an erasure does not meet a creation that the end of the process has broken off.
Keeps(l) ==
    /\ ~l.overlap
    /\ \/ l.ambiguous
       \/ /\ l.crashes = 0 \/ l.erasures = 0
          /\ l.deletions = 0 \/ (l.faults = 0 /\ l.crashes = 0)

Kept ==
    /\ Heralded /\ Noted /\ Listed
    /\ limits.deletions = 0 => Undisturbed /\ (Creating /\ Over => Resumable)
    /\ limits.faults = 0 /\ limits.crashes = 0 => (Creating /\ Over => ~channel)

KeptInv == Keeps(limits) /\ ~limits.ambiguous => Kept

-----------------------------------------------------------------------------
(* The row: its deadlines, its assignee and its ids *)

SameIds(s, t) == s.message = t.message /\ s.thread = t.thread

\* A row whose deadlines and assignee are as they were.
SameClock(s, t) ==
    /\ s.state = t.state /\ s.next = t.next /\ s.nextAt = t.nextAt
    /\ s.syncAt = t.syncAt /\ s.assignee = t.assignee

\* A row that owes an update.
Owing(s, t) == SameIds(s, t) /\ Timed(s) /\ s.syncAt = "due"

\* What the transactions on a row leave of these.
LEMMA ClockRow ==
  ASSUME NEW t \in Ticket
  PROVE  /\ \A m : /\ SameClock([t EXCEPT !.message = m], t)
                   /\ [t EXCEPT !.message = m].message = m
                   /\ [t EXCEPT !.message = m].thread = t.thread
                   /\ SameClock([t EXCEPT !.thread = m], t)
                   /\ [t EXCEPT !.thread = m].thread = m
                   /\ [t EXCEPT !.thread = m].message = t.message
         /\ LET s == [t EXCEPT !.protected = FALSE]
            IN  SameClock(s, t) /\ SameIds(s, t)
         /\ LET s == Cancelled(t)
            IN  SameClock(s, t) /\ SameIds(s, t)
         /\ \A u, a : LET s == Reserved(t, u, a)
                      IN  SameClock(s, t) /\ SameIds(s, t)
<1>1. \A m : /\ SameClock([t EXCEPT !.message = m], t)
             /\ [t EXCEPT !.message = m].message = m
             /\ [t EXCEPT !.message = m].thread = t.thread
  BY DEF Ticket, SameClock
<1>2. \A m : /\ SameClock([t EXCEPT !.thread = m], t)
             /\ [t EXCEPT !.thread = m].thread = m
             /\ [t EXCEPT !.thread = m].message = t.message
  BY DEF Ticket, SameClock
<1>3. LET s == [t EXCEPT !.protected = FALSE]
      IN  SameClock(s, t) /\ SameIds(s, t)
  BY DEF Ticket, SameClock, SameIds
<1>4. LET s == Cancelled(t)
      IN  SameClock(s, t) /\ SameIds(s, t)
  BY DEF Ticket, SameClock, SameIds, Cancelled
<1>5. \A u, a : LET s == Reserved(t, u, a)
                IN  SameClock(s, t) /\ SameIds(s, t)
  BY DEF Ticket, SameClock, SameIds, Reserved
<1> QED
  BY <1>1, <1>2, <1>3, <1>4, <1>5

\* A deadline that comes, is put off or is met.
LEMMA DueRow ==
  ASSUME NEW t \in Ticket
  PROVE  /\ \A x \in Time :
               LET s == [t EXCEPT !.syncAt = x]
               IN  /\ SameIds(s, t) /\ s.state = t.state /\ s.next = t.next
                   /\ s.nextAt = t.nextAt /\ s.assignee = t.assignee /\ s.syncAt = x
         /\ LET s == [t EXCEPT !.nextAt = "due"]
            IN  /\ SameIds(s, t) /\ s.state = t.state /\ s.next = t.next
                /\ s.nextAt = "due" /\ s.assignee = t.assignee /\ s.syncAt = t.syncAt
         /\ LET s == Deferred(t)
            IN  /\ SameIds(s, t) /\ s.state = t.state /\ s.next = t.next
                /\ s.nextAt = "later" /\ s.assignee = t.assignee /\ s.syncAt = t.syncAt
         /\ LET s == Exhausted(t)
            IN  /\ SameIds(s, t) /\ s.state = t.state /\ s.next = "none"
                /\ s.nextAt = "none" /\ s.assignee = t.assignee /\ s.syncAt = t.syncAt
         /\ LET s == Acknowledged(t)
            IN  /\ Owing(s, t) /\ s.state = t.state /\ s.assignee = t.assignee
<1>1. \A x \in Time :
         LET s == [t EXCEPT !.syncAt = x]
         IN  /\ SameIds(s, t) /\ s.state = t.state /\ s.next = t.next
             /\ s.nextAt = t.nextAt /\ s.assignee = t.assignee /\ s.syncAt = x
  BY DEF Ticket, SameIds
<1>2. LET s == [t EXCEPT !.nextAt = "due"]
      IN  /\ SameIds(s, t) /\ s.state = t.state /\ s.next = t.next
          /\ s.nextAt = "due" /\ s.assignee = t.assignee /\ s.syncAt = t.syncAt
  BY DEF Ticket, SameIds
<1>3. LET s == Deferred(t)
      IN  /\ SameIds(s, t) /\ s.state = t.state /\ s.next = t.next
          /\ s.nextAt = "later" /\ s.assignee = t.assignee /\ s.syncAt = t.syncAt
  BY DEF Ticket, SameIds, Deferred
<1>4. LET s == Exhausted(t)
      IN  /\ SameIds(s, t) /\ s.state = t.state /\ s.next = "none"
          /\ s.nextAt = "none" /\ s.assignee = t.assignee /\ s.syncAt = t.syncAt
  BY DEF Ticket, SameIds, Exhausted
<1>5. LET s == Acknowledged(t)
      IN  /\ Owing(s, t) /\ s.state = t.state /\ s.assignee = t.assignee
  BY DEF Ticket, SameIds, Owing, Timed, Acknowledged
<1> QED
  BY <1>1, <1>2, <1>3, <1>4, <1>5

\* A schedule has a deadline if it has something to do.
LEMMA ScheduledClock ==
  ASSUME NEW t \in Ticket, NEW a \in {"none", "automatic_ping", "direct_ping"}
  PROVE  LET s == Scheduled(t, a)
         IN  /\ s \in Ticket /\ Timed(s) /\ SameIds(s, t) /\ s.state = t.state
             /\ s.assignee = t.assignee /\ s.next = a
<1> DEFINE x == IF a = "none" THEN "none" ELSE "later"
           s == [t EXCEPT !.protected = TRUE, !.next = a, !.nextAt = x]
<1>1. Scheduled(t, a) = s
  BY DEF Scheduled
<1>2. x = "none" <=> a = "none"
  OBVIOUS
<1> HIDE DEF x
<1>3. /\ SameIds(s, t) /\ s.state = t.state /\ s.assignee = t.assignee
      /\ s.next = a /\ s.nextAt = x
  BY DEF Ticket, SameIds
<1> QED
  BY <1>1, <1>2, <1>3, ScheduledRow DEF Timed

\* A ticket that is free again, claimed or published.
LEMMA ReleasedClock ==
  ASSUME NEW t \in Ticket
  PROVE  /\ LET s == Released(t)
            IN  Owing(s, t) /\ s.state = t.state /\ s.assignee = t.assignee
         /\ \A u : LET s == Excluding(t, u) IN SameClock(s, t) /\ SameIds(s, t)
         /\ \A u : LET s == Claimed(t, u)
                   IN  Owing(s, t) /\ s.state = "claimed" /\ s.assignee = u
         /\ \A m, h : LET s == Activated(t, m, h)
                      IN  /\ Timed(s) /\ s.syncAt = "none" /\ s.state = "open"
                          /\ s.message = m /\ s.thread = h /\ s.assignee = t.assignee
<1> DEFINE a == IF t.mode \in {"automatic", "direct_automatic"} THEN "automatic_ping" ELSE "none"
           b == CASE t.mode = "automatic" -> "automatic_ping"
                  [] t.mode \in {"direct_wait", "direct_automatic"} -> "direct_ping"
                  [] OTHER -> "none"
           c == Scheduled(t, a)
           d == Scheduled(t, "none")
           e == Scheduled(t, b)
<1>1. /\ c \in Ticket /\ Timed(c) /\ SameIds(c, t) /\ c.state = t.state
      /\ c.assignee = t.assignee
  BY ScheduledClock
<1>2. d \in Ticket /\ Timed(d) /\ SameIds(d, t)
  BY ScheduledClock
<1>3. e \in Ticket /\ Timed(e) /\ e.assignee = t.assignee
  BY ScheduledClock
<1>4. Released(t) = [c EXCEPT !.target = NoUser, !.pending = NoPing, !.syncAt = "due"]
  BY DEF Released
<1>5. \A u : Claimed(t, u) = [d EXCEPT !.state = "claimed", !.assignee = u, !.target = NoUser,
                                       !.pending = NoPing, !.syncAt = "due"]
  BY DEF Claimed
<1>6. \A m, h : Activated(t, m, h) = [e EXCEPT !.state = "open", !.message = m,
                                               !.thread = h, !.syncAt = "none"]
  BY DEF Activated
<1> HIDE DEF c, d, e
<1>7. LET s == Released(t)
      IN  Owing(s, t) /\ s.state = t.state /\ s.assignee = t.assignee
  BY <1>1, <1>4 DEF Owing, Timed, SameIds, Ticket
<1>8. ASSUME NEW u
      PROVE  LET s == Claimed(t, u)
             IN  Owing(s, t) /\ s.state = "claimed" /\ s.assignee = u
  <2> DEFINE s == [d EXCEPT !.state = "claimed", !.assignee = u, !.target = NoUser,
                            !.pending = NoPing, !.syncAt = "due"]
  <2>1. Claimed(t, u) = s
    BY <1>5
  <2>2. /\ s.next = d.next /\ s.nextAt = d.nextAt /\ s.assignee = u /\ s.state = "claimed"
        /\ s.syncAt = "due" /\ s.message = d.message /\ s.thread = d.thread
    BY <1>2 DEF Ticket
  <2> HIDE DEF s
  <2> QED
    BY <1>2, <2>1, <2>2 DEF Owing, Timed, SameIds
<1>9. ASSUME NEW m, NEW h
      PROVE  LET s == Activated(t, m, h)
             IN  /\ Timed(s) /\ s.syncAt = "none" /\ s.state = "open"
                 /\ s.message = m /\ s.thread = h /\ s.assignee = t.assignee
  <2> DEFINE s == [e EXCEPT !.state = "open", !.message = m, !.thread = h, !.syncAt = "none"]
  <2>1. Activated(t, m, h) = s
    BY <1>6
  <2>2. /\ s.next = e.next /\ s.nextAt = e.nextAt /\ s.assignee = e.assignee
        /\ s.syncAt = "none" /\ s.state = "open" /\ s.message = m /\ s.thread = h
    BY <1>3 DEF Ticket
  <2> HIDE DEF s
  <2> QED
    BY <1>3, <2>1, <2>2 DEF Timed
<1>10. \A u : LET s == Excluding(t, u) IN SameClock(s, t) /\ SameIds(s, t)
  BY DEF Excluding, SameClock, SameIds, Ticket
<1> QED
  BY <1>7, <1>8, <1>9, <1>10

\* A button or a timeout: the row owes an update, or nothing about it has changed.
LEMMA PressedClock ==
  ASSUME NEW t \in Ticket
  PROVE  /\ \A u \in User :
               LET s == Declined(t, u)
               IN  /\ s.state = t.state /\ s.assignee = t.assignee
                   /\ Owing(s, t) \/ (SameClock(s, t) /\ SameIds(s, t))
                   /\ u \notin {t.target, t.pending.user} => SameClock(s, t) /\ SameIds(s, t)
         /\ t.assignee \in User =>
               LET s == Unassigned(t) IN Owing(s, t) /\ s.state = "open"
         /\ t.target \in User =>
               LET s == TimedOut(t)
               IN  Owing(s, t) /\ s.state = t.state /\ s.assignee = t.assignee
<1>1. ASSUME NEW u \in User
      PROVE  LET s == Declined(t, u)
             IN  /\ s.state = t.state /\ s.assignee = t.assignee
                 /\ Owing(s, t) \/ (SameClock(s, t) /\ SameIds(s, t))
                 /\ u \notin {t.target, t.pending.user} => SameClock(s, t) /\ SameIds(s, t)
  <2> DEFINE e == Excluding(t, u)
  <2>1. e \in Ticket /\ SameClock(e, t) /\ SameIds(e, t)
    BY ExcludingRow, ReleasedClock
  <2> HIDE DEF e
  <2>2. LET s == [e EXCEPT !.protected = TRUE] IN SameClock(s, t) /\ SameIds(s, t)
    BY <2>1 DEF Ticket, SameClock, SameIds
  <2>3. LET s == Released(e)
        IN  Owing(s, t) /\ s.state = t.state /\ s.assignee = t.assignee
    BY <2>1, ReleasedClock DEF Owing, SameIds, SameClock
  <2>4. Declined(t, u) = IF u \in {t.target, t.pending.user} THEN Released(e)
                         ELSE [e EXCEPT !.protected = TRUE]
    BY DEF Declined, e
  <2>5. CASE u \in {t.target, t.pending.user}
    BY <2>3, <2>4, <2>5
  <2>6. CASE u \notin {t.target, t.pending.user}
    BY <2>2, <2>4, <2>6 DEF SameClock
  <2> QED
    BY <2>5, <2>6
<1>2. ASSUME t.assignee \in User
      PROVE  LET s == Unassigned(t) IN Owing(s, t) /\ s.state = "open"
  <2> DEFINE e == Excluding(t, t.assignee)
             r == Released(e)
  <2>1. e \in Ticket /\ SameIds(e, t)
    BY <1>2, ExcludingRow, ReleasedClock
  <2>2. r \in Ticket /\ Owing(r, e)
    BY <2>1, ReleasedRow, ReleasedClock
  <2>3. Unassigned(t) = [r EXCEPT !.state = "open", !.assignee = NoUser]
    BY DEF Unassigned
  <2> HIDE DEF e, r
  <2> QED
    BY <2>1, <2>2, <2>3 DEF Ticket, Owing, SameIds, Timed
<1>3. ASSUME t.target \in User
      PROVE  LET s == TimedOut(t)
             IN  Owing(s, t) /\ s.state = t.state /\ s.assignee = t.assignee
  <2> DEFINE e == Excluding(t, t.target)
             r == Released(e)
  <2>1. e \in Ticket /\ SameIds(e, t) /\ SameClock(e, t)
    BY <1>3, ExcludingRow, ReleasedClock
  <2>2. r \in Ticket /\ Owing(r, e) /\ r.state = e.state /\ r.assignee = e.assignee
    BY <2>1, ReleasedRow, ReleasedClock
  <2>3. TimedOut(t) = [r EXCEPT !.pending = t.pending]
    BY DEF TimedOut
  <2> HIDE DEF e, r
  <2> QED
    BY <2>1, <2>2, <2>3 DEF Ticket, Owing, SameIds, SameClock, Timed
<1> QED
  BY <1>1, <1>2, <1>3

\* An erasure: the ticket is free again and owes an update, or it did not concern the user.
LEMMA RedactedClock ==
  ASSUME NEW t \in Ticket, NEW u \in User
  PROVE  LET s == Redacted(t, u)
         IN  \/ SameClock(s, t) /\ SameIds(s, t)
             \/ /\ Owing(s, t) /\ s.state = "open" /\ t.state \in {"open", "claimed"}
                /\ Concerns(t, u)
<1> DEFINE f == [t EXCEPT !.excluded = @ \ {u}, !.asked = @ \ {u},
                          !.direct = IF @ = u THEN NoUser ELSE @]
           r == Released(f)
<1>1. f \in Ticket
  <2>1. [t EXCEPT !.excluded = @ \ {u}] \in Ticket
    BY DEF Ticket
  <2>2. [t EXCEPT !.excluded = @ \ {u}, !.asked = @ \ {u}] \in Ticket
    BY <2>1 DEF Ticket
  <2> DEFINE x == IF t.direct = u THEN NoUser ELSE t.direct
  <2>3. x \in User \cup {NoUser} /\ f = [t EXCEPT !.excluded = @ \ {u}, !.asked = @ \ {u},
                                                  !.direct = x]
    BY DEF Ticket
  <2> HIDE DEF x
  <2> QED
    BY <2>2, <2>3, Field
<1>2. SameClock(f, t) /\ SameIds(f, t)
  BY DEF SameClock, SameIds, Ticket
<1> HIDE DEF f
<1>3. r \in Ticket /\ Owing(r, f)
  BY <1>1, ReleasedRow, ReleasedClock
<1>4. Redacted(t, u) = IF \/ t.state = "open" /\ Concerns(t, u)
                          \/ t.state = "claimed" /\ Involves(t, u)
                       THEN [r EXCEPT !.state = "open", !.direct = NoUser, !.assignee = NoUser]
                       ELSE f
  BY DEF Redacted, f
<1> HIDE DEF r
<1>5. LET s == [r EXCEPT !.state = "open", !.direct = NoUser, !.assignee = NoUser]
      IN  Owing(s, t) /\ s.state = "open"
  BY <1>2, <1>3 DEF Ticket, Owing, SameIds, Timed
<1>6. Involves(t, u) => Concerns(t, u)
  BY DEF Concerns
<1> QED
  BY <1>2, <1>4, <1>5, <1>6

-----------------------------------------------------------------------------
(* What the steps write to the two jobs *)

\* What a step leaves of the two jobs.
LEMMA JobWritten ==
  ASSUME JobOK
  PROVE  /\ \A j \in Jobs : \A step : Go(j, step) =>
               /\ job'[j].at = step /\ job'[j].message = job[j].message
               /\ job'[j].thread = job[j].thread
               /\ \A i \in Jobs : i # j => job'[i] = job[i]
         /\ \A j \in Jobs : \A step, m :
               job' = [job EXCEPT ![j].at = step, ![j].message = m] =>
               /\ job'[j].at = step /\ job'[j].message = m /\ job'[j].thread = job[j].thread
               /\ \A i \in Jobs : i # j => job'[i] = job[i]
         /\ \A j \in Jobs : \A step, h :
               job' = [job EXCEPT ![j].at = step, ![j].thread = h] =>
               /\ job'[j].at = step /\ job'[j].message = job[j].message /\ job'[j].thread = h
               /\ \A i \in Jobs : i # j => job'[i] = job[i]
         /\ \A by, d, m, h :
               job' = [job EXCEPT !["locked"] = [at |-> "del_thread", by |-> by,
                                 defers |-> d, message |-> m, thread |-> h]] =>
               /\ job'["locked"].at = "del_thread" /\ job'["locked"].message = m
               /\ job'["locked"].thread = h /\ job'["create"] = job["create"]
<1>1. ASSUME NEW j \in Jobs, NEW step, Go(j, step)
      PROVE  /\ job'[j].at = step /\ job'[j].message = job[j].message
             /\ job'[j].thread = job[j].thread
             /\ \A i \in Jobs : i # j => job'[i] = job[i]
  BY <1>1 DEF JobOK, Job, Go
<1>2. ASSUME NEW j \in Jobs, NEW step, NEW m,
             job' = [job EXCEPT ![j].at = step, ![j].message = m]
      PROVE  /\ job'[j].at = step /\ job'[j].message = m /\ job'[j].thread = job[j].thread
             /\ \A i \in Jobs : i # j => job'[i] = job[i]
  BY <1>2 DEF JobOK, Job
<1>3. ASSUME NEW j \in Jobs, NEW step, NEW h,
             job' = [job EXCEPT ![j].at = step, ![j].thread = h]
      PROVE  /\ job'[j].at = step /\ job'[j].message = job[j].message /\ job'[j].thread = h
             /\ \A i \in Jobs : i # j => job'[i] = job[i]
  BY <1>3 DEF JobOK, Job
<1>4. ASSUME NEW by, NEW d, NEW m, NEW h,
             job' = [job EXCEPT !["locked"] = [at |-> "del_thread", by |-> by,
                               defers |-> d, message |-> m, thread |-> h]]
      PROVE  /\ job'["locked"].at = "del_thread" /\ job'["locked"].message = m
             /\ job'["locked"].thread = h /\ job'["create"] = job["create"]
  BY <1>4 DEF JobOK, Jobs
<1> QED
  BY <1>1, <1>2, <1>3, <1>4

-----------------------------------------------------------------------------
(* The scheduler is woken *)

\* A step after which the scheduler does not wait beside a deadline, which leaves all as
\* it was, or after which the message is being updated.
Roused ==
    \/ sched' # "wait" \/ woken' \/ ~Exists'
    \/ ~HasDeadline(ticket')
Lulled ==
    /\ sched' = "wait" => sched = "wait"
    /\ woken => woken'
    /\ Exists' => /\ Exists /\ (Active => Active')
                  /\ HasDeadline(ticket') => HasDeadline(ticket)
    /\ resync => resync'
    /\ Editing => Editing'
Updated == Active' /\ (resync \/ Editing)'

\* The scheduler stays awake through these kinds of steps.
LEMMA AwakeStep ==
  ASSUME WakeInv, Exists' => Timed(ticket'), Roused \/ Lulled \/ Updated
  PROVE  WakeInv'
BY DEF WakeInv, Awake, Roused, Lulled, Updated

\* A row whose deadlines stay keeps what it waits for.
LEMMA ClockKept ==
  ASSUME Exists, Exists', SameClock(ticket', ticket)
  PROVE  /\ Timed(ticket') <=> Timed(ticket)
         /\ HasDeadline(ticket') <=> HasDeadline(ticket)
         /\ (Active <=> Active') /\ (Creating <=> Creating') /\ (Closing <=> Closing')
         /\ Open <=> Open'
BY DEF SameClock, Timed, HasDeadline, Active, Creating, Closing, Open

\* An update that is put off is waited for.
LEMMA PutOffClock ==
  ASSUME IInv, WakeInv, PutsOff
  PROVE  /\ Exists' <=> Exists
         /\ Exists => /\ Timed(ticket') /\ woken' /\ SameIds(ticket', ticket)
                      /\ ticket'.state = ticket.state /\ ticket'.assignee = ticket.assignee
                      /\ ticket'.syncAt = "later"
<1>1. CASE Exists
  <2>1. ticket' = [ticket EXCEPT !.syncAt = "later"] /\ woken'
    BY <1>1 DEF PutsOff
  <2>2. ticket \in Ticket /\ ticket' \in Ticket
    BY <1>1, <2>1, RowFacts, Field DEF Time
  <2>3. Exists'
    BY <2>2, NoTicketAssumption DEF Exists
  <2>4. /\ SameIds(ticket', ticket) /\ ticket'.state = ticket.state
        /\ ticket'.next = ticket.next /\ ticket'.nextAt = ticket.nextAt
        /\ ticket'.assignee = ticket.assignee /\ ticket'.syncAt = "later"
    BY <2>1, <2>2, DueRow DEF Time
  <2> QED
    BY <1>1, <2>1, <2>3, <2>4 DEF WakeInv, Timed
<1>2. CASE ~Exists
  BY <1>2 DEF PutsOff, Exists
<1> QED
  BY <1>1, <1>2

\* The row of a ticket that is being deleted.
LEMMA FinishingClock ==
  ASSUME NEW t, NEW a \in BOOLEAN, NEW b \in BOOLEAN
  PROVE  LET s == Finishing(t, a, b)
         IN  /\ s.state = "finishing" /\ Timed(s) /\ s.syncAt = "due"
             /\ s.message = AbsentIf(a, t.message) /\ s.thread = AbsentIf(b, t.thread)
BY DEF Finishing, Emptied, Timed

\* A deletion that begins waits for nothing.
LEMMA WakeFinishing ==
  ASSUME WakeInv, NEW by, NEW a \in BOOLEAN, NEW b \in BOOLEAN, NEW d,
         BeginsFinishing(by, a, b, d)
  PROVE  WakeInv'
<1>1. ticket' = Finishing(ticket, a, b) /\ woken'
  BY DEF BeginsFinishing
<1> QED
  BY <1>1, FinishingClock, AwakeStep DEF Roused

\* A handler that gives up puts the work off, and wakes the scheduler.
LEMMA WakeGivesUp ==
  ASSUME IInv, WakeInv, NEW j \in Jobs, GivesUp(j)
  PROVE  WakeInv'
<1>1. CASE j = "create"
  <2>1. job'["locked"] = job["locked"]
    BY <1>1, JobWritten DEF GivesUp, IInv, Jobs
  <2> QED
    BY <1>1, <2>1 DEF GivesUp, WakeInv, Awake, Editing, Stays, rows, Active, Exists
<1>2. CASE j = "locked"
  BY <1>2, PutOffClock, AwakeStep DEF GivesUp, Roused
<1> QED
  BY <1>1, <1>2 DEF Jobs

\* The row has the deadlines that it had, and who was updating the message still is.
LEMMA WakeKept ==
  ASSUME IInv, WakeInv, woken' = woken, resync' = resync, sched' = "wait" => sched = "wait",
         Editing => Editing',
         Exists' => Exists /\ (ticket' = ticket \/ SameClock(ticket', ticket))
  PROVE  WakeInv'
<1>1. CASE ~Exists'
  BY <1>1, AwakeStep DEF Roused
<1>2. CASE Exists'
  <2>1. Exists /\ Timed(ticket)
    BY <1>2 DEF WakeInv
  <2>2. /\ Timed(ticket') /\ (Active => Active')
        /\ HasDeadline(ticket') => HasDeadline(ticket)
    BY <1>2, <2>1, ClockKept DEF Active, Exists
  <2> QED
    BY <1>2, <2>1, <2>2, AwakeStep DEF Lulled
<1> QED
  BY <1>1, <1>2

\* What publishes a ticket sets its first deadline, and wakes the scheduler.
LEMMA WakePublication ==
  ASSUME IInv, WakeInv, NEW j \in Jobs, Publication(j)
  PROVE  WakeInv'
<1>1. Publication(j) => ~At(j, "edit") /\ ~At(j, "ack_edit")
  BY DEF Publication, SendTicket, RecordMessage, CreateThread, RecordThread, Activate,
         PublicationFails, At
<1>2. ASSUME \A i \in Jobs : i # j => job'[i] = job[i]
      PROVE  Editing => Editing'
  BY <1>1, <1>2 DEF Editing, At, Jobs
<1>3. ASSUME UNCHANGED <<ticket, woken>>, Stays,
             \/ \E step : Go(j, step)
             \/ \E step, m : \/ job' = [job EXCEPT ![j].at = step, ![j].message = m]
                             \/ job' = [job EXCEPT ![j].at = step, ![j].thread = m]
      PROVE  WakeInv'
  <2>1. JobOK
    BY DEF IInv
  <2>2. ASSUME NEW step, Go(j, step)
        PROVE  \A i \in Jobs : i # j => job'[i] = job[i]
    BY <2>1, <2>2, JobWritten
  <2>3. ASSUME NEW step, NEW m,
               \/ job' = [job EXCEPT ![j].at = step, ![j].message = m]
               \/ job' = [job EXCEPT ![j].at = step, ![j].thread = m]
        PROVE  \A i \in Jobs : i # j => job'[i] = job[i]
    BY <2>1, <2>3, JobWritten
  <2>4. \A i \in Jobs : i # j => job'[i] = job[i]
    BY <1>3, <2>2, <2>3
  <2> QED
    BY <1>2, <1>3, <2>4, WakeKept DEF Stays, Exists
<1>4. CASE SendTicket(j)
  BY <1>3, <1>4, WakeGivesUp DEF SendTicket, rows
<1>5. CASE RecordMessage(j)
  <2>1. CASE GivesUp(j)
    BY <2>1, WakeGivesUp
  <2>2. CASE /\ Creating /\ Put([ticket EXCEPT !.message = job[j].message])
             /\ \E step : Go(j, step)
             /\ Stays /\ woken' = woken
    <3>1. Exists /\ SameClock(ticket', ticket)
      BY <2>2, RowFacts, ClockRow DEF Put, Creating
    <3>2. Editing => Editing'
      BY <1>2, <2>2, JobWritten DEF IInv
    <3> QED
      BY <2>2, <3>1, <3>2, WakeKept DEF Stays
  <2> QED
    BY <1>5, <2>1, <2>2 DEF RecordMessage
<1>6. CASE CreateThread(j)
  BY <1>3, <1>6, WakeGivesUp DEF CreateThread, rows
<1>7. CASE RecordThread(j)
  <2>1. CASE GivesUp(j)
    BY <2>1, WakeGivesUp
  <2>2. CASE /\ Creating /\ Put([ticket EXCEPT !.thread = job[j].thread])
             /\ Go(j, "activate")
             /\ Stays /\ woken' = woken
    <3>1. Exists /\ SameClock(ticket', ticket)
      BY <2>2, RowFacts, ClockRow DEF Put, Creating
    <3>2. Editing => Editing'
      BY <1>2, <2>2, JobWritten DEF IInv
    <3> QED
      BY <2>2, <3>1, <3>2, WakeKept DEF Stays
  <2> QED
    BY <1>7, <2>1, <2>2 DEF RecordThread
<1>8. CASE Activate(j)
  <2>1. CASE GivesUp(j)
    BY <2>1, WakeGivesUp
  <2>2. CASE /\ Creating /\ Put(Activated(ticket, job[j].message, job[j].thread))
             /\ woken' = (woken \/ ticket'.next # "none")
    <3>1. Timed(ticket') /\ ticket'.syncAt = "none"
      BY <2>2, RowFacts, ReleasedClock DEF Put, Creating
    <3>2. woken' \/ ~HasDeadline(ticket')
      BY <2>2, <3>1 DEF Timed, HasDeadline
    <3> QED
      BY <3>1, <3>2, AwakeStep DEF Roused
  <2> QED
    BY <1>8, <2>1, <2>2 DEF Activate
<1>9. CASE PublicationFails(j)
  BY <1>9, WakeGivesUp DEF PublicationFails
<1> QED
  BY <1>4, <1>5, <1>6, <1>7, <1>8, <1>9 DEF Publication

\* A handler that does not update the message, and whoever has no lock, leave it to others.
LEMMA WakeLeft ==
  ASSUME IInv, WakeInv, ~Editing, woken' = woken,
         Exists' => Exists /\ (ticket' = ticket \/ SameClock(ticket', ticket)),
         Stays \/ \E raised \in BOOLEAN : Ends(raised)
  PROVE  WakeInv'
<1>1. resync' = resync /\ (sched' = "wait" => sched = "wait")
  BY DEF Stays, Ends, Caller
<1> QED
  BY <1>1, WakeKept

\* What deletes a ticket leaves no deadline, or puts the deletion off.
LEMMA WakeDeletion ==
  ASSUME IInv, WakeInv, NEW j \in Jobs, Deletion(j)
  PROVE  WakeInv'
<1>1. Deletion(j) => ~At(j, "edit") /\ ~At(j, "ack_edit")
  BY DEF Deletion, DeleteThread, DeleteMessage, DeleteRow, DeletionFails, At
<1>2. CASE DeleteThread(j) \/ DeleteMessage(j)
  <2>1. PICK step : Go(j, step)
    BY <1>2 DEF DeleteThread, DeleteMessage
  <2>2. Editing => Editing'
    BY <1>1, <2>1, JobWritten DEF IInv, Editing, At, Jobs
  <2> QED
    BY <1>2, <2>2, WakeKept DEF DeleteThread, DeleteMessage, Stays, rows, Exists
<1>3. CASE DeleteRow(j)
  BY <1>3, AwakeStep DEF DeleteRow, Roused, Exists
<1>4. CASE DeletionFails(j)
  <2>1. CASE PutsOff
    BY <2>1, PutOffClock, AwakeStep DEF Roused
  <2>2. CASE j = "locked" /\ Ends(TRUE) /\ UNCHANGED <<rows, woken>>
    BY <1>1, <2>2, WakeLeft DEF Editing, At, rows, Exists
  <2> QED
    BY <1>4, <2>1, <2>2 DEF DeletionFails
<1> QED
  BY <1>2, <1>3, <1>4 DEF Deletion

\* A recovery that looks for the ticket leaves its deadline.
LEMMA WakeRecovery ==
  ASSUME IInv, WakeInv, Recovery
  PROVE  WakeInv'
<1>1. ~Editing
  BY DEF Recovery, FindMessage, FindThread, Editing, At
<1>2. CASE FindMessage
  BY <1>1, <1>2, WakeLeft DEF FindMessage, rows, Exists
<1>3. CASE FindThread
  <2>1. CASE GivesUp("locked")
    BY <2>1, WakeGivesUp DEF Jobs
  <2>2. CASE BeginsFinishing(job["locked"].by, TRUE, FALSE, TRUE)
    BY <2>2, WakeFinishing
  <2>3. CASE UNCHANGED <<rows, woken>> /\ Stays
    BY <1>1, <2>3, WakeLeft DEF rows, Exists
  <2> QED
    BY <1>3, <2>1, <2>2, <2>3 DEF FindThread
<1> QED
  BY <1>2, <1>3 DEF Recovery

\* An update acknowledges what was due, or puts it off.
LEMMA WakeEdit ==
  ASSUME IInv, WakeInv, Edit
  PROVE  WakeInv'
<1>1. CASE EditTicket
  <2>1. CASE Exists /\ Go("locked", "ack_edit") /\ Stays /\ UNCHANGED <<rows, woken>>
    <3>1. Editing'
      BY <2>1, JobWritten DEF IInv, Editing, Jobs
    <3> QED
      BY <2>1, <3>1, WakeKept DEF Stays, rows
  <2>2. CASE BeginsFinishing(job["locked"].by, TRUE, FALSE, FALSE)
    BY <2>2, WakeFinishing
  <2>3. CASE ~Exists /\ UNCHANGED rows
    BY <2>3, AwakeStep DEF Roused, rows, Exists
  <2> QED
    BY <1>1, <2>1, <2>2, <2>3 DEF EditTicket
<1>2. CASE EditFails
  BY <1>2, PutOffClock, AwakeStep DEF EditFails, Roused
<1>3. CASE AcknowledgeEdit
  <2>1. CASE ~Exists
    BY <1>3, <2>1, AwakeStep DEF AcknowledgeEdit, Roused, Exists
  <2>2. CASE Exists
    <3>1. /\ ticket'.next = ticket.next /\ ticket'.nextAt = ticket.nextAt
          /\ ticket'.syncAt = "none"
      BY <1>3, <2>2, RowFacts, DueRow DEF AcknowledgeEdit, Time
    <3>2. Timed(ticket')
      BY <2>2, <3>1 DEF WakeInv, Timed
    <3>3. woken' \/ ~HasDeadline(ticket')
      BY <1>3, <2>2, <3>1, <3>2 DEF AcknowledgeEdit, Timed, HasDeadline
    <3> QED
      BY <3>2, <3>3, AwakeStep DEF Roused
  <2> QED
    BY <2>1, <2>2
<1> QED
  BY <1>1, <1>2, <1>3 DEF Edit

\* A round that is put off is waited for.
LEMMA WakeDeferred ==
  ASSUME IInv, WakeInv, Exists, ticket.next \in PingAction, Put(Deferred(ticket)), woken'
  PROVE  WakeInv'
<1>1. ticket'.next = ticket.next /\ ticket'.nextAt = "later"
  BY RowFacts, DueRow DEF Put
<1> QED
  BY <1>1, AwakeStep DEF Timed, PingAction, Roused

\* A round that is over leaves the scheduler as it was.
LEMMA WakeExhausted ==
  ASSUME IInv, WakeInv, Exists, Put(Exhausted(ticket)), woken' = woken, ~Editing,
         resync' = resync, sched' = "wait" => sched = "wait"
  PROVE  WakeInv'
<1>1. /\ ticket'.next = "none" /\ ticket'.nextAt = "none"
      /\ ticket'.syncAt = ticket.syncAt /\ ticket'.state = ticket.state
  BY RowFacts, DueRow DEF Put
<1>2. (Active => Active') /\ (HasDeadline(ticket') => HasDeadline(ticket)) /\ Timed(ticket')
  <2>1. Exists'
    BY RowFacts, TouchedRow, NoTicketAssumption DEF Put, Exists, IInv, UsersOK
  <2> QED
    BY <1>1, <2>1 DEF Active, HasDeadline, Timed
<1> QED
  BY <1>2, AwakeStep DEF Lulled

\* A routing round ends with a new deadline, or with none.
LEMMA WakeRouting ==
  ASSUME IInv, WakeInv, ReviewInv, Routing
  PROVE  WakeInv'
<1>1. job["locked"].at \in RoutingSteps
  BY DEF Routing, Route, Settle, Check, GatewayUnavailable, PingReviewer, AcknowledgePing,
         SettlementFails, At, RoutingSteps
<1>2. ~Editing
  BY <1>1 DEF RoutingSteps, Editing
<1>3. Exists => /\ ticket \in Ticket /\ Open /\ Routed(ticket)
                /\ ticket.next \in PingAction
  BY <1>1, RoutingFacts DEF ReviewInv, Turn, Routed, At
<1>4. ASSUME UNCHANGED <<ticket, woken>>, Stays \/ \E raised \in BOOLEAN : Ends(raised)
      PROVE  WakeInv'
  BY <1>2, <1>4, WakeLeft DEF Exists
<1>5. CASE Route
  <2>1. CASE Open /\ \E u \in Targets : Put(Reserved(ticket, u, ticket.next = "automatic_ping"))
    <3>1. PICK u \in Targets : Put(Reserved(ticket, u, ticket.next = "automatic_ping"))
      BY <2>1
    <3>2. Open /\ woken' = woken /\ (Stays \/ Ends(FALSE))
      BY <1>5, <2>1 DEF Route
    <3>3. SameClock(ticket', ticket)
      BY <1>3, <3>1, <3>2, ClockRow DEF Put, Open
    <3> QED
      BY <1>2, <3>2, <3>3, WakeLeft DEF Open
  <2>2. CASE Open /\ Put(Exhausted(ticket)) /\ Ends(FALSE)
    BY <1>2, <1>5, <2>2, WakeExhausted DEF Route, Open, Ends, Caller
  <2>3. CASE UNCHANGED rows
    BY <1>4, <1>5, <2>3 DEF Route, rows
  <2> QED
    BY <1>5, <2>1, <2>2, <2>3 DEF Route
<1>6. CASE Settle
  <2>1. CASE BeginsFinishing(job["locked"].by, FALSE, TRUE, TRUE)
    BY <2>1, WakeFinishing
  <2>2. CASE UNCHANGED <<ticket, woken>>
    BY <1>4, <1>6, <2>2 DEF Settle
  <2> QED
    BY <1>6, <2>1, <2>2 DEF Settle, rows
<1>7. CASE Check
  <2>1. CASE Exists /\ Put(Cancelled(ticket)) /\ Stays
    BY <1>2, <1>3, <1>7, <2>1, ClockRow, WakeLeft DEF Check, Put
  <2>2. CASE UNCHANGED rows
    BY <1>4, <1>7, <2>2 DEF Check, rows
  <2> QED
    BY <1>7, <2>1, <2>2 DEF Check
<1>8. CASE GatewayUnavailable
  BY <1>3, <1>8, WakeDeferred DEF GatewayUnavailable, At
<1>9. CASE PingReviewer
  <2>1. CASE Exists /\ PingLater
    BY <1>3, <1>9, <2>1, WakeDeferred DEF PingReviewer, PingLater, At
  <2>2. CASE BeginsFinishing(job["locked"].by, FALSE, TRUE, FALSE)
    BY <2>2, WakeFinishing
  <2>3. CASE UNCHANGED <<ticket, woken>>
    BY <1>4, <1>9, <2>3 DEF PingReviewer, PingLater
  <2> QED
    BY <1>9, <2>1, <2>2, <2>3 DEF PingReviewer, rows
<1>10. CASE AcknowledgePing
  <2>1. CASE ~Exists
    BY <1>10, <2>1, AwakeStep DEF AcknowledgePing, Roused, Exists
  <2>2. CASE Exists
    <3>1. ticket' = Acknowledged(ticket) /\ job'["locked"].at = "edit"
      BY <1>10, <2>2, JobWritten DEF AcknowledgePing, IInv, Jobs
    <3>2. Timed(ticket') /\ ticket'.state = "open"
      BY <1>3, <2>2, <3>1, DueRow DEF Owing, Open
    <3>3. Exists'
      BY <1>3, <2>2, <3>1, RoutingFacts, <1>1, PingedRow, NoTicketAssumption, <1>10
      DEF Exists, IInv, UsersOK, AcknowledgePing, At, RoutingSteps
    <3> QED
      BY <3>1, <3>2, <3>3, AwakeStep DEF Updated, Active, Editing
  <2> QED
    BY <2>1, <2>2
<1>11. CASE SettlementFails
  BY <1>4, <1>11 DEF SettlementFails, rows
<1> QED
  BY <1>5, <1>6, <1>7, <1>8, <1>9, <1>10, <1>11 DEF Routing

\* A row that owes an update which is taken up.
LEMMA WakeOwing ==
  ASSUME IInv, WakeInv, Exists, NEW t \in Ticket, Owing(t, ticket),
         t.state \in {"open", "claimed"}, Put(t),
         \/ resync'
         \/ \E by \in By : Takes("edit", by)
  PROVE  WakeInv'
<1>1. ticket' = t /\ Exists'
  BY NoTicketAssumption DEF Put, Exists
<1>2. \A by \in By : Takes("edit", by) => job'["locked"].at = "edit"
  BY JobSteps DEF IInv, Steps
<1> QED
  BY <1>1, <1>2, AwakeStep DEF Updated, Active, Editing, Owing

\* A button sets its deadline and wakes the scheduler.
LEMMA WakeButton ==
  ASSUME IInv, WakeInv, Button
  PROVE  WakeInv'
<1>1. Free /\ Active /\ ticket \in Ticket /\ Sound(ticket, redacted)
  BY RowFacts DEF Button, Unassign, MarkFinished, Claim, Decline, Open, Active
<1>2. ~Editing /\ Exists /\ redacted \in SUBSET User /\ "user" \in By
  BY <1>1 DEF Free, At, Editing, Active, IInv, UsersOK, By
<1>3. ASSUME NEW u \in User, Claim(u)
      PROVE  WakeInv'
  <2>1. Claimed(ticket, u) \in Ticket
    BY <1>1, <1>2, PressedRow
  <2>2. Owing(Claimed(ticket, u), ticket) /\ Claimed(ticket, u).state = "claimed"
    BY <1>1, ReleasedClock
  <2> QED
    BY <1>2, <1>3, <2>1, <2>2, WakeOwing DEF Claim
<1>4. ASSUME NEW u \in User, Decline(u)
      PROVE  WakeInv'
  <2> DEFINE s == Declined(ticket, u)
  <2>1. /\ s \in Ticket /\ s.state = "open"
        /\ Owing(s, ticket) \/ SameClock(s, ticket)
        /\ u \notin {ticket.target, ticket.pending.user} => SameClock(s, ticket)
    BY <1>1, <1>2, <1>4, PressedRow, PressedClock DEF Decline, Open
  <2>2. /\ Put(s) /\ woken' = woken /\ Stays
        /\ u \in {ticket.target, ticket.pending.user} => Takes("edit", "user")
    BY <1>4 DEF Decline
  <2> HIDE DEF s
  <2>3. CASE SameClock(s, ticket)
    BY <1>2, <2>2, <2>3, WakeLeft DEF Put
  <2>4. CASE ~SameClock(s, ticket)
    BY <1>2, <2>1, <2>2, <2>4, WakeOwing
  <2> QED
    BY <2>3, <2>4
<1>5. ASSUME Unassign
      PROVE  WakeInv'
  <2> DEFINE s == Unassigned(ticket)
  <2>1. ticket.state = "claimed" /\ ticket.assignee \in User
    BY <1>1, <1>5 DEF Unassign, Sound, Ticket
  <2>2. s \in Ticket /\ Owing(s, ticket) /\ s.state = "open"
    BY <1>1, <1>2, <2>1, PressedRow, PressedClock, UserAssumption
  <2> QED
    BY <1>2, <1>5, <2>2, WakeOwing DEF Unassign
<1>6. ASSUME MarkFinished
      PROVE  WakeInv'
  BY <1>6, WakeFinishing DEF MarkFinished
<1> QED
  BY <1>3, <1>4, <1>5, <1>6 DEF Button

\* A handler that starts for what is due leaves the scheduler awake.
LEMMA WakeDue ==
  ASSUME IInv, WakeInv, At("locked", "rest"), NEW by \in By, ProcessDue(by),
         by # "user"
  PROVE  WakeInv'
<1>1. ~Editing
  BY DEF At, Editing
<1>2. /\ Stays \/ Returns(by) => resync' = resync /\ (sched' = "wait" => sched = "wait")
      /\ redacted \in SUBSET User
  BY DEF Stays, Returns, Caller, IInv, UsersOK
<1>3. ASSUME UNCHANGED <<ticket, woken>>, Stays \/ Returns(by)
      PROVE  WakeInv'
  BY <1>1, <1>2, <1>3, WakeKept DEF Exists
<1>4. CASE RoutingDue /\ Put(Exhausted(ticket)) /\ Returns(by) /\ woken' = woken
  BY <1>1, <1>2, <1>4, WakeExhausted DEF RoutingDue, Open
<1>5. CASE RoutingDue /\ ticket.target # NoUser /\ Put(TimedOut(ticket)) /\ Takes("edit", by)
  <2>1. Exists /\ ticket \in Ticket /\ Sound(ticket, redacted) /\ ticket.state = "open"
    BY <1>5, RowFacts DEF RoutingDue, Open
  <2>2. ticket.target \in User
    BY <1>5, <2>1 DEF Ticket
  <2>3. /\ TimedOut(ticket) \in Ticket /\ Owing(TimedOut(ticket), ticket)
        /\ TimedOut(ticket).state = "open"
    BY <1>2, <1>5, <2>1, <2>2, PressedRow, PressedClock
  <2> QED
    BY <1>5, <2>1, <2>3, WakeOwing
<1>6. CASE RoutingDue /\ ticket.next \in PingAction /\ Put(Deferred(ticket)) /\ woken' = TRUE
  BY <1>6, WakeDeferred DEF RoutingDue, Open
<1> QED
  BY <1>3, <1>4, <1>5, <1>6 DEF ProcessDue, Recovers, DeletesRest, rows

\* The scheduler and the restoration leave the scheduler awake.
LEMMA WakeServing ==
  ASSUME IInv, WakeInv, Scheduler \/ Restoration
  PROVE  WakeInv'
<1>1. ASSUME UNCHANGED <<ticket, job, resync>>, woken' = woken \/ sched' # "wait",
             sched' = "wait" => sched = "wait" \/ ~Exists \/ ~HasDeadline(ticket)
      PROVE  WakeInv'
  BY <1>1 DEF WakeInv, Awake, Exists, Active, Editing
<1>2. CASE Clear \/ ReadDeadline \/ Wake \/ Timer \/ Query \/ SchedulerFails
  BY <1>1, <1>2 DEF Clear, ReadDeadline, Wake, Timer, Query, SchedulerFails, rows
<1>3. CASE Serve \/ RestoreDue
  BY <1>3, WakeDue DEF Serve, RestoreDue, Free, By
<1>4. CASE Load \/ List \/ ListDue
  BY <1>1, <1>4 DEF Load, List, ListDue, rows
<1>5. CASE RestoreCleanup
  <2>1. ~Editing
    BY <1>5 DEF RestoreCleanup, Free, At, Editing
  <2>2. UNCHANGED <<ticket, woken>> /\ (Stays \/ Returns("restore"))
    BY <1>5 DEF RestoreCleanup, Recovers, DeletesRest, rows
  <2>3. resync' = resync /\ (sched' = "wait" => sched = "wait")
    BY <2>2 DEF Stays, Returns, Caller
  <2> QED
    BY <2>1, <2>2, <2>3, WakeKept DEF Exists
<1> QED
  BY <1>2, <1>3, <1>4, <1>5 DEF Scheduler, Restoration

\* An erasure asks for an update of what it changes.
LEMMA WakeRedact ==
  ASSUME IInv, WakeInv, NEW u \in User, Redact(u)
  PROVE  WakeInv'
<1>1. ~Editing /\ (Exists => ticket \in Ticket /\ Sound(ticket, redacted))
  BY RowFacts DEF Redact, Free, At, Editing
<1>2. CASE u # Author /\ Exists /\ Put(Redacted(ticket, u))
  <2> DEFINE s == Redacted(ticket, u)
  <2>1. s \in Ticket
    BY <1>1, <1>2, RedactedRow DEF IInv, UsersOK
  <2>2. /\ sched' = sched /\ woken' = woken /\ ticket' = s
        /\ resync' = (resync \/ (Active /\ Concerns(ticket, u) /\ ticket'.state = "open"))
    BY <1>2, NoTicketAssumption, <2>1 DEF Redact, Put, BeginsFinishing
  <2>3. CASE SameClock(s, ticket)
    <3>1. Exists' /\ Timed(ticket)
      BY <1>2, <2>1, <2>2, NoTicketAssumption DEF Exists, WakeInv
    <3>2. /\ Timed(ticket') /\ (Active => Active')
          /\ HasDeadline(ticket') => HasDeadline(ticket)
      BY <1>2, <2>2, <2>3, <3>1, ClockKept
    <3> QED
      BY <1>1, <1>2, <2>2, <3>2, AwakeStep DEF Lulled
  <2>4. CASE /\ Owing(s, ticket) /\ s.state = "open" /\ ticket.state \in {"open", "claimed"}
             /\ Concerns(ticket, u)
    <3>1. resync'
      BY <1>2, <2>2, <2>4 DEF Active
    <3> QED
      BY <1>2, <2>1, <2>4, <3>1, WakeOwing
  <2> QED
    BY <1>1, <1>2, <2>3, <2>4, RedactedClock
<1>3. CASE BeginsFinishing("user", FALSE, FALSE, TRUE)
  BY <1>3, WakeFinishing
<1>4. CASE UNCHANGED <<rows, job, woken, resync>>
  BY <1>1, <1>4, WakeKept DEF Redact, rows, Exists
<1> QED
  BY <1>2, <1>3, <1>4 DEF Redact

\* Time changes when a deadline is due, never whether there is one.
LEMMA TickClock ==
  ASSUME IInv, Tick
  PROVE  /\ Exists /\ Exists' /\ ticket'.state = ticket.state /\ ticket'.next = ticket.next
         /\ ticket'.assignee = ticket.assignee /\ SameIds(ticket', ticket)
         /\ ticket'.nextAt = "none" <=> ticket.nextAt = "none"
         /\ ticket'.syncAt = "none" <=> ticket.syncAt = "none"
         /\ UNCHANGED <<sent, local, running, eligible, things, texts, bounds>>
<1> DEFINE due == [ticket EXCEPT !.nextAt = "due"]
           sync == [ticket EXCEPT !.syncAt = "due"]
           over == [ticket EXCEPT !.protected = FALSE]
<1>1. /\ Exists /\ ticket \in Ticket
      /\ \/ Ages(due) /\ ticket.nextAt = "later"
         \/ Ages(sync) /\ ticket.syncAt = "later"
         \/ Ages(over)
  BY RowFacts DEF Tick, NextDue, SyncDue, ProtectionEnds
<1>2. due \in Ticket /\ sync \in Ticket /\ over \in Ticket
  BY <1>1, Field DEF Time
<1>3. /\ SameClock(over, ticket) /\ SameIds(over, ticket)
      /\ due.state = ticket.state /\ due.next = ticket.next /\ due.nextAt = "due"
      /\ due.syncAt = ticket.syncAt /\ due.assignee = ticket.assignee /\ SameIds(due, ticket)
      /\ sync.state = ticket.state /\ sync.next = ticket.next /\ sync.nextAt = ticket.nextAt
      /\ sync.syncAt = "due" /\ sync.assignee = ticket.assignee /\ SameIds(sync, ticket)
  BY <1>1, ClockRow, DueRow DEF Time
<1> HIDE DEF due, sync, over
<1>4. ticket' \in {due, sync, over}
  BY <1>1 DEF Ages
<1>5. Exists'
  BY <1>2, <1>4, NoTicketAssumption DEF Exists
<1>6. UNCHANGED <<sent, local, running, eligible, things, texts, bounds>>
  BY <1>1 DEF Ages
<1>7. /\ ticket'.state = ticket.state /\ ticket'.next = ticket.next
      /\ ticket'.assignee = ticket.assignee /\ SameIds(ticket', ticket)
      /\ ticket'.nextAt = "none" <=> ticket.nextAt = "none"
      /\ ticket'.syncAt = "none" <=> ticket.syncAt = "none"
  BY <1>1, <1>3 DEF Ages, SameClock
<1> QED
  BY <1>1, <1>5, <1>6, <1>7

\* What happens around the handlers leaves the scheduler awake.
LEMMA WakeWorld ==
  ASSUME IInv, WakeInv,
         \/ Create \/ Tick \/ Event \/ Resync \/ ModeratorDeletes \/ Crash \/ UNCHANGED vars
         \/ \E u \in User : ToggleProfile(u)
  PROVE  WakeInv'
<1>1. ASSUME UNCHANGED <<ticket, job, sched, woken, resync>>
      PROVE  WakeInv'
  BY <1>1, WakeKept DEF Exists, Editing
<1>2. CASE Create
  <2>1. PICK r \in Requests : ticket' = Created(r.mode, r.direct)
    BY <1>2 DEF Create
  <2>2. Timed(ticket') /\ ~HasDeadline(ticket')
    BY <2>1 DEF Created, Emptied, Timed, HasDeadline
  <2> QED
    BY <2>2, AwakeStep DEF Roused
<1>3. CASE Tick
  <2>1. Timed(ticket)
    BY <1>3, TickClock DEF WakeInv
  <2>2. /\ Timed(ticket') /\ Exists /\ (Active => Active')
        /\ HasDeadline(ticket') => HasDeadline(ticket)
    BY <1>3, <2>1, TickClock DEF Timed, Active, HasDeadline
  <2>3. UNCHANGED <<sched, woken, resync, job>>
    BY <1>3, TickClock DEF running
  <2> QED
    BY <2>2, <2>3, AwakeStep DEF Lulled, Editing
<1>4. CASE Event
  <2>1. CASE \E e \in events : HandleDeleted(e)
    <3>1. PICK e \in events : HandleDeleted(e)
      BY <2>1
    <3>2. CASE OfTicket(e)
      BY <3>1, <3>2, WakeFinishing DEF HandleDeleted
    <3>3. CASE ~OfTicket(e)
      BY <1>1, <3>1, <3>3 DEF HandleDeleted, Stays, rows
    <3> QED
      BY <3>2, <3>3
  <2>2. CASE \E e \in events : HandleChannelDeleted(e)
    BY <2>2, AwakeStep DEF HandleChannelDeleted, Roused, Exists
  <2> QED
    BY <1>4, <2>1, <2>2 DEF Event
<1>5. CASE Resync
  <2>1. ~Editing /\ UNCHANGED <<ticket, woken, sched>>
    BY <1>5 DEF Resync, Free, At, Editing, rows
  <2>2. CASE Active
    <3>1. job'["locked"].at = "edit"
      BY <1>5, <2>2, JobSteps DEF Resync, IInv, Steps, By
    <3> QED
      BY <2>1, <2>2, <3>1 DEF WakeInv, Awake, Editing, Active, Exists
  <2>3. CASE ~Active
    BY <2>1, <2>3 DEF WakeInv, Awake, Active, Exists
  <2> QED
    BY <2>2, <2>3
<1>6. CASE Crash
  BY <1>6 DEF Crash, WakeInv, Awake, Exists
<1>7. CASE ModeratorDeletes \/ UNCHANGED vars \/ \E u \in User : ToggleProfile(u)
  BY <1>1, <1>7 DEF ModeratorDeletes, ToggleProfile, vars, rows, running
<1> QED
  BY <1>2, <1>3, <1>4, <1>5, <1>6, <1>7

\* The scheduler is woken whenever it waits beside a deadline.
LEMMA WakeInductive ==
  Spec => []WakeInv
<1>1. Init => WakeInv
  BY DEF Init, WakeInv, Awake, Exists
<1>2. IInv /\ ReviewInv /\ WakeInv /\ [Next]_vars => WakeInv'
  BY WakePublication, WakeDeletion, WakeRecovery, WakeEdit, WakeRouting, WakeButton,
     WakeServing, WakeRedact, WakeWorld
  DEF Next, Handler
<1> QED
  BY <1>1, <1>2, Inductive, ReviewInductive, PTL DEF Spec

-----------------------------------------------------------------------------
(* The message shows the assignee *)

\* The row keeps its state and its assignee, and no update that it owes is forgotten.
RowLasts ==
    Exists' =>
        /\ Exists /\ ticket'.state = ticket.state /\ ticket'.assignee = ticket.assignee
        /\ ticket'.syncAt = "none" => ticket.syncAt = "none"

\* No creation begins, and an update or a publication only where it may.
JobLasts ==
    /\ Making' => Making
    /\ At("create", "rest")' => At("create", "rest")
    /\ \/ job'["locked"].at = job["locked"].at
       \/ ~Editing' /\ ~Publishing'
       \/ job'["locked"].at = "edit" /\ Active
       \/ Publishing' /\ ~Editing' /\ (Exists => Creating)

\* A message that is not edited stays current while the row and the jobs go on.
LEMMA ShownKept ==
  ASSUME Current, shown' = shown, RowLasts, JobLasts
  PROVE  Current'
<1>1. Exists' => /\ Exists /\ (Active <=> Active') /\ (Creating <=> Creating')
  BY DEF RowLasts, Active, Creating
<1>2. /\ Editing' <=> job'["locked"].at \in {"edit", "ack_edit"}
      /\ Editing <=> job["locked"].at \in {"edit", "ack_edit"}
      /\ At("locked", "ack_edit")' <=> job'["locked"].at = "ack_edit"
      /\ At("locked", "ack_edit") <=> job["locked"].at = "ack_edit"
      /\ job'["locked"].at = job["locked"].at => (Publishing <=> Publishing')
      /\ job'["locked"].at = "edit" => ~Publishing'
  BY DEF Editing, At, Publishing
<1>3. Creating => Exists
  BY DEF Creating
<1>4. /\ Active' /\ ticket'.syncAt = "none" => shown' = ticket'.assignee
      /\ Creating' => ticket'.assignee = NoUser /\ shown' = NoUser
  <2>1. (Active' => Exists') /\ (Creating' => Exists')
    BY DEF Active, Creating
  <2> QED
    BY <1>1, <2>1 DEF Current, RowLasts
<1>5. /\ Editing' /\ Exists' => Active'
      /\ Publishing' /\ Exists' => Creating'
      /\ Making' /\ Exists' => ~Active'
      /\ At("create", "rest")' => shown' = NoUser
  BY <1>1, <1>2 DEF Current, JobLasts
<1>6. At("locked", "ack_edit")' /\ Exists' => shown' = ticket'.assignee
  BY <1>1, <1>2 DEF Current, JobLasts, RowLasts
<1> QED
  BY <1>4, <1>5, <1>6 DEF Current

\* Nothing is shown wrongly of a ticket that is gone, or on its way out.
LEMMA ShownGone ==
  ASSUME Current, shown' = shown, ~Exists', At("create", "rest")' => At("create", "rest")
  PROVE  Current'
BY DEF Current, Active, Creating, Exists

\* A ticket on its way out owes no update.
LEMMA ShownFinishing ==
  ASSUME IInv, Current, shown' = shown, NEW by, NEW a \in BOOLEAN, NEW b \in BOOLEAN, NEW d,
         BeginsFinishing(by, a, b, d)
  PROVE  Current'
<1>1. ticket'.state = "finishing"
  BY FinishingClock DEF BeginsFinishing
<1>2. job'["locked"].at = "del_thread" /\ job'["create"] = job["create"]
  BY JobWritten DEF BeginsFinishing, IInv
<1> QED
  BY <1>1, <1>2 DEF Current, Active, Creating, Editing, Publishing, Making, At

\* An update is owed, and nobody publishes.
LEMMA ShownOwing ==
  ASSUME IInv, Current, shown' = shown, Active, NEW t, Owing(t, ticket), Put(t),
         t.state \in {"open", "claimed"}, job'["create"] = job["create"],
         job'["locked"].at \in {"rest", "edit"}
  PROVE  Current'
<1>1. ~Making
  BY DEF Current, Active
<1> QED
  BY <1>1 DEF Current, Active, Creating, Exists, Editing, Publishing, Making, At, Put, Owing

\* A row that is not written goes on.
LEMMA SameRowLasts ==
  ASSUME ticket' = ticket
  PROVE  RowLasts
BY DEF RowLasts, Exists

\* A row whose deadlines and assignee stay goes on.
LEMMA ClockLasts ==
  ASSUME Exists, SameClock(ticket', ticket)
  PROVE  RowLasts
BY DEF RowLasts, SameClock

\* A row that is put off goes on.
LEMMA PutOffLasts ==
  ASSUME IInv, WakeInv, PutsOff
  PROVE  RowLasts
BY PutOffClock DEF RowLasts

\* A handler that gives up still owes the update.
LEMMA ShownGivesUp ==
  ASSUME IInv, WakeInv, Current, shown' = shown, NEW j \in Jobs, GivesUp(j),
         ~At(j, "rest"), ~At(j, "over")
  PROVE  Current'
<1>1. CASE j = "create"
  <2>1. job'["create"].at = "del_thread" /\ job'["locked"] = job["locked"]
    BY <1>1, JobWritten DEF GivesUp, IInv, Jobs
  <2>2. JobLasts
    BY <1>1, <2>1 DEF JobLasts, Making, At
  <2> QED
    BY <1>1, <2>2, SameRowLasts, ShownKept DEF GivesUp, rows
<1>2. CASE j = "locked"
  <2>1. job'["locked"].at = "rest" /\ job'["create"] = job["create"]
    BY <1>2, JobSteps DEF GivesUp, IInv
  <2>2. JobLasts
    BY <2>1 DEF JobLasts, Making, At, Editing, Publishing
  <2> QED
    BY <1>2, <2>2, PutOffLasts, ShownKept DEF GivesUp
<1> QED
  BY <1>1, <1>2 DEF Jobs

\* The job that publishes or deletes goes on.
LEMMA GoesOnLasts ==
  ASSUME IInv, Current, NEW j \in Jobs, job'[j].at \notin {"rest", "edit", "ack_edit"},
         \A i \in Jobs : i # j => job'[i] = job[i],
         j = "create" => Making,
         j = "locked" => Publishing \/ ~Publishing'
  PROVE  JobLasts
<1>1. CASE j = "create"
  BY <1>1 DEF JobLasts, Making, At, Jobs
<1>2. CASE j = "locked"
  BY <1>2 DEF JobLasts, Making, At, Jobs, Editing, Publishing, Current
<1> QED
  BY <1>1, <1>2 DEF Jobs

\* A ticket is published without an assignee.
LEMMA ShownPublication ==
  ASSUME IInv, WakeInv, MadeAlone, Current, NEW j \in Jobs, Publication(j)
  PROVE  Current'
<1>1. /\ ~At(j, "rest") /\ ~At(j, "over")
      /\ j = "create" => Making
      /\ j = "locked" => Publishing
  BY DEF Publication, SendTicket, RecordMessage, CreateThread, RecordThread, Activate,
         PublicationFails, At, Making, Publishing
<1>2. ASSUME GivesUp(j), shown' = shown
      PROVE  Current'
  BY <1>1, <1>2, ShownGivesUp
<1>3. ASSUME NEW step \in {"record", "thread", "find_thread", "record_thread", "activate"},
             NEW m, \/ Go(j, step)
                    \/ job' = [job EXCEPT ![j].at = step, ![j].message = m]
                    \/ job' = [job EXCEPT ![j].at = step, ![j].thread = m]
      PROVE  JobLasts
  <2>1. job'[j].at = step /\ \A i \in Jobs : i # j => job'[i] = job[i]
    BY <1>3, JobWritten DEF IInv
  <2> QED
    BY <1>1, <2>1, GoesOnLasts
<1>4. CASE SendTicket(j)
  <2>1. j \in {"create", "locked"}
    BY DEF Jobs
  <2>2. Exists => ~Active
    BY <1>1, <2>1 DEF Current, Active, Creating
  <2>3. shown' = NoUser
    BY <1>4 DEF SendTicket
  <2>4. CASE Creating
    BY <1>2, <1>3, <1>4, <2>3, <2>4, SameRowLasts, ShownKept DEF SendTicket, Current, rows
  <2>5. CASE ~Creating
    <3>1. RowLasts
      BY <1>4, PutOffLasts, SameRowLasts DEF SendTicket, GivesUp, rows
    <3>2. ~Active' /\ ~Creating' /\ (Exists' => Exists)
      BY <2>2, <2>5, <3>1 DEF RowLasts, Active, Creating
    <3>3. Exists' => ~Editing' /\ ~Publishing'
      <4>1. CASE j = "create"
        <5>1. job'["locked"] = job["locked"]
          BY <1>3, <1>4, <4>1, JobWritten DEF SendTicket, GivesUp, Jobs, IInv
        <5> QED
          BY <2>2, <2>5, <3>2, <5>1 DEF Current, Editing, Publishing
      <4>2. CASE j = "locked"
        BY <1>1, <2>5, <3>2, <4>2 DEF Current
      <4> QED
        BY <4>1, <4>2 DEF Jobs
    <3> QED
      BY <2>3, <3>2, <3>3 DEF Current, Editing, At
  <2> QED
    BY <2>4, <2>5
<1>5. CASE RecordMessage(j)
  <2>1. CASE /\ Creating /\ Put([ticket EXCEPT !.message = job[j].message])
             /\ Go(j, IF j = "create" THEN "thread" ELSE "find_thread")
    <3>1. RowLasts
      BY <2>1, RowFacts, ClockRow, ClockLasts DEF Put, Creating
    <3> QED
      BY <1>3, <1>5, <2>1, <3>1, ShownKept DEF RecordMessage, texts
  <2> QED
    BY <1>2, <1>5, <2>1 DEF RecordMessage, texts
<1>6. CASE CreateThread(j)
  BY <1>2, <1>3, <1>6, SameRowLasts, ShownKept DEF CreateThread, texts, rows
<1>7. CASE RecordThread(j)
  <2>1. CASE /\ Creating /\ Put([ticket EXCEPT !.thread = job[j].thread])
             /\ Go(j, "activate")
    <3>1. RowLasts
      BY <2>1, RowFacts, ClockRow, ClockLasts DEF Put, Creating
    <3> QED
      BY <1>3, <1>7, <2>1, <3>1, ShownKept DEF RecordThread, texts
  <2> QED
    BY <1>2, <1>7, <2>1 DEF RecordThread, texts
<1>8. CASE Activate(j)
  <2>1. CASE /\ Creating /\ Put(Activated(ticket, job[j].message, job[j].thread))
             /\ EndsJob(j)
    <3>1. /\ ticket'.state = "open" /\ ticket'.assignee = ticket.assignee
          /\ shown' = shown /\ shown = ticket.assignee
      BY <1>8, <2>1, RowFacts, ReleasedClock DEF Put, Creating, Activate, texts, Current
    <3>2. ~Making' /\ ~At("create", "rest")' /\ ~Publishing' /\ ~At("locked", "ack_edit")'
      <4>1. ~Editing
        BY <2>1 DEF Current, Active, Creating
      <4>2. CASE j = "create"
        <5>1. job'["create"].at = "over" /\ job'["locked"] = job["locked"]
          BY <2>1, <4>2, JobSteps DEF EndsJob, IInv
        <5>2. ~Publishing
          BY <1>1, <4>2 DEF MadeAlone, At
        <5> QED
          BY <4>1, <5>1, <5>2 DEF Making, Publishing, Editing, At
      <4>3. CASE j = "locked"
        <5>1. job'["locked"].at = "rest" /\ job'["create"] = job["create"]
          BY <2>1, <4>3, JobSteps DEF EndsJob, IInv
        <5>2. At("create", "over")
          BY <1>1, <4>3 DEF MadeAlone
        <5> QED
          BY <5>1, <5>2 DEF Making, Publishing, At
      <4> QED
        BY <4>2, <4>3 DEF Jobs
    <3>3. ~Creating' /\ (Exists' => Active')
      BY <3>1 DEF Creating, Active
    <3> QED
      BY <3>1, <3>2, <3>3 DEF Current
  <2> QED
    BY <1>2, <1>8, <2>1 DEF Activate, texts
<1>9. CASE PublicationFails(j)
  BY <1>2, <1>9 DEF PublicationFails, texts
<1> QED
  BY <1>4, <1>5, <1>6, <1>7, <1>8, <1>9 DEF Publication

\* A deletion shows nothing.
LEMMA ShownDeletion ==
  ASSUME IInv, WakeInv, Current, NEW j \in Jobs, Deletion(j)
  PROVE  Current'
<1>1. /\ ~At(j, "rest") /\ ~At(j, "over") /\ shown' = shown
      /\ j = "create" => Making
  BY DEF Deletion, DeleteThread, DeleteMessage, DeleteRow, DeletionFails, At, Making, texts
<1>2. ASSUME EndsJob(j) \/ (j = "locked" /\ Ends(TRUE))
      PROVE  JobLasts
  <2>1. CASE j = "create"
    BY <1>2, <2>1, JobSteps DEF EndsJob, IInv, JobLasts, Making, At
  <2>2. CASE j = "locked"
    <3>1. job'["locked"].at = "rest" /\ job'["create"] = job["create"]
      BY <1>2, <2>2, JobSteps DEF EndsJob, IInv
    <3> QED
      BY <3>1 DEF JobLasts, Making, At, Editing, Publishing
  <2> QED
    BY <2>1, <2>2 DEF Jobs
<1>3. CASE DeleteThread(j) \/ DeleteMessage(j)
  <2>1. PICK step \in {"del_message", "del_row"} : Go(j, step)
    BY <1>3 DEF DeleteThread, DeleteMessage
  <2>2. job'[j].at = step /\ \A i \in Jobs : i # j => job'[i] = job[i]
    BY <2>1, JobWritten DEF IInv
  <2>3. j = "locked" => ~Publishing'
    BY <2>2 DEF Publishing
  <2> QED
    BY <1>1, <1>3, <2>2, <2>3, GoesOnLasts, SameRowLasts, ShownKept
    DEF DeleteThread, DeleteMessage, rows
<1>4. CASE DeleteRow(j)
  BY <1>1, <1>2, <1>4, ShownGone DEF DeleteRow, Exists, JobLasts
<1>5. CASE DeletionFails(j)
  BY <1>1, <1>2, <1>5, PutOffLasts, SameRowLasts, ShownKept DEF DeletionFails, rows
<1> QED
  BY <1>3, <1>4, <1>5 DEF Deletion

\* The handler that has the lock comes to its end, or goes on without publishing.
LEMMA LockLasts ==
  ASSUME IInv,
         \/ \E raised \in BOOLEAN : Ends(raised)
         \/ \E step \in RoutingSteps : Go("locked", step)
  PROVE  JobLasts
<1>1. ASSUME NEW raised \in BOOLEAN, Ends(raised)
      PROVE  job'["locked"].at = "rest" /\ job'["create"] = job["create"]
  BY <1>1, JobSteps DEF IInv
<1>2. ASSUME NEW step \in RoutingSteps, Go("locked", step)
      PROVE  job'["locked"].at = step /\ job'["create"] = job["create"]
  BY <1>2, JobWritten DEF IInv, Jobs
<1> QED
  BY <1>1, <1>2 DEF JobLasts, Making, At, Editing, Publishing, RoutingSteps

\* The update of the message is begun, or the recovery of a creation.
LEMMA TakenLasts ==
  ASSUME IInv, NEW by \in By,
         \/ Takes("edit", by) /\ Active
         \/ Takes("find_message", by) /\ Creating
  PROVE  JobLasts
<1>1. \A step \in {"edit", "find_message"} : Takes(step, by) =>
         job'["locked"].at = step /\ job'["create"] = job["create"]
  BY JobSteps DEF IInv, Steps
<1> QED
  BY <1>1 DEF JobLasts, Making, At, Editing, Publishing

\* Jobs that take no step go on.
LEMMA SameJobLasts ==
  ASSUME job' = job
  PROVE  JobLasts
BY DEF JobLasts, Making, At

\* A recovery that looks for the ticket shows nothing.
LEMMA ShownRecovery ==
  ASSUME IInv, WakeInv, Current, Recovery
  PROVE  Current'
<1>1. /\ Publishing /\ shown' = shown /\ ~At("locked", "rest") /\ ~At("locked", "over")
  BY DEF Recovery, FindMessage, FindThread, Publishing, texts, At
<1>2. ASSUME UNCHANGED rows,
             NEW step \in {"send", "record", "find_thread", "thread", "record_thread",
                           "activate"},
             NEW m, \/ Go("locked", step)
                    \/ job' = [job EXCEPT !["locked"].at = step, !["locked"].message = m]
                    \/ job' = [job EXCEPT !["locked"].at = step, !["locked"].thread = m]
      PROVE  Current'
  <2>1. job'["locked"].at = step /\ job'["create"] = job["create"]
    BY <1>2, JobWritten DEF IInv, Jobs
  <2>2. JobLasts
    BY <1>1, <2>1, GoesOnLasts DEF Jobs
  <2> QED
    BY <1>1, <1>2, <2>2, SameRowLasts, ShownKept DEF rows
<1>3. CASE FindMessage
  BY <1>2, <1>3 DEF FindMessage
<1>4. CASE FindThread
  <2>1. CASE GivesUp("locked")
    BY <1>1, <2>1, ShownGivesUp DEF Jobs
  <2>2. CASE BeginsFinishing(job["locked"].by, TRUE, FALSE, TRUE)
    BY <1>1, <2>2, ShownFinishing
  <2>3. CASE /\ UNCHANGED rows
             /\ job' = [job EXCEPT
                  !["locked"].at = IF ticket.thread # NoMessage THEN "activate"
                                   ELSE IF job["locked"].message \in threads
                                   THEN "record_thread" ELSE "thread",
                  !["locked"].thread = IF ticket.thread # NoMessage THEN ticket.thread
                                       ELSE IF job["locked"].message \in threads
                                       THEN job["locked"].message ELSE NoMessage]
    BY <1>2, <2>3
  <2> QED
    BY <1>4, <2>1, <2>2, <2>3 DEF FindThread
<1> QED
  BY <1>3, <1>4 DEF Recovery

\* An edit shows the assignee of the row before it is acknowledged.
LEMMA ShownEdit ==
  ASSUME IInv, WakeInv, Current, Edit
  PROVE  Current'
<1>1. CASE EditTicket
  <2>1. CASE /\ Exists /\ shown' = ticket.assignee
             /\ Go("locked", "ack_edit") /\ UNCHANGED rows
    <3>1. Active /\ At("locked", "edit")
      BY <1>1, <2>1 DEF EditTicket, Current, Editing, At
    <3>2. job'["locked"].at = "ack_edit" /\ job'["create"] = job["create"]
      BY <2>1, JobWritten DEF IInv, Jobs
    <3>3. ticket' = ticket /\ ~At("create", "rest")
      BY <2>1, RowFacts DEF rows
    <3> QED
      BY <2>1, <3>1, <3>2, <3>3
      DEF Current, Active, Creating, Exists, Editing, Publishing, Making, At
  <2>2. CASE BeginsFinishing(job["locked"].by, TRUE, FALSE, FALSE) /\ shown' = shown
    BY <2>2, ShownFinishing
  <2>3. CASE Ends(FALSE) /\ UNCHANGED <<rows, shown>>
    BY <2>3, LockLasts, SameRowLasts, ShownKept DEF rows
  <2> QED
    BY <1>1, <2>1, <2>2, <2>3 DEF EditTicket
<1>2. CASE EditFails
  BY <1>2, LockLasts, PutOffLasts, ShownKept DEF EditFails, texts
<1>3. CASE AcknowledgeEdit
  <2>1. CASE ~Exists
    BY <1>3, <2>1, LockLasts, SameRowLasts, ShownKept DEF AcknowledgeEdit, texts
  <2>2. CASE Exists
    <3>1. ticket'.state = ticket.state /\ ticket'.assignee = ticket.assignee
      BY <1>3, <2>2, RowFacts, DueRow DEF AcknowledgeEdit, Time
    <3>2. shown' = shown /\ shown = ticket.assignee /\ Active
      BY <1>3, <2>2 DEF AcknowledgeEdit, Current, Editing, At, texts
    <3>3. job'["locked"].at = "rest" /\ job'["create"] = job["create"]
      BY <1>3, JobSteps DEF AcknowledgeEdit, IInv
    <3>4. ~At("create", "rest")
      BY <2>2, RowFacts
    <3> QED
      BY <3>1, <3>2, <3>3, <3>4
      DEF Current, Active, Creating, Exists, Editing, Publishing, Making, At
  <2> QED
    BY <2>1, <2>2
<1> QED
  BY <1>1, <1>2, <1>3 DEF Edit

\* What routing and the scheduler write keeps the assignee and the state.
LEMMA DueLasts ==
  ASSUME IInv, Exists, ticket.state = "open"
  PROVE  /\ Put(Deferred(ticket)) \/ Put(Exhausted(ticket)) \/ Put(Cancelled(ticket)) => RowLasts
         /\ \A u, a : Put(Reserved(ticket, u, a)) => RowLasts
         /\ ticket' = Acknowledged(ticket) => RowLasts
         /\ ticket.target # NoUser /\ Put(TimedOut(ticket)) => RowLasts
<1>1. ticket \in Ticket
  BY RowFacts
<1>2. Put(Deferred(ticket)) \/ Put(Exhausted(ticket)) => RowLasts
  <2> DEFINE d == Deferred(ticket)
             e == Exhausted(ticket)
  <2>1. /\ d.state = ticket.state /\ d.assignee = ticket.assignee /\ d.syncAt = ticket.syncAt
        /\ e.state = ticket.state /\ e.assignee = ticket.assignee /\ e.syncAt = ticket.syncAt
    BY <1>1, DueRow
  <2> HIDE DEF d, e
  <2>2. Put(d) \/ Put(e) => RowLasts
    BY <2>1 DEF Put, RowLasts
  <2> QED
    BY <2>2 DEF d, e
<1>3. Put(Cancelled(ticket)) => RowLasts
  BY <1>1, ClockRow, ClockLasts DEF Put
<1>4. ASSUME NEW u, NEW a, Put(Reserved(ticket, u, a))
      PROVE  RowLasts
  <2>1. SameClock(Reserved(ticket, u, a), ticket)
    BY <1>1, ClockRow
  <2> QED
    BY <1>4, <2>1, ClockLasts DEF Put
<1>5. ticket' = Acknowledged(ticket) => RowLasts
  <2> DEFINE s == Acknowledged(ticket)
  <2>1. s.state = ticket.state /\ s.assignee = ticket.assignee /\ s.syncAt = "due"
    BY <1>1, DueRow DEF Owing
  <2> HIDE DEF s
  <2>2. ticket' = s => RowLasts
    BY <2>1 DEF RowLasts
  <2> QED
    BY <2>2 DEF s
<1>6. ticket.target # NoUser /\ Put(TimedOut(ticket)) => RowLasts
  <2>1. ticket.target # NoUser => ticket.target \in User
    BY <1>1 DEF Ticket
  <2> QED
    BY <1>1, <2>1, PressedClock DEF Put, RowLasts, Owing
<1> QED
  BY <1>2, <1>3, <1>4, <1>5, <1>6

\* Routing changes no assignee.
LEMMA ShownRouting ==
  ASSUME IInv, ReviewInv, WakeInv, Current, Routing
  PROVE  Current'
<1>1. job["locked"].at \in RoutingSteps /\ shown' = shown
  BY DEF Routing, Route, Settle, Check, GatewayUnavailable, PingReviewer, AcknowledgePing,
         SettlementFails, At, RoutingSteps, texts
<1>2. Exists => Open
  BY <1>1, RoutingFacts
<1>3. ASSUME RowLasts,
             \/ \E raised \in BOOLEAN : Ends(raised)
             \/ \E step \in RoutingSteps : Go("locked", step)
      PROVE  Current'
  BY <1>1, <1>3, LockLasts, ShownKept
<1>4. {"route", "settle", "check", "ping", "ack_ping"} \subseteq RoutingSteps
  BY DEF RoutingSteps
<1>5. UNCHANGED rows \/ ticket' = ticket => RowLasts
  BY SameRowLasts DEF rows
<1>6. CASE Route
  <2>1. RowLasts
    BY <1>2, <1>5, <1>6, DueLasts DEF Route, Open
  <2> QED
    BY <1>3, <1>4, <1>6, <2>1 DEF Route
<1>7. CASE Settle
  <2>1. CASE BeginsFinishing(job["locked"].by, FALSE, TRUE, TRUE)
    BY <1>1, <2>1, ShownFinishing
  <2>2. CASE UNCHANGED ticket /\ ~BeginsFinishing(job["locked"].by, FALSE, TRUE, TRUE)
    BY <1>3, <1>4, <1>5, <1>7, <2>2 DEF Settle
  <2> QED
    BY <1>7, <2>1, <2>2 DEF Settle, rows
<1>8. CASE Check
  <2>1. RowLasts
    BY <1>2, <1>5, <1>8, DueLasts DEF Check, Open
  <2> QED
    BY <1>3, <1>4, <1>8, <2>1 DEF Check
<1>9. CASE GatewayUnavailable
  BY <1>2, <1>3, <1>9, DueLasts DEF GatewayUnavailable, Open
<1>10. CASE PingReviewer
  <2>1. CASE Exists /\ PingLater
    BY <1>2, <1>3, <2>1, DueLasts DEF PingLater, Open
  <2>2. CASE BeginsFinishing(job["locked"].by, FALSE, TRUE, FALSE)
    BY <1>1, <2>2, ShownFinishing
  <2>3. CASE ticket' = ticket /\ (Go("locked", "ack_ping") \/ Ends(FALSE))
    BY <1>3, <1>4, <1>5, <2>3
  <2> QED
    BY <1>10, <2>1, <2>2, <2>3 DEF PingReviewer, rows
<1>11. CASE AcknowledgePing
  <2>1. CASE ~Exists
    BY <1>3, <1>5, <1>11, <2>1 DEF AcknowledgePing
  <2>2. CASE Exists /\ ticket' = Acknowledged(ticket) /\ Go("locked", "edit")
    <3>1. RowLasts
      BY <1>2, <2>2, DueLasts DEF Open
    <3>2. job'["locked"].at = "edit" /\ job'["create"] = job["create"]
      BY <2>2, JobWritten DEF IInv, Jobs
    <3>3. JobLasts
      BY <1>2, <2>2, <3>2 DEF JobLasts, Making, At, Active, Open
    <3> QED
      BY <1>1, <3>1, <3>3, ShownKept
  <2> QED
    BY <1>11, <2>1, <2>2 DEF AcknowledgePing
<1>12. CASE SettlementFails
  BY <1>3, <1>5, <1>12 DEF SettlementFails
<1> QED
  BY <1>6, <1>7, <1>8, <1>9, <1>10, <1>11, <1>12 DEF Routing

\* A button that changes the assignee owes an update.
LEMMA ShownButton ==
  ASSUME IInv, Current, Button
  PROVE  Current'
<1>1. /\ Free /\ Active /\ ticket \in Ticket /\ Sound(ticket, redacted) /\ shown' = shown
  BY RowFacts DEF Button, Unassign, MarkFinished, Claim, Decline, Open, Active, texts
<1>2. "user" \in By /\ At("locked", "rest")
  BY <1>1 DEF By, Free
<1>3. Takes("edit", "user") =>
         job'["locked"].at = "edit" /\ job'["create"] = job["create"]
  BY <1>2, JobSteps DEF IInv, Steps
<1>4. ASSUME NEW u \in User, Claim(u)
      PROVE  Current'
  <2>1. Owing(Claimed(ticket, u), ticket) /\ Claimed(ticket, u).state = "claimed"
    BY <1>1, ReleasedClock
  <2> QED
    BY <1>1, <1>3, <1>4, <2>1, ShownOwing DEF Claim
<1>5. ASSUME NEW u \in User, Decline(u)
      PROVE  Current'
  <2> DEFINE s == Declined(ticket, u)
  <2>1. /\ s.state = "open"
        /\ Owing(s, ticket) \/ SameClock(s, ticket)
    BY <1>1, <1>5, PressedClock DEF Decline, Open
  <2>2. Put(s) /\ (Takes("edit", "user") \/ job' = job)
    BY <1>5 DEF Decline
  <2> HIDE DEF s
  <2>3. CASE SameClock(s, ticket)
    BY <1>1, <1>2, <2>2, <2>3, ClockLasts, TakenLasts, SameJobLasts, ShownKept
    DEF Put, Active
  <2>4. CASE Owing(s, ticket)
    <3>1. job'["locked"].at \in {"rest", "edit"} /\ job'["create"] = job["create"]
      BY <1>2, <1>3, <2>2 DEF At
    <3> QED
      BY <1>1, <2>1, <2>2, <2>4, <3>1, ShownOwing
  <2> QED
    BY <2>1, <2>3, <2>4
<1>6. ASSUME Unassign
      PROVE  Current'
  <2>1. ticket.state = "claimed" /\ ticket.assignee \in User
    BY <1>1, <1>6 DEF Unassign, Sound, Ticket
  <2>2. Owing(Unassigned(ticket), ticket) /\ Unassigned(ticket).state = "open"
    BY <1>1, <2>1, PressedClock
  <2> QED
    BY <1>1, <1>3, <1>6, <2>2, ShownOwing DEF Unassign
<1>7. ASSUME MarkFinished
      PROVE  Current'
  BY <1>1, <1>7, ShownFinishing DEF MarkFinished
<1> QED
  BY <1>4, <1>5, <1>6, <1>7 DEF Button

\* A deletion of the rest leaves what is owed.
LEMMA RestLasts ==
  ASSUME IInv, NEW by, DeletesRest(by)
  PROVE  JobLasts /\ RowLasts
<1>1. job'["locked"].at = "del_thread" /\ job'["create"] = job["create"]
  BY JobWritten DEF DeletesRest, IInv
<1> QED
  BY <1>1, SameRowLasts DEF DeletesRest, JobLasts, Making, At, Editing, Publishing

\* A handler that starts for what is due shows nothing yet.
LEMMA ShownDue ==
  ASSUME IInv, Current, NEW by \in By, ProcessDue(by) \/ Recovers(by), shown' = shown
  PROVE  Current'
<1>1. CASE Recovers(by)
  BY <1>1, RestLasts, TakenLasts, SameRowLasts, ShownKept DEF Recovers, rows
<1>2. CASE Active /\ Takes("edit", by) /\ UNCHANGED rows
  BY <1>2, TakenLasts, SameRowLasts, ShownKept DEF rows
<1>3. CASE Returns(by) /\ UNCHANGED rows
  BY <1>3, SameJobLasts, SameRowLasts, ShownKept DEF rows, Returns
<1>4. CASE /\ RoutingDue /\ Returns(by)
           /\ Put(Exhausted(ticket)) \/ Put(Deferred(ticket))
  BY <1>4, SameJobLasts, DueLasts, ShownKept DEF Returns, RoutingDue, Open
<1>5. CASE RoutingDue /\ ticket.target # NoUser /\ Put(TimedOut(ticket)) /\ Takes("edit", by)
  BY <1>5, TakenLasts, DueLasts, ShownKept DEF RoutingDue, Open, Active
<1>6. CASE Takes("route", by) /\ UNCHANGED rows
  <2>1. job'["locked"].at = "route" /\ job'["create"] = job["create"]
    BY <1>6, JobSteps DEF IInv, Steps
  <2>2. JobLasts
    BY <2>1 DEF JobLasts, Making, At, Editing, Publishing
  <2> QED
    BY <1>6, <2>2, SameRowLasts, ShownKept DEF rows
<1> QED
  BY <1>1, <1>2, <1>3, <1>4, <1>5, <1>6 DEF ProcessDue

\* The scheduler and the restoration show nothing themselves.
LEMMA ShownServing ==
  ASSUME IInv, Current, Scheduler \/ Restoration
  PROVE  Current'
<1>1. shown' = shown
  BY DEF Scheduler, Clear, ReadDeadline, Wake, Timer, Query, Serve, SchedulerFails,
         Restoration, Load, List, RestoreCleanup, ListDue, RestoreDue, texts
<1>2. ASSUME UNCHANGED <<ticket, job>>
      PROVE  Current'
  BY <1>1, <1>2, SameRowLasts, SameJobLasts, ShownKept
<1>3. CASE Serve \/ RestoreDue
  BY <1>1, <1>3, ShownDue DEF Serve, RestoreDue, By
<1>4. CASE RestoreCleanup
  <2>1. CASE Recovers("restore")
    BY <1>1, <2>1, ShownDue DEF By
  <2>2. CASE Returns("restore") /\ UNCHANGED ticket
    BY <1>2, <2>2 DEF Returns
  <2> QED
    BY <1>4, <2>1, <2>2 DEF RestoreCleanup
<1> QED
  BY <1>2, <1>3, <1>4
  DEF Scheduler, Clear, ReadDeadline, Wake, Timer, Query, SchedulerFails,
      Restoration, Load, List, ListDue, rows

\* An erasure that removes the assignee owes an update.
LEMMA ShownRedact ==
  ASSUME IInv, Current, NEW u \in User, Redact(u)
  PROVE  Current'
<1>1. shown' = shown /\ At("locked", "rest")
  BY DEF Redact, Free, texts
<1>2. CASE u # Author /\ Exists /\ Put(Redacted(ticket, u)) /\ job' = job
  <2> DEFINE s == Redacted(ticket, u)
  <2>1. \/ SameClock(s, ticket)
        \/ Owing(s, ticket) /\ s.state = "open" /\ ticket.state \in {"open", "claimed"}
    BY <1>2, RowFacts, RedactedClock
  <2> HIDE DEF s
  <2>2. Put(s)
    BY <1>2 DEF s
  <2>3. CASE SameClock(s, ticket)
    BY <1>1, <1>2, <2>2, <2>3, ClockLasts, SameJobLasts, ShownKept DEF Put
  <2>4. CASE Owing(s, ticket) /\ s.state = "open" /\ ticket.state \in {"open", "claimed"}
    BY <1>1, <1>2, <2>2, <2>4, ShownOwing DEF At, Active
  <2> QED
    BY <2>1, <2>3, <2>4
<1>3. CASE BeginsFinishing("user", FALSE, FALSE, TRUE)
  BY <1>1, <1>3, ShownFinishing
<1>4. CASE UNCHANGED <<rows, job>>
  BY <1>1, <1>4, SameRowLasts, SameJobLasts, ShownKept DEF rows
<1> QED
  BY <1>2, <1>3, <1>4 DEF Redact

\* What happens around the handlers changes no message.
LEMMA ShownWorld ==
  ASSUME IInv, Current,
         \/ Create \/ Tick \/ Event \/ Resync \/ ModeratorDeletes \/ Crash \/ UNCHANGED vars
         \/ \E u \in User : ToggleProfile(u)
  PROVE  Current'
<1>1. shown' = shown
  BY DEF Create, Tick, NextDue, SyncDue, ProtectionEnds, Ages, Event, HandleDeleted,
         HandleChannelDeleted, Resync, ModeratorDeletes, Crash, ToggleProfile, vars, texts
<1>2. CASE Create
  <2>1. PICK r \in Requests : ticket' = Created(r.mode, r.direct)
    BY <1>2 DEF Create
  <2>2. ticket'.state = "creating" /\ ticket'.assignee = NoUser
    BY <2>1 DEF Created, Emptied
  <2>3. job'["create"].at = "send" /\ job'["locked"] = job["locked"]
    BY <1>2, JobWritten DEF Create, IInv, Jobs
  <2>4. At("locked", "rest") /\ shown = NoUser
    BY <1>2 DEF Create, IInv, CreatedOnce, Current
  <2> QED
    BY <1>1, <2>2, <2>3, <2>4
    DEF Current, Active, Creating, Editing, Publishing, Making, At
<1>3. CASE Tick
  BY <1>1, <1>3, TickClock, SameJobLasts, ShownKept DEF RowLasts, running
<1>4. CASE Event
  <2>1. CASE \E e \in events : HandleDeleted(e)
    <3>1. PICK e \in events : HandleDeleted(e)
      BY <2>1
    <3>2. CASE OfTicket(e)
      BY <1>1, <3>1, <3>2, ShownFinishing DEF HandleDeleted
    <3>3. CASE ~OfTicket(e)
      BY <1>1, <3>1, <3>3, SameRowLasts, SameJobLasts, ShownKept DEF HandleDeleted, rows
    <3> QED
      BY <3>2, <3>3
  <2>2. CASE \E e \in events : HandleChannelDeleted(e)
    BY <1>1, <2>2, ShownGone DEF HandleChannelDeleted, running, Exists, At
  <2> QED
    BY <1>4, <2>1, <2>2 DEF Event
<1>5. CASE Resync
  BY <1>1, <1>5, SameRowLasts, SameJobLasts, TakenLasts, ShownKept DEF Resync, rows, By
<1>6. CASE Crash
  <2>1. /\ job'["locked"].at = "rest"
        /\ job'["create"].at \in {"rest", "over"}
        /\ job'["create"].at = "rest" => job["create"].at = "rest"
    BY <1>6 DEF Crash, IInv, JobOK, Jobs, Rest
  <2>2. JobLasts
    BY <2>1 DEF JobLasts, Making, At, Editing, Publishing
  <2> QED
    BY <1>1, <1>6, <2>2, SameRowLasts, ShownKept DEF Crash
<1>7. CASE ModeratorDeletes \/ UNCHANGED vars \/ \E u \in User : ToggleProfile(u)
  BY <1>1, <1>7, SameRowLasts, SameJobLasts, ShownKept
  DEF ModeratorDeletes, ToggleProfile, vars, rows, running
<1> QED
  BY <1>2, <1>3, <1>4, <1>5, <1>6, <1>7

\* A message shows the assignee, or an update is owed, in every state.
LEMMA ShownInductive ==
  Spec => []ShownInv
<1>1. Init => ShownInv
  BY DEF Init, ShownInv, Current, Exists, Active, Creating, Editing, Publishing, Making, At
<1>2. /\ IInv /\ ReviewInv /\ WakeInv /\ PublishedInv /\ ShownInv /\ [Next]_vars
      => ShownInv'
  <2> SUFFICES ASSUME IInv, ReviewInv, WakeInv, PublishedInv, ShownInv, [Next]_vars,
                      ~limits.overlap
               PROVE  Current'
    BY LimitsKept DEF ShownInv
  <2>1. MadeAlone /\ Current
    BY DEF PublishedInv, ShownInv
  <2>2. CASE Handler
    BY <2>1, <2>2, ShownPublication, ShownDeletion, ShownRecovery, ShownEdit, ShownRouting
    DEF Handler
  <2>3. CASE Button \/ Scheduler \/ Restoration \/ \E u \in User : Redact(u)
    BY <2>1, <2>3, ShownButton, ShownServing, ShownRedact
  <2> QED
    BY <2>1, <2>2, <2>3, ShownWorld DEF Next
<1> QED
  BY <1>1, <1>2, Inductive, ReviewInductive, WakeInductive, PublishedInductive, PTL DEF Spec

-----------------------------------------------------------------------------
(* Nothing is left behind *)

\* What the steps may rely on.
Tidy ==
    /\ Keeps(limits) /\ ~limits.ambiguous
    /\ IInv /\ MadeAlone /\ OneMessage /\ Current /\ Kept

\* What the bounds of a behaviour exclude.
LEMMA Bounded ==
  ASSUME Tidy
  PROVE  /\ limits.deletions # 0 => limits.faults = 0 /\ limits.crashes = 0
         /\ Fault => limits.deletions = 0
         /\ Crash => limits.deletions = 0 /\ limits.crashes # 0
         /\ ModeratorDeletes => limits.deletions # 0
         /\ \A u : Redact(u) => limits.crashes = 0 /\ limits.erasures # 0
<1>1. limits \in Bounds /\ faults \in Nat /\ crashes \in Nat /\ deletions \in Nat
  BY TicketAssumption DEF Tidy, IInv, BoundOK
<1>2. limits.deletions # 0 => limits.faults = 0 /\ limits.crashes = 0
  BY DEF Tidy, Keeps
<1>3. Fault => limits.faults # 0
  BY <1>1 DEF Fault, Bounds
<1>4. Crash => limits.crashes # 0
  BY <1>1 DEF Crash, Bounds
<1>5. ModeratorDeletes => limits.deletions # 0
  BY <1>1 DEF ModeratorDeletes, Bounds
<1>6. ASSUME NEW u, Redact(u)
      PROVE  limits.crashes = 0 /\ limits.erasures # 0
  <2>1. limits.erasures = 0 => redacted = {}
    BY DEF Tidy, Kept, Heralded
  <2>2. Cardinality({}) = 0
    BY FS_EmptySet
  <2>3. limits.erasures # 0
    BY <1>1, <1>6, <2>1, <2>2 DEF Redact, Bounds
  <2> QED
    BY <2>3 DEF Tidy, Keeps
<1> QED
  BY <1>2, <1>3, <1>4, <1>5, <1>6

\* The row says the same of what is in Discord.
RowStays ==
    /\ Exists' <=> Exists
    /\ Exists => /\ SameIds(ticket', ticket)
                 /\ \/ ticket'.state = ticket.state
                    \/ {ticket'.state, ticket.state} \subseteq {"open", "claimed"}

SameThings == UNCHANGED <<channel, messages, threads, made, events>>
Restful(at) == at \in {"rest", "edit", "ack_edit"} \cup RoutingSteps

\* A row that stays keeps its state and its ids.
LEMMA StaysTold ==
  ASSUME RowStays
  PROVE  /\ Exists' <=> Exists
         /\ (Creating' <=> Creating) /\ (Active' <=> Active) /\ (Closing' <=> Closing)
         /\ Exists => ticket'.message = ticket.message /\ ticket'.thread = ticket.thread
BY DEF RowStays, SameIds, Creating, Active, Closing

\* A step that touches nothing in Discord, and neither publishes nor deletes.
LEMMA KeptCalm ==
  ASSUME Tidy, limits' = limits, SameThings, RowStays, job'["create"] = job["create"],
         limits.erasures = 0 => redacted' = redacted,
         \/ job'["locked"] = job["locked"]
         \/ /\ Restful(job'["locked"].at)
            /\ limits.deletions = 0 /\ Creating /\ Over =>
                  job["locked"].at \notin {"record", "record_thread"}
         \/ /\ job'["locked"].at = "find_message" /\ Exists
            /\ job["locked"].at = "rest"
  PROVE  Kept'
<1>1. /\ Exists' <=> Exists
      /\ (Creating' <=> Creating) /\ (Active' <=> Active) /\ (Closing' <=> Closing)
      /\ Exists => ticket'.message = ticket.message /\ ticket'.thread = ticket.thread
  BY StaysTold
<1>2. /\ channel' = channel /\ messages' = messages /\ threads' = threads
      /\ made' = made /\ events' = events
  BY DEF SameThings
<1>3. Kept /\ (Creating => Exists) /\ (Active => Exists) /\ (Closing => Exists)
  BY DEF Tidy, Creating, Active, Closing
<1>4. /\ Over' <=> Over
      /\ Making' <=> Making
      /\ Empty' <=> Empty
  BY <1>2 DEF Over, Making, At, Empty
<1>5. Restful(job'["locked"].at) =>
         ~Publishing' /\ job'["locked"].at \notin {"del_thread", "del_message", "del_row"}
  BY DEF Restful, RoutingSteps, Publishing
<1>6. Heralded'
  BY <1>2, <1>3, <1>4 DEF Kept, Heralded
<1>7. Noted'
  BY <1>2, <1>3, <1>4 DEF Kept, Noted, Within
<1>8. Listed'
  <2>1. Publishing' /\ ~Exists' => ~channel'
    BY <1>1, <1>2, <1>3, <1>5 DEF Kept, Listed, Publishing
  <2> QED
    BY <1>1, <1>2, <1>3, <1>4, <1>5, <2>1 DEF Kept, Listed, Within
<1>9. limits.deletions = 0 => Undisturbed'
  BY <1>1, <1>2, <1>3, <1>4 DEF Kept, Undisturbed
<1>10. limits.deletions = 0 /\ Creating /\ Over => Resumable'
  <2>1. Restful(job'["locked"].at) =>
           job'["locked"].at \notin {"send", "record", "find_thread", "thread",
                                     "record_thread", "activate"}
    BY DEF Restful, RoutingSteps
  <2> QED
    BY <1>1, <1>2, <1>3, <2>1 DEF Kept, Resumable
<1> QED
  BY <1>1, <1>2, <1>3, <1>4, <1>6, <1>7, <1>8, <1>9, <1>10 DEF Kept

\* A handler turns to the deletion of the ticket, when the creation is over or done with it.
LEMMA KeptFinishing ==
  ASSUME Tidy, Exists, limits' = limits, redacted' = redacted \/ limits.erasures # 0,
         NEW a \in BOOLEAN, NEW b \in BOOLEAN, NEW by, NEW d,
         BeginsFinishing(by, a, b, d),
         UNCHANGED <<channel, messages, threads, made>>, events' \subseteq events,
         Over => Within(AbsentIf(a, ticket.message), AbsentIf(b, ticket.thread)),
         limits.deletions = 0 => ~Making \/ At("create", "del_row")
  PROVE  Kept'
<1>1. /\ ticket'.state = "finishing"
      /\ ticket'.message = AbsentIf(a, ticket.message)
      /\ ticket'.thread = AbsentIf(b, ticket.thread)
      /\ job'["locked"].at = "del_thread" /\ job'["create"] = job["create"]
      /\ job'["locked"].message = ticket'.message /\ job'["locked"].thread = ticket'.thread
  <2>1. /\ ticket' = Finishing(ticket, a, b)
        /\ job' = [job EXCEPT !["locked"] =
                      [at |-> "del_thread", by |-> by, defers |-> d,
                       message |-> ticket'.message, thread |-> ticket'.thread]]
    BY DEF BeginsFinishing
  <2>2. JobOK
    BY DEF Tidy, IInv
  <2>3. /\ job'["locked"].at = "del_thread" /\ job'["create"] = job["create"]
        /\ job'["locked"].message = ticket'.message /\ job'["locked"].thread = ticket'.thread
    <3>1. ASSUME NEW m, NEW h,
                 job' = [job EXCEPT !["locked"] = [at |-> "del_thread", by |-> by,
                                      defers |-> d, message |-> m, thread |-> h]]
          PROVE  /\ job'["locked"].at = "del_thread" /\ job'["create"] = job["create"]
                 /\ job'["locked"].message = m /\ job'["locked"].thread = h
      BY <2>2, <3>1 DEF JobOK, Jobs
    <3> QED
      BY <2>1, <3>1
  <2>4. LET s == Finishing(ticket, a, b)
        IN  /\ s.state = "finishing"
            /\ s.message = AbsentIf(a, ticket.message) /\ s.thread = AbsentIf(b, ticket.thread)
    BY DEF Finishing, Emptied
  <2> QED
    BY <2>1, <2>3, <2>4
<1>2. ticket' \in Ticket
  BY NewRow, RowFacts DEF BeginsFinishing, Tidy, IInv, UsersOK
<1>3. Exists' /\ Closing' /\ ~Creating' /\ ~Active' /\ ~Publishing'
  BY <1>1, <1>2, NoTicketAssumption DEF Exists, Closing, Creating, Active, Publishing
<1>4. Kept
  BY DEF Tidy
<1>5. Heralded'
  BY <1>4 DEF Kept, Heralded, Empty
<1>6. Noted'
  BY <1>1, <1>4 DEF Kept, Noted, Within, Empty
<1>7. Listed'
  BY <1>1, <1>3 DEF Listed, Within, Over, At
<1>8. limits.deletions = 0 => Undisturbed'
  BY <1>1, <1>3 DEF Undisturbed, Making, At
<1> QED
  BY <1>3, <1>4, <1>5, <1>6, <1>7, <1>8 DEF Kept

\* Beside the creation nobody publishes, and while nobody deletes nobody is at work.
LEMMA MakingTold ==
  ASSUME Tidy, Making
  PROVE  /\ ~Publishing /\ ~Over /\ (Exists => ~Active) /\ JobOK /\ Kept
         /\ limits.deletions = 0 /\ ~At("create", "del_row") =>
               /\ Creating /\ Exists /\ events = {} /\ At("locked", "rest")
               /\ ticket \in Ticket
<1>1. ~Publishing /\ ~Over /\ (Exists => ~Active) /\ JobOK /\ Kept
  BY DEF Tidy, Making, MadeAlone, Over, Current, Active, IInv
<1>2. ASSUME limits.deletions = 0, ~At("create", "del_row")
      PROVE  Creating /\ events = {}
  BY <1>1, <1>2 DEF Kept, Undisturbed, At
<1>3. Creating => Exists /\ At("locked", "rest") /\ ticket \in Ticket
  BY RowFacts DEF Tidy, MadeAlone, Creating
<1> QED
  BY <1>1, <1>2, <1>3

\* A step of the creation leaves what the other handlers rely on.
LEMMA ListedMaking ==
  ASSUME Tidy, Making, Making', job'["locked"] = job["locked"], channel' = channel,
         ticket' = ticket \/ (Creating /\ Creating')
  PROVE  Listed'
<1>1. ~Publishing /\ ~Over' /\ Kept
  BY MakingTold DEF Making, Over, At
<1>2. ~Publishing'
  BY <1>1 DEF Publishing
<1>3. CASE ticket' = ticket
  BY <1>1, <1>2, <1>3 DEF Kept, Listed, Closing, Exists
<1>4. CASE Creating /\ Creating'
  <2>1. job["locked"].at \notin {"del_thread", "del_message", "del_row"}
    BY <1>1, <1>4 DEF Kept, Listed, Creating, Closing
  <2> QED
    BY <1>1, <1>2, <2>1 DEF Listed
<1> QED
  BY <1>3, <1>4

\* A step of the creation keeps the invariant if it notes what it did.
LEMMA KeptMaking ==
  ASSUME Tidy, Making, Making', limits' = limits, job'["locked"] = job["locked"],
         channel' = channel, ticket' = ticket \/ (Creating /\ Creating'),
         Heralded', Noted', limits.deletions = 0 => Undisturbed'
  PROVE  Kept'
<1>1. ~Over'
  BY DEF Making, Over, At
<1>2. Listed'
  BY ListedMaking
<1> QED
  BY <1>1, <1>2 DEF Kept

\* A creation that fails deletes what it has made.
LEMMA KeptCreationFails ==
  ASSUME Tidy, GivesUp("create"), SameThings, UNCHANGED <<limits, redacted>>,
         job["create"].at \in {"send", "record", "thread", "record_thread", "activate"},
         limits.deletions = 0 => job["create"].at \in {"send", "thread"}
  PROVE  Kept'
<1> DEFINE at == job["create"].at
           m == job["create"].message
           h == job["create"].thread
<1>1. Making /\ ~At("create", "del_row")
  BY DEF Making, At
<1>2. /\ job'["create"].at = "del_thread" /\ job'["create"].message = m
      /\ job'["create"].thread = h /\ job'["locked"] = job["locked"] /\ ticket' = ticket
  BY <1>1, MakingTold, JobWritten DEF GivesUp, Jobs, rows
<1>3. Making'
  BY <1>2 DEF Making, At
<1>4. Kept
  BY <1>1, MakingTold
<1>5. Heralded'
  BY <1>4 DEF Kept, Heralded, SameThings, Empty
<1>6. Noted'
  BY <1>2, <1>4, MessageAssumption
  DEF Kept, Noted, CreationSteps, SameThings, Within, Empty, Tidy, IInv, DiscordOK
<1>7. ASSUME limits.deletions = 0
      PROVE  Undisturbed'
  <2>1. Creating /\ Exists /\ events = {} /\ Creating'
    BY <1>1, <1>2, <1>7, MakingTold DEF Creating, Exists
  <2>2. ticket.message = m /\ ticket.thread = NoMessage /\ h = NoMessage /\ threads = {}
    BY <1>4, <1>7, <2>1 DEF Kept, Undisturbed, Noted
  <2> QED
    BY <1>2, <2>1, <2>2 DEF Undisturbed, SameThings, Making, At
<1> QED
  BY <1>1, <1>2, <1>3, <1>5, <1>6, <1>7, KeptMaking DEF GivesUp, SameThings

\* A creation starts with nothing in Discord.
LEMMA KeptCreate ==
  ASSUME Tidy, Create
  PROVE  Kept'
<1>1. /\ SameThings /\ limits' = limits /\ channel /\ At("create", "rest")
      /\ JobOK /\ Kept
  BY DEF Create, things, SameThings, bounds, Tidy, IInv
<1>2. /\ job'["create"].at = "send" /\ job'["create"].message = job["create"].message
      /\ job'["create"].thread = job["create"].thread /\ job'["locked"] = job["locked"]
  BY <1>1, JobWritten DEF Create, Jobs
<1>3. At("locked", "rest") /\ ~Exists
  BY <1>1 DEF Tidy, IInv, CreatedOnce
<1>4. PICK r \in Requests : ticket' = Created(r.mode, r.direct)
  BY DEF Create
<1>5. /\ ticket'.state = "creating" /\ ticket'.message = NoMessage
      /\ ticket'.thread = NoMessage /\ Exists'
  <2>1. ticket' \in Ticket
    BY <1>4, NewRow
  <2> QED
    BY <1>4, <2>1, NoTicketAssumption DEF Created, Emptied, Exists
<1>6. events = {}
  <2>1. made = {}
    BY <1>1 DEF Kept, Noted, At
  <2>2. \A e \in events : e.kind \in {"message", "thread", "channel"}
    BY DEF Tidy, IInv, DiscordOK
  <2> QED
    BY <1>1, <2>1, <2>2 DEF Kept, Heralded
<1>7. Heralded'
  BY <1>1, <1>6 DEF Kept, Heralded, SameThings, Empty, Create, bounds
<1>8. Noted'
  BY <1>1, <1>2 DEF Kept, Noted, CreationSteps, SameThings, At
<1>9. Listed'
  BY <1>2, <1>3 DEF Listed, Over, At, Publishing
<1>10. Undisturbed'
  BY <1>1, <1>2, <1>5, <1>6 DEF Undisturbed, Making, At, Creating, Active, SameThings
<1>11. ~Over'
  BY <1>2 DEF Over, At
<1> QED
  BY <1>1, <1>7, <1>8, <1>9, <1>10, <1>11 DEF Kept

\* The creation sends its message and makes its thread.
LEMMA KeptCreationSends ==
  ASSUME Tidy, SendTicket("create"), limits' = limits, redacted' = redacted
  PROVE  Kept'
<1>1. /\ job["create"].at = "send" /\ Making /\ ~At("create", "del_row")
      /\ channel /\ NewId \in Message \ made
  BY DEF SendTicket, At, Making, NewId, Tidy, IInv, DiscordOK
<1>2. /\ job'["create"].at = "record" /\ job'["create"].message = NewId
      /\ job'["create"].thread = job["create"].thread
      /\ job'["locked"] = job["locked"] /\ ticket' = ticket
  <2>1. ~limits.ambiguous
    BY DEF Tidy
  <2> QED
    BY <1>1, <2>1, MakingTold, JobWritten DEF SendTicket, Jobs, rows
<1>3. /\ Making' /\ Kept /\ channel' = channel /\ threads' = threads /\ events' = events
      /\ messages' = messages \cup {NewId} /\ made' = made \cup {NewId}
  BY <1>1, <1>2, MakingTold DEF SendTicket, Making, At
<1>4. made = {} /\ messages = {} /\ threads = {}
  BY <1>1, <1>3 DEF Kept, Noted, Tidy, IInv, DiscordOK
<1>5. Heralded'
  BY <1>1, <1>3, <1>4 DEF Kept, Heralded, Empty
<1>6. Noted'
  BY <1>1, <1>2, <1>3, <1>4, MessageAssumption DEF Kept, Noted, CreationSteps, Within
<1>7. ASSUME limits.deletions = 0
      PROVE  Undisturbed'
  <2>1. Creating /\ Creating' /\ events = {}
    BY <1>1, <1>2, <1>7, MakingTold DEF Creating, Exists
  <2>2. ticket.message = NoMessage /\ ticket.thread = NoMessage
    BY <1>1, <1>3, <1>7, <2>1 DEF Kept, Undisturbed
  <2> QED
    BY <1>2, <1>3, <2>1, <2>2 DEF Undisturbed
<1> QED
  BY <1>1, <1>2, <1>3, <1>5, <1>6, <1>7, KeptMaking

\* The creation makes the thread of its message.
LEMMA KeptCreationMakes ==
  ASSUME Tidy, CreateThread("create"), limits' = limits, redacted' = redacted
  PROVE  Kept'
<1> DEFINE m == job["create"].message
<1>1. /\ job["create"].at = "thread" /\ Making /\ ~At("create", "del_row")
      /\ m \in messages \ threads /\ m \in Message \ {NoMessage}
  BY MessageAssumption DEF CreateThread, At, Making, Tidy, IInv, DiscordOK
<1>2. /\ job'["create"].at = "record_thread" /\ job'["create"].message = m
      /\ job'["create"].thread = m
      /\ job'["locked"] = job["locked"] /\ ticket' = ticket
  <2>1. ~limits.ambiguous
    BY DEF Tidy
  <2> QED
    BY <1>1, <2>1, MakingTold, JobWritten DEF CreateThread, Jobs, rows
<1>3. /\ Making' /\ Kept /\ channel' = channel /\ events' = events
      /\ messages' = messages /\ made' = made /\ threads' = threads \cup {m}
  BY <1>1, <1>2, MakingTold DEF CreateThread, Making, At
<1>4. messages \subseteq {m} /\ threads = {} /\ \A e \in events : e.kind # "thread"
  BY <1>1, <1>3 DEF Kept, Noted, Within
<1>5. Heralded'
  BY <1>1, <1>3, <1>4 DEF Kept, Heralded, Empty
<1>6. Noted'
  BY <1>1, <1>2, <1>3, <1>4 DEF Noted, CreationSteps, Within
<1>7. ASSUME limits.deletions = 0
      PROVE  Undisturbed'
  <2>1. Creating /\ Creating' /\ events = {}
    BY <1>1, <1>2, <1>7, MakingTold DEF Creating, Exists
  <2>2. ticket.message = m /\ ticket.thread = NoMessage
    BY <1>1, <1>3, <1>7, <2>1 DEF Kept, Undisturbed
  <2> QED
    BY <1>1, <1>2, <1>3, <1>4, <2>1, <2>2 DEF Undisturbed
<1> QED
  BY <1>1, <1>2, <1>3, <1>5, <1>6, <1>7, KeptMaking

\* The row gets an id that a job has noted.
LEMMA IdNoted ==
  ASSUME JobOK, Exists, ticket \in Ticket, ticket.state = "creating", NEW j \in Jobs
  PROVE  /\ ticket' = [ticket EXCEPT !.message = job[j].message] =>
               /\ Exists' /\ Creating' /\ ticket'.message = job[j].message
               /\ ticket'.thread = ticket.thread
         /\ ticket' = [ticket EXCEPT !.thread = job[j].thread] =>
               /\ Exists' /\ Creating' /\ ticket'.thread = job[j].thread
               /\ ticket'.message = ticket.message
<1>1. /\ job[j].message \in Message \cup {NoMessage}
      /\ job[j].thread \in Message \cup {NoMessage}
  BY DEF JobOK, Job
<1>2. ASSUME NEW x \in Message \cup {NoMessage}, ticket' = [ticket EXCEPT !.message = x]
      PROVE  /\ Exists' /\ Creating' /\ ticket'.message = x
             /\ ticket'.thread = ticket.thread
  <2>1. ticket' \in Ticket
    BY <1>2, Field
  <2>2. \A y : LET s == [ticket EXCEPT !.message = y]
               IN  SameClock(s, ticket) /\ s.message = y /\ s.thread = ticket.thread
    BY ClockRow
  <2> QED
    BY <1>2, <2>1, <2>2, NoTicketAssumption DEF Creating, Exists, SameClock
<1>3. ASSUME NEW x \in Message \cup {NoMessage}, ticket' = [ticket EXCEPT !.thread = x]
      PROVE  /\ Exists' /\ Creating' /\ ticket'.thread = x
             /\ ticket'.message = ticket.message
  <2>1. ticket' \in Ticket
    BY <1>3, Field
  <2>2. \A y : LET s == [ticket EXCEPT !.thread = y]
               IN  SameClock(s, ticket) /\ s.thread = y /\ s.message = ticket.message
    BY ClockRow
  <2> QED
    BY <1>3, <2>1, <2>2, NoTicketAssumption DEF Creating, Exists, SameClock
<1> QED
  BY <1>1, <1>2, <1>3

\* It records what it has made.
LEMMA KeptCreationRecords ==
  ASSUME Tidy, RecordMessage("create") \/ RecordThread("create"),
         limits' = limits, redacted' = redacted
  PROVE  Kept'
<1> DEFINE at == job["create"].at
           m == job["create"].message
           h == job["create"].thread
<1>1. /\ at \in {"record", "record_thread"} /\ Making /\ ~At("create", "del_row")
      /\ SameThings /\ Kept /\ JobOK
  BY DEF RecordMessage, RecordThread, At, Making, things, SameThings, Tidy, IInv
<1>2. CASE GivesUp("create")
  <2>1. ASSUME limits.deletions = 0
        PROVE  FALSE
    <3>1. Creating
      BY <1>1, <2>1, MakingTold
    <3>2. /\ at = "record" => ticket.message = NoMessage
          /\ at = "record_thread" =>
                ticket.message = m /\ m # NoMessage /\ ticket.thread = NoMessage
      BY <1>1, <2>1, <3>1 DEF Kept, Undisturbed, Noted
    <3>3. job'["create"].at = "del_thread"
      BY <1>1, <1>2, JobWritten DEF GivesUp, Jobs
    <3>4. ASSUME NEW step \in {"thread", "activate"}
          PROVE  ~Go("create", step)
      <4>1. Go("create", step) => job'["create"].at = step
        BY <1>1, JobWritten DEF Jobs
      <4> QED
        BY <3>3, <4>1
    <3>5. RecordMessage("create") => at = "record" /\ ~(Creating /\ ticket.message = NoMessage)
      BY <3>4 DEF RecordMessage, At
    <3>6. RecordThread("create") =>
             /\ at = "record_thread"
             /\ ~(Creating /\ ticket.message # NoMessage /\ ticket.thread = NoMessage)
      BY <3>4 DEF RecordThread, At
    <3> QED
      BY <3>1, <3>2, <3>5, <3>6
  <2> QED
    BY <1>1, <1>2, <2>1, KeptCreationFails
<1>3. CASE /\ RecordMessage("create") /\ Creating /\ ticket.message = NoMessage
           /\ Put([ticket EXCEPT !.message = m]) /\ Go("create", "thread")
  <2>1. /\ job'["create"].at = "thread" /\ job'["create"].message = m
        /\ job'["create"].thread = h /\ job'["locked"] = job["locked"] /\ at = "record"
    BY <1>1, <1>3, JobWritten DEF Jobs, RecordMessage, At
  <2>2. Creating' /\ ticket'.message = m /\ ticket'.thread = ticket.thread
    BY <1>1, <1>3, RowFacts, IdNoted DEF Creating, Put, Tidy, Jobs
  <2>3. Making' /\ Heralded'
    BY <1>1, <2>1 DEF Making, At, Kept, Heralded, SameThings, Empty
  <2>4. Noted'
    BY <1>1, <2>1 DEF Kept, Noted, CreationSteps, SameThings, Within
  <2>5. ASSUME limits.deletions = 0
        PROVE  Undisturbed'
    <3>1. events = {} /\ ticket.thread = NoMessage
      BY <1>1, <1>3, <2>1, <2>5, MakingTold DEF Kept, Undisturbed
    <3> QED
      BY <1>1, <2>1, <2>2, <3>1 DEF Undisturbed, SameThings
  <2> QED
    BY <1>1, <1>3, <2>1, <2>2, <2>3, <2>4, <2>5, KeptMaking DEF SameThings
<1>4. CASE /\ RecordThread("create") /\ Creating /\ ticket.thread = NoMessage
           /\ Put([ticket EXCEPT !.thread = h]) /\ Go("create", "activate")
  <2>1. /\ job'["create"].at = "activate" /\ job'["create"].message = m
        /\ job'["create"].thread = h /\ job'["locked"] = job["locked"]
        /\ at = "record_thread"
    BY <1>1, <1>4, JobWritten DEF Jobs, RecordThread, At
  <2>2. Creating' /\ ticket'.thread = h /\ ticket'.message = ticket.message
    BY <1>1, <1>4, RowFacts, IdNoted DEF Creating, Put, Tidy, Jobs
  <2>3. Making' /\ Heralded'
    BY <1>1, <2>1 DEF Making, At, Kept, Heralded, SameThings, Empty
  <2>4. Noted'
    BY <1>1, <2>1 DEF Kept, Noted, CreationSteps, SameThings, Within
  <2>5. ASSUME limits.deletions = 0
        PROVE  Undisturbed'
    <3>1. events = {} /\ ticket.message = m
      BY <1>1, <1>4, <2>1, <2>5, MakingTold DEF Kept, Undisturbed
    <3> QED
      BY <1>1, <2>1, <2>2, <3>1 DEF Undisturbed, SameThings
  <2> QED
    BY <1>1, <1>4, <2>1, <2>2, <2>3, <2>4, <2>5, KeptMaking DEF SameThings
<1> QED
  BY <1>2, <1>3, <1>4 DEF RecordMessage, RecordThread

\* A row that is written for its deadlines says the same.
LEMMA StaysIf ==
  ASSUME Exists, NEW t \in Ticket, ticket' = t, SameIds(t, ticket),
         \/ t.state = ticket.state
         \/ {t.state, ticket.state} \subseteq {"open", "claimed"}
  PROVE  RowStays
BY NoTicketAssumption DEF RowStays, Exists

\* A row that is put off stays.
LEMMA PutOffStays ==
  ASSUME IInv, PutsOff
  PROVE  RowStays
<1>1. CASE Exists
  <2> DEFINE t == [ticket EXCEPT !.syncAt = "later"]
  <2>1. ticket \in Ticket /\ "later" \in Time
    BY <1>1, RowFacts DEF Time
  <2>2. t \in Ticket
    BY <2>1, Field
  <2>3. SameIds(t, ticket) /\ t.state = ticket.state
    BY <2>1, DueRow
  <2>4. ticket' = t
    BY <1>1 DEF PutsOff
  <2> QED
    BY <1>1, <2>2, <2>3, <2>4, StaysIf
<1>2. CASE ~Exists
  BY <1>2 DEF PutsOff, RowStays, Exists
<1> QED
  BY <1>1, <1>2

\* A row that is not written stays.
LEMMA SameRowStays ==
  ASSUME ticket' = ticket
  PROVE  RowStays
BY DEF RowStays, Exists, SameIds

\* An activation records both ids.
LEMMA RowOpened ==
  ASSUME IInv, Exists, NEW j \in Jobs,
         ticket' = Activated(ticket, job[j].message, job[j].thread)
  PROVE  /\ Exists' /\ Active' /\ ~Creating' /\ ~Closing'
         /\ ticket'.message = job[j].message /\ ticket'.thread = job[j].thread
<1>1. ticket \in Ticket /\ Sound(ticket, redacted) /\ redacted \in SUBSET User
  BY RowFacts DEF IInv, UsersOK
<1>2. job[j].message \in Message \cup {NoMessage} /\ job[j].thread \in Message \cup {NoMessage}
  BY DEF IInv, JobOK, Job
<1>3. \A m, h : LET s == Activated(ticket, m, h)
                IN  s.message = m /\ s.thread = h /\ s.state = "open"
  BY <1>1, ReleasedClock
<1>4. ticket' \in Ticket
  BY <1>1, <1>2, ActivatedRow
<1> QED
  BY <1>3, <1>4, NoTicketAssumption DEF Active, Exists, Creating, Closing

\* It opens the ticket.
LEMMA KeptCreationOpens ==
  ASSUME Tidy, Activate("create"), limits' = limits, redacted' = redacted
  PROVE  Kept'
<1> DEFINE m == job["create"].message
           h == job["create"].thread
<1>1. /\ job["create"].at = "activate" /\ Making /\ ~At("create", "del_row")
      /\ SameThings /\ Kept /\ JobOK
  BY DEF Activate, At, Making, things, SameThings, Tidy, IInv
<1>2. CASE ~Creating /\ GivesUp("create")
  BY <1>1, <1>2, MakingTold, KeptCreationFails
<1>3. CASE Creating /\ Put(Activated(ticket, m, h)) /\ EndsJob("create")
  <2>1. job'["create"].at = "over" /\ job'["locked"] = job["locked"]
    BY <1>1, <1>3, JobSteps DEF EndsJob
  <2>2. /\ Active' /\ ~Creating' /\ ~Closing'
        /\ ticket'.message = m /\ ticket'.thread = h
    BY <1>1, <1>3, RowFacts, RowOpened DEF Creating, Put, Tidy, Jobs
  <2>3. ~Publishing /\ job["locked"].at \notin {"del_thread", "del_message", "del_row"}
    BY <1>1, <1>3, MakingTold DEF Kept, Listed, Creating, Closing
  <2>4. Within(m, h)
    BY <1>1 DEF Kept, Noted
  <2>5. Heralded'
    BY <1>1 DEF Kept, Heralded, SameThings, Empty
  <2>6. Noted'
    BY <2>1 DEF Noted, CreationSteps
  <2>7. Listed'
    <3>1. Exists' /\ ~Publishing'
      BY <2>1, <2>2, <2>3 DEF Active, Publishing
    <3> QED
      BY <1>1, <2>1, <2>2, <2>3, <2>4, <3>1 DEF Listed, Within, SameThings
  <2>8. limits.deletions = 0 => Undisturbed'
    BY <1>1, <2>1, <2>2, MakingTold DEF Undisturbed, Making, At, SameThings
  <2> QED
    BY <2>2, <2>5, <2>6, <2>7, <2>8 DEF Kept
<1> QED
  BY <1>2, <1>3 DEF Activate

\* The creation publishes its ticket.
LEMMA KeptCreationPublishes ==
  ASSUME Tidy, Publication("create"), limits' = limits, redacted' = redacted
  PROVE  Kept'
<1>1. ASSUME PublicationFails("create")
      PROVE  Kept'
  <2>1. job["create"].at \in {"send", "thread"} /\ GivesUp("create") /\ SameThings
    BY <1>1 DEF PublicationFails, At, things, SameThings
  <2> QED
    BY <2>1, KeptCreationFails
<1> QED
  BY <1>1, KeptCreationSends, KeptCreationMakes, KeptCreationRecords, KeptCreationOpens
  DEF Publication

\* It deletes what it has made.
LEMMA KeptCreationDeletes ==
  ASSUME Tidy, DeleteThread("create") \/ DeleteMessage("create"),
         limits' = limits, redacted' = redacted
  PROVE  Kept'
<1> DEFINE at == job["create"].at
           m == job["create"].message
           h == job["create"].thread
<1>1. /\ at \in {"del_thread", "del_message"} /\ Making /\ ~At("create", "del_row")
      /\ Kept /\ JobOK /\ ticket' = ticket /\ channel' = channel /\ made' = made
      /\ messages \subseteq made /\ threads \subseteq made
  BY DEF DeleteThread, DeleteMessage, At, Making, Tidy, IInv, rows, DiscordOK
<1>2. limits.deletions = 0 =>
         /\ Creating /\ Creating' /\ events = {}
         /\ ticket.message = m /\ ticket.thread = NoMessage /\ h = NoMessage /\ threads = {}
  <2>1. ASSUME limits.deletions = 0
        PROVE  Creating /\ Creating' /\ events = {}
    BY <1>1, <2>1, MakingTold DEF Creating, Exists
  <2> QED
    BY <1>1, <2>1 DEF Kept, Undisturbed
<1>3. CASE DeleteThread("create")
  <2> DEFINE gone == threads \cap {h}
  <2>1. /\ job'["create"].at = "del_message" /\ job'["create"].message = m
        /\ job'["create"].thread = h /\ job'["locked"] = job["locked"] /\ at = "del_thread"
    BY <1>1, <1>3, JobWritten DEF DeleteThread, Jobs, At
  <2>2. /\ threads' = threads \ gone /\ messages' = messages
        /\ events' = events \cup {[kind |-> "thread", id |-> i] : i \in gone}
    BY <1>3 DEF DeleteThread, Notice
  <2>3. messages \subseteq {m} /\ threads' = {}
    BY <1>1, <2>1, <2>2 DEF Kept, Noted, Within
  <2>4. Heralded'
    BY <1>1, <2>2, <2>3 DEF Kept, Heralded, Empty
  <2>5. Noted' /\ Making'
    BY <2>1, <2>2, <2>3 DEF Noted, CreationSteps, Making, At
  <2>6. limits.deletions = 0 => Undisturbed'
    BY <1>1, <1>2, <2>1, <2>2 DEF Undisturbed
  <2> QED
    BY <1>1, <2>1, <2>4, <2>5, <2>6, KeptMaking
<1>4. CASE DeleteMessage("create")
  <2> DEFINE gone == messages \cap {m}
  <2>1. /\ job'["create"].at = "del_row" /\ job'["create"].message = m
        /\ job'["create"].thread = h /\ job'["locked"] = job["locked"] /\ at = "del_message"
    BY <1>1, <1>4, JobWritten DEF DeleteMessage, Jobs, At
  <2>2. /\ messages' = messages \ gone /\ threads' = threads
        /\ events' = events \cup {[kind |-> "message", id |-> i] : i \in gone}
    BY <1>4 DEF DeleteMessage, Notice
  <2>3. Empty'
    BY <1>1, <2>1, <2>2 DEF Kept, Noted, Empty
  <2>4. Heralded'
    BY <1>1, <2>2, <2>3 DEF Kept, Heralded, Empty
  <2>5. Noted' /\ Making'
    BY <2>1, <2>3 DEF Noted, CreationSteps, Making, At
  <2>6. limits.deletions = 0 => Undisturbed'
    BY <1>1, <1>2, <2>1, <2>2 DEF Undisturbed, Making, At
  <2> QED
    BY <1>1, <2>1, <2>4, <2>5, <2>6, KeptMaking
<1> QED
  BY <1>3, <1>4

\* It ends with what it could not delete, which a recovery finds, or without a ticket.
LEMMA KeptCreationEnds ==
  ASSUME Tidy, DeleteRow("create") \/ DeletionFails("create"),
         limits' = limits, redacted' = redacted
  PROVE  Kept'
<1> DEFINE at == job["create"].at
           m == job["create"].message
           h == job["create"].thread
<1>1. /\ at \in {"del_thread", "del_message", "del_row"} /\ Making
      /\ SameThings /\ Kept /\ JobOK /\ ~Publishing
  BY MakingTold DEF DeleteRow, DeletionFails, At, Making, Tidy, IInv, things, SameThings
<1>2. job'["create"].at = "over" /\ job'["locked"] = job["locked"] /\ Over'
  BY <1>1, JobSteps DEF DeleteRow, DeletionFails, EndsJob, Over, At
<1>3. Heralded' /\ Noted' /\ ~Publishing' /\ ~Making'
  BY <1>1, <1>2
  DEF Kept, Heralded, SameThings, Empty, Noted, CreationSteps, Publishing, Making, At
<1>4. CASE DeleteRow("create")
  <2>1. ~Exists' /\ ~Creating' /\ ~Active' /\ ~Closing'
    BY <1>4 DEF DeleteRow, Exists, Creating, Active, Closing
  <2>2. Empty'
    BY <1>1, <1>4 DEF DeleteRow, At, Kept, Noted, Empty, SameThings
  <2>3. Listed' /\ Undisturbed'
    BY <1>2, <1>3, <2>1, <2>2 DEF Listed, Undisturbed
  <2> QED
    BY <1>3, <2>1, <2>3 DEF Kept
<1>5. CASE DeletionFails("create")
  <2>1. RowStays
    BY <1>5, PutOffStays DEF DeletionFails, Tidy
  <2>2. /\ Exists' <=> Exists
        /\ (Creating' <=> Creating) /\ (Active' <=> Active) /\ (Closing' <=> Closing)
        /\ Exists => ticket'.message = ticket.message /\ ticket'.thread = ticket.thread
    BY <2>1, StaysTold
  <2>3. \/ at = "del_thread" /\ h # NoMessage /\ Fault
        \/ at = "del_message" /\ m # NoMessage /\ (Fault \/ ~channel)
    BY <1>5 DEF DeletionFails, At
  <2>4. limits.faults = 0 => ~Fault
    BY TicketAssumption DEF Fault, Tidy, IInv, BoundOK, Bounds
  <2>5. CASE limits.deletions = 0
    <3>1. /\ Creating /\ Exists /\ events = {} /\ At("locked", "rest")
          /\ ticket.message = m /\ ticket.thread = NoMessage /\ h = NoMessage /\ threads = {}
      <4>1. Creating /\ Exists /\ events = {} /\ At("locked", "rest")
        BY <1>1, <2>3, <2>5, MakingTold DEF At
      <4> QED
        BY <1>1, <2>3, <2>5, <4>1 DEF Kept, Undisturbed
    <3>2. at = "del_message" /\ m # NoMessage /\ messages \subseteq {m}
      BY <1>1, <2>3, <3>1 DEF Kept, Noted
    <3>3. job'["locked"].at = "rest" /\ Creating' /\ Exists' /\ ~Active' /\ ~Closing'
      BY <1>2, <2>2, <3>1 DEF At, Creating, Active, Closing
    <3>4. Listed'
      BY <1>3, <3>3 DEF Listed
    <3>5. Undisturbed'
      BY <1>1, <1>2, <1>3, <3>1 DEF Undisturbed, SameThings
    <3>6. Resumable'
      BY <1>1, <2>2, <3>1, <3>2, <3>3 DEF Resumable, SameThings
    <3>7. limits.faults = 0 => ~channel'
      BY <1>1, <2>3, <2>4, <3>2 DEF SameThings
    <3> QED
      BY <1>3, <2>5, <3>4, <3>5, <3>6, <3>7 DEF Kept
  <2>6. CASE limits.deletions # 0
    <3>1. ~channel /\ Empty
      BY <1>1, <2>3, <2>4, <2>6, Bounded DEF Kept, Heralded
    <3>2. Listed'
      BY <1>1, <1>2, <1>3, <2>2, <3>1 DEF Kept, Listed, Empty, Within, SameThings
    <3> QED
      BY <1>1, <1>3, <2>6, <3>1, <3>2 DEF Kept, SameThings
  <2> QED
    BY <2>5, <2>6
<1> QED
  BY <1>4, <1>5

\* The creation publishes its ticket or deletes what it made.
LEMMA KeptCreation ==
  ASSUME Tidy, Publication("create") \/ Deletion("create"),
         limits' = limits, redacted' = redacted
  PROVE  Kept'
BY KeptCreationPublishes, KeptCreationDeletes, KeptCreationEnds DEF Deletion

\* A recovery works on a creation that is over, and can be completed while nobody deletes.
LEMMA PublishingTold ==
  ASSUME Tidy, Publishing
  PROVE  /\ Over /\ ~Making /\ ~Active /\ ~Closing /\ JobOK /\ Kept
         /\ Exists => Creating /\ ticket \in Ticket /\ Sound(ticket, redacted)
         /\ ~Exists \/ limits.deletions # 0 => ~channel /\ Empty
         /\ Exists /\ limits.deletions = 0 => Resumable /\ events = {}
<1>1. Over /\ JobOK /\ Kept /\ (Exists => Creating)
  BY DEF Tidy, MadeAlone, Over, IInv, Current
<1>2. ~Making /\ ~Active /\ ~Closing
  BY <1>1 DEF Over, Making, At, Active, Closing, Creating
<1>3. Exists => ticket \in Ticket /\ Sound(ticket, redacted)
  BY RowFacts DEF Tidy
<1>4. ~Exists \/ limits.deletions # 0 => ~channel
  BY <1>1, Bounded DEF Kept, Listed
<1>5. ~channel => Empty
  BY <1>1 DEF Kept, Heralded
<1>6. Exists /\ limits.deletions = 0 => Resumable /\ events = {}
  BY <1>1 DEF Kept, Undisturbed, Over, At
<1> QED
  BY <1>1, <1>2, <1>3, <1>4, <1>5, <1>6

\* The recovery goes on.
LEMMA KeptResuming ==
  ASSUME Tidy, Publishing, Publishing', UNCHANGED <<limits, redacted, channel, events>>,
         job'["create"] = job["create"], Exists,
         ticket' = ticket \/ (Exists' /\ Creating'),
         Heralded', limits.deletions = 0 => Resumable'
  PROVE  Kept'
<1>1. Over /\ Over' /\ ~Making'
  BY PublishingTold DEF Over, Making, At
<1>2. Exists' /\ Creating' /\ ~Active' /\ ~Closing'
  BY PublishingTold DEF Exists, Creating, Active, Closing
<1>3. Noted'
  BY <1>1 DEF Noted, CreationSteps, Over, At
<1>4. Listed'
  BY <1>2 DEF Listed, Publishing
<1>5. limits.deletions = 0 => Undisturbed'
  BY <1>1, <1>2, PublishingTold DEF Undisturbed, Over, At
<1>6. limits.faults = 0 /\ limits.crashes = 0 => ~channel'
  BY <1>1, PublishingTold DEF Kept
<1> QED
  BY <1>1, <1>3, <1>4, <1>5, <1>6 DEF Kept

\* It gives up.
LEMMA KeptRecoveryFails ==
  ASSUME Tidy, Publishing, GivesUp("locked"), SameThings, UNCHANGED <<limits, redacted>>,
         limits.deletions = 0 /\ Creating => job["locked"].at \notin {"record", "record_thread"}
  PROVE  Kept'
<1>1. RowStays
  BY PutOffStays DEF GivesUp, Tidy
<1>2. job'["locked"].at = "rest" /\ job'["create"] = job["create"]
  BY JobSteps, PublishingTold DEF GivesUp
<1> QED
  BY <1>1, <1>2, KeptCalm DEF Restful

\* A recovery finds the message that the creation sent, or sends it again.
LEMMA KeptFinds ==
  ASSUME Tidy, FindMessage, UNCHANGED <<limits, redacted>>
  PROVE  Kept'
<1>1. /\ job["locked"].at = "find_message" /\ Publishing /\ Exists /\ ticket' = ticket
      /\ UNCHANGED <<channel, messages, threads, made, events>>
  BY DEF FindMessage, At, Publishing, things, rows
<1>2. Heralded'
  BY <1>1, PublishingTold DEF Kept, Heralded, Empty
<1>3. CASE /\ ticket.message # NoMessage
           /\ job' = [job EXCEPT !["locked"].at = "find_thread",
                                 !["locked"].message = ticket.message]
  <2>1. /\ job'["locked"].at = "find_thread" /\ job'["locked"].message = ticket.message
        /\ job'["create"] = job["create"]
    <3>1. JobOK
      BY <1>1, PublishingTold
    <3> QED
      BY <1>3, <3>1 DEF JobOK, Job, Jobs
  <2>2. limits.deletions = 0 => Resumable'
    BY <1>1, <1>3, <2>1, PublishingTold DEF Resumable
  <2> QED
    BY <1>1, <1>2, <2>1, <2>2, KeptResuming DEF Publishing
<1>4. CASE /\ ticket.message = NoMessage
           /\ \E m \in messages :
                job' = [job EXCEPT !["locked"].at = "record", !["locked"].message = m]
  <2>1. PICK m \in messages :
             job' = [job EXCEPT !["locked"].at = "record", !["locked"].message = m]
    BY <1>4
  <2>2. /\ job'["locked"].at = "record" /\ job'["locked"].message = m
        /\ job'["create"] = job["create"]
    BY <2>1, JobWritten, <1>1, PublishingTold DEF Jobs
  <2>3. messages \subseteq {m} /\ m # NoMessage
    BY MessageAssumption DEF Tidy, OneMessage, IInv, DiscordOK
  <2>4. limits.deletions = 0 => Resumable'
    BY <1>1, <1>4, <2>2, <2>3, PublishingTold DEF Resumable
  <2> QED
    BY <1>1, <1>2, <2>2, <2>4, KeptResuming DEF Publishing
<1>5. CASE ticket.message = NoMessage /\ messages = {} /\ Go("locked", "send")
  <2>1. job'["locked"].at = "send" /\ job'["create"] = job["create"]
    BY <1>1, <1>5, JobWritten, PublishingTold DEF Jobs
  <2>2. limits.deletions = 0 => Resumable'
    BY <1>1, <1>5, <2>1, PublishingTold DEF Resumable
  <2> QED
    BY <1>1, <1>2, <2>1, <2>2, KeptResuming DEF Publishing
<1> QED
  BY <1>3, <1>4, <1>5 DEF FindMessage

\* A recovery sends the message when there is none.
LEMMA KeptSends ==
  ASSUME Tidy, SendTicket("locked"), UNCHANGED <<limits, redacted>>
  PROVE  Kept'
<1>1. /\ job["locked"].at = "send" /\ Publishing /\ channel /\ messages = {}
      /\ NewId \in Message \ made /\ NewId # NoMessage
  BY MessageAssumption DEF SendTicket, At, Publishing, NewId, Tidy, IInv, DiscordOK, OneMessage
<1>2. /\ job' = [job EXCEPT !["locked"].at = "record", !["locked"].message = NewId]
      /\ ticket' = ticket /\ messages' = messages \cup {NewId} /\ made' = made \cup {NewId}
      /\ UNCHANGED <<channel, threads, events>>
  BY DEF SendTicket, rows, Tidy
<1>3. /\ job'["locked"].at = "record" /\ job'["locked"].message = NewId
      /\ job'["create"] = job["create"]
  BY <1>1, <1>2, JobWritten, PublishingTold DEF Jobs
<1>4. Exists /\ limits.deletions = 0
  BY <1>1, PublishingTold
<1>5. Heralded'
  BY <1>1, <1>2, <1>4, PublishingTold DEF Kept, Heralded
<1>6. Resumable'
  BY <1>1, <1>2, <1>3, <1>4, PublishingTold DEF Resumable
<1> QED
  BY <1>1, <1>2, <1>3, <1>4, <1>5, <1>6, KeptResuming DEF Publishing

\* A recovery records what it found or made.
LEMMA KeptRecords ==
  ASSUME Tidy, RecordMessage("locked") \/ RecordThread("locked"),
         UNCHANGED <<limits, redacted>>
  PROVE  Kept'
<1> DEFINE at == job["locked"].at
           m == job["locked"].message
           h == job["locked"].thread
<1>1. /\ at \in {"record", "record_thread"} /\ Publishing /\ SameThings
      /\ UNCHANGED <<channel, messages, threads, made, events>>
      /\ RecordMessage("locked") => at = "record"
      /\ RecordThread("locked") => at = "record_thread"
  BY DEF RecordMessage, RecordThread, At, Publishing, things, SameThings
<1>2. limits.deletions = 0 /\ Creating =>
         /\ at = "record" => ticket.message = NoMessage
         /\ at = "record_thread" => ticket.message # NoMessage /\ ticket.thread = NoMessage
  BY <1>1, PublishingTold DEF Resumable, Creating
<1>3. CASE /\ GivesUp("locked")
           /\ \/ at = "record" /\ ~(Creating /\ ticket.message = NoMessage)
              \/ /\ at = "record_thread"
                 /\ ~(Creating /\ ticket.message # NoMessage /\ ticket.thread = NoMessage)
  BY <1>1, <1>2, <1>3, KeptRecoveryFails
<1>4. Heralded'
  BY <1>1, PublishingTold DEF Kept, Heralded, Empty
<1>5. CASE /\ at = "record" /\ Creating /\ ticket.message = NoMessage
           /\ Put([ticket EXCEPT !.message = m]) /\ Go("locked", "find_thread")
  <2>1. /\ job'["locked"].at = "find_thread" /\ job'["locked"].message = m
        /\ job'["create"] = job["create"]
    BY <1>1, <1>5, JobWritten, PublishingTold DEF Jobs
  <2>2. /\ Exists' /\ Creating' /\ ticket'.message = m /\ ticket'.thread = ticket.thread
    BY <1>1, <1>5, PublishingTold, IdNoted DEF Creating, Jobs, Put
  <2>3. limits.deletions = 0 => Resumable'
    BY <1>1, <1>5, <2>1, <2>2, PublishingTold DEF Resumable, Creating
  <2> QED
    BY <1>1, <1>4, <1>5, <2>1, <2>2, <2>3, KeptResuming DEF Publishing, Creating
<1>6. CASE /\ at = "record_thread" /\ Creating
           /\ ticket.message # NoMessage /\ ticket.thread = NoMessage
           /\ Put([ticket EXCEPT !.thread = h]) /\ Go("locked", "activate")
  <2>1. /\ job'["locked"].at = "activate" /\ job'["locked"].message = m
        /\ job'["locked"].thread = h /\ job'["create"] = job["create"]
    BY <1>1, <1>6, JobWritten, PublishingTold DEF Jobs
  <2>2. /\ Exists' /\ Creating' /\ ticket'.thread = h /\ ticket'.message = ticket.message
    BY <1>1, <1>6, PublishingTold, IdNoted DEF Creating, Jobs, Put
  <2>3. limits.deletions = 0 => Resumable'
    BY <1>1, <1>6, <2>1, <2>2, PublishingTold DEF Resumable, Creating
  <2> QED
    BY <1>1, <1>4, <1>6, <2>1, <2>2, <2>3, KeptResuming DEF Publishing, Creating
<1> QED
  BY <1>1, <1>3, <1>5, <1>6 DEF RecordMessage, RecordThread

\* A recovery finds the thread of its message.
LEMMA KeptFindsThread ==
  ASSUME Tidy, FindThread, UNCHANGED <<limits, redacted>>
  PROVE  Kept'
<1> DEFINE m == job["locked"].message
           h == IF ticket.thread # NoMessage THEN ticket.thread
                ELSE IF m \in threads THEN m ELSE NoMessage
           step == IF ticket.thread # NoMessage THEN "activate"
                   ELSE IF m \in threads THEN "record_thread" ELSE "thread"
<1>1. /\ job["locked"].at = "find_thread" /\ Publishing /\ SameThings
      /\ UNCHANGED <<channel, messages, threads, made, events>>
  BY DEF FindThread, At, Publishing, things, SameThings
<1>2. CASE GivesUp("locked")
  BY <1>1, <1>2, KeptRecoveryFails
<1>3. CASE /\ Creating /\ ticket' = ticket
           /\ job' = [job EXCEPT !["locked"].at = step, !["locked"].thread = h]
  <2>1. step \in {"activate", "record_thread", "thread"}
    OBVIOUS
  <2>2. /\ job'["locked"].at = step /\ job'["locked"].message = m
        /\ job'["locked"].thread = h /\ job'["create"] = job["create"]
    <3> HIDE DEF step, h
    <3> QED
      BY <1>1, <1>3, JobWritten, PublishingTold DEF Jobs
  <2>3. Heralded'
    BY <1>1, PublishingTold DEF Kept, Heralded, Empty
  <2>4. ASSUME limits.deletions = 0
        PROVE  Resumable'
    <3>1. Resumable /\ m # NoMessage /\ ticket.message = m
      BY <1>1, <1>3, <2>4, PublishingTold DEF Resumable, Creating
    <3>2. CASE ticket.thread # NoMessage
      <4>1. step = "activate" /\ h = ticket.thread
        BY <3>2
      <4> HIDE DEF step, h
      <4> QED
        BY <1>1, <1>3, <2>2, <3>1, <3>2, <4>1 DEF Resumable
    <3>3. CASE ticket.thread = NoMessage /\ m \in threads
      <4>1. step = "record_thread" /\ h = m
        BY <3>3
      <4> HIDE DEF step, h
      <4> QED
        BY <1>1, <1>3, <2>2, <3>1, <3>3, <4>1 DEF Resumable
    <3>4. CASE ticket.thread = NoMessage /\ m \notin threads
      <4>1. step = "thread"
        BY <3>4
      <4> HIDE DEF step, h
      <4> QED
        BY <1>1, <1>3, <2>2, <3>1, <3>4, <4>1 DEF Resumable
    <3> QED
      BY <3>2, <3>3, <3>4
  <2>5. Publishing'
    BY <2>1, <2>2 DEF Publishing
  <2> HIDE DEF step, h
  <2> QED
    BY <1>1, <1>3, <2>2, <2>3, <2>4, <2>5, KeptResuming DEF Creating
<1>4. CASE /\ Creating /\ ticket.thread = NoMessage /\ m \notin messages
           /\ BeginsFinishing(job["locked"].by, TRUE, FALSE, TRUE)
  <2>1. Exists /\ ~Making
    BY <1>1, <1>4, PublishingTold DEF Creating
  <2>2. Empty
    <3>1. limits.deletions = 0 => messages = {} /\ threads = {}
      BY <1>1, <1>4, <2>1, PublishingTold DEF Resumable
    <3> QED
      BY <1>1, <3>1, PublishingTold DEF Empty
  <2>3. Within(AbsentIf(TRUE, ticket.message), AbsentIf(FALSE, ticket.thread))
    BY <2>2 DEF Within, Empty
  <2> QED
    BY <1>1, <1>4, <2>1, <2>3, KeptFinishing
<1> QED
  BY <1>2, <1>3, <1>4 DEF FindThread, rows

\* A recovery makes the thread when there is none.
LEMMA KeptMakes ==
  ASSUME Tidy, CreateThread("locked"), UNCHANGED <<limits, redacted>>
  PROVE  Kept'
<1> DEFINE m == job["locked"].message
<1>1. /\ job["locked"].at = "thread" /\ Publishing /\ m \in messages \ threads
      /\ job' = [job EXCEPT !["locked"].at = "record_thread", !["locked"].thread = m]
      /\ ticket' = ticket /\ threads' = threads \cup {m}
      /\ UNCHANGED <<channel, messages, made, events>>
  BY DEF CreateThread, At, Publishing, rows, Tidy
<1>2. /\ job'["locked"].at = "record_thread" /\ job'["locked"].message = m
      /\ job'["locked"].thread = m /\ job'["create"] = job["create"]
  BY <1>1, JobWritten, PublishingTold DEF Jobs
<1>3. Exists /\ limits.deletions = 0 /\ channel
  BY <1>1, PublishingTold DEF Empty, Kept, Heralded
<1>4. Heralded'
  BY <1>1, <1>3, PublishingTold DEF Kept, Heralded
<1>5. Resumable'
  BY <1>1, <1>2, <1>3, PublishingTold DEF Resumable
<1> QED
  BY <1>1, <1>2, <1>3, <1>4, <1>5, KeptResuming DEF Publishing

\* It opens the ticket.
LEMMA KeptOpens ==
  ASSUME Tidy, Activate("locked"), UNCHANGED <<limits, redacted>>
  PROVE  Kept'
<1> DEFINE m == job["locked"].message
           h == job["locked"].thread
<1>1. /\ job["locked"].at = "activate" /\ Publishing /\ SameThings
      /\ UNCHANGED <<channel, messages, threads, made, events>>
  BY DEF Activate, At, Publishing, things, SameThings
<1>2. CASE GivesUp("locked")
  BY <1>1, <1>2, KeptRecoveryFails
<1>3. CASE Creating /\ Put(Activated(ticket, m, h)) /\ EndsJob("locked")
  <2>1. job'["locked"].at = "rest" /\ job'["create"] = job["create"]
    BY <1>1, <1>3, JobSteps, PublishingTold DEF EndsJob
  <2>2. /\ Exists' /\ Active' /\ ~Creating' /\ ~Closing'
        /\ ticket'.message = m /\ ticket'.thread = h
    BY <1>1, <1>3, PublishingTold, RowOpened DEF Creating, Put, Tidy, Jobs
  <2>3. Over' /\ ~Making' /\ ~Publishing'
    BY <1>1, <2>1, PublishingTold DEF Over, Making, Publishing, At
  <2>4. Within(m, h)
    BY <1>1, <1>3, PublishingTold DEF Resumable, Within, Empty, Creating
  <2>5. Heralded'
    BY <1>1, PublishingTold DEF Kept, Heralded, Empty
  <2>6. Noted' /\ Listed'
    BY <1>1, <2>1, <2>2, <2>3, <2>4 DEF Noted, CreationSteps, Listed, Within, Over, At
  <2>7. limits.deletions = 0 => Undisturbed'
    BY <1>1, <1>3, <2>2, <2>3, PublishingTold DEF Undisturbed, Creating
  <2> QED
    BY <2>2, <2>5, <2>6, <2>7 DEF Kept
<1> QED
  BY <1>2, <1>3 DEF Activate

\* A recovery completes the creation that was broken off.
LEMMA KeptPublication ==
  ASSUME Tidy, Recovery \/ Publication("locked"), UNCHANGED <<limits, redacted>>
  PROVE  Kept'
<1>1. ASSUME PublicationFails("locked")
      PROVE  Kept'
  <2>1. /\ job["locked"].at \in {"find_message", "find_thread", "send", "thread"}
        /\ GivesUp("locked") /\ SameThings
    BY <1>1 DEF PublicationFails, At, things, SameThings
  <2> QED
    BY <2>1, KeptRecoveryFails DEF Publishing
<1> QED
  BY <1>1, KeptFinds, KeptFindsThread, KeptSends, KeptRecords, KeptMakes, KeptOpens
  DEF Recovery, Publication

\* Who deletes, deletes a ticket that is on its way out.
LEMMA DeletingTold ==
  ASSUME Tidy, job["locked"].at \in {"del_thread", "del_message", "del_row"}
  PROVE  /\ Kept /\ JobOK /\ ~Creating /\ ~Active
         /\ limits.deletions = 0 => ~Making \/ At("create", "del_row")
<1>1. Kept /\ JobOK
  BY DEF Tidy, IInv
<1>2. ~Creating /\ ~Active
  BY <1>1 DEF Kept, Listed, Creating, Active, Closing
<1> QED
  BY <1>1, <1>2 DEF Kept, Undisturbed, At

\* The deletion goes on, or ends.
LEMMA KeptDeleting ==
  ASSUME Tidy, job["locked"].at \in {"del_thread", "del_message", "del_row"},
         UNCHANGED <<limits, redacted>>, job'["create"] = job["create"],
         ticket' = ticket \/ ~Exists', Heralded', Noted', Listed'
  PROVE  Kept'
<1>1. ~Creating' /\ ~Active'
  BY DeletingTold DEF Creating, Active, Exists
<1>2. limits.deletions = 0 => Undisturbed'
  BY <1>1, DeletingTold DEF Undisturbed, Making, At
<1> QED
  BY <1>1, <1>2 DEF Kept

\* A deletion starts with the thread of its row.
LEMMA KeptDeletesThread ==
  ASSUME Tidy, DeleteThread("locked"), UNCHANGED <<limits, redacted>>
  PROVE  Kept'
<1> DEFINE m == job["locked"].message
           h == job["locked"].thread
           gone == threads \cap {h}
<1>1. /\ job["locked"].at = "del_thread" /\ ticket' = ticket
      /\ threads' = threads \ gone
      /\ events' = events \cup {[kind |-> "thread", id |-> i] : i \in gone}
      /\ UNCHANGED <<channel, messages, made>> /\ threads \subseteq made
  BY DEF DeleteThread, At, Notice, rows, Tidy, IInv, DiscordOK
<1>2. /\ job'["locked"].at = "del_message" /\ job'["locked"].message = m
      /\ job'["locked"].thread = h /\ job'["create"] = job["create"]
  BY <1>1, DeletingTold, JobWritten DEF DeleteThread, Jobs
<1>3. Heralded'
  BY <1>1, DeletingTold DEF Kept, Heralded, Empty
<1>4. Noted'
  <2>1. Noted /\ (threads = {} => gone = {} /\ events' = events)
    BY <1>1, DeletingTold DEF Kept
  <2> HIDE DEF gone
  <2> QED
    BY <1>1, <1>2, <2>1 DEF Noted, Within, Empty
<1>5. Listed'
  <2>1. (Over' <=> Over) /\ (Exists' <=> Exists) /\ (Active' <=> Active) /\ (Closing' <=> Closing)
    BY <1>1, <1>2 DEF Over, At, Exists, Active, Closing
  <2>2. ~Publishing'
    BY <1>2 DEF Publishing
  <2>3. Over /\ Exists => threads' = {}
    BY <1>1, DeletingTold DEF Kept, Listed, Within
  <2>4. Listed
    BY <1>1, DeletingTold DEF Kept
  <2> QED
    BY <1>1, <1>2, <2>1, <2>2, <2>3, <2>4 DEF Listed, Within, Empty
<1> QED
  BY <1>1, <1>2, <1>3, <1>4, <1>5, KeptDeleting

\* Then it deletes the message of its row.
LEMMA KeptDeletesMessage ==
  ASSUME Tidy, DeleteMessage("locked"), UNCHANGED <<limits, redacted>>
  PROVE  Kept'
<1> DEFINE m == job["locked"].message
           gone == messages \cap {m}
<1>1. /\ job["locked"].at = "del_message" /\ ticket' = ticket
      /\ messages' = messages \ gone
      /\ events' = events \cup {[kind |-> "message", id |-> i] : i \in gone}
      /\ UNCHANGED <<channel, threads, made>> /\ messages \subseteq made
  BY DEF DeleteMessage, At, Notice, rows, Tidy, IInv, DiscordOK
<1>2. job'["locked"].at = "del_row" /\ job'["create"] = job["create"]
  BY <1>1, DeletingTold, JobWritten DEF DeleteMessage, Jobs
<1>3. Heralded'
  BY <1>1, DeletingTold DEF Kept, Heralded, Empty
<1>4. Noted'
  <2>1. Noted /\ \A e \in events' : e \in events \/ e.kind = "message"
    BY <1>1, DeletingTold DEF Kept
  <2> QED
    BY <1>1, <1>2, <2>1 DEF Noted, Within, Empty
<1>5. Listed'
  <2>1. (Over' <=> Over) /\ (Exists' <=> Exists) /\ (Active' <=> Active) /\ (Closing' <=> Closing)
    BY <1>1, <1>2 DEF Over, At, Exists, Active, Closing
  <2>2. ~Publishing'
    BY <1>2 DEF Publishing
  <2>3. Over => Empty'
    <3>1. Over /\ Exists => Closing /\ m = ticket.message /\ threads = {}
      BY <1>1, DeletingTold DEF Kept, Listed
    <3> QED
      BY <1>1, <3>1, DeletingTold DEF Kept, Listed, Within, Empty
  <2>4. Listed
    BY <1>1, DeletingTold DEF Kept
  <2> QED
    BY <1>1, <1>2, <2>1, <2>2, <2>3, <2>4 DEF Listed, Within
<1> QED
  BY <1>1, <1>2, <1>3, <1>4, <1>5, KeptDeleting

\* The row goes last, when nothing is left.
LEMMA KeptDeletesRow ==
  ASSUME Tidy, DeleteRow("locked"), UNCHANGED <<limits, redacted>>
  PROVE  Kept'
<1>1. /\ job["locked"].at = "del_row" /\ ~Exists'
      /\ UNCHANGED <<channel, messages, threads, made, events>>
  BY DEF DeleteRow, At, Exists, things
<1>2. job'["locked"].at = "rest" /\ job'["create"] = job["create"]
  BY <1>1, DeletingTold, JobSteps DEF DeleteRow, EndsJob
<1>3. Heralded' /\ Noted'
  BY <1>1, <1>2, DeletingTold DEF Kept, Heralded, Noted, Within, Empty
<1>4. Listed'
  <2>1. Over' => Empty'
    BY <1>1, <1>2, DeletingTold DEF Kept, Listed, Over, At, Empty
  <2> QED
    BY <1>1, <1>2, <2>1 DEF Listed, Publishing, Active, Closing
<1> QED
  BY <1>1, <1>2, <1>3, <1>4, KeptDeleting

\* A deletion leaves nothing behind, or is put off with its row.
LEMMA KeptDeletion ==
  ASSUME Tidy, Deletion("locked"), UNCHANGED <<limits, redacted>>
  PROVE  Kept'
<1>1. ASSUME DeletionFails("locked")
      PROVE  Kept'
  <2>1. /\ job["locked"].at \in {"del_thread", "del_message"} /\ SameThings
    BY <1>1 DEF DeletionFails, At, things, SameThings
  <2>2. RowStays
    BY <1>1, PutOffStays, SameRowStays DEF DeletionFails, rows, Tidy
  <2>3. job'["locked"].at = "rest" /\ job'["create"] = job["create"]
    BY <1>1, <2>1, DeletingTold, JobSteps DEF DeletionFails, EndsJob
  <2> QED
    BY <2>1, <2>2, <2>3, KeptCalm DEF Restful
<1> QED
  BY <1>1, KeptDeletesThread, KeptDeletesMessage, KeptDeletesRow DEF Deletion

\* What routing and the scheduler write says the same of what is in Discord.
LEMMA DueStays ==
  ASSUME IInv, Exists, ticket.state = "open"
  PROVE  /\ Put(Deferred(ticket)) \/ Put(Exhausted(ticket)) \/ Put(Cancelled(ticket)) => RowStays
         /\ \A u \in User, a \in BOOLEAN : Put(Reserved(ticket, u, a)) => RowStays
         /\ ticket.pending # NoPing /\ ticket' = Acknowledged(ticket) => RowStays
         /\ ticket.target # NoUser /\ Put(TimedOut(ticket)) => RowStays
<1>1. /\ ticket \in Ticket /\ Sound(ticket, redacted) /\ redacted \in SUBSET User
  BY RowFacts DEF IInv, UsersOK
<1>2. ASSUME NEW t \in {Deferred(ticket), Exhausted(ticket), Cancelled(ticket)}, Put(t)
      PROVE  RowStays
  <2>1. t \in Ticket /\ t.state = ticket.state
    BY <1>1, TouchedRow
  <2>2. SameIds(Cancelled(ticket), ticket)
    BY <1>1, ClockRow
  <2>3. SameIds(Deferred(ticket), ticket) /\ SameIds(Exhausted(ticket), ticket)
    BY <1>1, DueRow
  <2> QED
    BY <1>2, <2>1, <2>2, <2>3, StaysIf DEF Put
<1>3. ASSUME NEW u \in User, NEW a \in BOOLEAN, Put(Reserved(ticket, u, a))
      PROVE  RowStays
  <2> DEFINE t == Reserved(ticket, u, a)
  <2>1. t \in Ticket
    BY <1>1, Field DEF Reserved, Ping
  <2>2. SameIds(t, ticket) /\ SameClock(t, ticket)
    BY <1>1, ClockRow
  <2>3. ticket' = t
    BY <1>3 DEF Put
  <2> HIDE DEF t
  <2> QED
    BY <2>1, <2>2, <2>3, StaysIf DEF SameClock
<1>4. ASSUME ticket.pending # NoPing, ticket' = Acknowledged(ticket)
      PROVE  RowStays
  <2>1. Acknowledged(ticket) \in Ticket
    BY <1>1, <1>4, PingedRow
  <2>2. SameIds(Acknowledged(ticket), ticket) /\ Acknowledged(ticket).state = ticket.state
    BY <1>1, DueRow DEF Owing
  <2> QED
    BY <1>4, <2>1, <2>2, StaysIf
<1>5. ASSUME ticket.target # NoUser, Put(TimedOut(ticket))
      PROVE  RowStays
  <2>1. ticket.target \in User
    BY <1>1, <1>5 DEF Ticket
  <2>2. TimedOut(ticket) \in Ticket
    BY <1>1, <1>5, <2>1, PressedRow
  <2>3. SameIds(TimedOut(ticket), ticket) /\ TimedOut(ticket).state = ticket.state
    BY <1>1, <2>1, PressedClock DEF Owing
  <2> QED
    BY <1>5, <2>2, <2>3, StaysIf DEF Put
<1> QED
  BY <1>2, <1>3, <1>4, <1>5

\* The handler that has the lock comes to its end, or goes on without publishing.
LEMMA KeptLocked ==
  ASSUME Tidy, SameThings, UNCHANGED <<limits, redacted>>, RowStays,
         job["locked"].at \in RoutingSteps \cup {"edit", "ack_edit"},
         \/ \E raised \in BOOLEAN : Ends(raised)
         \/ \E step \in RoutingSteps \cup {"edit", "ack_edit"} : Go("locked", step)
  PROVE  Kept'
<1>1. job["locked"].at \notin {"record", "record_thread"}
  BY DEF RoutingSteps
<1>2. ASSUME NEW raised \in BOOLEAN, Ends(raised)
      PROVE  job'["locked"].at = "rest" /\ job'["create"] = job["create"]
  BY <1>2, JobSteps DEF Tidy, IInv
<1>3. ASSUME NEW step \in RoutingSteps \cup {"edit", "ack_edit"}, Go("locked", step)
      PROVE  job'["locked"].at = step /\ job'["create"] = job["create"]
  BY <1>3, JobWritten DEF Tidy, IInv, Jobs
<1> QED
  BY <1>1, <1>2, <1>3, KeptCalm DEF Restful

\* A ticket that is open or claimed is finished, by who knows what of it is gone.
LEMMA KeptFinished ==
  ASSUME Tidy, Active, limits' = limits, redacted' = redacted \/ limits.erasures # 0,
         UNCHANGED <<channel, messages, threads, made>>, events' \subseteq events,
         NEW by, NEW a \in BOOLEAN, NEW b \in BOOLEAN, NEW d,
         BeginsFinishing(by, a, b, d),
         a => ticket.message \notin messages, b => ticket.thread \notin threads
  PROVE  Kept'
<1>1. Exists /\ ~Making /\ Over
  BY RowFacts DEF Tidy, Current, Making, Over, Active
<1>2. Within(ticket.message, ticket.thread)
  BY <1>1 DEF Tidy, Kept, Listed
<1>3. Within(AbsentIf(a, ticket.message), AbsentIf(b, ticket.thread))
  BY <1>2 DEF Within, AbsentIf
<1> QED
  BY <1>1, <1>3, KeptFinishing

\* An edit leaves what is in Discord, or finds it deleted.
LEMMA KeptEdit ==
  ASSUME Tidy, Edit, UNCHANGED <<limits, redacted>>
  PROVE  Kept'
<1>1. /\ job["locked"].at \in {"edit", "ack_edit"} /\ SameThings /\ IInv
      /\ UNCHANGED <<channel, messages, threads, made, events>>
  BY DEF Edit, EditTicket, EditFails, AcknowledgeEdit, At, things, SameThings, Tidy
<1>2. Exists => Active
  BY <1>1 DEF Tidy, Current, Editing, At
<1>3. CASE EditTicket
  <2>1. CASE /\ BeginsFinishing(job["locked"].by, TRUE, FALSE, FALSE) /\ Exists
             /\ ticket.message \notin messages
    BY <1>1, <1>2, <2>1, KeptFinished
  <2>2. CASE UNCHANGED rows /\ (Go("locked", "ack_edit") \/ Ends(FALSE))
    BY <1>1, <2>2, SameRowStays, KeptLocked DEF rows
  <2> QED
    BY <1>3, <2>1, <2>2 DEF EditTicket
<1>4. CASE EditFails
  BY <1>1, <1>4, PutOffStays, KeptLocked DEF EditFails
<1>5. CASE AcknowledgeEdit
  <2>1. CASE Exists
    <3> DEFINE t == [ticket EXCEPT !.syncAt = "none"]
    <3>1. ticket \in Ticket /\ "none" \in Time
      BY <1>1, <2>1, RowFacts DEF Time
    <3>2. t \in Ticket
      BY <3>1, Field
    <3>3. SameIds(t, ticket) /\ t.state = ticket.state
      BY <3>1, DueRow
    <3>4. ticket' = t
      BY <1>5, <2>1 DEF AcknowledgeEdit
    <3>5. RowStays
      BY <2>1, <3>2, <3>3, <3>4, StaysIf
    <3> QED
      BY <1>1, <1>5, <3>5, KeptLocked DEF AcknowledgeEdit
  <2>2. CASE ~Exists
    BY <1>1, <1>5, <2>2, SameRowStays, KeptLocked DEF AcknowledgeEdit
  <2> QED
    BY <2>1, <2>2
<1> QED
  BY <1>3, <1>4, <1>5 DEF Edit

\* Routing leaves what is in Discord.
LEMMA KeptRouting ==
  ASSUME Tidy, ReviewInv, Routing, UNCHANGED <<limits, redacted>>
  PROVE  Kept'
<1>1. /\ job["locked"].at \in RoutingSteps /\ SameThings /\ IInv
      /\ UNCHANGED <<channel, messages, threads, made, events>>
  BY DEF Routing, Route, Settle, Check, GatewayUnavailable, PingReviewer, AcknowledgePing,
         SettlementFails, At, RoutingSteps, things, SameThings, Tidy
<1>2. /\ Exists => Open /\ Active
      /\ Exists /\ ~At("locked", "route") => ticket.pending # NoPing
  BY <1>1, RoutingFacts DEF Open, Active
<1>3. ASSUME RowStays,
             \/ \E raised \in BOOLEAN : Ends(raised)
             \/ \E step \in RoutingSteps : Go("locked", step)
      PROVE  Kept'
  BY <1>1, <1>3, KeptLocked
<1>4. {"route", "settle", "check", "ping", "ack_ping"} \subseteq RoutingSteps
  BY DEF RoutingSteps
<1>5. UNCHANGED rows \/ ticket' = ticket => RowStays
  BY SameRowStays DEF rows
<1>6. ASSUME NEW b \in BOOLEAN, BeginsFinishing(job["locked"].by, FALSE, TRUE, b), Exists,
             ticket.thread \notin threads
      PROVE  Kept'
  BY <1>1, <1>2, <1>6, KeptFinished
<1>7. CASE Route
  <2>1. ASSUME NEW u \in Targets, Exists, Put(Reserved(ticket, u, ticket.next = "automatic_ping"))
        PROVE  RowStays
    BY <1>1, <1>2, <2>1, TargetsSound, DueStays DEF Open
  <2>2. RowStays
    BY <1>1, <1>2, <1>5, <1>7, <2>1, DueStays DEF Route, Open
  <2> QED
    BY <1>3, <1>4, <1>7, <2>2 DEF Route
<1>8. CASE Settle
  <2>1. CASE /\ BeginsFinishing(job["locked"].by, FALSE, TRUE, TRUE) /\ Exists
             /\ ticket.thread \notin threads
    BY <1>6, <2>1
  <2>2. CASE /\ ticket' = ticket
             /\ \/ Ends(FALSE)
                \/ \E step \in RoutingSteps : Go("locked", step)
    BY <1>3, <1>5, <2>2
  <2> QED
    BY <1>4, <1>8, <2>1, <2>2 DEF Settle, rows
<1>9. CASE Check
  <2>1. RowStays
    BY <1>1, <1>2, <1>5, <1>9, DueStays DEF Check, Open
  <2> QED
    BY <1>3, <1>4, <1>9, <2>1 DEF Check
<1>10. CASE GatewayUnavailable
  BY <1>1, <1>2, <1>3, <1>10, DueStays DEF GatewayUnavailable, Open
<1>11. CASE PingReviewer
  <2>1. CASE Exists /\ PingLater
    BY <1>1, <1>2, <1>3, <2>1, DueStays DEF PingLater, Open
  <2>2. CASE ticket' = ticket /\ (Go("locked", "ack_ping") \/ Ends(FALSE))
    BY <1>3, <1>4, <1>5, <2>2
  <2> QED
    BY <1>6, <1>11, <2>1, <2>2 DEF PingReviewer, rows
<1>12. CASE AcknowledgePing
  <2>1. CASE ~Exists
    BY <1>3, <1>5, <1>12, <2>1 DEF AcknowledgePing
  <2>2. CASE Exists /\ ticket' = Acknowledged(ticket) /\ Go("locked", "edit")
    <3>1. RowStays
      BY <1>1, <1>2, <1>12, <2>2, DueStays DEF Open, AcknowledgePing, At
    <3> QED
      BY <1>1, <2>2, <3>1, KeptLocked
  <2> QED
    BY <1>12, <2>1, <2>2 DEF AcknowledgePing
<1>13. CASE SettlementFails
  BY <1>3, <1>5, <1>13 DEF SettlementFails
<1> QED
  BY <1>7, <1>8, <1>9, <1>10, <1>11, <1>12, <1>13 DEF Routing

\* A handler begins, but not to delete.
LEMMA KeptTaken ==
  ASSUME Tidy, At("locked", "rest"), SameThings, limits' = limits,
         limits.erasures = 0 => redacted' = redacted, RowStays,
         \/ job' = job
         \/ \E by \in By : \/ Takes("edit", by) \/ Takes("route", by)
                           \/ Takes("find_message", by) /\ Exists
  PROVE  Kept'
<1>1. job["locked"].at = "rest"
  BY DEF At
<1>2. ASSUME NEW by \in By, NEW step \in {"edit", "route", "find_message"}, Takes(step, by)
      PROVE  job'["locked"].at = step /\ job'["create"] = job["create"]
  BY <1>2, JobSteps DEF Tidy, IInv, Steps
<1> QED
  BY <1>1, <1>2, KeptCalm DEF Restful, RoutingSteps

\* A button leaves what is in Discord, or begins its deletion.
LEMMA KeptButton ==
  ASSUME Tidy, Button, UNCHANGED <<limits, redacted>>
  PROVE  Kept'
<1>1. /\ At("locked", "rest") /\ Active /\ Exists /\ SameThings /\ IInv /\ "user" \in By
      /\ UNCHANGED <<channel, messages, threads, made, events>>
  BY DEF Button, Unassign, MarkFinished, Claim, Decline, Open, Active, Free, things,
         SameThings, Tidy, By
<1>2. ticket \in Ticket /\ Sound(ticket, redacted) /\ redacted \in SUBSET User
  BY <1>1, RowFacts DEF IInv, UsersOK
<1>3. ticket.state \in {"open", "claimed"}
  BY <1>1 DEF Active
<1>4. ASSUME NEW t \in Ticket, Put(t), SameIds(t, ticket), t.state \in {"open", "claimed"},
             job' = job \/ Takes("edit", "user")
      PROVE  Kept'
  <2>1. RowStays
    BY <1>1, <1>3, <1>4, StaysIf DEF Put
  <2> QED
    BY <1>1, <1>4, <2>1, KeptTaken
<1>5. ASSUME NEW u \in User, Claim(u)
      PROVE  Kept'
  <2> DEFINE t == Claimed(ticket, u)
  <2>1. t \in Ticket /\ SameIds(t, ticket) /\ t.state = "claimed"
    BY <1>2, PressedRow, ReleasedClock DEF Owing
  <2>2. Put(t) /\ Takes("edit", "user")
    BY <1>5 DEF Claim
  <2> HIDE DEF t
  <2> QED
    BY <1>4, <2>1, <2>2
<1>6. ASSUME NEW u \in User, Decline(u)
      PROVE  Kept'
  <2> DEFINE t == Declined(ticket, u)
  <2>1. ticket.state = "open"
    BY <1>6 DEF Decline, Open
  <2>2. t \in Ticket
    BY <1>2, <2>1, PressedRow
  <2>3. SameIds(t, ticket) /\ t.state = "open"
    BY <1>2, <2>1, PressedClock DEF Owing
  <2>4. Put(t) /\ (job' = job \/ Takes("edit", "user"))
    BY <1>6 DEF Decline
  <2> HIDE DEF t
  <2> QED
    BY <1>4, <2>2, <2>3, <2>4
<1>7. CASE Unassign
  <2> DEFINE t == Unassigned(ticket)
  <2>1. ticket.state = "claimed" /\ ticket.assignee \in User
    BY <1>2, <1>7 DEF Unassign, Sound, Ticket
  <2>2. t \in Ticket
    BY <1>2, <2>1, PressedRow
  <2>3. SameIds(t, ticket) /\ t.state = "open"
    BY <1>2, <2>1, PressedClock DEF Owing
  <2>4. Put(t) /\ Takes("edit", "user")
    BY <1>7 DEF Unassign
  <2> HIDE DEF t
  <2> QED
    BY <1>4, <2>2, <2>3, <2>4
<1>8. CASE MarkFinished
  BY <1>1, <1>8, KeptFinished DEF MarkFinished
<1> QED
  BY <1>5, <1>6, <1>7, <1>8 DEF Button

\* The deletion that was put off is taken up.
LEMMA KeptDeletesRest ==
  ASSUME Tidy, NEW by, Closing, DeletesRest(by), SameThings, UNCHANGED <<limits, redacted>>
  PROVE  Kept'
<1>1. /\ job'["locked"].at = "del_thread" /\ job'["locked"].message = ticket.message
      /\ job'["locked"].thread = ticket.thread /\ job'["create"] = job["create"]
  BY JobWritten DEF DeletesRest, Tidy, IInv
<1>2. /\ ticket' = ticket /\ Kept /\ Exists' /\ Closing' /\ ~Creating' /\ ~Active'
      /\ UNCHANGED <<channel, messages, threads, made, events>>
      /\ ~Creating /\ ~Active
  BY DEF DeletesRest, Tidy, Closing, Exists, Creating, Active, SameThings
<1>3. Heralded' /\ Noted'
  BY <1>1, <1>2 DEF Kept, Heralded, Noted, Within, Empty
<1>4. Listed'
  BY <1>1, <1>2 DEF Kept, Listed, Over, At, Within, Empty, Publishing
<1>5. limits.deletions = 0 => Undisturbed'
  BY <1>1, <1>2 DEF Kept, Undisturbed, Making, At
<1> QED
  BY <1>2, <1>3, <1>4, <1>5 DEF Kept

\* A handler that starts works on what the row lists.
LEMMA KeptDue ==
  ASSUME Tidy, NEW by \in By, ProcessDue(by) \/ Recovers(by), At("locked", "rest"),
         SameThings, UNCHANGED <<limits, redacted>>
  PROVE  Kept'
<1>1. IInv
  BY DEF Tidy
<1>2. UNCHANGED rows => RowStays
  BY SameRowStays DEF rows
<1>3. CASE Recovers(by)
  BY <1>2, <1>3, KeptTaken, KeptDeletesRest DEF Recovers, Creating
<1>4. CASE Takes("edit", by) /\ UNCHANGED rows
  BY <1>2, <1>4, KeptTaken
<1>5. CASE Returns(by) /\ UNCHANGED rows
  BY <1>2, <1>5, KeptTaken DEF Returns
<1>6. CASE /\ RoutingDue /\ Returns(by)
           /\ Put(Exhausted(ticket)) \/ Put(Deferred(ticket))
  BY <1>1, <1>6, DueStays, KeptTaken DEF Returns, RoutingDue, Open
<1>7. CASE RoutingDue /\ ticket.target # NoUser /\ Put(TimedOut(ticket)) /\ Takes("edit", by)
  BY <1>1, <1>7, DueStays, KeptTaken DEF RoutingDue, Open
<1>8. CASE Takes("route", by) /\ UNCHANGED rows
  BY <1>2, <1>8, KeptTaken
<1> QED
  BY <1>3, <1>4, <1>5, <1>6, <1>7, <1>8 DEF ProcessDue

\* A step that writes neither the row nor Discord.
LEMMA KeptUntouched ==
  ASSUME Tidy, UNCHANGED <<ticket, job>>, SameThings, UNCHANGED <<limits, redacted>>
  PROVE  Kept'
BY SameRowStays, KeptCalm

\* The scheduler and the restoration start what the row asks for.
LEMMA KeptServing ==
  ASSUME Tidy, Scheduler \/ Restoration, UNCHANGED <<limits, redacted>>
  PROVE  Kept'
<1>1. SameThings
  BY DEF Scheduler, Clear, ReadDeadline, Wake, Timer, Query, Serve, SchedulerFails,
         Restoration, Load, List, RestoreCleanup, ListDue, RestoreDue, things, SameThings
<1>2. CASE Serve \/ RestoreDue
  BY <1>1, <1>2, KeptDue DEF Serve, RestoreDue, Free, By
<1>3. CASE RestoreCleanup
  <2>1. CASE Recovers("restore")
    BY <1>1, <1>3, <2>1, KeptDue DEF RestoreCleanup, Free, By
  <2>2. CASE Returns("restore") /\ UNCHANGED ticket
    BY <1>1, <2>2, KeptUntouched DEF Returns
  <2> QED
    BY <1>3, <2>1, <2>2 DEF RestoreCleanup
<1>4. CASE UNCHANGED <<ticket, job>>
  BY <1>1, <1>4, KeptUntouched
<1> QED
  BY <1>2, <1>3, <1>4
  DEF Scheduler, Clear, ReadDeadline, Wake, Timer, Query, SchedulerFails,
      Restoration, Load, List, ListDue, rows

\* Time, a profile, an update after an erasure, or nothing.
LEMMA KeptOtherwise ==
  ASSUME Tidy, UNCHANGED <<limits, redacted>>,
         Tick \/ Resync \/ (\E u \in User : ToggleProfile(u)) \/ UNCHANGED vars
  PROVE  Kept'
<1>1. SameThings
  BY DEF Tick, NextDue, SyncDue, ProtectionEnds, Ages, Resync, ToggleProfile, vars, things,
         SameThings
<1>2. CASE Tick
  <2>1. RowStays /\ job' = job
    BY <1>2, TickClock DEF RowStays, running, Tidy
  <2> QED
    BY <1>1, <2>1, KeptCalm
<1>3. CASE Resync
  BY <1>1, <1>3, SameRowStays, KeptTaken DEF Resync, Free, rows, By
<1>4. CASE UNCHANGED <<ticket, job>>
  BY <1>1, <1>4, KeptUntouched
<1> QED
  BY <1>2, <1>3, <1>4 DEF ToggleProfile, vars, rows, running

\* An erasure deletes the ticket of its author, and stays away from a creation.
LEMMA KeptRedact ==
  ASSUME Tidy, NEW u \in User, Redact(u), limits' = limits
  PROVE  Kept'
<1>1. /\ At("locked", "rest") /\ Over /\ ~Making /\ SameThings /\ IInv /\ Kept
      /\ UNCHANGED <<channel, messages, threads, made, events>>
      /\ limits.crashes = 0 /\ limits.erasures # 0
  BY Bounded DEF Redact, Free, Over, Making, At, things, SameThings, Tidy
<1>2. CASE u # Author /\ Exists /\ Put(Redacted(ticket, u)) /\ job' = job
  <2> DEFINE t == Redacted(ticket, u)
  <2>1. /\ ticket \in Ticket /\ Sound(ticket, redacted) /\ redacted \in SUBSET User
    BY <1>1, <1>2, RowFacts DEF IInv, UsersOK
  <2>2. t \in Ticket
    BY <1>2, <2>1, RedactedRow
  <2>3. /\ SameIds(t, ticket)
        /\ \/ t.state = ticket.state
           \/ {t.state, ticket.state} \subseteq {"open", "claimed"}
    BY <2>1, RedactedClock DEF SameClock, Owing
  <2>4. ticket' = t
    BY <1>2 DEF Put
  <2> HIDE DEF t
  <2>5. RowStays
    BY <1>2, <2>2, <2>3, <2>4, StaysIf
  <2> QED
    BY <1>1, <1>2, <2>5, KeptCalm
<1>3. CASE (Creating \/ Active) /\ BeginsFinishing("user", FALSE, FALSE, TRUE)
  <2>1. CASE Active
    BY <1>1, <1>3, <2>1, KeptFinished
  <2>2. CASE Creating
    <3>1. limits.deletions # 0 => Empty
      BY <1>1, <2>2, Bounded DEF Kept, Heralded
    <3>2. limits.deletions = 0 =>
             /\ messages = {} \/ messages \subseteq {ticket.message}
             /\ threads = {} \/ threads \subseteq {ticket.thread}
      BY <1>1, <2>2 DEF Kept, Resumable, At
    <3>3. Within(AbsentIf(FALSE, ticket.message), AbsentIf(FALSE, ticket.thread))
      BY <3>1, <3>2 DEF Empty, Within, AbsentIf
    <3> QED
      BY <1>1, <1>3, <2>2, <3>3, KeptFinishing DEF Creating
  <2> QED
    BY <1>3, <2>1, <2>2
<1>4. CASE UNCHANGED <<rows, job>>
  BY <1>1, <1>4, SameRowStays, KeptCalm DEF rows
<1> QED
  BY <1>2, <1>3, <1>4 DEF Redact

\* An event that is handled is not told again.
LEMMA KeptHeard ==
  ASSUME Tidy, UNCHANGED <<ticket, job, channel, messages, threads, made, limits, redacted>>,
         events' \subseteq events
  PROVE  Kept'
<1>1. /\ Kept /\ (Exists' <=> Exists) /\ (Creating' <=> Creating) /\ (Active' <=> Active)
      /\ (Closing' <=> Closing) /\ (Over' <=> Over) /\ (Making' <=> Making)
      /\ (Publishing' <=> Publishing)
  BY DEF Tidy, Exists, Creating, Active, Closing, Over, Making, Publishing, At
<1>2. Heralded' /\ Noted' /\ Listed'
  BY <1>1 DEF Kept, Heralded, Noted, Listed, Within, Empty
<1>3. limits.deletions = 0 => Undisturbed' /\ (Creating /\ Over => Resumable')
  BY <1>1 DEF Kept, Undisturbed, Resumable
<1> QED
  BY <1>1, <1>2, <1>3 DEF Kept

\* An event of a deletion deletes the rest of its ticket.
LEMMA KeptDeleted ==
  ASSUME Tidy, NEW e \in events, HandleDeleted(e), UNCHANGED <<limits, redacted>>
  PROVE  Kept'
<1>1. /\ events' \subseteq events /\ Kept /\ e.kind \in {"message", "thread"}
      /\ UNCHANGED <<channel, messages, threads, made>>
  BY DEF HandleDeleted, Tidy, IInv, DiscordOK
<1>2. CASE OfTicket(e) /\ BeginsFinishing("event", e.kind = "message", e.kind = "thread", TRUE)
  <2>1. /\ Exists
        /\ e.kind = "message" => ticket.message \notin messages
        /\ e.kind = "thread" => ticket.thread \notin threads
    BY <1>1, <1>2 DEF OfTicket, Kept, Heralded
  <2>2. Over => Within(ticket.message, ticket.thread) \/ Empty
    <3>1. CASE Creating
      BY <1>1, <3>1, Bounded DEF Kept, Undisturbed, Over, At, Heralded
    <3>2. CASE Active \/ Closing
      BY <1>1, <3>2 DEF Kept, Listed
    <3> QED
      BY <2>1, <3>1, <3>2, RowFacts DEF Tidy, Creating, Active, Closing, Ticket
  <2>3. Over => Within(AbsentIf(e.kind = "message", ticket.message),
                       AbsentIf(e.kind = "thread", ticket.thread))
    BY <2>1, <2>2 DEF Within, Empty, AbsentIf
  <2>4. limits.deletions = 0 => ~Making \/ At("create", "del_row")
    BY <1>1 DEF Kept, Undisturbed, At
  <2> QED
    BY <1>1, <1>2, <2>1, <2>3, <2>4, KeptFinishing
<1>3. CASE UNCHANGED <<rows, job>>
  BY <1>1, <1>3, KeptHeard DEF rows
<1> QED
  BY <1>2, <1>3 DEF HandleDeleted

\* An event of the channel deletes the rows; nothing is left there.
LEMMA KeptChannelDeleted ==
  ASSUME Tidy, NEW e \in events, HandleChannelDeleted(e), UNCHANGED <<limits, redacted>>
  PROVE  Kept'
<1>1. /\ events' \subseteq events /\ Kept /\ ~Exists' /\ job' = job /\ ~channel /\ Empty
      /\ UNCHANGED <<channel, messages, threads, made>>
  BY DEF HandleChannelDeleted, Tidy, running, Exists, Kept, Heralded
<1>2. Heralded' /\ Noted'
  BY <1>1 DEF Kept, Heralded, Noted, Within, Empty
<1>3. ~Creating' /\ ~Active' /\ ~Closing'
  BY <1>1 DEF Creating, Active, Closing
<1>4. Listed'
  BY <1>1, <1>3 DEF Listed, Empty
<1>5. limits.deletions = 0 => Undisturbed'
  BY <1>1, <1>3 DEF Kept, Undisturbed, Making, At
<1> QED
  BY <1>2, <1>3, <1>4, <1>5 DEF Kept

\* A moderator deletes, and an event tells of it.
LEMMA KeptModerated ==
  ASSUME Tidy, ModeratorDeletes, limits' = limits
  PROVE  Kept'
<1>1. /\ Kept /\ limits.deletions # 0 /\ UNCHANGED <<ticket, job, made, redacted>>
      /\ messages \subseteq made /\ threads \subseteq made
  BY Bounded DEF ModeratorDeletes, Tidy, rows, running, IInv, DiscordOK
<1>2. /\ (Exists' <=> Exists) /\ (Creating' <=> Creating) /\ (Active' <=> Active)
      /\ (Closing' <=> Closing) /\ (Over' <=> Over) /\ (Publishing' <=> Publishing)
  BY <1>1 DEF Exists, Creating, Active, Closing, Over, Publishing, At
<1>3. /\ messages' \subseteq messages /\ threads' \subseteq threads
      /\ (channel' => channel) /\ (~channel' => Empty')
      /\ \A e \in events' \ events :
            /\ e.kind = "channel" => ~channel'
            /\ e.kind = "message" => e.id \in made \ messages'
            /\ e.kind = "thread" => e.id \in threads /\ e.id \notin threads'
  <2>1. CASE \E m \in messages :
                /\ messages' = messages \ {m}
                /\ events' = IF Up THEN Notice("message", {m}) ELSE events
                /\ UNCHANGED <<channel, threads>>
    BY <1>1, <2>1 DEF Notice, Kept, Heralded, Empty
  <2>2. CASE \E m \in threads :
                /\ threads' = threads \ {m}
                /\ events' = IF Up THEN Notice("thread", {m}) ELSE events
                /\ UNCHANGED <<channel, messages>>
    BY <1>1, <2>2 DEF Notice, Kept, Heralded, Empty
  <2>3. CASE /\ channel' = FALSE /\ messages' = {} /\ threads' = {}
             /\ events' = IF Up THEN Notice("channel", {NoMessage}) ELSE events
    BY <1>1, <2>3 DEF Notice, Empty
  <2> QED
    BY <2>1, <2>2, <2>3 DEF ModeratorDeletes
<1>4. Heralded'
  <2>1. Heralded
    BY <1>1 DEF Kept
  <2> QED
    BY <1>1, <1>3, <2>1 DEF Heralded
<1>5. Noted'
  <2>1. Noted
    BY <1>1 DEF Kept
  <2> QED
    BY <1>1, <1>3, <2>1 DEF Noted, Within, Empty
<1>6. Listed'
  <2>1. Listed
    BY <1>1 DEF Kept
  <2> QED
    BY <1>1, <1>2, <1>3, <2>1 DEF Listed, Within, Empty
<1>7. Creating' /\ Over' => ~channel'
  BY <1>1, <1>2, <1>3, Bounded DEF Kept
<1> QED
  BY <1>1, <1>4, <1>5, <1>6, <1>7 DEF Kept

\* The process ends: what the creation has done by then can be completed.
LEMMA KeptCrash ==
  ASSUME Tidy, Crash, limits' = limits
  PROVE  Kept'
<1> DEFINE at == job["create"].at
           m == job["create"].message
           h == job["create"].thread
<1>1. /\ Kept /\ limits.deletions = 0 /\ limits.crashes # 0
      /\ UNCHANGED <<ticket, channel, messages, threads, made, redacted>> /\ events' = {}
      /\ messages \subseteq made /\ threads \subseteq made /\ NoMessage \notin made
  BY Bounded, MessageAssumption DEF Crash, Tidy, IInv, DiscordOK
<1>2. /\ job'["locked"].at = "rest"
      /\ job'["create"].at \in {"rest", "over"}
      /\ job'["create"].at = "rest" => job'["create"] = Rest /\ at = "rest"
  BY DEF Crash, Tidy, IInv, JobOK, Jobs, Rest
<1>3. /\ (Exists' <=> Exists) /\ (Creating' <=> Creating) /\ (Active' <=> Active)
      /\ (Closing' <=> Closing) /\ ~Making' /\ ~Publishing'
  BY <1>1, <1>2 DEF Exists, Creating, Active, Closing, Making, Publishing, At
<1>4. Heralded'
  BY <1>1 DEF Kept, Heralded, Empty
<1>5. Noted'
  BY <1>1, <1>2 DEF Kept, Noted, CreationSteps, Rest
<1>6. at = "rest" => Empty /\ ~Creating
  BY <1>1 DEF Kept, Noted, Empty, Tidy, IInv, CreatedOnce, At, Creating
<1>7. Making => Creating \/ Empty
  BY <1>1 DEF Kept, Noted, Undisturbed
<1>8. Listed'
  <2>1. ~Exists => Empty
    BY <1>1, <1>6, <1>7 DEF Kept, Listed, Making, Over, At, Creating
  <2>2. Active \/ Closing => Within(ticket.message, ticket.thread)
    BY <1>1, <1>6, <1>7
    DEF Kept, Listed, Making, Over, At, Creating, Active, Closing, Within, Empty
  <2> QED
    BY <1>1, <1>2, <1>3, <2>1, <2>2 DEF Listed, Within, Empty
<1>9. Undisturbed'
  BY <1>1, <1>2, <1>3 DEF Undisturbed
<1>10. ASSUME Creating
       PROVE  Resumable'
  <2>1. /\ ticket.message = NoMessage => ticket.thread = NoMessage
        /\ ticket.message # NoMessage => messages \subseteq {ticket.message}
        /\ ticket.thread # NoMessage => threads \subseteq {ticket.thread}
        /\ ticket.thread = NoMessage => threads \subseteq messages
    <3>1. CASE Over
      BY <1>1, <1>10, <3>1 DEF Kept, Resumable
    <3>2. CASE at \in {"send", "record"}
      BY <1>1, <1>10, <3>2 DEF Kept, Noted, Undisturbed
    <3>3. CASE at \in {"thread", "record_thread", "activate"}
      BY <1>1, <1>10, <3>3 DEF Kept, Noted, Undisturbed, Within
    <3>4. CASE at \in {"del_thread", "del_message", "del_row"}
      BY <1>1, <1>10, <3>4 DEF Kept, Noted, Undisturbed, Within, Empty
    <3>5. at \in {"over", "send", "record", "thread", "record_thread", "activate",
                  "del_thread", "del_message", "del_row"}
      BY <1>1, <1>6, <1>10 DEF Kept, Noted, CreationSteps
    <3> QED
      BY <3>1, <3>2, <3>3, <3>4, <3>5 DEF Over, At
  <2> QED
    BY <1>1, <1>2, <2>1 DEF Resumable
<1> QED
  BY <1>1, <1>3, <1>4, <1>5, <1>8, <1>9, <1>10 DEF Kept

\* Only an erasure adds to the users whose data is erased.
LEMMA RedactedKept ==
  ASSUME [Next]_vars, \A u \in User : ~Redact(u)
  PROVE  redacted' = redacted
<1>1. CASE Handler
  <2>1. CASE Recovery \/ Edit \/ Routing
    BY <2>1 DEF Recovery, Edit, Routing, FindMessage, FindThread, EditTicket, EditFails,
                AcknowledgeEdit, Route, Settle, Check, GatewayUnavailable, PingReviewer,
                AcknowledgePing, SettlementFails, Fault, bounds
  <2>2. ASSUME NEW j \in Jobs, Publication(j) \/ Deletion(j)
        PROVE  redacted' = redacted
    BY <2>2 DEF Publication, SendTicket, RecordMessage, CreateThread, RecordThread,
                Activate, PublicationFails, Deletion, DeleteThread, DeleteMessage,
                DeleteRow, DeletionFails, Fault, bounds
  <2> QED
    BY <1>1, <2>1, <2>2 DEF Handler
<1>2. CASE Button \/ Scheduler \/ Restoration
  BY <1>2 DEF Button, Claim, Decline, Unassign, MarkFinished, Scheduler, Clear,
              ReadDeadline, Wake, Timer, Query, Serve, SchedulerFails, Restoration,
              Load, List, RestoreCleanup, ListDue, RestoreDue, Fault, bounds
<1>3. CASE \/ Create \/ Tick \/ Event \/ Resync \/ ModeratorDeletes \/ Crash
           \/ \E u \in User : ToggleProfile(u)
  BY <1>3 DEF Create, Tick, NextDue, SyncDue, ProtectionEnds, Ages, Event,
              HandleDeleted, HandleChannelDeleted, Resync, ModeratorDeletes, Crash,
              ToggleProfile, bounds
<1>4. CASE UNCHANGED vars
  BY <1>4 DEF vars, bounds
<1> QED
  BY <1>1, <1>2, <1>3, <1>4 DEF Next

\* Every step keeps it.
LEMMA KeptStep ==
  ASSUME Tidy, ReviewInv, [Next]_vars
  PROVE  Kept'
<1>1. limits' = limits
  BY LimitsKept
<1>2. CASE \E u \in User : Redact(u)
  BY <1>1, <1>2, KeptRedact
<1>3. CASE \A u \in User : ~Redact(u)
  <2>1. UNCHANGED <<limits, redacted>>
    BY <1>1, <1>3, RedactedKept
  <2>2. CASE Handler
    <3>1. CASE Recovery \/ Edit \/ Routing
      BY <2>1, <3>1, KeptPublication, KeptEdit, KeptRouting
    <3>2. CASE \E j \in Jobs : Publication(j) \/ Deletion(j)
      <4>1. CASE Publication("create") \/ Deletion("create")
        BY <2>1, <4>1, KeptCreation
      <4>2. CASE Publication("locked")
        BY <2>1, <4>2, KeptPublication
      <4>3. CASE Deletion("locked")
        BY <2>1, <4>3, KeptDeletion
      <4> QED
        BY <3>2, <4>1, <4>2, <4>3 DEF Jobs
    <3> QED
      BY <2>2, <3>1, <3>2 DEF Handler
  <2>3. CASE Button \/ Scheduler \/ Restoration
    BY <2>1, <2>3, KeptButton, KeptServing
  <2>4. CASE Create \/ Event \/ ModeratorDeletes \/ Crash
    BY <2>1, <2>4, KeptCreate, KeptDeleted, KeptChannelDeleted, KeptModerated, KeptCrash
    DEF Event
  <2>5. CASE Tick \/ Resync \/ (\E u \in User : ToggleProfile(u)) \/ UNCHANGED vars
    BY <2>1, <2>5, KeptOtherwise
  <2> QED
    BY <1>3, <2>2, <2>3, <2>4, <2>5 DEF Next
<1> QED
  BY <1>2, <1>3

\* What a ticket has in Discord is listed by its row or by its creation, in every state.
LEMMA KeptInductive ==
  Spec => []KeptInv
<1>1. Init => KeptInv
  <2> SUFFICES ASSUME Init
               PROVE  Kept
    BY DEF KeptInv
  <2>1. /\ ~Exists /\ ~Creating /\ ~Active /\ ~Closing /\ channel /\ events = {}
        /\ messages = {} /\ threads = {} /\ made = {} /\ redacted = {}
        /\ job["create"] = Rest /\ job["locked"] = Rest
    BY DEF Init, Exists, Creating, Active, Closing, Jobs
  <2>2. Heralded
    BY <2>1 DEF Heralded
  <2>3. Noted
    BY <2>1 DEF Noted, CreationSteps, Rest
  <2>4. Listed
    BY <2>1 DEF Listed, Rest, Over, At, Publishing
  <2>5. Undisturbed
    BY <2>1 DEF Undisturbed, Rest, Making, At
  <2> QED
    BY <2>1, <2>2, <2>3, <2>4, <2>5 DEF Kept
<1>2. IInv /\ ReviewInv /\ PublishedInv /\ ShownInv /\ KeptInv /\ [Next]_vars => KeptInv'
  <2> SUFFICES ASSUME IInv, ReviewInv, PublishedInv, ShownInv, KeptInv, [Next]_vars,
                      Keeps(limits), ~limits.ambiguous
               PROVE  Kept'
    BY LimitsKept DEF KeptInv
  <2>1. Tidy
    BY DEF Tidy, Keeps, PublishedInv, ShownInv, KeptInv
  <2> QED
    BY <2>1, KeptStep
<1> QED
  BY <1>1, <1>2, Inductive, ReviewInductive, PublishedInductive, ShownInductive, PTL DEF Spec

\* What a ticket owes is not forgotten: its deadline is waited for whatever happens, its
\* message is current unless a creation runs beside the restoration, and what it has in
\* Discord goes with it where two kinds of misfortune do not meet (DeadlineScheduler,
\* sync_projection, _recover_creation, recover_projection_cleanup).
THEOREM NothingLost ==
  Spec => [](/\ NoLostWakeup
             /\ ~limits.overlap => InSync
             /\ Keeps(limits) => NothingForgotten)
<1>1. IInv /\ WakeInv => NoLostWakeup
  BY DEF WakeInv, Awake, NoLostWakeup, Editing, At, Idle, Jobs
<1>2. ShownInv => (~limits.overlap => InSync)
  BY DEF ShownInv, Current, InSync
<1>3. IInv /\ PublishedInv /\ KeptInv /\ Keeps(limits) => NothingLeftBehind
  <2> SUFFICES ASSUME IInv, KeptInv, Keeps(limits), ~limits.ambiguous, ~Exists, Idle
               PROVE  Empty
    BY DEF NothingLeftBehind, Empty
  <2>1. Kept /\ job["create"].at \in {"rest", "over"}
    BY DEF KeptInv, Idle, Jobs
  <2>2. CASE At("create", "rest")
    BY <2>1, <2>2 DEF Kept, Noted, At, Empty, IInv, DiscordOK
  <2>3. CASE At("create", "over")
    BY <2>1, <2>3 DEF Kept, Listed, Over
  <2> QED
    BY <2>1, <2>2, <2>3 DEF At
<1>4. Keeps(limits) => ~limits.overlap
  BY DEF Keeps
<1>5. IInv /\ WakeInv /\ ShownInv /\ PublishedInv /\ KeptInv
      => /\ NoLostWakeup
         /\ ~limits.overlap => InSync
         /\ Keeps(limits) => NothingForgotten
  BY <1>1, <1>2, <1>3, <1>4 DEF NothingForgotten
<1> QED
  BY <1>5, Inductive, WakeInductive, ShownInductive, PublishedInductive, KeptInductive, PTL
=============================================================================
