--------------------------- MODULE TicketsProofs ----------------------------
(***************************************************************************)
(* Proofs about Tickets, for any users, requests, budget and limits: the   *)
(* types, that a reviewer is pinged only in his turn, and that nobody is   *)
(* pinged after his data was erased; then that a ticket keeps              *)
(* ReviewPromise, that no ping is repeated for one reservation, and that   *)
(* nothing is said twice.  They follow from an inductive invariant of the  *)
(* row and of the two handlers, and from two more that add to it.          *)
(***************************************************************************)
EXTENDS Tickets, TLAPS, FiniteSetTheorems

-----------------------------------------------------------------------------
(* The inductive invariant *)

\* What a row says of the users whose data was erased, and of the ticket's author:
\* they are neither reserved for a ping nor the direct reviewer.  Only a published
\* ticket has a reservation, and a claimed one has an assignee.
Sound(t, gone) ==
    /\ t.pending.user \notin gone \cup {Author}
    /\ t.direct \notin gone \cup {Author}
    /\ t.state \in {"creating", "finishing"} => t.pending = NoPing
    /\ t.state = "claimed" => t.assignee # NoUser

RowOK ==
    /\ ticket \in Ticket \cup {NoTicket}
    /\ Exists => Sound(ticket, redacted)

JobOK == job \in [Jobs -> Job]

RunOK ==
    /\ restore \in {"down", "list", "cleanup", "due", "serve", "done"}
    /\ sched \in {"off", "clear", "read", "wait", "sleep", "query", "serve"}
    /\ sent \in {"no", "current", "stale"}
    /\ woken \in BOOLEAN /\ local \in BOOLEAN /\ resync \in BOOLEAN

DiscordOK ==
    /\ channel \in BOOLEAN /\ posted \in BOOLEAN
    /\ messages \subseteq made /\ threads \subseteq made /\ made \subseteq Message
    /\ shown \in User \cup {NoUser}
    /\ heard \in [User -> Nat]
    /\ events \subseteq [kind : {"message", "thread", "channel"}, id : Message \cup {NoMessage}]

BoundOK ==
    /\ limits \in Limits
    /\ faults \in Nat /\ crashes \in Nat /\ deletions \in Nat /\ changes \in Nat

\* Nobody who was erased can be selected.
UsersOK ==
    /\ eligible \subseteq User /\ redacted \subseteq User
    /\ eligible \cap redacted = {}

\* There is no ticket, no handler and no erasure before the one creation.
CreatedOnce ==
    /\ Exists \/ ~At("locked", "rest") => ~At("create", "rest")
    /\ redacted # {} => At("create", "over")

\* From the check of the protection to the ping, the row stays open, unprotected
\* and, once there is one, with its reservation; or it is gone.
InRouting == job["locked"].at \in {"route", "settle", "check", "ping"}
Settling  == job["locked"].at \in {"settle", "check", "ping", "ack_ping"}

InTurn ==
    /\ InRouting /\ Exists => Open /\ ~ticket.protected
    /\ Settling /\ Exists => ticket.pending # NoPing

IInv ==
    /\ RowOK /\ JobOK /\ RunOK /\ DiscordOK /\ BoundOK /\ UsersOK
    /\ CreatedOnce /\ InTurn

-----------------------------------------------------------------------------
(* The row: what the transactions make of it *)

\* A row with one field written is a row.
LEMMA Field ==
  ASSUME NEW t \in Ticket
  PROVE  /\ \A x \in {"creating", "open", "claimed", "finishing"} :
                [t EXCEPT !.state = x] \in Ticket
         /\ \A x \in Message \cup {NoMessage} :
               [t EXCEPT !.message = x] \in Ticket /\ [t EXCEPT !.thread = x] \in Ticket
         /\ \A x \in User \cup {NoUser} :
               /\ [t EXCEPT !.direct = x] \in Ticket /\ [t EXCEPT !.target = x] \in Ticket
               /\ [t EXCEPT !.assignee = x] \in Ticket
         /\ \A x \in Ping : [t EXCEPT !.pending = x] \in Ticket
         /\ \A x \in Nat : [t EXCEPT !.pings = x] \in Ticket
         /\ \A x \in BOOLEAN : [t EXCEPT !.protected = x] \in Ticket
         /\ \A x \in {"none", "target_timeout"} \cup PingAction : [t EXCEPT !.next = x] \in Ticket
         /\ \A x \in Time :
               [t EXCEPT !.nextAt = x] \in Ticket /\ [t EXCEPT !.syncAt = x] \in Ticket
         /\ \A x \in SUBSET User :
               [t EXCEPT !.excluded = x] \in Ticket /\ [t EXCEPT !.asked = x] \in Ticket
<1>1. /\ \A x \in {"creating", "open", "claimed", "finishing"} :
            [t EXCEPT !.state = x] \in Ticket
      /\ \A x \in Ping : [t EXCEPT !.pending = x] \in Ticket
  BY DEF Ticket
<1>2. \A x \in Message \cup {NoMessage} :
         [t EXCEPT !.message = x] \in Ticket /\ [t EXCEPT !.thread = x] \in Ticket
  BY DEF Ticket
<1>3. \A x \in User \cup {NoUser} :
         /\ [t EXCEPT !.direct = x] \in Ticket /\ [t EXCEPT !.target = x] \in Ticket
         /\ [t EXCEPT !.assignee = x] \in Ticket
  BY DEF Ticket
<1>4. /\ \A x \in Nat : [t EXCEPT !.pings = x] \in Ticket
      /\ \A x \in BOOLEAN : [t EXCEPT !.protected = x] \in Ticket
  BY DEF Ticket
<1>5. \A x \in {"none", "target_timeout"} \cup PingAction : [t EXCEPT !.next = x] \in Ticket
  BY DEF Ticket
<1>6. \A x \in Time :
         [t EXCEPT !.nextAt = x] \in Ticket /\ [t EXCEPT !.syncAt = x] \in Ticket
  BY DEF Ticket
<1>7. \A x \in SUBSET User :
         [t EXCEPT !.excluded = x] \in Ticket /\ [t EXCEPT !.asked = x] \in Ticket
  BY DEF Ticket
<1> QED
  BY <1>1, <1>2, <1>3, <1>4, <1>5, <1>6, <1>7

\* The values that the transactions write.
LEMMA Written ==
  /\ NoPing \in Ping /\ NoPing.user = NoUser /\ {"none", "later", "due"} \subseteq Time
  /\ \A gone \in SUBSET User : NoUser \notin gone \cup {Author}
BY UserAssumption DEF NoPing, Ping, Time

\* A change of what exists in Discord, of a deadline, of the protection or of the
\* routing keeps a row sound.
LEMMA TouchedRow ==
  ASSUME NEW gone \in SUBSET User, NEW t \in Ticket, Sound(t, gone)
  PROVE  /\ \A x \in Time : \A s \in {[t EXCEPT !.syncAt = x], [t EXCEPT !.nextAt = x]} :
               /\ s \in Ticket /\ Sound(s, gone) /\ s.state = t.state
               /\ s.protected = t.protected /\ s.pending = t.pending
         /\ \A m \in Message \cup {NoMessage} :
               \A s \in {[t EXCEPT !.message = m], [t EXCEPT !.thread = m]} :
                  s \in Ticket /\ Sound(s, gone)
         /\ \A s \in {Deferred(t), Exhausted(t), Cancelled(t)} :
               s \in Ticket /\ Sound(s, gone) /\ s.state = t.state /\ s.protected = t.protected
         /\ LET s == [t EXCEPT !.protected = FALSE]
            IN  /\ s \in Ticket /\ Sound(s, gone) /\ s.state = t.state /\ ~s.protected
                /\ s.pending = t.pending
<1>1. ASSUME NEW x \in Time, NEW s \in {[t EXCEPT !.syncAt = x], [t EXCEPT !.nextAt = x]}
      PROVE  /\ s \in Ticket /\ Sound(s, gone) /\ s.state = t.state
             /\ s.protected = t.protected /\ s.pending = t.pending
  <2>1. [t EXCEPT !.syncAt = x] \in Ticket /\ [t EXCEPT !.nextAt = x] \in Ticket
    BY Field
  <2>2. /\ s.state = t.state /\ s.protected = t.protected /\ s.pending = t.pending
        /\ s.direct = t.direct /\ s.assignee = t.assignee
    BY DEF Ticket
  <2> QED
    BY <2>1, <2>2 DEF Sound
<1>2. ASSUME NEW m \in Message \cup {NoMessage},
             NEW s \in {[t EXCEPT !.message = m], [t EXCEPT !.thread = m]}
      PROVE  s \in Ticket /\ Sound(s, gone)
  <2>1. [t EXCEPT !.message = m] \in Ticket /\ [t EXCEPT !.thread = m] \in Ticket
    BY Field
  <2>2. /\ s.state = t.state /\ s.pending = t.pending
        /\ s.direct = t.direct /\ s.assignee = t.assignee
    BY DEF Ticket
  <2> QED
    BY <2>1, <2>2 DEF Sound
<1>3. Deferred(t) \in Ticket /\ Sound(Deferred(t), gone)
      /\ Deferred(t).state = t.state /\ Deferred(t).protected = t.protected
  BY <1>1, Written DEF Deferred
<1>4. ASSUME NEW s \in {Exhausted(t), Cancelled(t)}
      PROVE  s \in Ticket /\ Sound(s, gone) /\ s.state = t.state /\ s.protected = t.protected
  <2>1. Cancelled(t) \in Ticket
    BY Field, Written DEF Cancelled
  <2>2. Exhausted(t) \in Ticket
    <3>1. [t EXCEPT !.next = "none"] \in Ticket
      BY Field
    <3>2. [t EXCEPT !.next = "none", !.nextAt = "none"] \in Ticket
      BY <3>1, Field, Written
    <3> QED
      BY <3>2, Field, Written DEF Exhausted
  <2>3. /\ s.state = t.state /\ s.protected = t.protected /\ s.pending = NoPing
        /\ s.direct = t.direct /\ s.assignee = t.assignee
    BY DEF Ticket, Exhausted, Cancelled
  <2> QED
    BY <2>1, <2>2, <2>3, Written DEF Sound
<1>5. LET s == [t EXCEPT !.protected = FALSE]
      IN  /\ s \in Ticket /\ Sound(s, gone) /\ s.state = t.state /\ ~s.protected
          /\ s.pending = t.pending
  <2> DEFINE s == [t EXCEPT !.protected = FALSE]
  <2>1. s \in Ticket
    BY Field
  <2>2. /\ s.state = t.state /\ ~s.protected /\ s.pending = t.pending
        /\ s.direct = t.direct /\ s.assignee = t.assignee
    BY DEF Ticket
  <2> QED
    BY <2>1, <2>2 DEF Sound
<1> QED
  BY <1>1, <1>2, <1>3, <1>4, <1>5

\* A new row is sound, and so is what is left of one to delete.
LEMMA NewRow ==
  /\ \A r \in Requests : LET s == Created(r.mode, r.direct)
                         IN  s \in Ticket /\ Sound(s, {})
  /\ \A gone \in SUBSET User, t \in Ticket, a, b \in BOOLEAN :
        LET s == Finishing(t, a, b)
        IN  /\ s \in Ticket /\ Sound(s, gone)
            /\ s.message \in Message \cup {NoMessage} /\ s.thread \in Message \cup {NoMessage}
<1>1. ASSUME NEW r \in Requests
      PROVE  LET s == Created(r.mode, r.direct) IN s \in Ticket /\ Sound(s, {})
  <2> DEFINE s == Created(r.mode, r.direct)
  <2>1. r.mode \in Mode /\ r.direct \in (User \ {Author}) \cup {NoUser}
    BY TicketAssumption
  <2>2. s \in Ticket /\ s.state = "creating" /\ s.pending = NoPing /\ s.direct = r.direct
    BY <2>1, Written DEF Created, Emptied, Ticket
  <2> QED
    BY <2>1, <2>2, Written, UserAssumption DEF Sound
<1>2. ASSUME NEW gone \in SUBSET User, NEW t \in Ticket, NEW a \in BOOLEAN, NEW b \in BOOLEAN
      PROVE  LET s == Finishing(t, a, b)
             IN  /\ s \in Ticket /\ Sound(s, gone)
                 /\ s.message \in Message \cup {NoMessage}
                 /\ s.thread \in Message \cup {NoMessage}
  <2> DEFINE s == Finishing(t, a, b)
  <2>1. t.message \in Message \cup {NoMessage} /\ t.thread \in Message \cup {NoMessage}
    BY DEF Ticket
  <2>2. /\ s \in Ticket /\ s.state = "finishing" /\ s.pending = NoPing /\ s.direct = NoUser
        /\ s.message \in Message \cup {NoMessage} /\ s.thread \in Message \cup {NoMessage}
    BY <2>1, Written DEF Finishing, Emptied, AbsentIf, Ticket, Mode
  <2> QED
    BY <2>2, Written DEF Sound
<1> QED
  BY <1>1, <1>2

\* A schedule writes the protection and the deadline only.
LEMMA ScheduledRow ==
  ASSUME NEW t \in Ticket, NEW a \in {"none", "automatic_ping", "direct_ping"}
  PROVE  LET s == Scheduled(t, a)
         IN  /\ s \in Ticket /\ s.state = t.state /\ s.pending = t.pending
             /\ s.direct = t.direct /\ s.assignee = t.assignee
<1> DEFINE x == IF a = "none" THEN "none" ELSE "later"
<1>1. a \in {"none", "target_timeout"} \cup PingAction /\ x \in Time
  BY DEF PingAction, Time
<1>2. Scheduled(t, a) = [t EXCEPT !.protected = TRUE, !.next = a, !.nextAt = x]
  BY DEF Scheduled
<1> HIDE DEF x
<1>3. Scheduled(t, a) \in Ticket
  <2>1. [t EXCEPT !.protected = TRUE, !.next = a] \in Ticket
    BY <1>1, Field
  <2>2. [t EXCEPT !.protected = TRUE, !.next = a, !.nextAt = x] \in Ticket
    BY <1>1, <2>1, Field
  <2> QED
    BY <1>2, <2>2
<1>4. LET s == [t EXCEPT !.protected = TRUE, !.next = a, !.nextAt = x]
      IN  /\ s.state = t.state /\ s.pending = t.pending
          /\ s.direct = t.direct /\ s.assignee = t.assignee
  BY DEF Ticket
<1> QED
  BY <1>2, <1>3, <1>4

\* A published ticket is sound.
LEMMA ActivatedRow ==
  ASSUME NEW gone \in SUBSET User, NEW t \in Ticket, Sound(t, gone),
         NEW m \in Message \cup {NoMessage}, NEW h \in Message \cup {NoMessage}
  PROVE  Activated(t, m, h) \in Ticket /\ Sound(Activated(t, m, h), gone)
<1> DEFINE first == CASE t.mode = "automatic" -> "automatic_ping"
                      [] t.mode \in {"direct_wait", "direct_automatic"} -> "direct_ping"
                      [] OTHER -> "none"
           Opened(s) == [s EXCEPT !.state = "open", !.message = m, !.thread = h,
                                  !.syncAt = "none"]
<1>1. first \in {"none", "automatic_ping", "direct_ping"}
  OBVIOUS
<1>2. ASSUME NEW s \in Ticket
      PROVE  /\ Opened(s) \in Ticket /\ Opened(s).state = "open"
             /\ Opened(s).pending = s.pending /\ Opened(s).direct = s.direct
  <2>1. [s EXCEPT !.state = "open", !.message = m] \in Ticket
    <3>1. [s EXCEPT !.state = "open"] \in Ticket
      BY Field
    <3> QED
      BY <3>1, Field
  <2>2. [s EXCEPT !.state = "open", !.message = m, !.thread = h] \in Ticket
    BY <2>1, Field
  <2>3. Opened(s) \in Ticket
    BY <2>2, Field, Written
  <2>4. /\ Opened(s).state = "open" /\ Opened(s).pending = s.pending
        /\ Opened(s).direct = s.direct
    BY DEF Ticket
  <2> QED
    BY <2>3, <2>4
<1>3. Activated(t, m, h) = Opened(Scheduled(t, first))
  BY DEF Activated
<1> HIDE DEF first, Opened
<1>4. /\ Scheduled(t, first) \in Ticket /\ Scheduled(t, first).pending = t.pending
      /\ Scheduled(t, first).direct = t.direct
  BY <1>1, ScheduledRow
<1> QED
  BY <1>2, <1>3, <1>4 DEF Sound

\* A row without target and reservation, and with a message to update.
Freed(t) == [t EXCEPT !.target = NoUser, !.pending = NoPing, !.syncAt = "due"]

\* A ticket that is free again has no reservation.
LEMMA ReleasedRow ==
  ASSUME NEW t \in Ticket
  PROVE  /\ Freed(t) \in Ticket /\ Freed(t).state = t.state
         /\ Freed(t).pending = NoPing /\ Freed(t).direct = t.direct
         /\ Freed(t).assignee = t.assignee
         /\ Released(t) \in Ticket /\ Released(t).state = t.state
         /\ Released(t).pending = NoPing /\ Released(t).direct = t.direct
<1>1. ASSUME NEW s \in Ticket
      PROVE  /\ Freed(s) \in Ticket /\ Freed(s).state = s.state
             /\ Freed(s).pending = NoPing /\ Freed(s).direct = s.direct
             /\ Freed(s).assignee = s.assignee
  <2>1. [s EXCEPT !.target = NoUser, !.pending = NoPing] \in Ticket
    <3>1. [s EXCEPT !.target = NoUser] \in Ticket
      BY Field
    <3> QED
      BY <3>1, Field, Written
  <2>2. Freed(s) \in Ticket
    BY <2>1, Field, Written DEF Freed
  <2>3. /\ Freed(s).state = s.state /\ Freed(s).pending = NoPing
        /\ Freed(s).direct = s.direct /\ Freed(s).assignee = s.assignee
    BY DEF Ticket, Freed
  <2> QED
    BY <2>2, <2>3
<1> DEFINE a == IF t.mode \in {"automatic", "direct_automatic"} THEN "automatic_ping" ELSE "none"
<1>2. a \in {"none", "automatic_ping", "direct_ping"} /\ Released(t) = Freed(Scheduled(t, a))
  BY DEF Released, Freed
<1> HIDE DEF a
<1>3. /\ Scheduled(t, a) \in Ticket /\ Scheduled(t, a).state = t.state
      /\ Scheduled(t, a).direct = t.direct
  BY <1>2, ScheduledRow
<1> QED
  BY <1>1, <1>2, <1>3

\* An exclusion changes nothing else.
LEMMA ExcludingRow ==
  ASSUME NEW t \in Ticket, NEW u \in User
  PROVE  LET s == Excluding(t, u)
         IN  /\ s \in Ticket /\ s.state = t.state /\ s.pending = t.pending
             /\ s.direct = t.direct
<1>1. t.excluded \cup {u} \in SUBSET User
  BY DEF Ticket
<1>2. Excluding(t, u) \in Ticket
  BY <1>1, Field DEF Excluding
<1>3. /\ Excluding(t, u).state = t.state /\ Excluding(t, u).pending = t.pending
      /\ Excluding(t, u).direct = t.direct
  BY DEF Ticket, Excluding
<1> QED
  BY <1>2, <1>3

\* The buttons and the timeout keep a row sound.
LEMMA PressedRow ==
  ASSUME NEW gone \in SUBSET User, NEW t \in Ticket, Sound(t, gone), NEW u \in User
  PROVE  /\ Claimed(t, u) \in Ticket /\ Sound(Claimed(t, u), gone)
         /\ t.state = "open" => Declined(t, u) \in Ticket /\ Sound(Declined(t, u), gone)
         /\ t.state = "claimed" => Unassigned(t) \in Ticket /\ Sound(Unassigned(t), gone)
         /\ t.state = "open" /\ t.target # NoUser =>
               TimedOut(t) \in Ticket /\ Sound(TimedOut(t), gone)
<1>1. Claimed(t, u) \in Ticket /\ Sound(Claimed(t, u), gone)
  <2> DEFINE s == Scheduled(t, "none")
             taken == [s EXCEPT !.state = "claimed", !.assignee = u]
  <2>1. s \in Ticket /\ s.direct = t.direct
    BY ScheduledRow
  <2>2. taken \in Ticket
    <3>1. [s EXCEPT !.state = "claimed"] \in Ticket
      BY <2>1, Field
    <3> QED
      BY <3>1, Field
  <2>3. \A r \in Ticket : LET x == [r EXCEPT !.state = "claimed", !.assignee = u]
                          IN  x.state = "claimed" /\ x.assignee = u /\ x.direct = r.direct
    BY DEF Ticket
  <2>4. taken.state = "claimed" /\ taken.assignee = u /\ taken.direct = t.direct
    BY <2>1, <2>3
  <2>5. Claimed(t, u) = Freed(taken)
    BY DEF Claimed, Freed
  <2> HIDE DEF taken
  <2> QED
    BY <2>2, <2>4, <2>5, ReleasedRow, Written, UserAssumption DEF Sound
<1>2. ASSUME t.state = "open" PROVE Declined(t, u) \in Ticket /\ Sound(Declined(t, u), gone)
  <2> DEFINE s == Excluding(t, u)
             p == [s EXCEPT !.protected = TRUE]
  <2>1. /\ s \in Ticket /\ s.state = "open" /\ s.pending = t.pending
        /\ s.direct = t.direct
    BY <1>2, ExcludingRow
  <2>2. Released(s) \in Ticket /\ Sound(Released(s), gone)
    BY <1>2, <2>1, ReleasedRow, Written DEF Sound
  <2>3. p \in Ticket
    BY <2>1, Field
  <2>4. \A r \in Ticket : LET x == [r EXCEPT !.protected = TRUE]
                          IN  /\ x.state = r.state /\ x.pending = r.pending
                              /\ x.direct = r.direct
    BY DEF Ticket
  <2>5. p.state = "open" /\ p.pending = t.pending /\ p.direct = t.direct
    BY <2>1, <2>4
  <2>6. Declined(t, u) = IF u \in {t.target, t.pending.user} THEN Released(s) ELSE p
    BY DEF Declined
  <2> HIDE DEF p, s
  <2>7. Sound(p, gone)
    BY <2>5 DEF Sound
  <2> QED
    BY <2>2, <2>3, <2>6, <2>7
<1>3. ASSUME t.state = "claimed" PROVE Unassigned(t) \in Ticket /\ Sound(Unassigned(t), gone)
  <2> DEFINE s == Released(Excluding(t, t.assignee))
             r == [s EXCEPT !.state = "open", !.assignee = NoUser]
  <2>1. t.assignee \in User
    BY <1>3 DEF Sound, Ticket
  <2>2. s \in Ticket /\ s.pending = NoPing /\ s.direct = t.direct
    BY <2>1, ExcludingRow, ReleasedRow
  <2>3. r \in Ticket
    <3>1. [s EXCEPT !.state = "open"] \in Ticket
      BY <2>2, Field
    <3> QED
      BY <3>1, Field
  <2>4. \A x \in Ticket : LET y == [x EXCEPT !.state = "open", !.assignee = NoUser]
                          IN  y.state = "open" /\ y.pending = x.pending /\ y.direct = x.direct
    BY DEF Ticket
  <2>5. r.state = "open" /\ r.pending = NoPing /\ r.direct = t.direct
    BY <2>2, <2>4
  <2>6. Unassigned(t) = r
    BY DEF Unassigned
  <2> HIDE DEF r
  <2> QED
    BY <2>3, <2>5, <2>6, Written DEF Sound
<1>4. ASSUME t.state = "open", t.target # NoUser
      PROVE  TimedOut(t) \in Ticket /\ Sound(TimedOut(t), gone)
  <2> DEFINE s == Released(Excluding(t, t.target))
             r == [s EXCEPT !.pending = t.pending]
  <2>1. t.target \in User /\ t.pending \in Ping
    BY <1>4 DEF Ticket
  <2>2. s \in Ticket /\ s.state = "open" /\ s.direct = t.direct
    BY <2>1, <1>4, ExcludingRow, ReleasedRow
  <2>3. r \in Ticket
    BY <2>1, <2>2, Field
  <2>4. \A x \in Ticket : LET y == [x EXCEPT !.pending = t.pending]
                          IN  /\ y.state = x.state /\ y.pending = t.pending
                              /\ y.direct = x.direct
    BY DEF Ticket
  <2>5. r.state = "open" /\ r.pending = t.pending /\ r.direct = t.direct
    BY <2>2, <2>4
  <2>6. TimedOut(t) = r
    BY DEF TimedOut
  <2> HIDE DEF r
  <2> QED
    BY <2>3, <2>5, <2>6 DEF Sound
<1> QED
  BY <1>1, <1>2, <1>3, <1>4

\* A reservation for somebody who is neither erased nor the author is sound, and so is
\* the row in which the ping is acknowledged.
LEMMA PingedRow ==
  ASSUME NEW gone \in SUBSET User, NEW t \in Ticket, Sound(t, gone)
  PROVE  /\ t.state = "open" =>
              \A u \in User \ (gone \cup {Author}), a \in BOOLEAN :
                 LET s == Reserved(t, u, a)
                 IN  /\ s \in Ticket /\ Sound(s, gone) /\ s.state = "open"
                     /\ s.protected = t.protected /\ s.pending # NoPing
         /\ t.pending # NoPing => Acknowledged(t) \in Ticket /\ Sound(Acknowledged(t), gone)
<1>1. ASSUME t.state = "open", NEW u \in User \ (gone \cup {Author}), NEW a \in BOOLEAN
      PROVE  LET s == Reserved(t, u, a)
             IN  /\ s \in Ticket /\ Sound(s, gone) /\ s.state = "open"
                 /\ s.protected = t.protected /\ s.pending # NoPing
  <2> DEFINE p == [user |-> u, automatic |-> a]
             s == Reserved(t, u, a)
  <2>1. p \in Ping /\ p.user = u /\ p # NoPing
    BY UserAssumption DEF Ping, NoPing
  <2>2. s = [t EXCEPT !.pending = p]
    BY DEF Reserved
  <2> HIDE DEF p, s
  <2>3. ASSUME NEW x \in Ticket
        PROVE  LET y == [x EXCEPT !.pending = p]
               IN  /\ y \in Ticket /\ y.state = x.state /\ y.protected = x.protected
                   /\ y.pending = p /\ y.direct = x.direct
    <3>1. [x EXCEPT !.pending = p] \in Ticket
      BY <2>1, Field
    <3> QED
      BY <3>1 DEF Ticket
  <2>4. /\ s \in Ticket /\ s.state = "open" /\ s.protected = t.protected
        /\ s.pending = p /\ s.direct = t.direct
    BY <1>1, <2>2, <2>3
  <2>5. t.direct \notin gone \cup {Author}
    BY DEF Sound
  <2>6. Sound(s, gone)
    BY <2>1, <2>4, <2>5 DEF Sound
  <2>7. s \in Ticket /\ Sound(s, gone) /\ s.state = "open"
        /\ s.protected = t.protected /\ s.pending # NoPing
    BY <2>1, <2>4, <2>6
  <2> QED
    BY <2>7 DEF s
<1>2. ASSUME t.pending # NoPing
      PROVE  Acknowledged(t) \in Ticket /\ Sound(Acknowledged(t), gone)
  <2> DEFINE v == t.pending.user
             w == [t EXCEPT !.pings = t.pings + 1, !.target = v, !.pending = NoPing,
                     !.next = "target_timeout", !.nextAt = "later", !.syncAt = "due"]
  <2>1. t.pending \in Ping /\ t.pings \in Nat /\ t.asked \in SUBSET User
    BY DEF Ticket
  <2>2. v \in User
    BY <1>2, <2>1 DEF Ping
  <2> HIDE DEF v
  <2>3. t.pings + 1 \in Nat
    BY <2>1
  <2>4. t.asked \cup {v} \in SUBSET User
    BY <2>1, <2>2
  <2>5. v \in User /\ t.pings + 1 \in Nat /\ t.asked \cup {v} \in SUBSET User
    BY <2>2, <2>3, <2>4
  <2>6. [t EXCEPT !.pings = t.pings + 1, !.target = v] \in Ticket
    <3>1. [t EXCEPT !.pings = t.pings + 1] \in Ticket
      BY <2>5, Field
    <3> QED
      BY <2>5, <3>1, Field
  <2>7. [t EXCEPT !.pings = t.pings + 1, !.target = v, !.pending = NoPing] \in Ticket
    BY <2>6, Field, Written
  <2>8. [t EXCEPT !.pings = t.pings + 1, !.target = v, !.pending = NoPing,
                  !.next = "target_timeout"] \in Ticket
    BY <2>7, Field
  <2>9. [t EXCEPT !.pings = t.pings + 1, !.target = v, !.pending = NoPing,
                  !.next = "target_timeout", !.nextAt = "later"] \in Ticket
    BY <2>8, Field, Written
  <2>10. w \in Ticket
    BY <2>9, Field, Written
  <2>11. Acknowledged(t) = [w EXCEPT !.asked = t.asked \cup {v}]
    BY DEF Acknowledged, v
  <2>12. /\ w.state = t.state /\ w.pending = NoPing
         /\ w.direct = t.direct /\ w.assignee = t.assignee
    BY DEF Ticket
  <2> HIDE DEF w
  <2>13. /\ Acknowledged(t) \in Ticket /\ Acknowledged(t).state = t.state
         /\ Acknowledged(t).pending = NoPing /\ Acknowledged(t).direct = t.direct
         /\ Acknowledged(t).assignee = t.assignee
    <3>1. [w EXCEPT !.asked = t.asked \cup {v}] \in Ticket
      BY <2>5, <2>10, Field
    <3>2. LET y == [w EXCEPT !.asked = t.asked \cup {v}]
          IN  /\ y.state = w.state /\ y.pending = w.pending
              /\ y.direct = w.direct /\ y.assignee = w.assignee
      BY <2>10 DEF Ticket
    <3> QED
      BY <2>11, <2>12, <3>1, <3>2
  <2> QED
    BY <2>13, Written DEF Sound
<1> QED
  BY <1>1, <1>2

\* The erasure of a user's data leaves a row that is sound for him, too.
LEMMA RedactedRow ==
  ASSUME NEW gone \in SUBSET User, NEW t \in Ticket, Sound(t, gone),
         NEW u \in User, u # Author
  PROVE  Redacted(t, u) \in Ticket /\ Sound(Redacted(t, u), gone \cup {u})
<1> DEFINE d == IF t.direct = u THEN NoUser ELSE t.direct
           f == [t EXCEPT !.excluded = t.excluded \ {u}, !.asked = t.asked \ {u}, !.direct = d]
           hit == \/ t.state = "open" /\ Concerns(t, u)
                  \/ t.state = "claimed" /\ Involves(t, u)
           Opened(s) == [s EXCEPT !.state = "open", !.direct = NoUser, !.assignee = NoUser]
<1>1. /\ d \in User \cup {NoUser} /\ d \notin gone \cup {u, Author}
      /\ t.excluded \ {u} \in SUBSET User /\ t.asked \ {u} \in SUBSET User
  BY UserAssumption DEF Sound, Ticket
<1>2. Redacted(t, u) = IF hit THEN Opened(Released(f)) ELSE f
  BY DEF Redacted
<1> HIDE DEF d
<1>3. f \in Ticket
  <2>1. [t EXCEPT !.excluded = t.excluded \ {u}] \in Ticket
    BY <1>1, Field
  <2>2. [t EXCEPT !.excluded = t.excluded \ {u}, !.asked = t.asked \ {u}] \in Ticket
    BY <1>1, <2>1, Field
  <2> QED
    BY <1>1, <2>2, Field
<1>4. /\ f.state = t.state /\ f.pending = t.pending /\ f.assignee = t.assignee
      /\ f.direct = d
  BY DEF Ticket
<1> HIDE DEF f
<1>5. CASE hit
  <2>1. Released(f) \in Ticket /\ Released(f).pending = NoPing
    BY <1>3, ReleasedRow
  <2>2. ASSUME NEW s \in Ticket
        PROVE  /\ Opened(s) \in Ticket /\ Opened(s).state = "open"
               /\ Opened(s).pending = s.pending /\ Opened(s).direct = NoUser
    <3>1. [s EXCEPT !.state = "open"] \in Ticket
      BY Field
    <3>2. [s EXCEPT !.state = "open", !.direct = NoUser] \in Ticket
      BY <3>1, Field
    <3>3. Opened(s) \in Ticket
      BY <3>2, Field
    <3>4. /\ Opened(s).state = "open" /\ Opened(s).pending = s.pending
          /\ Opened(s).direct = NoUser
      BY DEF Ticket
    <3> QED
      BY <3>3, <3>4
  <2> HIDE DEF Opened, hit
  <2> QED
    BY <1>2, <1>5, <2>1, <2>2, Written DEF Sound
<1>6. CASE ~hit
  <2>1. t.pending.user # u
    <3>1. CASE t.state \in {"creating", "finishing"}
      BY <3>1, UserAssumption DEF Sound, NoPing
    <3>2. CASE t.state \in {"open", "claimed"}
      BY <1>6, <3>2 DEF Concerns, Involves
    <3> QED
      BY <3>1, <3>2 DEF Ticket
  <2> HIDE DEF hit
  <2> QED
    BY <1>1, <1>2, <1>3, <1>4, <1>6, <2>1 DEF Sound
<1> QED
  BY <1>5, <1>6

-----------------------------------------------------------------------------
(* The handlers: what the parts of actions make of job and the row *)

By == {"user", "event", "sched", "restore"}

\* Where the two handlers are after each of the ways in which a handler is begun,
\* goes on or ends.
LEMMA JobSteps ==
  ASSUME JobOK
  PROVE  /\ \A j \in Jobs, step \in Steps : Go(j, step) =>
               /\ JobOK' /\ job'[j].at = step
               /\ \A i \in Jobs : i # j => job'[i] = job[i]
         /\ \A step \in Steps, by \in By : Takes(step, by) =>
               /\ JobOK' /\ job'["locked"].at = step /\ job'["create"] = job["create"]
         /\ EndsCreation =>
               /\ JobOK' /\ job'["create"].at = "over" /\ job'["locked"] = job["locked"]
         /\ \A raised \in BOOLEAN : Ends(raised) =>
               /\ JobOK' /\ job'["locked"].at = "rest" /\ job'["create"] = job["create"]
<1>1. Rest \in Job /\ Rest.at = "rest"
  BY DEF Rest, Job, Steps
<1>2. ASSUME NEW j \in Jobs, NEW step \in Steps, Go(j, step)
      PROVE  /\ JobOK' /\ job'[j].at = step
             /\ \A i \in Jobs : i # j => job'[i] = job[i]
  <2>1. job' = [job EXCEPT ![j] = [job[j] EXCEPT !.at = step]]
    BY <1>2 DEF Go, JobOK
  <2>2. [job[j] EXCEPT !.at = step] \in Job /\ [job[j] EXCEPT !.at = step].at = step
    BY DEF JobOK, Job
  <2> QED
    BY <2>1, <2>2 DEF JobOK
<1>3. \A step \in Steps : [Rest EXCEPT !.at = step] \in Job /\ [Rest EXCEPT !.at = step].at = step
  BY <1>1 DEF Job
<1>4. ASSUME NEW step \in Steps, NEW by \in By, Takes(step, by)
      PROVE  /\ JobOK' /\ job'["locked"].at = step /\ job'["create"] = job["create"]
  <2>1. /\ [Rest EXCEPT !.at = step, !.by = by] \in Job
        /\ [Rest EXCEPT !.at = step, !.by = by].at = step
    BY <1>1 DEF Job, By
  <2> QED
    BY <1>4, <2>1 DEF Takes, JobOK, Jobs
<1>5. ASSUME EndsCreation
      PROVE  /\ JobOK' /\ job'["create"].at = "over" /\ job'["locked"] = job["locked"]
  <2>1. "over" \in Steps
    BY DEF Steps
  <2> QED
    BY <1>3, <1>5, <2>1 DEF EndsCreation, JobOK, Jobs
<1>6. ASSUME NEW raised \in BOOLEAN, Ends(raised)
      PROVE  /\ JobOK' /\ job'["locked"].at = "rest" /\ job'["create"] = job["create"]
  BY <1>1, <1>6 DEF Ends, JobOK, Jobs
<1> QED
  BY <1>2, <1>4, <1>5, <1>6

\* What a handler remembers of the ticket's message and thread.
LEMMA JobNotes ==
  ASSUME JobOK, NEW j \in Jobs
  PROVE  /\ \A step \in Steps, m \in Message \cup {NoMessage} :
               /\ job' = [job EXCEPT ![j].at = step, ![j].message = m] =>
                    /\ JobOK' /\ job'[j].at = step
                    /\ \A i \in Jobs : i # j => job'[i] = job[i]
               /\ job' = [job EXCEPT ![j].at = step, ![j].thread = m] =>
                    /\ JobOK' /\ job'[j].at = step
                    /\ \A i \in Jobs : i # j => job'[i] = job[i]
         /\ \A m, h \in Message \cup {NoMessage}, by \in By, b \in BOOLEAN :
               job' = [job EXCEPT !["locked"] = [at |-> "del_thread", by |-> by,
                                 defers |-> b, message |-> m, thread |-> h]] =>
                 /\ JobOK' /\ job'["locked"].at = "del_thread"
                 /\ job'["create"] = job["create"]
<1>1. ASSUME NEW step \in Steps, NEW m \in Message \cup {NoMessage},
             job' = [job EXCEPT ![j].at = step, ![j].message = m]
      PROVE  /\ JobOK' /\ job'[j].at = step
             /\ \A i \in Jobs : i # j => job'[i] = job[i]
  <2>1. job' = [job EXCEPT ![j] = [job[j] EXCEPT !.at = step, !.message = m]]
    BY <1>1 DEF JobOK
  <2>2. /\ [job[j] EXCEPT !.at = step, !.message = m] \in Job
        /\ [job[j] EXCEPT !.at = step, !.message = m].at = step
    BY DEF JobOK, Job
  <2> QED
    BY <2>1, <2>2 DEF JobOK
<1>2. ASSUME NEW step \in Steps, NEW m \in Message \cup {NoMessage},
             job' = [job EXCEPT ![j].at = step, ![j].thread = m]
      PROVE  /\ JobOK' /\ job'[j].at = step
             /\ \A i \in Jobs : i # j => job'[i] = job[i]
  <2>1. job' = [job EXCEPT ![j] = [job[j] EXCEPT !.at = step, !.thread = m]]
    BY <1>2 DEF JobOK
  <2>2. /\ [job[j] EXCEPT !.at = step, !.thread = m] \in Job
        /\ [job[j] EXCEPT !.at = step, !.thread = m].at = step
    BY DEF JobOK, Job
  <2> QED
    BY <2>1, <2>2 DEF JobOK
<1>3. ASSUME NEW m \in Message \cup {NoMessage}, NEW h \in Message \cup {NoMessage},
             NEW by \in By, NEW b \in BOOLEAN,
             job' = [job EXCEPT !["locked"] = [at |-> "del_thread", by |-> by,
                           defers |-> b, message |-> m, thread |-> h]]
      PROVE  /\ JobOK' /\ job'["locked"].at = "del_thread"
             /\ job'["create"] = job["create"]
  <2>1. [at |-> "del_thread", by |-> by, defers |-> b, message |-> m, thread |-> h] \in Job
    BY DEF Job, Steps, By
  <2> QED
    BY <1>3, <2>1 DEF JobOK, Jobs
<1> QED
  BY <1>1, <1>2, <1>3

\* The deletion of a ticket is begun.
LEMMA FinishingBegun ==
  ASSUME IInv, Exists, UsersOK', redacted' = redacted \/ At("create", "over"),
         NEW by \in By, NEW a \in BOOLEAN, NEW b \in BOOLEAN, NEW d \in BOOLEAN,
         BeginsFinishing(by, a, b, d)
  PROVE  /\ RowOK' /\ JobOK' /\ CreatedOnce' /\ InTurn'
         /\ sent' \in {"no", "current", "stale"} /\ woken' \in BOOLEAN /\ local' \in BOOLEAN
<1> DEFINE t == Finishing(ticket, a, b)
<1>1. /\ t \in Ticket /\ Sound(t, redacted')
      /\ t.message \in Message \cup {NoMessage} /\ t.thread \in Message \cup {NoMessage}
  <2>1. ticket \in Ticket /\ redacted' \in SUBSET User
    BY DEF IInv, RowOK, UsersOK, Exists
  <2> QED
    BY <2>1, NewRow
<1>2. ticket' = t /\ sent' = "no" /\ local' = FALSE /\ woken' = TRUE
  BY DEF BeginsFinishing
<1>3. job' = [job EXCEPT !["locked"] = [at |-> "del_thread", by |-> by, defers |-> d,
                                        message |-> t.message, thread |-> t.thread]]
  BY DEF BeginsFinishing
<1> HIDE DEF t
<1>4. JobOK' /\ job'["locked"].at = "del_thread" /\ job'["create"] = job["create"]
  BY <1>1, <1>3, JobNotes DEF IInv, Jobs
<1>5. RowOK'
  BY <1>1, <1>2 DEF RowOK
<1>6. CreatedOnce'
  BY <1>4 DEF IInv, CreatedOnce, At
<1>7. InTurn'
  BY <1>4 DEF InTurn, InRouting, Settling
<1> QED
  BY <1>2, <1>4, <1>5, <1>6, <1>7

\* What ends a handler keeps the types of who called it.
LEMMA CallerTypes ==
  ASSUME RunOK
  PROVE  /\ \A by \in By, raised \in BOOLEAN : Caller(by, raised) =>
               /\ restore' \in {"down", "list", "cleanup", "due", "serve", "done"}
               /\ sched' \in {"off", "clear", "read", "wait", "sleep", "query", "serve"}
         /\ \A t : Put(t) => ticket' = t /\ sent' \in {"no", "current", "stale"}
<1>1. ASSUME NEW by \in By, NEW raised \in BOOLEAN, Caller(by, raised)
      PROVE  /\ restore' \in {"down", "list", "cleanup", "due", "serve", "done"}
             /\ sched' \in {"off", "clear", "read", "wait", "sleep", "query", "serve"}
  <2>1. restore' \in {restore, "list", "due", "done"} /\ sched' \in {sched, "clear"}
    BY <1>1 DEF Caller
  <2> QED
    BY <2>1 DEF RunOK
<1>2. ASSUME NEW t, Put(t)
      PROVE  ticket' = t /\ sent' \in {"no", "current", "stale"}
  BY <1>2 DEF Put, RunOK
<1> QED
  BY <1>1, <1>2

RoutingSteps == {"route", "settle", "check", "ping", "ack_ping"}

\* A step of the handler that has the lock, or its beginning.
LEMMA LockedStep ==
  ASSUME IInv, redacted' = redacted, Exists \/ ~At("locked", "rest"),
         job'["create"] = job["create"]
  PROVE  CreatedOnce' /\ (job'["locked"].at \notin RoutingSteps => InTurn')
<1>1. CreatedOnce'
  BY DEF IInv, CreatedOnce, At
<1>2. job'["locked"].at \notin RoutingSteps => InTurn'
  BY DEF InTurn, InRouting, Settling, RoutingSteps
<1> QED
  BY <1>1, <1>2

\* A step of the creation: it leaves the row in the hands of a handler that routes.
LEMMA CreateStep ==
  ASSUME IInv, redacted' = redacted, ~At("create", "rest"), ~At("create", "over"),
         job'["create"].at # "rest", job'["locked"] = job["locked"],
         Exists' => /\ Exists
                    /\ \/ ticket.state = "creating"
                       \/ /\ ticket'.state = ticket.state
                          /\ ticket'.protected = ticket.protected
                          /\ ticket'.pending = ticket.pending
  PROVE  CreatedOnce' /\ InTurn'
<1>1. redacted' = {}
  BY DEF IInv, CreatedOnce
<1>2. CreatedOnce'
  BY <1>1 DEF CreatedOnce, At
<1>3. Exists /\ ticket.state = "creating" => ~InRouting /\ ~Settling
  BY DEF IInv, InTurn, RowOK, Sound, Open
<1>4. InTurn'
  BY <1>3 DEF IInv, InTurn, InRouting, Settling, Open
<1> QED
  BY <1>2, <1>4

-----------------------------------------------------------------------------
(* Every step keeps the invariant *)

\* What a handler leaves alone, and a fault.
LEMMA HandlerFrame ==
  ASSUME IInv, eligible' = eligible, Fault \/ UNCHANGED bounds
  PROVE  BoundOK' /\ UsersOK' /\ redacted' = redacted
<1>1. /\ limits' = limits /\ redacted' = redacted /\ crashes' = crashes
      /\ deletions' = deletions /\ changes' = changes
      /\ faults' \in {faults, faults + 1}
  BY DEF Fault, bounds
<1>2. BoundOK'
  BY <1>1 DEF IInv, BoundOK
<1>3. UsersOK'
  BY <1>1 DEF IInv, UsersOK
<1> QED
  BY <1>1, <1>2, <1>3

\* A cleanup or a publication that is put off.
LEMMA PutOff ==
  ASSUME IInv, PutsOff, redacted' = redacted
  PROVE  /\ RowOK' /\ sent' = sent /\ local' = local /\ woken' \in BOOLEAN
         /\ Exists' => /\ Exists /\ ticket'.state = ticket.state
                       /\ ticket'.protected = ticket.protected
                       /\ ticket'.pending = ticket.pending
<1>1. sent' = sent /\ local' = local /\ woken' \in BOOLEAN
  BY DEF PutsOff, IInv, RunOK
<1>2. CASE Exists
  <2>1. ticket' = [ticket EXCEPT !.syncAt = "later"]
    BY <1>2 DEF PutsOff
  <2>2. ticket \in Ticket /\ Sound(ticket, redacted) /\ redacted \in SUBSET User
    BY <1>2 DEF IInv, RowOK, UsersOK, Exists
  <2>3. "later" \in Time
    BY DEF Time
  <2>4. /\ ticket' \in Ticket /\ Sound(ticket', redacted) /\ ticket'.state = ticket.state
        /\ ticket'.protected = ticket.protected /\ ticket'.pending = ticket.pending
    BY <2>1, <2>2, <2>3, TouchedRow
  <2> QED
    BY <1>1, <1>2, <2>4 DEF RowOK
<1>3. CASE ~Exists
  BY <1>1, <1>3 DEF PutsOff, RowOK, Exists
<1> QED
  BY <1>2, <1>3

\* The handler that has the lock comes to its end, or raises.
LEMMA LockedEnds ==
  ASSUME IInv, NEW raised \in BOOLEAN, Ends(raised), redacted' = redacted,
         ~At("locked", "rest"),
         sent' \in {"no", "current", "stale"}, woken' \in BOOLEAN, local' \in BOOLEAN
  PROVE  JobOK' /\ RunOK' /\ CreatedOnce' /\ InTurn'
<1>1. JobOK' /\ job'["locked"].at = "rest" /\ job'["create"] = job["create"]
  BY JobSteps DEF IInv
<1>2. CreatedOnce' /\ InTurn'
  BY <1>1, LockedStep DEF RoutingSteps
<1>3. job["locked"].by \in By
  BY DEF IInv, JobOK, Jobs, Job, By
<1>4. RunOK'
  BY <1>3, CallerTypes DEF Ends, IInv, RunOK
<1> QED
  BY <1>1, <1>2, <1>4

\* Either handler comes to its end.
LEMMA HandlerEnds ==
  ASSUME IInv, NEW j \in Jobs, EndsJob(j), redacted' = redacted,
         ~At(j, "rest"), ~At(j, "over"), RowOK',
         sent' \in {"no", "current", "stale"}, woken' \in BOOLEAN, local' \in BOOLEAN,
         Exists' => /\ Exists
                    /\ \/ ticket.state = "creating"
                       \/ /\ ticket'.state = ticket.state
                          /\ ticket'.protected = ticket.protected
                          /\ ticket'.pending = ticket.pending
  PROVE  JobOK' /\ RunOK' /\ CreatedOnce' /\ InTurn'
<1>1. CASE j = "create"
  <2>1. EndsCreation
    BY <1>1 DEF EndsJob
  <2>2. JobOK' /\ job'["create"].at = "over" /\ job'["locked"] = job["locked"]
    BY <2>1, JobSteps DEF IInv
  <2>3. CreatedOnce' /\ InTurn'
    BY <1>1, <2>2, CreateStep
  <2>4. RunOK'
    BY <2>1 DEF EndsCreation, IInv, RunOK
  <2> QED
    BY <2>2, <2>3, <2>4
<1>2. CASE j = "locked"
  <2>1. Ends(FALSE)
    BY <1>2 DEF EndsJob
  <2> QED
    BY <1>2, <2>1, LockedEnds
<1> QED
  BY <1>1, <1>2 DEF Jobs

\* A publication that failed goes to its cleanup, or is put off.
LEMMA GivenUp ==
  ASSUME IInv, NEW j \in Jobs, GivesUp(j), redacted' = redacted,
         ~At(j, "rest"), ~At(j, "over")
  PROVE  RowOK' /\ JobOK' /\ RunOK' /\ CreatedOnce' /\ InTurn'
<1>1. CASE j = "create"
  <2>1. Go("create", "del_thread") /\ Stays /\ UNCHANGED <<rows, woken>>
    BY <1>1 DEF GivesUp
  <2>2. JobOK' /\ job'["create"].at = "del_thread" /\ job'["locked"] = job["locked"]
    BY <2>1, JobSteps DEF IInv, Jobs, Steps
  <2>3. CreatedOnce' /\ InTurn'
    BY <1>1, <2>1, <2>2, CreateStep DEF rows, Exists
  <2>4. RowOK' /\ RunOK'
    BY <2>1 DEF rows, Stays, IInv, RunOK, RowOK, Exists
  <2> QED
    BY <2>2, <2>3, <2>4
<1>2. CASE j = "locked"
  <2>1. PutsOff /\ Ends(FALSE)
    BY <1>2 DEF GivesUp
  <2>2. EndsJob(j)
    BY <1>2, <2>1 DEF EndsJob
  <2>3. sent \in {"no", "current", "stale"} /\ local \in BOOLEAN
    BY DEF IInv, RunOK
  <2> QED
    BY <2>1, <2>2, <2>3, PutOff, HandlerEnds
<1> QED
  BY <1>1, <1>2 DEF Jobs

\* A handler goes on to a step that is not one of the routing.
LEMMA GoneOn ==
  ASSUME IInv, NEW j \in Jobs, redacted' = redacted, ~At(j, "rest"), ~At(j, "over"),
         RowOK', JobOK', job'[j].at \notin RoutingSteps \cup {"rest"},
         \A i \in Jobs : i # j => job'[i] = job[i],
         Exists' => /\ Exists
                    /\ \/ ticket.state = "creating"
                       \/ /\ ticket'.state = ticket.state
                          /\ ticket'.protected = ticket.protected
                          /\ ticket'.pending = ticket.pending
  PROVE  CreatedOnce' /\ InTurn'
<1>1. CASE j = "create"
  BY <1>1, CreateStep DEF Jobs
<1>2. CASE j = "locked"
  BY <1>2, LockedStep DEF Jobs
<1> QED
  BY <1>1, <1>2 DEF Jobs

\* A step that is not of a handler and makes no row: it finds no handler at work, or
\* leaves the row as open, as unprotected and as reserved as it was.
LEMMA Untouched ==
  ASSUME IInv, job' = job, redacted' = redacted, Exists' => Exists,
         \/ At("locked", "rest")
         \/ Exists' => /\ ticket'.state = ticket.state
                       /\ ticket'.protected => ticket.protected
                       /\ ticket'.pending = ticket.pending
  PROVE  JobOK' /\ CreatedOnce' /\ InTurn'
<1>1. JobOK' /\ CreatedOnce'
  BY DEF IInv, JobOK, CreatedOnce, At
<1>2. InTurn'
  BY DEF IInv, InTurn, InRouting, Settling, Open, At
<1> QED
  BY <1>1, <1>2

\* A handler is begun, for a recovery or for an update of the message.
LEMMA Begun ==
  ASSUME IInv, Exists, redacted' = redacted, NEW by \in By,
         NEW step \in {"find_message", "edit"}, Takes(step, by)
  PROVE  JobOK' /\ CreatedOnce' /\ InTurn'
<1>1. JobOK' /\ job'["locked"].at = step /\ job'["create"] = job["create"]
  BY JobSteps DEF IInv, Steps
<1>2. job'["locked"].at \notin RoutingSteps
  BY <1>1 DEF RoutingSteps
<1> QED
  BY <1>1, <1>2, LockedStep

\* create_ticket and _recover_creation keep the invariant.
LEMMA PublicationKeeps ==
  ASSUME IInv, NEW j \in Jobs, Publication(j)
  PROVE  IInv'
<1> DEFINE Working == ~At(j, "rest") /\ ~At(j, "over")
           RowKept(t) == /\ t \in Ticket /\ Sound(t, redacted)
<1>1. /\ redacted \in SUBSET User
      /\ Exists => ticket \in Ticket /\ Sound(ticket, redacted)
  BY DEF IInv, UsersOK, RowOK, Exists
<1>2. /\ job[j].message \in Message \cup {NoMessage}
      /\ job[j].thread \in Message \cup {NoMessage}
  BY DEF IInv, JobOK, Job
<1>3. CASE SendTicket(j)
  <2>1. NewId \in Message /\ NewId \notin made
    BY <1>3 DEF SendTicket, NewId, IInv, DiscordOK
  <2>2. Working
    BY <1>3 DEF SendTicket, At
  <2>3. Fault \/ UNCHANGED bounds
    BY <1>3 DEF SendTicket
  <2>4. BoundOK' /\ UsersOK' /\ redacted' = redacted
    BY <1>3, <2>3, HandlerFrame DEF SendTicket
  <2>5. DiscordOK'
    <3>1. /\ messages' = messages \cup {NewId} /\ made' = made \cup {NewId}
          /\ shown' = NoUser
          /\ UNCHANGED <<channel, threads, events, heard, posted>>
      BY <1>3 DEF SendTicket
    <3> QED
      BY <2>1, <3>1 DEF IInv, DiscordOK
  <2>6. CASE GivesUp(j)
    BY <2>2, <2>4, <2>5, <2>6, GivenUp DEF IInv
  <2>7. CASE /\ job' = [job EXCEPT ![j].at = "record", ![j].message = NewId]
             /\ Stays /\ UNCHANGED <<rows, woken>>
    <3>1. /\ JobOK' /\ job'[j].at = "record"
          /\ \A i \in Jobs : i # j => job'[i] = job[i]
      BY <2>1, <2>7, JobNotes DEF IInv, Steps
    <3>2. RowOK' /\ RunOK'
      BY <2>4, <2>7 DEF IInv, RowOK, RunOK, rows, Stays, Exists
    <3>3. CreatedOnce' /\ InTurn'
      <4>1. job'[j].at \notin RoutingSteps \cup {"rest"}
        BY <3>1 DEF RoutingSteps
      <4>2. ticket' = ticket
        BY <2>7 DEF rows
      <4> QED
        BY <2>2, <2>4, <3>1, <3>2, <4>1, <4>2, GoneOn DEF Exists
    <3> QED
      BY <2>4, <2>5, <3>1, <3>2, <3>3 DEF IInv
  <2> QED
    BY <1>3, <2>6, <2>7 DEF SendTicket
<1>4. CASE RecordMessage(j)
  <2>1. Working
    BY <1>4 DEF RecordMessage, At
  <2>2. BoundOK' /\ UsersOK' /\ redacted' = redacted
    BY <1>4, HandlerFrame DEF RecordMessage
  <2>3. DiscordOK'
    BY <1>4 DEF RecordMessage, IInv, DiscordOK, things, texts
  <2>4. CASE GivesUp(j)
    BY <2>1, <2>2, <2>3, <2>4, GivenUp DEF IInv
  <2>5. CASE /\ Creating /\ Put([ticket EXCEPT !.message = job[j].message])
             /\ Go(j, IF j = "create" THEN "thread" ELSE "find_thread")
             /\ Stays /\ UNCHANGED <<local, woken>>
    <3>1. ticket \in Ticket /\ Sound(ticket, redacted) /\ Exists /\ ticket.state = "creating"
      BY <1>1, <2>5 DEF Creating
    <3>2. /\ ticket' = [ticket EXCEPT !.message = job[j].message]
          /\ sent' \in {"no", "current", "stale"}
      BY <2>5, CallerTypes DEF IInv
    <3>3. ticket' \in Ticket /\ Sound(ticket', redacted)
      BY <1>1, <1>2, <3>1, <3>2, TouchedRow DEF Time
    <3>4. RowOK'
      BY <2>2, <3>3 DEF RowOK
    <3>5. RunOK'
      BY <2>5, <3>2 DEF IInv, RunOK, Stays
    <3>6. /\ JobOK' /\ job'[j].at \in {"thread", "find_thread"}
          /\ \A i \in Jobs : i # j => job'[i] = job[i]
      <4>1. PICK step \in {"thread", "find_thread"} : Go(j, step)
        BY <2>5
      <4> QED
        BY <4>1, JobSteps DEF IInv, Steps
    <3>7. job'[j].at \notin RoutingSteps \cup {"rest"}
      BY <3>6 DEF RoutingSteps
    <3>8. CreatedOnce' /\ InTurn'
      BY <2>1, <2>2, <3>1, <3>4, <3>6, <3>7, GoneOn
    <3> QED
      BY <2>2, <2>3, <3>4, <3>5, <3>6, <3>8 DEF IInv
  <2> QED
    BY <1>4, <2>4, <2>5 DEF RecordMessage
<1>5. CASE CreateThread(j)
  <2>1. Working
    BY <1>5 DEF CreateThread, At
  <2>2. Fault \/ UNCHANGED bounds
    BY <1>5 DEF CreateThread
  <2>3. BoundOK' /\ UsersOK' /\ redacted' = redacted
    BY <1>5, <2>2, HandlerFrame DEF CreateThread
  <2>4. DiscordOK'
    BY <1>5 DEF CreateThread, IInv, DiscordOK, texts
  <2>5. CASE GivesUp(j)
    BY <2>1, <2>3, <2>4, <2>5, GivenUp DEF IInv
  <2>6. CASE /\ job' = [job EXCEPT ![j].at = "record_thread", ![j].thread = job[j].message]
             /\ Stays /\ UNCHANGED <<rows, woken>>
    <3>1. /\ JobOK' /\ job'[j].at = "record_thread"
          /\ \A i \in Jobs : i # j => job'[i] = job[i]
      <4>1. "record_thread" \in Steps
        BY DEF Steps
      <4> QED
        BY <1>2, <2>6, <4>1, JobNotes DEF IInv
    <3>2. RowOK' /\ RunOK'
      BY <2>3, <2>6 DEF IInv, RowOK, RunOK, rows, Stays, Exists
    <3>3. CreatedOnce' /\ InTurn'
      <4>1. job'[j].at \notin RoutingSteps \cup {"rest"}
        BY <3>1 DEF RoutingSteps
      <4>2. ticket' = ticket
        BY <2>6 DEF rows
      <4> QED
        BY <2>1, <2>3, <3>1, <3>2, <4>1, <4>2, GoneOn DEF Exists
    <3> QED
      BY <2>3, <2>4, <3>1, <3>2, <3>3 DEF IInv
  <2> QED
    BY <1>5, <2>5, <2>6 DEF CreateThread
<1>6. CASE RecordThread(j)
  <2>1. Working
    BY <1>6 DEF RecordThread, At
  <2>2. BoundOK' /\ UsersOK' /\ redacted' = redacted
    BY <1>6, HandlerFrame DEF RecordThread
  <2>3. DiscordOK'
    BY <1>6 DEF RecordThread, IInv, DiscordOK, things, texts
  <2>4. CASE GivesUp(j)
    BY <2>1, <2>2, <2>3, <2>4, GivenUp DEF IInv
  <2>5. CASE /\ Creating /\ Put([ticket EXCEPT !.thread = job[j].thread])
             /\ Go(j, "activate")
             /\ Stays /\ UNCHANGED <<local, woken>>
    <3>1. ticket \in Ticket /\ Sound(ticket, redacted) /\ Exists /\ ticket.state = "creating"
      BY <1>1, <2>5 DEF Creating
    <3>2. /\ ticket' = [ticket EXCEPT !.thread = job[j].thread]
          /\ sent' \in {"no", "current", "stale"}
      BY <2>5, CallerTypes DEF IInv
    <3>3. ticket' \in Ticket /\ Sound(ticket', redacted)
      BY <1>1, <1>2, <3>1, <3>2, TouchedRow DEF Time
    <3>4. RowOK'
      BY <2>2, <3>3 DEF RowOK
    <3>5. RunOK'
      BY <2>5, <3>2 DEF IInv, RunOK, Stays
    <3>6. /\ JobOK' /\ job'[j].at = "activate"
          /\ \A i \in Jobs : i # j => job'[i] = job[i]
      BY <2>5, JobSteps DEF IInv, Steps
    <3>7. job'[j].at \notin RoutingSteps \cup {"rest"}
      BY <3>6 DEF RoutingSteps
    <3>8. CreatedOnce' /\ InTurn'
      BY <2>1, <2>2, <3>1, <3>4, <3>6, <3>7, GoneOn
    <3> QED
      BY <2>2, <2>3, <3>4, <3>5, <3>6, <3>8 DEF IInv
  <2> QED
    BY <1>6, <2>4, <2>5 DEF RecordThread
<1>7. CASE Activate(j)
  <2>1. Working
    BY <1>7 DEF Activate, At
  <2>2. BoundOK' /\ UsersOK' /\ redacted' = redacted
    BY <1>7, HandlerFrame DEF Activate
  <2>3. DiscordOK'
    BY <1>7 DEF Activate, IInv, DiscordOK, things, texts
  <2>4. CASE GivesUp(j)
    BY <2>1, <2>2, <2>3, <2>4, GivenUp DEF IInv
  <2>5. CASE /\ Creating /\ Put(Activated(ticket, job[j].message, job[j].thread))
             /\ woken' = (woken \/ ticket'.next # "none")
             /\ EndsJob(j) /\ UNCHANGED local
    <3>1. ticket \in Ticket /\ Sound(ticket, redacted) /\ Exists /\ ticket.state = "creating"
      BY <1>1, <2>5 DEF Creating
    <3>2. /\ ticket' = Activated(ticket, job[j].message, job[j].thread)
          /\ sent' \in {"no", "current", "stale"}
      BY <2>5, CallerTypes DEF IInv
    <3>3. ticket' \in Ticket /\ Sound(ticket', redacted)
      BY <1>1, <1>2, <3>1, <3>2, ActivatedRow
    <3>4. RowOK'
      BY <2>2, <3>3 DEF RowOK
    <3>5. local' \in BOOLEAN
      BY <2>5 DEF IInv, RunOK
    <3>6. woken' \in BOOLEAN
      BY <2>5
    <3>7. JobOK' /\ RunOK' /\ CreatedOnce' /\ InTurn'
      BY <2>1, <2>2, <2>5, <3>1, <3>2, <3>4, <3>5, <3>6, HandlerEnds
    <3> QED
      BY <2>2, <2>3, <3>4, <3>7 DEF IInv
  <2> QED
    BY <1>7, <2>4, <2>5 DEF Activate
<1>8. CASE PublicationFails(j)
  <2>1. Working
    BY <1>8 DEF PublicationFails, At
  <2>2. GivesUp(j) /\ (Fault \/ UNCHANGED bounds)
    BY <1>8 DEF PublicationFails
  <2>3. BoundOK' /\ UsersOK' /\ redacted' = redacted
    BY <1>8, <2>2, HandlerFrame DEF PublicationFails
  <2>4. DiscordOK'
    BY <1>8 DEF PublicationFails, IInv, DiscordOK, things, texts
  <2> QED
    BY <2>1, <2>2, <2>3, <2>4, GivenUp DEF IInv
<1> QED
  BY <1>3, <1>4, <1>5, <1>6, <1>7, <1>8 DEF Publication

\* The deletion of what is left of a ticket keeps the invariant.
LEMMA DeletionKeeps ==
  ASSUME IInv, NEW j \in Jobs, Deletion(j)
  PROVE  IInv'
<1> DEFINE Working == ~At(j, "rest") /\ ~At(j, "over")
           Going(step) == /\ job[j].at \notin {"rest", "over"}
                          /\ Go(j, step) /\ Stays /\ UNCHANGED <<rows, woken>>
<1>1. ASSUME NEW step \in {"del_message", "del_row"}, Going(step), redacted' = redacted
      PROVE  RowOK' /\ JobOK' /\ RunOK' /\ CreatedOnce' /\ InTurn'
  <2>1. /\ JobOK' /\ job'[j].at = step
        /\ \A i \in Jobs : i # j => job'[i] = job[i]
    BY <1>1, JobSteps DEF IInv, Steps
  <2>2. RowOK' /\ RunOK' /\ ticket' = ticket
    BY <1>1 DEF IInv, RowOK, RunOK, rows, Stays, Exists
  <2>3. job'[j].at \notin RoutingSteps \cup {"rest"}
    BY <2>1 DEF RoutingSteps
  <2>4. Working
    BY <1>1 DEF At
  <2>5. CreatedOnce' /\ InTurn'
    BY <1>1, <2>1, <2>2, <2>3, <2>4, GoneOn DEF Exists
  <2> QED
    BY <2>1, <2>2, <2>5
<1>2. CASE DeleteThread(j)
  <2>1. BoundOK' /\ UsersOK' /\ redacted' = redacted
    BY <1>2, HandlerFrame DEF DeleteThread
  <2>2. DiscordOK'
    BY <1>2 DEF DeleteThread, Notice, IInv, DiscordOK, texts
  <2>3. Going("del_message")
    BY <1>2 DEF DeleteThread, At
  <2> QED
    BY <1>1, <2>1, <2>2, <2>3 DEF IInv
<1>3. CASE DeleteMessage(j)
  <2>1. BoundOK' /\ UsersOK' /\ redacted' = redacted
    BY <1>3, HandlerFrame DEF DeleteMessage
  <2>2. DiscordOK'
    BY <1>3 DEF DeleteMessage, Notice, IInv, DiscordOK, texts
  <2>3. Going("del_row")
    BY <1>3 DEF DeleteMessage, At
  <2> QED
    BY <1>1, <2>1, <2>2, <2>3 DEF IInv
<1>4. CASE DeleteRow(j)
  <2>1. BoundOK' /\ UsersOK' /\ redacted' = redacted
    BY <1>4, HandlerFrame DEF DeleteRow
  <2>2. DiscordOK'
    BY <1>4 DEF DeleteRow, IInv, DiscordOK, things, texts
  <2>3. RowOK' /\ ~Exists'
    BY <1>4 DEF DeleteRow, RowOK, Exists
  <2>4. Working /\ EndsJob(j)
    BY <1>4 DEF DeleteRow, At
  <2>5. /\ sent' \in {"no", "current", "stale"} /\ local' \in BOOLEAN
        /\ woken' \in BOOLEAN
    BY <1>4 DEF DeleteRow, IInv, RunOK
  <2>6. JobOK' /\ RunOK' /\ CreatedOnce' /\ InTurn'
    BY <2>1, <2>3, <2>4, <2>5, HandlerEnds
  <2> QED
    BY <2>1, <2>2, <2>3, <2>6 DEF IInv
<1>5. CASE DeletionFails(j)
  <2>1. Fault \/ UNCHANGED bounds
    BY <1>5 DEF DeletionFails
  <2>2. BoundOK' /\ UsersOK' /\ redacted' = redacted
    BY <1>5, <2>1, HandlerFrame DEF DeletionFails
  <2>3. DiscordOK'
    BY <1>5 DEF DeletionFails, IInv, DiscordOK, things, texts
  <2>4. Working
    BY <1>5 DEF DeletionFails, At
  <2>5. CASE PutsOff /\ EndsJob(j)
    <3>1. sent \in {"no", "current", "stale"} /\ local \in BOOLEAN
      BY DEF IInv, RunOK
    <3>2. RowOK' /\ JobOK' /\ RunOK' /\ CreatedOnce' /\ InTurn'
      BY <2>2, <2>4, <2>5, <3>1, PutOff, HandlerEnds
    <3> QED
      BY <2>2, <2>3, <3>2 DEF IInv
  <2>6. CASE j = "locked" /\ Ends(TRUE) /\ UNCHANGED <<rows, woken>>
    <3>1. /\ RowOK' /\ sent' \in {"no", "current", "stale"}
          /\ woken' \in BOOLEAN /\ local' \in BOOLEAN
      BY <2>2, <2>6 DEF IInv, RowOK, RunOK, rows, Exists
    <3>2. JobOK' /\ RunOK' /\ CreatedOnce' /\ InTurn'
      BY <2>2, <2>4, <2>6, <3>1, LockedEnds
    <3> QED
      BY <2>2, <2>3, <3>1, <3>2 DEF IInv
  <2> QED
    BY <1>5, <2>5, <2>6 DEF DeletionFails
<1> QED
  BY <1>2, <1>3, <1>4, <1>5 DEF Deletion

\* The recovery of a creation, and the update of the message, keep the invariant.
LEMMA RecoveryKeeps ==
  ASSUME IInv, Recovery \/ Edit
  PROVE  IInv'
<1>1. /\ redacted \in SUBSET User
      /\ Exists => ticket \in Ticket /\ Sound(ticket, redacted)
      /\ sent \in {"no", "current", "stale"} /\ woken \in BOOLEAN /\ local \in BOOLEAN
  BY DEF IInv, UsersOK, RowOK, RunOK, Exists
<1>2. /\ job["locked"].message \in Message \cup {NoMessage}
      /\ job["locked"].by \in By /\ "locked" \in Jobs
  BY DEF IInv, JobOK, Job, Jobs, By
<1>3. ASSUME Stays, UNCHANGED <<rows, woken>>, redacted' = redacted, ~At("locked", "rest"),
             ~At("locked", "over"), JobOK',
             job'["locked"].at \in {"find_thread", "record", "send", "activate",
                                    "record_thread", "thread", "ack_edit"},
             \A i \in Jobs : i # "locked" => job'[i] = job[i]
      PROVE  RowOK' /\ RunOK' /\ CreatedOnce' /\ InTurn'
  <2>1. RowOK' /\ RunOK' /\ ticket' = ticket
    BY <1>3 DEF IInv, RowOK, RunOK, rows, Stays, Exists
  <2>2. job'["locked"].at \notin RoutingSteps \cup {"rest"}
    BY <1>3 DEF RoutingSteps
  <2>3. CreatedOnce' /\ InTurn'
    BY <1>2, <1>3, <2>1, <2>2, GoneOn DEF Exists
  <2> QED
    BY <2>1, <2>3
<1>4. CASE FindMessage
  <2>1. /\ ~At("locked", "rest") /\ ~At("locked", "over")
        /\ Stays /\ UNCHANGED <<rows, woken>>
    BY <1>4 DEF FindMessage, At
  <2>2. BoundOK' /\ UsersOK' /\ redacted' = redacted
    BY <1>4, HandlerFrame DEF FindMessage
  <2>3. DiscordOK'
    BY <1>4 DEF FindMessage, IInv, DiscordOK, things, texts
  <2>4. /\ JobOK' /\ job'["locked"].at \in {"find_thread", "record", "send"}
        /\ \A i \in Jobs : i # "locked" => job'[i] = job[i]
    <3>1. CASE \E m \in Message \cup {NoMessage}, step \in {"find_thread", "record"} :
                  job' = [job EXCEPT !["locked"].at = step, !["locked"].message = m]
      <4>1. PICK m \in Message \cup {NoMessage}, step \in {"find_thread", "record"} :
                  job' = [job EXCEPT !["locked"].at = step, !["locked"].message = m]
        BY <3>1
      <4>2. step \in Steps
        BY DEF Steps
      <4> QED
        BY <1>2, <4>1, <4>2, JobNotes DEF IInv
    <3>2. CASE Go("locked", "send")
      BY <1>2, <3>2, JobSteps DEF IInv, Steps
    <3>3. /\ Exists => ticket.message \in Message \cup {NoMessage}
          /\ messages \subseteq Message
      BY <1>1 DEF Ticket, IInv, DiscordOK
    <3> QED
      BY <1>4, <3>1, <3>2, <3>3 DEF FindMessage
  <2> QED
    BY <1>3, <2>1, <2>2, <2>3, <2>4 DEF IInv
<1>5. CASE FindThread
  <2>1. ~At("locked", "rest") /\ ~At("locked", "over")
    BY <1>5 DEF FindThread, At
  <2>2. BoundOK' /\ UsersOK' /\ redacted' = redacted
    BY <1>5, HandlerFrame DEF FindThread
  <2>3. DiscordOK'
    BY <1>5 DEF FindThread, IInv, DiscordOK, things, texts
  <2>4. CASE GivesUp("locked")
    BY <1>2, <2>1, <2>2, <2>3, <2>4, GivenUp DEF IInv
  <2>5. CASE /\ Creating /\ BeginsFinishing(job["locked"].by, TRUE, FALSE, TRUE)
             /\ Stays
    <3>1. /\ RowOK' /\ JobOK' /\ CreatedOnce' /\ InTurn'
          /\ sent' \in {"no", "current", "stale"} /\ woken' \in BOOLEAN /\ local' \in BOOLEAN
      BY <1>2, <2>2, <2>5, FinishingBegun DEF Creating
    <3>2. RunOK'
      BY <2>5, <3>1 DEF Stays, IInv, RunOK
    <3> QED
      BY <2>2, <2>3, <3>1, <3>2 DEF IInv
  <2>6. CASE /\ \E step \in {"activate", "record_thread", "thread"},
                   h \in Message \cup {NoMessage} :
                   job' = [job EXCEPT !["locked"].at = step, !["locked"].thread = h]
             /\ Stays /\ UNCHANGED <<rows, woken>>
    <3>1. /\ JobOK' /\ job'["locked"].at \in {"activate", "record_thread", "thread"}
          /\ \A i \in Jobs : i # "locked" => job'[i] = job[i]
      <4>1. PICK step \in {"activate", "record_thread", "thread"},
                 h \in Message \cup {NoMessage} :
                 job' = [job EXCEPT !["locked"].at = step, !["locked"].thread = h]
        BY <2>6
      <4>2. step \in Steps
        BY DEF Steps
      <4> QED
        BY <1>2, <4>1, <4>2, JobNotes DEF IInv
    <3> QED
      BY <1>3, <2>1, <2>2, <2>3, <2>6, <3>1 DEF IInv
  <2>7. Creating => ticket.thread \in Message \cup {NoMessage}
    BY <1>1 DEF Creating, Ticket
  <2> QED
    BY <1>2, <1>5, <2>4, <2>5, <2>6, <2>7 DEF FindThread
<1>6. CASE EditTicket
  <2>1. ~At("locked", "rest") /\ ~At("locked", "over")
    BY <1>6 DEF EditTicket, At
  <2>2. BoundOK' /\ UsersOK' /\ redacted' = redacted
    BY <1>6, HandlerFrame DEF EditTicket
  <2>3. DiscordOK'
    <3>1. Exists => ticket.assignee \in User \cup {NoUser}
      BY <1>1 DEF Ticket
    <3>2. shown' = shown \/ (Exists /\ shown' = ticket.assignee)
      BY <1>6 DEF EditTicket
    <3> QED
      BY <1>6, <3>1, <3>2 DEF EditTicket, IInv, DiscordOK, things
  <2>4. CASE Go("locked", "ack_edit") /\ Stays /\ UNCHANGED <<rows, woken>>
    <3>1. /\ JobOK' /\ job'["locked"].at = "ack_edit"
          /\ \A i \in Jobs : i # "locked" => job'[i] = job[i]
      BY <1>2, <2>4, JobSteps DEF IInv, Steps
    <3> QED
      BY <1>3, <2>1, <2>2, <2>3, <2>4, <3>1 DEF IInv
  <2>5. CASE Exists /\ BeginsFinishing(job["locked"].by, TRUE, FALSE, FALSE) /\ Stays
    <3>1. /\ RowOK' /\ JobOK' /\ CreatedOnce' /\ InTurn'
          /\ sent' \in {"no", "current", "stale"} /\ woken' \in BOOLEAN /\ local' \in BOOLEAN
      BY <1>2, <2>2, <2>5, FinishingBegun
    <3>2. RunOK'
      BY <2>5, <3>1 DEF Stays, IInv, RunOK
    <3> QED
      BY <2>2, <2>3, <3>1, <3>2 DEF IInv
  <2>6. CASE Ends(FALSE) /\ UNCHANGED <<rows, woken>>
    <3>1. /\ RowOK' /\ sent' \in {"no", "current", "stale"}
          /\ woken' \in BOOLEAN /\ local' \in BOOLEAN
      BY <1>1, <2>2, <2>6 DEF IInv, RowOK, rows, Exists
    <3>2. JobOK' /\ RunOK' /\ CreatedOnce' /\ InTurn'
      BY <2>1, <2>2, <2>6, <3>1, LockedEnds
    <3> QED
      BY <2>2, <2>3, <3>1, <3>2 DEF IInv
  <2> QED
    BY <1>6, <2>4, <2>5, <2>6 DEF EditTicket
<1>7. CASE EditFails
  <2>1. /\ ~At("locked", "rest") /\ (Fault \/ UNCHANGED bounds)
        /\ PutsOff /\ Ends(FALSE)
    BY <1>7 DEF EditFails, At
  <2>2. BoundOK' /\ UsersOK' /\ redacted' = redacted
    BY <1>7, <2>1, HandlerFrame DEF EditFails
  <2>3. DiscordOK'
    BY <1>7 DEF EditFails, IInv, DiscordOK, things, texts
  <2>4. RowOK' /\ sent' = sent /\ local' = local /\ woken' \in BOOLEAN
    BY <2>1, <2>2, PutOff
  <2>5. JobOK' /\ RunOK' /\ CreatedOnce' /\ InTurn'
    BY <1>1, <2>1, <2>2, <2>4, LockedEnds
  <2> QED
    BY <2>2, <2>3, <2>4, <2>5 DEF IInv
<1>8. CASE AcknowledgeEdit
  <2>1. /\ ~At("locked", "rest") /\ Ends(FALSE) /\ woken' \in BOOLEAN
        /\ sent' = sent /\ local' = local
        /\ ticket' = IF Exists THEN [ticket EXCEPT !.syncAt = "none"] ELSE ticket
    BY <1>1, <1>8 DEF AcknowledgeEdit, At
  <2>2. BoundOK' /\ UsersOK' /\ redacted' = redacted
    BY <1>8, HandlerFrame DEF AcknowledgeEdit
  <2>3. DiscordOK'
    BY <1>8 DEF AcknowledgeEdit, IInv, DiscordOK, things, texts
  <2>4. RowOK'
    <3>1. CASE Exists
      <4>1. "none" \in Time
        BY DEF Time
      <4>2. ticket' \in Ticket /\ Sound(ticket', redacted)
        BY <1>1, <2>1, <3>1, <4>1, TouchedRow
      <4> QED
        BY <2>2, <4>2 DEF RowOK
    <3>2. CASE ~Exists
      BY <2>1, <3>2 DEF RowOK, Exists
    <3> QED
      BY <3>1, <3>2
  <2>5. JobOK' /\ RunOK' /\ CreatedOnce' /\ InTurn'
    BY <1>1, <2>1, <2>2, LockedEnds
  <2> QED
    BY <2>2, <2>3, <2>4, <2>5 DEF IInv
<1> QED
  BY <1>4, <1>5, <1>6, <1>7, <1>8 DEF Recovery, Edit

\* Whoever is chosen for a new reservation may be pinged.
LEMMA TargetsSound ==
  ASSUME IInv, Exists
  PROVE  Targets \subseteq User \ (redacted \cup {Author})
<1>1. ticket \in Ticket /\ Sound(ticket, redacted)
  BY DEF IInv, RowOK, Exists
<1>2. ticket.direct \in User \cup {NoUser} /\ ticket.direct \notin redacted \cup {Author}
  BY <1>1 DEF Ticket, Sound
<1>3. eligible \subseteq User \ redacted
  BY DEF IInv, UsersOK
<1> QED
  BY <1>2, <1>3 DEF Targets, Candidates

\* The row is written while the handler that has the lock comes to its end.
LEMMA WrittenAndEnded ==
  ASSUME IInv, NEW t \in {Exhausted(ticket), Deferred(ticket)}, Put(t), Exists,
         Ends(FALSE), redacted' = redacted, ~At("locked", "rest"),
         woken' \in BOOLEAN, local' \in BOOLEAN
  PROVE  RowOK' /\ JobOK' /\ RunOK' /\ CreatedOnce' /\ InTurn'
<1>1. ticket \in Ticket /\ Sound(ticket, redacted) /\ redacted \in SUBSET User
  BY DEF IInv, RowOK, UsersOK, Exists
<1>2. ticket' = t /\ sent' \in {"no", "current", "stale"}
  BY CallerTypes DEF IInv
<1>3. t \in Ticket /\ Sound(t, redacted)
  <2>1. "none" \in Time
    BY DEF Time
  <2> QED
    BY <1>1, <2>1, TouchedRow
<1>4. RowOK'
  BY <1>2, <1>3 DEF RowOK
<1>5. JobOK' /\ RunOK' /\ CreatedOnce' /\ InTurn'
  BY <1>2, LockedEnds
<1> QED
  BY <1>4, <1>5

\* The ping of a reviewer keeps the invariant.
LEMMA RoutingKeeps ==
  ASSUME IInv, Routing
  PROVE  IInv'
<1>1. /\ redacted \in SUBSET User
      /\ Exists => ticket \in Ticket /\ Sound(ticket, redacted)
      /\ sent \in {"no", "current", "stale"} /\ woken \in BOOLEAN /\ local \in BOOLEAN
  BY DEF IInv, UsersOK, RowOK, RunOK, Exists
<1>2. job["locked"].by \in By /\ "locked" \in Jobs
  BY DEF IInv, JobOK, Job, Jobs, By
<1>3. ASSUME Ends(FALSE), ~At("locked", "rest"), UNCHANGED <<ticket, sent, woken, local>>,
             redacted' = redacted
      PROVE  RowOK' /\ JobOK' /\ RunOK' /\ CreatedOnce' /\ InTurn'
  <2>1. RowOK'
    BY <1>3 DEF IInv, RowOK, Exists
  <2> QED
    BY <1>1, <1>3, <2>1, LockedEnds
<1>4. ASSUME NEW a \in BOOLEAN, NEW b \in BOOLEAN, NEW d \in BOOLEAN, Exists,
             BeginsFinishing(job["locked"].by, a, b, d), Stays, UsersOK', redacted' = redacted
      PROVE  RowOK' /\ JobOK' /\ RunOK' /\ CreatedOnce' /\ InTurn'
  <2>1. /\ RowOK' /\ JobOK' /\ CreatedOnce' /\ InTurn'
        /\ sent' \in {"no", "current", "stale"} /\ woken' \in BOOLEAN /\ local' \in BOOLEAN
    BY <1>2, <1>4, FinishingBegun
  <2>2. RunOK'
    BY <1>4, <2>1 DEF Stays, IInv, RunOK
  <2> QED
    BY <2>1, <2>2
\* The handler goes on, with the row that it has.
<1>5. ASSUME NEW step \in {"settle", "check", "ping", "ack_ping"}, Go("locked", step), Stays,
             Exists, ticket.pending # NoPing,
             step # "ack_ping" => Open /\ ~ticket.protected,
             ticket' = ticket, redacted' = redacted, ~At("locked", "rest"),
             sent' \in {"no", "current", "stale"}, woken' \in BOOLEAN, local' \in BOOLEAN
      PROVE  RowOK' /\ JobOK' /\ RunOK' /\ CreatedOnce' /\ InTurn'
  <2>1. JobOK' /\ job'["locked"].at = step /\ job'["create"] = job["create"]
    BY <1>2, <1>5, JobSteps DEF IInv, Steps, Jobs
  <2>2. RowOK' /\ RunOK'
    BY <1>5 DEF IInv, RowOK, RunOK, Exists, Stays
  <2>3. CreatedOnce'
    BY <1>5, <2>1, LockedStep
  <2>4. InTurn'
    BY <1>5, <2>1 DEF InTurn, InRouting, Settling, Open, Exists
  <2> QED
    BY <2>1, <2>2, <2>3, <2>4
<1>6. /\ InRouting /\ Exists => Open /\ ~ticket.protected
      /\ Settling /\ Exists => ticket.pending # NoPing
  BY DEF IInv, InTurn
<1>7. CASE Route
  <2>1. ~At("locked", "rest") /\ InRouting
    BY <1>7 DEF Route, At, InRouting
  <2>2. BoundOK' /\ UsersOK' /\ redacted' = redacted
    BY <1>7, HandlerFrame DEF Route
  <2>3. posted' \in BOOLEAN
    BY <1>7 DEF Route, IInv, DiscordOK
  <2>4. DiscordOK'
    BY <1>7, <2>3 DEF Route, IInv, DiscordOK, things
  <2>5. woken' \in BOOLEAN
    BY <1>1, <1>7 DEF Route
  <2>6. CASE /\ Open /\ ticket.pending # NoPing /\ Go("locked", "settle") /\ Stays
             /\ UNCHANGED rows
    BY <1>1, <1>5, <1>6, <2>1, <2>2, <2>4, <2>5, <2>6 DEF IInv, rows, Open
  <2>7. CASE /\ Open /\ Go("locked", "settle") /\ Stays /\ local' = TRUE
             /\ \E u \in Targets : Put(Reserved(ticket, u, ticket.next = "automatic_ping"))
    <3>1. PICK u \in Targets, a \in BOOLEAN : Put(Reserved(ticket, u, a))
      <4>1. (ticket.next = "automatic_ping") \in BOOLEAN
        OBVIOUS
      <4> QED
        BY <2>7, <4>1
    <3>2. Exists /\ ticket.state = "open" /\ ~ticket.protected
      BY <1>6, <2>1, <2>7 DEF Open
    <3>3. u \in User \ (redacted \cup {Author})
      BY <3>2, TargetsSound
    <3>4. /\ ticket' = Reserved(ticket, u, a)
          /\ sent' \in {"no", "current", "stale"}
      BY <3>1, CallerTypes DEF IInv
    <3>5. /\ ticket' \in Ticket /\ Sound(ticket', redacted) /\ ticket'.state = "open"
          /\ ~ticket'.protected /\ ticket'.pending # NoPing
      <4>1. /\ ticket' \in Ticket /\ Sound(ticket', redacted) /\ ticket'.state = "open"
            /\ ticket'.protected = ticket.protected /\ ticket'.pending # NoPing
        <5>1. ticket \in Ticket /\ Sound(ticket, redacted) /\ redacted \in SUBSET User
          BY <1>1, <3>2
        <5>2. LET s == Reserved(ticket, u, a)
              IN  /\ s \in Ticket /\ Sound(s, redacted) /\ s.state = "open"
                  /\ s.protected = ticket.protected /\ s.pending # NoPing
          BY <3>2, <3>3, <5>1, PingedRow
        <5> QED
          BY <3>4, <5>2
      <4> QED
        BY <3>2, <4>1
    <3>6. JobOK' /\ job'["locked"].at = "settle" /\ job'["create"] = job["create"]
      BY <1>2, <2>7, JobSteps DEF IInv, Steps, Jobs
    <3>7. RowOK' /\ RunOK'
      BY <2>2, <2>5, <2>7, <3>4, <3>5 DEF IInv, RowOK, RunOK, Stays
    <3>8. CreatedOnce'
      BY <2>1, <2>2, <3>6, LockedStep
    <3>9. InTurn'
      BY <3>5 DEF InTurn, Open
    <3> QED
      BY <2>2, <2>4, <3>6, <3>7, <3>8, <3>9 DEF IInv
  <2>8. CASE Open /\ Put(Exhausted(ticket)) /\ Ends(FALSE) /\ UNCHANGED local
    BY <1>1, <2>1, <2>2, <2>4, <2>5, <2>8, WrittenAndEnded DEF IInv, Open
  <2>9. CASE Ends(FALSE) /\ UNCHANGED rows
    BY <1>1, <1>3, <1>7, <2>1, <2>2, <2>4, <2>9 DEF IInv, rows, Route
  <2> QED
    BY <1>7, <2>6, <2>7, <2>8, <2>9 DEF Route
<1>8. CASE Settle
  <2>1. ~At("locked", "rest") /\ InRouting /\ Settling
    BY <1>8 DEF Settle, At, InRouting, Settling
  <2>2. BoundOK' /\ UsersOK' /\ redacted' = redacted
    BY <1>8, HandlerFrame DEF Settle
  <2>3. DiscordOK'
    BY <1>8 DEF Settle, IInv, DiscordOK, things, texts
  <2>4. CASE /\ \E step \in {"ack_ping", "check"} : Go("locked", step)
             /\ sent' \in {"current", "no", sent} /\ Exists
             /\ Stays /\ UNCHANGED <<ticket, local, woken>>
    <3>1. PICK step \in {"ack_ping", "check"} : Go("locked", step)
      BY <2>4
    <3>2. RowOK' /\ JobOK' /\ RunOK' /\ CreatedOnce' /\ InTurn'
      BY <1>1, <1>5, <1>6, <2>1, <2>2, <2>4, <3>1
    <3> QED
      BY <2>2, <2>3, <3>2 DEF IInv
  <2>5. CASE Exists /\ BeginsFinishing(job["locked"].by, FALSE, TRUE, TRUE) /\ Stays
    BY <1>4, <2>2, <2>3, <2>5 DEF IInv
  <2>6. CASE Ends(FALSE) /\ UNCHANGED <<rows, woken>>
    BY <1>3, <2>1, <2>2, <2>3, <2>6 DEF IInv, rows
  <2> QED
    BY <1>8, <2>4, <2>5, <2>6 DEF Settle, rows
<1>9. CASE Check
  <2>1. ~At("locked", "rest") /\ InRouting /\ Settling
    BY <1>9 DEF Check, At, InRouting, Settling
  <2>2. BoundOK' /\ UsersOK' /\ redacted' = redacted
    BY <1>9, HandlerFrame DEF Check
  <2>3. DiscordOK'
    BY <1>9 DEF Check, IInv, DiscordOK, things, texts
  <2>4. woken' = woken
    BY <1>9 DEF Check
  <2>5. CASE Exists /\ Go("locked", "ping") /\ Stays /\ UNCHANGED rows
    <3>1. RowOK' /\ JobOK' /\ RunOK' /\ CreatedOnce' /\ InTurn'
      BY <1>1, <1>5, <1>6, <2>1, <2>2, <2>4, <2>5 DEF rows
    <3> QED
      BY <2>2, <2>3, <3>1 DEF IInv
  <2>6. CASE Exists /\ Put(Cancelled(ticket)) /\ local' = FALSE /\ Go("locked", "route") /\ Stays
    <3>1. ticket.state = "open" /\ ~ticket.protected
      BY <1>6, <2>1, <2>6 DEF Open
    <3>2. ticket' = Cancelled(ticket) /\ sent' \in {"no", "current", "stale"}
      BY <2>6, CallerTypes DEF IInv
    <3>3. /\ ticket' \in Ticket /\ Sound(ticket', redacted)
          /\ ticket'.state = "open" /\ ~ticket'.protected
      <4>1. ticket \in Ticket /\ Sound(ticket, redacted) /\ redacted \in SUBSET User
        BY <1>1, <2>6
      <4>2. LET s == Cancelled(ticket)
            IN  /\ s \in Ticket /\ Sound(s, redacted) /\ s.state = ticket.state
                /\ s.protected = ticket.protected
        BY <4>1, TouchedRow
      <4> QED
        BY <3>1, <3>2, <4>2
    <3>4. JobOK' /\ job'["locked"].at = "route" /\ job'["create"] = job["create"]
      BY <1>2, <2>6, JobSteps DEF IInv, Steps, Jobs
    <3>5. RowOK' /\ RunOK'
      BY <1>1, <2>2, <2>4, <2>6, <3>2, <3>3 DEF IInv, RowOK, RunOK, Stays
    <3>6. CreatedOnce'
      BY <2>1, <2>2, <3>4, LockedStep
    <3>7. InTurn'
      BY <3>3, <3>4 DEF InTurn, Open, Settling
    <3> QED
      BY <2>2, <2>3, <3>4, <3>5, <3>6, <3>7 DEF IInv
  <2>7. CASE Ends(FALSE) /\ UNCHANGED rows
    BY <1>3, <2>1, <2>2, <2>3, <2>4, <2>7 DEF IInv, rows
  <2> QED
    BY <1>9, <2>5, <2>6, <2>7 DEF Check
<1>10. CASE GatewayUnavailable
  <2>1. ~At("locked", "rest")
    BY <1>10 DEF GatewayUnavailable, At
  <2>2. /\ Fault /\ Exists /\ Put(Deferred(ticket)) /\ woken' = TRUE /\ Ends(FALSE)
        /\ UNCHANGED <<local, eligible, things, texts>>
    BY <1>10 DEF GatewayUnavailable
  <2>3. BoundOK' /\ UsersOK' /\ redacted' = redacted
    BY <2>2, HandlerFrame
  <2>4. DiscordOK'
    BY <2>2 DEF IInv, DiscordOK, things, texts
  <2> QED
    BY <1>1, <2>1, <2>2, <2>3, <2>4, WrittenAndEnded DEF IInv
<1>11. CASE PingReviewer
  <2>1. ~At("locked", "rest") /\ InRouting /\ Settling
    BY <1>11 DEF PingReviewer, At, InRouting, Settling
  <2>2. Fault \/ UNCHANGED bounds
    BY <1>11 DEF PingReviewer
  <2>3. BoundOK' /\ UsersOK' /\ redacted' = redacted
    BY <1>11, <2>2, HandlerFrame DEF PingReviewer
  <2>4. DiscordOK'
    <3>1. Exists => ticket.pending.user \in User
      BY <1>1, <1>6, <2>1 DEF Ticket, Ping
    <3>2. heard' \in [User -> Nat] /\ posted' \in BOOLEAN
      <4>1. CASE Exists /\ Delivered
        <5>1. heard \in [User -> Nat]
          BY DEF IInv, DiscordOK
        <5>2. heard[ticket.pending.user] + 1 \in Nat
          BY <3>1, <4>1, <5>1
        <5> QED
          BY <3>1, <4>1, <5>1, <5>2 DEF Delivered
      <4>2. CASE UNCHANGED <<heard, posted>>
        BY <4>2 DEF IInv, DiscordOK
      <4> QED
        BY <1>11, <4>1, <4>2 DEF PingReviewer
    <3>3. UNCHANGED <<things, shown>>
      BY <1>11 DEF PingReviewer
    <3> QED
      BY <3>2, <3>3 DEF IInv, DiscordOK, things
  <2>5. CASE /\ Exists /\ sent' = "current" /\ Go("locked", "ack_ping") /\ Stays
             /\ UNCHANGED <<ticket, local, woken>>
    <3>1. RowOK' /\ JobOK' /\ RunOK' /\ CreatedOnce' /\ InTurn'
      BY <1>1, <1>5, <1>6, <2>1, <2>3, <2>5
    <3> QED
      BY <2>3, <2>4, <3>1 DEF IInv
  <2>6. CASE Exists /\ PingLater
    BY <1>1, <2>1, <2>3, <2>4, <2>6, WrittenAndEnded DEF PingLater, IInv
  <2>7. CASE Exists /\ BeginsFinishing(job["locked"].by, FALSE, TRUE, FALSE) /\ Stays
    BY <1>4, <2>3, <2>4, <2>7 DEF IInv
  <2>8. CASE Ends(FALSE) /\ UNCHANGED <<rows, woken>>
    BY <1>3, <2>1, <2>3, <2>4, <2>8 DEF IInv, rows
  <2> QED
    BY <1>11, <2>5, <2>6, <2>7, <2>8 DEF PingReviewer
<1>12. CASE AcknowledgePing
  <2>1. ~At("locked", "rest") /\ Settling
    BY <1>12 DEF AcknowledgePing, At, Settling
  <2>2. BoundOK' /\ UsersOK' /\ redacted' = redacted
    BY <1>12, HandlerFrame DEF AcknowledgePing
  <2>3. DiscordOK'
    BY <1>12 DEF AcknowledgePing, IInv, DiscordOK, things, texts
  <2>4. sent' = "no" /\ local' = FALSE /\ woken' = woken
    BY <1>12 DEF AcknowledgePing
  <2>5. CASE Exists /\ ticket' = Acknowledged(ticket) /\ Go("locked", "edit") /\ Stays
    <3>1. ticket' \in Ticket /\ Sound(ticket', redacted)
      BY <1>1, <1>6, <2>1, <2>5, PingedRow
    <3>2. JobOK' /\ job'["locked"].at = "edit" /\ job'["create"] = job["create"]
      BY <1>2, <2>5, JobSteps DEF IInv, Steps, Jobs
    <3>3. CreatedOnce' /\ InTurn'
      BY <2>1, <2>2, <3>2, LockedStep DEF RoutingSteps
    <3>4. RowOK' /\ RunOK'
      BY <1>1, <2>2, <2>4, <2>5, <3>1 DEF IInv, RowOK, RunOK, Stays
    <3> QED
      BY <2>2, <2>3, <3>2, <3>3, <3>4 DEF IInv
  <2>6. CASE Ends(FALSE) /\ UNCHANGED ticket
    <3>1. RowOK'
      BY <2>2, <2>6 DEF IInv, RowOK, Exists
    <3>2. JobOK' /\ RunOK' /\ CreatedOnce' /\ InTurn'
      BY <1>1, <2>1, <2>2, <2>4, <2>6, LockedEnds
    <3> QED
      BY <2>2, <2>3, <3>1, <3>2 DEF IInv
  <2> QED
    BY <1>12, <2>5, <2>6 DEF AcknowledgePing
<1>13. CASE SettlementFails
  <2>1. ~At("locked", "rest")
    BY <1>13 DEF SettlementFails, At
  <2>2. Fault /\ Ends(TRUE) /\ UNCHANGED <<rows, woken, eligible, things, texts>>
    BY <1>13 DEF SettlementFails
  <2>3. BoundOK' /\ UsersOK' /\ redacted' = redacted
    BY <2>2, HandlerFrame
  <2>4. DiscordOK'
    BY <2>2 DEF IInv, DiscordOK, things, texts
  <2>5. RowOK'
    BY <2>2, <2>3 DEF IInv, RowOK, rows, Exists
  <2>6. JobOK' /\ RunOK' /\ CreatedOnce' /\ InTurn'
    BY <1>1, <2>1, <2>2, <2>3, LockedEnds DEF rows
  <2> QED
    BY <2>3, <2>4, <2>5, <2>6 DEF IInv
<1> QED
  BY <1>7, <1>8, <1>9, <1>10, <1>11, <1>12, <1>13 DEF Routing

\* The buttons, the deadline scheduler and the restoration keep the invariant.
LEMMA ServingKeeps ==
  ASSUME IInv, Button \/ Scheduler \/ Restoration
  PROVE  IInv'
<1>1. /\ redacted \in SUBSET User
      /\ Exists => ticket \in Ticket /\ Sound(ticket, redacted)
      /\ sent \in {"no", "current", "stale"} /\ woken \in BOOLEAN /\ local \in BOOLEAN
  BY DEF IInv, UsersOK, RowOK, RunOK, Exists
\* The row is written and the message is to be updated.
<1>2. ASSUME NEW by \in By, NEW t \in Ticket, Put(t), Takes("edit", by), Stays, Exists,
             Sound(t, redacted), redacted' = redacted, UNCHANGED <<local, woken>>
      PROVE  RowOK' /\ JobOK' /\ RunOK' /\ CreatedOnce' /\ InTurn'
  <2>1. ticket' = t /\ sent' \in {"no", "current", "stale"}
    BY <1>2, CallerTypes DEF IInv
  <2>2. RowOK' /\ RunOK'
    BY <1>2, <2>1 DEF IInv, RowOK, RunOK, Stays
  <2> QED
    BY <1>2, <2>2, Begun
\* A handler is begun for the row as it is.
<1>3. ASSUME NEW by \in By, NEW step \in {"find_message", "edit"}, Takes(step, by), Stays,
             Exists, redacted' = redacted, UNCHANGED <<rows, woken>>
      PROVE  RowOK' /\ JobOK' /\ RunOK' /\ CreatedOnce' /\ InTurn'
  <2>1. RowOK' /\ RunOK'
    BY <1>3 DEF IInv, RowOK, RunOK, Stays, rows, Exists
  <2> QED
    BY <1>3, <2>1, Begun
\* No handler is begun.
<1>4. ASSUME UNCHANGED <<ticket, job, sent, local, resync>>, woken' \in BOOLEAN,
             redacted' = redacted,
             restore' \in {"down", "list", "cleanup", "due", "serve", "done"},
             sched' \in {"off", "clear", "read", "wait", "sleep", "query", "serve"}
      PROVE  RowOK' /\ JobOK' /\ RunOK' /\ CreatedOnce' /\ InTurn'
  <2>1. RowOK' /\ RunOK'
    BY <1>4 DEF IInv, RowOK, RunOK, Exists
  <2> QED
    BY <1>4, <2>1, Untouched DEF Exists
<1>5. ASSUME NEW by \in By, Returns(by), Free, redacted' = redacted,
             ticket' = ticket \/ ~Exists' \/ (ticket' \in Ticket /\ Sound(ticket', redacted)),
             Exists' => Exists, sent' \in {"no", "current", "stale"},
             woken' \in BOOLEAN, local' \in BOOLEAN
      PROVE  RowOK' /\ JobOK' /\ RunOK' /\ CreatedOnce' /\ InTurn'
  <2>1. /\ restore' \in {"down", "list", "cleanup", "due", "serve", "done"}
        /\ sched' \in {"off", "clear", "read", "wait", "sleep", "query", "serve"}
        /\ UNCHANGED <<job, resync>>
    BY <1>5, CallerTypes DEF Returns, IInv
  <2>2. RowOK' /\ RunOK'
    BY <1>5, <2>1 DEF IInv, RowOK, RunOK, Exists
  <2> QED
    BY <1>5, <2>1, <2>2, Untouched DEF Free
<1>6. ASSUME NEW by \in By, DeletesRest(by), Exists, redacted' = redacted
      PROVE  RowOK' /\ JobOK' /\ RunOK' /\ CreatedOnce' /\ InTurn'
  <2>1. /\ ticket.message \in Message \cup {NoMessage}
        /\ ticket.thread \in Message \cup {NoMessage}
    BY <1>1, <1>6 DEF Ticket
  <2>2. JobOK' /\ job'["locked"].at = "del_thread" /\ job'["create"] = job["create"]
    BY <1>6, <2>1, JobNotes DEF DeletesRest, IInv, Jobs
  <2>3. CreatedOnce' /\ InTurn'
    BY <1>6, <2>2, LockedStep DEF RoutingSteps
  <2>4. RowOK' /\ RunOK'
    BY <1>6 DEF DeletesRest, IInv, RowOK, RunOK, Stays, Exists
  <2> QED
    BY <2>2, <2>3, <2>4
<1>7. ASSUME NEW by \in By, Recovers(by), redacted' = redacted
      PROVE  RowOK' /\ JobOK' /\ RunOK' /\ CreatedOnce' /\ InTurn'
  BY <1>3, <1>6, <1>7 DEF Recovers, Creating, Closing
<1>8. ASSUME NEW by \in By, ProcessDue(by), Free, redacted' = redacted
      PROVE  RowOK' /\ JobOK' /\ RunOK' /\ CreatedOnce' /\ InTurn'
  <2>1. CASE Recovers(by)
    BY <1>7, <1>8, <2>1
  <2>2. CASE Active /\ Takes("edit", by) /\ Stays /\ UNCHANGED <<rows, woken>>
    BY <1>3, <1>8, <2>2 DEF Active
  <2>3. CASE Returns(by) /\ UNCHANGED <<rows, woken>>
    BY <1>1, <1>5, <1>8, <2>3 DEF rows, Exists
  <2>4. CASE /\ RoutingDue /\ ticket.next \in PingAction /\ ~ticket.protected
             /\ Takes("route", by) /\ Stays /\ UNCHANGED <<rows, woken>>
    <3>1. JobOK' /\ job'["locked"].at = "route" /\ job'["create"] = job["create"]
      BY <2>4, JobSteps DEF IInv, Steps
    <3>2. RowOK' /\ RunOK'
      BY <1>8, <2>4 DEF IInv, RowOK, RunOK, Stays, rows, Exists
    <3>3. CreatedOnce'
      BY <1>8, <2>4, <3>1, LockedStep DEF RoutingDue, Open
    <3>4. InTurn'
      BY <2>4, <3>1 DEF InTurn, Settling, RoutingDue, Open, rows, Exists
    <3> QED
      BY <3>1, <3>2, <3>3, <3>4
  <2>5. CASE /\ RoutingDue /\ Returns(by) /\ woken' \in BOOLEAN /\ UNCHANGED local
             /\ Put(Exhausted(ticket)) \/ Put(Deferred(ticket))
    <3>1. PICK t \in {Exhausted(ticket), Deferred(ticket)} : Put(t)
      BY <2>5
    <3>2. Exists /\ "none" \in Time
      BY <2>5 DEF RoutingDue, Open, Time
    <3>3. t \in Ticket /\ Sound(t, redacted)
      BY <1>1, <3>2, TouchedRow
    <3>4. ticket' = t /\ sent' \in {"no", "current", "stale"}
      BY <3>1, CallerTypes DEF IInv
    <3>5. local' \in BOOLEAN
      BY <1>1, <2>5
    <3> QED
      BY <1>5, <1>8, <2>5, <3>2, <3>3, <3>4, <3>5
  <2>6. CASE /\ RoutingDue /\ ticket.target # NoUser /\ Put(TimedOut(ticket))
             /\ Takes("edit", by) /\ Stays /\ UNCHANGED <<local, woken>>
    <3>1. Exists /\ ticket.state = "open"
      BY <2>6 DEF RoutingDue, Open
    <3>2. TimedOut(ticket) \in Ticket /\ Sound(TimedOut(ticket), redacted)
      BY <1>1, <2>6, <3>1, UserAssumption, PressedRow
    <3> QED
      BY <1>2, <1>8, <2>6, <3>1, <3>2
  <2> QED
    BY <1>1, <1>8, <2>1, <2>2, <2>3, <2>4, <2>5, <2>6 DEF ProcessDue
<1>9. ASSUME Button
      PROVE  IInv'
  <2>1. Free /\ Exists /\ UNCHANGED <<eligible, things, texts, bounds>>
    BY <1>9 DEF Button, Claim, Decline, Unassign, MarkFinished, Open, Active
  <2>2. BoundOK' /\ UsersOK' /\ redacted' = redacted
    BY <2>1, HandlerFrame
  <2>3. DiscordOK'
    BY <2>1 DEF IInv, DiscordOK, things, texts
  <2>4. "user" \in By
    BY DEF By
  <2>5. ASSUME NEW u \in User, Claim(u) PROVE IInv'
    <3>1. Claimed(ticket, u) \in Ticket /\ Sound(Claimed(ticket, u), redacted)
      BY <1>1, <2>1, PressedRow
    <3>2. RowOK' /\ JobOK' /\ RunOK' /\ CreatedOnce' /\ InTurn'
      BY <1>2, <2>1, <2>2, <2>4, <2>5, <3>1 DEF Claim
    <3> QED
      BY <2>2, <2>3, <3>2 DEF IInv
  <2>6. ASSUME NEW u \in User, Decline(u) PROVE IInv'
    <3>1. ticket.state = "open"
      BY <2>6 DEF Decline, Open
    <3>2. Declined(ticket, u) \in Ticket /\ Sound(Declined(ticket, u), redacted)
      BY <1>1, <2>1, <3>1, PressedRow
    <3>3. CASE Takes("edit", "user")
      <4>1. RowOK' /\ JobOK' /\ RunOK' /\ CreatedOnce' /\ InTurn'
        BY <1>2, <2>1, <2>2, <2>4, <2>6, <3>2, <3>3 DEF Decline
      <4> QED
        BY <2>2, <2>3, <4>1 DEF IInv
    <3>4. CASE UNCHANGED job
      <4>1. ticket' = Declined(ticket, u) /\ sent' \in {"no", "current", "stale"}
        BY <2>6, CallerTypes DEF Decline, IInv
      <4>2. RowOK'
        BY <2>2, <3>2, <4>1 DEF RowOK
      <4>3. RunOK'
        BY <1>1, <2>6, <4>1 DEF Decline, Stays, IInv, RunOK
      <4>4. JobOK' /\ CreatedOnce' /\ InTurn'
        BY <2>1, <2>2, <3>4, Untouched DEF Free
      <4> QED
        BY <2>2, <2>3, <4>2, <4>3, <4>4 DEF IInv
    <3> QED
      BY <2>6, <3>3, <3>4 DEF Decline
  <2>7. CASE Unassign
    <3>1. ticket.state = "claimed"
      BY <2>7 DEF Unassign
    <3>2. Unassigned(ticket) \in Ticket /\ Sound(Unassigned(ticket), redacted)
      BY <1>1, <2>1, <3>1, UserAssumption, PressedRow
    <3>3. RowOK' /\ JobOK' /\ RunOK' /\ CreatedOnce' /\ InTurn'
      BY <1>2, <2>1, <2>2, <2>4, <2>7, <3>2 DEF Unassign
    <3> QED
      BY <2>2, <2>3, <3>3 DEF IInv
  <2>8. CASE MarkFinished
    <3>1. BeginsFinishing("user", FALSE, FALSE, TRUE) /\ Stays
      BY <2>8 DEF MarkFinished
    <3>2. /\ RowOK' /\ JobOK' /\ CreatedOnce' /\ InTurn'
          /\ sent' \in {"no", "current", "stale"} /\ woken' \in BOOLEAN /\ local' \in BOOLEAN
      BY <2>1, <2>2, <2>4, <3>1, FinishingBegun
    <3>3. RunOK'
      BY <3>1, <3>2 DEF Stays, IInv, RunOK
    <3> QED
      BY <2>2, <2>3, <3>2, <3>3 DEF IInv
  <2> QED
    BY <1>9, <2>5, <2>6, <2>7, <2>8 DEF Button
<1>10. ASSUME Scheduler
       PROVE  IInv'
  <2>1. UNCHANGED <<eligible, things, texts>> /\ (Fault \/ UNCHANGED bounds)
    BY <1>10 DEF Scheduler, Clear, ReadDeadline, Wake, Timer, Query, Serve, SchedulerFails
  <2>2. BoundOK' /\ UsersOK' /\ redacted' = redacted
    BY <2>1, HandlerFrame
  <2>3. DiscordOK'
    BY <2>1 DEF IInv, DiscordOK, things, texts
  <2>4. CASE Serve
    <3>1. "sched" \in By
      BY DEF By
    <3>2. RowOK' /\ JobOK' /\ RunOK' /\ CreatedOnce' /\ InTurn'
      BY <1>8, <2>2, <2>4, <3>1 DEF Serve
    <3> QED
      BY <2>2, <2>3, <3>2 DEF IInv
  <2>5. CASE Clear \/ ReadDeadline \/ Wake \/ Timer \/ Query \/ SchedulerFails
    <3>1. /\ UNCHANGED <<ticket, job, sent, local, resync, restore>>
          /\ woken' \in {FALSE, woken}
          /\ sched' \in {"read", "wait", "query", "sleep", "clear", "serve"}
      BY <2>5 DEF Clear, ReadDeadline, Wake, Timer, Query, SchedulerFails, rows
    <3>2. woken' \in BOOLEAN
      BY <1>1, <3>1
    <3>3. restore' \in {"down", "list", "cleanup", "due", "serve", "done"}
      BY <3>1 DEF IInv, RunOK
    <3>4. RowOK' /\ JobOK' /\ RunOK' /\ CreatedOnce' /\ InTurn'
      BY <1>4, <2>2, <3>1, <3>2, <3>3
    <3> QED
      BY <2>2, <2>3, <3>4 DEF IInv
  <2> QED
    BY <1>10, <2>4, <2>5 DEF Scheduler
<1>11. ASSUME Restoration
       PROVE  IInv'
  <2>1. UNCHANGED <<eligible, things, texts, bounds>>
    BY <1>11 DEF Restoration, Load, List, RestoreCleanup, ListDue, RestoreDue
  <2>2. BoundOK' /\ UsersOK' /\ redacted' = redacted
    BY <2>1, HandlerFrame
  <2>3. DiscordOK'
    BY <2>1 DEF IInv, DiscordOK, things, texts
  <2>4. "restore" \in By
    BY DEF By
  <2>5. CASE RestoreDue
    <3>1. RowOK' /\ JobOK' /\ RunOK' /\ CreatedOnce' /\ InTurn'
      BY <1>8, <2>2, <2>4, <2>5 DEF RestoreDue
    <3> QED
      BY <2>2, <2>3, <3>1 DEF IInv
  <2>6. CASE RestoreCleanup
    <3>1. CASE Recovers("restore")
      <4>1. RowOK' /\ JobOK' /\ RunOK' /\ CreatedOnce' /\ InTurn'
        BY <1>7, <2>2, <2>4, <3>1
      <4> QED
        BY <2>2, <2>3, <4>1 DEF IInv
    <3>2. CASE /\ Returns("restore") /\ UNCHANGED <<ticket, woken>>
               /\ sent' = IF Exists THEN sent ELSE "no"
               /\ local' = (local /\ Exists)
      <4>1. sent' \in {"no", "current", "stale"} /\ woken' \in BOOLEAN
        BY <1>1, <3>2
      <4>2. local' \in BOOLEAN
        BY <3>2
      <4>3. RowOK' /\ JobOK' /\ RunOK' /\ CreatedOnce' /\ InTurn'
        BY <1>5, <2>2, <2>4, <2>6, <3>2, <4>1, <4>2 DEF Exists, RestoreCleanup
      <4> QED
        BY <2>2, <2>3, <4>3 DEF IInv
    <3> QED
      BY <2>6, <3>1, <3>2 DEF RestoreCleanup
  <2>7. CASE Load \/ List \/ ListDue
    <3>1. /\ UNCHANGED <<ticket, job, sent, local, resync, woken>>
          /\ restore' \in {"list", "cleanup", "due", "serve", "done"}
          /\ sched' \in {sched, "clear"}
      BY <2>7 DEF Load, List, ListDue, rows
    <3>2. sched' \in {"off", "clear", "read", "wait", "sleep", "query", "serve"}
      BY <3>1 DEF IInv, RunOK
    <3>3. RowOK' /\ JobOK' /\ RunOK' /\ CreatedOnce' /\ InTurn'
      BY <1>1, <1>4, <2>2, <3>1, <3>2
    <3> QED
      BY <2>2, <2>3, <3>3 DEF IInv
  <2> QED
    BY <1>11, <2>5, <2>6, <2>7 DEF Restoration
<1> QED
  BY <1>9, <1>10, <1>11

\* The requests, deletions, erasures, the end of the process and time keep the
\* invariant.
LEMMA WorldKeeps ==
  ASSUME IInv,
         \/ Create \/ Tick \/ Event \/ Resync \/ ModeratorDeletes \/ Crash
         \/ \E u \in User : ToggleProfile(u) \/ Redact(u)
  PROVE  IInv'
<1>1. /\ redacted \in SUBSET User
      /\ Exists => ticket \in Ticket /\ Sound(ticket, redacted)
      /\ sent \in {"no", "current", "stale"} /\ woken \in BOOLEAN /\ local \in BOOLEAN
  BY DEF IInv, UsersOK, RowOK, RunOK, Exists
<1>2. "create" \in Jobs /\ "locked" \in Jobs /\ {"user", "event"} \subseteq By
  BY DEF Jobs, By
<1>3. CASE Create
  <2>1. /\ ~Exists /\ At("locked", "rest") /\ redacted = {}
        /\ Go("create", "send") /\ Stays
        /\ UNCHANGED <<sent, local, woken, eligible, things, texts, bounds>>
    BY <1>3 DEF Create, IInv, CreatedOnce, At
  <2>2. BoundOK' /\ UsersOK' /\ redacted' = redacted
    BY <2>1, HandlerFrame
  <2>3. DiscordOK' /\ RunOK'
    BY <2>1 DEF IInv, DiscordOK, RunOK, things, texts, Stays
  <2>4. RowOK'
    <3>1. PICK r \in Requests : ticket' = Created(r.mode, r.direct)
      BY <1>3 DEF Create
    <3>2. ticket' \in Ticket /\ Sound(ticket', {})
      BY <3>1, NewRow
    <3> QED
      BY <2>1, <2>2, <3>2 DEF RowOK
  <2>5. JobOK' /\ job'["create"].at = "send" /\ job'["locked"] = job["locked"]
    BY <1>2, <2>1, JobSteps DEF IInv, Steps
  <2>6. CreatedOnce' /\ InTurn'
    BY <2>1, <2>2, <2>5 DEF CreatedOnce, InTurn, InRouting, Settling, At
  <2> QED
    BY <2>2, <2>3, <2>4, <2>5, <2>6 DEF IInv
<1>4. CASE Tick
  <2>1. PICK t \in {[ticket EXCEPT !.nextAt = "due"], [ticket EXCEPT !.syncAt = "due"],
                    [ticket EXCEPT !.protected = FALSE]} : Ages(t)
    BY <1>4 DEF Tick, NextDue, SyncDue, ProtectionEnds
  <2>2. Exists /\ "due" \in Time
    BY <1>4 DEF Tick, NextDue, SyncDue, ProtectionEnds, Time
  <2>3. /\ ticket' = t
        /\ UNCHANGED <<sent, local, running, eligible, things, texts, bounds>>
    BY <2>1 DEF Ages
  <2>4. /\ t \in Ticket /\ Sound(t, redacted) /\ t.state = ticket.state
        /\ t.protected => ticket.protected
        /\ t.pending = ticket.pending
    <3>1. CASE t = [ticket EXCEPT !.protected = FALSE]
      BY <1>1, <2>2, <3>1, TouchedRow
    <3>2. CASE t = [ticket EXCEPT !.nextAt = "due"]
      <4>1. t.protected = ticket.protected /\ t.state = ticket.state /\ t.pending = ticket.pending
        BY <1>1, <2>2, <3>2, TouchedRow
      <4> QED
        BY <1>1, <2>2, <3>2, <4>1, TouchedRow
    <3>3. CASE t = [ticket EXCEPT !.syncAt = "due"]
      <4>1. t.protected = ticket.protected /\ t.state = ticket.state /\ t.pending = ticket.pending
        BY <1>1, <2>2, <3>3, TouchedRow
      <4> QED
        BY <1>1, <2>2, <3>3, <4>1, TouchedRow
    <3> QED
      BY <3>1, <3>2, <3>3
  <2>5. BoundOK' /\ UsersOK' /\ redacted' = redacted
    BY <2>3, HandlerFrame
  <2>6. DiscordOK' /\ RunOK'
    BY <2>3 DEF IInv, DiscordOK, RunOK, things, texts, running
  <2>7. RowOK'
    BY <2>3, <2>4, <2>5 DEF RowOK
  <2>8. JobOK' /\ CreatedOnce' /\ InTurn'
    BY <2>2, <2>3, <2>4, <2>5, Untouched DEF running
  <2> QED
    BY <2>5, <2>6, <2>7, <2>8 DEF IInv
<1>5. CASE Event
  <2>1. PICK e \in events : HandleDeleted(e) \/ HandleChannelDeleted(e)
    BY <1>5 DEF Event
  <2>2. /\ events' = events \ {e}
        /\ UNCHANGED <<channel, messages, threads, made, eligible, texts, bounds>>
        /\ UNCHANGED <<restore, sched, resync>>
    BY <2>1 DEF HandleDeleted, HandleChannelDeleted, Stays, running
  <2>3. BoundOK' /\ UsersOK' /\ redacted' = redacted
    BY <2>2, HandlerFrame
  <2>4. DiscordOK'
    BY <2>2 DEF IInv, DiscordOK, texts
  <2>5. CASE HandleDeleted(e)
    <3>1. CASE OfTicket(e) /\ BeginsFinishing("event", e.kind = "message", e.kind = "thread", TRUE)
      <4>1. Exists /\ (e.kind = "message") \in BOOLEAN /\ (e.kind = "thread") \in BOOLEAN
        BY <3>1 DEF OfTicket
      <4>2. /\ RowOK' /\ JobOK' /\ CreatedOnce' /\ InTurn'
            /\ sent' \in {"no", "current", "stale"} /\ woken' \in BOOLEAN /\ local' \in BOOLEAN
        BY <1>2, <2>3, <3>1, <4>1, FinishingBegun
      <4>3. RunOK'
        BY <2>2, <4>2 DEF IInv, RunOK
      <4> QED
        BY <2>3, <2>4, <4>2, <4>3 DEF IInv
    <3>2. CASE UNCHANGED <<rows, job, woken>>
      <4>1. RowOK' /\ RunOK'
        BY <2>2, <2>3, <3>2 DEF IInv, RowOK, RunOK, rows, Exists
      <4>2. JobOK' /\ CreatedOnce' /\ InTurn'
        BY <2>3, <3>2, Untouched DEF rows, Exists
      <4> QED
        BY <2>3, <2>4, <4>1, <4>2 DEF IInv
    <3> QED
      BY <2>5, <3>1, <3>2 DEF HandleDeleted
  <2>6. CASE HandleChannelDeleted(e)
    <3>1. ticket' = NoTicket /\ UNCHANGED <<sent, local, running>>
      BY <2>6 DEF HandleChannelDeleted
    <3>2. RowOK' /\ RunOK' /\ ~Exists'
      BY <3>1 DEF IInv, RowOK, RunOK, running, Exists
    <3>3. JobOK' /\ CreatedOnce' /\ InTurn'
      BY <2>3, <3>1, <3>2, Untouched DEF running
    <3> QED
      BY <2>3, <2>4, <3>2, <3>3 DEF IInv
  <2> QED
    BY <2>1, <2>5, <2>6
<1>6. CASE Resync
  <2>1. /\ Free /\ resync' = FALSE
        /\ UNCHANGED <<rows, woken, restore, sched, eligible, things, texts, bounds>>
    BY <1>6 DEF Resync
  <2>2. BoundOK' /\ UsersOK' /\ redacted' = redacted
    BY <2>1, HandlerFrame
  <2>3. DiscordOK' /\ RunOK' /\ RowOK'
    <3>1. DiscordOK'
      BY <2>1 DEF IInv, DiscordOK, things, texts
    <3>2. RunOK' /\ RowOK'
      BY <2>1, <2>2 DEF IInv, RunOK, RowOK, rows, Exists
    <3> QED
      BY <3>1, <3>2
  <2>4. JobOK' /\ CreatedOnce' /\ InTurn'
    <3>1. CASE Active /\ Takes("edit", "user")
      BY <1>2, <2>2, <3>1, Begun DEF Active
    <3>2. CASE UNCHANGED job
      BY <2>1, <2>2, <3>2, Untouched DEF rows, Exists
    <3> QED
      BY <1>6, <3>1, <3>2 DEF Resync
  <2> QED
    BY <2>2, <2>3, <2>4 DEF IInv
<1>7. CASE ModeratorDeletes
  <2>1. /\ deletions' = deletions + 1
        /\ UNCHANGED <<rows, running, eligible, made, texts,
                       limits, redacted, faults, crashes, changes>>
    BY <1>7 DEF ModeratorDeletes
  <2>2. BoundOK' /\ UsersOK' /\ RunOK' /\ RowOK'
    BY <2>1 DEF IInv, BoundOK, UsersOK, RunOK, RowOK, running, rows, Exists
  <2>3. DiscordOK'
    <3>1. /\ channel' \in BOOLEAN /\ messages' \subseteq messages /\ threads' \subseteq threads
      BY <1>7 DEF ModeratorDeletes, IInv, DiscordOK
    <3>2. events' \subseteq [kind : {"message", "thread", "channel"},
                             id : Message \cup {NoMessage}]
      BY <1>7 DEF ModeratorDeletes, Notice, IInv, DiscordOK
    <3> QED
      BY <2>1, <3>1, <3>2 DEF IInv, DiscordOK, texts
  <2>4. JobOK' /\ CreatedOnce' /\ InTurn'
    BY <2>1, Untouched DEF rows, running, Exists
  <2> QED
    BY <2>2, <2>3, <2>4 DEF IInv
<1>8. CASE Crash
  <2>1. /\ crashes' = crashes + 1
        /\ restore' = "down" /\ sched' = "off" /\ woken' = FALSE /\ resync' = FALSE
        /\ sent' = "no" /\ local' = FALSE /\ events' = {}
        /\ UNCHANGED <<ticket, eligible, channel, messages, threads, made, texts,
                       limits, redacted, faults, deletions, changes>>
    BY <1>8 DEF Crash
  <2>2. BoundOK' /\ UsersOK' /\ RunOK' /\ RowOK'
    <3>1. BoundOK' /\ UsersOK'
      BY <2>1 DEF IInv, BoundOK, UsersOK
    <3>2. RunOK' /\ RowOK'
      BY <2>1 DEF IInv, RunOK, RowOK, Exists
    <3> QED
      BY <3>1, <3>2
  <2>3. DiscordOK'
    BY <2>1 DEF IInv, DiscordOK, texts
  <2>4. /\ JobOK' /\ job'["locked"].at = "rest"
        /\ At("create", "rest") \/ job'["create"].at = "over"
        /\ At("create", "over") => job'["create"].at = "over"
    <3>1. /\ Rest \in Job /\ Rest.at = "rest"
          /\ [Rest EXCEPT !.at = "over"] \in Job /\ [Rest EXCEPT !.at = "over"].at = "over"
      BY DEF Rest, Job, Steps
    <3>2. /\ job'["locked"] = Rest
          /\ job'["create"] = IF job["create"] = Rest THEN Rest ELSE [Rest EXCEPT !.at = "over"]
          /\ job' \in [Jobs -> Job]
      BY <1>2, <1>8, <3>1 DEF Crash, IInv, JobOK, Jobs
    <3> QED
      BY <3>1, <3>2 DEF JobOK, At
  <2>5. CreatedOnce'
    BY <2>1, <2>4 DEF IInv, CreatedOnce, At, Exists
  <2>6. InTurn'
    BY <2>4 DEF InTurn, InRouting, Settling
  <2> QED
    BY <2>2, <2>3, <2>4, <2>5, <2>6 DEF IInv
<1>9. ASSUME NEW u \in User, ToggleProfile(u) PROVE IInv'
  <2>1. /\ changes' = changes + 1 /\ u \notin redacted
        /\ eligible' = eligible \ {u} \/ eligible' = eligible \cup {u}
        /\ UNCHANGED <<rows, running, things, texts, limits, redacted, faults, crashes,
                       deletions>>
    BY <1>9 DEF ToggleProfile
  <2>2. BoundOK' /\ UsersOK' /\ RunOK' /\ RowOK'
    BY <2>1 DEF IInv, BoundOK, UsersOK, RunOK, RowOK, running, rows, Exists
  <2>3. DiscordOK'
    BY <2>1 DEF IInv, DiscordOK, texts, things
  <2>4. JobOK' /\ CreatedOnce' /\ InTurn'
    BY <2>1, Untouched DEF rows, running, Exists
  <2> QED
    BY <2>2, <2>3, <2>4 DEF IInv
<1>10. ASSUME NEW u \in User, Redact(u) PROVE IInv'
  <2>1. /\ Free /\ At("create", "over")
        /\ redacted' = redacted \cup {u} /\ eligible' = eligible \ {u}
        /\ UNCHANGED <<restore, sched, things, texts, limits, faults, crashes,
                       deletions, changes>>
    BY <1>10 DEF Redact
  <2>2. UsersOK' /\ BoundOK'
    BY <2>1 DEF IInv, UsersOK, BoundOK
  <2>3. DiscordOK'
    BY <2>1 DEF IInv, DiscordOK, texts, things
  <2>4. ASSUME UNCHANGED job PROVE JobOK' /\ CreatedOnce' /\ InTurn'
    <3>1. JobOK' /\ job'["create"].at = "over" /\ job'["locked"].at = "rest"
      BY <2>1, <2>4 DEF IInv, JobOK, At, Free
    <3> QED
      BY <3>1 DEF CreatedOnce, InTurn, InRouting, Settling, At
  <2>5. CASE /\ u # Author /\ Exists /\ Put(Redacted(ticket, u))
             /\ resync' = (resync \/ (Active /\ Concerns(ticket, u) /\ ticket'.state = "open"))
             /\ UNCHANGED <<local, job, woken>>
    <3>1. ticket' = Redacted(ticket, u) /\ sent' \in {"no", "current", "stale"}
      BY <2>5, CallerTypes DEF IInv
    <3>2. ticket' \in Ticket /\ Sound(ticket', redacted')
      BY <1>1, <2>1, <2>5, <3>1, RedactedRow
    <3>3. RowOK'
      BY <3>2 DEF RowOK
    <3>4. resync' \in BOOLEAN
      BY <2>5
    <3>5. RunOK'
      BY <2>1, <2>5, <3>1, <3>4 DEF IInv, RunOK
    <3> QED
      BY <2>2, <2>3, <2>4, <2>5, <3>3, <3>5 DEF IInv
  <2>6. CASE /\ Creating \/ Active
             /\ BeginsFinishing("user", FALSE, FALSE, TRUE) /\ UNCHANGED resync
    <3>1. /\ RowOK' /\ JobOK' /\ CreatedOnce' /\ InTurn'
          /\ sent' \in {"no", "current", "stale"} /\ woken' \in BOOLEAN /\ local' \in BOOLEAN
      BY <1>2, <2>1, <2>2, <2>6, FinishingBegun DEF Creating, Active
    <3>2. RunOK'
      BY <2>1, <2>6, <3>1 DEF IInv, RunOK
    <3> QED
      BY <2>2, <2>3, <3>1, <3>2 DEF IInv
  <2>7. CASE /\ ~Exists \/ (u = Author /\ Closing)
             /\ UNCHANGED <<rows, job, woken, resync>>
    <3>1. RunOK'
      BY <2>1, <2>7 DEF IInv, RunOK, rows
    <3>2. RowOK'
      BY <1>1, <2>1, <2>7 DEF IInv, RowOK, Sound, rows, Exists
    <3> QED
      BY <2>2, <2>3, <2>4, <2>7, <3>1, <3>2 DEF IInv
  <2> QED
    BY <1>10, <2>5, <2>6, <2>7 DEF Redact
<1> QED
  BY <1>3, <1>4, <1>5, <1>6, <1>7, <1>8, <1>9, <1>10

-----------------------------------------------------------------------------
(* The theorems *)

\* The invariant holds initially and every step of the ticket, the scheduler, the
\* restoration and the world keeps it.
LEMMA Inductive ==
  Spec => []IInv
<1>1. Init => IInv
  <2> SUFFICES ASSUME Init PROVE IInv
    OBVIOUS
  <2>1. RowOK
    BY DEF Init, RowOK, Exists
  <2>2. JobOK
    BY DEF Init, JobOK, Job, Rest, Steps
  <2>3. RunOK
    BY DEF Init, RunOK
  <2>4. DiscordOK
    BY DEF Init, DiscordOK
  <2>5. BoundOK /\ UsersOK
    BY DEF Init, BoundOK, UsersOK
  <2>6. CreatedOnce /\ InTurn
    BY DEF Init, CreatedOnce, InTurn, InRouting, Settling, Rest, Jobs, At, Exists
  <2> QED
    BY <2>1, <2>2, <2>3, <2>4, <2>5, <2>6 DEF IInv
<1>2. IInv /\ [Next]_vars => IInv'
  <2> SUFFICES ASSUME IInv, [Next]_vars PROVE IInv'
    OBVIOUS
  <2>1. CASE Handler
    BY <2>1, RecoveryKeeps, RoutingKeeps, PublicationKeeps, DeletionKeeps DEF Handler
  <2>2. CASE Button \/ Scheduler \/ Restoration
    BY <2>2, ServingKeeps
  <2>3. CASE \/ Create \/ Tick \/ Event \/ Resync \/ ModeratorDeletes \/ Crash
             \/ \E u \in User : ToggleProfile(u) \/ Redact(u)
    BY <2>3, WorldKeeps
  <2>4. CASE UNCHANGED vars
    <3>1. /\ UNCHANGED <<rows, running, eligible, things, texts, bounds>>
      BY <2>4 DEF vars
    <3>2. RowOK' /\ JobOK' /\ RunOK'
      BY <3>1 DEF IInv, RowOK, JobOK, RunOK, rows, running, bounds, Exists
    <3>3. DiscordOK' /\ BoundOK' /\ UsersOK'
      BY <3>1 DEF IInv, DiscordOK, BoundOK, UsersOK, things, texts, bounds
    <3>4. CreatedOnce' /\ InTurn'
      BY <3>1, Untouched DEF rows, running, bounds, Exists
    <3> QED
      BY <3>2, <3>3, <3>4 DEF IInv
  <2> QED
    BY <2>1, <2>2, <2>3, <2>4 DEF Next
<1> QED
  BY <1>1, <1>2, PTL DEF Spec

\* Every reachable state is well-typed, for any users, requests and limits.
THEOREM TypeCorrect ==
  Spec => []TypeOK
<1>1. IInv => TypeOK
  BY DEF IInv, TypeOK, RowOK, JobOK, RunOK, DiscordOK, BoundOK, UsersOK
<1> QED
  BY <1>1, Inductive, PTL

\* What a step tells a user: at most one ping, of the handler that has the lock, to
\* the user for whom the row has a reservation.
LEMMA PingStep ==
  ASSUME IInv, [Next]_vars, NEW u \in User, heard'[u] # heard[u]
  PROVE  Open /\ ~ticket.protected /\ ticket.pending.user = u
<1>1. heard' # heard
  OBVIOUS
<1>2. PingReviewer
  <2>1. CASE Handler
    <3>1. CASE Recovery \/ Edit
      BY <1>1, <3>1 DEF Recovery, Edit, FindMessage, FindThread, EditTicket, EditFails,
                        AcknowledgeEdit, texts
    <3>2. CASE Routing
      BY <1>1, <3>2 DEF Routing, Route, Settle, Check, GatewayUnavailable, AcknowledgePing,
                        SettlementFails, texts
    <3>3. ASSUME NEW j \in Jobs, Publication(j) PROVE FALSE
      BY <1>1, <3>3 DEF Publication, SendTicket, RecordMessage, CreateThread, RecordThread,
                        Activate, PublicationFails, texts
    <3>4. ASSUME NEW j \in Jobs, Deletion(j) PROVE FALSE
      BY <1>1, <3>4 DEF Deletion, DeleteThread, DeleteMessage, DeleteRow, DeletionFails, texts
    <3> QED
      BY <2>1, <3>1, <3>2, <3>3, <3>4 DEF Handler
  <2>2. CASE Button \/ Scheduler \/ Restoration
    BY <1>1, <2>2 DEF Button, Claim, Decline, Unassign, MarkFinished, Scheduler, Clear,
                      ReadDeadline, Wake, Timer, Query, Serve, SchedulerFails, Restoration,
                      Load, List, RestoreCleanup, ListDue, RestoreDue, texts
  <2>3. CASE \/ Create \/ Tick \/ Event \/ Resync \/ ModeratorDeletes \/ Crash
             \/ \E v \in User : ToggleProfile(v) \/ Redact(v)
    BY <1>1, <2>3 DEF Create, Tick, NextDue, SyncDue, ProtectionEnds, Ages, Event,
                      HandleDeleted, HandleChannelDeleted, Resync, ModeratorDeletes, Crash,
                      ToggleProfile, Redact, texts
  <2>4. CASE UNCHANGED vars
    BY <1>1, <2>4 DEF vars, texts
  <2> QED
    BY <2>1, <2>2, <2>3, <2>4 DEF Next
<1>3. Exists /\ Delivered
  BY <1>1, <1>2 DEF PingReviewer
<1>4. Open /\ ~ticket.protected
  BY <1>2, <1>3 DEF PingReviewer, IInv, InTurn, InRouting, At
<1>5. ticket.pending.user = u
  <2>1. heard \in [User -> Nat]
    BY DEF IInv, DiscordOK
  <2> QED
    BY <1>3, <2>1 DEF Delivered
<1> QED
  BY <1>4, <1>5

\* A reviewer is never pinged while the ticket is protected, nor after it was claimed
\* or finished, and only he for whom the row has a reservation.
THEOREM PingedInTurn ==
  Spec => PingsInTurn
<1>1. IInv /\ [Next]_vars =>
        [\A u \in User : heard'[u] > heard[u] =>
            Open /\ ~ticket.protected /\ ticket.pending.user = u]_vars
  <2> SUFFICES ASSUME IInv, [Next]_vars, NEW u \in User, heard'[u] > heard[u]
               PROVE  Open /\ ~ticket.protected /\ ticket.pending.user = u
    OBVIOUS
  <2>1. heard[u] \in Nat
    BY DEF IInv, DiscordOK
  <2>2. heard'[u] # heard[u]
    BY <2>1
  <2> QED
    BY <2>2, PingStep
<1> QED
  BY <1>1, Inductive, PTL DEF Spec, PingsInTurn

\* Nobody is pinged after his data was erased: no reservation for him is left, and
\* none is made.
THEOREM ErasedLeftAlone ==
  Spec => ErasedNotPinged
<1>1. IInv /\ [Next]_vars => [\A u \in redacted : heard'[u] = heard[u]]_vars
  <2> SUFFICES ASSUME IInv, [Next]_vars, NEW u \in redacted, heard'[u] # heard[u]
               PROVE  FALSE
    OBVIOUS
  <2>1. u \in User
    BY DEF IInv, UsersOK
  <2>2. Open /\ ticket.pending.user = u
    BY <2>1, PingStep
  <2> QED
    BY <2>2 DEF IInv, RowOK, Sound, Open
<1> QED
  BY <1>1, Inductive, PTL DEF Spec, ErasedNotPinged

-----------------------------------------------------------------------------
(* The inductive invariants, beside IInv *)

\* Only an open row that is due to ping has a reservation, for a user who has not been
\* used yet; no more users were asked than pings were counted; and what is being
\* deleted has forgotten its users.
Routed(t) ==
    /\ t.state = "claimed" => t.pending = NoPing
    /\ t.pending # NoPing => t.next \in PingAction /\ ~Used(t, t.pending.user)
    /\ IsFiniteSet(t.asked) /\ Cardinality(t.asked) <= t.pings
    /\ t.state = "finishing" => t.excluded = {} /\ t.asked = {}

\* The handler that routes does so for a ping that is due and within the budget.
Turn ==
    /\ Exists => Routed(ticket)
    /\ At("locked", "route") /\ Exists => ticket.next \in PingAction
    /\ Settling /\ Exists => ticket.pings < MaxPings

\* A ping that was delivered is known to have been, or will be looked for.
Traced ==
    ~limits.ambiguous =>
        /\ Exists /\ ticket.pending # NoPing /\ posted => sent = "current" \/ MayBeSent
        /\ (At("locked", "check") \/ At("locked", "ping")) /\ Exists => ~posted

\* Whoever heard of the ticket is recorded as asked, or about to be, or the ticket ends.
RecordedAsAsked(u) ==
    \/ Exists /\ u \in ticket.asked
    \/ Exists /\ ticket.pending.user = u /\ At("locked", "ack_ping")
    \/ Exists /\ ticket.state = "finishing"
    \/ ~Exists /\ ~At("create", "rest")

Heard ==
    faults = 0 /\ crashes = 0 =>
        \A u \in User \ redacted : heard[u] > 0 => heard[u] = 1 /\ RecordedAsAsked(u)

ReviewInv == Turn /\ Traced /\ Heard

\* What ReviewPromise speaks of, in terms of the row.
Phase ==
    CASE ~Exists /\ At("create", "rest") -> "draft"
      [] Creating -> "draft"
      [] Open -> "open"
      [] Exists /\ ticket.state = "claimed" -> "taken"
      [] OTHER -> "closed"

Asks == [u \in User |-> IF Exists /\ u \in ticket.asked THEN 1 ELSE 0]
Out  == IF Exists THEN ticket.excluded ELSE {}

-----------------------------------------------------------------------------
(* Steps that do nothing that the promise or the pings could tell *)

\* A row that differs in deadlines, protection, ids or assignee only.
SameCore(s, t) ==
    /\ s.state = t.state /\ s.excluded = t.excluded /\ s.asked = t.asked
    /\ s.pings = t.pings /\ s.next = t.next /\ s.pending = t.pending

Ending(t) ==
    /\ t.state = "finishing" /\ t.excluded = {} /\ t.asked = {}
    /\ t.pings = 0 /\ t.pending = NoPing

\* The row is kept or is on its way out, and what is remembered of a pending ping stays
\* or is forgotten altogether.
RowPlain ==
    Exists' =>
        /\ Exists
        /\ SameCore(ticket', ticket) \/ Ending(ticket')
        /\ \/ ticket'.pending = NoPing
           \/ sent' = sent /\ local' = local
           \/ sent' = "no" /\ local' = FALSE

\* No handler gets on with the routing, and one that is to acknowledge a ping does so
\* unless something fails or the row is gone.
JobPlain ==
    /\ At("create", "rest")' => At("create", "rest")
    /\ job'["locked"].at \in RoutingSteps => job'["locked"].at = job["locked"].at
    /\ At("locked", "ack_ping") =>
          At("locked", "ack_ping")' \/ ~Exists' \/ faults' # 0 \/ crashes' # 0

\* Nobody is pinged and nobody erased.
Quietly ==
    /\ redacted' = redacted /\ heard' = heard /\ posted' = posted /\ limits' = limits
    /\ faults' = 0 => faults = 0
    /\ crashes' = 0 => crashes = 0

Plain == RowPlain /\ JobPlain /\ Quietly

\* Rows that differ in what the promise does not speak of.
LEMMA KeptRow ==
  ASSUME NEW t \in Ticket
  PROVE  /\ SameCore(t, t)
         /\ \A x \in Time : SameCore([t EXCEPT !.syncAt = x], t)
         /\ \A x \in Time : SameCore([t EXCEPT !.nextAt = x], t)
         /\ \A m : SameCore([t EXCEPT !.message = m], t) /\ SameCore([t EXCEPT !.thread = m], t)
         /\ SameCore(Deferred(t), t) /\ SameCore([t EXCEPT !.protected = FALSE], t)
         /\ \A a, b \in BOOLEAN : Ending(Finishing(t, a, b))
<1>1. \A a, b \in BOOLEAN : Ending(Finishing(t, a, b))
  BY DEF Ending, Finishing, Emptied
<1>2. \A m : SameCore([t EXCEPT !.message = m], t) /\ SameCore([t EXCEPT !.thread = m], t)
  BY DEF SameCore, Ticket
<1>3. \A x \in Time : SameCore([t EXCEPT !.syncAt = x], t)
  BY DEF SameCore, Ticket
<1>4. \A x \in Time : SameCore([t EXCEPT !.nextAt = x], t)
  BY DEF SameCore, Ticket
<1>5. /\ SameCore(t, t) /\ SameCore(Deferred(t), t)
      /\ SameCore([t EXCEPT !.protected = FALSE], t)
  BY DEF SameCore, Ticket, Deferred
<1> QED
  BY <1>1, <1>2, <1>3, <1>4, <1>5

\* The row, when there is one.
LEMMA RowFacts ==
  ASSUME IInv, Exists
  PROVE  ticket \in Ticket /\ Sound(ticket, redacted) /\ ~At("create", "rest")
BY DEF IInv, RowOK, CreatedOnce, Exists

\* The promise stutters while the row says the same of its users.
LEMMA PromiseStutters ==
  ASSUME Exists, Exists', ticket'.state = ticket.state, ticket'.excluded = ticket.excluded,
         ticket'.asked = ticket.asked, redacted' = redacted
  PROVE  UNCHANGED Promise!pvars
<1>1. Phase' = Phase
  BY DEF Phase, Creating, Open
<1>2. Asks' = Asks /\ Out' = Out
  BY DEF Asks, Out
<1> QED
  BY <1>1, <1>2 DEF Promise!pvars, Phase, Asks, Out

\* The promise is closed with the ticket.
LEMMA PromiseCloses ==
  ASSUME Exists' => Ending(ticket'), ~Exists' => ~At("create", "rest")', redacted' = redacted
  PROVE  Promise!Close
<1>1. Phase' = "closed"
  BY DEF Phase, Creating, Open, Ending
<1>2. Asks' = [u \in User |-> 0] /\ Out' = {}
  BY DEF Asks, Out, Ending
<1> QED
  BY <1>1, <1>2 DEF Promise!Close, Promise!Closes, Phase, Asks, Out

\* A plain step is none of the promise, or closes it.
LEMMA PlainPromise ==
  ASSUME IInv, Plain
  PROVE  [Promise!Next]_(Promise!pvars)
<1>1. redacted' = redacted
  BY DEF Plain, Quietly
<1>2. CASE Exists' /\ SameCore(ticket', ticket)
  BY <1>1, <1>2, PromiseStutters DEF Plain, RowPlain, SameCore
<1>3. CASE Exists' /\ Ending(ticket')
  BY <1>1, <1>3, PromiseCloses DEF Promise!Next
<1>4. CASE ~Exists' /\ ~At("create", "rest")'
  BY <1>1, <1>4, PromiseCloses DEF Promise!Next
<1>5. CASE ~Exists' /\ At("create", "rest")'
  <2>1. ~Exists /\ At("create", "rest")
    BY <1>5 DEF Plain, JobPlain, IInv, CreatedOnce
  <2>2. Phase = "draft" /\ Phase' = "draft"
    BY <1>5, <2>1 DEF Phase, Creating, Open
  <2>3. Asks' = Asks /\ Out' = Out
    BY <1>5, <2>1 DEF Asks, Out
  <2>4. UNCHANGED Promise!pvars
    BY <1>1, <2>2, <2>3 DEF Promise!pvars, Phase, Asks, Out
  <2> QED
    BY <2>4
<1> QED
  BY <1>2, <1>3, <1>4, <1>5 DEF Plain, RowPlain

\* A plain step keeps the invariant.
LEMMA PlainReview ==
  ASSUME IInv, IInv', ReviewInv, Plain
  PROVE  ReviewInv'
<1>1. Exists' => ticket' \in Ticket /\ Sound(ticket', redacted')
  BY DEF IInv, RowOK, Exists
<1>2. Exists' => Exists /\ (SameCore(ticket', ticket) \/ Ending(ticket'))
  BY DEF Plain, RowPlain
<1>3. /\ InRouting' /\ Exists' => ticket'.state = "open"
      /\ Settling' /\ Exists' => ticket'.pending # NoPing
  BY DEF IInv, InTurn, Open
<1>4. Turn'
  <2>1. Exists' => Routed(ticket')
    <3>1. CASE Exists' /\ SameCore(ticket', ticket)
      BY <1>2, <3>1 DEF ReviewInv, Turn, Routed, SameCore, Used
    <3>2. CASE Exists' /\ Ending(ticket')
      BY <3>2, FS_EmptySet DEF Routed, Ending
    <3> QED
      BY <1>2, <3>1, <3>2
  <2>2. At("locked", "route")' /\ Exists' => ticket'.next \in PingAction
    <3> SUFFICES ASSUME At("locked", "route")', Exists'
                 PROVE  ticket'.next \in PingAction
      OBVIOUS
    <3>1. At("locked", "route")
      BY DEF Plain, JobPlain, RoutingSteps, At
    <3>2. ticket'.state = "open"
      BY <1>3 DEF At, InRouting
    <3> QED
      BY <1>2, <3>1, <3>2 DEF ReviewInv, Turn, SameCore, Ending
  <2>3. Settling' /\ Exists' => ticket'.pings < MaxPings
    <3> SUFFICES ASSUME Settling', Exists' PROVE ticket'.pings < MaxPings
      OBVIOUS
    <3>1. Settling
      BY DEF Plain, JobPlain, RoutingSteps, Settling
    <3> QED
      BY <1>2, <1>3, <3>1 DEF ReviewInv, Turn, SameCore, Ending
  <2> QED
    BY <2>1, <2>2, <2>3 DEF Turn
<1>5. Traced'
  <2> SUFFICES ASSUME ~limits'.ambiguous, Exists'
               PROVE  /\ ticket'.pending # NoPing /\ posted' => sent' = "current" \/ MayBeSent'
                      /\ (At("locked", "check") \/ At("locked", "ping"))' => ~posted'
    BY DEF Traced
  <2>1. ~limits.ambiguous /\ Exists /\ posted' = posted
    BY <1>2 DEF Plain, Quietly
  <2>2. ticket'.pending # NoPing /\ posted' => sent' = "current" \/ MayBeSent'
    BY <1>2, <2>1 DEF ReviewInv, Traced, Plain, RowPlain, SameCore, Ending, MayBeSent
  <2>3. (At("locked", "check") \/ At("locked", "ping"))' => ~posted'
    BY <2>1 DEF ReviewInv, Traced, Plain, JobPlain, RoutingSteps, At
  <2> QED
    BY <2>2, <2>3
<1>6. Heard'
  <2> SUFFICES ASSUME faults' = 0, crashes' = 0, NEW u \in User \ redacted', heard'[u] > 0
               PROVE  heard'[u] = 1 /\ RecordedAsAsked(u)'
    BY DEF Heard
  <2>1. heard[u] = 1 /\ heard' = heard /\ RecordedAsAsked(u)
    BY DEF ReviewInv, Heard, Plain, Quietly
  <2>2. ~Exists' => ~At("create", "rest")'
    BY <2>1 DEF RecordedAsAsked, Plain, JobPlain, IInv, CreatedOnce
  <2>3. RecordedAsAsked(u)'
    BY <1>2, <2>1, <2>2 DEF RecordedAsAsked, SameCore, Ending, Plain, JobPlain
  <2> QED
    BY <2>1, <2>3
<1> QED
  BY <1>4, <1>5, <1>6 DEF ReviewInv

-----------------------------------------------------------------------------
(* The plain steps *)

\* What a handler leaves alone, and a fault.
LEMMA QuietFrame ==
  ASSUME IInv, Fault \/ UNCHANGED bounds, UNCHANGED <<heard, posted>>
  PROVE  Quietly
BY DEF Quietly, Fault, bounds, IInv, BoundOK

\* A row that nobody writes, and what is remembered of it.
LEMMA RowLeft ==
  ASSUME UNCHANGED rows
  PROVE  RowPlain
BY DEF rows, RowPlain, SameCore, Exists

\* A cleanup, a publication or an update that is put off.
LEMMA RowPutOff ==
  ASSUME IInv, PutsOff
  PROVE  RowPlain
<1>1. CASE Exists
  <2>1. ticket' = [ticket EXCEPT !.syncAt = "later"] /\ sent' = sent /\ local' = local
    BY <1>1 DEF PutsOff
  <2>2. SameCore(ticket', ticket)
    BY <1>1, <2>1, RowFacts, KeptRow DEF Time
  <2> QED
    BY <1>1, <2>1, <2>2 DEF RowPlain
<1>2. CASE ~Exists
  BY <1>2 DEF PutsOff, RowPlain, Exists
<1> QED
  BY <1>1, <1>2

\* A row that is written and keeps what it says of its users.
LEMMA RowWritten ==
  ASSUME Exists, NEW t, SameCore(t, ticket), Put(t), local' = local
  PROVE  RowPlain
<1>1. ticket' = t /\ (t.pending = NoPing \/ sent' = sent)
  BY DEF Put
<1> QED
  BY <1>1 DEF RowPlain

\* A step of either handler that is not one of the routing.
LEMMA JobLeft ==
  ASSUME NEW j \in Jobs, ~At(j, "rest"), ~At(j, "ack_ping") \/ j = "create",
         \A i \in Jobs : i # j => job'[i] = job[i],
         job'[j].at \notin RoutingSteps,
         j = "create" => job'[j].at # "rest"
  PROVE  JobPlain
<1>1. CASE j = "create"
  BY <1>1 DEF JobPlain, Jobs, At
<1>2. CASE j = "locked"
  BY <1>2 DEF JobPlain, Jobs, At
<1> QED
  BY <1>1, <1>2 DEF Jobs

\* The handler that has the lock is begun, or goes on to another thing.
LEMMA LockTaken ==
  ASSUME ~At("locked", "ack_ping"), job'["create"] = job["create"],
         job'["locked"].at \notin RoutingSteps
  PROVE  JobPlain
BY DEF JobPlain, At

\* The deletion of a ticket is begun.
LEMMA DeletionBegun ==
  ASSUME IInv, Exists, ~At("locked", "ack_ping"),
         NEW by \in By, NEW a \in BOOLEAN, NEW b \in BOOLEAN, NEW d \in BOOLEAN,
         BeginsFinishing(by, a, b, d)
  PROVE  RowPlain /\ JobPlain
<1> DEFINE t == Finishing(ticket, a, b)
<1>1. ticket' = t /\ sent' = "no" /\ local' = FALSE
  BY DEF BeginsFinishing
<1>2. Ending(t)
  BY RowFacts, KeptRow
<1>3. RowPlain
  BY <1>1, <1>2 DEF RowPlain
<1>4. job' = [job EXCEPT !["locked"] = [at |-> "del_thread", by |-> by, defers |-> d,
                                        message |-> t.message, thread |-> t.thread]]
  BY DEF BeginsFinishing
<1>5. job'["locked"].at = "del_thread" /\ job'["create"] = job["create"]
  BY <1>4 DEF IInv, JobOK, Jobs
<1>6. JobPlain
  BY <1>5, LockTaken DEF RoutingSteps
<1> QED
  BY <1>3, <1>6

\* A publication that failed goes to its cleanup, or is put off.
LEMMA PublicationLeft ==
  ASSUME IInv, NEW j \in Jobs, GivesUp(j), ~At(j, "rest"), ~At(j, "ack_ping")
  PROVE  RowPlain /\ JobPlain
<1>1. CASE j = "create"
  <2>1. Go("create", "del_thread") /\ UNCHANGED rows
    BY <1>1 DEF GivesUp
  <2>2. job'["create"].at = "del_thread" /\ job'["locked"] = job["locked"]
    BY <2>1, JobSteps DEF IInv, Jobs, Steps
  <2>3. JobPlain
    BY <1>1, <2>2, JobLeft DEF RoutingSteps, Jobs
  <2> QED
    BY <2>1, <2>3, RowLeft
<1>2. CASE j = "locked"
  <2>1. PutsOff /\ Ends(FALSE)
    BY <1>2 DEF GivesUp
  <2>2. job'["locked"].at = "rest" /\ job'["create"] = job["create"]
    BY <2>1, JobSteps DEF IInv
  <2> QED
    BY <1>2, <2>1, <2>2, RowPutOff, LockTaken DEF RoutingSteps
<1> QED
  BY <1>1, <1>2 DEF Jobs

\* Either handler comes to its end.
LEMMA JobOver ==
  ASSUME IInv, NEW j \in Jobs, EndsJob(j), ~At(j, "rest"), ~At(j, "ack_ping")
  PROVE  JobPlain
<1>1. CASE j = "create"
  <2>1. job'["create"].at = "over" /\ job'["locked"] = job["locked"]
    BY <1>1, JobSteps DEF IInv, EndsJob
  <2> QED
    BY <1>1, <2>1, JobLeft DEF RoutingSteps, Jobs
<1>2. CASE j = "locked"
  <2>1. job'["locked"].at = "rest" /\ job'["create"] = job["create"]
    BY <1>2, JobSteps DEF IInv, EndsJob, Jobs
  <2> QED
    BY <1>2, <2>1, LockTaken DEF RoutingSteps
<1> QED
  BY <1>1, <1>2 DEF Jobs

\* The handler that has the lock comes to its end, or raises.
LEMMA LockFreed ==
  ASSUME IInv, NEW raised \in BOOLEAN, Ends(raised), ~At("locked", "ack_ping")
  PROVE  JobPlain
<1>1. job'["locked"].at = "rest" /\ job'["create"] = job["create"]
  BY JobSteps DEF IInv
<1> QED
  BY <1>1, LockTaken DEF RoutingSteps

\* create_ticket and _recover_creation, up to the publication of the row.
LEMMA PublicationPlain ==
  ASSUME IInv, NEW j \in Jobs, Publication(j), ~(Activate(j) /\ Creating)
  PROVE  Plain
<1>1. job[j].message \in Message \cup {NoMessage} /\ job[j].thread \in Message \cup {NoMessage}
  BY DEF IInv, JobOK, Job
<1>2. ASSUME NEW t, Put(t), Creating, SameCore(t, ticket), local' = local
      PROVE  RowPlain
  BY <1>2, RowWritten DEF Creating
<1>3. CASE SendTicket(j)
  <2>1. Quietly
    BY <1>3, QuietFrame DEF SendTicket
  <2>2. ~At(j, "rest") /\ ~At(j, "ack_ping")
    BY <1>3 DEF SendTicket, At
  <2>3. CASE GivesUp(j)
    BY <2>1, <2>2, <2>3, PublicationLeft DEF Plain
  <2>4. CASE job' = [job EXCEPT ![j].at = "record", ![j].message = NewId] /\ UNCHANGED rows
    <3>1. NewId \in Message \cup {NoMessage}
      BY <1>3 DEF SendTicket, NewId, IInv, DiscordOK
    <3>2. job'[j].at = "record" /\ \A i \in Jobs : i # j => job'[i] = job[i]
      BY <2>4, <3>1, JobNotes DEF IInv, Steps
    <3> QED
      BY <2>1, <2>2, <2>4, <3>2, RowLeft, JobLeft DEF Plain, RoutingSteps
  <2> QED
    BY <1>3, <2>3, <2>4 DEF SendTicket
<1>4. CASE RecordMessage(j)
  <2>1. Quietly
    BY <1>4, QuietFrame DEF RecordMessage, texts
  <2>2. ~At(j, "rest") /\ ~At(j, "ack_ping")
    BY <1>4 DEF RecordMessage, At
  <2>3. CASE GivesUp(j)
    BY <2>1, <2>2, <2>3, PublicationLeft DEF Plain
  <2>4. CASE /\ Creating /\ Put([ticket EXCEPT !.message = job[j].message])
             /\ Go(j, IF j = "create" THEN "thread" ELSE "find_thread")
             /\ UNCHANGED local
    <3>1. RowPlain
      BY <1>2, <2>4, RowFacts, KeptRow DEF Creating
    <3> DEFINE step == IF j = "create" THEN "thread" ELSE "find_thread"
    <3>2. step \in Steps /\ step \notin RoutingSteps /\ step # "rest" /\ Go(j, step)
      BY <2>4 DEF Steps, RoutingSteps
    <3> HIDE DEF step
    <3>3. job'[j].at = step /\ \A i \in Jobs : i # j => job'[i] = job[i]
      BY <3>2, JobSteps DEF IInv
    <3> QED
      BY <2>1, <2>2, <3>1, <3>2, <3>3, JobLeft DEF Plain
  <2> QED
    BY <1>4, <2>3, <2>4 DEF RecordMessage
<1>5. CASE CreateThread(j)
  <2>1. Quietly
    BY <1>5, QuietFrame DEF CreateThread, texts
  <2>2. ~At(j, "rest") /\ ~At(j, "ack_ping")
    BY <1>5 DEF CreateThread, At
  <2>3. CASE GivesUp(j)
    BY <2>1, <2>2, <2>3, PublicationLeft DEF Plain
  <2>4. CASE /\ job' = [job EXCEPT ![j].at = "record_thread", ![j].thread = job[j].message]
             /\ UNCHANGED rows
    <3>4. JobOK /\ job[j].message \in Message \cup {NoMessage} /\ "record_thread" \in Steps
      BY <1>1 DEF IInv, Steps
    <3>1. job'[j].at = "record_thread" /\ \A i \in Jobs : i # j => job'[i] = job[i]
      BY <2>4, <3>4, JobNotes
    <3>2. RowPlain
      BY <2>4, RowLeft
    <3>3. JobPlain
      BY <2>2, <3>1, JobLeft DEF RoutingSteps
    <3> QED
      BY <2>1, <3>2, <3>3 DEF Plain
  <2> QED
    BY <1>5, <2>3, <2>4 DEF CreateThread
<1>6. CASE RecordThread(j)
  <2>1. Quietly
    BY <1>6, QuietFrame DEF RecordThread, texts
  <2>2. ~At(j, "rest") /\ ~At(j, "ack_ping")
    BY <1>6 DEF RecordThread, At
  <2>3. CASE GivesUp(j)
    BY <2>1, <2>2, <2>3, PublicationLeft DEF Plain
  <2>4. CASE /\ Creating /\ Put([ticket EXCEPT !.thread = job[j].thread])
             /\ Go(j, "activate") /\ UNCHANGED local
    <3>1. RowPlain
      BY <1>2, <2>4, RowFacts, KeptRow DEF Creating
    <3>2. job'[j].at = "activate" /\ \A i \in Jobs : i # j => job'[i] = job[i]
      BY <2>4, JobSteps DEF IInv, Steps
    <3> QED
      BY <2>1, <2>2, <3>1, <3>2, JobLeft DEF Plain, RoutingSteps
  <2> QED
    BY <1>6, <2>3, <2>4 DEF RecordThread
<1>7. CASE Activate(j)
  <2>1. Quietly /\ GivesUp(j)
    BY <1>7, QuietFrame DEF Activate, texts
  <2> QED
    BY <1>7, <2>1, PublicationLeft DEF Plain, Activate, At
<1>8. CASE PublicationFails(j)
  <2>1. Quietly /\ GivesUp(j)
    BY <1>8, QuietFrame DEF PublicationFails, texts
  <2>2. ~At(j, "rest") /\ ~At(j, "ack_ping")
    BY <1>8 DEF PublicationFails, At
  <2> QED
    BY <2>1, <2>2, PublicationLeft DEF Plain
<1> QED
  BY <1>3, <1>4, <1>5, <1>6, <1>7, <1>8 DEF Publication

\* The deletion of what a ticket leaves.
LEMMA DeletionPlain ==
  ASSUME IInv, NEW j \in Jobs, Deletion(j)
  PROVE  Plain
<1>1. Quietly
  BY QuietFrame DEF Deletion, DeleteThread, DeleteMessage, DeleteRow, DeletionFails, texts
<1>2. ~At(j, "rest") /\ ~At(j, "ack_ping")
  BY DEF Deletion, DeleteThread, DeleteMessage, DeleteRow, DeletionFails, At
<1>3. ASSUME NEW step \in {"del_message", "del_row"}, Go(j, step), UNCHANGED rows
      PROVE  RowPlain /\ JobPlain
  <2>1. step \in Steps /\ step \notin RoutingSteps /\ step # "rest"
    BY DEF Steps, RoutingSteps
  <2>2. job'[j].at = step /\ \A i \in Jobs : i # j => job'[i] = job[i]
    BY <1>3, <2>1, JobSteps DEF IInv
  <2> QED
    BY <1>2, <1>3, <2>1, <2>2, RowLeft, JobLeft
<1>4. CASE DeleteThread(j) \/ DeleteMessage(j)
  BY <1>1, <1>3, <1>4 DEF DeleteThread, DeleteMessage, Plain
<1>5. CASE DeleteRow(j)
  BY <1>1, <1>2, <1>5, JobOver DEF DeleteRow, Plain, RowPlain, Exists
<1>6. CASE DeletionFails(j)
  <2>1. CASE PutsOff /\ EndsJob(j)
    BY <1>1, <1>2, <2>1, JobOver, RowPutOff DEF Plain
  <2>2. CASE j = "locked" /\ Ends(TRUE) /\ UNCHANGED rows
    BY <1>1, <1>2, <2>2, LockFreed, RowLeft DEF Plain
  <2> QED
    BY <1>6, <2>1, <2>2 DEF DeletionFails
<1> QED
  BY <1>4, <1>5, <1>6 DEF Deletion

\* A recovery of a publication, up to the step that sends or records.
LEMMA RecoveryPlain ==
  ASSUME IInv, Recovery
  PROVE  Plain
<1>1. Quietly
  BY QuietFrame DEF Recovery, FindMessage, FindThread, texts
<1>2. /\ ~At("locked", "rest") /\ ~At("locked", "ack_ping") /\ "locked" \in Jobs
      /\ job["locked"].by \in By
  BY DEF Recovery, FindMessage, FindThread, At, Jobs, IInv, JobOK, Job, By
\* The handler goes on to a step with what it found.
<1>3. ASSUME NEW step \in Steps, step \notin RoutingSteps \cup {"rest"}, UNCHANGED rows,
             \/ Go("locked", step)
             \/ \E m \in Message \cup {NoMessage} :
                   \/ job' = [job EXCEPT !["locked"].at = step, !["locked"].message = m]
                   \/ job' = [job EXCEPT !["locked"].at = step, !["locked"].thread = m]
      PROVE  RowPlain /\ JobPlain
  <2>1. job'["locked"].at = step /\ \A i \in Jobs : i # "locked" => job'[i] = job[i]
    BY <1>2, <1>3, JobSteps, JobNotes DEF IInv
  <2> QED
    BY <1>2, <1>3, <2>1, RowLeft, JobLeft
<1>4. CASE FindMessage
  <2>1. UNCHANGED rows
    BY <1>4 DEF FindMessage
  <2>2. CASE /\ Exists
             /\ job' = [job EXCEPT !["locked"].at = "find_thread",
                                   !["locked"].message = ticket.message]
    <3>1. ticket.message \in Message \cup {NoMessage}
      BY <2>2, RowFacts DEF Ticket
    <3> QED
      BY <1>1, <1>3, <2>1, <2>2, <3>1 DEF Plain, Steps, RoutingSteps
  <2>3. ASSUME NEW m \in messages,
               job' = [job EXCEPT !["locked"].at = "record", !["locked"].message = m]
        PROVE  Plain
    <3>1. m \in Message \cup {NoMessage}
      BY DEF IInv, DiscordOK
    <3> QED
      BY <1>1, <1>3, <2>1, <2>3, <3>1 DEF Plain, Steps, RoutingSteps
  <2>4. CASE Go("locked", "send")
    BY <1>1, <1>3, <2>1, <2>4 DEF Plain, Steps, RoutingSteps
  <2> QED
    BY <1>4, <2>2, <2>3, <2>4 DEF FindMessage
<1>5. CASE FindThread
  <2>1. CASE GivesUp("locked")
    BY <1>1, <1>2, <2>1, PublicationLeft DEF Plain
  <2>2. CASE Creating /\ BeginsFinishing(job["locked"].by, TRUE, FALSE, TRUE)
    BY <1>1, <1>2, <2>2, DeletionBegun DEF Plain, Creating
  <2>3. CASE /\ Creating /\ UNCHANGED rows
             /\ job' = [job EXCEPT
                   !["locked"].at = IF ticket.thread # NoMessage THEN "activate"
                                    ELSE IF job["locked"].message \in threads
                                         THEN "record_thread" ELSE "thread",
                   !["locked"].thread = IF ticket.thread # NoMessage THEN ticket.thread
                                        ELSE IF job["locked"].message \in threads
                                             THEN job["locked"].message ELSE NoMessage]
    <3> DEFINE step == IF ticket.thread # NoMessage THEN "activate"
                       ELSE IF job["locked"].message \in threads
                            THEN "record_thread" ELSE "thread"
               thread == IF ticket.thread # NoMessage THEN ticket.thread
                         ELSE IF job["locked"].message \in threads
                              THEN job["locked"].message ELSE NoMessage
    <3>1. step \in Steps /\ step \notin RoutingSteps \cup {"rest"}
      BY DEF Steps, RoutingSteps
    <3>2. thread \in Message \cup {NoMessage}
      BY <1>2, <2>3, RowFacts DEF Ticket, Creating, IInv, JobOK, Job
    <3>3. job' = [job EXCEPT !["locked"].at = step, !["locked"].thread = thread]
      BY <2>3
    <3> HIDE DEF step, thread
    <3> QED
      BY <1>1, <1>3, <2>3, <3>1, <3>2, <3>3 DEF Plain
  <2> QED
    BY <1>5, <2>1, <2>2, <2>3 DEF FindThread
<1> QED
  BY <1>4, <1>5 DEF Recovery

\* The update of the message that follows a transition.
LEMMA EditPlain ==
  ASSUME IInv, Edit
  PROVE  Plain
<1>1. Quietly
  BY QuietFrame DEF Edit, EditTicket, EditFails, AcknowledgeEdit, texts
<1>2. /\ ~At("locked", "rest") /\ ~At("locked", "ack_ping") /\ "locked" \in Jobs
      /\ job["locked"].by \in By
  BY DEF Edit, EditTicket, EditFails, AcknowledgeEdit, At, Jobs, IInv, JobOK, Job, By
<1>3. CASE EditTicket
  <2>1. CASE Go("locked", "ack_edit") /\ UNCHANGED rows
    <3>1. "ack_edit" \in Steps /\ "ack_edit" \notin RoutingSteps
      BY DEF Steps, RoutingSteps
    <3>2. /\ job'["locked"].at = "ack_edit"
          /\ \A i \in Jobs : i # "locked" => job'[i] = job[i]
      BY <1>2, <2>1, <3>1, JobSteps DEF IInv
    <3> QED
      BY <1>1, <1>2, <2>1, <3>1, <3>2, RowLeft, JobLeft DEF Plain
  <2>2. CASE Exists /\ BeginsFinishing(job["locked"].by, TRUE, FALSE, FALSE)
    BY <1>1, <1>2, <2>2, DeletionBegun DEF Plain
  <2>3. CASE Ends(FALSE) /\ UNCHANGED rows
    BY <1>1, <1>2, <2>3, LockFreed, RowLeft DEF Plain
  <2> QED
    BY <1>3, <2>1, <2>2, <2>3 DEF EditTicket
<1>4. CASE EditFails
  BY <1>1, <1>2, <1>4, LockFreed, RowPutOff DEF Plain, EditFails
<1>5. CASE AcknowledgeEdit
  <2>1. RowPlain
    <3>1. CASE Exists
      <4>1. SameCore([ticket EXCEPT !.syncAt = "none"], ticket)
        BY <3>1, RowFacts, KeptRow DEF Time
      <4> QED
        BY <1>5, <3>1, <4>1 DEF AcknowledgeEdit, RowPlain
    <3>2. CASE ~Exists
      BY <1>5, <3>2 DEF AcknowledgeEdit, RowPlain, Exists
    <3> QED
      BY <3>1, <3>2
  <2> QED
    BY <1>1, <1>2, <1>5, <2>1, LockFreed DEF Plain, AcknowledgeEdit
<1> QED
  BY <1>3, <1>4, <1>5 DEF Edit

\* What serves a deadline without choosing, asking or ruling out a reviewer.
RoutingBegun ==
    /\ RoutingDue
    /\ \/ ticket.next = "target_timeout"
       \/ ticket.next \in PingAction /\ ~ticket.protected

\* A handler is begun, or the deletion of what is left of a row.
LEMMA RecoversPlain ==
  ASSUME IInv, NEW by \in By, Recovers(by), At("locked", "rest")
  PROVE  RowPlain /\ JobPlain
<1>1. ~At("locked", "ack_ping")
  BY DEF At
<1>2. CASE Takes("find_message", by) /\ UNCHANGED rows
  <2>1. job'["locked"].at = "find_message" /\ job'["create"] = job["create"]
    BY <1>2, JobSteps DEF IInv, Steps
  <2> QED
    BY <1>1, <1>2, <2>1, RowLeft, LockTaken DEF RoutingSteps
<1>3. CASE Closing /\ DeletesRest(by)
  <2>1. ticket \in Ticket
    BY <1>3, RowFacts DEF Closing
  <2>2. ticket.message \in Message \cup {NoMessage} /\ ticket.thread \in Message \cup {NoMessage}
    BY <2>1 DEF Ticket
  <2>3. job'["locked"].at = "del_thread" /\ job'["create"] = job["create"]
    BY <1>3, <2>2, JobNotes DEF DeletesRest, IInv, Jobs
  <2>4. RowPlain
    BY <1>3 DEF DeletesRest, Closing, RowPlain, SameCore, Exists
  <2> QED
    BY <1>1, <2>3, <2>4, LockTaken DEF RoutingSteps
<1> QED
  BY <1>2, <1>3 DEF Recovers

\* Serving a deadline neither chooses, asks nor rules out, unless it begins to route.
LEMMA ProcessPlain ==
  ASSUME IInv, NEW by \in By, ProcessDue(by), ~RoutingBegun, At("locked", "rest"),
         Quietly
  PROVE  Plain
<1>1. ~At("locked", "ack_ping")
  BY DEF At
<1>2. CASE Recovers(by)
  BY <1>2, RecoversPlain DEF Plain
<1>3. CASE Takes("edit", by) /\ UNCHANGED rows
  <2>1. job'["locked"].at = "edit" /\ job'["create"] = job["create"]
    BY <1>3, JobSteps DEF IInv, Steps
  <2> QED
    BY <1>1, <1>3, <2>1, RowLeft, LockTaken DEF RoutingSteps, Plain
<1>4. CASE Returns(by) /\ UNCHANGED rows
  BY <1>1, <1>4, RowLeft DEF Returns, Plain, JobPlain, At
<1>5. CASE Exists /\ Put(Deferred(ticket)) /\ Returns(by) /\ UNCHANGED local
  <2>1. RowPlain
    BY <1>5, RowFacts, KeptRow, RowWritten
  <2> QED
    BY <1>1, <1>5, <2>1 DEF Returns, Plain, JobPlain, At
<1> QED
  BY <1>2, <1>3, <1>4, <1>5 DEF ProcessDue, RoutingBegun, RoutingDue, Open

\* The scheduler, the start of the cog, and the button that finishes a ticket.
LEMMA ServingPlain ==
  ASSUME IInv, Scheduler \/ Restoration \/ MarkFinished,
         \A by \in By : ~(ProcessDue(by) /\ Free /\ RoutingBegun)
  PROVE  Plain
<1>1. Quietly
  BY QuietFrame DEF Scheduler, Clear, ReadDeadline, Wake, Timer, Query, Serve, SchedulerFails,
                    Restoration, Load, List, RestoreCleanup, ListDue, RestoreDue,
                    MarkFinished, texts
<1>2. ASSUME UNCHANGED <<rows, job>> PROVE Plain
  BY <1>1, <1>2, RowLeft DEF Plain, JobPlain, At
<1>3. CASE Scheduler /\ ~Serve
  BY <1>2, <1>3 DEF Scheduler, Clear, ReadDeadline, Wake, Timer, Query, SchedulerFails
<1>4. CASE Load \/ List \/ ListDue
  BY <1>2, <1>4 DEF Load, List, ListDue
<1>5. CASE Serve
  BY <1>1, <1>5, ProcessPlain DEF Serve, Free, By
<1>6. CASE RestoreDue
  BY <1>1, <1>6, ProcessPlain DEF RestoreDue, Free, By
<1>7. CASE RestoreCleanup
  <2>1. CASE Recovers("restore")
    BY <1>1, <1>7, <2>1, RecoversPlain DEF RestoreCleanup, Free, Plain, By
  <2>2. CASE /\ sent' = (IF Exists THEN sent ELSE "no") /\ local' = (local /\ Exists)
             /\ Returns("restore") /\ UNCHANGED ticket
    <3>1. RowPlain
      BY <2>2 DEF RowPlain, SameCore, Exists, IInv, RunOK
    <3> QED
      BY <1>1, <2>2, <3>1 DEF Returns, Plain, JobPlain, At
  <2> QED
    BY <1>7, <2>1, <2>2 DEF RestoreCleanup
<1>8. CASE MarkFinished
  <2>1. Exists /\ ~At("locked", "ack_ping")
    BY <1>8 DEF MarkFinished, Active, Free, At
  <2> QED
    BY <1>1, <1>8, <2>1, DeletionBegun DEF MarkFinished, Plain, By
<1> QED
  BY <1>3, <1>4, <1>5, <1>6, <1>7, <1>8 DEF Scheduler, Restoration

\* Time, moderators, events, opting in and out, and the end of the process.
LEMMA WorldPlain ==
  ASSUME IInv, Tick \/ Event \/ Resync \/ ModeratorDeletes \/ Crash
               \/ \E u \in User : ToggleProfile(u)
  PROVE  Plain
<1>1. ASSUME UNCHANGED <<rows, job>>, Quietly PROVE Plain
  BY <1>1, RowLeft DEF Plain, JobPlain, At
<1>2. CASE Tick
  <2>1. Exists /\ UNCHANGED <<sent, local, job>> /\ UNCHANGED <<texts, bounds>>
    BY <1>2 DEF Tick, NextDue, SyncDue, ProtectionEnds, Ages, running
  <2>2. SameCore(ticket', ticket)
    BY <1>2, <2>1, RowFacts, KeptRow
    DEF Tick, NextDue, SyncDue, ProtectionEnds, Ages, Time
  <2>3. Quietly
    BY <2>1, QuietFrame DEF texts
  <2> QED
    BY <2>1, <2>2, <2>3 DEF Plain, JobPlain, RowPlain, At
<1>3. ASSUME NEW e \in events, HandleDeleted(e) PROVE Plain
  <2>1. Quietly
    BY <1>3, QuietFrame DEF HandleDeleted, texts
  <2>2. CASE OfTicket(e) /\ BeginsFinishing("event", e.kind = "message", e.kind = "thread", TRUE)
    <3>1. Exists /\ ~At("locked", "ack_ping")
      BY <1>3, <2>2 DEF HandleDeleted, OfTicket, Free, At
    <3> QED
      BY <2>1, <2>2, <3>1, DeletionBegun DEF Plain, By
  <2>3. CASE UNCHANGED <<rows, job>>
    BY <1>1, <2>1, <2>3
  <2> QED
    BY <1>3, <2>2, <2>3 DEF HandleDeleted
<1>4. ASSUME NEW e \in events, HandleChannelDeleted(e) PROVE Plain
  <2>1. Quietly
    BY <1>4, QuietFrame DEF HandleChannelDeleted, texts
  <2> QED
    BY <1>4, <2>1 DEF HandleChannelDeleted, Plain, RowPlain, JobPlain, Exists, running, At
<1>5. CASE Resync
  <2>1. Quietly /\ ~At("locked", "ack_ping")
    BY <1>5, QuietFrame DEF Resync, texts, Free, At
  <2>2. CASE Takes("edit", "user") /\ UNCHANGED rows
    <3>1. job'["locked"].at = "edit" /\ job'["create"] = job["create"]
      BY <2>2, JobSteps DEF IInv, Steps, By
    <3> QED
      BY <2>1, <2>2, <3>1, RowLeft, LockTaken DEF RoutingSteps, Plain
  <2> QED
    BY <1>1, <1>5, <2>1, <2>2 DEF Resync
<1>6. CASE ModeratorDeletes \/ \E u \in User : ToggleProfile(u)
  BY <1>1, <1>6 DEF ModeratorDeletes, ToggleProfile, running, texts, Quietly
<1>7. CASE Crash
  <2>1. RowPlain
    BY <1>7 DEF Crash, RowPlain, SameCore, Exists
  <2>2. crashes' # 0 /\ Quietly
    BY <1>7 DEF Crash, texts, Quietly, IInv, BoundOK
  <2>3. /\ job'["locked"] = Rest
        /\ job'["create"] = IF job["create"] = Rest THEN Rest ELSE [Rest EXCEPT !.at = "over"]
    BY <1>7 DEF Crash, IInv, JobOK, Jobs
  <2>4. JobPlain
    BY <2>2, <2>3 DEF JobPlain, Rest, At, RoutingSteps
  <2> QED
    BY <2>1, <2>2, <2>4 DEF Plain
<1> QED
  BY <1>2, <1>3, <1>4, <1>5, <1>6, <1>7 DEF Event

-----------------------------------------------------------------------------
(* Steps that rule out, take, give back or publish *)

\* A row that has asked as many users as another.
SameAsked(s, t) == s.asked = t.asked /\ s.pings = t.pings

\* What a release and an exclusion leave of a row's users.
LEMMA ReleasedUsers ==
  ASSUME NEW t \in Ticket
  PROVE  /\ Released(t).state = t.state /\ Released(t).excluded = t.excluded
         /\ SameAsked(Released(t), t) /\ Released(t).pending = NoPing
         /\ \A u : Excluding(t, u) \in Ticket \/ u \notin User
         /\ \A u : /\ Excluding(t, u).state = t.state
                   /\ Excluding(t, u).excluded = t.excluded \cup {u}
                   /\ SameAsked(Excluding(t, u), t)
                   /\ Excluding(t, u).pending = t.pending /\ Excluding(t, u).next = t.next
<1> DEFINE a == IF t.mode \in {"automatic", "direct_automatic"} THEN "automatic_ping" ELSE "none"
           b == IF a = "none" THEN "none" ELSE "later"
           r == [t EXCEPT !.protected = TRUE, !.next = a, !.nextAt = b,
                          !.target = NoUser, !.pending = NoPing, !.syncAt = "due"]
<1>1. Released(t) = r
  BY DEF Released, Scheduled, Ticket
<1> HIDE DEF a, b
<1>2. /\ r.state = t.state /\ r.excluded = t.excluded /\ SameAsked(r, t)
      /\ r.pending = NoPing
  BY DEF Ticket, SameAsked
<1>3. \A u : /\ Excluding(t, u).state = t.state
             /\ Excluding(t, u).excluded = t.excluded \cup {u}
             /\ SameAsked(Excluding(t, u), t)
             /\ Excluding(t, u).pending = t.pending /\ Excluding(t, u).next = t.next
  BY DEF Ticket, SameAsked, Excluding
<1>4. \A u \in User : Excluding(t, u) \in Ticket
  BY ExcludingRow
<1> QED
  BY <1>1, <1>2, <1>3, <1>4

\* What the buttons leave of a row's users.
LEMMA PressedUsers ==
  ASSUME NEW t \in Ticket, NEW u \in User
  PROVE  /\ LET s == Claimed(t, u)
            IN  /\ s.state = "claimed" /\ s.excluded = t.excluded /\ SameAsked(s, t)
                /\ s.pending = NoPing
         /\ LET s == Declined(t, u)
            IN  /\ s.state = t.state /\ s.excluded = t.excluded \cup {u} /\ SameAsked(s, t)
                /\ \/ s.pending = NoPing
                   \/ s.pending = t.pending /\ s.next = t.next /\ t.pending.user # u
         /\ t.assignee \in User =>
               LET s == Unassigned(t)
               IN  /\ s.state = "open" /\ s.excluded = t.excluded \cup {t.assignee}
                   /\ SameAsked(s, t) /\ s.pending = NoPing
<1>1. LET s == Claimed(t, u)
      IN  /\ s.state = "claimed" /\ s.excluded = t.excluded /\ SameAsked(s, t)
          /\ s.pending = NoPing
  BY DEF Claimed, Scheduled, Ticket, SameAsked
<1>2. ASSUME u \in {t.target, t.pending.user}
      PROVE  LET s == Declined(t, u)
             IN  /\ s.state = t.state /\ s.excluded = t.excluded \cup {u} /\ SameAsked(s, t)
                 /\ \/ s.pending = NoPing
                    \/ s.pending = t.pending /\ s.next = t.next /\ t.pending.user # u
  <2>1. Declined(t, u) = Released(Excluding(t, u)) /\ Excluding(t, u) \in Ticket
    BY <1>2, ReleasedUsers DEF Declined
  <2> QED
    BY <2>1, ReleasedUsers DEF SameAsked
<1>3. ASSUME u \notin {t.target, t.pending.user}
      PROVE  LET s == Declined(t, u)
             IN  /\ s.state = t.state /\ s.excluded = t.excluded \cup {u} /\ SameAsked(s, t)
                 /\ \/ s.pending = NoPing
                    \/ s.pending = t.pending /\ s.next = t.next /\ t.pending.user # u
  <2>1. Declined(t, u) = [Excluding(t, u) EXCEPT !.protected = TRUE]
    BY <1>3 DEF Declined
  <2>2. Excluding(t, u) \in Ticket
    BY ReleasedUsers
  <2>3. \A s \in Ticket : LET x == [s EXCEPT !.protected = TRUE]
                          IN  /\ x.state = s.state /\ x.excluded = s.excluded
                              /\ SameAsked(x, s) /\ x.pending = s.pending /\ x.next = s.next
    BY DEF Ticket, SameAsked
  <2> QED
    BY <1>3, <2>1, <2>2, <2>3, ReleasedUsers DEF SameAsked
<1>4. ASSUME t.assignee \in User
      PROVE  LET s == Unassigned(t)
             IN  /\ s.state = "open" /\ s.excluded = t.excluded \cup {t.assignee}
                 /\ SameAsked(s, t) /\ s.pending = NoPing
  <2> DEFINE r == Released(Excluding(t, t.assignee))
  <2>1. Excluding(t, t.assignee) \in Ticket
    BY <1>4, ReleasedUsers
  <2>2. /\ r \in Ticket /\ r.excluded = Excluding(t, t.assignee).excluded
        /\ SameAsked(r, Excluding(t, t.assignee)) /\ r.pending = NoPing
    BY <2>1, ReleasedUsers, ReleasedRow
  <2>4. r.excluded = t.excluded \cup {t.assignee} /\ SameAsked(r, t)
    BY <2>2, ReleasedUsers DEF SameAsked
  <2>3. Unassigned(t) = [r EXCEPT !.state = "open", !.assignee = NoUser]
    BY DEF Unassigned
  <2> HIDE DEF r
  <2> QED
    BY <2>2, <2>3, <2>4 DEF Ticket, SameAsked
<1> QED
  BY <1>1, <1>2, <1>3, <1>4

\* What a time-out, the end of the routing and the activation leave of a row's users.
LEMMA DueUsers ==
  ASSUME NEW t \in Ticket
  PROVE  /\ t.target \in User =>
               LET s == TimedOut(t)
               IN  /\ s.state = t.state /\ s.excluded = t.excluded \cup {t.target}
                   /\ SameAsked(s, t) /\ s.pending = t.pending
         /\ LET s == Exhausted(t)
            IN  /\ s.state = t.state /\ s.excluded = t.excluded /\ SameAsked(s, t)
                /\ s.pending = NoPing
         /\ \A m, h : LET s == Activated(t, m, h)
                      IN  /\ s.state = "open" /\ s.excluded = t.excluded /\ SameAsked(s, t)
                          /\ s.pending = t.pending
<1>1. ASSUME t.target \in User
      PROVE  LET s == TimedOut(t)
             IN  /\ s.state = t.state /\ s.excluded = t.excluded \cup {t.target}
                 /\ SameAsked(s, t) /\ s.pending = t.pending
  <2> DEFINE r == Released(Excluding(t, t.target))
  <2>1. Excluding(t, t.target) \in Ticket
    BY <1>1, ReleasedUsers
  <2>3. TimedOut(t) = [r EXCEPT !.pending = t.pending]
    BY DEF TimedOut
  <2>4. /\ r \in Ticket /\ r.excluded = Excluding(t, t.target).excluded
        /\ r.state = Excluding(t, t.target).state
        /\ SameAsked(r, Excluding(t, t.target))
    BY <2>1, ReleasedUsers, ReleasedRow
  <2>2. /\ r \in Ticket /\ r.excluded = t.excluded \cup {t.target}
        /\ r.state = t.state /\ SameAsked(r, t)
    BY <2>4, ReleasedUsers DEF SameAsked
  <2> HIDE DEF r
  <2> QED
    BY <2>2, <2>3 DEF Ticket, SameAsked
<1>2. LET s == Exhausted(t)
      IN  /\ s.state = t.state /\ s.excluded = t.excluded /\ SameAsked(s, t)
          /\ s.pending = NoPing
  BY DEF Ticket, SameAsked, Exhausted
<1>3. ASSUME NEW m, NEW h
      PROVE  LET s == Activated(t, m, h)
             IN  /\ s.state = "open" /\ s.excluded = t.excluded /\ SameAsked(s, t)
                 /\ s.pending = t.pending
  <2> DEFINE first == CASE t.mode = "automatic" -> "automatic_ping"
                        [] t.mode \in {"direct_wait", "direct_automatic"} -> "direct_ping"
                        [] OTHER -> "none"
             at == IF first = "none" THEN "none" ELSE "later"
             r == [t EXCEPT !.protected = TRUE, !.next = first, !.nextAt = at,
                            !.state = "open", !.message = m, !.thread = h, !.syncAt = "none"]
  <2>1. Activated(t, m, h) = r
    BY DEF Activated, Scheduled, Ticket
  <2> HIDE DEF first, at
  <2> QED
    BY <2>1 DEF Ticket, SameAsked
<1> QED
  BY <1>1, <1>2, <1>3

\* A step that asks nobody, begins or ends a handler that does not route, and leaves a
\* row that is routed keeps the invariant.
LEMMA PressedReview ==
  ASSUME IInv, IInv', ReviewInv, Quietly, Exists, Exists', Routed(ticket'),
         SameAsked(ticket', ticket), ticket.state # "finishing",
         ~At("locked", "ack_ping"), job'["locked"].at \notin RoutingSteps,
         \/ ticket'.pending = NoPing
         \/ ticket'.pending = ticket.pending /\ sent' = sent /\ local' = local
  PROVE  ReviewInv'
<1>1. Turn'
  BY DEF Turn, Settling, RoutingSteps, At
<1>2. Traced'
  BY DEF Traced, ReviewInv, MayBeSent, Quietly, RoutingSteps, At
<1>3. Heard'
  BY DEF Heard, ReviewInv, RecordedAsAsked, SameAsked, Quietly
<1> QED
  BY <1>1, <1>2, <1>3 DEF ReviewInv

\* A row without reservation, and one whose exclusions grew by another user.
LEMMA RoutedRow ==
  ASSUME NEW t \in Ticket, Routed(t), NEW s, SameAsked(s, t), s.state # "finishing",
         \/ s.pending = NoPing
         \/ /\ s.pending = t.pending /\ s.next = t.next /\ s.state # "claimed"
            /\ \E u : t.pending.user # u /\ s.excluded = t.excluded \cup {u}
  PROVE  Routed(s)
BY DEF Routed, SameAsked, Used

\* What the abstract actions need to be told.
LEMMA PromiseMoves ==
  ASSUME IInv, Exists, Exists', redacted' = redacted, ticket'.asked = ticket.asked
  PROVE  /\ Creating /\ Open' /\ ticket'.excluded = ticket.excluded => Promise!Next
         /\ Open /\ ticket'.state = "claimed" /\ ticket'.excluded = ticket.excluded
               => Promise!Next
         /\ \A u \in User : Open /\ Open' /\ ticket'.excluded = ticket.excluded \cup {u}
                      => Promise!Next
         /\ \A u \in User : /\ ticket.state = "claimed" /\ Open'
                   /\ ticket'.excluded = ticket.excluded \cup {u}
                      => Promise!Next
<1>1. Asks' = Asks
  BY DEF Asks
<1>2. Out = ticket.excluded /\ Out' = ticket'.excluded
  BY DEF Out
<1>3. ASSUME Creating, Open', ticket'.excluded = ticket.excluded PROVE Promise!Next
  <2>1. Phase = "draft" /\ Phase' = "open"
    BY <1>3 DEF Phase, Creating, Open
  <2> QED
    BY <1>1, <1>2, <1>3, <2>1 DEF Promise!Next, Promise!Publish, Phase, Asks, Out
<1>4. ASSUME Open, ticket'.state = "claimed", ticket'.excluded = ticket.excluded
      PROVE  Promise!Next
  <2>1. Phase = "open" /\ Phase' = "taken"
    BY <1>4 DEF Phase, Creating, Open
  <2> QED
    BY <1>1, <1>2, <1>4, <2>1 DEF Promise!Next, Promise!Take, Phase, Asks, Out
<1>5. ASSUME NEW u \in User, Open, Open', ticket'.excluded = ticket.excluded \cup {u}
      PROVE  Promise!Next
  <2>1. Phase = "open" /\ Phase' = "open"
    BY <1>5 DEF Phase, Creating, Open
  <2> QED
    BY <1>1, <1>2, <1>5, <2>1 DEF Promise!Next, Promise!RuleOut, Phase, Asks, Out
<1>6. ASSUME NEW u \in User, ticket.state = "claimed", Open',
             ticket'.excluded = ticket.excluded \cup {u}
      PROVE  Promise!Next
  <2>1. Phase = "taken" /\ Phase' = "open"
    BY <1>6 DEF Phase, Creating, Open
  <2> QED
    BY <1>1, <1>2, <1>6, <2>1 DEF Promise!Next, Promise!GiveBack, Phase, Asks, Out
<1> QED
  BY <1>3, <1>4, <1>5, <1>6

\* Activation publishes the ticket.
LEMMA ActivateReview ==
  ASSUME IInv, IInv', ReviewInv, NEW j \in Jobs, Activate(j), Creating
  PROVE  ReviewInv' /\ [Promise!Next]_(Promise!pvars)
<1>1. Exists /\ ticket \in Ticket /\ ticket.state = "creating" /\ ticket.pending = NoPing
  BY RowFacts DEF Creating, Sound
<1>2. ticket' = Activated(ticket, job[j].message, job[j].thread) /\ local' = local /\ EndsJob(j)
  BY DEF Activate, Put
<1>3. /\ ticket'.state = "open" /\ ticket'.excluded = ticket.excluded
      /\ SameAsked(ticket', ticket) /\ ticket'.pending = NoPing
  BY <1>1, <1>2, DueUsers
<1>4. Exists' /\ Open'
  <2>1. /\ job[j].message \in Message \cup {NoMessage}
        /\ job[j].thread \in Message \cup {NoMessage}
    BY DEF IInv, JobOK, Job
  <2>2. Sound(ticket, redacted) /\ redacted \in SUBSET User
    BY <1>1, RowFacts DEF IInv, UsersOK
  <2>3. ticket' \in Ticket
    BY <1>1, <1>2, <2>1, <2>2, ActivatedRow
  <2> QED
    BY <1>3, <2>3, NoTicketAssumption DEF Open, Exists
<1>5. Quietly
  BY QuietFrame DEF Activate, texts
<1>6. ~At("locked", "ack_ping") /\ job'["locked"].at \notin RoutingSteps
  <2>1. ~InRouting /\ ~Settling
    BY <1>1 DEF IInv, InTurn, Open
  <2>2. job'["locked"].at = "rest" \/ job'["locked"] = job["locked"]
    BY <1>2, JobSteps DEF EndsJob, IInv
  <2> QED
    BY <2>1, <2>2 DEF InRouting, Settling, RoutingSteps, At
<1>7. Routed(ticket')
  BY <1>1, <1>3, RoutedRow DEF ReviewInv, Turn
<1>8. ReviewInv'
  BY <1>1, <1>3, <1>4, <1>5, <1>6, <1>7, PressedReview
<1>9. Promise!Next
  BY <1>1, <1>3, <1>4, <1>5, PromiseMoves DEF Quietly, SameAsked
<1> QED
  BY <1>8, <1>9

\* A button of the ticket takes it, rules its user out or gives it back.
LEMMA ButtonReview ==
  ASSUME IInv, IInv', ReviewInv, Button, ~MarkFinished
  PROVE  ReviewInv' /\ [Promise!Next]_(Promise!pvars)
<1>1. Quietly
  BY QuietFrame DEF Button, Claim, Decline, Unassign, texts
<1>2. Exists /\ At("locked", "rest")
  BY DEF Button, Claim, Decline, Unassign, Free, Open, Active
<1>3. ticket \in Ticket /\ Sound(ticket, redacted) /\ redacted \in SUBSET User
  BY <1>2, RowFacts DEF IInv, UsersOK
<1>4. ASSUME NEW t \in Ticket, Put(t), local' = local, t.state # "finishing", Routed(t),
             SameAsked(t, ticket), ticket.state # "finishing",
             t.pending = NoPing \/ t.pending = ticket.pending,
             Takes("edit", "user") \/ job' = job
      PROVE  ReviewInv' /\ Exists' /\ ticket' = t
  <2>1. ticket' = t /\ (t.pending = NoPing \/ sent' = sent)
    BY <1>4 DEF Put
  <2>2. Exists'
    BY <1>4, <2>1, NoTicketAssumption DEF Exists
  <2>3. job'["locked"].at \in {"edit", "rest"}
    BY <1>2, <1>4, JobSteps DEF IInv, Steps, By, At
  <2>4. ~At("locked", "ack_ping") /\ job'["locked"].at \notin RoutingSteps
    BY <1>2, <2>3 DEF RoutingSteps, At
  <2>5. ReviewInv'
    BY <1>1, <1>2, <1>4, <2>1, <2>2, <2>4, PressedReview
  <2> QED
    BY <2>1, <2>2, <2>5
<1>5. ASSUME NEW u \in User, Claim(u) PROVE ReviewInv' /\ Promise!Next
  <2> DEFINE t == Claimed(ticket, u)
  <2>1. t \in Ticket
    BY <1>3, PressedRow
  <2>2. /\ t.state = "claimed" /\ t.excluded = ticket.excluded /\ SameAsked(t, ticket)
        /\ t.pending = NoPing
    BY <1>3, PressedUsers
  <2>3. /\ Put(t) /\ local' = local /\ Takes("edit", "user") /\ ticket.state = "open"
    BY <1>5 DEF Claim, Open
  <2> HIDE DEF t
  <2>4. Routed(t)
    BY <1>2, <1>3, <2>2, RoutedRow DEF ReviewInv, Turn
  <2>5. ReviewInv' /\ Exists' /\ ticket' = t
    BY <1>4, <2>1, <2>2, <2>3, <2>4
  <2> QED
    BY <1>1, <1>2, <2>2, <2>3, <2>5, PromiseMoves DEF Quietly, SameAsked, Open
<1>6. ASSUME NEW u \in User, Decline(u) PROVE ReviewInv' /\ Promise!Next
  <2> DEFINE t == Declined(ticket, u)
  <2>1. ticket.state = "open" /\ Put(t) /\ local' = local
        /\ (Takes("edit", "user") \/ job' = job)
    BY <1>6 DEF Decline, Open
  <2>2. t \in Ticket
    BY <1>3, <2>1, PressedRow
  <2>3. /\ t.state = ticket.state /\ t.excluded = ticket.excluded \cup {u}
        /\ SameAsked(t, ticket)
        /\ \/ t.pending = NoPing
           \/ t.pending = ticket.pending /\ t.next = ticket.next /\ ticket.pending.user # u
    BY <1>3, PressedUsers
  <2> HIDE DEF t
  <2>4. Routed(t)
    BY <1>2, <1>3, <2>1, <2>3, RoutedRow DEF ReviewInv, Turn
  <2>5. ReviewInv' /\ Exists' /\ ticket' = t
    BY <1>4, <2>1, <2>2, <2>3, <2>4
  <2> QED
    BY <1>1, <1>2, <2>1, <2>3, <2>5, PromiseMoves DEF Quietly, SameAsked, Open
<1>7. ASSUME Unassign PROVE ReviewInv' /\ Promise!Next
  <2> DEFINE t == Unassigned(ticket)
  <2>1. ticket.state = "claimed" /\ Put(t) /\ local' = local /\ Takes("edit", "user")
    BY <1>7 DEF Unassign
  <2>2. ticket.assignee \in User
    BY <1>3, <2>1 DEF Sound, Ticket
  <2>3. t \in Ticket
    BY <1>3, <2>1, <2>2, PressedRow
  <2>4. /\ t.state = "open" /\ t.excluded = ticket.excluded \cup {ticket.assignee}
        /\ SameAsked(t, ticket) /\ t.pending = NoPing
    BY <1>3, <2>2, PressedUsers
  <2> HIDE DEF t
  <2>5. Routed(t)
    BY <1>2, <1>3, <2>4, RoutedRow DEF ReviewInv, Turn
  <2>6. ReviewInv' /\ Exists' /\ ticket' = t
    BY <1>4, <2>1, <2>3, <2>4, <2>5
  <2> QED
    BY <1>1, <1>2, <2>1, <2>2, <2>4, <2>6, PromiseMoves DEF Quietly, SameAsked, Open
<1> QED
  BY <1>5, <1>6, <1>7 DEF Button

\* What a deadline begins: the end of the routing, a time-out, or a ping.
LEMMA DueReview ==
  ASSUME IInv, IInv', ReviewInv, NEW by \in By, ProcessDue(by), RoutingBegun,
         At("locked", "rest"), Quietly
  PROVE  ReviewInv' /\ [Promise!Next]_(Promise!pvars)
<1>1. Exists /\ Open /\ ticket.state = "open"
  BY DEF RoutingBegun, RoutingDue, Open
<1>2. ticket \in Ticket /\ Sound(ticket, redacted) /\ redacted \in SUBSET User
  BY <1>1, RowFacts DEF IInv, UsersOK
<1>3. redacted' = redacted
  BY DEF Quietly
<1>4. ASSUME NEW t \in Ticket, Put(t), local' = local, t.state = "open", t.pending = NoPing,
             SameAsked(t, ticket), Takes("edit", by) \/ job' = job
      PROVE  ReviewInv' /\ Exists' /\ ticket' = t
  <2>1. ticket' = t
    BY <1>4 DEF Put
  <2>2. Exists' /\ Routed(t)
    BY <1>1, <1>2, <1>4, <2>1, RoutedRow, NoTicketAssumption DEF Exists, ReviewInv, Turn
  <2>3. job'["locked"].at \in {"edit", "rest"}
    BY <1>4, JobSteps DEF IInv, Steps, By, At
  <2>4. ~At("locked", "ack_ping") /\ job'["locked"].at \notin RoutingSteps
    BY <2>3 DEF RoutingSteps, At
  <2>5. ReviewInv'
    BY <1>1, <1>4, <2>1, <2>2, <2>4, PressedReview
  <2> QED
    BY <2>1, <2>2, <2>5
<1>5. CASE Put(Exhausted(ticket)) /\ Returns(by) /\ local' = local
  <2> DEFINE t == Exhausted(ticket)
  <2>1. /\ t \in Ticket /\ t.state = ticket.state /\ t.excluded = ticket.excluded
        /\ SameAsked(t, ticket) /\ t.pending = NoPing
    BY <1>2, TouchedRow, DueUsers, Written
  <2>2. Put(t) /\ job' = job
    BY <1>5 DEF Returns
  <2> HIDE DEF t
  <2>3. ReviewInv' /\ Exists' /\ ticket' = t
    BY <1>1, <1>4, <1>5, <2>1, <2>2
  <2> QED
    BY <1>1, <1>3, <2>1, <2>3, PromiseStutters DEF SameAsked
<1>6. CASE /\ ticket.next = "target_timeout" /\ ticket.target # NoUser
           /\ Put(TimedOut(ticket)) /\ Takes("edit", by) /\ local' = local
  <2> DEFINE t == TimedOut(ticket)
  <2>1. ticket.target \in User
    BY <1>2, <1>6 DEF Ticket
  <2>2. ticket.pending = NoPing
    BY <1>1, <1>6 DEF ReviewInv, Turn, Routed, PingAction
  <2>3. t \in Ticket
    BY <1>1, <1>2, <1>6, <2>1, PressedRow
  <2>4. /\ t.state = "open" /\ t.excluded = ticket.excluded \cup {ticket.target}
        /\ SameAsked(t, ticket) /\ t.pending = NoPing
    BY <1>1, <1>2, <2>1, <2>2, DueUsers
  <2>5. Put(t) /\ Takes("edit", by) /\ local' = local
    BY <1>6
  <2> HIDE DEF t
  <2>6. ReviewInv' /\ Exists' /\ ticket' = t
    BY <1>4, <2>3, <2>4, <2>5
  <2>7. Open' /\ ticket'.excluded = ticket.excluded \cup {ticket.target}
        /\ ticket'.asked = ticket.asked
    BY <2>4, <2>6 DEF Open, SameAsked
  <2>8. Promise!Next
    BY <1>1, <1>3, <2>1, <2>6, <2>7, PromiseMoves
  <2> QED
    BY <2>6, <2>8
<1>7. CASE ticket.next \in PingAction /\ Takes("route", by) /\ UNCHANGED rows
  <2>1. job'["locked"].at = "route"
    BY <1>7, JobSteps DEF IInv, Steps
  <2>2. Turn'
    BY <1>7, <2>1 DEF ReviewInv, Turn, At, Settling, rows, Exists
  <2>3. Traced'
    BY <1>7, <2>1 DEF ReviewInv, Traced, At, rows, Exists, Quietly, MayBeSent
  <2>4. Heard'
    BY <1>1, <1>7, <2>1 DEF ReviewInv, Heard, RecordedAsAsked, At, rows, Exists, Quietly
  <2>5. ReviewInv'
    BY <2>2, <2>3, <2>4 DEF ReviewInv
  <2> QED
    BY <1>1, <1>3, <1>7, <2>5, PromiseStutters DEF rows, Exists
<1>8. \/ Put(Exhausted(ticket)) /\ Returns(by) /\ local' = local
      \/ /\ ticket.next = "target_timeout" /\ ticket.target # NoUser
         /\ Put(TimedOut(ticket)) /\ Takes("edit", by) /\ local' = local
      \/ ticket.next \in PingAction /\ Takes("route", by) /\ UNCHANGED rows
  BY DEF ProcessDue, RoutingBegun, RoutingDue, Recovers, Creating, Closing, Open, PingAction
<1> QED
  BY <1>5, <1>6, <1>7, <1>8

\* The row is created for a ticket that nobody has heard of.
LEMMA CreateReview ==
  ASSUME IInv, IInv', ReviewInv, Create
  PROVE  ReviewInv' /\ [Promise!Next]_(Promise!pvars)
<1>1. ~Exists /\ ticket = NoTicket /\ At("create", "rest") /\ At("locked", "rest")
  BY DEF Create, IInv, CreatedOnce, Exists
<1>2. /\ Exists' /\ ticket'.state = "creating" /\ ticket'.excluded = {} /\ ticket'.asked = {}
      /\ ticket'.pings = 0 /\ ticket'.pending = NoPing
  <2>1. PICK r \in Requests : ticket' = Created(r.mode, r.direct)
    BY DEF Create
  <2>2. ticket' \in Ticket
    BY <2>1, NewRow
  <2> QED
    BY <2>1, <2>2, NoTicketAssumption DEF Created, Emptied, Exists
<1>3. Quietly /\ redacted' = redacted
  BY QuietFrame DEF Create, texts, Quietly
<1>4. job'["locked"].at = "rest"
  BY <1>1, JobSteps DEF Create, IInv, Jobs, Steps, At
<1>5. Turn'
  BY <1>2, <1>4, FS_EmptySet DEF Turn, Routed, At, Settling
<1>6. Traced'
  BY <1>2, <1>4 DEF Traced, At
<1>7. Heard'
  BY <1>1, <1>3 DEF Heard, ReviewInv, RecordedAsAsked, Quietly
<1>8. UNCHANGED Promise!pvars
  <2>1. Phase = "draft" /\ Phase' = "draft"
    BY <1>1, <1>2 DEF Phase, Creating, Open
  <2>2. Asks' = Asks /\ Out' = Out
    BY <1>1, <1>2 DEF Asks, Out
  <2> QED
    BY <1>3, <2>1, <2>2 DEF Promise!pvars, Phase, Asks, Out
<1> QED
  BY <1>5, <1>6, <1>7, <1>8 DEF ReviewInv

\* What an erasure leaves of a row.
LEMMA RedactedUsers ==
  ASSUME NEW t \in Ticket, NEW u \in User
  PROVE  LET s == Redacted(t, u)
         IN  /\ s.excluded = t.excluded \ {u} /\ s.asked = t.asked \ {u} /\ s.pings = t.pings
             /\ s.state = t.state \/ (t.state = "claimed" /\ s.state = "open")
             /\ \/ s.pending = NoPing
                \/ s.pending = t.pending /\ s.next = t.next /\ s.state = t.state
<1> DEFINE d == IF t.direct = u THEN NoUser ELSE t.direct
           f == [t EXCEPT !.excluded = t.excluded \ {u}, !.asked = t.asked \ {u}, !.direct = d]
           hit == \/ t.state = "open" /\ Concerns(t, u)
                  \/ t.state = "claimed" /\ Involves(t, u)
           Opened(s) == [s EXCEPT !.state = "open", !.direct = NoUser, !.assignee = NoUser]
<1>1. Redacted(t, u) = IF hit THEN Opened(Released(f)) ELSE f
  BY DEF Redacted
<1>2. d \in User \cup {NoUser} /\ t.excluded \ {u} \in SUBSET User /\ t.asked \ {u} \in SUBSET User
  BY DEF Ticket
<1> HIDE DEF d
<1>3. f \in Ticket
  <2>1. [t EXCEPT !.excluded = t.excluded \ {u}] \in Ticket
    BY <1>2, Field
  <2>2. [t EXCEPT !.excluded = t.excluded \ {u}, !.asked = t.asked \ {u}] \in Ticket
    BY <1>2, <2>1, Field
  <2> QED
    BY <1>2, <2>2, Field
<1>4. /\ f.excluded = t.excluded \ {u} /\ f.asked = t.asked \ {u} /\ f.pings = t.pings
      /\ f.state = t.state /\ f.pending = t.pending /\ f.next = t.next
  BY DEF Ticket
<1> HIDE DEF f
<1>5. CASE hit
  <2>1. /\ Released(f) \in Ticket /\ Released(f).excluded = f.excluded
        /\ SameAsked(Released(f), f) /\ Released(f).pending = NoPing
    BY <1>3, ReleasedRow, ReleasedUsers
  <2>2. ASSUME NEW s \in Ticket
        PROVE  /\ Opened(s).state = "open" /\ Opened(s).pending = s.pending
               /\ Opened(s).excluded = s.excluded /\ SameAsked(Opened(s), s)
    BY DEF Ticket, SameAsked
  <2>3. t.state \in {"open", "claimed"}
    BY <1>5
  <2> HIDE DEF Opened, hit
  <2> QED
    BY <1>1, <1>4, <1>5, <2>1, <2>2, <2>3 DEF SameAsked
<1>6. CASE ~hit
  <2> HIDE DEF hit
  <2> QED
    BY <1>1, <1>4, <1>6
<1> QED
  BY <1>5, <1>6

\* An erasure forgets its user, and ends the ticket of its author.
LEMMA RedactReview ==
  ASSUME IInv, IInv', ReviewInv, NEW u \in User, Redact(u)
  PROVE  ReviewInv' /\ [Promise!Next]_(Promise!pvars)
<1>1. /\ u \notin redacted /\ redacted' = redacted \cup {u}
      /\ heard' = heard /\ posted' = posted /\ limits' = limits
      /\ faults' = faults /\ crashes' = crashes
      /\ At("locked", "rest") /\ At("create", "over")
  BY DEF Redact, Free, texts
<1>2. CASE u # Author /\ Exists /\ Put(Redacted(ticket, u)) /\ local' = local /\ job' = job
  <2> DEFINE t == Redacted(ticket, u)
  <2>1. ticket \in Ticket /\ Sound(ticket, redacted) /\ redacted \in SUBSET User
    BY <1>2, RowFacts DEF IInv, UsersOK
  <2>2. t \in Ticket
    BY <1>2, <2>1, RedactedRow
  <2>3. /\ t.excluded = ticket.excluded \ {u} /\ t.asked = ticket.asked \ {u}
        /\ t.pings = ticket.pings
        /\ t.state = ticket.state \/ (ticket.state = "claimed" /\ t.state = "open")
        /\ \/ t.pending = NoPing
           \/ t.pending = ticket.pending /\ t.next = ticket.next /\ t.state = ticket.state
    BY <2>1, RedactedUsers
  <2>4. ticket' = t /\ (t.pending = NoPing \/ sent' = sent)
    BY <1>2 DEF Put
  <2> HIDE DEF t
  <2>5. Exists'
    BY <2>2, <2>4, NoTicketAssumption DEF Exists
  <2>6. Routed(ticket)
    BY <1>2 DEF ReviewInv, Turn
  <2>7. Routed(t)
    <3>1. IsFiniteSet(t.asked) /\ Cardinality(t.asked) <= t.pings
      <4>1. ticket.pings \in Nat
        BY <2>1 DEF Ticket
      <4>2. t.asked \in SUBSET ticket.asked
        BY <2>3
      <4>3. /\ IsFiniteSet(t.asked) /\ Cardinality(t.asked) <= Cardinality(ticket.asked)
            /\ Cardinality(t.asked) \in Nat /\ Cardinality(ticket.asked) \in Nat
        BY <2>6, <4>2, FS_Subset, FS_CardinalityType DEF Routed
      <4> QED
        BY <2>3, <2>6, <4>1, <4>3 DEF Routed
    <3> QED
      BY <2>3, <2>6, <3>1 DEF Routed, Used
  <2>8. Turn'
    BY <1>1, <1>2, <2>4, <2>7 DEF Turn, At, Settling
  <2>9. Traced'
    BY <1>1, <1>2, <2>3, <2>4 DEF ReviewInv, Traced, MayBeSent, At
  <2>10. Heard'
    BY <1>1, <1>2, <2>3, <2>4, <2>5 DEF ReviewInv, Heard, RecordedAsAsked, At
  <2>11. Promise!Forget(u)
    <3>1. Phase' \in {Phase} \cup (IF Phase = "taken" THEN {"open"} ELSE {})
      BY <1>2, <2>3, <2>4, <2>5 DEF Phase, Creating, Open
    <3>2. Out' = Out \ {u}
      BY <1>2, <2>3, <2>4, <2>5 DEF Out
    <3>3. Asks' = [Asks EXCEPT ![u] = 0]
      BY <1>2, <2>3, <2>4, <2>5 DEF Asks
    <3> QED
      BY <1>1, <3>1, <3>2, <3>3 DEF Promise!Forget, Phase, Asks, Out
  <2> QED
    BY <2>8, <2>9, <2>10, <2>11 DEF ReviewInv, Promise!Next
<1>3. ASSUME Phase' = "closed", Out' = {}, Asks' = [v \in User |-> 0] PROVE Promise!Forget(u)
  BY <1>1, <1>3 DEF Promise!Forget, Promise!Closes, Phase, Asks, Out
<1>4. CASE (Creating \/ Active) /\ BeginsFinishing("user", FALSE, FALSE, TRUE)
  <2>1. Exists /\ ~At("locked", "ack_ping")
    BY <1>1, <1>4 DEF Creating, Active, At
  <2>2. ticket' = Finishing(ticket, FALSE, FALSE)
    BY <1>4 DEF BeginsFinishing
  <2>3. Ending(ticket') /\ ticket' \in Ticket
    BY <2>1, <2>2, RowFacts, KeptRow, NewRow DEF IInv, UsersOK
  <2>4. Exists'
    BY <2>3, NoTicketAssumption DEF Exists
  <2>5. job'["locked"].at = "del_thread"
    BY <1>4 DEF BeginsFinishing, IInv, JobOK, Jobs
  <2>6. Turn'
    BY <2>3, <2>5, FS_EmptySet DEF Turn, Routed, Ending, At, Settling
  <2>7. Traced'
    BY <2>3, <2>5 DEF Traced, Ending, At
  <2>8. Heard'
    BY <1>1, <2>3, <2>4 DEF ReviewInv, Heard, RecordedAsAsked, Ending
  <2>9. Phase' = "closed"
    BY <2>3, <2>4 DEF Phase, Creating, Open, Ending
  <2>10. Out' = {} /\ Asks' = [v \in User |-> 0]
    BY <2>3 DEF Out, Asks, Ending
  <2> QED
    BY <1>3, <2>6, <2>7, <2>8, <2>9, <2>10 DEF ReviewInv, Promise!Next
<1>5. CASE (~Exists \/ Closing) /\ UNCHANGED rows /\ job' = job
  <2>1. ticket' = ticket /\ sent' = sent /\ local' = local
    BY <1>5 DEF rows
  <2>2. Turn'
    BY <1>5, <2>1 DEF ReviewInv, Turn, At, Settling, Exists
  <2>3. Traced'
    BY <1>1, <1>5, <2>1 DEF ReviewInv, Traced, At, Exists, MayBeSent
  <2>4. Heard'
    BY <1>1, <1>5, <2>1 DEF ReviewInv, Heard, RecordedAsAsked, At, Exists
  <2>5. Phase' = "closed"
    BY <1>1, <1>5, <2>1 DEF Phase, Creating, Open, Closing, Exists, At
  <2>6. Out' = {} /\ Asks' = [v \in User |-> 0]
    BY <1>5, <2>1 DEF Out, Asks, Closing, ReviewInv, Turn, Routed, Exists
  <2> QED
    BY <1>3, <2>2, <2>3, <2>4, <2>5, <2>6 DEF ReviewInv, Promise!Next
<1> QED
  BY <1>2, <1>4, <1>5 DEF Redact

-----------------------------------------------------------------------------
(* The ping of a reviewer *)

\* What a handler that routes knows.
LEMMA RoutingFacts ==
  ASSUME IInv, ReviewInv, Exists, job["locked"].at \in RoutingSteps
  PROVE  /\ ticket \in Ticket /\ Sound(ticket, redacted) /\ Routed(ticket) /\ Open
         /\ ~At("create", "rest") /\ redacted \in SUBSET User
         /\ ~At("locked", "route") => /\ ticket.pings < MaxPings /\ ticket.pending # NoPing
                                      /\ ticket.pending.user \in User \ redacted
<1>1. /\ ticket \in Ticket /\ Sound(ticket, redacted) /\ Routed(ticket)
      /\ ~At("create", "rest") /\ redacted \in SUBSET User
  BY RowFacts DEF ReviewInv, Turn, IInv, UsersOK
<1>2. InRouting \/ At("locked", "ack_ping")
  BY DEF InRouting, RoutingSteps, At
<1>3. ~At("locked", "route") => Settling
  BY DEF Settling, RoutingSteps, At
<1>4. ~At("locked", "route") => ticket.pings < MaxPings /\ ticket.pending # NoPing
  BY <1>3 DEF IInv, InTurn, ReviewInv, Turn
<1>5. At("locked", "ack_ping") => ~At("locked", "route")
  BY DEF At
<1>6. Open
  BY <1>1, <1>2, <1>4, <1>5 DEF IInv, InTurn, Open, Sound, Routed, Ticket
<1>7. ticket.pending # NoPing => ticket.pending.user \in User \ redacted
  BY <1>1 DEF Ticket, Ping, Sound
<1> QED
  BY <1>1, <1>4, <1>6, <1>7

\* The handler comes to its end with a row that it leaves or puts off.
LEMMA RoutingLeft ==
  ASSUME IInv, NEW raised \in BOOLEAN, Ends(raised), ~At("locked", "rest"),
         \/ UNCHANGED rows
         \/ Exists /\ Put(Deferred(ticket)) /\ local' = local,
         At("locked", "ack_ping") => ~Exists' \/ faults' # 0,
         Quietly
  PROVE  Plain
<1>1. RowPlain
  <2>1. CASE UNCHANGED rows
    BY <2>1, RowLeft
  <2>2. CASE Exists /\ Put(Deferred(ticket)) /\ local' = local
    BY <2>2, RowFacts, KeptRow, RowWritten
  <2> QED
    BY <2>1, <2>2
<1>2. job'["locked"].at = "rest" /\ job'["create"] = job["create"]
  BY JobSteps DEF IInv
<1>3. JobPlain
  BY <1>2 DEF JobPlain, At, RoutingSteps
<1> QED
  BY <1>1, <1>3 DEF Plain

\* The handler goes on from one step to the next, with the row that it has.
LEMMA RoutedOn ==
  ASSUME IInv, IInv', ReviewInv, Quietly, Exists, ticket' = ticket,
         job["locked"].at \in RoutingSteps \ {"ack_ping"},
         NEW step \in RoutingSteps \ {"route"}, Go("locked", step),
         ticket.pings < MaxPings,
         \/ sent' = sent /\ local' = local
         \/ sent' = "current",
         step \in {"check", "ping"} => ~posted \/ limits.ambiguous
  PROVE  ReviewInv' /\ [Promise!Next]_(Promise!pvars)
<1>1. job'["locked"].at = step /\ job'["create"] = job["create"]
  BY JobSteps DEF IInv, Jobs, Steps, RoutingSteps
<1>2. Exists'
  BY DEF Exists
<1>3. /\ redacted' = redacted /\ heard' = heard /\ posted' = posted /\ limits' = limits
      /\ (faults' = 0 => faults = 0) /\ (crashes' = 0 => crashes = 0)
  BY DEF Quietly
<1>4. Turn'
  BY <1>1 DEF ReviewInv, Turn, At
<1>5. Traced'
  BY <1>1, <1>3 DEF ReviewInv, Traced, MayBeSent, At, Exists
<1>6. Heard'
  BY <1>1, <1>2, <1>3 DEF ReviewInv, Heard, RecordedAsAsked, At, Exists
<1>7. UNCHANGED Promise!pvars
  BY <1>2, <1>3, PromiseStutters
<1> QED
  BY <1>4, <1>5, <1>6, <1>7 DEF ReviewInv

\* The pending reservation is gone on with, one is made, or the routing ends.
LEMMA RouteReview ==
  ASSUME IInv, IInv', ReviewInv, Route
  PROVE  ReviewInv' /\ [Promise!Next]_(Promise!pvars)
<1>1. /\ At("locked", "route") /\ ~At("locked", "rest") /\ ~At("locked", "ack_ping")
      /\ job["locked"].at \in RoutingSteps \ {"ack_ping"}
      /\ heard' = heard /\ redacted' = redacted /\ limits' = limits
      /\ faults' = faults /\ crashes' = crashes
  BY DEF Route, At, RoutingSteps, bounds
<1>2. Exists => /\ ticket \in Ticket /\ Sound(ticket, redacted) /\ Routed(ticket)
                /\ Open /\ redacted \in SUBSET User
  BY <1>1, RoutingFacts
<1>3. UNCHANGED posted => Quietly
  BY <1>1 DEF Quietly
<1>4. CASE /\ Open /\ ticket.pings < MaxPings /\ Go("locked", "settle")
           /\ UNCHANGED <<rows, posted>>
  <2>1. Exists /\ ticket' = ticket /\ sent' = sent /\ local' = local /\ Quietly
    BY <1>3, <1>4 DEF Open, rows
  <2>2. "settle" \in RoutingSteps \ {"route"}
    BY DEF RoutingSteps
  <2> QED
    BY <1>1, <1>4, <2>1, <2>2, RoutedOn
<1>5. CASE /\ Open /\ ticket.pings < MaxPings /\ local' = TRUE /\ posted' = FALSE
           /\ \E u \in Targets : Put(Reserved(ticket, u, ticket.next = "automatic_ping"))
           /\ Go("locked", "settle")
  <2>1. PICK u \in Targets, a \in BOOLEAN : Put(Reserved(ticket, u, a))
    <3>1. (ticket.next = "automatic_ping") \in BOOLEAN
      OBVIOUS
    <3> QED
      BY <1>5, <3>1
  <2> DEFINE p == [user |-> u, automatic |-> a]
  <2>2. Exists /\ ticket.state = "open"
    BY <1>5 DEF Open
  <2>3. u \in User \ (redacted \cup {Author}) /\ ~Used(ticket, u)
    BY <2>2, TargetsSound DEF Targets, Candidates
  <2>4. ticket' = [ticket EXCEPT !.pending = p] /\ ticket' = Reserved(ticket, u, a)
    BY <2>1 DEF Put, Reserved
  <2>5. ticket' \in Ticket
    BY <1>2, <2>2, <2>3, <2>4, PingedRow
  <2>6. p.user = u
    OBVIOUS
  <2> HIDE DEF p
  <2>7. Exists'
    BY <2>5, NoTicketAssumption DEF Exists
  <2>8. /\ ticket'.state = ticket.state /\ ticket'.excluded = ticket.excluded
        /\ ticket'.asked = ticket.asked /\ ticket'.pings = ticket.pings
        /\ ticket'.next = ticket.next /\ ticket'.pending = p
    BY <1>2, <2>2, <2>4 DEF Ticket
  <2>9. job'["locked"].at = "settle" /\ job'["create"] = job["create"]
    BY <1>5, JobSteps DEF IInv, Jobs, Steps
  <2>10. ticket.next \in PingAction
    BY <1>1, <2>2 DEF ReviewInv, Turn
  <2>11. Routed(ticket')
    BY <1>2, <2>2, <2>3, <2>6, <2>8, <2>10 DEF Routed, Used
  <2>12. Turn'
    BY <1>5, <2>8, <2>9, <2>11 DEF Turn, At
  <2>13. Traced'
    BY <1>5, <2>9 DEF Traced, At
  <2>14. Heard'
    BY <1>1, <2>2, <2>7, <2>8, <2>9 DEF ReviewInv, Heard, RecordedAsAsked, At
  <2>15. UNCHANGED Promise!pvars
    BY <1>1, <2>2, <2>7, <2>8, PromiseStutters
  <2> QED
    BY <2>12, <2>13, <2>14, <2>15 DEF ReviewInv
<1>6. CASE Open /\ Put(Exhausted(ticket)) /\ Ends(FALSE) /\ UNCHANGED <<local, posted>>
  <2>1. Exists /\ ticket.state = "open"
    BY <1>6 DEF Open
  <2> DEFINE t == Exhausted(ticket)
  <2>2. /\ t \in Ticket /\ t.state = ticket.state /\ t.excluded = ticket.excluded
        /\ SameAsked(t, ticket) /\ t.pending = NoPing
    BY <1>2, <2>1, TouchedRow, DueUsers, Written
  <2>3. ticket' = t
    BY <1>6 DEF Put
  <2> HIDE DEF t
  <2>4. Exists' /\ Routed(ticket')
    BY <1>2, <2>1, <2>2, <2>3, RoutedRow, NoTicketAssumption DEF Exists
  <2>5. job'["locked"].at = "rest"
    BY <1>6, JobSteps DEF IInv
  <2>6. job'["locked"].at \notin RoutingSteps
    BY <2>5 DEF RoutingSteps
  <2>7. ReviewInv'
    BY <1>1, <1>3, <1>6, <2>1, <2>2, <2>3, <2>4, <2>6, PressedReview
  <2>8. UNCHANGED Promise!pvars
    BY <1>1, <2>1, <2>2, <2>3, <2>4, PromiseStutters DEF SameAsked
  <2> QED
    BY <2>7, <2>8
<1>7. CASE ~Exists /\ Ends(FALSE) /\ UNCHANGED <<rows, posted>>
  <2>1. Plain
    BY <1>1, <1>3, <1>7, RoutingLeft
  <2> QED
    BY <2>1, PlainReview, PlainPromise
<1> QED
  BY <1>4, <1>5, <1>6, <1>7 DEF Route

\* A ping that may have been sent is looked for.
LEMMA SettleReview ==
  ASSUME IInv, IInv', ReviewInv, Settle
  PROVE  ReviewInv' /\ [Promise!Next]_(Promise!pvars)
<1>1. /\ ~At("locked", "rest") /\ ~At("locked", "ack_ping")
      /\ job["locked"].at \in RoutingSteps \ {"ack_ping"} /\ ~At("locked", "route")
  BY DEF Settle, At, RoutingSteps
<1>2. Quietly
  BY QuietFrame DEF Settle, texts
<1>3. Exists => /\ ticket \in Ticket /\ ticket.pings < MaxPings /\ ticket.pending # NoPing
  BY <1>1, RoutingFacts
<1>4. {"ack_ping", "check"} \subseteq RoutingSteps \ {"route"}
  BY DEF RoutingSteps
<1>5. CASE /\ Exists /\ MayBeSent /\ ticket' = ticket /\ local' = local
           /\ sent' = (IF posted THEN "current" ELSE "no")
           /\ Go("locked", IF posted THEN "ack_ping" ELSE "check")
  <2>1. CASE posted
    BY <1>1, <1>2, <1>3, <1>4, <1>5, <2>1, RoutedOn
  <2>2. CASE ~posted
    <3>1. sent' = sent /\ Go("locked", "check")
      BY <1>5, <2>2 DEF MayBeSent
    <3> QED
      BY <1>1, <1>2, <1>3, <1>4, <1>5, <2>2, <3>1, RoutedOn
  <2> QED
    BY <2>1, <2>2
<1>6. CASE /\ Exists /\ ~MayBeSent /\ UNCHANGED rows
           /\ Go("locked", IF sent = "current" THEN "ack_ping" ELSE "check")
  <2>1. ticket' = ticket /\ sent' = sent /\ local' = local
    BY <1>6 DEF rows
  <2>2. CASE sent = "current"
    BY <1>1, <1>2, <1>3, <1>4, <1>6, <2>1, <2>2, RoutedOn
  <2>3. CASE sent # "current"
    <3>1. ~posted \/ limits.ambiguous
      BY <1>3, <1>6, <2>3 DEF ReviewInv, Traced
    <3> QED
      BY <1>1, <1>2, <1>3, <1>4, <1>6, <2>1, <2>3, <3>1, RoutedOn
  <2> QED
    BY <2>2, <2>3
<1>7. CASE Exists /\ BeginsFinishing(job["locked"].by, FALSE, TRUE, TRUE)
  <2>1. job["locked"].by \in By
    BY DEF IInv, JobOK, Job, Jobs, By
  <2>2. Plain
    BY <1>1, <1>2, <1>7, <2>1, DeletionBegun DEF Plain
  <2> QED
    BY <2>2, PlainReview, PlainPromise
<1>8. CASE ~Exists /\ Ends(FALSE) /\ UNCHANGED rows
  <2>1. Plain
    BY <1>1, <1>2, <1>8, RoutingLeft
  <2> QED
    BY <2>1, PlainReview, PlainPromise
<1> QED
  BY <1>5, <1>6, <1>7, <1>8 DEF Settle

\* A reservation is checked again, and cancelled if its user may not be pinged.
LEMMA CheckReview ==
  ASSUME IInv, IInv', ReviewInv, Check
  PROVE  ReviewInv' /\ [Promise!Next]_(Promise!pvars)
<1>1. /\ ~At("locked", "rest") /\ ~At("locked", "ack_ping") /\ At("locked", "check")
      /\ job["locked"].at \in RoutingSteps \ {"ack_ping"} /\ ~At("locked", "route")
  BY DEF Check, At, RoutingSteps
<1>2. Quietly
  BY QuietFrame DEF Check, texts
<1>3. Exists => /\ ticket \in Ticket /\ Sound(ticket, redacted) /\ Routed(ticket) /\ Open
                /\ ticket.pings < MaxPings /\ ticket.pending # NoPing /\ redacted \in SUBSET User
  BY <1>1, RoutingFacts
<1>4. CASE Exists /\ Go("locked", "ping") /\ UNCHANGED rows
  <2>1. ticket' = ticket /\ sent' = sent /\ local' = local
    BY <1>4 DEF rows
  <2>2. ~posted \/ limits.ambiguous
    BY <1>1, <1>4 DEF ReviewInv, Traced
  <2>3. "ping" \in RoutingSteps \ {"route"}
    BY DEF RoutingSteps
  <2> QED
    BY <1>1, <1>2, <1>3, <1>4, <2>1, <2>2, <2>3, RoutedOn
<1>5. CASE Exists /\ Put(Cancelled(ticket)) /\ local' = FALSE /\ Go("locked", "route")
  <2> DEFINE t == Cancelled(ticket)
  <2>1. t \in Ticket
    BY <1>3, <1>5, TouchedRow
  <2>2. /\ t.state = ticket.state /\ t.excluded = ticket.excluded /\ SameAsked(t, ticket)
        /\ t.pending = NoPing /\ t.next = ticket.next
    BY <1>3, <1>5 DEF Cancelled, Ticket, SameAsked
  <2>3. ticket' = t
    BY <1>5 DEF Put
  <2> HIDE DEF t
  <2>4. ticket.state = "open" /\ ticket.next \in PingAction
    BY <1>3, <1>5 DEF Open, Routed
  <2>5. Exists' /\ Routed(ticket')
    BY <1>3, <1>5, <2>1, <2>2, <2>3, <2>4, RoutedRow, NoTicketAssumption DEF Exists
  <2>6. job'["locked"].at = "route" /\ job'["create"] = job["create"]
    BY <1>5, JobSteps DEF IInv, Jobs, Steps
  <2>7. Turn'
    BY <2>2, <2>3, <2>4, <2>5, <2>6 DEF Turn, Settling
  <2>8. Traced'
    BY <2>2, <2>3, <2>6 DEF Traced, At
  <2>9. Heard'
    BY <1>2, <1>5, <2>2, <2>3, <2>5, <2>6, <1>1
    DEF ReviewInv, Heard, RecordedAsAsked, At, SameAsked, Quietly
  <2>10. UNCHANGED Promise!pvars
    BY <1>2, <1>5, <2>2, <2>3, <2>5, PromiseStutters DEF SameAsked, Quietly
  <2> QED
    BY <2>7, <2>8, <2>9, <2>10 DEF ReviewInv
<1>6. CASE ~Exists /\ Ends(FALSE) /\ UNCHANGED rows
  <2>1. Plain
    BY <1>1, <1>2, <1>6, RoutingLeft
  <2> QED
    BY <2>1, PlainReview, PlainPromise
<1> QED
  BY <1>4, <1>5, <1>6 DEF Check

\* A reviewer is pinged who has not heard of the ticket, and who is then looked for.
LEMMA PingReview ==
  ASSUME IInv, IInv', ReviewInv, PingReviewer
  PROVE  ReviewInv' /\ [Promise!Next]_(Promise!pvars)
<1>1. /\ ~At("locked", "rest") /\ ~At("locked", "ack_ping") /\ At("locked", "ping")
      /\ job["locked"].at \in RoutingSteps \ {"ack_ping"} /\ ~At("locked", "route")
  BY DEF PingReviewer, At, RoutingSteps
<1>2. UNCHANGED <<heard, posted>> => Quietly
  BY QuietFrame DEF PingReviewer
<1>3. Exists => /\ ticket \in Ticket /\ Sound(ticket, redacted) /\ Routed(ticket) /\ Open
                /\ ticket.pings < MaxPings /\ ticket.pending # NoPing
                /\ ticket.pending.user \in User \ redacted
  BY <1>1, RoutingFacts
<1>4. CASE /\ Exists /\ Delivered /\ sent' = "current" /\ Go("locked", "ack_ping")
           /\ UNCHANGED <<ticket, local, bounds>>
  <2> DEFINE p == ticket.pending.user
  <2>1. /\ heard' = [heard EXCEPT ![p] = heard[p] + 1] /\ posted' = TRUE /\ p \in User \ redacted
        /\ redacted' = redacted /\ faults' = faults /\ crashes' = crashes
    BY <1>3, <1>4 DEF Delivered, bounds
  <2>2. heard \in [User -> Nat]
    BY DEF IInv, DiscordOK
  <2>3. job'["locked"].at = "ack_ping" /\ job'["create"] = job["create"]
    BY <1>4, JobSteps DEF IInv, Jobs, Steps
  <2>4. Exists'
    BY <1>4 DEF Exists
  <2>5. Turn'
    BY <1>3, <1>4, <2>3 DEF ReviewInv, Turn, At
  <2>6. Traced'
    BY <1>4, <2>3 DEF Traced, At
  <2>7. Heard'
    <3> SUFFICES ASSUME faults' = 0, crashes' = 0, NEW u \in User \ redacted', heard'[u] > 0
                 PROVE  heard'[u] = 1 /\ RecordedAsAsked(u)'
      BY DEF Heard
    <3>1. ASSUME u = p PROVE heard'[u] = 1 /\ RecordedAsAsked(u)'
      <4>1. ~RecordedAsAsked(p)
        BY <1>1, <1>3, <1>4 DEF RecordedAsAsked, Routed, Used, Open
      <4>2. heard[p] = 0
        BY <2>1, <2>2, <4>1 DEF ReviewInv, Heard
      <4>3. RecordedAsAsked(u)'
        BY <1>4, <2>3, <2>4, <3>1 DEF RecordedAsAsked, At
      <4>4. heard'[u] = 1
        BY <2>1, <2>2, <3>1, <4>2
      <4> QED
        BY <4>3, <4>4
    <3>2. ASSUME u # p PROVE heard'[u] = 1 /\ RecordedAsAsked(u)'
      <4>1. heard'[u] = heard[u]
        BY <2>1, <2>2, <3>2
      <4>2. heard[u] = 1 /\ RecordedAsAsked(u)
        BY <2>1, <4>1 DEF ReviewInv, Heard
      <4> QED
        BY <1>4, <2>4, <3>2, <4>1, <4>2 DEF RecordedAsAsked
    <3> QED
      BY <3>1, <3>2
  <2>8. UNCHANGED Promise!pvars
    BY <1>4, <2>1, <2>4, PromiseStutters
  <2> QED
    BY <2>5, <2>6, <2>7, <2>8 DEF ReviewInv
<1>5. CASE Exists /\ Delivered /\ limits.ambiguous /\ Fault /\ PingLater
  <2> DEFINE t == Deferred(ticket)
  <2>1. t \in Ticket /\ SameCore(t, ticket)
    BY <1>3, <1>5, KeptRow, TouchedRow DEF IInv, UsersOK
  <2>2. ticket' = t
    BY <1>5 DEF PingLater, Put
  <2> HIDE DEF t
  <2>3. Exists'
    BY <2>1, <2>2, NoTicketAssumption DEF Exists
  <2>4. job'["locked"].at = "rest"
    BY <1>5, JobSteps DEF IInv, PingLater
  <2>5. limits'.ambiguous /\ faults' # 0 /\ redacted' = redacted
    BY <1>5 DEF Fault, IInv, BoundOK
  <2>6. Turn'
    BY <1>3, <1>5, <2>1, <2>2, <2>4 DEF Turn, At, Settling, Routed, SameCore, Used
  <2>7. Traced' /\ Heard'
    BY <2>5 DEF Traced, Heard
  <2>8. UNCHANGED Promise!pvars
    BY <1>5, <2>1, <2>2, <2>3, <2>5, PromiseStutters DEF SameCore
  <2> QED
    BY <2>6, <2>7, <2>8 DEF ReviewInv
<1>6. CASE /\ Exists /\ BeginsFinishing(job["locked"].by, FALSE, TRUE, FALSE)
           /\ UNCHANGED <<heard, posted>>
  <2>1. job["locked"].by \in By
    BY DEF IInv, JobOK, Job, Jobs, By
  <2>2. Plain
    BY <1>1, <1>2, <1>6, <2>1, DeletionBegun DEF Plain
  <2> QED
    BY <2>2, PlainReview, PlainPromise
<1>7. CASE Exists /\ PingLater /\ UNCHANGED <<heard, posted>>
  <2>1. Plain
    BY <1>1, <1>2, <1>7, RoutingLeft DEF PingLater
  <2> QED
    BY <2>1, PlainReview, PlainPromise
<1>8. CASE ~Exists /\ Ends(FALSE) /\ UNCHANGED <<rows, heard, posted>>
  <2>1. Plain
    BY <1>1, <1>2, <1>8, RoutingLeft
  <2> QED
    BY <2>1, PlainReview, PlainPromise
<1> QED
  BY <1>4, <1>5, <1>6, <1>7, <1>8 DEF PingReviewer

\* An acknowledged ping is one more user asked, and no more than pings counted.
LEMMA AcknowledgedUsers ==
  ASSUME NEW t \in Ticket, Routed(t)
  PROVE  LET s == Acknowledged(t)
         IN  /\ s.state = t.state /\ s.excluded = t.excluded /\ s.pending = NoPing
             /\ s.asked = t.asked \cup {t.pending.user}
             /\ IsFiniteSet(s.asked) /\ Cardinality(s.asked) <= s.pings
<1> DEFINE s == Acknowledged(t)
           u == t.pending.user
<1>1. /\ s.state = t.state /\ s.excluded = t.excluded /\ s.pending = NoPing
      /\ s.asked = t.asked \cup {u} /\ s.pings = t.pings + 1
  BY DEF Acknowledged, Ticket
<1>2. IsFiniteSet(t.asked) /\ Cardinality(t.asked) <= t.pings /\ Cardinality(t.asked) \in Nat
  BY FS_CardinalityType DEF Routed
<1>3. t.pings \in Nat
  BY DEF Ticket
<1> HIDE DEF s, u
<1>4. /\ IsFiniteSet(t.asked \cup {u})
      /\ Cardinality(t.asked \cup {u}) \in {Cardinality(t.asked), Cardinality(t.asked) + 1}
  BY <1>2, FS_AddElement
<1>5. Cardinality(t.asked \cup {u}) <= t.pings + 1
  BY <1>2, <1>3, <1>4
<1>6. IsFiniteSet(s.asked) /\ Cardinality(s.asked) <= s.pings
  BY <1>1, <1>4, <1>5
<1> QED
  BY <1>1, <1>6 DEF s, u

\* The promise counts as the ticket does.
LEMMA SameCount ==
  ASSUME NEW S
  PROVE  Promise!Cardinality(S) = Cardinality(S)
BY DEF Promise!Cardinality, Cardinality

\* The acknowledgement records who was asked.
LEMMA AcknowledgeReview ==
  ASSUME IInv, IInv', ReviewInv, AcknowledgePing
  PROVE  ReviewInv' /\ [Promise!Next]_(Promise!pvars)
<1>1. /\ At("locked", "ack_ping") /\ ~At("locked", "rest") /\ ~At("locked", "route")
      /\ job["locked"].at \in RoutingSteps
      /\ heard' = heard /\ posted' = posted /\ redacted' = redacted
      /\ faults' = faults /\ crashes' = crashes /\ limits' = limits
      /\ sent' = "no" /\ local' = FALSE
  BY DEF AcknowledgePing, At, RoutingSteps, texts, bounds
<1>2. CASE Exists /\ ticket' = Acknowledged(ticket) /\ Go("locked", "edit")
  <2> DEFINE p == ticket.pending.user
  <2>1. /\ ticket \in Ticket /\ Sound(ticket, redacted) /\ Routed(ticket) /\ Open
        /\ ticket.pings < MaxPings /\ ticket.pending # NoPing /\ p \in User \ redacted
        /\ redacted \in SUBSET User
    BY <1>1, <1>2, RoutingFacts
  <2>2. ticket' \in Ticket
    BY <1>2, <2>1, PingedRow
  <2>3. Exists'
    BY <2>2, NoTicketAssumption DEF Exists
  <2>4. /\ ticket'.state = ticket.state /\ ticket'.excluded = ticket.excluded
        /\ ticket'.pending = NoPing /\ ticket'.asked = ticket.asked \cup {p}
        /\ IsFiniteSet(ticket'.asked) /\ Cardinality(ticket'.asked) <= ticket'.pings
    BY <1>2, <2>1, AcknowledgedUsers
  <2>5. job'["locked"].at = "edit" /\ job'["create"] = job["create"]
    BY <1>2, JobSteps DEF IInv, Jobs, Steps
  <2>6. Turn'
    BY <2>1, <2>4, <2>5 DEF Turn, Routed, At, Settling, Open
  <2>7. Traced'
    BY <2>4, <2>5 DEF Traced, At
  <2>8. Heard'
    BY <1>1, <1>2, <2>3, <2>4 DEF ReviewInv, Heard, RecordedAsAsked
  <2>9. ASSUME NEW u \in User, u = p PROVE Promise!Ask(u)
    <3>1. Phase = "open" /\ Phase' = "open"
      BY <2>1, <2>3, <2>4 DEF Phase, Creating, Open
    <3>2. Asks[u] = 0 /\ u \notin Out \cup redacted
      BY <1>2, <2>1, <2>9 DEF Asks, Out, Routed, Used
    <3> DEFINE asked == {v \in User : Asks[v] > 0}
    <3>3. asked = ticket.asked
      BY <1>2, <2>1 DEF Asks, Ticket
    <3>4. Promise!Cardinality(asked) < MaxPings
      <4>1. Cardinality(ticket.asked) \in Nat /\ Cardinality(ticket.asked) <= ticket.pings
            /\ ticket.pings \in Nat
        BY <2>1, FS_CardinalityType DEF Routed, Ticket
      <4>2. Promise!Cardinality(ticket.asked) = Cardinality(ticket.asked)
        BY SameCount
      <4> HIDE DEF asked
      <4>3. Promise!Cardinality(asked) = Cardinality(ticket.asked)
        BY <3>3, <4>2
      <4> QED
        BY <2>1, <4>1, <4>3, TicketAssumption
    <3>5. Asks' = [Asks EXCEPT ![u] = 1]
      BY <1>2, <2>1, <2>3, <2>4, <2>9 DEF Asks
    <3>6. Out' = Out
      BY <1>2, <2>3, <2>4 DEF Out
    <3> QED
      BY <1>1, <3>1, <3>2, <3>4, <3>5, <3>6 DEF Promise!Ask, Phase, Asks, Out
  <2>10. Promise!Next
    <3>1. PICK u \in User : u = p
      BY <2>1
    <3>2. Promise!Ask(u)
      BY <2>9, <3>1
    <3> QED
      BY <3>2 DEF Promise!Next
  <2> QED
    BY <2>6, <2>7, <2>8, <2>10 DEF ReviewInv
<1>3. CASE ~Exists /\ Ends(FALSE) /\ UNCHANGED ticket
  <2>1. ~Exists' /\ job'["locked"].at = "rest" /\ job'["create"] = job["create"]
    BY <1>3, JobSteps DEF IInv, Exists
  <2>2. RowPlain /\ JobPlain /\ Quietly
    BY <1>1, <2>1 DEF RowPlain, JobPlain, Quietly, RoutingSteps, At
  <2> QED
    BY <2>2, PlainReview, PlainPromise DEF Plain
<1> QED
  BY <1>2, <1>3 DEF AcknowledgePing

\* All of the routing.
LEMMA RoutingReview ==
  ASSUME IInv, IInv', ReviewInv, Routing
  PROVE  ReviewInv' /\ [Promise!Next]_(Promise!pvars)
<1>1. CASE GatewayUnavailable
  <2>1. ~At("locked", "rest") /\ ~At("locked", "ack_ping")
    BY <1>1 DEF GatewayUnavailable, At
  <2>2. Quietly
    BY <1>1, QuietFrame DEF GatewayUnavailable, texts
  <2>3. Plain
    BY <1>1, <2>1, <2>2, RoutingLeft DEF GatewayUnavailable
  <2> QED
    BY <2>3, PlainReview, PlainPromise
<1>2. CASE SettlementFails
  <2>1. ~At("locked", "rest") /\ faults' # 0
    BY <1>2 DEF SettlementFails, At, Fault, IInv, BoundOK
  <2>2. Quietly
    BY <1>2, QuietFrame DEF SettlementFails, texts
  <2>3. Plain
    BY <1>2, <2>1, <2>2, RoutingLeft DEF SettlementFails
  <2> QED
    BY <2>3, PlainReview, PlainPromise
<1> QED
  BY <1>1, <1>2, RouteReview, SettleReview, CheckReview, PingReview, AcknowledgeReview
  DEF Routing

-----------------------------------------------------------------------------
(* The theorems *)

\* A handler that has begun goes on.
LEMMA HandlerReview ==
  ASSUME IInv, IInv', ReviewInv, Handler
  PROVE  ReviewInv' /\ [Promise!Next]_(Promise!pvars)
<1>1. CASE Recovery \/ Edit
  BY <1>1, RecoveryPlain, EditPlain, PlainReview, PlainPromise
<1>2. CASE Routing
  BY <1>2, RoutingReview
<1>3. ASSUME NEW j \in Jobs, Publication(j)
      PROVE  ReviewInv' /\ [Promise!Next]_(Promise!pvars)
  <2>1. CASE Activate(j) /\ Creating
    BY <2>1, ActivateReview
  <2>2. CASE ~(Activate(j) /\ Creating)
    <3>1. Plain
      BY <1>3, <2>2, PublicationPlain
    <3> QED
      BY <3>1, PlainReview, PlainPromise
  <2> QED
    BY <2>1, <2>2
<1>4. ASSUME NEW j \in Jobs, Deletion(j)
      PROVE  ReviewInv' /\ [Promise!Next]_(Promise!pvars)
  <2>1. Plain
    BY <1>4, DeletionPlain
  <2> QED
    BY <2>1, PlainReview, PlainPromise
<1> QED
  BY <1>1, <1>2, <1>3, <1>4 DEF Handler

\* The deadline scheduler and the start of the cog.
LEMMA ServingReview ==
  ASSUME IInv, IInv', ReviewInv, Scheduler \/ Restoration \/ MarkFinished
  PROVE  ReviewInv' /\ [Promise!Next]_(Promise!pvars)
<1>1. ASSUME NEW by \in By, ProcessDue(by), Free, RoutingBegun
      PROVE  ReviewInv' /\ [Promise!Next]_(Promise!pvars)
  <2>1. Quietly
    BY QuietFrame DEF Scheduler, Clear, ReadDeadline, Wake, Timer, Query, Serve, SchedulerFails,
                      Restoration, Load, List, RestoreCleanup, ListDue, RestoreDue,
                      MarkFinished, texts
  <2> QED
    BY <1>1, <2>1, DueReview DEF Free
<1>2. CASE \A by \in By : ~(ProcessDue(by) /\ Free /\ RoutingBegun)
  <2>1. Plain
    BY <1>2, ServingPlain
  <2> QED
    BY <2>1, PlainReview, PlainPromise
<1> QED
  BY <1>1, <1>2

\* Every step keeps the invariant and is one of the promise, or none.
LEMMA ReviewStep ==
  ASSUME IInv, IInv', ReviewInv, [Next]_vars
  PROVE  ReviewInv' /\ [Promise!Next]_(Promise!pvars)
<1>1. CASE Create
  BY <1>1, CreateReview
<1>2. CASE Handler
  BY <1>2, HandlerReview
<1>3. CASE Scheduler \/ Restoration \/ MarkFinished
  BY <1>3, ServingReview
<1>4. CASE Button /\ ~MarkFinished
  BY <1>4, ButtonReview
<1>5. ASSUME NEW u \in User, Redact(u)
      PROVE  ReviewInv' /\ [Promise!Next]_(Promise!pvars)
  BY <1>5, RedactReview
<1>6. CASE Tick \/ Event \/ Resync \/ ModeratorDeletes \/ Crash \/ \E u \in User : ToggleProfile(u)
  <2>1. Plain
    BY <1>6, WorldPlain
  <2> QED
    BY <2>1, PlainReview, PlainPromise
<1>7. CASE UNCHANGED vars
  <2>1. UNCHANGED <<rows, job, texts, bounds>>
    BY <1>7 DEF vars, running
  <2>2. Quietly
    BY <2>1, QuietFrame DEF texts
  <2>3. Plain
    BY <2>1, <2>2, RowLeft DEF Plain, JobPlain, At
  <2> QED
    BY <2>3, PlainReview, PlainPromise
<1> QED
  BY <1>1, <1>2, <1>3, <1>4, <1>5, <1>6, <1>7 DEF Next

\* The invariant holds throughout.
LEMMA ReviewInductive ==
  Spec => []ReviewInv
<1>1. Init => ReviewInv
  BY DEF Init, ReviewInv, Turn, Traced, Heard, Rest, Jobs, At, Settling, Exists
<1>2. IInv /\ IInv' /\ ReviewInv /\ [Next]_vars => ReviewInv'
  BY ReviewStep
<1> QED
  BY <1>1, <1>2, Inductive, PTL DEF Spec

\* What a ticket does, it does as it promised its reviewers (TicketService): each is
\* asked once, while it is open, within the budget and never after he was ruled out.
THEOREM TicketKeepsPromise ==
  Spec => KeepsReviewPromise
<1>1. Init => Promise!Init
  <2> SUFFICES ASSUME Init PROVE Promise!Init
    OBVIOUS
  <2>1. Phase = "draft" /\ Asks = [u \in User |-> 0] /\ Out = {} /\ redacted = {}
    BY DEF Init, Phase, Asks, Out, Exists, Creating, Open, At, Jobs, Rest
  <2> QED
    BY <2>1 DEF Promise!Init, Phase, Asks, Out
<1>2. IInv /\ IInv' /\ ReviewInv /\ [Next]_vars => [Promise!Next]_(Promise!pvars)
  BY ReviewStep
<1> QED
  BY <1>1, <1>2, Inductive, ReviewInductive, PTL DEF Spec, KeepsReviewPromise, Promise!Spec

\* Nobody but PingReviewer pings.
LEMMA PingedByHandler ==
  ASSUME IInv, [Next]_vars, heard' # heard
  PROVE  PingReviewer /\ Exists
<1>1. CASE Handler
  <2>1. CASE Recovery \/ Edit
    BY <2>1 DEF Recovery, Edit, FindMessage, FindThread, EditTicket, EditFails,
                AcknowledgeEdit, texts
  <2>2. CASE Routing
    BY <2>2 DEF Routing, Route, Settle, Check, GatewayUnavailable, AcknowledgePing,
                SettlementFails, PingReviewer, texts
  <2>3. ASSUME NEW j \in Jobs, Publication(j) \/ Deletion(j) PROVE FALSE
    BY <2>3 DEF Publication, SendTicket, RecordMessage, CreateThread, RecordThread,
                Activate, PublicationFails, Deletion, DeleteThread, DeleteMessage,
                DeleteRow, DeletionFails, texts
  <2> QED
    BY <1>1, <2>1, <2>2, <2>3 DEF Handler
<1>2. CASE Button \/ Scheduler \/ Restoration
  BY <1>2 DEF Button, Claim, Decline, Unassign, MarkFinished, Scheduler, Clear,
              ReadDeadline, Wake, Timer, Query, Serve, SchedulerFails, Restoration,
              Load, List, RestoreCleanup, ListDue, RestoreDue, texts
<1>3. CASE \/ Create \/ Tick \/ Event \/ Resync \/ ModeratorDeletes \/ Crash
           \/ \E v \in User : ToggleProfile(v) \/ Redact(v)
  BY <1>3 DEF Create, Tick, NextDue, SyncDue, ProtectionEnds, Ages, Event,
              HandleDeleted, HandleChannelDeleted, Resync, ModeratorDeletes, Crash,
              ToggleProfile, Redact, texts
<1>4. CASE UNCHANGED vars
  BY <1>4 DEF vars, texts
<1> QED
  BY <1>1, <1>2, <1>3, <1>4 DEF Next

\* A ping that was delivered is not sent again for the same reservation, though its
\* acknowledgement failed or the bot was started again (_settle_pending_ping).
THEOREM PingSentOnce ==
  Spec => PingNotRepeated
<1>1. IInv /\ ReviewInv /\ [Next]_vars => [heard' # heard => ~posted \/ limits.ambiguous]_vars
  <2> SUFFICES ASSUME IInv, ReviewInv, [Next]_vars, heard' # heard
               PROVE  ~posted \/ limits.ambiguous
    OBVIOUS
  <2>1. PingReviewer /\ Exists
    BY PingedByHandler
  <2> QED
    BY <2>1 DEF ReviewInv, Traced, PingReviewer
<1> QED
  BY <1>1, Inductive, ReviewInductive, PTL DEF Spec, PingNotRepeated

-----------------------------------------------------------------------------
(* Nothing is said twice, if no creation runs beside the restoration *)

\* The handler that creates the ticket is at work.
Making == ~At("create", "rest") /\ ~At("create", "over")

Publishing ==
    job["locked"].at \in {"find_message", "send", "record", "find_thread", "thread",
                          "record_thread", "activate"}

\* While the creation is at work nobody else completes its ticket: the start of the cog
\* is over, the row has no deadline, and the lock is free, or the ticket is ending.
MadeAlone ==
    /\ Making /\ Creating => /\ restore = "done" /\ sched # "serve" /\ ticket.syncAt = "none"
                             /\ At("locked", "rest")
    /\ Publishing => At("create", "over")
    /\ At("create", "rest") => sched # "serve"
    /\ ~At("locked", "rest") /\ job["locked"].by = "restore" => restore \in {"cleanup", "serve"}

\* A message is sent only where there is none.
OneMessage ==
    /\ At("create", "rest") \/ At("create", "send") => made = {}
    /\ At("locked", "send") => messages = {}
    /\ \A m, n \in messages : m = n

PublishedInv == ~limits.overlap => MadeAlone /\ OneMessage

\* What may happen in one behaviour is settled at its beginning.
LEMMA LimitsKept ==
  ASSUME [Next]_vars
  PROVE  limits' = limits
<1>1. CASE Handler
  <2>1. CASE Recovery \/ Edit \/ Routing
    BY <2>1 DEF Recovery, Edit, Routing, FindMessage, FindThread, EditTicket, EditFails,
                AcknowledgeEdit, Route, Settle, Check, GatewayUnavailable, PingReviewer,
                AcknowledgePing, SettlementFails, Fault, bounds
  <2>2. ASSUME NEW j \in Jobs, Publication(j) \/ Deletion(j) PROVE limits' = limits
    BY <2>2 DEF Publication, SendTicket, RecordMessage, CreateThread, RecordThread,
                Activate, PublicationFails, Deletion, DeleteThread, DeleteMessage,
                DeleteRow, DeletionFails, Fault, bounds
  <2> QED
    BY <1>1, <2>1, <2>2 DEF Handler
<1>2. CASE Button \/ Scheduler \/ Restoration
  BY <1>2 DEF Button, Claim, Decline, Unassign, MarkFinished, Scheduler, Clear,
              ReadDeadline, Wake, Timer, Query, Serve, SchedulerFails, Restoration,
              Load, List, RestoreCleanup, ListDue, RestoreDue, Fault, bounds
<1>3. CASE \/ Create \/ Tick \/ Event \/ Resync \/ ModeratorDeletes \/ Crash
           \/ \E v \in User : ToggleProfile(v) \/ Redact(v)
  BY <1>3 DEF Create, Tick, NextDue, SyncDue, ProtectionEnds, Ages, Event,
              HandleDeleted, HandleChannelDeleted, Resync, ModeratorDeletes, Crash,
              ToggleProfile, Redact, bounds
<1>4. CASE UNCHANGED vars
  BY <1>4 DEF vars, bounds
<1> QED
  BY <1>1, <1>2, <1>3, <1>4 DEF Next

\* A ticket that is half made was so before, unless it is just begun.
LEMMA MadeBefore ==
  ASSUME IInv, IInv', ReviewInv, [Next]_vars, Creating',
         At("create", "rest") => At("create", "rest")'
  PROVE  Creating
<1>1. Phase' = "draft"
  BY DEF Phase, Creating, Open
<1>2. Phase = "draft"
  <2>1. [Promise!Next]_(Promise!pvars)
    BY ReviewStep
  <2>2. CASE UNCHANGED Promise!pvars
    BY <1>1, <2>2 DEF Promise!pvars, Phase
  <2>3. CASE Promise!Publish \/ Promise!Take \/ Promise!Close
    BY <1>1, <2>3 DEF Promise!Publish, Promise!Take, Promise!Close, Promise!Closes, Phase
  <2>4. ASSUME NEW u \in User,
               Promise!Ask(u) \/ Promise!RuleOut(u) \/ Promise!GiveBack(u) \/ Promise!Forget(u)
        PROVE  Phase = "draft"
    BY <1>1, <2>4 DEF Promise!Ask, Promise!RuleOut, Promise!GiveBack, Promise!Forget,
                      Promise!Closes, Phase
  <2> QED
    BY <2>1, <2>2, <2>3, <2>4 DEF Promise!Next
<1>3. ~At("create", "rest")
  BY DEF IInv, CreatedOnce, Creating
<1> QED
  BY <1>2, <1>3 DEF Phase, Creating, Open, Exists

\* No step but SendTicket adds a message.
LEMMA SaidNothing ==
  ASSUME OneMessage, made' = made, messages' \subseteq messages,
         job'["create"].at \in {"rest", "send"} => job'["create"].at = job["create"].at,
         At("locked", "send")' => At("locked", "send") \/ messages = {}
  PROVE  OneMessage'
BY DEF OneMessage, At

\* The handler that has the lock goes on or comes to its end.
LockedOn ==
    /\ job'["create"] = job["create"] /\ sched' \in {sched, "clear"}
    /\ \/ At("locked", "rest")'
       \/ job'["locked"].by = job["locked"].by /\ restore' = restore

\* It comes to its end.
LEMMA LockedEndsOn ==
  ASSUME IInv, NEW raised \in BOOLEAN, Ends(raised)
  PROVE  LockedOn /\ job'["locked"].at = "rest"
<1>1. job'["locked"].at = "rest" /\ job'["create"] = job["create"]
  BY JobSteps DEF IInv
<1>2. sched' \in {sched, "clear"}
  BY DEF Ends, Caller
<1> QED
  BY <1>1, <1>2 DEF LockedOn, At

\* It goes on to another step, with what it notes of the message or the thread.
LEMMA LockedGoesOn ==
  ASSUME IInv, Stays, NEW step \in Steps,
         \/ Go("locked", step)
         \/ \E m \in Message \cup {NoMessage} :
               \/ job' = [job EXCEPT !["locked"].at = step, !["locked"].message = m]
               \/ job' = [job EXCEPT !["locked"].at = step, !["locked"].thread = m]
  PROVE  LockedOn /\ job'["locked"].at = step
<1>1. job'["locked"].at = step /\ job'["create"] = job["create"]
  BY JobSteps, JobNotes DEF IInv, Jobs
<1>2. job'["locked"].by = job["locked"].by
  BY DEF IInv, JobOK, Job, Jobs, Go
<1> QED
  BY <1>1, <1>2 DEF LockedOn, Stays

\* It turns to the deletion of the ticket.
LEMMA LockedDeletes ==
  ASSUME IInv, Stays, NEW a \in BOOLEAN, NEW b \in BOOLEAN, NEW d \in BOOLEAN,
         BeginsFinishing(job["locked"].by, a, b, d)
  PROVE  LockedOn /\ job'["locked"].at = "del_thread"
<1>1. /\ job'["locked"].at = "del_thread" /\ job'["create"] = job["create"]
      /\ job'["locked"].by = job["locked"].by
  BY DEF BeginsFinishing, IInv, JobOK, Jobs
<1> QED
  BY <1>1 DEF LockedOn, Stays

\* A recovery that gets to sending has found no message.
LEMMA LockedRecovers ==
  ASSUME IInv, Recovery
  PROVE  /\ Publishing /\ LockedOn
         /\ At("locked", "send")' => messages = {}
<1>1. Publishing
  BY DEF Recovery, FindMessage, FindThread, Publishing, At
<1>2. CASE FindMessage
  <2>1. Stays
    BY <1>2 DEF FindMessage
  <2>2. ASSUME NEW step \in {"find_thread", "record"}, NEW m \in Message \cup {NoMessage},
               job' = [job EXCEPT !["locked"].at = step, !["locked"].message = m]
        PROVE  LockedOn /\ ~At("locked", "send")'
    <3>1. step \in Steps
      BY DEF Steps
    <3>2. LockedOn /\ job'["locked"].at = step
      BY <2>1, <2>2, <3>1, LockedGoesOn
    <3> QED
      BY <2>2, <3>2 DEF At
  <2>3. CASE /\ Exists
             /\ job' = [job EXCEPT !["locked"].at = "find_thread",
                                   !["locked"].message = ticket.message]
    <3>1. ticket.message \in Message \cup {NoMessage}
      BY <2>3, RowFacts DEF Ticket
    <3> QED
      BY <1>1, <2>2, <2>3, <3>1
  <2>4. ASSUME NEW m \in messages,
               job' = [job EXCEPT !["locked"].at = "record", !["locked"].message = m]
        PROVE  LockedOn /\ ~At("locked", "send")'
    <3>1. m \in Message \cup {NoMessage}
      BY DEF IInv, DiscordOK
    <3> QED
      BY <2>2, <2>4, <3>1
  <2>5. CASE Go("locked", "send") /\ messages = {}
    BY <1>1, <2>1, <2>5, LockedGoesOn DEF Steps
  <2> QED
    BY <1>1, <1>2, <2>3, <2>4, <2>5 DEF FindMessage
<1>3. CASE FindThread
  <2>1. CASE GivesUp("locked")
    BY <1>1, <2>1, LockedEndsOn DEF GivesUp, At
  <2>2. CASE /\ BeginsFinishing(job["locked"].by, TRUE, FALSE, TRUE) /\ Stays
    BY <1>1, <2>2, LockedDeletes DEF At
  <2>3. CASE /\ Creating /\ Stays
             /\ job' = [job EXCEPT
                   !["locked"].at = IF ticket.thread # NoMessage THEN "activate"
                                    ELSE IF job["locked"].message \in threads
                                         THEN "record_thread" ELSE "thread",
                   !["locked"].thread = IF ticket.thread # NoMessage THEN ticket.thread
                                        ELSE IF job["locked"].message \in threads
                                             THEN job["locked"].message ELSE NoMessage]
    <3> DEFINE step == IF ticket.thread # NoMessage THEN "activate"
                       ELSE IF job["locked"].message \in threads
                            THEN "record_thread" ELSE "thread"
               thread == IF ticket.thread # NoMessage THEN ticket.thread
                         ELSE IF job["locked"].message \in threads
                              THEN job["locked"].message ELSE NoMessage
    <3>1. step \in Steps /\ step # "send"
      BY DEF Steps
    <3>2. thread \in Message \cup {NoMessage}
      BY <2>3, RowFacts DEF Ticket, Creating, IInv, JobOK, Job, Jobs
    <3>3. job' = [job EXCEPT !["locked"].at = step, !["locked"].thread = thread]
      BY <2>3
    <3> HIDE DEF step, thread
    <3>4. LockedOn /\ job'["locked"].at = step
      BY <2>3, <3>1, <3>2, <3>3, LockedGoesOn
    <3> QED
      BY <1>1, <3>1, <3>4 DEF At
  <2> QED
    BY <1>3, <2>1, <2>2, <2>3 DEF FindThread
<1> QED
  BY <1>2, <1>3 DEF Recovery

\* The other steps of the handler that has the lock: none begins a publication.
LEMMA LockedHandles ==
  ASSUME IInv, Edit \/ Routing \/ Publication("locked") \/ Deletion("locked")
  PROVE  /\ ~At("locked", "rest") /\ LockedOn /\ ~At("locked", "send")'
         /\ Publishing' => Publishing
<1>1. ASSUME NEW raised \in BOOLEAN, Ends(raised)
      PROVE  LockedOn /\ ~At("locked", "send")' /\ ~Publishing'
  BY <1>1, LockedEndsOn DEF At, Publishing
<1>2. ASSUME Stays, NEW step \in {"ack_edit", "edit", "route", "settle", "check", "ping",
                                  "ack_ping", "del_message", "del_row"},
             Go("locked", step)
      PROVE  LockedOn /\ ~At("locked", "send")' /\ ~Publishing'
  <2>1. step \in Steps
    BY DEF Steps
  <2> QED
    BY <1>2, <2>1, LockedGoesOn DEF At, Publishing
<1>3. ASSUME Stays, NEW a \in BOOLEAN, NEW b \in BOOLEAN, NEW d \in BOOLEAN,
             BeginsFinishing(job["locked"].by, a, b, d)
      PROVE  LockedOn /\ ~At("locked", "send")' /\ ~Publishing'
  BY <1>3, LockedDeletes DEF At, Publishing
<1>4. CASE Edit
  <2>1. ~At("locked", "rest")
    BY <1>4 DEF Edit, EditTicket, EditFails, AcknowledgeEdit, At
  <2> QED
    BY <1>1, <1>2, <1>3, <1>4, <2>1 DEF Edit, EditTicket, EditFails, AcknowledgeEdit
<1>5. CASE Route \/ Settle \/ Check
  <2>1. ~At("locked", "rest")
    BY <1>5 DEF Route, Settle, Check, At
  <2> QED
    BY <1>1, <1>2, <1>3, <1>5, <2>1 DEF Route, Settle, Check
<1>6. CASE GatewayUnavailable \/ PingReviewer \/ AcknowledgePing \/ SettlementFails
  <2>1. ~At("locked", "rest")
    BY <1>6 DEF GatewayUnavailable, PingReviewer, AcknowledgePing, SettlementFails, At
  <2> QED
    BY <1>1, <1>2, <1>3, <1>6, <2>1
    DEF GatewayUnavailable, PingReviewer, PingLater, AcknowledgePing, SettlementFails
<1>7. CASE Publication("locked")
  <2>1. ~At("locked", "rest") /\ Publishing
    BY <1>7 DEF Publication, SendTicket, RecordMessage, CreateThread, RecordThread, Activate,
                PublicationFails, At, Publishing
  <2>2. CASE GivesUp("locked")
    BY <1>1, <2>1, <2>2 DEF GivesUp
  <2>3. CASE EndsJob("locked")
    BY <1>1, <2>1, <2>3 DEF EndsJob
  <2>4. ASSUME Stays, NEW step \in {"record", "find_thread", "record_thread", "activate"},
               \/ Go("locked", step)
               \/ \E m \in Message \cup {NoMessage} :
                     \/ job' = [job EXCEPT !["locked"].at = step, !["locked"].message = m]
                     \/ job' = [job EXCEPT !["locked"].at = step, !["locked"].thread = m]
        PROVE  LockedOn /\ ~At("locked", "send")'
    <3>1. step \in Steps
      BY DEF Steps
    <3> QED
      BY <2>4, <3>1, LockedGoesOn DEF At
  <2>5. CASE SendTicket("locked")
    <3>1. NewId \in Message
      BY <2>5 DEF SendTicket, NewId, IInv, DiscordOK
    <3> QED
      BY <2>1, <2>2, <2>4, <2>5, <3>1 DEF SendTicket
  <2>6. CASE CreateThread("locked")
    <3>1. job["locked"].message \in Message \cup {NoMessage}
      BY DEF IInv, JobOK, Job, Jobs
    <3> QED
      BY <2>1, <2>2, <2>4, <2>6, <3>1 DEF CreateThread
  <2>7. CASE RecordMessage("locked") \/ RecordThread("locked")
    BY <2>1, <2>2, <2>4, <2>7 DEF RecordMessage, RecordThread
  <2>8. CASE Activate("locked") \/ PublicationFails("locked")
    BY <2>1, <2>2, <2>3, <2>8 DEF Activate, PublicationFails
  <2> QED
    BY <1>7, <2>5, <2>6, <2>7, <2>8 DEF Publication
<1>8. CASE Deletion("locked")
  <2>1. ~At("locked", "rest")
    BY <1>8 DEF Deletion, DeleteThread, DeleteMessage, DeleteRow, DeletionFails, At
  <2> QED
    BY <1>1, <1>2, <1>8, <2>1
    DEF Deletion, DeleteThread, DeleteMessage, DeleteRow, DeletionFails, EndsJob
<1> QED
  BY <1>4, <1>5, <1>6, <1>7, <1>8 DEF Routing

\* The handler that has the lock says nothing twice, nor interferes with a creation.
LEMMA LockedAlone ==
  ASSUME IInv, IInv', ReviewInv, [Next]_vars, MadeAlone, OneMessage,
         Recovery \/ Edit \/ Routing \/ Publication("locked") \/ Deletion("locked")
  PROVE  MadeAlone' /\ OneMessage'
<1>1. /\ ~At("locked", "rest") /\ LockedOn /\ (Publishing' => Publishing)
      /\ At("locked", "send")' => messages = {}
  BY LockedRecovers, LockedHandles DEF Publishing, At
<1>2. Creating' => Creating
  BY <1>1, MadeBefore DEF LockedOn, At
<1>3. MadeAlone'
  BY <1>1, <1>2 DEF MadeAlone, LockedOn, Making, Publishing, At
<1>4. CASE SendTicket("locked")
  <2>1. messages = {} /\ messages' = messages \cup {NewId} /\ At("create", "over")
    BY <1>4 DEF SendTicket, OneMessage, MadeAlone, Publishing, At
  <2>2. ~At("locked", "send")'
    BY <1>4, LockedHandles DEF Publication
  <2> QED
    BY <1>1, <1>3, <2>1, <2>2 DEF OneMessage, LockedOn, At
<1>5. CASE ~SendTicket("locked")
  <2>1. made' = made /\ messages' \subseteq messages
    <3>1. CASE Recovery \/ Edit
      BY <3>1 DEF Recovery, Edit, FindMessage, FindThread, EditTicket, EditFails,
                  AcknowledgeEdit, things
    <3>2. CASE Routing
      BY <3>2 DEF Routing, Route, Settle, Check, GatewayUnavailable, PingReviewer,
                  AcknowledgePing, SettlementFails, things
    <3>3. CASE Publication("locked")
      BY <1>5, <3>3 DEF Publication, RecordMessage, CreateThread, RecordThread, Activate,
                        PublicationFails, things
    <3>4. CASE Deletion("locked")
      BY <3>4 DEF Deletion, DeleteThread, DeleteMessage, DeleteRow, DeletionFails, things
    <3> QED
      BY <3>1, <3>2, <3>3, <3>4
  <2> QED
    BY <1>1, <1>3, <2>1, SaidNothing DEF LockedOn
<1> QED
  BY <1>4, <1>5

\* The creation sends its message once and leaves the rest to itself.
LEMMA CreationAlone ==
  ASSUME IInv, IInv', ReviewInv, [Next]_vars, MadeAlone, OneMessage,
         Publication("create") \/ Deletion("create")
  PROVE  MadeAlone' /\ OneMessage'
<1>1. Making
  BY DEF Publication, SendTicket, RecordMessage, CreateThread, RecordThread, Activate,
         PublicationFails, Deletion, DeleteThread, DeleteMessage, DeleteRow, DeletionFails,
         Making, At
<1>2. ASSUME EndsJob("create")
      PROVE  /\ job'["create"].at = "over" /\ job'["locked"] = job["locked"]
             /\ restore' = restore /\ sched' = sched
  BY <1>2, JobSteps DEF EndsJob, EndsCreation, IInv
<1>3. ASSUME Stays, NEW step \in Steps \ {"rest", "send"},
             \/ Go("create", step)
             \/ \E m \in Message \cup {NoMessage} :
                   \/ job' = [job EXCEPT !["create"].at = step, !["create"].message = m]
                   \/ job' = [job EXCEPT !["create"].at = step, !["create"].thread = m]
      PROVE  /\ job'["create"].at \notin {"rest", "send"} /\ job'["locked"] = job["locked"]
             /\ restore' = restore /\ sched' = sched
  <2>1. job'["create"].at = step /\ job'["locked"] = job["locked"]
    BY <1>3, JobSteps, JobNotes DEF IInv, Jobs
  <2> QED
    BY <1>3, <2>1 DEF Stays
<1>4. {"record", "thread", "record_thread", "activate", "find_thread", "del_thread",
       "del_message", "del_row"} \subseteq Steps \ {"rest", "send"}
  BY DEF Steps
<1>5. ASSUME GivesUp("create")
      PROVE  /\ job'["create"].at \notin {"rest", "send"} /\ job'["locked"] = job["locked"]
             /\ restore' = restore /\ sched' = sched /\ UNCHANGED ticket
  BY <1>3, <1>4, <1>5 DEF GivesUp, rows
\* Where it is, whoever has the lock, and its row.
<1>6. /\ job'["create"].at \notin {"rest", "send"} /\ job'["locked"] = job["locked"]
      /\ restore' = restore /\ sched' = sched
      /\ Creating' => ticket'.syncAt = ticket.syncAt \/ At("create", "over")'
  <2>1. CASE SendTicket("create")
    <3>1. NewId \in Message
      BY <2>1 DEF SendTicket, NewId, IInv, DiscordOK
    <3> QED
      BY <1>3, <1>4, <1>5, <2>1, <3>1 DEF SendTicket, rows
  <2>2. CASE RecordMessage("create")
    <3>1. Creating => [ticket EXCEPT !.message = job["create"].message].syncAt = ticket.syncAt
      BY RowFacts DEF Creating, Ticket
    <3> QED
      BY <1>3, <1>4, <1>5, <2>2, <3>1 DEF RecordMessage, Put
  <2>3. CASE CreateThread("create")
    <3>1. job["create"].message \in Message \cup {NoMessage}
      BY DEF IInv, JobOK, Job, Jobs
    <3> QED
      BY <1>3, <1>4, <1>5, <2>3, <3>1 DEF CreateThread, rows
  <2>4. CASE RecordThread("create")
    <3>1. Creating => [ticket EXCEPT !.thread = job["create"].thread].syncAt = ticket.syncAt
      BY RowFacts DEF Creating, Ticket
    <3> QED
      BY <1>3, <1>4, <1>5, <2>4, <3>1 DEF RecordThread, Put
  <2>5. CASE Activate("create") \/ PublicationFails("create")
    BY <1>2, <1>5, <2>5 DEF Activate, PublicationFails, At
  <2>6. CASE Deletion("create")
    BY <1>2, <1>3, <1>4, <2>6
    DEF Deletion, DeleteThread, DeleteMessage, DeleteRow, DeletionFails, rows, At
  <2> QED
    BY <2>1, <2>2, <2>3, <2>4, <2>5, <2>6 DEF Publication
<1>7. Creating' => Creating
  BY <1>1, MadeBefore DEF Making
<1>8. MadeAlone'
  <2>1. ~Publishing
    BY <1>1 DEF MadeAlone, Making
  <2>2. Making' /\ Creating' => ticket'.syncAt = ticket.syncAt
    BY <1>6 DEF Making
  <2> QED
    BY <1>1, <1>6, <1>7, <2>1, <2>2 DEF MadeAlone, Making, Publishing, At
<1>9. CASE SendTicket("create")
  <2>1. messages = {} /\ messages' = messages \cup {NewId}
    BY <1>9 DEF SendTicket, OneMessage, IInv, DiscordOK
  <2>2. ~At("locked", "send")'
    BY <1>1, <1>6 DEF MadeAlone, Making, Publishing, At
  <2> QED
    BY <1>6, <1>8, <2>1, <2>2 DEF OneMessage, At
<1>10. CASE ~SendTicket("create")
  <2>1. made' = made /\ messages' \subseteq messages
    BY <1>10 DEF Publication, RecordMessage, CreateThread, RecordThread, Activate,
                 PublicationFails, Deletion, DeleteThread, DeleteMessage, DeleteRow,
                 DeletionFails, things
  <2> QED
    BY <1>6, <1>8, <2>1, SaidNothing DEF At
<1> QED
  BY <1>9, <1>10

\* Whatever else takes the lock, or takes none, leaves the creation to itself.
LEMMA FreeAlone ==
  ASSUME IInv, MadeAlone, job'["create"] = job["create"],
         Making /\ Creating' => /\ Creating /\ ticket'.syncAt = "none" /\ restore' = "done"
                                /\ sched' # "serve" /\ At("locked", "rest")',
         Publishing' => At("create", "over"),
         sched' = "serve" => sched = "serve" \/ Exists,
         ~At("locked", "rest")' /\ job'["locked"].by = "restore"
            => restore' \in {"cleanup", "serve"}
  PROVE  MadeAlone'
BY DEF IInv, CreatedOnce, MadeAlone, Making, Publishing, At

\* A deadline is served, or a half-made ticket completed, when nobody makes it.
LEMMA ServedAlone ==
  ASSUME IInv, IInv', ReviewInv, [Next]_vars, MadeAlone, At("locked", "rest"),
         NEW by \in {"sched", "restore"}, ProcessDue(by) \/ Recovers(by) \/ Returns(by),
         by = "sched" => sched = "serve",
         by = "restore" => restore \in {"cleanup", "serve"}
  PROVE  MadeAlone' /\ job'["create"] = job["create"] /\ ~At("locked", "send")'
<1>1. ASSUME Returns(by)
      PROVE  job' = job /\ sched' \in {sched, "clear"}
  BY <1>1 DEF Returns, Caller
<1>2. ASSUME NEW step \in {"find_message", "edit", "route"}, Takes(step, by), Stays
      PROVE  /\ job'["locked"].at = step /\ job'["create"] = job["create"]
             /\ job'["locked"].by = by /\ restore' = restore /\ sched' = sched
  <2>1. job'["locked"].at = step /\ job'["create"] = job["create"]
    BY <1>2, JobSteps DEF IInv, Steps, By
  <2>2. job'["locked"].by = by
    BY <1>2 DEF Takes, Rest, IInv, JobOK, Jobs
  <2> QED
    BY <1>2, <2>1, <2>2 DEF Stays
<1>3. ASSUME Closing, DeletesRest(by)
      PROVE  /\ job'["locked"].at = "del_thread" /\ job'["create"] = job["create"]
             /\ job'["locked"].by = by /\ restore' = restore /\ sched' = sched
  BY <1>3 DEF DeletesRest, Stays, IInv, JobOK, Jobs
<1>4. \/ Returns(by)
      \/ \E step \in {"edit", "route"} : Takes(step, by) /\ Stays
      \/ Creating /\ Takes("find_message", by) /\ Stays
      \/ Closing /\ DeletesRest(by)
  BY DEF ProcessDue, Recovers
<1>5. /\ job'["create"] = job["create"] /\ sched' \in {sched, "clear"}
      /\ job'["locked"].at \in {"rest", "edit", "route", "find_message", "del_thread"}
      /\ Publishing' => Creating
      /\ At("locked", "rest")' \/ (job'["locked"].by = by /\ restore' = restore)
  BY <1>1, <1>2, <1>3, <1>4 DEF Publishing, At
<1>6. ~(Making /\ Creating)
  BY DEF MadeAlone
<1>7. Creating' => Creating
  BY <1>5, MadeBefore DEF At
<1>8. Publishing' => At("create", "over")
  BY <1>5, <1>6 DEF IInv, CreatedOnce, Creating, Making
<1>9. ~At("locked", "rest")' /\ job'["locked"].by = "restore"
         => restore' \in {"cleanup", "serve"}
  BY <1>5
<1>10. MadeAlone'
  BY <1>5, <1>6, <1>7, <1>8, <1>9, FreeAlone
<1> QED
  BY <1>5, <1>10 DEF At

\* The scheduler and the start of the cog.
LEMMA ServingAlone ==
  ASSUME IInv, IInv', ReviewInv, [Next]_vars, MadeAlone, OneMessage, Scheduler \/ Restoration
  PROVE  MadeAlone' /\ OneMessage'
<1>1. made' = made /\ messages' = messages
  BY DEF Scheduler, Clear, ReadDeadline, Wake, Timer, Query, Serve, SchedulerFails,
         Restoration, Load, List, RestoreCleanup, ListDue, RestoreDue, things
<1>2. CASE Serve \/ RestoreDue \/ RestoreCleanup
  <2>1. PICK by \in {"sched", "restore"} :
              /\ ProcessDue(by) \/ Recovers(by) \/ Returns(by)
              /\ by = "sched" => sched = "serve"
              /\ by = "restore" => restore \in {"cleanup", "serve"}
    BY <1>2 DEF Serve, RestoreDue, RestoreCleanup
  <2>2. At("locked", "rest")
    BY <1>2 DEF Serve, RestoreDue, RestoreCleanup, Free
  <2>3. MadeAlone' /\ job'["create"] = job["create"] /\ ~At("locked", "send")'
    BY <2>1, <2>2, ServedAlone
  <2> QED
    BY <1>1, <2>3, SaidNothing
<1>3. CASE \/ Clear \/ ReadDeadline \/ Wake \/ Timer \/ Query \/ SchedulerFails
           \/ Load \/ List \/ ListDue
  <2>1. UNCHANGED <<ticket, job>>
    BY <1>3 DEF Clear, ReadDeadline, Wake, Timer, Query, SchedulerFails, Load, List, ListDue,
                rows
  <2>2. sched' = "serve" => sched = "serve" \/ (Exists /\ IsDue(ticket))
    BY <1>3 DEF Clear, ReadDeadline, Wake, Timer, Query, SchedulerFails, Load, List, ListDue
  <2>3. restore' = restore \/ restore \in {"down", "list", "due"}
    BY <1>3 DEF Clear, ReadDeadline, Wake, Timer, Query, SchedulerFails, Load, List, ListDue
  <2>4. Creating /\ ticket.syncAt = "none" => ~IsDue(ticket)
    BY DEF Creating, IsDue
  <2>5. Publishing' = Publishing /\ At("locked", "rest")' = At("locked", "rest")
    BY <2>1 DEF Publishing, At
  <2>6. MadeAlone'
    BY <2>1, <2>2, <2>3, <2>4 DEF IInv, CreatedOnce, MadeAlone, Making, Publishing, Creating,
                                  Exists, At
  <2> QED
    BY <1>1, <2>1, <2>6, SaidNothing DEF At
<1> QED
  BY <1>2, <1>3 DEF Scheduler, Restoration

\* A button, an event, an erasure or the update after it takes the lock, if it is free.
LEMMA TakenAlone ==
  ASSUME IInv, IInv', ReviewInv, [Next]_vars, MadeAlone, OneMessage,
         \/ Button \/ Resync
         \/ \E e \in events : HandleDeleted(e)
         \/ \E u \in User : Redact(u)
  PROVE  MadeAlone' /\ OneMessage'
<1>1. made' = made /\ messages' = messages
  BY DEF Button, Claim, Decline, Unassign, MarkFinished, Resync, HandleDeleted, Redact, things
<1>2. restore' = restore /\ sched' = sched /\ At("locked", "rest")
  BY DEF Stays, Button, Claim, Decline, Unassign, MarkFinished, Resync, HandleDeleted,
         Redact, Free
<1>3. ASSUME NEW by \in By, NEW a \in BOOLEAN, NEW b \in BOOLEAN, NEW d \in BOOLEAN,
             by # "restore", BeginsFinishing(by, a, b, d)
      PROVE  /\ job'["locked"].at = "del_thread" /\ job'["create"] = job["create"]
             /\ job'["locked"].by = by /\ ~Creating'
  BY <1>3 DEF BeginsFinishing, IInv, JobOK, Jobs, Creating, Finishing, Emptied
<1>4. ASSUME Takes("edit", "user")
      PROVE  /\ job'["locked"].at = "edit" /\ job'["create"] = job["create"]
             /\ job'["locked"].by = "user"
  <2>1. job'["locked"].at = "edit" /\ job'["create"] = job["create"]
    BY <1>4, JobSteps DEF IInv, Steps, By
  <2>2. job'["locked"].by = "user"
    BY <1>4 DEF Takes, Rest, IInv, JobOK, Jobs
  <2> QED
    BY <2>1, <2>2
<1>5. \/ job' = job /\ (UNCHANGED rows \/ At("create", "over") \/ Active)
      \/ Takes("edit", "user") /\ Active
      \/ \E by \in By \ {"restore"}, a, b, d \in BOOLEAN : BeginsFinishing(by, a, b, d)
  <2>1. CASE Button \/ Resync
    BY <2>1 DEF Button, Claim, Decline, Unassign, MarkFinished, Resync, Active, Open, By
  <2>2. ASSUME NEW e \in events, HandleDeleted(e)
        PROVE  \/ job' = job /\ UNCHANGED rows
               \/ \E by \in By \ {"restore"}, a, b, d \in BOOLEAN : BeginsFinishing(by, a, b, d)
    BY <2>2 DEF HandleDeleted, By
  <2>3. ASSUME NEW u \in User, Redact(u)
        PROVE  \/ job' = job /\ At("create", "over")
               \/ \E by \in By \ {"restore"}, a, b, d \in BOOLEAN : BeginsFinishing(by, a, b, d)
    BY <2>3 DEF Redact, By
  <2> QED
    BY <2>1, <2>2, <2>3
<1>6. /\ job'["create"] = job["create"]
      /\ job'["locked"].at \in {"rest", "edit", "del_thread"}
      /\ At("locked", "rest")' \/ job'["locked"].by # "restore"
      /\ job' = job \/ Active \/ ~Creating'
  BY <1>2, <1>3, <1>4, <1>5 DEF At
<1>7. Creating' => Creating
  BY <1>6, MadeBefore DEF At
<1>8. Making /\ Creating' => job' = job /\ ticket' = ticket
  BY <1>3, <1>5, <1>7 DEF Creating, Active, Making, At, rows
<1>9. ~Publishing'
  BY <1>6 DEF Publishing
<1>10. MadeAlone'
  BY <1>2, <1>6, <1>7, <1>8, <1>9, FreeAlone DEF MadeAlone, At
<1> QED
  BY <1>1, <1>6, <1>10, SaidNothing DEF At

\* The creation is begun when the start of the cog is over.
LEMMA BegunAlone ==
  ASSUME IInv, MadeAlone, OneMessage, Create, ~limits.overlap
  PROVE  MadeAlone' /\ OneMessage'
<1>1. /\ ~Exists /\ At("create", "rest") /\ At("locked", "rest") /\ restore = "done"
      /\ restore' = restore /\ sched' = sched /\ made' = made /\ messages' = messages
  BY DEF Create, IInv, CreatedOnce, Stays, things
<1>2. job'["create"].at = "send" /\ job'["locked"] = job["locked"]
  BY JobSteps DEF Create, IInv, Jobs, Steps
<1>3. ticket'.syncAt = "none"
  BY DEF Create, Created, Emptied
<1> QED
  BY <1>1, <1>2, <1>3 DEF MadeAlone, OneMessage, Making, Publishing, At

\* Time, moderators, the deletion of a channel, and the end of the process.
LEMMA WorldAlone ==
  ASSUME IInv, IInv', ReviewInv, [Next]_vars, MadeAlone, OneMessage,
         \/ Tick \/ ModeratorDeletes \/ Crash \/ UNCHANGED vars
         \/ \E e \in events : HandleChannelDeleted(e)
         \/ \E u \in User : ToggleProfile(u)
  PROVE  MadeAlone' /\ OneMessage'
<1>1. made' = made /\ messages' \subseteq messages
  BY DEF Tick, NextDue, SyncDue, ProtectionEnds, Ages, ModeratorDeletes, Crash, vars,
         HandleChannelDeleted, ToggleProfile, things
<1>2. CASE Crash
  <2>1. /\ restore' = "down" /\ sched' = "off" /\ job'["locked"] = Rest
        /\ job'["create"] = IF job["create"] = Rest THEN Rest ELSE [Rest EXCEPT !.at = "over"]
    BY <1>2 DEF Crash, IInv, JobOK, Jobs
  <2>2. /\ At("locked", "rest")'
        /\ At("create", "over")' \/ (At("create", "rest")' /\ At("create", "rest"))
    BY <2>1 DEF Rest, At
  <2>3. MadeAlone'
    BY <2>1, <2>2 DEF MadeAlone, Making, Publishing, At
  <2> QED
    BY <1>1, <2>2, <2>3 DEF OneMessage, At
<1>3. CASE ~Crash
  <2>1. job' = job /\ restore' = restore /\ sched' = sched
    BY <1>3 DEF Tick, NextDue, SyncDue, ProtectionEnds, Ages, ModeratorDeletes, vars, running,
                HandleChannelDeleted, ToggleProfile
  <2>2. Creating' => Creating
    BY <2>1, MadeBefore DEF At
  <2>3. Creating' /\ ticket.syncAt = "none" => ticket'.syncAt = "none"
    <3>1. CASE Tick
      <4>1. Exists
        BY <3>1 DEF Tick, NextDue, SyncDue, ProtectionEnds
      <4>2. [ticket EXCEPT !.nextAt = "due"].syncAt = ticket.syncAt
            /\ [ticket EXCEPT !.protected = FALSE].syncAt = ticket.syncAt
        BY <4>1, RowFacts DEF Ticket
      <4> QED
        BY <3>1, <4>2 DEF Tick, NextDue, SyncDue, ProtectionEnds, Ages
    <3>2. CASE ~Tick
      BY <1>3, <3>2 DEF ModeratorDeletes, vars, rows, HandleChannelDeleted, ToggleProfile,
                        Creating, Exists
    <3> QED
      BY <3>1, <3>2
  <2>4. MadeAlone'
    BY <2>1, <2>2, <2>3 DEF MadeAlone, Making, Publishing, At
  <2> QED
    BY <1>1, <2>1, <2>4, SaidNothing DEF At
<1> QED
  BY <1>2, <1>3

\* A ticket is published by one handler, once.
LEMMA PublishedInductive ==
  Spec => []PublishedInv
<1>1. Init => PublishedInv
  BY DEF Init, PublishedInv, MadeAlone, OneMessage, Making, Publishing, Creating, Exists,
         At, Rest, Jobs
<1>2. IInv /\ IInv' /\ ReviewInv /\ PublishedInv /\ [Next]_vars => PublishedInv'
  <2> SUFFICES ASSUME IInv, IInv', ReviewInv, MadeAlone, OneMessage, [Next]_vars,
                      ~limits.overlap
               PROVE  MadeAlone' /\ OneMessage'
    BY LimitsKept DEF PublishedInv
  <2>1. CASE Handler
    <3>1. Jobs = {"create", "locked"}
      BY DEF Jobs
    <3> QED
      BY <2>1, <3>1, LockedAlone, CreationAlone DEF Handler
  <2>2. CASE Scheduler \/ Restoration
    BY <2>2, ServingAlone
  <2>3. CASE Button \/ Resync \/ (\E u \in User : Redact(u))
    BY <2>3, TakenAlone
  <2>4. CASE Event
    BY <2>4, TakenAlone, WorldAlone DEF Event
  <2>5. CASE Create
    BY <2>5, BegunAlone
  <2>6. CASE \/ Tick \/ ModeratorDeletes \/ Crash \/ UNCHANGED vars
             \/ \E u \in User : ToggleProfile(u)
    BY <2>6, WorldAlone
  <2> QED
    BY <2>1, <2>2, <2>3, <2>4, <2>5, <2>6 DEF Next
<1> QED
  BY <1>1, <1>2, Inductive, ReviewInductive, PTL DEF Spec

\* A ticket has one message, and as long as nothing fails nobody is pinged twice for it,
\* if no creation runs beside the restoration (create_ticket takes no lock of the ticket's).
THEOREM NothingSaidTwice ==
  Spec => [](~limits.overlap => SaidOnce)
<1>1. IInv /\ ReviewInv /\ PublishedInv => (~limits.overlap => SaidOnce)
  <2> SUFFICES ASSUME IInv, ReviewInv, PublishedInv, ~limits.overlap
               PROVE  PublishedOnce /\ PingedOnce
    BY DEF SaidOnce
  <2>1. PublishedOnce
    <3>1. \A m, n \in messages : m = n
      BY DEF PublishedInv, OneMessage
    <3>2. CASE messages = {}
      BY <3>2, FS_EmptySet DEF PublishedOnce
    <3>3. CASE messages # {}
      <4>1. PICK m \in messages : TRUE
        BY <3>3
      <4>2. messages = {m}
        BY <3>1, <4>1
      <4>3. Cardinality(messages) = 1
        BY <4>2, FS_Singleton
      <4> QED
        BY <4>3 DEF PublishedOnce
    <3> QED
      BY <3>2, <3>3
  <2>2. PingedOnce
    <3>1. heard \in [User -> Nat]
      BY DEF IInv, DiscordOK
    <3>2. ASSUME faults = 0, crashes = 0, NEW u \in User \ redacted PROVE heard[u] <= 1
      <4>1. heard[u] \in Nat /\ (heard[u] > 0 => heard[u] = 1)
        BY <3>1, <3>2 DEF ReviewInv, Heard
      <4> QED
        BY <4>1
    <3> QED
      BY <3>2 DEF PingedOnce
  <2> QED
    BY <2>1, <2>2
<1> QED
  BY <1>1, Inductive, ReviewInductive, PublishedInductive, PTL
=============================================================================
