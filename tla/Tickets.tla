------------------------------- MODULE Tickets -------------------------------
(***************************************************************************)
(* One review ticket (NHCogs/githubtickets): its creation, the buttons of  *)
(* its message, the pings of reviewers by the deadline scheduler, the      *)
(* cleanup of its message and thread, the events of deletions, and what    *)
(* the start of the cog restores (coordinator.py, scheduler.py and         *)
(* discord_projection.py; TicketStore has the database).                   *)
(*                                                                         *)
(* All handlers but create_ticket and the deletion of a channel run under  *)
(* the ticket's lock: at most one is at work, and its steps are what it    *)
(* does between two awaits.  create_ticket runs beside it.  The lock of a  *)
(* ticket is dropped from the table only when the row is gone, and ids are *)
(* not used again, so it is one lock.                                      *)
(***************************************************************************)
EXTENDS TicketStore

CONSTANTS
    NoTicket,
    Requests,        \* what may be asked for: records of a mode and a direct reviewer
    MaxPings,        \* settings.max_pings
    Limits           \* what may happen in one behaviour: bounds, and two assumptions

\* What a behaviour is bounded by.
Bounds ==
    [faults    : Nat,        \* requests and transactions that fail
     crashes   : Nat,        \* ends of the process
     deletions : Nat,        \* deletions by moderators
     erasures  : Nat,        \* users whose data is erased
     changes   : Nat,        \* users who opt in or out of automatic pings
     overlap   : BOOLEAN,    \* a creation may run beside the restoration of the cog
     ambiguous : BOOLEAN]    \* a request that fails may have been carried out

ASSUME TicketAssumption ==
    /\ MaxPings \in Nat
    /\ Limits \subseteq Bounds
    /\ Requests \subseteq [mode : Mode, direct : (User \ {Author}) \cup {NoUser}]

ASSUME NoTicketAssumption == NoTicket \notin Ticket

VARIABLES
    ticket,          \* the row, or NoTicket
    job,             \* the creation, and the handler that has the lock
    restore,         \* _restore_runtime; "down" while the cog is not loaded
    sched, woken,    \* the deadline scheduler and its event
    sent,            \* _sent_ping_settlements: "current" if it is of the pending ping
    local,           \* _locally_reserved_pings
    resync,          \* an erasure has yet to update the message
    eligible,        \* who may be pinged automatically, by profile and permission
    channel, messages, threads,     \* Discord: what exists
    made,                           \* Discord: messages ever sent
    shown,                          \* Discord: the reviewer the message shows
    heard, posted,                  \* Discord: pings by user, and the pending one
    events,                         \* Discord: deletions not handled yet
    limits, redacted, faults, crashes, deletions, changes

rows    == <<ticket, sent, local>>
running == <<job, restore, sched, woken, resync>>
things  == <<channel, messages, threads, made, events>>
texts   == <<shown, heard, posted>>
bounds  == <<limits, redacted, faults, crashes, deletions, changes>>
vars    == <<rows, running, eligible, things, texts, bounds>>

Exists == ticket # NoTicket
Active == Exists /\ ticket.state \in {"open", "claimed"}
Creating == Exists /\ ticket.state = "creating"
Open == Exists /\ ticket.state = "open"
Closing == Exists /\ ticket.state = "finishing"

Jobs == {"create", "locked"}
Steps == {"rest", "over", "send", "record", "find_thread", "thread", "record_thread",
          "activate", "del_thread", "del_message", "del_row", "find_message", "edit",
          "ack_edit", "route", "settle", "check", "ping", "ack_ping"}
Job == [at      : Steps,
        by      : {"user", "event", "sched", "restore"},
        defers  : BOOLEAN,       \* a deletion that fails is put off
        message : Message \cup {NoMessage},
        thread  : Message \cup {NoMessage}]
Rest == [at |-> "rest", by |-> "user", defers |-> FALSE,
         message |-> NoMessage, thread |-> NoMessage]

At(j, step) == job[j].at = step
Up == restore # "down"

\* A fault: the handlers of a ticket do not exclude each other.
FreeUnlocked == Up

Free == Up /\ At("locked", "rest")
Go(j, step) == job' = [job EXCEPT ![j].at = step]
Takes(step, by) == job' = [job EXCEPT !["locked"] = [Rest EXCEPT !.at = step, !.by = by]]

Candidates == {u \in eligible \ {Author} : ~Used(ticket, u)}

Init ==
    /\ ticket = NoTicket /\ sent = "no" /\ local = FALSE
    /\ job = [j \in Jobs |-> Rest]
    /\ restore = "list" /\ sched = "off" /\ woken = FALSE /\ resync = FALSE
    /\ eligible = User \ {Author}
    /\ channel = TRUE /\ messages = {} /\ threads = {} /\ made = {} /\ events = {}
    /\ shown = NoUser /\ heard = [u \in User |-> 0] /\ posted = FALSE
    /\ limits \in Limits /\ redacted = {} /\ faults = 0 /\ crashes = 0 /\ deletions = 0 /\ changes = 0

-----------------------------------------------------------------------------
(* Parts of actions *)

\* The row is written; a remembered ping no longer matches once its reservation
\* is gone.
Put(t) ==
    /\ ticket' = t
    /\ sent' = IF sent = "current" /\ t.pending = NoPing THEN "stale" ELSE sent

Fault ==
    /\ faults < limits.faults
    /\ faults' = faults + 1
    /\ UNCHANGED <<limits, redacted, crashes, deletions, changes>>

\* Who began the handler goes on: the scheduler's loop, or the restoration,
\* which an exception sends back to its start with the scheduler running.
Caller(by, raised) ==
    /\ restore' = IF by # "restore" THEN restore
                  ELSE IF raised THEN "list"
                  ELSE IF restore = "cleanup" THEN "due" ELSE "done"
    /\ sched' = IF by = "sched" THEN "clear"
                ELSE IF sched = "off" /\ restore' # restore /\ restore' \in {"list", "done"}
                THEN "clear" ELSE sched

Ends(raised) ==
    /\ job' = [job EXCEPT !["locked"] = Rest]
    /\ Caller(job["locked"].by, raised)
    /\ UNCHANGED resync

EndsCreation ==
    /\ job' = [job EXCEPT !["create"] = [Rest EXCEPT !.at = "over"]]
    /\ UNCHANGED <<restore, sched, resync>>

EndsJob(j) == IF j = "create" THEN EndsCreation ELSE Ends(FALSE)

Stays == UNCHANGED <<restore, sched, resync>>

\* begin_finishing, and the deletion of what it leaves: one transaction that
\* cancellation does not split, and the memory of pings.
BeginsFinishing(by, messageAbsent, threadAbsent, defers) ==
    LET t == Finishing(ticket, messageAbsent, threadAbsent) IN
    /\ ticket' = t
    /\ sent' = "no" /\ local' = FALSE /\ woken' = TRUE
    /\ job' = [job EXCEPT !["locked"] =
                  [at |-> "del_thread", by |-> by, defers |-> defers,
                   message |-> t.message, thread |-> t.thread]]

\* The retry of a cleanup or of a creation, if there is still a row.
PutsOff ==
    /\ ticket' = IF Exists THEN [ticket EXCEPT !.syncAt = "later"] ELSE ticket
    /\ woken' = (woken \/ Exists)
    /\ UNCHANGED <<sent, local>>

-----------------------------------------------------------------------------
(* Publication: create_ticket, and _recover_creation under the lock *)

Create ==
    /\ Up /\ channel
    /\ limits.overlap \/ restore = "done"
    /\ At("create", "rest")
    /\ \E r \in Requests : ticket' = Created(r.mode, r.direct)
    /\ Go("create", "send")
    /\ Stays
    /\ UNCHANGED <<sent, local, woken, eligible, things, texts, bounds>>

\* What went wrong sends the creation to its cleanup; a recovery tries later.
GivesUp(j) ==
    \/ /\ j = "create"
       /\ Go(j, "del_thread")
       /\ Stays
       /\ UNCHANGED <<rows, woken>>
    \/ /\ j = "locked"
       /\ PutsOff
       /\ Ends(FALSE)

\* A fault: the recovery does not look for a message that was sent.
FindMessageBlindly ==
    /\ At("locked", "find_message")
    /\ Exists
    /\ IF ticket.message # NoMessage
       THEN job' = [job EXCEPT !["locked"].at = "find_thread",
                               !["locked"].message = ticket.message]
       ELSE Go("locked", "send")
    /\ Stays
    /\ UNCHANGED <<rows, woken, eligible, things, texts, bounds>>

\* A message of the ticket that is already in the channel.
FindMessage ==
    /\ At("locked", "find_message")
    /\ \/ /\ Exists /\ ticket.message # NoMessage
          /\ job' = [job EXCEPT !["locked"].at = "find_thread",
                                !["locked"].message = ticket.message]
       \/ /\ Exists /\ ticket.message = NoMessage
          /\ \E m \in messages :
                job' = [job EXCEPT !["locked"].at = "record", !["locked"].message = m]
       \/ /\ Exists /\ ticket.message = NoMessage /\ messages = {}
          /\ Go("locked", "send")
    /\ Stays
    /\ UNCHANGED <<rows, woken, eligible, things, texts, bounds>>

NewId == CHOOSE m \in Message : m \notin made

\* The message is sent; the request may fail, and may have been carried out.
SendTicket(j) ==
    /\ At(j, "send") /\ channel /\ made # Message
    /\ messages' = messages \cup {NewId}
    /\ made' = made \cup {NewId}
    /\ \/ /\ job' = [job EXCEPT ![j].at = "record", ![j].message = NewId]
          /\ Stays
          /\ UNCHANGED <<rows, woken, bounds>>
       \/ limits.ambiguous /\ Fault /\ GivesUp(j)
    /\ shown' = NoUser
    /\ UNCHANGED <<channel, threads, events, eligible, heard, posted>>

RecordMessage(j) ==
    /\ At(j, "record")
    /\ \/ /\ Creating /\ ticket.message = NoMessage
          /\ Put([ticket EXCEPT !.message = job[j].message])
          /\ Go(j, IF j = "create" THEN "thread" ELSE "find_thread")
          /\ Stays
          /\ UNCHANGED <<local, woken>>
       \/ /\ ~(Creating /\ ticket.message = NoMessage)
          /\ GivesUp(j)
    /\ UNCHANGED <<eligible, things, texts, bounds>>

\* A recovery looks for the thread of the message, and finds out if that is gone.
FindThread ==
    LET m == job["locked"].message IN
    /\ At("locked", "find_thread")
    /\ \/ /\ ~Creating
          /\ GivesUp("locked")
       \/ /\ Creating
          /\ ticket.thread # NoMessage \/ m \in messages
          /\ job' = [job EXCEPT
                !["locked"].at = IF ticket.thread # NoMessage THEN "activate"
                                 ELSE IF m \in threads THEN "record_thread" ELSE "thread",
                !["locked"].thread = IF ticket.thread # NoMessage THEN ticket.thread
                                     ELSE IF m \in threads THEN m ELSE NoMessage]
          /\ Stays
          /\ UNCHANGED <<rows, woken>>
       \/ /\ Creating /\ ticket.thread = NoMessage /\ m \notin messages
          /\ BeginsFinishing(job["locked"].by, TRUE, FALSE, TRUE)
          /\ Stays
    /\ UNCHANGED <<eligible, things, texts, bounds>>

CreateThread(j) ==
    LET m == job[j].message IN
    /\ At(j, "thread")
    /\ m \in messages \ threads
    /\ threads' = threads \cup {m}
    /\ \/ /\ job' = [job EXCEPT ![j].at = "record_thread", ![j].thread = m]
          /\ Stays
          /\ UNCHANGED <<rows, woken, bounds>>
       \/ limits.ambiguous /\ Fault /\ GivesUp(j)
    /\ UNCHANGED <<channel, messages, made, events, eligible, texts>>

RecordThread(j) ==
    /\ At(j, "record_thread")
    /\ \/ /\ Creating /\ ticket.message # NoMessage /\ ticket.thread = NoMessage
          /\ Put([ticket EXCEPT !.thread = job[j].thread])
          /\ Go(j, "activate")
          /\ Stays
          /\ UNCHANGED <<local, woken>>
       \/ /\ ~(Creating /\ ticket.message # NoMessage /\ ticket.thread = NoMessage)
          /\ GivesUp(j)
    /\ UNCHANGED <<eligible, things, texts, bounds>>

Activate(j) ==
    /\ At(j, "activate")
    /\ \/ /\ Creating
          /\ Put(Activated(ticket, job[j].message, job[j].thread))
          /\ woken' = (woken \/ ticket'.next # "none")
          /\ EndsJob(j)
          /\ UNCHANGED local
       \/ ~Creating /\ GivesUp(j)
    /\ UNCHANGED <<eligible, things, texts, bounds>>

\* A request fails, or there is nothing to send to.
PublicationFails(j) ==
    /\ \/ j = "locked" /\ At(j, "find_message") /\ ~Exists /\ UNCHANGED bounds
       \/ j = "locked" /\ (At(j, "find_message") \/ At(j, "find_thread")) /\ Fault
       \/ At(j, "send") /\ (Fault \/ (~channel /\ UNCHANGED bounds))
       \/ /\ At(j, "thread")
          /\ Fault \/ (job[j].message \notin messages \ threads /\ UNCHANGED bounds)
    /\ GivesUp(j)
    /\ UNCHANGED <<eligible, things, texts>>

-----------------------------------------------------------------------------
(* Deletion: _delete_remaining_projection, and the cleanup of a creation *)

Notice(kind, gone) == events \cup {[kind |-> kind, id |-> i] : i \in gone}

DeleteThread(j) ==
    LET gone == threads \cap {job[j].thread} IN
    /\ At(j, "del_thread")
    /\ threads' = threads \ gone
    /\ events' = Notice("thread", gone)
    /\ Go(j, "del_message")
    /\ Stays
    /\ UNCHANGED <<rows, woken, channel, messages, made, eligible, texts, bounds>>

DeleteMessage(j) ==
    LET gone == messages \cap {job[j].message} IN
    /\ At(j, "del_message")
    /\ channel \/ job[j].message = NoMessage
    /\ messages' = messages \ gone
    /\ events' = Notice("message", gone)
    /\ Go(j, "del_row")
    /\ Stays
    /\ UNCHANGED <<rows, woken, channel, threads, made, eligible, texts, bounds>>

DeleteRow(j) ==
    /\ At(j, "del_row")
    /\ ticket' = NoTicket
    /\ EndsJob(j)
    /\ UNCHANGED <<sent, local, woken, eligible, things, texts, bounds>>

\* A failed deletion is tried again later; the callers that do not say when
\* raise, and leave the row due.
DeletionFails(j) ==
    /\ \/ At(j, "del_thread") /\ job[j].thread # NoMessage /\ Fault
       \/ /\ At(j, "del_message") /\ job[j].message # NoMessage
          /\ Fault \/ (~channel /\ UNCHANGED bounds)
    /\ \/ /\ j = "create" \/ job[j].defers
          /\ PutsOff
          /\ EndsJob(j)
       \/ /\ j = "locked" /\ ~job[j].defers
          /\ Ends(TRUE)
          /\ UNCHANGED <<rows, woken>>
    /\ UNCHANGED <<eligible, things, texts>>

-----------------------------------------------------------------------------
(* The buttons, and the update of the message that follows *)

Claim(u) ==
    /\ Free /\ Open
    /\ Put(Claimed(ticket, u))
    /\ Takes("edit", "user")
    /\ Stays
    /\ UNCHANGED <<local, woken, eligible, things, texts, bounds>>

Decline(u) ==
    /\ Free /\ Open
    /\ u \notin ticket.excluded
    /\ Put(Declined(ticket, u))
    /\ IF u \in {ticket.target, ticket.pending.user}
       THEN Takes("edit", "user") ELSE UNCHANGED job
    /\ Stays
    /\ UNCHANGED <<local, woken, eligible, things, texts, bounds>>

Unassign ==
    /\ Free /\ Active /\ ticket.state = "claimed"
    /\ Put(Unassigned(ticket))
    /\ Takes("edit", "user")
    /\ Stays
    /\ UNCHANGED <<local, woken, eligible, things, texts, bounds>>

MarkFinished ==
    /\ Free /\ Active
    /\ BeginsFinishing("user", FALSE, FALSE, TRUE)
    /\ Stays
    /\ UNCHANGED <<eligible, things, texts, bounds>>

EditTicket ==
    /\ At("locked", "edit") /\ channel
    /\ \/ /\ Exists /\ ticket.message \in messages
          /\ shown' = ticket.assignee
          /\ Go("locked", "ack_edit")
          /\ Stays
          /\ UNCHANGED <<rows, woken>>
       \/ /\ Exists /\ ticket.message \notin messages
          /\ BeginsFinishing(job["locked"].by, TRUE, FALSE, FALSE)
          /\ Stays
          /\ UNCHANGED shown
       \/ /\ ~Exists
          /\ Ends(FALSE)
          /\ UNCHANGED <<rows, woken, shown>>
    /\ UNCHANGED <<eligible, things, heard, posted, bounds>>

EditFails ==
    /\ At("locked", "edit")
    /\ Fault \/ (~channel /\ UNCHANGED bounds)
    /\ PutsOff
    /\ Ends(FALSE)
    /\ UNCHANGED <<eligible, things, texts>>

\* A fault: nobody tells the scheduler of the deadline that the handler set.
AcknowledgeEditSilently ==
    /\ At("locked", "ack_edit")
    /\ ticket' = IF Exists THEN [ticket EXCEPT !.syncAt = "none"] ELSE ticket
    /\ Ends(FALSE)
    /\ UNCHANGED <<sent, local, woken, eligible, things, texts, bounds>>

\* The handlers wake the scheduler if the ticket has a deadline now, and
\* process_due does so after every update but that of a timeout.
AcknowledgeEdit ==
    /\ At("locked", "ack_edit")
    /\ ticket' = IF Exists THEN [ticket EXCEPT !.syncAt = "none"] ELSE ticket
    /\ woken' = (\/ woken
                 \/ job["locked"].by \in {"sched", "restore"}
                 \/ Exists /\ ticket.next # "none")
    /\ Ends(FALSE)
    /\ UNCHANGED <<sent, local, eligible, things, texts, bounds>>

-----------------------------------------------------------------------------
(* Deadlines: process_due, and the ping of a reviewer *)

\* Nothing is left to do, or what was to be done is done: the caller goes on.
Returns(by) ==
    /\ Caller(by, FALSE)
    /\ UNCHANGED <<job, resync>>

DeletesRest(by) ==
    /\ job' = [job EXCEPT !["locked"] =
                  [at |-> "del_thread", by |-> by, defers |-> TRUE,
                   message |-> ticket.message, thread |-> ticket.thread]]
    /\ sent' = "no" /\ local' = FALSE
    /\ UNCHANGED <<ticket, woken>>
    /\ Stays

\* A half-made or half-deleted ticket is completed or removed.
Recovers(by) ==
    \/ /\ Creating
       /\ Takes("find_message", by)
       /\ Stays
       /\ UNCHANGED <<rows, woken>>
    \/ Closing /\ DeletesRest(by)

RoutingDue == Open /\ ticket.syncAt = "none" /\ ticket.nextAt = "due"

ProcessDue(by) ==
    \/ Recovers(by)
    \/ /\ Active /\ ticket.syncAt # "none"
       /\ Takes("edit", by)
       /\ Stays
       /\ UNCHANGED <<rows, woken>>
    \/ /\ ~Exists \/ (Active /\ ticket.syncAt = "none" /\ ~RoutingDue)
       /\ Returns(by)
       /\ UNCHANGED <<rows, woken>>
    \/ /\ RoutingDue /\ ticket.next = "target_timeout" /\ ticket.target = NoUser
       /\ Put(Exhausted(ticket))
       /\ Returns(by)
       /\ UNCHANGED <<local, woken>>
    \/ /\ RoutingDue /\ ticket.next = "target_timeout" /\ ticket.target # NoUser
       /\ Put(TimedOut(ticket))
       /\ Takes("edit", by)
       /\ Stays
       /\ UNCHANGED <<local, woken>>
    \/ /\ RoutingDue /\ ticket.next \in PingAction /\ ticket.protected
       /\ Put(Deferred(ticket))
       /\ woken' = TRUE
       /\ Returns(by)
       /\ UNCHANGED local
    \/ /\ RoutingDue /\ ticket.next \in PingAction /\ ~ticket.protected
       /\ Takes("route", by)
       /\ Stays
       /\ UNCHANGED <<rows, woken>>

\* Whom a new reservation may be for.
Targets ==
    IF ticket.next = "direct_ping"
    THEN {u \in {ticket.direct} \ {NoUser} : ~Used(ticket, u)}
    ELSE Candidates

\* _process_due_ping: go on with the pending reservation, make one, or give up.
Route ==
    /\ At("locked", "route")
    /\ \/ /\ Open /\ ticket.pings < MaxPings /\ ticket.pending # NoPing
          /\ Go("locked", "settle")
          /\ Stays
          /\ UNCHANGED <<rows, posted>>
       \/ /\ Open /\ ticket.pings < MaxPings /\ ticket.pending = NoPing
          /\ \E u \in Targets :
                Put(Reserved(ticket, u, ticket.next = "automatic_ping"))
          /\ local' = TRUE
          /\ posted' = FALSE
          /\ Go("locked", "settle")
          /\ Stays
       \/ /\ Open
          /\ ticket.pings >= MaxPings \/ (ticket.pending = NoPing /\ Targets = {})
          /\ Put(Exhausted(ticket))
          /\ Ends(FALSE)
          /\ UNCHANGED <<local, posted>>
       \/ /\ ~Exists
          /\ Ends(FALSE)
          /\ UNCHANGED <<rows, posted>>
    /\ UNCHANGED <<woken, eligible, things, shown, heard, bounds>>

\* A fault: a ping of an earlier process is not looked for.
MayBeSentNever == FALSE

\* Was the pending ping sent?  A reservation that this process did not make is
\* looked for in the thread, once.
MayBeSent == sent = "no" /\ ~local

Settle ==
    /\ At("locked", "settle")
    /\ \/ /\ Exists /\ MayBeSent /\ ticket.thread \in threads
          /\ sent' = IF posted THEN "current" ELSE "no"
          /\ Go("locked", IF posted THEN "ack_ping" ELSE "check")
          /\ Stays
          /\ UNCHANGED <<ticket, local, woken>>
       \/ /\ Exists /\ MayBeSent /\ ticket.thread \notin threads
          /\ BeginsFinishing(job["locked"].by, FALSE, TRUE, TRUE)
          /\ Stays
       \/ /\ Exists /\ ~MayBeSent
          /\ Go("locked", IF sent = "current" THEN "ack_ping" ELSE "check")
          /\ Stays
          /\ UNCHANGED <<rows, woken>>
       \/ /\ ~Exists
          /\ Ends(FALSE)
          /\ UNCHANGED <<rows, woken>>
    /\ UNCHANGED <<eligible, things, texts, bounds>>

\* An automatic ping is checked again before it is sent, and given to another
\* reviewer if need be.
Check ==
    /\ At("locked", "check")
    /\ \/ /\ Exists
          /\ ticket.pending.automatic => ticket.pending.user \in Candidates
          /\ Go("locked", "ping")
          /\ Stays
          /\ UNCHANGED rows
       \/ /\ Exists /\ ticket.pending.automatic /\ ticket.pending.user \notin Candidates
          /\ Put(Cancelled(ticket))
          /\ local' = FALSE
          /\ Go("locked", "route")
          /\ Stays
       \/ /\ ~Exists
          /\ Ends(FALSE)
          /\ UNCHANGED rows
    /\ UNCHANGED <<woken, eligible, things, texts, bounds>>

\* The Gateway's member data is missing: automatic routing waits.
GatewayUnavailable ==
    /\ Exists
    /\ \/ /\ At("locked", "route") /\ ticket.pings < MaxPings
          /\ ticket.pending = NoPing /\ ticket.next = "automatic_ping"
       \/ At("locked", "check") /\ ticket.pending.automatic
    /\ Fault
    /\ Put(Deferred(ticket))
    /\ woken' = TRUE
    /\ Ends(FALSE)
    /\ UNCHANGED <<local, eligible, things, texts>>

Delivered ==
    /\ heard' = [heard EXCEPT ![ticket.pending.user] = @ + 1]
    /\ posted' = TRUE

\* A ping that fails is sent again later.
PingLater ==
    /\ Put(Deferred(ticket))
    /\ woken' = TRUE
    /\ Ends(FALSE)
    /\ UNCHANGED local

PingReviewer ==
    /\ At("locked", "ping")
    /\ \/ /\ Exists /\ ticket.thread \in threads
          /\ Delivered
          /\ \/ /\ sent' = "current"
                /\ Go("locked", "ack_ping")
                /\ Stays
                /\ UNCHANGED <<ticket, local, woken, bounds>>
             \/ limits.ambiguous /\ Fault /\ PingLater
       \/ /\ Exists /\ ticket.thread \notin threads
          /\ BeginsFinishing(job["locked"].by, FALSE, TRUE, FALSE)
          /\ Stays
          /\ UNCHANGED <<heard, posted, bounds>>
       \/ /\ Exists /\ Fault
          /\ PingLater
          /\ UNCHANGED <<heard, posted>>
       \/ /\ ~Exists
          /\ Ends(FALSE)
          /\ UNCHANGED <<rows, woken, heard, posted, bounds>>
    /\ UNCHANGED <<eligible, things, shown>>

AcknowledgePing ==
    /\ At("locked", "ack_ping")
    /\ sent' = "no" /\ local' = FALSE
    /\ \/ /\ Exists
          /\ ticket' = Acknowledged(ticket)
          /\ Go("locked", "edit")
          /\ Stays
       \/ /\ ~Exists
          /\ Ends(FALSE)
          /\ UNCHANGED ticket
    /\ UNCHANGED <<woken, eligible, things, texts, bounds>>

\* The search of the thread or the acknowledgement raises.
SettlementFails ==
    /\ \/ At("locked", "settle") /\ MayBeSent
       \/ At("locked", "ack_ping")
    /\ Fault
    /\ Ends(TRUE)
    /\ UNCHANGED <<rows, woken, eligible, things, texts>>

-----------------------------------------------------------------------------
(* The deadline scheduler *)

Clear ==
    /\ sched = "clear"
    /\ woken' = FALSE
    /\ sched' = "read"
    /\ UNCHANGED <<rows, job, restore, resync, eligible, things, texts, bounds>>

ReadDeadline ==
    /\ sched = "read"
    /\ sched' = CASE ~Exists \/ ~HasDeadline(ticket) -> "wait"
                  [] Exists /\ IsDue(ticket) -> "query"
                  [] OTHER -> "sleep"
    /\ UNCHANGED <<rows, job, restore, woken, resync, eligible, things, texts, bounds>>

Wake ==
    /\ sched \in {"wait", "sleep"} /\ woken
    /\ sched' = "clear"
    /\ UNCHANGED <<rows, job, restore, woken, resync, eligible, things, texts, bounds>>

\* The deadline that it sleeps for has come, whatever the row says by now.
Timer ==
    /\ sched = "sleep"
    /\ sched' = "query"
    /\ UNCHANGED <<rows, job, restore, woken, resync, eligible, things, texts, bounds>>

Query ==
    /\ sched = "query"
    /\ sched' = IF Exists /\ IsDue(ticket) THEN "serve" ELSE "clear"
    /\ UNCHANGED <<rows, job, restore, woken, resync, eligible, things, texts, bounds>>

Serve ==
    /\ sched = "serve" /\ Free
    /\ ProcessDue("sched")
    /\ UNCHANGED <<eligible, things, texts, bounds>>

\* The database fails: the iteration is begun again.
SchedulerFails ==
    /\ sched \in {"read", "query"} \/ (sched = "serve" /\ Free)
    /\ Fault
    /\ sched' = "clear"
    /\ UNCHANGED <<rows, job, restore, woken, resync, eligible, things, texts>>

-----------------------------------------------------------------------------
(* The start of the cog: _restore_runtime *)

Load ==
    /\ restore = "down"
    /\ restore' = "list"
    /\ UNCHANGED <<rows, job, sched, woken, resync, eligible, things, texts, bounds>>

\* The tickets to clean up are listed, and each is recovered under its lock.
List ==
    /\ restore = "list"
    /\ restore' = IF Creating \/ Closing
                  THEN "cleanup" ELSE "due"
    /\ UNCHANGED <<rows, job, sched, woken, resync, eligible, things, texts, bounds>>

RestoreCleanup ==
    /\ restore = "cleanup" /\ Free
    /\ \/ Recovers("restore")
       \/ /\ ~Exists \/ Active
          /\ sent' = IF Exists THEN sent ELSE "no"
          /\ local' = (local /\ Exists)
          /\ Returns("restore")
          /\ UNCHANGED <<ticket, woken>>
    /\ UNCHANGED <<eligible, things, texts, bounds>>

ListDue ==
    /\ restore = "due"
    /\ IF Exists /\ IsDue(ticket)
       THEN restore' = "serve" /\ UNCHANGED sched
       ELSE /\ restore' = "done"
            /\ sched' = IF sched = "off" THEN "clear" ELSE sched
    /\ UNCHANGED <<rows, job, woken, resync, eligible, things, texts, bounds>>

RestoreDue ==
    /\ restore = "serve" /\ Free
    /\ ProcessDue("restore")
    /\ UNCHANGED <<eligible, things, texts, bounds>>

\* The process ends.  The requests that were under way were carried out, or not.
Crash ==
    /\ Up /\ crashes < limits.crashes
    /\ crashes' = crashes + 1
    /\ restore' = "down" /\ sched' = "off" /\ woken' = FALSE /\ resync' = FALSE
    /\ sent' = "no" /\ local' = FALSE
    /\ job' = [job EXCEPT !["locked"] = Rest,
                          !["create"] = IF @ = Rest THEN Rest ELSE [Rest EXCEPT !.at = "over"]]
    /\ events' = {}
    /\ UNCHANGED <<ticket, eligible, channel, messages, threads, made, texts,
                   limits, redacted, faults, deletions, changes>>

-----------------------------------------------------------------------------
(* Time *)

Ages(t) ==
    /\ ticket' = t
    /\ UNCHANGED <<sent, local, running, eligible, things, texts, bounds>>

NextDue ==
    /\ Exists /\ ticket.nextAt = "later"
    /\ Ages([ticket EXCEPT !.nextAt = "due"])

SyncDue ==
    /\ Exists /\ ticket.syncAt = "later"
    /\ Ages([ticket EXCEPT !.syncAt = "due"])

ProtectionEnds ==
    /\ Exists /\ ticket.protected
    /\ Ages([ticket EXCEPT !.protected = FALSE])

-----------------------------------------------------------------------------
(* Moderators, members and the events that tell of them *)

\* A moderator deletes something of the ticket; the cog hears of it if it is up.
ModeratorDeletes ==
    /\ deletions < limits.deletions
    /\ deletions' = deletions + 1
    /\ \/ \E m \in messages :
             /\ messages' = messages \ {m}
             /\ events' = IF Up THEN Notice("message", {m}) ELSE events
             /\ UNCHANGED <<channel, threads>>
       \/ \E m \in threads :
             /\ threads' = threads \ {m}
             /\ events' = IF Up THEN Notice("thread", {m}) ELSE events
             /\ UNCHANGED <<channel, messages>>
       \/ /\ channel
          /\ channel' = FALSE /\ messages' = {} /\ threads' = {}
          /\ events' = IF Up THEN Notice("channel", {NoMessage}) ELSE events
    /\ UNCHANGED <<rows, running, eligible, made, texts,
                   limits, redacted, faults, crashes, changes>>

OfTicket(e) == Exists /\ e.id = IF e.kind = "message" THEN ticket.message ELSE ticket.thread

\* handle_message_deleted and handle_thread_deleted.
HandleDeleted(e) ==
    /\ Free /\ e.kind # "channel"
    /\ events' = events \ {e}
    /\ \/ /\ OfTicket(e)
          /\ BeginsFinishing("event", e.kind = "message", e.kind = "thread", TRUE)
       \/ /\ ~OfTicket(e)
          /\ UNCHANGED <<rows, job, woken>>
    /\ Stays
    /\ UNCHANGED <<channel, messages, threads, made, eligible, texts, bounds>>

\* delete_tickets_for_channel, which takes no lock and wakes nobody.
HandleChannelDeleted(e) ==
    /\ Up /\ e.kind = "channel"
    /\ events' = events \ {e}
    /\ ticket' = NoTicket
    /\ UNCHANGED <<sent, local, running, channel, messages, threads, made, eligible,
                   texts, bounds>>

ToggleProfile(u) ==
    /\ changes < limits.changes
    /\ changes' = changes + 1
    /\ u \notin redacted \cup {Author}
    /\ eligible' = IF u \in eligible THEN eligible \ {u} ELSE eligible \cup {u}
    /\ UNCHANGED <<rows, running, things, texts, limits, redacted, faults, crashes,
                   deletions>>

\* red_delete_data_for_user.  The lifecycle lock keeps it out of a creation; what
\* is erased before there is a ticket does not matter to it.
Redact(u) ==
    /\ Free /\ At("create", "over")
    /\ u \notin redacted /\ Cardinality(redacted) < limits.erasures
    /\ redacted' = redacted \cup {u}
    /\ eligible' = eligible \ {u}
    /\ \/ /\ u # Author /\ Exists
          /\ Put(Redacted(ticket, u))
          /\ resync' = (resync \/ (Active /\ Concerns(ticket, u) /\ ticket'.state = "open"))
          /\ UNCHANGED <<local, job, woken>>
       \/ /\ u = Author /\ (Creating \/ Active)
          /\ BeginsFinishing("user", FALSE, FALSE, TRUE)
          /\ UNCHANGED resync
       \/ /\ ~Exists \/ (u = Author /\ Closing)
          /\ UNCHANGED <<rows, job, woken, resync>>
    /\ UNCHANGED <<restore, sched, things, texts, limits, faults, crashes,
                   deletions, changes>>

\* sync_projection for the tickets that the erasure changed.  (The wake-up for a
\* ticket that is no longer active is left out.)
Resync ==
    /\ resync /\ Free
    /\ resync' = FALSE
    /\ IF Active THEN Takes("edit", "user") ELSE UNCHANGED job
    /\ UNCHANGED <<rows, woken, restore, sched, eligible, things, texts, bounds>>

-----------------------------------------------------------------------------
Publication(j) ==
    \/ SendTicket(j) \/ RecordMessage(j) \/ CreateThread(j)
    \/ RecordThread(j) \/ Activate(j) \/ PublicationFails(j)

Deletion(j) == DeleteThread(j) \/ DeleteMessage(j) \/ DeleteRow(j) \/ DeletionFails(j)

Recovery == FindMessage \/ FindThread
Edit == EditTicket \/ EditFails \/ AcknowledgeEdit

Routing ==
    \/ Route \/ Settle \/ Check \/ GatewayUnavailable
    \/ PingReviewer \/ AcknowledgePing \/ SettlementFails

\* A handler that has begun goes on.
Handler == Recovery \/ Edit \/ Routing \/ (\E j \in Jobs : Publication(j) \/ Deletion(j))

Scheduler == Clear \/ ReadDeadline \/ Wake \/ Timer \/ Query \/ Serve \/ SchedulerFails
Restoration == Load \/ List \/ RestoreCleanup \/ ListDue \/ RestoreDue
Tick == NextDue \/ SyncDue \/ ProtectionEnds
Event == \E e \in events : HandleDeleted(e) \/ HandleChannelDeleted(e)

Button ==
    \/ Unassign \/ MarkFinished
    \/ \E u \in User : Claim(u) \/ Decline(u)

Next ==
    \/ Create \/ Handler \/ Scheduler \/ Restoration \/ Tick \/ Event \/ Resync
    \/ Button \/ ModeratorDeletes \/ Crash
    \/ \E u \in User : ToggleProfile(u) \/ Redact(u)

\* Tasks of the event loop run, timers ring, Discord delivers its events and the
\* bot is started again; nobody has to press a button, and nothing has to fail.
Fairness ==
    /\ WF_vars(Recovery) /\ WF_vars(Edit) /\ WF_vars(Routing)
    /\ \A j \in Jobs : WF_vars(Publication(j)) /\ WF_vars(Deletion(j))
    /\ WF_vars(Scheduler) /\ WF_vars(Restoration) /\ WF_vars(Resync)
    /\ WF_vars(NextDue) /\ WF_vars(SyncDue) /\ WF_vars(ProtectionEnds)
    /\ WF_vars(Event)

Spec == Init /\ [][Next]_vars
FairSpec == Spec /\ Fairness

-----------------------------------------------------------------------------
(* Properties *)

TypeOK ==
    /\ ticket \in Ticket \cup {NoTicket}
    /\ job \in [Jobs -> Job]
    /\ restore \in {"down", "list", "cleanup", "due", "serve", "done"}
    /\ sched \in {"off", "clear", "read", "wait", "sleep", "query", "serve"}
    /\ sent \in {"no", "current", "stale"}
    /\ woken \in BOOLEAN /\ local \in BOOLEAN /\ resync \in BOOLEAN
    /\ channel \in BOOLEAN /\ posted \in BOOLEAN
    /\ limits \in Limits
    /\ eligible \subseteq User /\ redacted \subseteq User
    /\ messages \subseteq made /\ threads \subseteq made /\ made \subseteq Message
    /\ shown \in User \cup {NoUser}
    /\ heard \in [User -> Nat]
    /\ events \subseteq [kind : {"message", "thread", "channel"}, id : Message \cup {NoMessage}]
    /\ faults \in Nat /\ crashes \in Nat /\ deletions \in Nat /\ changes \in Nat

Idle == \A j \in Jobs : job[j].at \in {"rest", "over"}

\* When no handler is at work and no update is owed (projection_sync_at), the
\* message shows who reviews the pull request, or that nobody does.
InSync ==
    Idle /\ Active /\ ticket.syncAt = "none" => shown = ticket.assignee

Promise == INSTANCE ReviewPromise WITH
    phase <- CASE ~Exists /\ At("create", "rest") -> "draft"
               [] Creating -> "draft"
               [] Open -> "open"
               [] Exists /\ ticket.state = "claimed" -> "taken"
               [] OTHER -> "closed",
    asks <- [u \in User |-> IF Exists /\ u \in ticket.asked THEN 1 ELSE 0],
    out <- IF Exists THEN ticket.excluded ELSE {},
    erased <- redacted

\* Tickets implements ReviewPromise, by what the database has of the pings.
KeepsReviewPromise == Promise!Spec

\* The scheduler never waits for ever beside a deadline in the database: it was
\* woken, or the handler that set the deadline has not come to its end.
NoLostWakeup ==
    (sched = "wait" /\ Exists /\ HasDeadline(ticket)) => (woken \/ ~Idle \/ resync)

\* A message and a thread do not outlive their ticket, once nobody is at work, if a
\* request that fails has had no effect.
NothingLeftBehind ==
    ~limits.ambiguous => (~Exists /\ Idle => messages = {} /\ threads = {})

\* Nothing about a ticket is forgotten: its message is current, its deadline is waited
\* for, and what it had in Discord goes with it.
NothingForgotten == InSync /\ NoLostWakeup /\ NothingLeftBehind

\* A ticket is published as one message.
PublishedOnce == Cardinality(messages) <= 1

\* As long as nothing fails and the process lives, nobody is pinged twice for a
\* ticket, unless his data was erased in between.
PingedOnce == faults = 0 /\ crashes = 0 => \A u \in User \ redacted : heard[u] <= 1

\* Nothing is said twice: a ticket has one message, and while nothing fails nobody is
\* pinged twice for it (_recover_creation, _process_due_ping).
SaidOnce == PublishedOnce /\ PingedOnce

\* A reviewer is never pinged while the ticket is protected, and never after it
\* was claimed or finished.
PingsInTurn ==
    [][\A u \in User : heard'[u] > heard[u] =>
          Open /\ ~ticket.protected /\ ticket.pending.user = u]_vars

\* A ping that was delivered is not sent again for the same reservation, though
\* the acknowledgement failed or the bot was started again; if the request itself
\* fails, it must have had no effect.
PingNotRepeated == [][heard' # heard => ~posted \/ limits.ambiguous]_vars

\* Whoever had his data erased is not pinged any more.
ErasedNotPinged == [][\A u \in redacted : heard'[u] = heard[u]]_vars

\* A finished ticket is removed from Discord and from the database.
CleanupCompletes == Closing ~> ~Exists

\* A creation that was begun ends: the ticket is open or it is gone.
CreationEnds == Creating ~> ~Creating

\* A due step of the routing is taken.
RoutingMovesOn == (Open /\ ticket.nextAt = "due") ~> ~(Open /\ ticket.nextAt = "due")

\* The message comes to show the assignee of the ticket.
MessageConverges == (Active /\ shown # ticket.assignee) ~> (Active => shown = ticket.assignee)

\* What was begun ends: a creation, a due step of the routing, the removal of a
\* finished ticket, and the update of the message after a transition
\* (_recover_creation, process_due, recover_projection_cleanup).
TicketMovesOn == CleanupCompletes /\ CreationEnds /\ RoutingMovesOn /\ MessageConverges
=============================================================================
