---------------------------- MODULE IntentBacklog ----------------------------
(***************************************************************************)
(* Messages that arrive while Discord withholds their content              *)
(* (honeypot/intent_backlog.py).  Their ids wait in a table; a worker       *)
(* fetches them in batches, replays them through on_message, and forgets    *)
(* them or tries again later.  The content may be withheld again at any     *)
(* await, and the process may end anywhere.                                 *)
(*                                                                         *)
(* Rows are ordered by retry_at: what is due is a sequence, at whose end a  *)
(* row arrives when its time comes.  Attempts are counted and never read.   *)
(***************************************************************************)
EXTENDS Naturals, Sequences, FiniteSets, Functions

CONSTANTS
    Mail,           \* messages
    DrainBatch,     \* DRAIN_BATCH_SIZE
    BacklogLimits   \* how often the content changes, requests fail, rows age, the process ends

ASSUME BacklogAssumption ==
    /\ DrainBatch \in Nat \ {0}
    /\ BacklogLimits \subseteq [{"changes", "faults", "ages", "crashes"} -> Nat]

VARIABLES
    content,    \* available(bot, "message_content")
    unreachable,\* messages whose server or channel is never found
    unseen,     \* messages that nobody has written yet
    writing,    \* handlers that have found the content withheld and not yet stored the id
    queue,      \* pending_content_messages that are due, by retry_at
    later,      \* those that are not
    aged,       \* those older than RETENTION_SECONDS
    worker,     \* the drain: its step, the rest of its batch
    deferred,   \* history: what was stored
    settled,    \* history: what was replayed, deleted in Discord, or expired
    fortune     \* what may still happen

backlogVars == <<content, unreachable, unseen, writing, queue, later, aged, worker, deferred,
                 settled, fortune>>

Rows == Range(queue) \cup later
Drain == [step : {"asleep", "take", "fetched", "replayed", "acknowledge", "retry", "give up"},
          batch : Seq(Mail)]
Asleep == [step |-> "asleep", batch |-> <<>>]
Chance(what) == fortune[what] > 0 /\ fortune' = [fortune EXCEPT ![what] = @ - 1]

BacklogInit ==
    /\ content = FALSE /\ unreachable \in SUBSET Mail /\ unseen = Mail /\ writing = {}
    /\ queue = <<>> /\ later = {} /\ aged = {} /\ worker = Asleep
    /\ deferred = {} /\ settled = {} /\ fortune \in BacklogLimits

\* on_message, queue_if_unavailable: the check, and after two awaits the row.
Arrive(m) ==
    /\ m \in unseen /\ unseen' = unseen \ {m}
    /\ writing' = IF content THEN writing ELSE writing \cup {m}
    /\ UNCHANGED <<content, unreachable, queue, later, aged, worker, deferred, settled, fortune>>

Enqueue(m) ==
    /\ m \in writing /\ writing' = writing \ {m}
    /\ queue' = IF m \in Rows THEN queue ELSE Append(queue, m)
    /\ deferred' = deferred \cup {m}
    /\ UNCHANGED <<content, unreachable, unseen, later, aged, worker, settled, fortune>>

-----------------------------------------------------------------------------
(* drain_once *)

Works(step, batch) == worker' = [step |-> step, batch |-> batch]

\* What is left of the due rows keeps its order.
KeepsOrder(rows) ==
    \A i, j \in DOMAIN rows : i < j =>
        \E k, l \in DOMAIN queue : k < l /\ queue[k] = rows[i] /\ queue[l] = rows[j]
Remaining(mail) == {rows \in Bijection(1..Cardinality(mail), mail) : KeepsOrder(rows)}

Next1(s) == IF s = <<>> THEN Works("asleep", s) ELSE Works("take", s)

\* due: one transaction, which deletes what is too old; then the content is asked for.
Due ==
    /\ worker = Asleep
    /\ queue' \in Remaining(Range(queue) \ aged)
    /\ LET batch == IF Len(queue') > DrainBatch THEN SubSeq(queue', 1, DrainBatch) ELSE queue'
       IN IF content THEN Next1(batch) ELSE Works("asleep", <<>>)
    /\ later' = later \ aged /\ aged' = {} /\ settled' = settled \cup aged
    /\ UNCHANGED <<content, unreachable, unseen, writing, deferred, fortune>>

\* A row is begun if the content is there; the fetch finds the message, or it is gone, or fails.
Take ==
    /\ worker.step = "take"
    /\ LET m == Head(worker.batch) IN
       IF ~content THEN worker' = Asleep /\ UNCHANGED <<settled, fortune>>
       ELSE \/ m \notin unreachable /\ Works("fetched", worker.batch) /\ UNCHANGED <<settled, fortune>>
            \/ m \in unreachable /\ Works("retry", worker.batch) /\ UNCHANGED <<settled, fortune>>
            \/ m \notin unreachable /\ Chance("faults")
               /\ \/ Works("retry", worker.batch) /\ UNCHANGED settled
                  \/ Works("acknowledge", worker.batch) /\ settled' = settled \cup {m}
    /\ UNCHANGED <<content, unreachable, unseen, writing, queue, later, aged, deferred>>

\* on_message runs if the content is still there; it may raise, and a NotFound that it
\* lets through is taken for the message's own.
Withheld == ~content
Replay ==
    /\ worker.step = "fetched"
    /\ IF Withheld THEN Works("give up", worker.batch) /\ UNCHANGED <<settled, fortune>>
       ELSE \/ Works("replayed", worker.batch) /\ UNCHANGED <<settled, fortune>>
            \/ Chance("faults")
               /\ \/ Works("retry", worker.batch) /\ UNCHANGED settled
                  \/ Works("acknowledge", worker.batch) /\ settled' = settled \cup {Head(worker.batch)}
    /\ UNCHANGED <<content, unreachable, unseen, writing, queue, later, aged, deferred>>

\* What ran while the content went away is not trusted.
Replayed ==
    /\ worker.step = "replayed"
    /\ IF Withheld THEN Works("give up", worker.batch) /\ UNCHANGED settled
       ELSE Works("acknowledge", worker.batch) /\ settled' = settled \cup {Head(worker.batch)}
    /\ UNCHANGED <<content, unreachable, unseen, writing, queue, later, aged, deferred, fortune>>

Acknowledge ==
    /\ worker.step = "acknowledge"
    /\ queue' \in Remaining(Range(queue) \ {Head(worker.batch)})
    /\ later' = later \ {Head(worker.batch)}
    /\ aged' = aged \ {Head(worker.batch)}
    /\ Next1(Tail(worker.batch))
    /\ UNCHANGED <<content, unreachable, unseen, writing, deferred, settled, fortune>>

\* Fault: a message that failed stays where it was.
PutOffNever(m) == UNCHANGED <<queue, later>>

\* retry: the row is due again after RETRY_SECONDS; "give up" leaves the rest of the batch.
PutOff(m) == queue' \in Remaining(Range(queue) \ {m}) /\ later' = later \cup ({m} \cap Rows)
RetryLater ==
    /\ worker.step \in {"retry", "give up"}
    /\ PutOff(Head(worker.batch))
    /\ IF worker.step = "retry" THEN Next1(Tail(worker.batch)) ELSE worker' = Asleep
    /\ UNCHANGED <<content, unreachable, unseen, writing, aged, deferred, settled, fortune>>

ComesDue(m) ==
    /\ m \in later /\ later' = later \ {m} /\ queue' = Append(queue, m)
    /\ UNCHANGED <<content, unreachable, unseen, writing, aged, worker, deferred, settled, fortune>>

-----------------------------------------------------------------------------

\* update_grants
ContentChanges ==
    /\ Chance("changes") /\ content' = ~content
    /\ UNCHANGED <<unreachable, unseen, writing, queue, later, aged, worker, deferred, settled>>

Age(m) ==
    /\ m \in Rows \ aged /\ Chance("ages") /\ aged' = aged \cup {m}
    /\ UNCHANGED <<content, unreachable, unseen, writing, queue, later, worker, deferred, settled>>

\* The table survives; handlers and the drain do not.
CrashBacklog ==
    /\ Chance("crashes") /\ writing' = {} /\ worker' = Asleep
    /\ UNCHANGED <<content, unreachable, unseen, queue, later, aged, deferred, settled>>

Draining == Due \/ Take \/ Replay \/ Replayed \/ Acknowledge \/ RetryLater
BacklogNext ==
    \/ \E m \in Mail : Arrive(m) \/ Enqueue(m) \/ ComesDue(m) \/ Age(m)
    \/ Draining \/ ContentChanges \/ CrashBacklog

BacklogSpec == BacklogInit /\ [][BacklogNext]_backlogVars

-----------------------------------------------------------------------------
(* Properties *)

\* Every variable keeps to the values the code gives it; a row has one place in the queue.
BacklogTypeOK ==
    /\ content \in BOOLEAN /\ unreachable \subseteq Mail /\ unseen \subseteq Mail
    /\ writing \subseteq Mail /\ queue \in Seq(Mail) /\ IsInjective(queue)
    /\ later \subseteq Mail /\ aged \subseteq Mail /\ worker \in Drain
    /\ deferred \subseteq Mail /\ settled \subseteq Mail

\* A stored message leaves the table only after it was replayed with its content, or was
\* reported gone by Discord, or is too old; no crash and no loss of the content drops it (drain_once).
NothingDropped == deferred \subseteq Rows \cup settled

\* Once the content is there to stay, every message that can be fetched leaves the table,
\* though others fail for ever and fill the batches: a retried row goes behind those that
\* wait (_due_sync).
Stays == content /\ fortune["changes"] = 0
BacklogDrains == Stays ~> (Rows \subseteq unreachable)
=============================================================================
