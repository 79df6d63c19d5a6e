# NHCogs in TLA+

NHCogs is a set of cogs for Red-DiscordBot. Its largest part, `honeypot`,
collects suspicious messages of a member into a *detection case*, contains the
member, deletes messages, asks moderators, punishes, and forgets. All of it is
done by rows of a durable queue that survive restarts. The other cogs
(`githubtickets`, `nhmisc`, `nhmoderation`, `custom_commands`) have state
machines of the same style: SQLite transactions run in threads, with Discord
requests between them, under asyncio's interleaving.

This directory models that core, the review tickets of `githubtickets`, and the
stateful parts of the other cogs. What is stated here is stated of the code at
the lines that `PROJECT.json` ("map") names for each definition.

## Inventory

Paths are relative to `src/NHCogs/`.

| Component | State | Operations | What is hard, what must hold |
|---|---|---|---|
| Operation queue (`honeypot/detection_cases.py`, `detection.py`, `operations/`) | table `detection_operations`: status, attempts, `retry_at`, claim token, `effect_started_at`, result; heartbeat tasks; the loop's batch | claim by id, claim of a batch, renew, start effect, complete, fail, defer | crashes around a Discord request, dead heartbeats and stale takeovers; a kick leaves at most once, verdicts are true, every row comes to rest |
| Case resolution and containment roles (same files, `role_apply.py`, `role_release.py`, `moderator_decision.py`) | `detection_cases` (status, resolving token), moderator rows, `detection_role_ownership`, the member's role | append, claim/finish/release a resolution, moderator action and ignore, reconcile; apply, transfer and release of the role | several deciders of one case, messages that take a case back, roles passed from case to case; a sent decision stands, every role comes off once |
| Message pipeline and evidence (`message_process.py`, `detection_runtime.py`, `review_publication.py`) | attachments, reservations of bytes, files, capture tasks and slots | append, reserve, download, record, stop, contain, close, delete | a message is not processed before its evidence is settled; nothing outlives a deleted case |
| Review publication and deletion (`review_publication.py`, `case_review.py`) | publication claims, endpoint, timeline page, orphans, deletion job | publish, edit, replace, compensate, plan and finish a deletion | stale claims, late messages of deleted cases; one summary, one page; deletions end |
| JoinWatch incidents (`joinwatch.py`, `joinwatch_verification.py`) | assignment, restriction and verified rows of a member; plans and selections in memory | join, timer, verification, release, wave and group enrolment, archive, restart | timer against answer, crash around a ban; thrown out once, and never after passing |
| JoinWatch live state (`joinwatch_state.py`) | marker, Config maps, SQLite rows, backup | read, write, copy, clear, export, restore, erase | a crash inside the move; the move is invisible |
| Deferred messages (`intent_backlog.py`) | a table of message ids with retry times | enqueue, drain, acknowledge, retry, expire | content that comes and goes; nothing is dropped, everything reachable drains |
| Manual punishments (`manual_punishment*.py`) | panels, private audits, offers of roles | select, confirm, audit, delete, punish, report; the commands that offer roles | two panels on one message, roles shared with cases and JoinWatch |
| GitHub tickets (`githubtickets/`) | the ticket's row with assignee, target, reserved ping, deadlines, exclusions; in memory its lock, local reservations, sent pings, the scheduler's event; in Discord its message and thread | create, claim, decline, unassign, finish; reserve, send and acknowledge a ping, reroute, time out; update the message, clean up, erase a user, restore | a ping sent and not recorded, a creation broken off, deletions from outside, lost wake-ups; nobody is asked twice, the message tells the truth, nothing stays behind |
| Gate increments (`nhmisc/gate_increment_*.py`) | operations and members with leases, awards, result messages | prepare, confirm, execute, record, publish, recover, erase | leases without expiry, two handlers of one message; a Gate is earned once and announced |
| Gate roles and achievements (`nhmisc/achievement_*.py`, `gate_roles.py`) | definitions, awards, bound roles, listeners, reconciliation | grant, revoke, compact, bind, replace, reconcile, synchronise | whole role sets written from an old cache; roles converge to the awards |
| Bot proxy (`nhmisc/bot_proxy*.py`) | sessions, threads, presets, one webhook | open, compose, preview, publish, finish, switch off, erase | one webhook for all, waiting publications; nothing is sent that is no longer allowed |
| Role analytics (`nhmisc/role_analytics_*.py`) | generations of a mirror, queued events, status | stage, snapshot, replay, activate, sweep, disable | events during a snapshot; "ready" means exact, and is reached |
| Activity analytics (`nhmisc/activity_storage.py`) | open day, counters, details, summaries, emoji | record, close a day, report, prune, read, erase | several closers of a day at midnight; reports are honest |
| Moderation history (`nhmoderation/`) | observations, cursors, runs, projection | live events, initial/weekly/repair runs, project, erase | resumed imports, duplicates, several sources of one ban; each ban is charted once |
| Custom commands (`custom_commands/`) | revisioned commands, drafts, prompts, legacy data | edit, save, delete, erase, purge; the pager | stale revisions; what was erased stays erased |
| Not modelled | captcha pictures, message registry, detectors, waves and dashboards, sticky roles, autopins, voice log, cleanup, console dump, error reporter | | see the end |

The parts meet in few places. `on_message` and the Discord buttons call the
stores and claim rows by id; the reconciliation loop (every ten seconds) claims
batches of what is left; the expiry loop resolves cases that are due. The
operation handlers share the member's lock with JoinWatch. Everything durable
goes through one SQLite transaction per store call, and anything may happen
between two of them.

## Modules

| Module | Models |
|---|---|
| `OperationQueue` | the rows of one case and their executors |
| `PunishmentPromise` | what the queue promises about a kick (abstract) |
| `MCOperationQueue` | instances of `OperationQueue` for TLC |
| `OperationQueueProofs` | proofs about `OperationQueue` |
| `CaseRoles`, `MCCaseRoles` | the cases of one member, their deciders and the role |
| `CaseRolesProofs` | proofs about `CaseRoles`, whatever fails and until something does |
| `CaseEvidence` | the attachments of a case's messages, from the append to the deletion |
| `CasePublication` | the posts of a case and its deletion |
| `JoinWatch` | the incidents of one member |
| `LiveState` | the live JoinWatch rows in two stores |
| `LiveRows` | what they promise (abstract) |
| `JoinWatchProofs` | proofs about both: no one is thrown out wrongly, the promise is kept |
| `ManualPunishment` | panels on one message |
| `IntentBacklog` | messages that wait for their content |
| `MessagePipeline` | `CaseEvidence` behind `IntentBacklog`: a message on its way |
| `HoneypotProofs` | proofs about panels, the posts of a case, its evidence and deferred messages |
| `TicketStore` | the row of a review ticket and the transactions on it |
| `Tickets`, `MCTickets` | one review ticket, its handlers, scheduler and start |
| `ReviewPromise` | what a ticket promises its reviewers (abstract) |
| `TicketsProofs` | proofs about `Tickets`: types, pings in turn, erasure, `ReviewPromise`, no repetition |
| `TicketsKept` | proofs about `Tickets`: that nothing about a ticket is forgotten |
| `GateIncrement`, `GateRoles`, `Achievements`, `RoleAnalytics` | the stateful parts of `nhmisc` that concern roles |
| `GateIncrementProofs` | proofs about `GateIncrement`: earned once, told rightly |
| `BotProxy`, `ActivityDays` | its proxy and its message counters |
| `BanProjection` | the pure projection of observations to actions |
| `ModerationHistory` | imports, live events and the chart |
| `CustomCommands` | one command, its editors and its erasure |
| `CommandPager` | the pages of a command list |
| `CustomCommandsProofs` | proofs about both: nothing overtaken is stored, the newest page stays |
| `MCHoneypot`, `MCNHMisc`, `MCServers`, `MCModerationHistory` | instances for TLC |

**How the parts of a cog are run together.** The parts in `MCHoneypot`, `MCNHMisc` and
`MCServers` share no state: where one part touches what another keeps (the role that a
detection case owns and a moderator gives, JoinWatch's row that an enrolment and a panel
change) the module that has the property holds both. Interleaving independent parts would
only multiply their states, so a behaviour moves one part, `focus`, and leaves the others at
their first state; the states of the run are the sum of theirs. `Of(part, formula)` states an
invariant of the part that moves, and fairness is that of the focus. `CaseRoles`, `Tickets`
and `OperationQueue`, whose state spaces are large, have runs of their own.

### OperationQueue

`row` is the table `detection_operations`. `exec` holds what each executor (an
event handler's task, a button's, or the loop) is doing: `stage` is the await it
stands at, `token` the claim it acts under, `beating` its heartbeat. `batch` is
the rest of `claim_due_operations`' result that the loop has not begun. Each
action is one store transaction or one Discord request:
`_execute_detection_case_operation` is `LoadCase`, then the handler's steps (the
kick and ban handlers in full; purge, review update and evidence cleanup as
`Work`), then `SettleSuccess`, `SettleFailure` or `Defer`. An exception outside
the handler's `try` `Escapes`; in the loop it ends the loop's task, which is what
`tasks.loop` does with it.

Abstracted: time is two flags, `retryAt` and `stale`; tokens are numbers from a
counter instead of `uuid4`; errors are retryable, terminal or the purge's last.

`PunishmentPromise` has three variables per punishment: the durable marker, the
requests sent, and the verdict the moderators read. `KeepsPromise` is the
refinement, with `verdict` computed from a row's status and result.

### CaseRoles

`case` is the table `detection_cases` for one member. `holder` is what the
resolving token refers to: the moderator's kick or ban row, the ignore row, or
the lease of a caller of `resolve_detection_case`. `action`, `ignored`, `apply`
and `release` are the case's rows of those types; `owner` is the row of
`detection_role_ownership`; `exec` and `resolver` are the coroutines, one stage
per await. `letGo` holds the ignores that have been recorded and whose roles
have not been released yet. `added` and `reopened` are history, for the
properties only.

Abstracted: the claims of a row are counted, and a row still worked on can be
claimed again only by a fault (`OperationQueue` has the reason: a dead
heartbeat). `work` sums up the case's captures, image decisions, source
deletions and purges. An executor may claim an apply row at any time; the code
makes the loop wait for the message's pipeline row first. What the last image
decision read of the case's captures may be old when it claims a resolution, so
nothing is asked of `work` there.

Left out: what JoinWatch retains or hands over of the same role, dry runs, a
planned deletion, compaction of a closed case, and a stale member cache.

### TicketStore and Tickets

`ticket` is the row of the tables `tickets`, `ticket_exclusions` and
`ticket_pings`; every operator of `TicketStore` is one UPDATE of `store.py`.
`job` says at which await a coroutine stands: `job["locked"]` is whoever has the
lock of the ticket (a button, the scheduler, the restoration or a deletion's
event), `job["create"]` is `create_ticket`, which takes no ticket lock. `sent` is
`_sent_ping_settlements`, `local` is `_locally_reserved_pings`, `woken` is the
scheduler's event and `sched` the line of `_run_iteration` it is at; `restore` is
where `_restore_runtime` is. What exists in Discord is in `channel`, `messages`,
`threads` and `events` (deletions that were not handled yet); `shown` is the
assignee the message shows, `heard` counts the pings that were delivered, and
`posted` is whether the pending ping was.

A step is what a coroutine does between two awaits; a transaction and the
coroutine's use of its result are one step if nobody else can change the row in
between, which is so under the ticket's lock for an open or claimed ticket. The
channel's deletion takes no lock; a handler finds the row gone at its next step.

`ReviewPromise` says that a ticket asks each reviewer at most once, only while it
is open, never after he was ruled out, and no more of them than `max_pings`.
`KeepsReviewPromise` is the refinement; `asks` is what the database knows
(`ticket_pings`). What was delivered in Discord is compared with it by `PingedOnce`
and `PingNotRepeated`.

Abstracted: a time is later or due, and a protection is over or not. The version
of a row only guards writes that the lock already orders. Categories, profiles,
permissions and presence are the set `eligible`, which members change; which
candidate is selected is left open. Who may press a button is left out: anybody
may claim or decline. The deletion of a ticket's message by the cog itself causes
an event like any other.

Left out: a reload of the cog in one process (the new instance has locks of its
own), the removal of a guild, failing transactions except in the scheduler and in
the settlement of a ping, the erasure of a user during a creation (the cog's
lifecycle lock keeps them apart), and a ticket that is created before the cog has
restored (`limits.overlap`, which no run chooses: it would break `PublishedOnce`).

### CaseEvidence

`capture` is the running `_capture_case_attachments` of each message, `handler` its
`message_process_handler`; `evidence` and `reservation` are the rows, `files` what lies on
the disk. `Reserve`, `Download`, `SettleFile` and `SettleFailure` are the steps of a capture;
a token whose task has died is "dead" and is taken over when it is stale. The deletion takes
every capture slot before it removes files (`BarrierHeld`). Abstracted: bytes are the
declared or the larger size of one attachment per message; the deletion of the source and
its retry row are one step (`Contain`).

### CasePublication

`posted` and `threads` are what Discord has, the other variables are rows. `publisher` is
the coroutine that has its turn (publications of a case take turns within a process), a
crash leaves its claim behind. Sending and recording are two steps; between them the claim
may be outlived (`ClaimOutlived`), the case deleted (`PlanDeletion`) or the process end. What
cannot be recorded is compensated: deleted, or listed as an orphan.

### JoinWatch

`rows` holds the assignment and the restriction of the member, `task` the holder of his lock
and the await it stands at, `picked` what the timer selected without the lock. A crash may
cut a request off before or after it took effect (`Cut`). Time is three actions: a delay
ends, a deadline passes, a session ends.

### LiveState

Every action is one transaction or one write of a Config map. `LiveRows` is the table a
reader sees with its one backup; `MoveInvisible` is the refinement, with `live` the table
behind the marker. What the export and the restore hold over several writes is `job`.

### ManualPunishment

Each panel is a program of awaited steps (`Moves`), from selection to the closed audit. The
member's roles are shared with the cases' ownership (`owned`) and JoinWatch's row (`watch`),
whose own steps are reduced to containing, releasing and assigning. A failing request may
have taken effect; `seen` is the member cache, which may lag.

### IntentBacklog

`queue` is the due rows by `retry_at`, `later` the others. `worker` is `drain_once` between
two awaits: each looks at the grant again. Attempts are not modelled since nothing reads
them. What is left of the queue when rows go is `Remaining`: the one sequence of the other
rows that keeps their order, told by what it is and not by how it is computed, since the
sequence operators that filter are recursive and cannot be proved about.

`MessagePipeline` is both, one behind the other: a deferred message that is replayed comes
to `on_message`, which appends it to a case. They share no state.

### GateIncrement, GateRoles, Achievements

In all three a step is what a handler does between two awaits, Discord's roles are variables
of their own, and `member.edit` sends a whole set. `GateIncrement` has the operations of two
source messages with the leases of three handlers, one of them the recovery of the start.
`GateRoles` has one member's Stargates; its listeners are a set of what they know, since two
that know the same do the same. `Achievements` adds the catalogue, bound roles and the member
cache that follows Discord one event behind another.

### BotProxy

A session's `job` is what the holder of its publish lock does; `state` is the guild's lock
and `hook` the webhook's with the avatar that it wears. Settings are read, and written,
between any two steps of a publication.

### RoleAnalytics

`mirror` holds the rows of each generation, `inbox` the events whose listeners wait for the
event lock, `waiting` the queue that `_sync_generations` fills while a generation is staged.
A cancelled task's thread goes on (`Straggle`). Generation numbers are reused here, to keep
them finite; the code takes one above the highest.

### ActivityDays

`task` is a handler, a command or the midnight loop; all of them close the day
first. `counted` and `said` are history: what was written, with and without erased members.
`UserShown` and `PlaceShown` are the reads behind the statistics, a number or `n/d`.

### BanProjection and ModerationHistory

`BanProjection` is `project_actions` in full, as operators over a set of observations;
`ModerationHistory` stores observations from the four sources and projects them. A member is
banned as a script says; a synchronization goes through its stages page by page. `run` and
`cursors` survive a crash. What the logs tell has the time of the deed; a report of the gateway
has none, and `on_member_ban` dates it when its handler begins (`Stamp`, by `clock`), at once or
only after the correlation window, perhaps when the member was unbanned or banned again. It is
stored later still, in any order with the others (`LiveEvent`). `of` in a row is history: the deed
it reports, which only the properties read. The bot's clock and Discord's are one, and handlers of
the gateway's events begin in their order.

`ChartExact` is for the time when the audit log was read. No ban is missing and no two are taken for
one, however late reports are. Each is counted once, with its own evidence, if those of the
gateway that are stored were handled on time (`Prompt`): within the window and before the next deed.

### CustomCommands and CommandPager

`stored` is the command with its revision; threads, a cooldown command and a delete prompt
each hold the revision they read. `life` and `change` are history that tell a remade command
from an edited one. The erasure goes on to the data of the retired cog and a purge may be
under way. In `CommandPager` a click is a request whose answer comes in any order.

## Runs

| Run | Instance | Shows |
|---|---|---|
| `queue_kick` | one kick row, two tasks, the loop, 3 faults | at most one request; one holder per claim; true verdicts; the refinement |
| `queue_ban` | a ban behind a pipeline row, one task, the loop, 2 faults | a ban waits for its message; "ban" is recorded only of a banned member |
| `queue_final` | purge, review update, cleanup; one task, the loop, 2 faults; fairness | evidence goes after the final projection; every row settles |
| `case_roles` | two cases; two executors, or one and a resolver; no faults | sent decisions stand (`SentActionDecides`); every role put on comes off once, after the case (`RoleAccounted`), and by its own release, while a pending case keeps the member contained (`ContainmentHonest`) |
| `case_roles_faults` | one case, the same teams, 1 fault | `ContainedWithFaults`: containment (`ContainedWhilePending`), and a release before every closed case that owns the role (`ReleaseQueued`) |
| `revoked_action_sent` | one case, 1 fault | what the code does not keep, see below |
| `tickets` | direct, then automatic; two reviewers, 2 pings; a fault and a crash, or an uncertain fault and a deletion, or 2 deletions, or 2 erasures and a change of profile | `NothingForgotten` (up to date, no lost wake-up, nothing left behind), `SaidOnce` (one message, one ping), pings in turn and within the promise, the erased are not pinged |
| `tickets_progress` | one reviewer; a fault, and a crash or a deletion; fairness | `TicketMovesOn`: creations and cleanups end, routing goes on, the message converges |
| `honeypot` | `MCHoneypot`: two messages of a case, its posts, one member's incidents, the live rows of two members, two panels, three deferred messages; fairness for posts and backlog | `MessagesSettle`, `ShownAsRecorded`, `ThrownOutRightly`, `PunishedOnce`, `RolesStay`, `MoveInvisible` (refinement), `WorkEnds` (deletions and the queue end) |
| `nhmisc` | `MCNHMisc`: two users, two source messages, three handlers; one member's Gates; two achievements and two roles; a mirror of two members; fairness | `IncrementsHonest`, `AnnouncedRightly`, `RolesConverge`, `AnalyticsConverge` |
| `servers` | `MCServers`: three pages and four clicks; two edit threads; scripts of up to three bans and unbans, with reports of the gateway on time or late; two proxy sessions; three days with two members and two places | `NewestPageStays`, `StaleRefused`, `ErasedNotRestored`, `HistoryExact`, `SentAsAllowed`, `CountsExact` |
| `softban_charted` | a softban with a ModLog case, which audit log and gateway report too | what the code does not keep, see below |

A property with a broad name is the conjunction of those that the modules state:
`MessagesSettle` is `ProcessedIsSettled`, `NothingOutlivesTheCase` and `NothingDropped`;
`HistoryExact` is `ChartExact`, `NothingMissed` and `ActionsCurrent`; `CountsExact` is
`ClosedAsCounted`, `OpenDayAgrees` and `ReadingsHonest`; and so on, as the MC modules say.

Bounds of the queue, the cases and the tickets. Two tasks and the loop are all that can
contend for a row; a third would do what the second does. Three faults let a kick be
interrupted, taken over and interrupted again. The queue's rows of a case interact only
through the message's state and the final projection, so the rows are split over instances
by kind. Two cases are what an ownership can pass between; two messages open
both cases, or reopen one; two claims of a row are an attempt and its retry. A
batch of one or two makes both a full batch and a rest to be lost. Cases stop
after `MaxMessages`, so these runs do not check deadlock; `queue_kick` does
check it.

A ticket is independent of the others but for the scheduler, which serves the due
ones in a row and which a second ticket could only keep busy, so one ticket is
modelled. Two reviewers and the author make a first choice, a second and one who is
never asked; two message ids let a ticket be published twice. One fault and one
crash reach every retry and every recovery. What may happen in one behaviour is
chosen at its start (`limits`; `team` in `CaseRoles`), since faults, deletions and
erasures multiply if all of them may happen at once. Deadlock is not checked: a
ticket that is gone and bounds that are used up leave nothing to do.

Bounds of the others. Each module has a constant of *limits*: a set of records that say how
often each kind of trouble (a fault, a crash, an edit by hand, an erasure, a command) may
happen in one behaviour, of which `Init` chooses one. The MC modules list them: each record
has the one or two kinds that can meet in the code. Two actors of every sort (messages,
panels, sessions, handlers, moderators) are there because each property is about two; the
third handler of `GateIncrement` is the recovery. Message and page numbers, incidents and
generations have the maximum that lets the thing be made, lost and made again. Three days let a
day be closed, its summary pruned, and the day in between be left out. `DrainBatch` is one, so
that a message which always fails fills the batch. Two visits of a member do for kicks; under a ban
(`Paired`) four let him pass, come back and be away when his assignment is due. Unlike the limits, these bounds never
stop an action that the code would take in a state of these behaviours, except drawing another
id. Deadlock is not checked: a behaviour ends when everything has settled and its limits are used up.

Fairness of the queue (`FairSpec`): an executor that can go on does, the loop runs, claims go
stale and retries come due. asyncio schedules every runnable coroutine, the loop
is `tasks.loop`, and the last two are the clock. Nothing is assumed of tasks
that might claim a row, nor of a restart: `EveryRowSettles` excepts a loop that
has ended and a case under deletion.

Fairness of the tickets (`FairSpec`): the coroutine that has the lock and the
creation go on, the scheduler and the restoration run, time passes, Discord
delivers events, and the bot is started again after a crash. No button is pressed
of necessity and nothing has to fail. A creation whose channel was deleted while
nobody listened is retried for ever; no behaviour of `tickets_progress` has both.

Fairness of the others, always weak: a coroutine that has begun goes on (`Publishing`,
`Removing`, `Advance`, `Moderate`, `Listener`, `Synchronizing`, `Draining`); periodic work comes
again (`Daily`, `Reconcile`, the reconciliation of posts, the recovery of the start); the
clock moves (`ClaimAges`, `ComesDue`); and a bot that has ended is started (`Start`). It is
stated per handler, per desk and per message, since one that goes on says nothing of another. No
moderator, member or failure is obliged to do anything.

## What the code does not keep

Two runs expect a violation, and `PROJECT.json` quotes what they contradict:

- `revoked_action_sent`: `append_message` abandons a moderator's action that is
  pending or running, and not one that has failed and waits for its retry. The
  retry is sent while the case is pending again (`SentActionDecides` with a fault).
- `softban_charted`: the ModLog case of a softban is stored, and audit log and gateway both report
  its ban half, the gateway on time. Only the nearer of the two reports is taken into the softban's
  action (`SoftbanGroup`). The other one is projected, and charted, as a
  ban (`nhmoderation/README.md:40` says that softbans do not enter the chart).

The rest was met while modelling and is an exception that a property states (by a history
variable, a limit or an implication), or lies outside what is modelled.

*Cases.* A release row is created once per case and role: a case that got its role again after
it was taken back has no release left (`ReleaseQueued` excepts it). A crash between
`add_roles` and the record of ownership is noticed by the retry only if the case is still
pending by then (`RoleAccounted` is checked without faults).

*Evidence.* A message whose attachments fit may be refused as too large because another
reservation is settled later. *Publication.* A deletion that is planned from an older review message,
or while the endpoint's row does not have the message yet, leaves what it does not know
(`LatePublicationsRemoved` excepts it); a crash between a send and its record leaves a
duplicate that nobody lists (`lost`).

*Tickets.* A direct reviewer who declines before he is pinged is excluded, and the due ping
ends the routing instead of starting the automatic one (`githubtickets/README.md:72`).
`PingedOnce` holds while the process does not end between a ping and its acknowledgement: the
reservation is the only trace of the ping, and a claim clears it. `PublishedOnce` holds if no
ticket is created during the restoration, which does not take `create_ticket`'s part. A ping
that arrived although its request failed is sent again (`limits.ambiguous`).

*JoinWatch.* Attempts are given back on a rejoin (`honeypot/README.md:184` says they are
preserved); an assignment of the incident that was left when the member passed makes a new
restriction of it (`passed` counts incidents without one); a role removal that is noticed late ends a newer
incident; an absent member may be banned twice. A member who passed, but whose role could not be
lifted, and who comes back, gets the saved incident as an assignment; when he leaves again
before it is due, the timer bans him under "ban": it looks at `release_pending` in restrictions
only (`joinwatch.py:454`, `joinwatch_state.py:617`). `PassedIsNotThrownOut` excepts this ban. A
punishment whose request failed although it took effect is tried again and not counted in
`thrown`, which counts what the code has seen or what a crash cut off.

*Manual punishments.* With an old member cache the case that owns the role takes it from the
moderator's member (`lags` and `cases` are not in one vector); so it does after a crash
between `add_roles` and the handing over. An ambiguous failure to delete the message leaves it
deleted, the audit failed and nobody punished.

*Deferred messages.* A message whose channel is gone is retried for fourteen days; one whose
row was not written when the process ended is lost; content that goes and comes back while
`on_message` runs is not noticed; a NotFound that `on_message` lets through is
taken for the message's own.

*Increments, roles, achievements.* A failed delivery, or a handler that gives way, leaves the
announcement to the next restart or click; leases have no expiry, which only the recovery of the
start makes good. A revocation after a failed grant takes the role of another award; two full-set
edits from one cached member undo each other, until the reconciliation.

*Bot proxy.* A preset that was deleted and made again under the same revision is not told apart;
confirming again publishes again; what is typed during a preview is lost.

*Role analytics.* If `delete_inactive_generations` fails after the activation, `sync_guild`
discards the rows of the generation that it has just activated; the retry repairs it, and
until then the status is not "ready".

*Activity.* A message is counted for the day at which its handler began, although that day may
have been closed while it waited: the open day goes back, and the next closing overwrites the
summary with the late messages only (`late` excepts those days). Detail rows that a longer
retention, set later, asks for, are shown as `0` instead of `n/d` when their day has a summary
(`ReadingsHonest` speaks of the shortest retention so far; `nhmisc/README.md:558` distinguishes
the two). A report that Discord refuses is not posted again.

*Moderation history.* A crash between `_delete_user_sync` and the projection leaves erased ids
in it until the next one; rows of an erased member no longer match, so that one ban may be
charted more than once; a sync in flight may write rows after an erasure or a departure; edits
of the modlog are not read again. `on_member_ban` and `on_member_unban` date a report of the
gateway by the bot's clock when they begin (`nhmoderation.py:420`, `:445`): one that comes more
than `CORRELATION_WINDOW` late, or after the member was unbanned or banned again, fits no other
evidence and is charted as a further ban, or parts others' (`ChartExact` without `Prompt` is
violated by `MCServers`).

*Custom commands.* A command that was deleted and made again begins with revision one, so that
an old draft may overwrite it, and bring back to its access list an account that was erased from
it since; a new draft, too, may name an account that was erased while the command did not exist;
"Cancelled" may be shown while a save goes on; a message that is
added during a save is shown as saved and is not; a write of legacy data that was computed before
a purge restores it.

## Proofs

### The queue

`OperationQueueProofs` proves, for every set of rows and kinds, every number of
tasks and every bound, that `Spec` implies `[]TypeOK` (`TypeCorrect`),
`[]KickAtMostOnce` (`KickOnce`), `[]OneLeaseHolder` (`LeaseHeldOnce`),
`[]ResultTruthful` (`ResultsTrue`), `[]CleanupAfterProjection` (`CleanupLast`) and
the refinement of `PunishmentPromise`, `KeepsPromise` (`KicksKeepPromise`). The
assumptions are those of the module: finitely many rows, `NoOp` and `Loop`
distinct from rows and tasks, natural bounds.

None of the properties is inductive. An executor that passed the marker
check long ago may still be about to send, and nothing in `KickAtMostOnce` says
that nobody else is. The invariant `KickInv` adds what the code relies on:

- `Bound`: whoever acts holds a row and a token;
- `Issued` and `Distinct`: tokens come from one counter and no two executors or
  waiting batch entries hold the same one;
- `Marked`: a request is preceded by the marker; an executor that read "no marker"
  and still holds the row's claim may rely on it; at most one executor stands
  before the request of a row.

Most actions change neither the row's marker, its claim nor the number of
requests; `QuietStep`, `QuietMove`, `QuietReport` and `QuietGoto` deal with them
once. Claims (`ClaimStep`, `BatchStep`, `TakeStep`), the marker
(`StartEffectStep`) and the request (`SendStep`) have a lemma each; `StepInv`
puts them together.

A verdict is decided several awaits before it is written. `ResultInv` (proved as
`ResultInvariance`) adds to `KickInv` that every executor is `Honest`: a marker that
was seen is there, an outcome that is about to be written has happened, and "not
sent" is true for as long as the executor holds the row's claim, which is also
the condition under which it can be written. `Recorded` says the same of a settled row: a row that
says that nothing was sent is `Unsent`, with nobody left who could still send.
`KicksKeepPromise` follows with `ResultInv` step by step: each action arms, issues or decides
one kick, or leaves all of them alone. `CleanupInv` extends the condition under
which a cleanup is claimed to those who hold or carry the claim of one.

### Cases and roles

`CaseRolesProofs` proves, for any number of cases, executors, resolvers, messages and
faults, that `Spec` implies `[]TypeOK` (`TypeCorrect`), `ContainmentHonest`
(`ContainmentKept`) and `ContainedWithFaults` (`ContainedDespiteFaults`). It assumes that
`NoCase` is not a case, that resolvers differ from the other names of holders, and
natural bounds.

That a release removes the role of a pending case takes several actors: an apply that comes
late, a resolver that read the ownership before another case got it, and a release that
is still queued. `RoleInv` (`RoleInvariance`) is inductive:

- `Bound`, with `Placed`: an executor acts on rows that exist, at a stage of its kind, and
  an idle one remembers nothing;
- `Locked`: one executor is inside the member's lock, and one that removes the role does it
  for its owner;
- `Reviewed`: a case with a release is decided (`Past`), or was taken back once;
- `Snapshots`: a resolver that still has its lease read an ownership that is still true;
- `Queued`, with `Timely`: a closed case that owns the role has a release, which
  is not done before the ownership is.

The second half of `CaseRolesProofs` proves what is true until a request fails or the process ends:
`[](faults = 0 => SentActionDecides)` (`SentActionKeepsCase`) and
`[](faults = 0 => RoleAccounted)` (`RoleKeptTrackOf`). The condition is not a convenience:
`revoked_action_sent` shows the first without it false, and a crash between `add_roles` and its
record does so for the second. `case_roles` checks both properties with
`MaxFaults = 0`. `ActionHolds` says that a ban or kick that waits, runs or may have been sent
holds its case. `NoFaultInv` adds to `RoleInv` that claims are what they seem
(`ClaimsKept`: each is carried by its row, by one executor at a time), that a case comes to
own the role by its one apply only (`OwnedOnce`), and that a role which was put on is owned,
flagged, or about to be (`Accounted`).

### Tickets

`TicketsProofs` proves, for every set of users and messages, every set of requests,
`MaxPings` and `Limits`, that `Spec` implies `[]TypeOK` (`TypeCorrect`), `PingsInTurn`
(`PingedInTurn`) and `ErasedNotPinged` (`ErasedLeftAlone`). It assumes what the
modules do: the author is a user, `NoUser`, `NoMessage` and `NoTicket` are not among
users, messages and tickets, and no ticket is requested with its author as direct reviewer.

A ping is sent several awaits after the reviewer was chosen and the protection was
read, so the two action properties need what the row still says at that step. The
inductive invariant `IInv` adds to the types:

- `Sound`: neither the reservation nor the direct reviewer is the author or somebody
  who was erased; a ticket that is not published has no reservation;
- `UsersOK`: nobody erased can be selected again;
- `CreatedOnce`: no row and no handler before the creation, no erasure during it;
- `InTurn`: while a handler stands between the check of the protection and the ping,
  the row is open and unprotected and, from the reservation on, has one, or is gone
  (the deletion of a channel does not take the lock).

Every transaction of `TicketStore` has a lemma that it keeps a row `Sound` (`Field` is
the base: one written column keeps a row a row), so the lemmas on actions
(`PublicationKeeps`, `DeletionKeeps`, `RecoveryKeeps`, `RoutingKeeps`, `ServingKeeps`,
`WorldKeeps`) only follow the handlers. `PingStep` then shows that `PingReviewer` alone
sends pings, and what held when it did.

From there the module goes on and proves the refinement `KeepsReviewPromise`
(`TicketKeepsPromise`), `PingNotRepeated` (`PingSentOnce`) and, with a condition,
`SaidOnce` (`NothingSaidTwice`). `ReviewInv` is inductive beside `IInv`:

- `Turn`: the handler that routes does so for a ping that is due and within the budget, and
  the row is `Routed`: its reservation is for somebody who has not been asked or
  excluded, and no more users were asked than pings counted;
- `Traced`: a ping that was delivered for the reservation is known in memory
  (`sent`), or will be looked for in the thread before anybody is pinged;
- `Heard`: without faults or crashes, whoever heard of the ticket did so once and is recorded,
  or is being recorded, as asked.

Most steps are `Plain`: they write columns that the promise does not speak of, or finish
the row, and ping nobody. The lemmas on the handlers show which are; reservation, ping,
acknowledgement, timeout, decline, claim, unassignment and erasure each have a lemma of their
own. (`SameCount` says that the `Cardinality` of the instantiated promise is that of the
module; for the prover they are two symbols.)

`NothingSaidTwice` is `[](~limits.overlap => SaidOnce)`: `create_ticket` takes no lock of the
ticket's, so a creation during the restoration may publish twice, as noted above.
`PublishedInv` is the reason why no other interleaving does: a creation runs beside no other
handler (`MadeAlone`), and a message is sent only where there is none (`OneMessage`).

`TicketsKept` proves `NothingForgotten` (`NothingLost`), each conjunct for as many limits as it
holds of:

- `NoLostWakeup`, for every limits. `WakeInv`: a row has a deadline exactly when it has
  something due (`Timed`), and a scheduler that waits without being woken has nothing to wait
  for, unless the update that follows an erasure will still wake it (`Awake`).
- `InSync`, unless a creation runs beside the restoration. `ShownInv`: the message shows
  the assignee or the row owes an update, also between an edit and its acknowledgement; and
  whatever is not published yet has no assignee (`Current`).
- `NothingLeftBehind`, where `Keeps(limits)`. `KeptInv` says who knows of a message or a
  thread at each step of the creation (`Noted`), of a deletion (`Listed`) and of a recovery
  (`Resumable`): the job that has just made it or the row, so that the row is deleted only when
  nothing is left. While nobody deletes anything in Discord, the creation is `Undisturbed`.

`Keeps` excludes what the code does leave behind; TLC finds each with one misfortune
of each kind, beside the overlap above:

- a process end and an erasure: a creation ends between sending its message and recording
  it; the erasure of its author deletes the row, which has no id of the message, before the
  restoration has searched for it;
- a moderator's deletion and a failure or a process end: he deletes the message
  while its thread is being created, the handler of the event deletes the row, and the creation,
  which would have deleted its thread, fails to or ends with the process.

So `NothingLeftBehind` is proved for any number of faults and crashes without erasures or
deletions, of faults and erasures without crashes or deletions, and of deletions and erasures
without faults or crashes.

### JoinWatch: incidents

`JoinWatchProofs` proves, for every guild setting and any numbers of incidents, sessions, retries
and events, that `WatchSpec` implies `[]WatchTypeOK` (`WatchTypes`) and `[]ThrownOutRightly`
(`ThrownOutOnlyRightly`). It assumes what the module does: natural bounds, and settings that are
a delay, a CAPTCHA and one of the three actions.

`ThrownOutRightly` speaks of a counter; what protects the member is spread over two rows, a
selection that was read without the lock, a copy in the hand of its holder and a plan in
memory. The conjuncts of `JoinInv` say what each of these may still be:

- `HolderFits`: what the holder of the lock works on is what is stored. Who punishes has
  written `started` before; who adds a role has a ready assignment and the member has no role.
- `KickedIsSpent`: when an incident has kicked, every row and copy of it is ended, started or
  gone, so `settle_history` and not the action is what comes of it. `BannedIsOut` is its
  counterpart for bans: the member is barred and away, and a ban of him throws nobody out.
- `TwinsTogether`, with `SelectedWasDue`: an assignment and a restriction of the same incident
  may both stand for a while. While the role is on, such an assignment is due and was selected
  with the restriction, and the timer handles assignments first; without this the
  restriction could kick and the assignment then make a new one that kicks again.
- `PassedWaits`: a passed incident waits for its release wherever it is stored, also
  in the copy that is being worked on; so no punishment of its restriction begins.
- `PlanApart`, `EnrolmentsApart`, `Numbered`: a plan is of an incident of its own, only waves
  and tests enrol, and every id that is stored was drawn.
- `AssignedHaveCaptcha`, `KicksAreLate`, `RoleIsHeld`, `NeverUnasked`: what the guild's settings
  exclude.

Every action has a lemma that the types are kept and one that `JoinInv` is (`JoinInvKept` puts
them together); `Wane` says what marking, finishing and retrying may take from a row, so that the lemmas
about rows are about one relation. The search for the invariant showed that the property had been too
strong: with two more visits than the run then had, TLC found the ban that is described
among the deviations, which the code does. The property was corrected and the run given the visits.

### JoinWatch: live rows

`JoinWatchProofs` also proves, for every set of kinds, members and payloads, that `LiveSpec` implies
`[]Inv` (`LiveInvariant`) and the refinement `MoveInvisible` (`LiveKeepsPromise`): the
abstract `LiveRows` is implemented by the two stores. The assumption is that of the module:
`Missing` and `NoCopy` are not contents. The types are not enough: the step that drops the
marker at the end of an export or a restore changes the table a reader sees, unless every kind
that is not on the list any more has been written, and the rows being moved are those behind
the marker or in the backup. That is `MovedBack`. `StepPromise` has one step per action, each of
which is a `Put`, a `Discard`, a `Save`, a `GoBack` or a stutter of `LiveRows`.

### Custom commands and the pager

`CustomCommandsProofs` proves, for any threads, responses, page length and limits, that
`CommandSpec` implies `[]CommandTypeOK` (`CommandTypes`), `StaleRefused` (`StaleOnesRefused`) and
`ErasedNotRestored` (`ErasedForGood`); and for any number of pages and clicks that `Spec` implies
`[]NewestPageStays` (`PagerSettles`). It assumes natural bounds and pages of at least one response.

The last two properties of commands are about steps, and compare a revision although the
truth is about changes. `Known` bridges them: what anybody has read of the present life of
a command is exactly as many changes behind as it is revisions behind, whoever made them, so the
current revision is the last change (`CurrentFresh`). `Forgets` adds that a draft that has read the
erasure names the account neither in what it shows nor in what it has sent to be saved: an
erasure that did not advance the revision would leave drafts that name it current. `StepKinds` says
that only a save, a cooldown, a confirmed prompt and an erasure touch the catalog. `Usable`, that
a selected response exists and is on the page that is shown, needs what moving and removing
do to the length of a sequence (`Removed`, `Inserted`, `MovedKeeps`); every step of a draft goes by
`Showing` or `PageSet` (`ShowingRedrafts`, `PageSetRedrafts`).

The proof corrected the model: an erasure that failed half-way let a modal name the account
again although it is gone (`EraseFails` is now `"failed"`, not `"none"`), and it showed that
an erased account does come back with a draft from an earlier life of the command, which
`ErasedNotRestored` excepts.

The invariant of the pager adds that the record of what was accepted is the newest of what
Discord shows, that requests belong to turns, and that the view shows the accepted page when
nothing is under way.

### Manual punishments

`HoneypotProofs` proves, for any panels, roles, channels and bounds, that `ManualSpec`
implies `[]ManualTypeOK` (`TypeCorrect`), `[]PunishedOnce` (`PunishedByOne`) and `[]OffersFit`
(`MenuFits`), and that `Prompt /\ ManualSpec` implies `[]RolesStay` (`GivenRolesStay`). It
assumes finitely many roles (the menus count them), natural bounds, and names distinct from
what they name the absence of.

- *One punishment.* Two panels may read that the message is still there; only the one whose request
  deletes it goes on. `AuditInv` says that a panel past its deletion is alone in that
  (`Alone`), that the message is gone by then and the panel has no results before, and that its
  audit was posted, with the files it asked for, on the way (`Audited`).
- *Roles.* `RoleInv`: results and marks change between the marking of the roles and the handover
  only, under the lock (`Locked`); what a panel gave is on the member, no case owns it, unless the
  panel that holds the lock is just taking it over, and JoinWatch keeps it for a manual reason
  (`Guarded`).
- *Menus.* A command computes its map from the stored one at one time and stores it at another, so
  that the maps that wait to be stored must fit as well (`OffersInv`).

`Prompt` names the condition under which a given role stays: the member cache follows Discord at
once, or no case, no JoinWatch row and no person takes roles from this member. It is needed:
TLC finds `ManualRoleStays` violated with one late cache update and one case, when the case takes its
role off, the cache still shows it, and the panel records the role as already applied without
giving it. The bounds of the run keep to `Prompt`.

### Posts of a case

`HoneypotProofs` proves, for any number of messages and any limits, that `PostSpec` implies
`[]PostTypeOK` (`PostTypes`) and `[]ShownAsRecorded` (`PostsShown`). It assumes natural bounds.

The property speaks of the moments when the publisher rests; `PostInv` says what holds at
every step of it.

- *One summary, one page.* Whatever is on Discord is the message of the row, is listed for removal
  (orphans, targets of the job, what Discord lost), or is what the publisher has just
  sent (`InHand`), who then records it or removes it (`SummaryKnown`, `PageKnown`). Of a page
  whose claim is taken it says that the one that may be replaced is gone, listed or in another
  thread (`PageFits`). What the publisher remembers over its awaits must still be so
  (`TurnFits`): the summary it works on is the case's, and a summary it is about to record has no
  thread yet.
- *Nothing of a deleted case.* While nothing was compensated, lost or replaced (`Untroubled`),
  nothing is listed (`NothingAstray`), and the only summary is the one that the job will
  remove (`OneAnchor`); its thread holds every page (`PagesInThreads`). So removing the summary and
  its thread removes everything, and what is sent later is still in hand (`ClearedIsEmpty`). The
  job does nothing before it is planned (`JobFits`).

### Messages and their evidence

`HoneypotProofs` proves, for any messages, slots, files, batches and limits, that `PipelineSpec`
implies `[](EvidenceTypeOK /\ BacklogTypeOK)` (`MessageTypes`) and `[]MessagesSettle`
(`MessagesSettled`). It assumes that the messages of a case are numbered from 1, natural sizes
and bounds, and that slots, files and batches are at least one.

- *Processed is settled.* Every write of an attachment's row either leaves its outcome or gives it
  one (`OutcomesStay`: `Recording`, `Failing`, `Cancelling`), until the case is erased; and
  `Downloaded`, a download that has ended has an outcome, is what makes the failing ones so.
- *Nothing outlives the case.* The deletion is planned while it holds every slot, so no capture is
  then past the check of the case, and none passes it later (`Barred`), even when
  the process ends and the barrier with it: a file is written only past that check. So what the
  deletion has recorded as removed stays removed (`Emptied`).
- *Nothing dropped.* The drain forgets a row that was settled before (`Answered`), and a row is in
  one place only, due or not (`Apart`), so that forgetting it there forgets it everywhere and
  nothing else (`Remainder`).

### Gate increments

`GateIncrementProofs` proves, for any finite sets of users and messages, any handlers, highest tier
and bounds, that `Spec` implies `[]TypeOK` (`TypeCorrect`), `[]IncrementsHonest` (`Honest`) and
the action property `CongratulationEarned` (`Congratulated`), the safety half of `AnnouncedRightly`.

A plan is made, confirmed by a moderator and claimed in a transaction later; between, other
handlers may have claimed for the same users. What `IInv` says of every user whom nobody else
changed (`Progress`): the ordinals of his active awards are 1 to n; at most one more award is
pending, with ordinal n + 1, and its row has that target; his role is that of tier n, or that of
n + 1 when the pending row was begun. Of a handler it says

- `Planned`: the plan it confirms goes one tier beyond what was active when it was made, and that
  only grows: a plan that agrees with the awards at the claim finds none pending and is up to date;
- `Worked`: from the lease to the end it has the lease of its message and one user in hand, whose
  row is in progress; an edit it took for done has been done. So two handlers never have the same
  user in hand (`OneAtWork`), or he would have two pending awards;
- `Publishing`: it has the publication; if no row was completed since it read the lines, they are
  all there is, and the count it will record is the one it read;

and of a message, that its counts are never ahead of its rows (`Told`). A publication that read
before another row was completed records a count that is too low, which leaves the message
`Behind`; one too high would leave somebody out for good.

`NextOrdinal`, the `CHOOSE` of `gate_increment_store.py`'s free number, needs a least element
and counting: `NextFree` (from the well-founded order of the naturals) says that a finite set
leaves an ordinal free with all below it used, `NextAfter` that after 1 to n comes n + 1. Users whose
roles somebody else changed, or who were erased, are in `moved` and excepted, as in the
properties; each action has a lemma (`ClaimKeeps`, `MarkKeeps`, ...), and `LeaseSteps`, `RowSteps`,
`PublicationSteps` and `MovedSteps` say once what steps of a kind leave alone.

### Only model-checked

- Liveness under fairness (`EveryRowSettles`, `TicketMovesOn`, `WorkEnds`, `AnnouncedRightly`,
  `RolesConverge`, `AnalyticsConverge`): out of the prover's reach.
- The properties of the proxy and of activity, which `MCServers` states of the modules it
  instantiates.
- Those of `ModerationHistory`, whose projection is defined by folds over data.

## Plan

1. *Done*: the operation queue with its promise and proofs of both; cases and roles with the
   proofs of their safety; the tickets with their promise and proofs of both; evidence, publication and
   deletion of a case with the proofs of their safety; JoinWatch's incidents and live rows with the proofs of their safety;
   manual punishments and Gate increments with the proofs of their safety; deferred messages with
   theirs; Gate roles, achievements, the proxy, role analytics, activity; moderation history; custom commands and
   the pager with the proofs of their safety.
2. Left to model: the admission of a message and the retry row of a source deletion
   (`message_process.py:332`), so that `CaseEvidence` creates the rows that `OperationQueue`
   starts from; captcha challenges; JoinWatch's waves and dashboards; compaction of closed
   cases; the finished import of custom commands.
3. Left to check: tickets with a crash and an erasure, or with a deletion and a fault or crash,
   where `NothingLeftBehind` needs an exception for what stays behind (see the proofs of the
   tickets); manual punishments with a late cache beside a case.
4. Left to prove: the safety of the proxy (`SentAsAllowed`).

## Not modelled

Image and GIF detection, hashing, decoding and remote media are data processing outside
TLC's reach. Rendering, texts, charts, exports and commands that only read or set a value have
no behaviour worth a model. The message registry, the log buffer and the error reporter
are data structures of one task. Captcha's challenge is an in-memory value with a timeout;
`JoinWatch` has the sessions and answers around it. JoinWatch's waves are sliding windows that
end in the enrolments that `JoinWatch` has. Sticky roles, autopins and the voice log are
independent event handlers without state that must agree with anything else.
