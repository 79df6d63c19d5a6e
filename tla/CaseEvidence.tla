---------------------------- MODULE CaseEvidence ----------------------------
(***************************************************************************)
(* Evidence of a detection case (operations/message_process.py and         *)
(* review_publication.py over detection_cases.py): the attachments of a    *)
(* suspicious message are downloaded under a reservation of bytes before   *)
(* the message itself is deleted, in a limited number of slots, which the  *)
(* deletion of a case takes all of before it removes the files.            *)
(*                                                                         *)
(* One case whose messages have one attachment each.  A token belongs to   *)
(* the running download of its message, or to one that is "dead".          *)
(***************************************************************************)
EXTENDS Naturals, FiniteSets, FiniteSetsExt

CONSTANTS
    Message,            \* messages of the case, 1..n in the order they come
    Size,               \* declared size of each one's attachment
    Slots,              \* DETECTION_CAPTURE_CONCURRENCY
    MaxFiles,           \* files of one message that may lie on the disk
    EvidenceLimits      \* what may happen of faults, crashes, closings, deletions

ASSUME EvidenceAssumption ==
    /\ Message \subseteq Nat \ {0} /\ 1 \in Message
    /\ Size \in [Message -> Nat] /\ Slots \in Nat \ {0} /\ MaxFiles \in Nat \ {0}
    /\ EvidenceLimits \subseteq [{"faults", "crashes", "closings", "deletions"} -> Nat]

VARIABLES
    appended,       \* messages the case has
    sources,        \* messages that are on Discord
    closed,         \* the case is resolved or expired
    deletion,       \* its deletion: the step, and the parts that are recorded
    evidence,       \* detection_attachments: status and path
    reservation,    \* detection_evidence_reservations
    files,          \* files below the case's evidence root
    capture,        \* the running _capture_case_attachments of a message
    handler,        \* the running message_process_handler of a message
    larger,         \* messages whose attachment is larger than it says
    risks           \* what may still happen

evidenceDb == <<appended, closed, evidence, reservation>>
evidenceVars == <<appended, sources, closed, deletion, evidence, reservation, files, capture,
                  handler, larger, risks>>

NoFile == <<0, 0>>
File == Message \X (1..MaxFiles)
Deletion == [step : {"none", "later", "barrier", "files", "rows", "done"}, planned : BOOLEAN,
             local : BOOLEAN, rows : BOOLEAN]
Attachment == [status : {"pending", "captured", "failed", "too_large"}, file : File \cup {NoFile}]
Reservation == [state : {"pending", "claimed", "captured", "too_large"},
                owner : {"none", "task", "dead"}, stale : BOOLEAN]
Capture(budget) ==
    [step : {"none", "queued", "entered", "checked", "reserving", "reading", "saving", "ended"},
     budget : {budget}, got : {"none", "file", "too_large", "failed"}, file : File \cup {NoFile},
     started : BOOLEAN]
Handler == [step : {"idle", "fetch", "start", "stop", "contain", "await", "done"}, live : BOOLEAN,
            again : BOOLEAN]

NoCapture == [step |-> "none", budget |-> 0, got |-> "none", file |-> NoFile, started |-> FALSE]
NoHandler == [step |-> "idle", live |-> FALSE, again |-> FALSE]
NoReservation == [state |-> "pending", owner |-> "none", stale |-> FALSE]

Inside(m) == capture[m].step \in {"entered", "checked", "reserving", "reading", "saving"}
Accepts == ~closed /\ ~deletion.planned /\ ~deletion.rows
Terminal(m) == evidence[m].status # "pending"
Declared == MapThenSumSet(LAMBDA m : Size[m], appended)
Active(but) == MapThenSumSet(LAMBDA m : Size[m],
                 {m \in appended \ but : reservation[m].state \in {"claimed", "captured"}})

Risk(what) == risks[what] > 0 /\ risks' = [risks EXCEPT ![what] = @ - 1]
CaptureAt(m, s) == capture' = [capture EXCEPT ![m].step = s]
Goes(m, s) == handler' = [handler EXCEPT ![m].step = s]
Reserved(m, s, owner) ==
    reservation' = [reservation EXCEPT ![m] = [state |-> s, owner |-> owner, stale |-> FALSE]]
Recorded(m, s, file) == evidence' = [evidence EXCEPT ![m] = [status |-> s, file |-> file]]

EvidenceInit ==
    /\ appended = {1} /\ sources = Message /\ closed = FALSE
    /\ deletion = [step |-> "none", planned |-> FALSE, local |-> FALSE, rows |-> FALSE]
    /\ evidence = [m \in Message |-> [status |-> "pending", file |-> NoFile]]
    /\ reservation = [m \in Message |-> NoReservation]
    /\ files = {} /\ larger = {}
    /\ capture = [m \in Message |-> NoCapture]
    /\ handler = [m \in Message |-> NoHandler]
    /\ risks \in EvidenceLimits

AppendMessage(m) ==
    /\ Accepts /\ m \notin appended /\ m - 1 \in appended
    /\ appended' = appended \cup {m}
    /\ UNCHANGED <<sources, closed, deletion, evidence, reservation, files, capture, handler,
                   larger, risks>>

CloseCase ==
    /\ Risk("closings") /\ closed' = TRUE
    /\ UNCHANGED <<appended, sources, deletion, evidence, reservation, files, capture, handler,
                   larger>>

----------------------------------------------------------------------------
(* A capture: _capture_case_attachments.                                    *)
BarrierHeld == deletion.step \in {"barrier", "files", "rows"}

EnterSlot(m) ==
    /\ capture[m].step = "queued" /\ ~BarrierHeld
    /\ Cardinality({n \in Message : Inside(n)}) < Slots
    /\ CaptureAt(m, "entered")
    /\ UNCHANGED <<evidenceDb, sources, deletion, files, handler, larger, risks>>

CheckCase(m) ==
    /\ capture[m].step = "entered"
    /\ CaptureAt(m, IF Accepts THEN "checked" ELSE "ended")
    /\ UNCHANGED <<evidenceDb, sources, deletion, files, handler, larger, risks>>

\* The budget of the case is what its messages declare now.
ReadBudget(m) ==
    /\ capture[m].step = "checked"
    /\ IF deletion.rows THEN CaptureAt(m, "ended")
       ELSE capture' = [capture EXCEPT ![m].step = "reserving", ![m].budget = Declared]
    /\ UNCHANGED <<evidenceDb, sources, deletion, files, handler, larger, risks>>

\* reserve_attachment_capture, and the event that tells the handler.
Starts(m, s) == capture' = [capture EXCEPT ![m].step = s, ![m].started = TRUE]

Unavailable(m) ==
    \/ ~Accepts
    \/ reservation[m].state = "claimed" /\ ~reservation[m].stale
    \/ reservation[m].state \in {"captured", "too_large"}

Reserve(m) ==
    /\ capture[m].step = "reserving"
    /\ \/ Unavailable(m) /\ Starts(m, "ended") /\ UNCHANGED <<evidence, reservation>>
       \/ /\ ~Unavailable(m) /\ Active({m}) + Size[m] > capture[m].budget
          /\ Reserved(m, "too_large", "none") /\ Recorded(m, "too_large", NoFile)
          /\ Starts(m, "ended")
       \/ /\ ~Unavailable(m) /\ Active({m}) + Size[m] <= capture[m].budget
          /\ Reserved(m, "claimed", "task") /\ Starts(m, "reading") /\ UNCHANGED evidence
    /\ UNCHANGED <<appended, closed, sources, deletion, files, handler, larger, risks>>

\* The bounded download ends: in a file of its own attempt, or in a refusal or failure.
Download(m, got, k) ==
    /\ capture[m].step = "reading"
    /\ got = "file" => /\ m \notin larger /\ <<m, k>> \notin files
                       /\ \A j \in 1..(k - 1) : <<m, j>> \in files
    /\ got # "file" => k = 1
    /\ capture' = [capture EXCEPT ![m].step = "saving", ![m].got = got,
                                  ![m].file = IF got = "file" THEN <<m, k>> ELSE NoFile]
    /\ files' = IF got = "file" THEN files \cup {<<m, k>>} ELSE files
    /\ larger' = IF got = "too_large" THEN larger \cup {m} ELSE larger
    /\ IF got = "file" THEN UNCHANGED risks ELSE Risk("faults")
    /\ UNCHANGED <<evidenceDb, sources, deletion, handler>>

\* complete_attachment_capture, whose refusals discard the file, or release_attachment_capture.
Owned(m) == reservation[m].owner = "task"

SettleFile(m) ==
    /\ capture[m].step = "saving" /\ capture[m].got = "file"
    /\ \/ ~Owned(m) /\ UNCHANGED <<evidence, reservation>> /\ files' = files \ {capture[m].file}
       \/ /\ Owned(m) /\ ~Accepts
          /\ Reserved(m, "pending", "none") /\ UNCHANGED evidence
          /\ files' = files \ {capture[m].file}
       \/ /\ Owned(m) /\ Accepts /\ Active({m}) + Size[m] > capture[m].budget
          /\ Reserved(m, "too_large", "none") /\ Recorded(m, "too_large", NoFile)
          /\ files' = files \ {capture[m].file}
       \/ /\ Owned(m) /\ Accepts /\ Active({m}) + Size[m] <= capture[m].budget
          /\ Reserved(m, "captured", "none") /\ Recorded(m, "captured", capture[m].file)
          /\ UNCHANGED files
    /\ CaptureAt(m, "ended")
    /\ UNCHANGED <<appended, closed, sources, deletion, handler, larger, risks>>

SettleFailure(m) ==
    /\ capture[m].step = "saving" /\ capture[m].got # "file"
    /\ IF Owned(m) THEN Reserved(m, "pending", "none") /\ Recorded(m, capture[m].got, NoFile)
       ELSE UNCHANGED <<evidence, reservation>>
    /\ CaptureAt(m, "ended")
    /\ UNCHANGED <<appended, closed, sources, deletion, files, handler, larger, risks>>

\* A cancelled download is released as failed; one that is being recorded leaves its claim
\* and its file behind.
Cancelled(m) ==
    CASE capture[m].step = "reading" /\ Owned(m) ->
           Reserved(m, "pending", "none") /\ Recorded(m, "failed", NoFile)
      [] capture[m].step = "saving" /\ Owned(m) ->
           Reserved(m, "claimed", "dead") /\ UNCHANGED evidence
      [] OTHER -> UNCHANGED <<evidence, reservation>>

----------------------------------------------------------------------------
(* message_process_handler.  fail_pending_attachment_captures takes every    *)
(* claim, or only those whose holder has had its time.                       *)
FailPending(m, abandonedOnly) ==
    LET live == abandonedOnly /\ reservation[m].state = "claimed" /\ ~reservation[m].stale
    IN /\ evidence' = IF Terminal(m) \/ live \/ deletion.rows THEN evidence
                      ELSE [evidence EXCEPT ![m].status = "failed"]
       /\ reservation' = IF reservation[m].state # "claimed" \/ live \/ deletion.rows
                         THEN reservation ELSE [reservation EXCEPT ![m] = NoReservation]

Begin(m) ==
    /\ handler[m].step = "idle" /\ m \in appended
    /\ IF deletion.rows THEN Goes(m, "done") /\ UNCHANGED <<evidence, reservation>>
       ELSE IF closed THEN Goes(m, "done") /\ FailPending(m, FALSE)
       ELSE Goes(m, "fetch") /\ UNCHANGED <<evidence, reservation>>
    /\ UNCHANGED <<appended, closed, sources, deletion, files, capture, larger, risks>>

\* The snapshot is the one of the operation, and the message is fetched.
Launch(m) ==
    /\ handler[m].step = "fetch"
    /\ LET live == m \in sources
           starts == live /\ ~Terminal(m)
       IN /\ handler' = [handler EXCEPT ![m] =
                [step |-> IF starts THEN "start" ELSE "contain", live |-> live, again |-> FALSE]]
          /\ capture' = [capture EXCEPT ![m] =
                IF starts THEN [NoCapture EXCEPT !.step = "queued"] ELSE NoCapture]
    /\ UNCHANGED <<evidenceDb, sources, deletion, files, larger, risks>>

Started(m) ==
    /\ handler[m].step = "start" /\ capture[m].started
    /\ Goes(m, "contain")
    /\ UNCHANGED <<evidenceDb, sources, deletion, files, capture, larger, risks>>

\* The capture has not begun within a second, or ended before: it is launched once more,
\* then given up.
LaunchAgain(m) ==
    /\ handler[m].step = "start" /\ ~capture[m].started /\ ~handler[m].again
    /\ handler' = [handler EXCEPT ![m].again = TRUE]
    /\ capture' = [capture EXCEPT ![m] = IF Terminal(m) THEN NoCapture
                                         ELSE [NoCapture EXCEPT !.step = "queued"]]
    /\ Cancelled(m)
    /\ UNCHANGED <<appended, closed, sources, deletion, files, larger, risks>>

GiveUpStart(m) ==
    /\ handler[m].step = "start" /\ ~capture[m].started /\ handler[m].again
    /\ FailPending(m, FALSE) /\ Goes(m, "stop")
    /\ UNCHANGED <<appended, closed, sources, deletion, files, capture, larger, risks>>

StopCapture(m) ==
    /\ handler[m].step = "stop"
    /\ Cancelled(m) /\ capture' = [capture EXCEPT ![m] = NoCapture]
    /\ files' = IF capture[m].step = "reading" THEN files \ {capture[m].file} ELSE files
    /\ Goes(m, "contain")
    /\ UNCHANGED <<appended, closed, sources, deletion, larger, risks>>

\* The source message is deleted; a refusal is left to a retry row.
Contain(m) ==
    /\ handler[m].step = "contain" /\ Goes(m, "await")
    /\ IF ~handler[m].live THEN UNCHANGED <<sources, risks>>
       ELSE \/ sources' = sources \ {m} /\ UNCHANGED risks
            \/ Risk("faults") /\ UNCHANGED sources
    /\ UNCHANGED <<evidenceDb, deletion, files, capture, larger>>

\* Something else fails: the capture is cancelled and the operation tried again.
ProcessingFails(m) ==
    /\ handler[m].step \in {"contain", "await"} /\ Risk("faults")
    /\ handler' = [handler EXCEPT ![m] = NoHandler]
    /\ Cancelled(m) /\ capture' = [capture EXCEPT ![m] = NoCapture]
    /\ UNCHANGED <<appended, closed, sources, deletion, files, larger>>

\* _complete_attachment_capture: what is still open of a message that is gone is
\* abandoned, unless another download may still be recorded.
FinishedAnyway(m) == TRUE
Finished(m) == evidence'[m].status # "pending"

AwaitCapture(m) ==
    /\ handler[m].step = "await" /\ capture[m].step \in {"none", "ended"}
    /\ capture' = [capture EXCEPT ![m] = NoCapture]
    /\ IF deletion.rows THEN UNCHANGED <<evidence, reservation>>
       ELSE IF ~Terminal(m) /\ ~handler[m].live THEN FailPending(m, TRUE)
       ELSE UNCHANGED <<evidence, reservation>>
    /\ handler' = [handler EXCEPT ![m] =
         IF deletion.rows \/ Finished(m) THEN [NoHandler EXCEPT !.step = "done"] ELSE NoHandler]
    /\ UNCHANGED <<appended, closed, sources, deletion, files, larger, risks>>

TimePasses(m) ==
    /\ reservation[m].owner = "dead" /\ ~reservation[m].stale
    /\ reservation' = [reservation EXCEPT ![m].stale = TRUE]
    /\ UNCHANGED <<appended, closed, evidence, sources, deletion, files, capture, handler,
                   larger, risks>>

----------------------------------------------------------------------------
(* _delete_detection_case_scope and its retries, behind the barrier.         *)
AskDeletion ==
    /\ \/ deletion.step = "none" /\ Risk("deletions")
       \/ deletion.step = "later" /\ UNCHANGED risks
    /\ deletion' = [deletion EXCEPT !.step = "barrier"]
    /\ UNCHANGED <<evidenceDb, sources, files, capture, handler, larger>>

SlotsTaken == \A m \in Message : ~Inside(m)

PlanRemoval ==
    /\ deletion.step = "barrier" /\ SlotsTaken
    /\ deletion' = [deletion EXCEPT !.planned = TRUE, !.step = "files"]
    /\ UNCHANGED <<evidenceDb, sources, files, capture, handler, larger, risks>>

RemoveFiles ==
    /\ deletion.step = "files"
    /\ \/ deletion.local /\ deletion' = [deletion EXCEPT !.step = "rows"]
          /\ UNCHANGED <<files, risks>>
       \/ ~deletion.local /\ files' = {} /\ UNCHANGED risks
          /\ deletion' = [deletion EXCEPT !.step = "rows", !.local = TRUE]
       \/ ~deletion.local /\ Risk("faults") /\ UNCHANGED files
          /\ deletion' = [deletion EXCEPT !.step = "later"]
    /\ UNCHANGED <<evidenceDb, sources, capture, handler, larger>>

\* finalize_case_deletion, or a publication in flight puts it off.
EraseCase ==
    /\ deletion.step = "rows"
    /\ \/ /\ deletion' = [deletion EXCEPT !.step = "done", !.rows = TRUE]
          /\ evidence' = [m \in Message |-> [status |-> "pending", file |-> NoFile]]
          /\ reservation' = [m \in Message |-> NoReservation]
          /\ UNCHANGED risks
       \/ Risk("faults") /\ deletion' = [deletion EXCEPT !.step = "later"]
          /\ UNCHANGED <<evidence, reservation>>
    /\ UNCHANGED <<appended, closed, sources, files, capture, handler, larger>>

\* The process ends and starts again.
CrashEvidence ==
    /\ Risk("crashes")
    /\ capture' = [m \in Message |-> NoCapture]
    /\ handler' = [m \in Message |-> IF handler[m].step = "done" THEN handler[m] ELSE NoHandler]
    /\ reservation' = [m \in Message |->
         IF reservation[m].owner = "task" THEN [reservation[m] EXCEPT !.owner = "dead"]
         ELSE reservation[m]]
    /\ deletion' = IF deletion.step \in {"none", "done"} THEN deletion
                   ELSE [deletion EXCEPT !.step = IF deletion.planned THEN "later" ELSE "none"]
    /\ UNCHANGED <<appended, closed, evidence, sources, files, larger>>

Capturing(m) ==
    \/ EnterSlot(m) \/ CheckCase(m) \/ ReadBudget(m) \/ Reserve(m)
    \/ \E got \in {"file", "too_large", "failed"}, k \in 1..MaxFiles : Download(m, got, k)
    \/ SettleFile(m) \/ SettleFailure(m)

Handling(m) ==
    \/ Begin(m) \/ Launch(m) \/ Started(m) \/ LaunchAgain(m) \/ GiveUpStart(m) \/ StopCapture(m)
    \/ Contain(m) \/ AwaitCapture(m)

Deleting == AskDeletion \/ PlanRemoval \/ RemoveFiles \/ EraseCase

EvidenceNext ==
    \/ \E m \in Message : \/ AppendMessage(m) \/ Capturing(m) \/ Handling(m) \/ ProcessingFails(m)
                          \/ TimePasses(m)
    \/ Deleting \/ CloseCase \/ CrashEvidence

EvidenceSpec == EvidenceInit /\ [][EvidenceNext]_evidenceVars

----------------------------------------------------------------------------
\* Every variable keeps to the values the code gives it.
EvidenceTypeOK ==
    /\ appended \subseteq Message /\ sources \subseteq Message /\ larger \subseteq Message
    /\ files \subseteq File /\ closed \in BOOLEAN /\ deletion \in Deletion
    /\ evidence \in [Message -> Attachment] /\ reservation \in [Message -> Reservation]
    /\ handler \in [Message -> Handler]
    /\ capture = [m \in Message |-> capture[m]]
    /\ \A m \in Message : capture[m] \in Capture(capture[m].budget)

\* A message counts as processed only when the outcome of its evidence is known, so what
\* is done afterwards never misses a download that is still to come.
ProcessedIsSettled ==
    \A m \in Message : handler[m].step = "done" /\ ~deletion.rows => Terminal(m)

\* Nothing of a deleted case is left on the disk or written to it later.
NothingOutlivesTheCase == deletion.rows => files = {}
=============================================================================
