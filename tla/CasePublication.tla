-------------------------- MODULE CasePublication --------------------------
(***************************************************************************)
(* Publication of a detection case and its deletion (review_publication.py *)
(* over detection_cases.py): a summary message, the thread below it and    *)
(* the pages of the timeline in the thread are sent under claims, edited,  *)
(* replaced when they are gone, and removed with the case.                 *)
(*                                                                         *)
(* One case with one page.  Publications of a case take turns in a process *)
(* (_detection_publication_locks).  A thread has the number of its summary *)
(* message; <<s, 0>> is that message and <<s, k>> a page in its thread.    *)
(***************************************************************************)
EXTENDS Naturals, FiniteSets

CONSTANTS
    MaxSummary, MaxPage,    \* messages of each kind that may be sent
    PostLimits      \* what may happen of changes, losses, outages, refusals, crashes

ASSUME PostAssumption ==
    /\ MaxSummary \in Nat \ {0} /\ MaxPage \in Nat \ {0}
    /\ PostLimits \subseteq
         [{"changes", "losses", "outages", "refusals", "crashes"} -> Nat]

VARIABLES
    posted,         \* messages that are on Discord
    threads,        \* threads that are
    review,         \* review_message_id of the case, or 0
    endpoint,       \* detection_projection_endpoints
    primary,        \* who holds the claim of the primary slot
    page,           \* detection_timeline_publications
    orphans,        \* detection_orphan_publications
    removing,       \* detection_case_deletions and the deletion job
    publisher,      \* the _publish_detection_case that has its turn
    remover,        \* the _finish_detection_case_deletions that runs
    lost,           \* messages whose sender was cut off before it could record them
    astray,         \* a moderator deleted a summary, or Discord refused to delete a late message
    luck            \* what may still happen

postDb == <<review, endpoint, primary, page, orphans, removing>>
postVars == <<posted, threads, review, endpoint, primary, page, orphans, removing, publisher,
              remover, lost, astray, luck>>

Summary == 1..MaxSummary
Ref == Summary \X (0..MaxPage)
NoRef == <<0, 0>>
Endpoint == [row : BOOLEAN, summary : 0..MaxSummary, thread : 0..MaxSummary]
Claim == [owner : {"none", "task", "dead"}, stale : BOOLEAN]
Page == [state : {"none", "pending", "published"}, at : Ref \cup {NoRef},
         owner : {"none", "task", "dead"}, stale : BOOLEAN, current : BOOLEAN]
DeletionJob ==
    [planned : BOOLEAN, exists : BOOLEAN, summary : 0..MaxSummary, thread : 0..MaxSummary,
     targets : SUBSET Ref, remote : BOOLEAN, rows : BOOLEAN, exact : BOOLEAN]
PublisherStep == {"idle", "edit", "clear", "claim", "send", "complete", "compensate", "thread",
                  "ensure", "activate", "dropthread", "page", "editpage", "record", "claimpage",
                  "sendpage", "completepage"}
Publisher == [step : PublisherStep, summary : 0..MaxSummary, sent : Ref \cup {NoRef},
              replace : Ref \cup {NoRef}]
Remover == [step : {"none", "start", "remote", "mark", "rows", "finish"},
            summary : 0..MaxSummary, thread : 0..MaxSummary, targets : SUBSET Ref]

NoEndpoint == [row |-> FALSE, summary |-> 0, thread |-> 0]
NoPage == [state |-> "none", at |-> NoRef, owner |-> "none", stale |-> FALSE, current |-> FALSE]
NoClaim == [owner |-> "none", stale |-> FALSE]
NoJob == [planned |-> FALSE, exists |-> FALSE, summary |-> 0, thread |-> 0, targets |-> {},
          remote |-> FALSE, rows |-> FALSE, exact |-> TRUE]
NoTurn == [step |-> "idle", summary |-> 0, sent |-> NoRef, replace |-> NoRef]
Away == [step |-> "none", summary |-> 0, thread |-> 0, targets |-> {}]

Lucky(what) == luck[what] > 0 /\ luck' = [luck EXCEPT ![what] = @ - 1]
Turn(s) == publisher' = [publisher EXCEPT !.step = s]
TurnEnds == publisher' = NoTurn
RowsExist == ~removing.rows

PostInit ==
    /\ posted = {} /\ threads = {} /\ review = 0 /\ endpoint = NoEndpoint
    /\ primary = NoClaim /\ page = NoPage /\ orphans = {} /\ removing = NoJob
    /\ publisher = NoTurn /\ remover = Away /\ lost = {} /\ astray = FALSE
    /\ luck \in PostLimits

----------------------------------------------------------------------------
(* Others.                                                                  *)
\* The case gets something new to show (invalidate_case_timeline_renders and new content).
CaseChanges ==
    /\ Lucky("changes") /\ page' = [page EXCEPT !.current = FALSE]
    /\ UNCHANGED <<posted, threads, review, endpoint, primary, orphans, removing, publisher,
                   remover, lost, astray>>

\* A moderator deletes a message of the case; on_raw_message_delete forgets its render.
MessageDeleted(m) ==
    /\ Lucky("losses") /\ m \in posted /\ posted' = posted \ {m}
    /\ astray' = (astray \/ m[2] = 0)
    /\ page' = IF page.state = "published" /\ page.at = m
               THEN [page EXCEPT !.current = FALSE] ELSE page
    /\ UNCHANGED <<threads, review, endpoint, primary, orphans, removing, publisher, remover,
                   lost>>

\* Claims are stale after five minutes.
ClaimAges ==
    /\ \/ /\ primary.owner = "dead" /\ ~primary.stale
          /\ primary' = [primary EXCEPT !.stale = TRUE] /\ UNCHANGED page
       \/ /\ page.owner = "dead" /\ ~page.stale
          /\ page' = [page EXCEPT !.stale = TRUE] /\ UNCHANGED primary
    /\ UNCHANGED <<posted, threads, review, endpoint, orphans, removing, publisher, remover, lost,
                   astray, luck>>

\* The claim of the summary is renewed while it is used, that of a page is not.
ClaimOutlived ==
    /\ Lucky("outages") /\ page.owner = "task" /\ ~page.stale
    /\ page' = [page EXCEPT !.stale = TRUE]
    /\ UNCHANGED <<posted, threads, review, endpoint, primary, orphans, removing, publisher,
                   remover, lost, astray>>

----------------------------------------------------------------------------
(* _publish_detection_case_serial.                                          *)
StartPublishing ==
    /\ publisher.step = "idle" /\ RowsExist
    /\ review = 0 \/ ~page.current \/ endpoint.summary # review
    /\ publisher' = [NoTurn EXCEPT !.step = IF review = 0 THEN "claim" ELSE "edit",
                                    !.summary = review]
    /\ UNCHANGED <<postDb, posted, threads, remover, lost, astray, luck>>

GoneOrFailing(m) == m \notin posted \/ luck.outages > 0
IsGone(m) == m \notin posted

EditSummary ==
    /\ publisher.step = "edit"
    /\ \/ <<publisher.summary, 0>> \in posted /\ Turn("thread") /\ UNCHANGED luck
       \/ IsGone(<<publisher.summary, 0>>) /\ Turn("clear") /\ UNCHANGED luck
       \/ Lucky("outages") /\ TurnEnds
    /\ UNCHANGED <<postDb, posted, threads, remover, lost, astray>>

\* clear_review_message compares what it clears.
ClearReview ==
    /\ publisher.step = "clear" /\ Turn("claim")
    /\ review' = IF review = publisher.summary THEN 0 ELSE review
    /\ UNCHANGED <<endpoint, primary, page, orphans, removing, posted, threads, remover, lost,
                   astray, luck>>

\* claim_publication, refused for a deletion, a fresh claim or a message that is there.
ClaimPrimary ==
    /\ publisher.step = "claim"
    /\ IF removing.planned \/ review # 0 \/ (primary.owner # "none" /\ ~primary.stale)
       THEN TurnEnds /\ UNCHANGED primary
       ELSE primary' = [owner |-> "task", stale |-> FALSE] /\ Turn("send")
    /\ UNCHANGED <<review, endpoint, page, orphans, removing, posted, threads, remover, lost,
                   astray, luck>>

SendSummary(s) ==
    /\ publisher.step = "send"
    /\ <<s, 0>> \notin posted /\ s \notin threads
    /\ posted' = posted \cup {<<s, 0>>}
    /\ publisher' = [publisher EXCEPT !.step = "complete", !.summary = s, !.sent = <<s, 0>>]
    /\ UNCHANGED <<postDb, threads, remover, lost, astray, luck>>

SendFails ==
    /\ publisher.step \in {"send", "sendpage"} /\ Lucky("outages")
    /\ primary' = IF publisher.step = "send" /\ primary.owner = "task" THEN NoClaim ELSE primary
    /\ page' = IF publisher.step = "sendpage" /\ page.owner = "task"
               THEN [page EXCEPT !.owner = "none", !.stale = FALSE] ELSE page
    /\ TurnEnds
    /\ UNCHANGED <<posted, threads, review, endpoint, orphans, removing, remover, lost, astray>>

\* complete_primary_publication.
MayRecord == primary.owner = "task" /\ RowsExist /\ review = 0 /\ ~removing.planned

CompletePrimary ==
    /\ publisher.step = "complete"
    /\ primary' = IF primary.owner = "task" THEN NoClaim ELSE primary
    /\ IF MayRecord THEN review' = publisher.summary /\ Turn("thread")
       ELSE UNCHANGED review /\ Turn("compensate")
    /\ UNCHANGED <<endpoint, page, orphans, removing, posted, threads, remover, lost, astray,
                   luck>>

\* _compensate_case_publication: a message that could not be recorded is deleted, or left
\* to the deletion job or to the retries of orphans.
Compensate ==
    /\ publisher.step = "compensate" /\ TurnEnds
    /\ \/ posted' = posted \ {publisher.sent} /\ UNCHANGED <<removing, orphans, astray, luck>>
       \/ /\ Lucky("refusals") /\ publisher.sent \in posted /\ UNCHANGED posted
          /\ astray' = TRUE
          /\ removing' = IF removing.exists
                    THEN [removing EXCEPT !.targets = @ \cup {publisher.sent}, !.remote = FALSE]
                    ELSE removing
          /\ orphans' = IF ~removing.exists /\ RowsExist THEN orphans \cup {publisher.sent}
                        ELSE orphans
    /\ UNCHANGED <<review, endpoint, primary, page, threads, remover, lost>>

\* _ensure_detection_case_thread.
FindThread ==
    /\ publisher.step = "thread"
    /\ IF publisher.summary \in threads THEN Turn("ensure") /\ UNCHANGED threads
       ELSE IF <<publisher.summary, 0>> \in posted
       THEN Turn("ensure") /\ threads' = threads \cup {publisher.summary}
       ELSE TurnEnds /\ UNCHANGED threads
    /\ UNCHANGED <<postDb, posted, remover, lost, astray, luck>>

EnsureEndpoint ==
    /\ publisher.step = "ensure"
    /\ IF removing.planned THEN Turn("dropthread") /\ UNCHANGED endpoint
       ELSE Turn("activate") /\ endpoint' = [endpoint EXCEPT !.row = TRUE]
    /\ UNCHANGED <<review, primary, page, orphans, removing, posted, threads, remover, lost,
                   astray, luck>>

ActivateEndpoint ==
    /\ publisher.step = "activate"
    /\ IF removing.planned THEN Turn("dropthread") /\ UNCHANGED endpoint
       ELSE /\ Turn("page")
            /\ endpoint' = [row |-> TRUE, summary |-> publisher.summary,
                            thread |-> publisher.summary]
    /\ UNCHANGED <<review, primary, page, orphans, removing, posted, threads, remover, lost,
                   astray, luck>>

Outside(t) == {m \in posted : m[1] # t \/ m[2] = 0}

DropThread ==
    /\ publisher.step = "dropthread" /\ TurnEnds
    /\ \/ /\ threads' = threads \ {publisher.summary} /\ posted' = Outside(publisher.summary)
          /\ UNCHANGED <<astray, luck>>
       \/ Lucky("refusals") /\ astray' = TRUE /\ UNCHANGED <<threads, posted>>
    /\ UNCHANGED <<postDb, remover, lost>>

----------------------------------------------------------------------------
(* _publish_case_timeline and _upsert_case_timeline_text.                   *)
EnsurePage ==
    /\ publisher.step = "page"
    /\ IF removing.planned THEN TurnEnds /\ UNCHANGED page
       ELSE IF page.state = "none"
       THEN page' = [page EXCEPT !.state = "pending"] /\ Turn("claimpage")
       ELSE /\ IF page.state = "published" THEN Turn("editpage") ELSE Turn("claimpage")
            /\ UNCHANGED page
    /\ UNCHANGED <<review, endpoint, primary, orphans, removing, posted, threads, remover, lost,
                   astray, luck>>

\* A page that is current in this thread stays; another is edited there, if it is there.
EditPage ==
    /\ publisher.step = "editpage"
    /\ \/ /\ page.current /\ page.at[1] = publisher.summary /\ TurnEnds /\ UNCHANGED luck
       \/ /\ ~(page.current /\ page.at[1] = publisher.summary)
          /\ page.at[1] = publisher.summary /\ page.at \in posted /\ Turn("record")
          /\ UNCHANGED luck
       \/ /\ page.at[1] # publisher.summary \/ IsGone(page.at)
          /\ publisher' = [publisher EXCEPT !.step = "claimpage", !.replace = page.at]
          /\ UNCHANGED luck
       \/ Lucky("outages") /\ TurnEnds
    /\ UNCHANGED <<postDb, posted, threads, remover, lost, astray>>

\* record_timeline_render.
RecordRender ==
    /\ publisher.step = "record" /\ TurnEnds
    /\ page' = IF page.state = "published" THEN [page EXCEPT !.current = TRUE] ELSE page
    /\ UNCHANGED <<review, endpoint, primary, orphans, removing, posted, threads, remover, lost,
                   astray, luck>>

\* claim_timeline_publication; whoever finds a fresh claim waits and gives up.
Replaceable == page.state = "pending" \/ page.at = publisher.replace

ClaimPage ==
    /\ publisher.step = "claimpage"
    /\ IF /\ ~removing.planned /\ page.state # "none" /\ Replaceable
          /\ page.owner = "none" \/ page.stale
       THEN /\ page' = [page EXCEPT !.state = "pending", !.owner = "task", !.stale = FALSE]
            /\ Turn("sendpage")
       ELSE TurnEnds /\ UNCHANGED page
    /\ UNCHANGED <<review, endpoint, primary, orphans, removing, posted, threads, remover, lost,
                   astray, luck>>

SendPage(k) ==
    /\ publisher.step = "sendpage"
    /\ LET m == <<publisher.summary, k>> IN
       IF publisher.summary \notin threads
       THEN /\ k = 1 /\ TurnEnds /\ UNCHANGED posted
            /\ page' = IF page.owner = "task" THEN [page EXCEPT !.owner = "none"] ELSE page
       ELSE /\ m \notin posted /\ posted' = posted \cup {m} /\ UNCHANGED page
            /\ publisher' = [publisher EXCEPT !.step = "completepage", !.sent = m]
    /\ UNCHANGED <<review, endpoint, primary, orphans, removing, threads, remover, lost, astray,
                   luck>>

CompletePage ==
    /\ publisher.step = "completepage"
    /\ IF page.owner = "task" /\ ~removing.planned /\ RowsExist
       THEN /\ page' = [state |-> "published", at |-> publisher.sent, owner |-> "none",
                        stale |-> FALSE, current |-> TRUE]
            /\ TurnEnds
       ELSE /\ page' = IF page.owner = "task" THEN [page EXCEPT !.owner = "none"] ELSE page
            /\ Turn("compensate")
    /\ UNCHANGED <<review, endpoint, primary, orphans, removing, posted, threads, remover, lost,
                   astray, luck>>

\* _retry_detection_orphan_publications.
RetryOrphan(m) ==
    /\ m \in orphans /\ RowsExist
    /\ m[2] = 0 \/ m[1] \in threads
    /\ posted' = posted \ {m} /\ orphans' = orphans \ {m}
    /\ UNCHANGED <<threads, review, endpoint, primary, page, removing, publisher, remover, lost,
                   astray, luck>>

----------------------------------------------------------------------------
(* _plan_case_deletion and _finish_detection_case_deletions.                *)
PlanDeletion ==
    /\ ~removing.planned
    /\ LET s == IF endpoint.row THEN endpoint.summary ELSE review
       IN removing' = [planned |-> TRUE, exists |-> TRUE, summary |-> s,
                  thread |-> endpoint.thread, targets |-> orphans, remote |-> FALSE,
                  rows |-> FALSE, exact |-> s = review]
    /\ remover' = [Away EXCEPT !.step = "start"]
    /\ UNCHANGED <<posted, threads, review, endpoint, primary, page, orphans, publisher, lost,
                   astray, luck>>

Unfinished == removing.exists

RetryDeletion ==
    /\ remover.step = "none" /\ Unfinished
    /\ remover' = [Away EXCEPT !.step = "start"]
    /\ UNCHANGED <<postDb, posted, threads, publisher, lost, astray, luck>>

ReadJob ==
    /\ remover.step = "start"
    /\ remover' = IF removing.remote THEN [Away EXCEPT !.step = "rows"]
                  ELSE [step |-> "remote", summary |-> removing.summary,
                        thread |-> removing.thread, targets |-> removing.targets]
    /\ UNCHANGED <<postDb, posted, threads, publisher, lost, astray, luck>>

\* _delete_detection_case_publications: the thread of the summary or of the endpoint, the
\* other messages, and the summary.
RemovePosts ==
    /\ remover.step = "remote"
    /\ LET t == IF <<remover.summary, 0>> \in posted /\ remover.summary \in threads
                THEN remover.summary ELSE remover.thread
       IN \/ /\ threads' = threads \ {t}
             /\ posted' = Outside(t) \ ({<<remover.summary, 0>>} \cup remover.targets)
             /\ remover' = [remover EXCEPT !.step = "mark"] /\ UNCHANGED luck
          \/ /\ Lucky("outages") /\ threads' = threads \ {t} /\ posted' = Outside(t)
             /\ remover' = [remover EXCEPT !.step = "rows"]
    /\ UNCHANGED <<postDb, publisher, lost, astray>>

\* mark_case_deletion_remote.
MarkRemote ==
    /\ remover.step = "mark" /\ remover' = [Away EXCEPT !.step = "rows"]
    /\ removing' = [removing EXCEPT !.remote = TRUE]
    /\ UNCHANGED <<review, endpoint, primary, page, orphans, posted, threads, publisher, lost,
                   astray, luck>>

\* case_deletion_has_inflight_publications drops the claims that are too old; without
\* others, finalize_case_deletion removes the rows.
InFlight == \/ primary.owner # "none" /\ ~primary.stale
            \/ page.owner # "none" /\ ~page.stale

FinalizeCase ==
    /\ remover.step = "rows" /\ remover' = [Away EXCEPT !.step = "finish"]
    /\ IF InFlight \/ removing.rows
       THEN /\ primary' = IF primary.stale THEN NoClaim ELSE primary
            /\ page' = IF page.stale THEN [page EXCEPT !.owner = "none", !.stale = FALSE]
                       ELSE page
            /\ UNCHANGED <<review, endpoint, orphans, removing>>
       ELSE /\ review' = 0 /\ endpoint' = NoEndpoint /\ primary' = NoClaim /\ page' = NoPage
            /\ orphans' = {} /\ removing' = [removing EXCEPT !.rows = TRUE]
    /\ UNCHANGED <<posted, threads, publisher, lost, astray, luck>>

\* complete_case_deletion_job.
FinishJob ==
    /\ remover.step = "finish" /\ remover' = Away
    /\ removing' = IF removing.remote /\ removing.rows
                   THEN [NoJob EXCEPT !.planned = TRUE, !.rows = TRUE, !.exact = removing.exact]
                   ELSE removing
    /\ UNCHANGED <<review, endpoint, primary, page, orphans, posted, threads, publisher, lost,
                   astray, luck>>

\* The process ends and starts again; the claims of the publisher are nobody's.
CrashPosts ==
    /\ Lucky("crashes")
    /\ lost' = IF publisher.step \in {"complete", "completepage", "compensate"}
               THEN lost \cup {publisher.sent} ELSE lost
    /\ publisher' = NoTurn /\ remover' = Away
    /\ primary' = IF primary.owner = "task" THEN [primary EXCEPT !.owner = "dead"] ELSE primary
    /\ page' = IF page.owner = "task" THEN [page EXCEPT !.owner = "dead"] ELSE page
    /\ UNCHANGED <<posted, threads, review, endpoint, orphans, removing, astray>>

Publishing ==
    \/ EditSummary \/ ClearReview \/ ClaimPrimary \/ CompletePrimary \/ Compensate
    \/ FindThread \/ EnsureEndpoint \/ ActivateEndpoint \/ DropThread
    \/ EnsurePage \/ EditPage \/ RecordRender \/ ClaimPage \/ CompletePage
    \/ \E s \in Summary : SendSummary(s)
    \/ \E k \in 1..MaxPage : SendPage(k)

Removing == RetryDeletion \/ ReadJob \/ RemovePosts \/ MarkRemote \/ FinalizeCase \/ FinishJob

PostNext ==
    \/ StartPublishing \/ Publishing \/ SendFails \/ PlanDeletion \/ Removing
    \/ \E m \in Ref : MessageDeleted(m) \/ RetryOrphan(m)
    \/ CaseChanges \/ ClaimAges \/ ClaimOutlived \/ CrashPosts

PostSpec == PostInit /\ [][PostNext]_postVars

\* What has begun goes on, the reconciliation comes again and time passes.
FairPosts == PostSpec /\ WF_postVars(Publishing) /\ WF_postVars(Removing) /\ WF_postVars(ClaimAges)

----------------------------------------------------------------------------
\* Every variable keeps to the values the code gives it.
PostTypeOK ==
    /\ posted \subseteq Ref /\ orphans \subseteq Ref /\ lost \subseteq Ref
    /\ threads \subseteq Summary /\ review \in 0..MaxSummary /\ astray \in BOOLEAN
    /\ endpoint \in Endpoint /\ primary \in Claim /\ page \in Page
    /\ removing \in DeletionJob /\ publisher \in Publisher /\ remover \in Remover

\* A case is one summary and one page: whatever else was sent is listed for removal,
\* unless its sender was cut off before it could say so (claim_publication,
\* complete_primary_publication, claim_timeline_publication and the compensation).
Superseded == {m \in posted : m[2] > 0 /\ m[1] # review}
Listed == orphans \cup removing.targets \cup lost

ShownOnce ==
    publisher.step = "idle" /\ RowsExist =>
        /\ Cardinality({m \in posted \ Listed : m[2] = 0}) <= 1
        /\ Cardinality({m \in posted \ (Listed \cup Superseded) : m[2] > 0}) <= 1

\* When the deletion job of a case is done, nothing of the case is left on Discord.
Gone == removing.rows /\ ~removing.exists
Remains == posted # {} \/ threads # {}

\* It is so when the job was planned from the message that is shown, no message was lost
\* with its sender or its moderator, and Discord let the late ones be deleted: no
\* publication that is under way when a case is deleted leaves anything behind
\* (case_deletion_has_inflight_publications, _ensure_detection_case_thread).
LatePublicationsRemoved ==
    removing.exact /\ lost = {} /\ ~astray /\ Gone /\ publisher.step = "idle" => ~Remains

\* The channel shows what the database has of a case: its summary and each page
\* once, and nothing of a case that is deleted, however late it was published
\* (claim_publication, add_case_deletion_publication).
ShownAsRecorded == ShownOnce /\ LatePublicationsRemoved

\* A deletion that is planned is carried out.
DeletionEnds == removing.planned ~> Gone
=============================================================================
