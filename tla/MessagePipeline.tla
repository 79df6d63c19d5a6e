-------------------------- MODULE MessagePipeline --------------------------
(***************************************************************************)
(* A suspicious message on its way: its id waits while Discord withholds   *)
(* the content (IntentBacklog), then on_message appends it to a case whose  *)
(* evidence is captured (CaseEvidence).  The two share no state.           *)
(***************************************************************************)
EXTENDS CaseEvidence, IntentBacklog

PipelineSpec == EvidenceSpec /\ BacklogSpec

\* A message whose capture is done has its evidence settled, files and reservations do
\* not outlive the case, and a message whose content was withheld waits until it was
\* replayed, is gone or too old (evidence budget, drain_once).
MessagesSettle == ProcessedIsSettled /\ NothingOutlivesTheCase /\ NothingDropped
=============================================================================
