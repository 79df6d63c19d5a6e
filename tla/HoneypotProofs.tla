--------------------------- MODULE HoneypotProofs ---------------------------
(***************************************************************************)
(* Proofs about what the honeypot cog does with a message, for any number  *)
(* of messages, panels, roles and channels and any limits.                 *)
(*                                                                         *)
(* Panels (ManualPunishment).  One punishment: a panel that is past the    *)
(* deletion of its message has taken the message, which nobody can take     *)
(* again (Alone), and until then it has no results; its audit was posted    *)
(* on the way (Audited).  Roles: what a panel gives is owned by a case only *)
(* while the panel holds the lock (Guarded), JoinWatch's row is marked      *)
(* before the role counts as given, and the other owners work without the   *)
(* lock only; the argument needs a member cache that is not behind the      *)
(* other owners (Timely).                                                   *)
(*                                                                         *)
(* Posts of a case (CasePublication).  Whatever is on Discord is the        *)
(* message of the row, listed for removal, or just sent by the one          *)
(* publisher, who then records or removes it (SummaryKnown, PageKnown,      *)
(* PageFits, TurnFits).  While nothing went wrong nothing is listed and one *)
(* summary's thread holds every page (NothingAstray, OneAnchor), so the job *)
(* that removes this summary removes everything (ClearedIsEmpty).           *)
(*                                                                         *)
(* Evidence (CaseEvidence).  A deletion is planned while no capture is past *)
(* the check of the case, and none passes it afterwards (Barred), so what   *)
(* is removed stays removed (Emptied).  An outcome, once recorded, is only  *)
(* erased with the case (OutcomesStay).                                     *)
(*                                                                         *)
(* Deferred messages (IntentBacklog).  The drain forgets a row that was     *)
(* settled before (Answered); a row is due or it is not (Apart).            *)
(***************************************************************************)
EXTENDS ManualPunishment, CasePublication, MessagePipeline, FiniteSetTheorems, TLAPS

-----------------------------------------------------------------------------
(* Panels *)

PanelState == [at : Step, evidence : BOOLEAN, action : Action, roles : SUBSET Role,
               marked : SUBSET Role, results : [Target -> Status]]
AuditState == [posted : BOOLEAN, files : BOOLEAN, deletion : {"Pending", "Failed", "Completed"},
               results : [Target -> Status], told : {"none", "sent", "failed"}]

\* What a step of panel x leaves alone.
OtherPanels(x) == \A y \in Panel \ {x} : panel'[y] = panel[y]
OtherAudits(x) == \A y \in Panel \ {x} : audit'[y] = audit[y]

\* The choices of panel x are kept.
Chosen(x) == /\ panel'[x].evidence = panel[x].evidence /\ panel'[x].action = panel[x].action
             /\ panel'[x].roles = panel[x].roles /\ panel'[x].marked = panel[x].marked

-----------------------------------------------------------------------------
(* What the updates of the module do *)

\* The parts of the type invariant.
LEMMA TypeParts ==
  ManualTypeOK <=>
    /\ setup \in [evidence : BOOLEAN, dryRun : BOOLEAN, protected : BOOLEAN, mutes : BOOLEAN]
    /\ offers \in [Role -> Offer] /\ writes \in SUBSET [Role -> Offer]
    /\ message \in BOOLEAN /\ member \in {"here", "left", "kicked", "banned"}
    /\ held \in SUBSET Role /\ seen \in SUBSET Role /\ owned \in SUBSET Role
    /\ granted \in SUBSET Role
    /\ watch \in [role : Role \cup {NoRole}, manual : BOOLEAN]
    /\ lock \in Panel \cup {NoPanel}
    /\ panel \in [Panel -> PanelState] /\ audit \in [Panel -> AuditState]
    /\ bound \in [Interference -> Nat]
BY Zenon DEF ManualTypeOK, PanelState, AuditState

\* The kinds of interference.
LEMMA Kinds == {"edits", "faults", "crashes", "changes", "commands", "cases", "watches", "lags"}
                 \subseteq Interference
BY DEF Interference

\* A panel goes to another step and keeps everything else.
LEMMA Moved ==
  ASSUME panel \in [Panel -> PanelState], NEW x \in Panel, NEW step \in Step, Moves(x, step)
  PROVE  /\ panel' \in [Panel -> PanelState] /\ OtherPanels(x) /\ Chosen(x)
         /\ panel'[x].at = step /\ panel'[x].results = panel[x].results
BY DEF Moves, PanelState, OtherPanels, Chosen

\* A panel that has done nothing has no results.
LEMMA NoResultsType == NoResults \in [Target -> Status] /\ \A t \in Target : NoResults[t] = "none"
BY DEF NoResults, Status

\* A panel that ends forgets its choices and keeps its results.
LEMMA Ended ==
  ASSUME panel \in [Panel -> PanelState], NEW x \in Panel, Ends(x)
  PROVE  /\ panel' \in [Panel -> PanelState] /\ OtherPanels(x)
         /\ panel'[x].at = "ended" /\ panel'[x].results = panel[x].results
         /\ panel'[x].roles = {} /\ panel'[x].marked = {}
BY NoResultsType DEF Ends, Unused, PanelState, OtherPanels, Step, Action

\* One result is recorded.
LEMMA Resulted ==
  ASSUME panel \in [Panel -> PanelState], NEW x \in Panel, NEW t \in Target,
         NEW status \in Status, panel' = Result(x, t, status)
  PROVE  /\ panel' \in [Panel -> PanelState] /\ OtherPanels(x) /\ Chosen(x)
         /\ panel'[x].at = "reporting"
         /\ panel'[x].results = [panel[x].results EXCEPT ![t] = status]
BY DEF Result, PanelState, OtherPanels, Chosen, Step

\* The outcome of one request is recorded for all roles it was about.
LEMMA OutcomeRecorded ==
  ASSUME panel \in [Panel -> PanelState], NEW x \in Panel, NEW some \in SUBSET Role,
         NEW status \in Status, panel' = Outcome(x, some, status)
  PROVE  /\ panel' \in [Panel -> PanelState] /\ OtherPanels(x) /\ Chosen(x)
         /\ panel'[x].at = "handing"
         /\ panel'[x].results =
              [t \in Target |-> IF t \in some THEN status ELSE panel[x].results[t]]
BY ZenonT(60) DEF Outcome, PanelState, OtherPanels, Chosen, Step

\* The audit shows one thing more of a panel.
LEMMA Posted ==
  ASSUME audit \in [Panel -> AuditState], NEW x \in Panel, NEW yes \in BOOLEAN,
         audit' = [audit EXCEPT ![x].posted = yes]
  PROVE  /\ audit' \in [Panel -> AuditState] /\ OtherAudits(x)
         /\ audit'[x].posted = yes /\ audit'[x].files = audit[x].files
         /\ audit'[x].deletion = audit[x].deletion
BY DEF AuditState, OtherAudits

\* So with the files of its message.
LEMMA Attached ==
  ASSUME audit \in [Panel -> AuditState], NEW x \in Panel, audit' = [audit EXCEPT ![x].files = TRUE]
  PROVE  /\ audit' \in [Panel -> AuditState] /\ OtherAudits(x)
         /\ audit'[x].posted = audit[x].posted /\ audit'[x].files
         /\ audit'[x].deletion = audit[x].deletion
BY DEF AuditState, OtherAudits

\* So with what the member was told.
LEMMA Told ==
  ASSUME audit \in [Panel -> AuditState], NEW x \in Panel, NEW what \in {"sent", "failed"},
         audit' = [audit EXCEPT ![x].told = what]
  PROVE  /\ audit' \in [Panel -> AuditState] /\ OtherAudits(x)
         /\ audit'[x].posted = audit[x].posted /\ audit'[x].files = audit[x].files
         /\ audit'[x].deletion = audit[x].deletion
BY DEF AuditState, OtherAudits

\* A bound that is used goes down by one, the others stay.
LEMMA Spent ==
  ASSUME bound \in [Interference -> Nat], NEW k \in Interference, Spend(k)
  PROVE  /\ bound' \in [Interference -> Nat] /\ bound[k] # 0
         /\ \A o \in Interference \ {k} : bound'[o] = bound[o]
BY DEF Spend

\* The audit is edited with the results, or the edit fails.
LEMMA AuditEdited ==
  ASSUME ManualTypeOK, NEW x \in Panel, NEW how \in {"Failed", "Completed"}, Finalized(x, how)
  PROVE  /\ audit' \in [Panel -> AuditState] /\ OtherAudits(x)
         /\ audit'[x].posted = audit[x].posted /\ audit'[x].files = audit[x].files
         /\ audit'[x].deletion \in {audit[x].deletion, how}
         /\ bound' \in [Interference -> Nat]
<1>1. CASE /\ audit' = [audit EXCEPT ![x].deletion = how, ![x].results = panel[x].results]
           /\ UNCHANGED bound
  <2>1. panel[x].results \in [Target -> Status]
    BY TypeParts DEF PanelState
  <2>2. audit \in [Panel -> AuditState] /\ bound \in [Interference -> Nat]
    BY TypeParts
  <2> QED
    BY ZenonT(60), <1>1, <2>1, <2>2 DEF AuditState, OtherAudits
<1>2. CASE Spend("faults") /\ UNCHANGED audit
  BY <1>2, Spent, Kinds, TypeParts DEF OtherAudits
<1> QED
  BY <1>1, <1>2 DEF Finalized


-----------------------------------------------------------------------------
(* The types *)

\* Everything has its type at first.
LEMMA InitTypes ==
  ASSUME ManualInit
  PROVE  ManualTypeOK
<1>1. panel \in [Panel -> PanelState] /\ audit \in [Panel -> AuditState]
  BY NoResultsType DEF ManualInit, Unused, NoAudit, PanelState, AuditState, Step, Action
<1>2. offers \in [Role -> Offer] /\ writes \subseteq [Role -> Offer]
  <2>1. NoOffer \in Offer /\ [sources |-> {Here}, notify |-> NoChannel] \in Offer
    BY ManualAssumption DEF Offer, NoOffer
  <2> QED
    BY <2>1 DEF ManualInit
<1>3. bound \in [Interference -> Nat]
  BY ManualAssumption DEF ManualInit
<1> QED
  BY <1>1, <1>2, <1>3, TypeParts DEF ManualInit, NoWatch

PanelStep(x) ==
  \/ Open(x) \/ ToggleEvidence(x) \/ SelectMemberAction(x) \/ SelectRoles(x) \/ GiveUp(x)
  \/ Confirm(x) \/ Submit(x) \/ Prepare(x) \/ SendAudit(x) \/ AttachFiles(x) \/ DeleteSource(x)
  \/ ActOnMember(x) \/ StartRoles(x) \/ LockRoles(x) \/ AddRoles(x) \/ HandOver(x) \/ Mute(x)
  \/ ReportRefusal(x) \/ Report(x) \/ Publish(x) \/ Close(x)

\* A choice in an open panel changes only that panel's choices.
LEMMA Edited ==
  ASSUME ManualTypeOK, NEW x \in Panel, ToggleEvidence(x) \/ SelectMemberAction(x) \/ SelectRoles(x)
  PROVE  /\ panel' \in [Panel -> PanelState] /\ bound' \in [Interference -> Nat]
         /\ OtherPanels(x)
         /\ panel'[x].at = panel[x].at /\ panel'[x].results = panel[x].results
         /\ panel[x].at = "open" /\ UNCHANGED <<World, Member, message, audit>>
<1> USE DEF At
<1>0. panel \in [Panel -> PanelState] /\ bound \in [Interference -> Nat]
  BY TypeParts
<1>1. CASE ToggleEvidence(x)
  <2>1. bound' \in [Interference -> Nat]
    BY <1>0, <1>1, Spent, Kinds DEF ToggleEvidence
  <2>2. panel' = [panel EXCEPT ![x].evidence = ~@]
    BY <1>1 DEF ToggleEvidence
  <2>3. panel[x].at = "open" /\ UNCHANGED <<World, Member, message, audit>>
    BY <1>1 DEF ToggleEvidence
  <2>4. panel' \in [Panel -> PanelState] /\ OtherPanels(x)
        /\ panel'[x].at = panel[x].at /\ panel'[x].results = panel[x].results
    BY <1>0, <2>2 DEF PanelState, OtherPanels
  <2> QED
    BY <2>1, <2>3, <2>4
<1>2. CASE SelectMemberAction(x)
  <2>1. bound' \in [Interference -> Nat]
    BY <1>0, <1>2, Spent, Kinds DEF SelectMemberAction
  <2>2. PICK a \in Action :
          panel' = [panel EXCEPT ![x].action = a,
                                 ![x].roles = IF a \in {"kick", "ban"} THEN {} ELSE @]
    BY <1>2 DEF SelectMemberAction
  <2>3. panel[x].at = "open" /\ UNCHANGED <<World, Member, message, audit>>
    BY <1>2 DEF SelectMemberAction
  <2>4. panel' \in [Panel -> PanelState] /\ OtherPanels(x)
        /\ panel'[x].at = panel[x].at /\ panel'[x].results = panel[x].results
    BY ZenonT(60), <1>0, <2>2 DEF PanelState, OtherPanels
  <2> QED
    BY <2>1, <2>3, <2>4
<1>3. CASE SelectRoles(x)
  <2>1. bound' \in [Interference -> Nat]
    BY <1>0, <1>3, Spent, Kinds DEF SelectRoles
  <2>2. PICK chosen \in SUBSET Applicable :
          panel' = [panel EXCEPT ![x].roles = chosen,
                                 ![x].action = IF chosen # {} /\ @ \in {"kick", "ban"}
                                               THEN "none" ELSE @]
    BY <1>3 DEF SelectRoles
  <2>3. panel[x].at = "open" /\ UNCHANGED <<World, Member, message, audit>>
    BY <1>3 DEF SelectRoles
  <2>4. chosen \in SUBSET Role /\ "none" \in Action
    BY DEF Applicable, Action
  <2>5. panel' \in [Panel -> PanelState] /\ OtherPanels(x)
        /\ panel'[x].at = panel[x].at /\ panel'[x].results = panel[x].results
    BY ZenonT(60), <1>0, <2>2, <2>4 DEF PanelState, OtherPanels
  <2> QED
    BY <2>1, <2>3, <2>5
<1> QED
  BY <1>1, <1>2, <1>3

\* A dry run plans the roles and reports; otherwise the panel goes for the lock.
LEMMA RolesStarted ==
  ASSUME ManualTypeOK, NEW x \in Panel, StartRoles(x)
  PROVE  /\ panel' \in [Panel -> PanelState] /\ OtherPanels(x) /\ Chosen(x)
         /\ panel'[x].at \in {"reporting", "locking"}
         /\ panel'[x].at = "locking" => panel'[x].results = panel[x].results
         /\ \A t \in Target : panel'[x].results[t] \in {panel[x].results[t], "planned", "none"}
<1>0. panel \in [Panel -> PanelState]
  BY TypeParts
<1>1. ASSUME NEW step \in {"reporting", "locking"}, panel' = [panel EXCEPT ![x].at = step]
      PROVE  panel' \in [Panel -> PanelState] /\ OtherPanels(x) /\ Chosen(x)
             /\ panel'[x].at = step /\ panel'[x].results = panel[x].results
  BY <1>0, <1>1, Moved DEF Moves, Step
<1>2. CASE panel' = [panel EXCEPT ![x].at = "reporting",
               ![x].results = [t \in Target |->
                  IF t \in panel[x].roles \/ (t = "action" /\ panel[x].action = "mute")
                  THEN "planned" ELSE "none"]]
  <2> DEFINE new == [t \in Target |->
                  IF t \in panel[x].roles \/ (t = "action" /\ panel[x].action = "mute")
                  THEN "planned" ELSE "none"]
  <2>1. new \in [Target -> Status] /\ \A t \in Target : new[t] \in {"planned", "none"}
    BY DEF Status
  <2>2. panel' = [panel EXCEPT ![x].at = "reporting", ![x].results = new]
    BY <1>2
  <2> HIDE DEF new
  <2> QED
    BY ZenonT(60), <1>0, <2>1, <2>2 DEF PanelState, OtherPanels, Chosen, Step
<1> QED
  BY <1>1, <1>2 DEF StartRoles

\* A panel that takes the lock counts the roles the cache shows as applied, and marks the one
\* that JoinWatch has.
LEMMA LockTaken ==
  ASSUME ManualTypeOK, NEW x \in Panel, LockRoles(x)
  PROVE  /\ panel' \in [Panel -> PanelState] /\ OtherPanels(x)
         /\ panel'[x].evidence = panel[x].evidence /\ panel'[x].roles = panel[x].roles
         /\ panel'[x].at = IF panel[x].roles \subseteq seen THEN "handing" ELSE "adding"
         /\ panel'[x].marked = IF watch.manual THEN {} ELSE {watch.role} \cap panel[x].roles
         /\ \A t \in Target :
              panel'[x].results[t] = IF t \in panel[x].roles \cap seen
                                     THEN "already_applied" ELSE panel[x].results[t]
<1> DEFINE new == [t \in Target |-> IF t \in panel[x].roles \cap seen
                                     THEN "already_applied" ELSE panel[x].results[t]]
           marks == IF watch.manual THEN {} ELSE {watch.role} \cap panel[x].roles
           next == IF panel[x].roles \subseteq seen THEN "handing" ELSE "adding"
<1>1. panel \in [Panel -> PanelState]
  BY TypeParts
<1>2. panel' = [panel EXCEPT ![x].at = next, ![x].marked = marks, ![x].results = new]
  BY DEF LockRoles
<1>3. new \in [Target -> Status] /\ marks \in SUBSET Role /\ next \in Step
  BY <1>1 DEF PanelState, Status, Step
<1>4. \A t \in Target : new[t] = IF t \in panel[x].roles \cap seen
                                 THEN "already_applied" ELSE panel[x].results[t]
  OBVIOUS
<1> HIDE DEF new, marks, next
<1>5. /\ panel' \in [Panel -> PanelState] /\ OtherPanels(x)
      /\ panel'[x].evidence = panel[x].evidence /\ panel'[x].roles = panel[x].roles
      /\ panel'[x].at = next /\ panel'[x].marked = marks /\ panel'[x].results = new
  BY <1>1, <1>2, <1>3 DEF PanelState, OtherPanels
<1> QED
  BY <1>4, <1>5 DEF next, marks

\* A panel's own step keeps the types of panels, audits and bounds.
LEMMA PanelTypes ==
  ASSUME ManualTypeOK, NEW x \in Panel, PanelStep(x)
  PROVE  /\ panel' \in [Panel -> PanelState] /\ audit' \in [Panel -> AuditState]
         /\ bound' \in [Interference -> Nat]
         /\ OtherPanels(x) /\ OtherAudits(x)
<1> USE TypeParts
<1>1. CASE Open(x)
  BY <1>1, Moved DEF Open, PanelState, AuditState, OtherAudits, Step
<1>2. CASE ToggleEvidence(x)
  BY <1>2, Edited DEF AuditState, OtherAudits
<1>3. CASE SelectMemberAction(x)
  BY <1>3, Edited DEF AuditState, OtherAudits
<1>4. CASE SelectRoles(x)
  BY <1>4, Edited DEF AuditState, OtherAudits
<1>5. CASE GiveUp(x)
  BY <1>5, Ended DEF GiveUp, AuditState, OtherAudits
<1>6. CASE Confirm(x)
  BY <1>6, Moved DEF Confirm, PanelState, AuditState, OtherAudits, Step
<1>7. CASE Submit(x)
  BY <1>7, Moved DEF Submit, PanelState, AuditState, OtherAudits, Step
<1>8. CASE Prepare(x)
  BY <1>8, Moved, Ended DEF Prepare, PanelState, AuditState, OtherAudits, Step
<1>9. CASE SendAudit(x)
  <2>1. CASE /\ Moves(x, IF panel[x].evidence THEN "attaching" ELSE "deleting")
             /\ audit' = [audit EXCEPT ![x].posted = TRUE] /\ UNCHANGED bound
    BY <2>1, Moved, Posted DEF Step
  <2>2. CASE Spend("faults") /\ Ends(x) /\ UNCHANGED audit
    BY <2>2, Ended, Spent, Kinds DEF OtherAudits
  <2> QED
    BY <1>9, <2>1, <2>2 DEF SendAudit, AuditFailed
<1>10. CASE AttachFiles(x)
  <2>1. CASE Moves(x, "deleting") /\ audit' = [audit EXCEPT ![x].files = TRUE] /\ UNCHANGED bound
    BY <2>1, Moved, Attached DEF Step
  <2>2. CASE /\ Spend("faults") /\ Ends(x)
             /\ \E taken \in BOOLEAN : audit' = [audit EXCEPT ![x].posted = ~taken]
    BY <2>2, Ended, Spent, Kinds, Posted
  <2> QED
    BY <1>10, <2>1, <2>2 DEF AttachFiles, AuditFailed
<1>11. CASE DeleteSource(x)
  BY <1>11, Moved, Spent, Kinds DEF DeleteSource, PanelState, AuditState, OtherAudits, Step
<1>12. CASE ActOnMember(x)
  BY <1>12, Resulted, Spent, Kinds DEF ActOnMember, AuditState, OtherAudits, Target, Status
<1>13. CASE StartRoles(x)
  BY <1>13, RolesStarted DEF StartRoles, OtherAudits
<1>14. CASE LockRoles(x)
  BY <1>14, LockTaken DEF LockRoles, OtherAudits
<1>15. CASE AddRoles(x)
  <2> DEFINE pending == {r \in panel[x].roles : panel[x].results[r] = "none"}
  <2>1. pending \in SUBSET Role
    BY DEF PanelState
  <2>2. PICK status \in {"succeeded", "failed"} : panel' = Outcome(x, pending, status)
    BY <1>15 DEF AddRoles
  <2>3. panel' \in [Panel -> PanelState] /\ OtherPanels(x)
    BY <2>1, <2>2, OutcomeRecorded DEF Status
  <2>4. Spend("faults") \/ UNCHANGED bound
    BY <1>15 DEF AddRoles
  <2> QED
    BY <1>15, <2>3, <2>4, Spent, Kinds DEF AddRoles, OtherAudits
<1>16. CASE HandOver(x)
  BY <1>16, Moved DEF HandOver, PanelState, AuditState, OtherAudits, Step
<1>17. CASE Mute(x)
  BY <1>17, Resulted, Spent, Kinds DEF Mute, AuditState, OtherAudits, Target, Status
<1>18. CASE ReportRefusal(x)
  BY <1>18, Ended, AuditEdited DEF ReportRefusal
<1>19. CASE Report(x)
  BY <1>19, Ended, Moved, AuditEdited DEF Report, Step
<1>20. CASE Publish(x)
  <2>1. PICK what \in {"sent", "failed"} : audit' = [audit EXCEPT ![x].told = what]
    BY <1>20 DEF Publish
  <2>2. Spend("faults") \/ UNCHANGED bound
    BY <1>20 DEF Publish
  <2> QED
    BY <1>20, <2>1, <2>2, Told, Moved, Spent, Kinds DEF Publish, Step
<1>21. CASE Close(x)
  BY <1>21, Ended, AuditEdited DEF Close
<1> QED
  BY <1>1, <1>2, <1>3, <1>4, <1>5, <1>6, <1>7, <1>8, <1>9, <1>10, <1>11, <1>12, <1>13, <1>14,
     <1>15, <1>16, <1>17, <1>18, <1>19, <1>20, <1>21 DEF PanelStep

\* The parts of the type invariant, after a step.
LEMMA TypePartsNext ==
  ASSUME /\ setup' \in [evidence : BOOLEAN, dryRun : BOOLEAN, protected : BOOLEAN,
                        mutes : BOOLEAN]
         /\ offers' \in [Role -> Offer] /\ writes' \in SUBSET [Role -> Offer]
         /\ message' \in BOOLEAN /\ member' \in {"here", "left", "kicked", "banned"}
         /\ held' \in SUBSET Role /\ seen' \in SUBSET Role /\ owned' \in SUBSET Role
         /\ granted' \in SUBSET Role
         /\ watch' \in [role : Role \cup {NoRole}, manual : BOOLEAN]
         /\ lock' \in Panel \cup {NoPanel}
         /\ panel' \in [Panel -> PanelState] /\ audit' \in [Panel -> AuditState]
         /\ bound' \in [Interference -> Nat]
  PROVE  ManualTypeOK'
BY Zenon DEF ManualTypeOK, PanelState, AuditState

\* So does what it does to the member.
LEMMA PanelStepTypes ==
  ASSUME ManualTypeOK, NEW x \in Panel, PanelStep(x)
  PROVE  ManualTypeOK'
<1>0. /\ panel' \in [Panel -> PanelState] /\ audit' \in [Panel -> AuditState]
      /\ bound' \in [Interference -> Nat]
  BY PanelTypes
<1>1. UNCHANGED World
  BY DEF PanelStep, Open, ToggleEvidence, SelectMemberAction, SelectRoles, GiveUp, Confirm, Submit,
         Prepare, SendAudit, AttachFiles, DeleteSource, ActOnMember, StartRoles, LockRoles, AddRoles,
         HandOver, Mute, ReportRefusal, Report, Publish, Close
<1>2. CASE UNCHANGED <<Member, message>>
  BY <1>0, <1>1, <1>2, TypeParts, TypePartsNext DEF Member, World
<1>3. CASE DeleteSource(x)
  BY <1>0, <1>1, <1>3, TypeParts, TypePartsNext DEF DeleteSource, Member, World
<1>4. CASE ActOnMember(x)
  <2>1. /\ member' \in {"here", "left", "kicked", "banned"}
        /\ held' \in SUBSET Role /\ seen' \in SUBSET Role /\ granted' \in SUBSET Role
        /\ UNCHANGED <<message, owned, watch, lock>>
    BY <1>4, TypeParts DEF ActOnMember
  <2> QED
    BY <1>0, <1>1, <2>1, TypeParts, TypePartsNext DEF World
<1>5. CASE LockRoles(x)
  <2>1. granted' \in SUBSET Role /\ watch' \in [role : Role \cup {NoRole}, manual : BOOLEAN]
    BY <1>5, TypeParts DEF LockRoles, Marks
  <2> QED
    BY <1>0, <1>1, <1>5, <2>1, TypeParts, TypePartsNext DEF LockRoles, World
<1>6. CASE AddRoles(x)
  <2> DEFINE pending == {r \in panel[x].roles : panel[x].results[r] = "none"}
  <2>0. pending \in SUBSET Role
    BY TypeParts DEF PanelState
  <2>1. held' \in SUBSET Role /\ granted' \in SUBSET Role
    BY <1>6, <2>0, TypeParts DEF AddRoles
  <2>2. seen' \in SUBSET Role
    BY <1>6, <2>1, TypeParts DEF AddRoles, CacheFollows
  <2>3. watch' \in [role : Role \cup {NoRole}, manual : BOOLEAN]
    BY <1>6, TypeParts DEF AddRoles
  <2> QED
    BY <1>0, <1>1, <1>6, <2>1, <2>2, <2>3, TypeParts, TypePartsNext DEF AddRoles, World
<1>7. CASE HandOver(x)
  <2>1. owned' \in SUBSET Role
    BY <1>7, TypeParts DEF HandOver, Handed
  <2> QED
    BY <1>0, <1>1, <1>7, <2>1, TypeParts, TypePartsNext DEF HandOver, World
<1> QED
  BY <1>2, <1>3, <1>4, <1>5, <1>6, <1>7
  DEF PanelStep, Open, ToggleEvidence, SelectMemberAction, SelectRoles, GiveUp, Confirm, Submit,
      Prepare, SendAudit, AttachFiles, StartRoles, Mute, ReportRefusal, Report, Publish, Close

\* The steps of the other owners of roles, of the commands and of the surroundings.
OwnerStep ==
  \/ \E r \in Role : CaseContains(r)
  \/ \E r \in Role : CaseReleases(r)
  \/ \E r \in Role : WatchAssigns(r)
  \/ WatchReleases \/ MemberUpdate

CommandStep ==
  RoleAdd \/ RoleRemoveChannels \/ RoleNotification \/ RoleRemove \/ ChannelDeleted \/ StoreOffers

OutsideStep == SettingsChange \/ MessageGone \/ MemberLeaves \/ RoleTakenByHand \/ Crash

\* Every step is one of these.
LEMMA StepKinds ==
  ASSUME ManualNext
  PROVE  (\E x \in Panel : PanelStep(x)) \/ OwnerStep \/ CommandStep \/ OutsideStep
BY Zenon DEF ManualNext, PanelStep, OwnerStep, CommandStep, OutsideStep

\* The other owners of roles keep the types.
LEMMA OwnerStepTypes ==
  ASSUME ManualTypeOK, OwnerStep
  PROVE  ManualTypeOK'
<1>1. UNCHANGED <<World, message, member, lock, panel, audit, granted>>
  BY DEF OwnerStep, CaseContains, CaseReleases, WatchAssigns, WatchReleases, MemberUpdate
<1>2. held' \in SUBSET Role /\ owned' \in SUBSET Role
  BY TypeParts DEF OwnerStep, CaseContains, CaseReleases, WatchAssigns, WatchReleases, MemberUpdate
<1>3. seen' \in SUBSET Role
  BY <1>2, TypeParts
  DEF OwnerStep, CaseContains, CaseReleases, WatchAssigns, WatchReleases, MemberUpdate, CacheFollows
<1>4. watch' \in [role : Role \cup {NoRole}, manual : BOOLEAN]
  <2>1. ASSUME NEW r \in Role, watch' = [role |-> r, manual |-> FALSE]
        PROVE  watch' \in [role : Role \cup {NoRole}, manual : BOOLEAN]
    BY <2>1
  <2>0. NoWatch \in [role : Role \cup {NoRole}, manual : BOOLEAN]
    BY DEF NoWatch
  <2>2. CASE watch' \in {watch, NoWatch}
    BY <2>0, <2>2, TypeParts
  <2>3. CASE \E r \in Role : WatchAssigns(r)
    BY <2>1, <2>3 DEF WatchAssigns
  <2>4. CASE \A r \in Role : ~WatchAssigns(r)
    BY <2>2, <2>4 DEF OwnerStep, CaseContains, CaseReleases, WatchReleases, MemberUpdate
  <2> QED
    BY <2>3, <2>4
<1>5. bound' \in [Interference -> Nat]
  BY TypeParts, Spent, Kinds
  DEF OwnerStep, CaseContains, CaseReleases, WatchAssigns, WatchReleases, MemberUpdate
<1> QED
  BY <1>1, <1>2, <1>3, <1>4, <1>5, TypeParts, TypePartsNext DEF World

\* A command computes a map of offers from the one that is stored.
Computed == \E map \in [Role -> Offer] : Computes(map)

\* Every command computes a map from the stored one.
LEMMA CommandComputes ==
  ASSUME ManualTypeOK, CommandStep, ~StoreOffers
  PROVE  Computed
<1>0. offers \in [Role -> Offer] /\ NoOffer \in Offer
  BY TypeParts DEF Offer
<1>1. CASE RoleAdd
  <2>1. PICK r \in Role, channels \in (SUBSET Channel) \ {{}} :
          Computes([offers EXCEPT ![r].sources = @ \cup channels])
    BY <1>1 DEF RoleAdd
  <2>2. [offers EXCEPT ![r].sources = @ \cup channels] \in [Role -> Offer]
    BY <1>0 DEF Offer, NoOffer
  <2> QED
    BY <2>1, <2>2 DEF Computed
<1>2. CASE RoleRemoveChannels
  <2>1. PICK r \in Role, channels \in (SUBSET Channel) \ {{}} :
          /\ offers[r] # NoOffer /\ offers[r].sources \ channels # {}
          /\ Computes([offers EXCEPT ![r].sources = @ \ channels])
    BY <1>2 DEF RoleRemoveChannels
  <2>2. [offers EXCEPT ![r].sources = @ \ channels] \in [Role -> Offer]
    BY <1>0, <2>1 DEF Offer, NoOffer
  <2> QED
    BY <2>1, <2>2 DEF Computed
<1>3. CASE RoleNotification
  <2>1. PICK r \in Role, c \in Channel \cup {NoChannel} :
          offers[r] # NoOffer /\ Computes([offers EXCEPT ![r].notify = c])
    BY <1>3 DEF RoleNotification
  <2>2. [offers EXCEPT ![r].notify = c] \in [Role -> Offer]
    BY <1>0, <2>1 DEF Offer, NoOffer
  <2> QED
    BY <2>1, <2>2 DEF Computed
<1>4. CASE RoleRemove
  <2>1. PICK r \in Role : Computes([offers EXCEPT ![r] = NoOffer])
    BY <1>4 DEF RoleRemove
  <2>2. [offers EXCEPT ![r] = NoOffer] \in [Role -> Offer]
    BY <1>0
  <2> QED
    BY <2>1, <2>2 DEF Computed
<1>5. CASE ChannelDeleted
  <2>1. PICK c \in Channel \ {Here} :
          LET cleared(o) == IF o.sources \ {c} = {} THEN NoOffer
                            ELSE [sources |-> o.sources \ {c},
                                  notify |-> IF o.notify = c THEN NoChannel ELSE o.notify]
          IN Computes([r \in Role |-> cleared(offers[r])])
    BY <1>5 DEF ChannelDeleted
  <2> DEFINE cleared(o) == IF o.sources \ {c} = {} THEN NoOffer
                           ELSE [sources |-> o.sources \ {c},
                                 notify |-> IF o.notify = c THEN NoChannel ELSE o.notify]
  <2>2. \A o \in Offer : cleared(o) \in Offer
    BY <1>0 DEF Offer, NoOffer
  <2>3. [r \in Role |-> cleared(offers[r])] \in [Role -> Offer]
    BY <1>0, <2>2
  <2>4. Computes([r \in Role |-> cleared(offers[r])])
    BY <2>1
  <2> QED
    BY <2>3, <2>4 DEF Computed
<1> QED
  BY <1>1, <1>2, <1>3, <1>4, <1>5 DEF CommandStep

\* The commands keep the types.
LEMMA CommandStepTypes ==
  ASSUME ManualTypeOK, CommandStep
  PROVE  ManualTypeOK'
<1>1. CASE StoreOffers
  BY <1>1, TypeParts, TypePartsNext DEF StoreOffers, Member
<1>2. CASE ~StoreOffers
  <2>1. PICK map \in [Role -> Offer] : Computes(map)
    BY <1>2, CommandComputes DEF Computed
  <2>2. bound' \in [Interference -> Nat]
    BY <2>1, TypeParts, Spent, Kinds DEF Computes
  <2> QED
    BY <2>1, <2>2, TypeParts, TypePartsNext DEF Computes, Member
<1> QED
  BY <1>1, <1>2

\* A crash ends every open panel and keeps its results.
LEMMA Crashed ==
  ASSUME ManualTypeOK, Crash
  PROVE  /\ panel' \in [Panel -> PanelState]
         /\ \A y \in Panel :
              /\ panel'[y].results = panel[y].results
              /\ panel'[y].at = IF panel[y].at = "unused" THEN "unused" ELSE "ended"
              /\ panel'[y].at = "unused" => panel'[y] = panel[y]
<1> DEFINE end(y) == [Unused EXCEPT !.at = "ended", !.results = panel[y].results]
<1>0. panel \in [Panel -> PanelState]
  BY TypeParts
<1>1. panel' = [y \in Panel |-> IF panel[y].at = "unused" THEN panel[y] ELSE end(y)]
  BY DEF Crash, At
<1>2. ASSUME NEW y \in Panel
      PROVE  end(y) \in PanelState /\ end(y).at = "ended" /\ end(y).results = panel[y].results
  BY <1>0, NoResultsType DEF Unused, PanelState, Step, Action
<1> HIDE DEF end
<1> QED
  BY <1>0, <1>1, <1>2

\* The surroundings keep the types.
LEMMA OutsideStepTypes ==
  ASSUME ManualTypeOK, OutsideStep
  PROVE  ManualTypeOK'
<1>1. CASE SettingsChange
  <2>1. setup' \in [evidence : BOOLEAN, dryRun : BOOLEAN, protected : BOOLEAN, mutes : BOOLEAN]
    <3>1. PICK field \in {"evidence", "dryRun", "protected", "mutes"} :
            setup' = [setup EXCEPT ![field] = ~@]
      BY <1>1, TypeParts DEF SettingsChange
    <3> QED
      BY <3>1, TypeParts
  <2> QED
    BY <1>1, <2>1, TypeParts, TypePartsNext, Spent, Kinds DEF SettingsChange, Member
<1>2. CASE MessageGone
  BY <1>2, TypeParts, TypePartsNext, Spent, Kinds DEF MessageGone, Member, World
<1>3. CASE MemberLeaves
  BY <1>3, TypeParts, TypePartsNext, Spent, Kinds DEF MemberLeaves, World
<1>4. CASE RoleTakenByHand
  BY <1>4, TypeParts, TypePartsNext, Spent, Kinds DEF RoleTakenByHand, CacheFollows, World
<1>5. CASE Crash
  <2>1. granted' \in SUBSET Role
    BY <1>5, TypeParts DEF Crash
  <2> QED
    BY <1>5, <2>1, Crashed, TypeParts, TypePartsNext, Spent, Kinds DEF Crash
<1> QED
  BY <1>1, <1>2, <1>3, <1>4, <1>5 DEF OutsideStep

\* So does every step.
LEMMA StepTypes ==
  ASSUME ManualTypeOK, [ManualNext]_manualVars
  PROVE  ManualTypeOK'
<1>1. CASE ManualNext
  BY <1>1, StepKinds, PanelStepTypes, OwnerStepTypes, CommandStepTypes, OutsideStepTypes
<1>2. CASE UNCHANGED manualVars
  BY <1>2, TypeParts, TypePartsNext DEF manualVars
<1> QED
  BY <1>1, <1>2

\* Panels, audits, roles, the two other owners and the offers keep their types, for any
\* panels, roles, channels and bounds.
THEOREM TypeCorrect == ManualSpec => []ManualTypeOK
<1>1. ManualInit => ManualTypeOK
  BY InitTypes
<1>2. ManualTypeOK /\ [ManualNext]_manualVars => ManualTypeOK'
  BY StepTypes
<1> QED
  BY <1>1, <1>2, PTL DEF ManualSpec

-----------------------------------------------------------------------------
(* One message is punished once, by a panel whose audit stands *)

\* The steps of a panel whose source message was deleted for it.
Deep == {"punishing", "locking", "adding", "handing", "muting", "reporting", "publishing",
         "closing"}
Past(x) == panel[x].at \in Deep \/ panel[x].results # NoResults

\* The message is gone once a panel is past its deletion, and no other panel gets there.
Alone ==
  \A x \in Panel : Past(x) =>
      /\ ~message /\ panel[x].at \in Deep \cup {"ended"}
      /\ \A y \in Panel : Past(y) => x = y

\* What the private channel shows of a panel.
Audited(x) ==
  /\ panel[x].at = "attaching" => audit[x].posted
  /\ Past(x) \/ panel[x].at \in {"deleting", "refused"} =>
       audit[x].posted /\ (panel[x].evidence /\ panel[x].at # "ended" => audit[x].files)
  /\ audit[x].deletion = "Failed" => panel[x].at = "ended" /\ ~Past(x)
  /\ audit[x].deletion = "Completed" => ~message

AuditInv == Alone /\ \A x \in Panel : Audited(x)

\* What the run checks follows.
LEMMA AuditInvSuffices ==
  ASSUME ManualTypeOK, AuditInv
  PROVE  PunishedOnce
<1>1. ASSUME NEW x \in Panel, Succeeded(x)
      PROVE  Past(x)
  BY <1>1, NoResultsType DEF Succeeded, Past
<1>2. OnePunishment
  BY <1>1 DEF OnePunishment, AuditInv, Alone
<1>3. AuditStands
  BY DEF AuditStands, AuditInv, Audited, Past, Deep, At
<1> QED
  BY <1>2, <1>3 DEF PunishedOnce

\* No panel has begun.
LEMMA InitAudit ==
  ASSUME ManualInit
  PROVE  AuditInv
<1>1. \A x \in Panel : panel[x].at = "unused" /\ ~Past(x) /\ audit[x].deletion = "Pending"
  BY DEF ManualInit, Unused, NoAudit, Past, Deep
<1> QED
  BY <1>1 DEF AuditInv, Alone, Audited

\* A step of panel x keeps the invariant when it keeps it of x, does not bring the message
\* back, and takes x past the deletion only by deleting the message.
LEMMA Undisturbed ==
  ASSUME AuditInv, NEW x \in Panel, OtherPanels(x), OtherAudits(x), message' => message,
         Past(x)' => ~message' /\ panel'[x].at \in Deep \cup {"ended"} /\ (Past(x) \/ message),
         Audited(x)'
  PROVE  AuditInv'
<1>1. ASSUME NEW y \in Panel, y # x
      PROVE  /\ (Past(y)' <=> Past(y)) /\ Audited(y)'
             /\ Past(y) => ~message' /\ panel'[y].at \in Deep \cup {"ended"}
  <2>1. panel'[y] = panel[y] /\ audit'[y] = audit[y]
    BY <1>1 DEF OtherPanels, OtherAudits
  <2>2. Past(y)' <=> Past(y)
    BY <2>1 DEF Past
  <2> QED
    BY <1>1, <2>1, <2>2 DEF AuditInv, Alone, Audited
<1>2. Alone'
  <2>1. ASSUME NEW y \in Panel, Past(y)'
        PROVE  ~message' /\ panel'[y].at \in Deep \cup {"ended"}
    BY <1>1, <2>1
  <2>2. ASSUME NEW y \in Panel, Past(y)', NEW z \in Panel, Past(z)'
        PROVE  y = z
    BY <1>1, <2>2 DEF AuditInv, Alone
  <2> QED
    BY <2>1, <2>2 DEF Alone
<1>3. ASSUME NEW y \in Panel
      PROVE  Audited(y)'
  <2>1. CASE y = x
    BY <2>1 DEF Audited, Past
  <2>2. CASE y # x
    BY <1>1, <2>2
  <2> QED
    BY <2>1, <2>2
<1> QED
  BY <1>2, <1>3 DEF AuditInv

\* Until it reaches the deletion a panel has no results, and its steps keep the audit.
LEMMA EarlySteps ==
  ASSUME ManualTypeOK, AuditInv, NEW x \in Panel,
         Open(x) \/ ToggleEvidence(x) \/ SelectMemberAction(x) \/ SelectRoles(x) \/ GiveUp(x)
           \/ Confirm(x) \/ Submit(x) \/ Prepare(x)
  PROVE  AuditInv'
<1> USE TypeParts DEF At
<1>1. panel[x].at \in {"unused", "open", "details", "preparing"} /\ UNCHANGED <<message, audit>>
  BY DEF Open, ToggleEvidence, SelectMemberAction, SelectRoles, GiveUp, Confirm, Submit, Prepare,
         Member
<1>2. /\ OtherPanels(x) /\ panel'[x].results = panel[x].results
      /\ panel'[x].at \in {"open", "details", "preparing", "auditing", "ended"}
  <2>1. CASE ToggleEvidence(x) \/ SelectMemberAction(x) \/ SelectRoles(x)
    BY <2>1, Edited
  <2>2. CASE Open(x) \/ Confirm(x) \/ Submit(x)
    BY <2>2, Moved DEF Open, Confirm, Submit, Step
  <2>3. CASE GiveUp(x)
    BY <2>3, Ended DEF GiveUp
  <2>4. CASE Prepare(x)
    BY <2>4, Ended, Moved DEF Prepare, Step
  <2> QED
    BY <2>1, <2>2, <2>3, <2>4
<1>3. ~Past(x) /\ ~Past(x)'
  BY <1>1, <1>2 DEF AuditInv, Alone, Past, Deep
<1>4. Audited(x)'
  BY <1>1, <1>2, <1>3 DEF AuditInv, Audited
<1> QED
  BY <1>1, <1>2, <1>3, <1>4, Undisturbed DEF OtherAudits

\* The audit is posted and the files are attached before anything else happens.
LEMMA AuditSteps ==
  ASSUME ManualTypeOK, AuditInv, NEW x \in Panel, SendAudit(x) \/ AttachFiles(x)
  PROVE  AuditInv'
<1> USE TypeParts DEF At
<1>1. panel[x].at \in {"auditing", "attaching"} /\ UNCHANGED message
  BY DEF SendAudit, AttachFiles
<1>2. ~Past(x) /\ panel[x].results = NoResults
  BY <1>1 DEF AuditInv, Alone, Past, Deep
<1>3. CASE SendAudit(x)
  <2>1. CASE /\ Moves(x, IF panel[x].evidence THEN "attaching" ELSE "deleting")
             /\ audit' = [audit EXCEPT ![x].posted = TRUE]
    <3>1. /\ OtherPanels(x) /\ OtherAudits(x) /\ Chosen(x) /\ panel'[x].results = NoResults
          /\ panel'[x].at = (IF panel[x].evidence THEN "attaching" ELSE "deleting")
          /\ audit'[x].posted /\ audit'[x].deletion = audit[x].deletion
      BY <1>2, <2>1, Moved, Posted DEF Step
    <3>2. ~Past(x)'
      BY <3>1 DEF Past, Deep
    <3>3. Audited(x)'
      BY <1>1, <3>1, <3>2 DEF AuditInv, Audited, Chosen
    <3> QED
      BY <1>1, <3>1, <3>2, <3>3, Undisturbed
  <2>2. CASE Ends(x) /\ UNCHANGED audit
    <3>1. OtherPanels(x) /\ panel'[x].at = "ended" /\ panel'[x].results = NoResults
      BY <1>2, <2>2, Ended
    <3>2. ~Past(x)'
      BY <3>1 DEF Past, Deep
    <3>3. Audited(x)'
      BY <1>1, <2>2, <3>1, <3>2 DEF AuditInv, Audited
    <3> QED
      BY <1>1, <2>2, <3>1, <3>2, <3>3, Undisturbed DEF OtherAudits
  <2> QED
    BY <1>3, <2>1, <2>2 DEF SendAudit, AuditFailed
<1>4. CASE AttachFiles(x)
  <2>0. panel[x].at = "attaching" /\ audit[x].posted
    BY <1>4 DEF AttachFiles, AuditInv, Audited
  <2>1. CASE Moves(x, "deleting") /\ audit' = [audit EXCEPT ![x].files = TRUE]
    <3>1. /\ OtherPanels(x) /\ OtherAudits(x) /\ panel'[x].results = NoResults
          /\ panel'[x].at = "deleting" /\ audit'[x].posted /\ audit'[x].files
          /\ audit'[x].deletion = audit[x].deletion
      BY <1>2, <2>0, <2>1, Moved, Attached DEF Step
    <3>2. ~Past(x)'
      BY <3>1 DEF Past, Deep
    <3>3. Audited(x)'
      BY <1>1, <3>1, <3>2 DEF AuditInv, Audited
    <3> QED
      BY <1>1, <3>1, <3>2, <3>3, Undisturbed
  <2>2. CASE Ends(x) /\ \E taken \in BOOLEAN : audit' = [audit EXCEPT ![x].posted = ~taken]
    <3>1. OtherPanels(x) /\ panel'[x].at = "ended" /\ panel'[x].results = NoResults
      BY <1>2, <2>2, Ended
    <3>2. OtherAudits(x) /\ audit'[x].deletion = audit[x].deletion
      BY <2>2, Posted
    <3>3. ~Past(x)'
      BY <3>1 DEF Past, Deep
    <3>4. Audited(x)'
      BY <1>1, <3>1, <3>2, <3>3 DEF AuditInv, Audited
    <3> QED
      BY <1>1, <3>1, <3>2, <3>3, <3>4, Undisturbed
  <2> QED
    BY <1>4, <2>1, <2>2 DEF AttachFiles, AuditFailed
<1> QED
  BY <1>3, <1>4

\* A panel goes on only when the message was still there and its request deleted it.
LEMMA DeletionStep ==
  ASSUME ManualTypeOK, AuditInv, NEW x \in Panel, DeleteSource(x)
  PROVE  AuditInv'
<1> USE TypeParts DEF At
<1>1. panel[x].at = "deleting" /\ UNCHANGED audit /\ message' \in BOOLEAN
  BY DEF DeleteSource
<1>2. ~Past(x) /\ panel[x].results = NoResults
  BY <1>1 DEF AuditInv, Alone, Past, Deep
<1>3. /\ OtherPanels(x) /\ Chosen(x) /\ panel'[x].results = NoResults
      /\ panel'[x].at \in {"punishing", "refused"}
      /\ panel'[x].at = "punishing" => message /\ ~message'
      /\ message' => message
  <2>1. CASE \E deleted \in Answers : /\ Moves(x, IF deleted THEN "punishing" ELSE "refused")
                                     /\ message' = FALSE
    BY <1>2, <2>1, Moved DEF Answers, Step
  <2>2. CASE message /\ Moves(x, "refused")
    BY <1>2, <2>2, Moved DEF Step
  <2> QED
    BY <2>1, <2>2 DEF DeleteSource
<1>4. Past(x)' => panel'[x].at = "punishing"
  BY <1>3 DEF Past, Deep
<1>5. Audited(x)'
  BY <1>1, <1>2, <1>3, <1>4 DEF AuditInv, Audited, Chosen
<1> QED
  BY <1>1, <1>3, <1>4, <1>5, Undisturbed DEF OtherAudits, Deep

\* A panel past its deletion keeps its audit whatever it does to the member.
LEMMA PunishingSteps ==
  ASSUME ManualTypeOK, AuditInv, NEW x \in Panel, PanelStep(x),
         ActOnMember(x) \/ StartRoles(x) \/ LockRoles(x) \/ AddRoles(x) \/ HandOver(x) \/ Mute(x)
  PROVE  AuditInv'
<1> USE TypeParts DEF At
<1>1. panel[x].at \in {"punishing", "locking", "adding", "handing", "muting"}
      /\ UNCHANGED <<message, audit>>
  BY DEF ActOnMember, StartRoles, LockRoles, AddRoles, HandOver, Mute, Member
<1>2. Past(x) /\ ~message
  BY <1>1 DEF AuditInv, Alone, Past, Deep
<1>3. panel'[x].at \in {"locking", "adding", "handing", "muting", "reporting"}
      /\ panel'[x].evidence = panel[x].evidence
  <2>1. CASE ActOnMember(x)
    BY <2>1, Resulted DEF ActOnMember, Target, Status, Chosen
  <2>2. CASE StartRoles(x)
    BY <2>2, RolesStarted DEF Chosen
  <2>3. CASE LockRoles(x)
    BY <2>3, LockTaken
  <2>4. CASE AddRoles(x)
    <3> DEFINE pending == {r \in panel[x].roles : panel[x].results[r] = "none"}
    <3>1. pending \in SUBSET Role
      BY DEF PanelState
    <3>2. PICK status \in {"succeeded", "failed"} : panel' = Outcome(x, pending, status)
      BY <2>4 DEF AddRoles
    <3> QED
      BY <3>1, <3>2, OutcomeRecorded DEF Status, Chosen
  <2>5. CASE HandOver(x)
    BY <2>5, Moved DEF HandOver, Step, Chosen
  <2>6. CASE Mute(x)
    BY <2>6, Resulted DEF Mute, Target, Status, Chosen
  <2> QED
    BY <2>1, <2>2, <2>3, <2>4, <2>5, <2>6
<1>4. Past(x)' /\ panel'[x].at \in Deep
  BY <1>3 DEF Past, Deep
<1>5. Audited(x)'
  BY <1>1, <1>2, <1>3, <1>4 DEF AuditInv, Audited
<1>6. OtherPanels(x)
  BY PanelTypes
<1> QED
  BY <1>1, <1>2, <1>4, <1>5, <1>6, Undisturbed DEF OtherAudits

\* The audit is finished with what became of the deletion.
LEMMA ClosingSteps ==
  ASSUME ManualTypeOK, AuditInv, NEW x \in Panel,
         ReportRefusal(x) \/ Report(x) \/ Publish(x) \/ Close(x)
  PROVE  AuditInv'
<1> USE TypeParts DEF At
<1>1. UNCHANGED message /\ panel[x].at \in {"refused", "reporting", "publishing", "closing"}
  BY DEF ReportRefusal, Report, Publish, Close
<1>2. CASE ReportRefusal(x)
  <2>1. ~Past(x) /\ panel[x].results = NoResults /\ panel[x].at = "refused"
    BY <1>2 DEF ReportRefusal, AuditInv, Alone, Past, Deep
  <2>2. OtherPanels(x) /\ panel'[x].at = "ended" /\ panel'[x].results = NoResults
    BY <1>2, <2>1, Ended DEF ReportRefusal
  <2>3. /\ OtherAudits(x) /\ audit'[x].posted = audit[x].posted /\ audit'[x].files = audit[x].files
        /\ audit'[x].deletion \in {audit[x].deletion, "Failed"}
    BY <1>2, AuditEdited DEF ReportRefusal
  <2>4. ~Past(x)'
    BY <2>2 DEF Past, Deep
  <2>5. Audited(x)'
    BY <1>1, <2>1, <2>2, <2>3, <2>4 DEF AuditInv, Audited
  <2> QED
    BY <1>1, <2>2, <2>3, <2>4, <2>5, Undisturbed
<1>3. CASE Report(x) \/ Publish(x) \/ Close(x)
  <2>1. Past(x) /\ ~message /\ panel[x].at \in {"reporting", "publishing", "closing"}
    BY <1>3 DEF Report, Publish, Close, AuditInv, Alone, Past, Deep
  <2>2. /\ OtherPanels(x) /\ panel'[x].at \in {"publishing", "closing", "ended"}
        /\ panel'[x].at # "ended" => panel'[x].evidence = panel[x].evidence
    BY <1>3, Ended, Moved DEF Report, Publish, Close, Chosen, Step
  <2>3. /\ OtherAudits(x) /\ audit'[x].posted = audit[x].posted /\ audit'[x].files = audit[x].files
        /\ audit'[x].deletion \in {audit[x].deletion, "Completed"}
    BY <1>3, AuditEdited, Told DEF Report, Publish, Close
  <2>4. Audited(x)'
    BY <1>1, <2>1, <2>2, <2>3 DEF AuditInv, Audited
  <2> QED
    BY <1>1, <2>1, <2>2, <2>3, <2>4, Undisturbed DEF Deep
<1> QED
  BY <1>2, <1>3

\* Nobody else writes an audit or moves a panel, but for a crash, which ends them.
LEMMA StepAudit ==
  ASSUME ManualTypeOK, AuditInv, [ManualNext]_manualVars
  PROVE  AuditInv'
<1>1. ASSUME NEW x \in Panel, PanelStep(x)
      PROVE  AuditInv'
  BY <1>1, EarlySteps, AuditSteps, DeletionStep, PunishingSteps, ClosingSteps DEF PanelStep
<1>2. CASE UNCHANGED <<panel, audit>> /\ (message' => message)
  <2>1. \A x \in Panel : Past(x)' <=> Past(x)
    BY <1>2 DEF Past
  <2> QED
    BY <1>2, <2>1 DEF AuditInv, Alone, Audited
<1>3. CASE Crash
  <2>1. UNCHANGED <<audit, message>>
    BY <1>3 DEF Crash
  <2>2. ASSUME NEW y \in Panel
        PROVE  /\ panel'[y].at \in {"unused", "ended"}
               /\ Past(y)' => Past(y) /\ panel'[y].at = "ended"
    BY <1>3, Crashed DEF Past, Deep, AuditInv, Alone
  <2>3. ASSUME NEW y \in Panel
        PROVE  Audited(y)'
    <3>1. audit[y].deletion = "Failed" => panel'[y].at = "ended"
      BY <1>3, Crashed DEF AuditInv, Audited
    <3> QED
      BY <2>1, <2>2, <3>1 DEF AuditInv, Audited
  <2>4. Alone'
    BY <2>1, <2>2 DEF AuditInv, Alone
  <2> QED
    BY <2>3, <2>4 DEF AuditInv
<1>4. CASE OwnerStep \/ CommandStep \/ (OutsideStep /\ ~Crash)
  <2>1. UNCHANGED <<panel, audit>> /\ (message' => message)
    BY <1>4 DEF OwnerStep, CaseContains, CaseReleases, WatchAssigns, WatchReleases, MemberUpdate,
                CommandStep, RoleAdd, RoleRemoveChannels, RoleNotification, RoleRemove,
                ChannelDeleted, StoreOffers, Computes, OutsideStep, SettingsChange, MessageGone,
                MemberLeaves, RoleTakenByHand
  <2> QED
    BY <1>2, <2>1
<1>5. CASE UNCHANGED manualVars
  BY <1>2, <1>5 DEF manualVars
<1> QED
  BY <1>1, <1>3, <1>4, <1>5, StepKinds

\* A message is punished once, whatever the panels on it, the faults and the crashes, and by
\* a panel whose audit stands in the private channel.
THEOREM PunishedByOne == ManualSpec => []PunishedOnce
<1>1. ManualInit => ManualTypeOK /\ AuditInv
  BY InitTypes, InitAudit
<1>2. ManualTypeOK /\ AuditInv /\ [ManualNext]_manualVars => ManualTypeOK' /\ AuditInv'
  BY StepTypes, StepAudit
<1>3. ManualTypeOK /\ AuditInv => PunishedOnce
  BY AuditInvSuffices
<1> QED
  BY <1>1, <1>2, <1>3, PTL DEF ManualSpec

-----------------------------------------------------------------------------
(* A role given by a moderator stays *)

\* The lock is held from the marking of the roles to the handover, and what a panel has
\* given until then is of the roles it was asked for.
Locked ==
  \A x \in Panel :
    /\ lock = x <=> panel[x].at \in {"adding", "handing"}
    /\ panel[x].at \in {"punishing", "locking", "adding", "handing"} =>
         Given(x) \subseteq panel[x].roles

\* What the panel that holds the lock has given and not yet handed over.
Settled == IF lock = NoPanel THEN {} ELSE Given(lock)

\* A role a moderator has given is on the member, no case owns it but the one that is just
\* losing it, and JoinWatch keeps it for a manual reason; a role that a panel has marked
\* and not yet given is not among them.
Guarded ==
  /\ granted \subseteq held
  /\ owned \cap granted \subseteq Settled
  /\ watch.role \in granted => watch.manual
  /\ \A x \in Panel : panel[x].at = "adding" =>
       /\ watch.role \in panel[x].roles => watch.manual
       /\ \A r \in panel[x].marked \cap granted : panel[x].results[r] # "none"

\* The surroundings: the member cache follows Discord at once, or nobody else takes a role.
Prompt ==
  bound["lags"] = 0 \/ (bound["cases"] = 0 /\ bound["watches"] = 0 /\ bound["changes"] = 0)

Timely ==
  \/ bound["lags"] = 0 /\ seen = held
  \/ /\ bound["cases"] = 0 /\ bound["watches"] = 0 /\ bound["changes"] = 0
     /\ owned = {} /\ watch = NoWatch /\ seen \subseteq held

RoleInv == Locked /\ Guarded /\ Timely

\* No step makes the cache late, and what does not interfere will not.
BoundsFall ==
  /\ bound'["lags"] = bound["lags"]
  /\ \A k \in {"cases", "watches", "changes"} : bound[k] = 0 => bound'[k] = 0

\* A bound that is used, other than that of the cache, falls.
LEMMA SpendFalls ==
  ASSUME ManualTypeOK, UNCHANGED bound \/ \E k \in Interference \ {"lags"} : Spend(k)
  PROVE  BoundsFall
<1>1. CASE UNCHANGED bound
  BY <1>1 DEF BoundsFall
<1>2. ASSUME NEW k \in Interference \ {"lags"}, Spend(k)
      PROVE  BoundsFall
  BY <1>2, Spent, Kinds, TypeParts DEF BoundsFall
<1> QED
  BY <1>1, <1>2

\* No step does more than that to the bounds.
LEMMA StepBounds ==
  ASSUME ManualTypeOK, ManualNext
  PROVE  BoundsFall
<1> USE Kinds, SpendFalls
<1>1. ASSUME NEW x \in Panel, PanelStep(x)
      PROVE  BoundsFall
  <2>1. CASE Open(x) \/ ToggleEvidence(x) \/ SelectMemberAction(x) \/ SelectRoles(x) \/ GiveUp(x)
             \/ Confirm(x) \/ Submit(x) \/ Prepare(x)
    BY <2>1 DEF Open, ToggleEvidence, SelectMemberAction, SelectRoles, GiveUp, Confirm, Submit,
                Prepare
  <2>2. CASE SendAudit(x) \/ AttachFiles(x) \/ DeleteSource(x)
    BY <2>2 DEF SendAudit, AttachFiles, DeleteSource
  <2>3. CASE ActOnMember(x) \/ StartRoles(x) \/ LockRoles(x)
    BY <2>3 DEF ActOnMember, StartRoles, LockRoles
  <2>4. CASE AddRoles(x) \/ HandOver(x) \/ Mute(x)
    BY <2>4 DEF AddRoles, HandOver, Mute
  <2>5. CASE ReportRefusal(x) \/ Report(x) \/ Publish(x) \/ Close(x)
    BY <2>5 DEF ReportRefusal, Report, Publish, Close, Finalized
  <2> QED
    BY <1>1, <2>1, <2>2, <2>3, <2>4, <2>5 DEF PanelStep
<1>2. CASE OwnerStep
  BY <1>2 DEF OwnerStep, CaseContains, CaseReleases, WatchAssigns, WatchReleases, MemberUpdate
<1>3. CASE CommandStep
  BY <1>3 DEF CommandStep, RoleAdd, RoleRemoveChannels, RoleNotification, RoleRemove,
              ChannelDeleted, StoreOffers, Computes
<1>4. CASE OutsideStep
  BY <1>4 DEF OutsideStep, SettingsChange, MessageGone, MemberLeaves, RoleTakenByHand, Crash
<1> QED
  BY <1>1, <1>2, <1>3, <1>4, StepKinds

\* What the other panels have given does not change.
LEMMA OthersGiven ==
  ASSUME NEW x \in Panel, OtherPanels(x), NEW y \in Panel, y # x
  PROVE  panel'[y] = panel[y] /\ Given(y)' = Given(y)
BY DEF OtherPanels, Given

\* Nothing was given, and the cache is not behind.
LEMMA InitRoles ==
  ASSUME ManualInit, Prompt
  PROVE  RoleInv
<1>1. \A x \in Panel : panel[x].at = "unused"
  BY DEF ManualInit, Unused
<1>2. Locked /\ Guarded
  BY <1>1, ManualAssumption DEF ManualInit, Locked, Guarded
<1>3. Timely
  BY DEF ManualInit, Prompt, Timely
<1> QED
  BY <1>2, <1>3 DEF RoleInv

\* A step of a panel that neither takes nor holds the lock.
LEMMA AwayFromLock ==
  ASSUME ManualTypeOK, RoleInv, BoundsFall, NEW x \in Panel, OtherPanels(x), UNCHANGED Member,
         panel[x].at \notin {"adding", "handing"}, panel'[x].at \notin {"adding", "handing"},
         panel'[x].at \in {"punishing", "locking"} => Given(x)' \subseteq panel'[x].roles
  PROVE  RoleInv'
<1> USE TypeParts DEF Member
<1>1. ASSUME NEW y \in Panel, y # x
      PROVE  panel'[y] = panel[y] /\ Given(y)' = Given(y)
  BY <1>1, OthersGiven
<1>2. lock # x
  BY DEF RoleInv, Locked
<1>3. Locked'
  <2>1. ASSUME NEW y \in Panel
        PROVE  /\ lock' = y <=> panel'[y].at \in {"adding", "handing"}
               /\ panel'[y].at \in {"punishing", "locking", "adding", "handing"} =>
                    Given(y)' \subseteq panel'[y].roles
    <3>1. CASE y = x
      <4>1. Given(y)' = Given(x)'
        BY <3>1 DEF Given
      <4> QED
        BY <1>2, <3>1, <4>1
    <3>2. CASE y # x
      BY <1>1, <3>2 DEF RoleInv, Locked
    <3> QED
      BY <3>1, <3>2
  <2> QED
    BY <2>1 DEF Locked
<1>4. Settled' = Settled
  BY <1>1, <1>2 DEF Settled, Given
<1>5. Guarded'
  <2>1. granted' \subseteq held' /\ owned' \cap granted' \subseteq Settled'
        /\ (watch'.role \in granted' => watch'.manual)
    BY <1>4 DEF RoleInv, Guarded
  <2>2. ASSUME NEW y \in Panel, panel'[y].at = "adding"
        PROVE  /\ watch'.role \in panel'[y].roles => watch'.manual
               /\ \A r \in panel'[y].marked \cap granted' : panel'[y].results[r] # "none"
    BY <1>1, <2>2 DEF RoleInv, Guarded
  <2> QED
    BY <2>1, <2>2 DEF Guarded
<1>6. Timely'
  BY DEF RoleInv, Timely, BoundsFall
<1> QED
  BY <1>3, <1>5, <1>6 DEF RoleInv

\* The steps of a panel that touch no role keep what was given.
LEMMA PlainSteps ==
  ASSUME ManualTypeOK, AuditInv, RoleInv, BoundsFall, NEW x \in Panel, PanelStep(x),
         ~ActOnMember(x), ~LockRoles(x), ~AddRoles(x), ~HandOver(x)
  PROVE  RoleInv'
<1> USE TypeParts DEF At
<1>1. OtherPanels(x)
  BY PanelTypes
<1>2. CASE Open(x) \/ ToggleEvidence(x) \/ SelectMemberAction(x) \/ SelectRoles(x) \/ GiveUp(x)
           \/ Confirm(x) \/ Submit(x) \/ Prepare(x)
  <2>1. panel[x].at \in {"unused", "open", "details", "preparing"} /\ UNCHANGED Member
    BY <1>2
    DEF Open, ToggleEvidence, SelectMemberAction, SelectRoles, GiveUp, Confirm, Submit, Prepare
  <2>2. panel'[x].at \in {"open", "details", "preparing", "auditing", "ended"}
    BY <1>2, Edited, Moved, Ended DEF Open, GiveUp, Confirm, Submit, Prepare, Step
  <2> QED
    BY <1>1, <2>1, <2>2, AwayFromLock
<1>3. CASE SendAudit(x) \/ AttachFiles(x)
  <2>1. panel[x].at \in {"auditing", "attaching"} /\ UNCHANGED Member
    BY <1>3 DEF SendAudit, AttachFiles
  <2>2. panel'[x].at \in {"attaching", "deleting", "ended"}
    BY <1>3, Moved, Ended DEF SendAudit, AttachFiles, AuditFailed, Step
  <2> QED
    BY <1>1, <2>1, <2>2, AwayFromLock
<1>4. CASE DeleteSource(x)
  <2>1. panel[x].at = "deleting" /\ UNCHANGED Member
    BY <1>4 DEF DeleteSource
  <2>2. panel'[x].at \in {"punishing", "refused"} /\ panel'[x].results = panel[x].results
    BY <1>4, Moved DEF DeleteSource, Step
  <2>3. panel[x].results = NoResults
    BY <2>1 DEF AuditInv, Alone, Past, Deep
  <2>4. Given(x)' = {}
    BY <2>2, <2>3, NoResultsType DEF Given, Target
  <2> QED
    BY <1>1, <2>1, <2>2, <2>4, AwayFromLock
<1>5. CASE StartRoles(x)
  <2>1. panel[x].at = "punishing" /\ UNCHANGED Member
    BY <1>5 DEF StartRoles
  <2>2. /\ panel'[x].at \in {"reporting", "locking"} /\ panel'[x].roles = panel[x].roles
        /\ panel'[x].at = "locking" => panel'[x].results = panel[x].results
    BY <1>5, RolesStarted DEF Chosen
  <2>3. panel'[x].at = "locking" => Given(x)' \subseteq panel'[x].roles
    BY <2>1, <2>2 DEF RoleInv, Locked, Given
  <2> QED
    BY <1>1, <2>1, <2>2, <2>3, AwayFromLock
<1>6. CASE Mute(x) \/ ReportRefusal(x) \/ Report(x) \/ Publish(x) \/ Close(x)
  <2>1. panel[x].at \in {"muting", "refused", "reporting", "publishing", "closing"} /\ UNCHANGED Member
    BY <1>6 DEF Mute, ReportRefusal, Report, Publish, Close
  <2>2. CASE Mute(x)
    BY <1>1, <2>1, <2>2, Resulted, AwayFromLock DEF Mute, Target, Status
  <2>3. CASE ~Mute(x)
    <3>1. panel'[x].at \in {"publishing", "closing", "ended"}
      BY <1>6, <2>3, Moved, Ended DEF ReportRefusal, Report, Publish, Close, Step
    <3> QED
      BY <1>1, <2>1, <3>1, AwayFromLock
  <2> QED
    BY <2>2, <2>3
<1> QED
  BY <1>2, <1>3, <1>4, <1>5, <1>6 DEF PanelStep

\* A ban or a kick takes all roles; a dry run and a failure change none.
LEMMA ActOnMemberStep ==
  ASSUME ManualTypeOK, RoleInv, BoundsFall, NEW x \in Panel, ActOnMember(x)
  PROVE  RoleInv'
<1> USE TypeParts DEF At
<1>1. /\ OtherPanels(x) /\ panel[x].at = "punishing" /\ panel'[x].at = "reporting"
      /\ UNCHANGED <<owned, watch, lock>>
  BY Resulted DEF ActOnMember, Target, Status
<1>2. ASSUME NEW y \in Panel, y # x
      PROVE  panel'[y] = panel[y] /\ Given(y)' = Given(y)
  BY <1>1, <1>2, OthersGiven
<1>3. lock # x
  BY <1>1 DEF RoleInv, Locked
<1>4. Locked'
  BY <1>1, <1>2, <1>3 DEF RoleInv, Locked
<1>5. Settled' = Settled
  BY <1>1, <1>2, <1>3 DEF Settled
<1>6. \/ UNCHANGED <<held, seen, granted>>
      \/ held' = {} /\ seen' = {} /\ granted' = {}
  BY DEF ActOnMember
<1>7. Guarded'
  <2>1. granted' \subseteq held' /\ owned' \cap granted' \subseteq Settled'
        /\ (watch'.role \in granted' => watch'.manual)
    BY <1>1, <1>5, <1>6 DEF RoleInv, Guarded
  <2>2. ASSUME NEW y \in Panel, panel'[y].at = "adding"
        PROVE  /\ watch'.role \in panel'[y].roles => watch'.manual
               /\ \A r \in panel'[y].marked \cap granted' : panel'[y].results[r] # "none"
    BY <1>1, <1>2, <1>6, <2>2 DEF RoleInv, Guarded
  <2> QED
    BY <2>1, <2>2 DEF Guarded
<1>8. Timely'
  BY SMTT(30), <1>1, <1>6 DEF RoleInv, Timely, BoundsFall
<1> QED
  BY <1>4, <1>7, <1>8 DEF RoleInv

\* A role that JoinWatch will take is marked under the lock before it counts as given.
LEMMA LockStep ==
  ASSUME ManualTypeOK, RoleInv, BoundsFall, NEW x \in Panel, LockRoles(x)
  PROVE  RoleInv'
<1> USE TypeParts DEF At
<1>0. panel[x] \in PanelState /\ Role \subseteq Target
  BY DEF Target
<1>1. /\ panel[x].at = "locking" /\ lock = NoPanel /\ lock' = x
      /\ granted' = granted \cup (panel[x].roles \cap seen) /\ UNCHANGED <<held, seen, owned>>
      /\ watch' = (IF watch.role \in panel[x].roles THEN [watch EXCEPT !.manual = TRUE] ELSE watch)
  BY DEF LockRoles, Marks
<1>2. /\ OtherPanels(x) /\ panel'[x].roles = panel[x].roles
      /\ panel'[x].at \in {"handing", "adding"}
      /\ panel'[x].marked = IF watch.manual THEN {} ELSE {watch.role} \cap panel[x].roles
      /\ \A t \in Target : panel'[x].results[t] = IF t \in panel[x].roles \cap seen
                                                 THEN "already_applied" ELSE panel[x].results[t]
  BY LockTaken
<1>3. ASSUME NEW y \in Panel, y # x
      PROVE  /\ panel'[y] = panel[y] /\ Given(y)' = Given(y)
             /\ panel[y].at \notin {"adding", "handing"}
  BY <1>1, <1>2, <1>3, OthersGiven, ManualAssumption DEF RoleInv, Locked
<1>4. Given(x)' = Given(x) \cup (panel[x].roles \cap seen)
  BY <1>0, <1>2 DEF Given, PanelState
<1>5. Given(x) \subseteq panel[x].roles /\ seen \subseteq held
  BY <1>1 DEF RoleInv, Locked, Timely
<1>6. Locked'
  <2>1. ASSUME NEW y \in Panel
        PROVE  /\ lock' = y <=> panel'[y].at \in {"adding", "handing"}
               /\ panel'[y].at \in {"punishing", "locking", "adding", "handing"} =>
                    Given(y)' \subseteq panel'[y].roles
    <3>1. CASE y = x
      <4>1. Given(y)' = Given(x)'
        BY <3>1 DEF Given
      <4> QED
        BY <1>1, <1>2, <1>4, <1>5, <3>1, <4>1
    <3>2. CASE y # x
      BY <1>1, <1>3, <3>2 DEF RoleInv, Locked
    <3> QED
      BY <3>1, <3>2
  <2> QED
    BY <2>1 DEF Locked
<1>7. watch'.role = watch.role /\ (watch.manual => watch'.manual)
      /\ (watch.role \in panel[x].roles => watch'.manual)
  BY <1>1
<1>8. Guarded'
  <2>1. granted' \subseteq held'
    BY <1>1, <1>5 DEF RoleInv, Guarded
  <2>2. owned' \cap granted' \subseteq Settled'
    <3>1. Settled' = Given(x)'
      BY <1>1, ManualAssumption DEF Settled, Given
    <3> QED
      BY <1>1, <1>4, <3>1 DEF RoleInv, Guarded, Settled
  <2>3. watch'.role \in granted' => watch'.manual
    BY <1>1, <1>7 DEF RoleInv, Guarded
  <2>4. ASSUME NEW y \in Panel, panel'[y].at = "adding"
        PROVE  /\ watch'.role \in panel'[y].roles => watch'.manual
               /\ \A r \in panel'[y].marked \cap granted' : panel'[y].results[r] # "none"
    <3>1. y = x
      BY <1>3, <2>4
    <3>2. ASSUME NEW r \in panel'[x].marked \cap granted'
          PROVE  panel'[x].results[r] = "already_applied"
      <4>1. r = watch.role /\ r \in panel[x].roles /\ ~watch.manual
        BY <1>2, <3>2
      <4>2. r \in seen
        BY <1>1, <3>2, <4>1 DEF RoleInv, Guarded
      <4> QED
        BY <1>0, <1>2, <4>1, <4>2 DEF PanelState
    <3> QED
      BY <1>2, <1>7, <3>1, <3>2
  <2> QED
    BY <2>1, <2>2, <2>3, <2>4 DEF Guarded
<1>9. Timely'
  <2>1. watch = NoWatch => watch' = NoWatch
    BY <1>0, <1>1, ManualAssumption DEF NoWatch, PanelState
  <2> QED
    BY <1>1, <2>1 DEF RoleInv, Timely, BoundsFall
<1> QED
  BY <1>6, <1>8, <1>9 DEF RoleInv

\* The roles that are given are recorded as given, and a refusal takes back the mark only
\* of a role that was not.
LEMMA AddStep ==
  ASSUME ManualTypeOK, RoleInv, BoundsFall, NEW x \in Panel, AddRoles(x)
  PROVE  RoleInv'
<1> USE TypeParts DEF At
<1> DEFINE pending == {r \in panel[x].roles : panel[x].results[r] = "none"}
<1>0. panel[x] \in PanelState /\ Role \subseteq Target /\ pending \in SUBSET Role
  BY DEF Target, PanelState
<1>1. panel[x].at = "adding" /\ lock = x /\ UNCHANGED <<owned, lock>>
  BY DEF AddRoles, RoleInv, Locked
<1>2. PICK status \in {"succeeded", "failed"} :
        /\ panel' = Outcome(x, pending, status)
        /\ \/ /\ status = "succeeded" /\ held' = held \cup pending /\ granted' = granted \cup pending
              /\ CacheFollows /\ UNCHANGED watch
           \/ /\ UNCHANGED <<held, seen, granted>>
              /\ watch' = IF watch.role \in pending \cap panel[x].marked
                          THEN [watch EXCEPT !.manual = FALSE] ELSE watch
           \/ held' \in {held, held \cup pending} /\ CacheFollows /\ UNCHANGED <<watch, granted>>
  <2>1. \/ /\ panel' = Outcome(x, pending, "succeeded") /\ held' = held \cup pending
           /\ granted' = granted \cup pending /\ CacheFollows /\ UNCHANGED watch
        \/ /\ panel' = Outcome(x, pending, "failed") /\ UNCHANGED <<held, seen, granted>>
           /\ watch' = IF watch.role \in pending \cap panel[x].marked
                       THEN [watch EXCEPT !.manual = FALSE] ELSE watch
        \/ /\ panel' = Outcome(x, pending, "failed") /\ held' \in {held, held \cup pending}
           /\ CacheFollows /\ UNCHANGED <<watch, granted>>
    BY DEF AddRoles
  <2> HIDE DEF pending
  <2> QED
    BY <2>1
<1>3. /\ OtherPanels(x) /\ panel'[x].at = "handing" /\ panel'[x].roles = panel[x].roles
      /\ panel'[x].results =
           [t \in Target |-> IF t \in pending THEN status ELSE panel[x].results[t]]
  <2> HIDE DEF pending
  <2>1. status \in Status
    BY DEF Status
  <2> QED
    BY <1>0, <1>2, <2>1, OutcomeRecorded DEF Chosen
<1>4. ASSUME NEW y \in Panel, y # x
      PROVE  /\ panel'[y] = panel[y] /\ Given(y)' = Given(y)
             /\ panel[y].at \notin {"adding", "handing"}
  BY <1>1, <1>3, <1>4, OthersGiven DEF RoleInv, Locked
<1>5. Given(x)' = IF status = "succeeded" THEN Given(x) \cup pending ELSE Given(x)
  BY <1>0, <1>3 DEF Given, PanelState
<1>6. Given(x) \subseteq panel[x].roles
  BY <1>1 DEF RoleInv, Locked
<1>7. Locked'
  <2>1. ASSUME NEW y \in Panel
        PROVE  /\ lock' = y <=> panel'[y].at \in {"adding", "handing"}
               /\ panel'[y].at \in {"punishing", "locking", "adding", "handing"} =>
                    Given(y)' \subseteq panel'[y].roles
    <3>1. CASE y = x
      <4>1. Given(y)' = Given(x)'
        BY <3>1 DEF Given
      <4> QED
        BY <1>1, <1>3, <1>5, <1>6, <3>1, <4>1
    <3>2. CASE y # x
      BY <1>1, <1>4, <3>2 DEF RoleInv, Locked
    <3> QED
      BY <3>1, <3>2
  <2> QED
    BY <2>1 DEF Locked
<1>8. Settled = Given(x) /\ Settled' = Given(x)'
  BY <1>1, ManualAssumption DEF Settled, Given
<1>9. watch.role \in panel[x].roles => watch.manual
  BY <1>1 DEF RoleInv, Guarded
<1>10. Guarded'
  <2>1. granted' \subseteq held'
    BY <1>2 DEF RoleInv, Guarded
  <2>2. owned' \cap granted' \subseteq Settled'
    BY <1>1, <1>2, <1>5, <1>8 DEF RoleInv, Guarded
  <2>3. watch'.role \in granted' => watch'.manual
    <3>1. CASE UNCHANGED watch
      BY <1>2, <1>9, <3>1 DEF RoleInv, Guarded
    <3>2. CASE granted' = granted /\ watch.role \in pending \cap panel[x].marked
               /\ watch' = [watch EXCEPT !.manual = FALSE]
      BY <1>1, <3>2 DEF RoleInv, Guarded
    <3> QED
      BY <1>2, <3>1, <3>2
  <2>4. ASSUME NEW y \in Panel
        PROVE  panel'[y].at # "adding"
    BY <1>3, <1>4
  <2> QED
    BY <2>1, <2>2, <2>3, <2>4 DEF Guarded
<1>11. Timely'
  <2>1. watch = NoWatch => watch' = NoWatch
    BY <1>0, <1>2, ManualAssumption DEF NoWatch
  <2> QED
    BY <1>1, <1>2, <2>1 DEF RoleInv, Timely, BoundsFall, CacheFollows
<1> QED
  BY <1>7, <1>10, <1>11 DEF RoleInv

\* The lock is released when no case owns what was given any more.
LEMMA HandOverStep ==
  ASSUME ManualTypeOK, RoleInv, BoundsFall, NEW x \in Panel, HandOver(x)
  PROVE  RoleInv'
<1> USE TypeParts DEF At
<1>1. /\ panel[x].at = "handing" /\ lock = x /\ lock' = NoPanel /\ owned' = owned \ Given(x)
      /\ UNCHANGED <<held, seen, watch, granted>>
  BY DEF HandOver, Handed, RoleInv, Locked
<1>2. OtherPanels(x) /\ panel'[x].at \in {"muting", "reporting"}
  BY Moved DEF HandOver, Step
<1>3. ASSUME NEW y \in Panel, y # x
      PROVE  /\ panel'[y] = panel[y] /\ Given(y)' = Given(y)
             /\ panel[y].at \notin {"adding", "handing"}
  BY <1>1, <1>2, <1>3, OthersGiven DEF RoleInv, Locked
<1>4. Locked'
  BY <1>1, <1>2, <1>3, ManualAssumption DEF RoleInv, Locked
<1>5. Guarded'
  <2>1. owned' \cap granted' \subseteq Settled'
    BY <1>1, ManualAssumption DEF RoleInv, Guarded, Settled
  <2>2. ASSUME NEW y \in Panel
        PROVE  panel'[y].at # "adding"
    BY <1>2, <1>3
  <2> QED
    BY <1>1, <2>1, <2>2 DEF RoleInv, Guarded
<1>6. Timely'
  BY <1>1 DEF RoleInv, Timely, BoundsFall
<1> QED
  BY <1>4, <1>5, <1>6 DEF RoleInv

\* Cases and JoinWatch work while no panel holds the lock, and what they take was not given
\* by a moderator.
LEMMA OwnerSteps ==
  ASSUME ManualTypeOK, RoleInv, BoundsFall, OwnerStep
  PROVE  RoleInv'
<1> USE TypeParts
<1>1. UNCHANGED <<lock, panel, granted>>
  BY DEF OwnerStep, CaseContains, CaseReleases, WatchAssigns, WatchReleases, MemberUpdate
<1>2. Locked' /\ Settled' = Settled
  BY <1>1 DEF RoleInv, Locked, Settled, Given
<1>3. CASE MemberUpdate
  BY <1>1, <1>2, <1>3 DEF MemberUpdate, RoleInv, Guarded, Timely, BoundsFall
<1>4. CASE ~MemberUpdate
  <2>1. lock = NoPanel
    BY <1>4 DEF OwnerStep, CaseContains, CaseReleases, WatchAssigns, WatchReleases
  <2>2. /\ \A y \in Panel : panel'[y].at # "adding"
        /\ owned \cap granted = {}
    BY <1>1, <2>1, ManualAssumption DEF RoleInv, Locked, Guarded, Settled
  <2>3. bound["lags"] = 0 /\ seen = held
    <3>1. CASE \E r \in Role : CaseContains(r) \/ WatchAssigns(r)
      BY <3>1 DEF CaseContains, WatchAssigns, Spend, RoleInv, Timely
    <3>2. CASE (\E r \in Role : CaseReleases(r)) \/ WatchReleases
      BY <3>2 DEF CaseReleases, WatchReleases, RoleInv, Timely
    <3> QED
      BY <1>4, <3>1, <3>2 DEF OwnerStep
  <2>4. /\ granted \subseteq held' /\ owned' \cap granted = {}
        /\ (watch'.role \in granted => watch'.manual)
        /\ (seen' = held' \/ CacheFollows)
    <3>1. ASSUME NEW r \in Role, CaseContains(r)
          PROVE  /\ granted \subseteq held' /\ owned' \cap granted = {} /\ UNCHANGED watch
                 /\ (seen' = held' \/ CacheFollows)
      BY <2>2, <2>3, <3>1 DEF CaseContains, RoleInv, Guarded
    <3>2. ASSUME NEW r \in Role, CaseReleases(r)
          PROVE  /\ granted \subseteq held' /\ owned' \cap granted = {} /\ UNCHANGED watch
                 /\ (seen' = held' \/ CacheFollows)
      BY <2>2, <2>3, <3>2 DEF CaseReleases, RoleInv, Guarded
    <3>3. ASSUME NEW r \in Role, WatchAssigns(r)
          PROVE  /\ granted \subseteq held' /\ UNCHANGED owned /\ watch'.role \notin granted
                 /\ (seen' = held' \/ CacheFollows)
      BY <2>2, <2>3, <3>3 DEF WatchAssigns, RoleInv, Guarded
    <3>4. ASSUME WatchReleases
          PROVE  /\ granted \subseteq held' /\ owned' \cap granted = {} /\ watch'.role \notin granted
                 /\ (seen' = held' \/ CacheFollows)
      BY <2>2, <2>3, <3>4, ManualAssumption DEF WatchReleases, RoleInv, Guarded, NoWatch
    <3>5. watch.role \in granted => watch.manual
      BY DEF RoleInv, Guarded
    <3> QED
      BY <1>4, <2>2, <3>1, <3>2, <3>3, <3>4, <3>5 DEF OwnerStep
  <2>5. Guarded'
    BY <1>1, <2>2, <2>4 DEF Guarded
  <2>6. Timely'
    BY <2>3, <2>4 DEF Timely, CacheFollows, BoundsFall
  <2> QED
    BY <1>2, <2>5, <2>6 DEF RoleInv
<1> QED
  BY <1>3, <1>4

\* The surroundings take roles by hand only, and a crash forgets what was being given.
LEMMA OutsideSteps ==
  ASSUME ManualTypeOK, RoleInv, BoundsFall, OutsideStep
  PROVE  RoleInv'
<1> USE TypeParts
<1>1. CASE SettingsChange \/ MessageGone
  <2>1. UNCHANGED <<Member, panel>>
    BY <1>1 DEF SettingsChange, MessageGone
  <2> QED
    BY <2>1 DEF Member, RoleInv, Locked, Settled, Given, Guarded, Timely, BoundsFall
<1>2. CASE MemberLeaves
  <2>1. UNCHANGED <<owned, watch, lock, panel>> /\ held' = {} /\ seen' = {} /\ granted' = {}
    BY <1>2 DEF MemberLeaves
  <2> QED
    BY <2>1 DEF RoleInv, Locked, Settled, Given, Guarded, Timely, BoundsFall
<1>3. CASE RoleTakenByHand
  <2>1. PICK r \in held : held' = held \ {r} /\ granted' = granted \ {r} /\ CacheFollows
    BY <1>3 DEF RoleTakenByHand
  <2>2. UNCHANGED <<owned, watch, lock, panel>> /\ bound["changes"] # 0
    BY <1>3, Spent, Kinds DEF RoleTakenByHand
  <2>3. Locked' /\ Settled' = Settled
    BY <2>2 DEF RoleInv, Locked, Settled, Given
  <2>4. Guarded'
    <3>1. ASSUME NEW y \in Panel, panel[y].at = "adding"
          PROVE  /\ watch.role \in panel[y].roles => watch.manual
                 /\ \A o \in panel[y].marked \cap granted' : panel[y].results[o] # "none"
      BY <2>1, <3>1 DEF RoleInv, Guarded
    <3> QED
      BY <2>1, <2>2, <2>3, <3>1 DEF RoleInv, Guarded
  <2>5. Timely'
    BY <2>1, <2>2 DEF RoleInv, Timely, CacheFollows, BoundsFall
  <2> QED
    BY <2>3, <2>4, <2>5 DEF RoleInv
<1>4. CASE Crash
  <2>1. /\ lock' = NoPanel /\ seen' = held /\ UNCHANGED <<held, owned, watch>>
        /\ granted' = IF lock = NoPanel THEN granted ELSE granted \ panel[lock].roles
    BY <1>4 DEF Crash
  <2>2. \A y \in Panel : panel'[y].at \in {"unused", "ended"}
    BY <1>4, Crashed
  <2>3. Locked'
    BY <2>1, <2>2, ManualAssumption DEF Locked
  <2>4. owned \cap granted' = {}
    <3>1. CASE lock = NoPanel
      BY <2>1, <3>1 DEF RoleInv, Guarded, Settled
    <3>2. CASE lock # NoPanel
      <4>1. lock \in Panel /\ Given(lock) \subseteq panel[lock].roles
        BY <3>2 DEF RoleInv, Locked
      <4> QED
        BY <2>1, <3>2, <4>1 DEF RoleInv, Guarded, Settled
    <3> QED
      BY <3>1, <3>2
  <2>5. Guarded'
    BY <2>1, <2>2, <2>4 DEF RoleInv, Guarded
  <2>6. Timely'
    BY <2>1 DEF RoleInv, Timely, BoundsFall
  <2> QED
    BY <2>3, <2>5, <2>6 DEF RoleInv
<1> QED
  BY <1>1, <1>2, <1>3, <1>4 DEF OutsideStep

\* Every step keeps what was given.
LEMMA StepRoles ==
  ASSUME ManualTypeOK, AuditInv, RoleInv, [ManualNext]_manualVars
  PROVE  RoleInv'
<1>1. CASE UNCHANGED <<Member, panel, bound>>
  BY <1>1 DEF Member, RoleInv, Locked, Settled, Given, Guarded, Timely
<1>2. CASE ManualNext
  <2>1. BoundsFall
    BY <1>2, StepBounds
  <2>2. ASSUME NEW x \in Panel, PanelStep(x)
        PROVE  RoleInv'
    BY <2>1, <2>2, PlainSteps, ActOnMemberStep, LockStep, AddStep, HandOverStep
  <2>3. CASE OwnerStep
    BY <2>1, <2>3, OwnerSteps
  <2>4. CASE OutsideStep
    BY <2>1, <2>4, OutsideSteps
  <2>5. CASE CommandStep
    <3>1. UNCHANGED <<Member, panel>>
      BY <2>5 DEF CommandStep, RoleAdd, RoleRemoveChannels, RoleNotification, RoleRemove,
                  ChannelDeleted, StoreOffers, Computes
    <3> QED
      BY <2>1, <3>1, TypeParts
      DEF Member, RoleInv, Locked, Settled, Given, Guarded, Timely, BoundsFall
  <2> QED
    BY <1>2, <2>2, <2>3, <2>4, <2>5, StepKinds
<1>3. CASE UNCHANGED manualVars
  BY <1>1, <1>3 DEF manualVars, Member
<1> QED
  BY <1>2, <1>3

-----------------------------------------------------------------------------
(* The menu fits *)

\* The roles a map offers in a channel, and the maps whose menus can be shown.
OfferedIn(map, c) == {r \in Role : c \in map[r].sources}
FitsMenu(map) == \A c \in Channel : Cardinality(OfferedIn(map, c)) <= MaxOffer

OffersInv == FitsMenu(offers) /\ \A map \in writes : FitsMenu(map)

\* The roles offered in a channel are finitely many.
LEMMA OfferedFinite ==
  ASSUME NEW map, NEW c
  PROVE  IsFiniteSet(OfferedIn(map, c)) /\ Cardinality(OfferedIn(map, c)) \in Nat
<1>1. OfferedIn(map, c) \subseteq Role
  BY DEF OfferedIn
<1> QED
  BY <1>1, ManualAssumption, FS_Subset, FS_CardinalityType

\* A map that offers no role anywhere it was not offered before fits.
LEMMA FewerFit ==
  ASSUME NEW map, NEW less, FitsMenu(map),
         \A c \in Channel : OfferedIn(less, c) \subseteq OfferedIn(map, c)
  PROVE  FitsMenu(less)
<1>1. ASSUME NEW c \in Channel
      PROVE  Cardinality(OfferedIn(less, c)) <= MaxOffer
  <2>1. Cardinality(OfferedIn(less, c)) <= Cardinality(OfferedIn(map, c))
    BY OfferedFinite, FS_Subset
  <2>2. Cardinality(OfferedIn(map, c)) <= MaxOffer
    BY DEF FitsMenu
  <2> QED
    BY <2>1, <2>2, OfferedFinite, ManualAssumption
<1> QED
  BY <1>1 DEF FitsMenu

\* One role is offered at first.
LEMMA InitOffers ==
  ASSUME ManualInit
  PROVE  OffersInv
<1>1. PICK first \in Role : offers = [r \in Role |-> IF r = first
                                 THEN [sources |-> {Here}, notify |-> NoChannel] ELSE NoOffer]
  BY DEF ManualInit
<1>2. ASSUME NEW c \in Channel
      PROVE  Cardinality(OfferedIn(offers, c)) <= MaxOffer
  <2>1. OfferedIn(offers, c) \subseteq {first}
    BY <1>1 DEF OfferedIn, NoOffer
  <2>2. Cardinality({first}) = 1 /\ IsFiniteSet({first})
    BY FS_Singleton
  <2>3. Cardinality(OfferedIn(offers, c)) <= 1
    BY <2>1, <2>2, FS_Subset
  <2> QED
    BY <2>3, OfferedFinite, ManualAssumption
<1> QED
  BY <1>2 DEF ManualInit, OffersInv, FitsMenu

\* A role is added only in channels that offer fewer others than the menu can show.
LEMMA AddedFits ==
  ASSUME ManualTypeOK, FitsMenu(offers), NEW r \in Role, NEW channels \in SUBSET Channel,
         Fits(r, channels)
  PROVE  FitsMenu([offers EXCEPT ![r].sources = @ \cup channels])
<1> DEFINE map == [offers EXCEPT ![r].sources = @ \cup channels]
<1>1. /\ map[r].sources = offers[r].sources \cup channels
      /\ \A o \in Role \ {r} : map[o] = offers[o]
  BY TypeParts DEF Offer, NoOffer
<1> HIDE DEF map
<1>2. ASSUME NEW c \in Channel
      PROVE  Cardinality(OfferedIn(map, c)) <= MaxOffer
  <2>1. CASE c \notin channels
    <3>1. OfferedIn(map, c) = OfferedIn(offers, c)
      BY <1>1, <2>1 DEF OfferedIn
    <3> QED
      BY <3>1 DEF FitsMenu
  <2>2. CASE c \in channels
    <3> DEFINE others == {o \in Role \ {r} : c \in offers[o].sources}
    <3>1. OfferedIn(map, c) = others \cup {r}
      BY <1>1, <2>2 DEF OfferedIn
    <3>2. IsFiniteSet(others) /\ r \notin others
      BY ManualAssumption, FS_Subset
    <3>3. Cardinality(others) \in Nat /\ Cardinality(others) < MaxOffer
      BY <2>2, <3>2, FS_CardinalityType DEF Fits, Exposed
    <3>4. Cardinality(others \cup {r}) = Cardinality(others) + 1
      BY <3>2, FS_AddElement
    <3> QED
      BY <3>1, <3>3, <3>4, ManualAssumption
  <2> QED
    BY <2>1, <2>2
<1>3. FitsMenu(map)
  BY <1>2 DEF FitsMenu
<1> QED
  BY <1>3 DEF map

\* Every map that a command computes fits when the stored one does.
LEMMA ComputedFits ==
  ASSUME ManualTypeOK, FitsMenu(offers), CommandStep, ~StoreOffers
  PROVE  \E map : FitsMenu(map) /\ Computes(map)
<1>0. offers \in [Role -> Offer]
  BY TypeParts
<1>1. CASE RoleAdd
  BY <1>1, AddedFits DEF RoleAdd
<1>2. CASE RoleRemoveChannels
  <2>1. PICK r \in Role, channels \in (SUBSET Channel) \ {{}} :
          Computes([offers EXCEPT ![r].sources = @ \ channels])
    BY <1>2 DEF RoleRemoveChannels
  <2> DEFINE map == [offers EXCEPT ![r].sources = @ \ channels]
  <2>2. \A c \in Channel : OfferedIn(map, c) \subseteq OfferedIn(offers, c)
    BY <1>0 DEF OfferedIn, Offer, NoOffer
  <2>3. Computes(map)
    BY <2>1
  <2> HIDE DEF map
  <2> QED
    BY <2>2, <2>3, FewerFit
<1>3. CASE RoleNotification
  <2>1. PICK r \in Role, n \in Channel \cup {NoChannel} : Computes([offers EXCEPT ![r].notify = n])
    BY <1>3 DEF RoleNotification
  <2> DEFINE map == [offers EXCEPT ![r].notify = n]
  <2>2. \A c \in Channel : OfferedIn(map, c) \subseteq OfferedIn(offers, c)
    BY <1>0 DEF OfferedIn, Offer, NoOffer
  <2>3. Computes(map)
    BY <2>1
  <2> HIDE DEF map
  <2> QED
    BY <2>2, <2>3, FewerFit
<1>4. CASE RoleRemove
  <2>1. PICK r \in Role : Computes([offers EXCEPT ![r] = NoOffer])
    BY <1>4 DEF RoleRemove
  <2> DEFINE map == [offers EXCEPT ![r] = NoOffer]
  <2>2. \A c \in Channel : OfferedIn(map, c) \subseteq OfferedIn(offers, c)
    BY <1>0 DEF OfferedIn, NoOffer
  <2>3. Computes(map)
    BY <2>1
  <2> HIDE DEF map
  <2> QED
    BY <2>2, <2>3, FewerFit
<1>5. CASE ChannelDeleted
  <2> DEFINE cleared(o, c) == IF o.sources \ {c} = {} THEN NoOffer
                              ELSE [sources |-> o.sources \ {c},
                                    notify |-> IF o.notify = c THEN NoChannel ELSE o.notify]
  <2>1. PICK c \in Channel \ {Here} : Computes([r \in Role |-> cleared(offers[r], c)])
    BY <1>5 DEF ChannelDeleted
  <2> DEFINE map == [r \in Role |-> cleared(offers[r], c)]
  <2>2. \A o : cleared(o, c).sources \subseteq o.sources
    BY DEF NoOffer
  <2>3. \A d \in Channel : OfferedIn(map, d) \subseteq OfferedIn(offers, d)
    BY <2>2 DEF OfferedIn
  <2>4. Computes(map)
    BY <2>1
  <2> HIDE DEF map
  <2> QED
    BY <2>3, <2>4, FewerFit
<1> QED
  BY <1>1, <1>2, <1>3, <1>4, <1>5 DEF CommandStep

\* Every step keeps the maps showable.
LEMMA StepOffers ==
  ASSUME ManualTypeOK, OffersInv, [ManualNext]_manualVars
  PROVE  OffersInv'
<1>1. CASE UNCHANGED offers /\ writes' \subseteq writes
  BY <1>1 DEF OffersInv, FitsMenu, OfferedIn
<1>2. CASE StoreOffers
  BY <1>2 DEF StoreOffers, OffersInv, FitsMenu, OfferedIn
<1>3. CASE CommandStep /\ ~StoreOffers
  <2>1. PICK map : FitsMenu(map) /\ Computes(map)
    BY <1>3, ComputedFits DEF OffersInv
  <2>2. writes' = writes \cup {map} /\ UNCHANGED offers
    BY <2>1 DEF Computes
  <2> QED
    BY <2>1, <2>2 DEF OffersInv, FitsMenu, OfferedIn
<1>4. ASSUME NEW x \in Panel, PanelStep(x)
      PROVE  UNCHANGED <<offers, writes>>
  BY <1>4 DEF PanelStep, Open, ToggleEvidence, SelectMemberAction, SelectRoles, GiveUp, Confirm,
              Submit, Prepare, SendAudit, AttachFiles, DeleteSource, ActOnMember, StartRoles,
              LockRoles, AddRoles, HandOver, Mute, ReportRefusal, Report, Publish, Close, World
<1>5. CASE OwnerStep
  BY <1>1, <1>5
  DEF OwnerStep, CaseContains, CaseReleases, WatchAssigns, WatchReleases, MemberUpdate, World
<1>6. CASE OutsideStep
  BY <1>1, <1>6
  DEF OutsideStep, SettingsChange, MessageGone, MemberLeaves, RoleTakenByHand, Crash, World
<1>7. CASE UNCHANGED manualVars
  BY <1>1, <1>7 DEF manualVars
<1> QED
  BY <1>1, <1>2, <1>3, <1>4, <1>5, <1>6, <1>7, StepKinds

\* No stored map offers more roles in a channel than its menu can show, however the commands
\* overwrite each other.
THEOREM MenuFits == ManualSpec => []OffersFit
<1>1. ManualInit => ManualTypeOK /\ OffersInv
  BY InitTypes, InitOffers
<1>2. ManualTypeOK /\ OffersInv /\ [ManualNext]_manualVars => ManualTypeOK' /\ OffersInv'
  BY StepTypes, StepOffers
<1>3. OffersInv => OffersFit
  BY DEF OffersInv, OffersFit, FitsMenu, OfferedIn
<1> QED
  BY <1>1, <1>2, <1>3, PTL DEF ManualSpec

\* A role that a moderator gave stays while the member cache follows Discord at once, or while
\* no case, no JoinWatch row and no person takes roles from the member beside the panels; and
\* the menu fits.
THEOREM GivenRolesStay == Prompt /\ ManualSpec => []RolesStay
<1>1. ManualInit /\ Prompt => ManualTypeOK /\ AuditInv /\ RoleInv
  BY InitTypes, InitAudit, InitRoles
<1>2. ManualTypeOK /\ AuditInv /\ RoleInv /\ [ManualNext]_manualVars
        => ManualTypeOK' /\ AuditInv' /\ RoleInv'
  BY StepTypes, StepAudit, StepRoles
<1>3. ManualTypeOK /\ AuditInv /\ RoleInv => ManualRoleStays
  BY DEF RoleInv, Guarded, ManualRoleStays
<1>4. ManualRoleStays /\ OffersFit => RolesStay
  BY DEF RolesStay
<1> QED
  BY <1>1, <1>2, <1>3, <1>4, MenuFits, PTL DEF ManualSpec

-----------------------------------------------------------------------------
(* Posts of a case *)

\* What the publisher has just sent and not yet recorded.
InHand(m) == publisher.step \in {"complete", "completepage", "compensate"} /\ publisher.sent = m

\* The steps at which the publisher works on one summary.
OfSummary == {"edit", "clear", "thread", "ensure", "activate", "dropthread", "page", "editpage",
              "record", "claimpage", "sendpage", "completepage"}

\* The publisher works on the summary of the case, and knows what it has sent and what it
\* replaces.
TurnFits ==
  /\ publisher.step \in OfSummary /\ RowsExist => publisher.summary = review
  /\ publisher.step = "clear" => <<publisher.summary, 0>> \notin posted
  /\ publisher.step = "complete" => publisher.sent = <<publisher.summary, 0>>
  /\ publisher.step \in {"complete", "compensate"} /\ publisher.sent[2] = 0 =>
       publisher.sent[1] \notin threads
  /\ publisher.step = "completepage" =>
       publisher.sent[1] = publisher.summary /\ publisher.sent[2] > 0
  /\ publisher.step \in {"complete", "completepage", "compensate"} => publisher.sent \in Ref
  /\ publisher.step = "claimpage" /\ publisher.replace # NoRef =>
       publisher.replace \notin posted \/ publisher.replace[1] # publisher.summary
  /\ publisher.replace # NoRef =>
       publisher.step \in {"claimpage", "sendpage", "completepage", "compensate"}

\* A page is in the thread of its summary.
PagesInThreads == \A m \in posted : m[2] > 0 => m[1] \in threads

\* Whatever is on Discord is the case's own message, listed for removal, or just sent.
SummaryKnown ==
  RowsExist => \A m \in posted : m[2] = 0 => m = <<review, 0>> \/ m \in Listed \/ InHand(m)

PageKnown ==
  RowsExist => \A m \in posted :
    m[2] > 0 => m[1] # review \/ m \in Listed \/ InHand(m) \/ m = page.at

\* The row of the page: a claim is pending, and a page that may be replaced is gone, listed or
\* in another thread.
PageFits ==
  /\ page.owner # "none" => page.state = "pending"
  /\ page.state = "none" => page.at = NoRef
  /\ page.state = "published" => page.at \in Ref
  /\ page.at \in Ref => page.at[2] > 0
  /\ RowsExist /\ page.state = "pending" /\ page.at \in posted =>
       page.at[1] # review \/ page.at \in Listed \/ InHand(page.at)

\* The job of the deletion is planned before it does anything.
JobFits ==
  /\ ~removing.planned => removing = NoJob
  /\ removing.rows => removing.planned
  /\ removing.exists => removing.planned
  /\ remover.step # "none" => removing.exists
  /\ remover.step = "remote" => remover.summary = removing.summary

\* Without trouble nothing is listed, and the summary that the job removes is all there is.
Untroubled == ~astray /\ lost = {} /\ removing.exact

NothingAstray ==
  ~astray => /\ orphans = {} /\ removing.targets = {} /\ remover.targets = {}
             /\ \A t \in threads : <<t, 0>> \in posted

OneAnchor ==
  Untroubled /\ ~Gone =>
    \A m \in posted : m[2] = 0 =>
      InHand(m) \/ m[1] = IF removing.planned THEN removing.summary ELSE review

\* What the job has removed stays removed.
Cleared == removing.remote \/ remover.step = "mark" \/ Gone
ClearedIsEmpty == Untroubled /\ Cleared => threads = {} /\ \A m \in posted : InHand(m)

PostInv ==
  /\ TurnFits /\ PagesInThreads /\ SummaryKnown /\ PageKnown /\ PageFits /\ JobFits
  /\ NothingAstray /\ OneAnchor /\ ClearedIsEmpty

-----------------------------------------------------------------------------
(* The values of the variables *)

LEMMA RefParts ==
  /\ \A m \in Ref : m[1] \in Summary /\ m[2] \in 0..MaxPage /\ m = <<m[1], m[2]>>
  /\ \A s \in Summary, k \in 0..MaxPage : <<s, k>> \in Ref
  /\ NoRef \notin Ref /\ 0 \notin Summary /\ Summary \subseteq 0..MaxSummary
  /\ 0 \in 0..MaxPage /\ 0 \in 0..MaxSummary
<1>1. MaxPage \in Nat /\ MaxSummary \in Nat
  BY PostAssumption DEF PostAssumption
<1>2. \A m \in Ref : m[1] \in Summary /\ m[2] \in 0..MaxPage /\ m = <<m[1], m[2]>>
  BY DEF Ref
<1>3. \A s \in Summary, k \in 0..MaxPage : <<s, k>> \in Ref
  BY DEF Ref
<1>4. 0 \notin Summary /\ Summary \subseteq 0..MaxSummary /\ 0 \in 0..MaxPage /\ 0 \in 0..MaxSummary
  BY <1>1 DEF Summary
<1>5. NoRef \notin Ref
  BY <1>2, <1>4 DEF NoRef
<1> QED BY <1>2, <1>3, <1>4, <1>5

LEMMA Nothings ==
  /\ NoTurn \in Publisher /\ NoPage \in Page /\ NoJob \in DeletionJob /\ Away \in Remover
  /\ NoClaim \in Claim /\ NoEndpoint \in Endpoint
BY RefParts DEF NoTurn, NoPage, NoJob, Away, NoClaim, NoEndpoint, Publisher, PublisherStep, Page,
                DeletionJob, Remover, Claim, Endpoint

LEMMA OneAtMost ==
  ASSUME NEW x, NEW S, S \subseteq {x}
  PROVE  Cardinality(S) <= 1
<1>1. IsFiniteSet({x}) /\ Cardinality({x}) = 1
  BY FS_Singleton
<1> QED BY <1>1, FS_Subset

LEMMA PostTypesKept ==
  ASSUME PostTypeOK, PostInv, [PostNext]_postVars
  PROVE  PostTypeOK'
<1>1. CASE CaseChanges
  BY <1>1, RefParts, Nothings DEF CaseChanges, Lucky, PostTypeOK, Page
<1>2. ASSUME NEW m \in Ref, MessageDeleted(m) PROVE PostTypeOK'
  BY <1>2, RefParts, Nothings DEF MessageDeleted, Lucky, PostTypeOK, Page
<1>3. CASE ClaimAges
  BY <1>3, RefParts, Nothings DEF ClaimAges, PostTypeOK, Claim, Page
<1>4. CASE ClaimOutlived
  BY <1>4, RefParts, Nothings DEF ClaimOutlived, Lucky, PostTypeOK, Page
<1>5. CASE StartPublishing
  BY <1>5, RefParts, Nothings DEF StartPublishing, RowsExist, NoTurn, postDb, PostTypeOK,
     Publisher, PublisherStep
<1>6. CASE EditSummary
  BY <1>6, RefParts, Nothings DEF EditSummary, Lucky, Turn, TurnEnds, NoTurn, IsGone, postDb,
     PostTypeOK, Publisher, PublisherStep
<1>7. CASE ClearReview
  BY <1>7, RefParts, Nothings DEF ClearReview, Turn, PostTypeOK, Publisher, PublisherStep
<1>8. CASE ClaimPrimary
  <2>1. primary' \in Claim
    <3>1. [owner |-> "task", stale |-> FALSE] \in Claim
      BY DEF Claim
    <3> QED BY <1>8, <3>1 DEF ClaimPrimary, PostTypeOK
  <2>2. publisher' \in Publisher
    BY <1>8, RefParts, Nothings DEF ClaimPrimary, Turn, TurnEnds, NoTurn, PostTypeOK, Publisher,
       PublisherStep
  <2> QED BY <1>8, RefParts, <2>1, <2>2 DEF ClaimPrimary, Turn, TurnEnds, NoTurn, PostTypeOK
<1>9. ASSUME NEW s \in Summary, SendSummary(s) PROVE PostTypeOK'
  BY <1>9, RefParts, Nothings DEF SendSummary, postDb, PostTypeOK, Publisher, PublisherStep
<1>10. CASE SendFails
  BY <1>10, RefParts, Nothings DEF SendFails, Lucky, TurnEnds, NoTurn, NoClaim, PostTypeOK, Claim,
     Page, Publisher, PublisherStep
<1>11. CASE CompletePrimary
  BY <1>11, RefParts, Nothings DEF CompletePrimary, Turn, RowsExist, NoClaim, MayRecord,
     PostTypeOK, Claim, Publisher, PublisherStep
<1>12. CASE Compensate
  <2>1. removing' \in DeletionJob
    <3>1. publisher.sent \in Ref
      BY <1>12 DEF Compensate, PostInv, TurnFits
    <3>2. [removing EXCEPT !.targets = @ \cup {publisher.sent}, !.remote = FALSE] \in DeletionJob
      BY <3>1 DEF PostTypeOK, DeletionJob
    <3> QED BY <1>12, <3>2 DEF Compensate, PostTypeOK
  <2>2. publisher' \in Publisher
    BY <1>12, RefParts, Nothings DEF Compensate, Lucky, TurnEnds, RowsExist, NoTurn, PostTypeOK,
       PostInv, TurnFits, Publisher, PublisherStep
  <2> QED BY <1>12, RefParts, <2>1, <2>2 DEF Compensate, Lucky, TurnEnds, RowsExist, NoTurn,
         PostTypeOK, PostInv, TurnFits
<1>13. CASE FindThread
  BY <1>13, RefParts, Nothings DEF FindThread, Turn, TurnEnds, NoTurn, postDb, PostTypeOK,
     Publisher, PublisherStep
<1>14. CASE EnsureEndpoint
  BY <1>14, RefParts, Nothings DEF EnsureEndpoint, Turn, PostTypeOK, Endpoint, Publisher,
     PublisherStep
<1>15. CASE ActivateEndpoint
  <2>1. endpoint' \in Endpoint
    <3>1. [row |-> TRUE, summary |-> publisher.summary, thread |-> publisher.summary] \in Endpoint
      BY DEF PostTypeOK, Publisher, Endpoint
    <3> QED BY <1>15, <3>1 DEF ActivateEndpoint, PostTypeOK
  <2>2. publisher' \in Publisher
    BY <1>15, RefParts, Nothings DEF ActivateEndpoint, Turn, PostTypeOK, Publisher, PublisherStep
  <2> QED BY <1>15, RefParts, <2>1, <2>2 DEF ActivateEndpoint, Turn, PostTypeOK
<1>16. CASE DropThread
  BY <1>16, RefParts, Nothings DEF DropThread, Lucky, TurnEnds, NoTurn, Outside, postDb,
     PostTypeOK, Publisher, PublisherStep
<1>17. CASE EnsurePage
  BY <1>17, RefParts, Nothings DEF EnsurePage, Turn, TurnEnds, NoTurn, PostTypeOK, Page, Publisher,
     PublisherStep
<1>18. CASE EditPage
  <2>1. publisher' \in Publisher
    <3>1. [publisher EXCEPT !.step = "claimpage", !.replace = page.at] \in Publisher
      BY DEF PostTypeOK, Page, Publisher, PublisherStep
    <3>2. [publisher EXCEPT !.step = "record"] \in Publisher
      BY DEF PostTypeOK, Publisher, PublisherStep
    <3> QED BY <1>18, <3>1, <3>2, Nothings DEF EditPage, Turn, TurnEnds
  <2> QED BY <1>18, RefParts, <2>1 DEF EditPage, Lucky, Turn, TurnEnds, NoTurn, IsGone, postDb,
         PostTypeOK
<1>19. CASE RecordRender
  BY <1>19, RefParts, Nothings DEF RecordRender, TurnEnds, NoTurn, PostTypeOK, Page, Publisher,
     PublisherStep
<1>20. CASE ClaimPage
  <2>1. page' \in Page
    <3>1. page \in Page
      BY DEF PostTypeOK
    <3>2. [page EXCEPT !.state = "pending", !.owner = "task", !.stale = FALSE] \in Page
      BY <3>1 DEF Page
    <3> QED BY <1>20, <3>1, <3>2 DEF ClaimPage
  <2>2. publisher' \in Publisher
    BY <1>20, RefParts, Nothings DEF ClaimPage, Turn, TurnEnds, NoTurn, Replaceable, PostTypeOK,
       Publisher, PublisherStep
  <2> QED BY <1>20, RefParts, <2>1, <2>2 DEF ClaimPage, Turn, TurnEnds, NoTurn, Replaceable,
         PostTypeOK
<1>21. ASSUME NEW k \in 1..MaxPage, SendPage(k) PROVE PostTypeOK'
  <2>1. page' \in Page
    BY <1>21, RefParts, Nothings DEF SendPage, TurnEnds, NoTurn, PostTypeOK, Page
  <2>2. publisher' \in Publisher
    <3>1. CASE publisher.summary \in threads
      <4>1. k \in 0..MaxPage
        BY PostAssumption DEF PostAssumption
      <4>2. <<publisher.summary, k>> \in Ref
        BY <3>1, <4>1, RefParts DEF PostTypeOK
      <4>3. [publisher EXCEPT !.step = "completepage", !.sent = <<publisher.summary, k>>]
            \in Publisher
        BY <4>2 DEF PostTypeOK, Publisher, PublisherStep
      <4> QED BY <1>21, <3>1, <4>3 DEF SendPage
    <3>2. CASE publisher.summary \notin threads
      BY <1>21, <3>2, Nothings DEF SendPage, TurnEnds
    <3> QED BY <3>1, <3>2
  <2> QED BY <1>21, RefParts, <2>1, <2>2 DEF SendPage, TurnEnds, NoTurn, PostTypeOK
<1>22. CASE CompletePage
  <2>1. page' \in Page
    <3>1. publisher.sent \in Ref
      BY <1>22 DEF CompletePage, PostInv, TurnFits
    <3>2. [state |-> "published", at |-> publisher.sent, owner |-> "none", stale |-> FALSE,
           current |-> TRUE] \in Page
      BY <3>1 DEF Page
    <3>3. [page EXCEPT !.owner = "none"] \in Page
      BY DEF PostTypeOK, Page
    <3> QED BY <1>22, <3>2, <3>3 DEF CompletePage, PostTypeOK
  <2>2. publisher' \in Publisher
    BY <1>22, RefParts, Nothings DEF CompletePage, Turn, TurnEnds, RowsExist, NoTurn, PostTypeOK,
       PostInv, TurnFits, Publisher, PublisherStep
  <2> QED BY <1>22, RefParts, <2>1, <2>2 DEF CompletePage, Turn, TurnEnds, RowsExist, NoTurn,
         PostTypeOK, PostInv, TurnFits
<1>23. ASSUME NEW m \in Ref, RetryOrphan(m) PROVE PostTypeOK'
  BY <1>23, RefParts, Nothings DEF RetryOrphan, RowsExist, PostTypeOK
<1>24. CASE PlanDeletion
  <2>1. removing' \in DeletionJob
    <3> DEFINE s == IF endpoint.row THEN endpoint.summary ELSE review
    <3>1. s \in 0..MaxSummary /\ endpoint.thread \in 0..MaxSummary /\ (s = review) \in BOOLEAN
      BY DEF PostTypeOK, Endpoint
    <3>2. [planned |-> TRUE, exists |-> TRUE, summary |-> s, thread |-> endpoint.thread,
           targets |-> orphans, remote |-> FALSE, rows |-> FALSE, exact |-> s = review]
          \in DeletionJob
      <4> HIDE DEF s
      <4> QED BY <3>1 DEF PostTypeOK, DeletionJob
    <3> QED BY <1>24, <3>2 DEF PlanDeletion
  <2>2. remover' \in Remover
    BY <1>24, RefParts, Nothings DEF PlanDeletion, Away, PostTypeOK, Remover
  <2> QED BY <1>24, RefParts, <2>1, <2>2 DEF PlanDeletion, Away, PostTypeOK
<1>25. CASE RetryDeletion
  BY <1>25, RefParts, Nothings DEF RetryDeletion, Away, Unfinished, postDb, PostTypeOK, Remover
<1>26. CASE ReadJob
  <2>1. remover' \in Remover
    <3>1. [Away EXCEPT !.step = "rows"] \in Remover
      BY RefParts DEF Away, Remover
    <3>2. [step |-> "remote", summary |-> removing.summary, thread |-> removing.thread,
           targets |-> removing.targets] \in Remover
      BY DEF PostTypeOK, DeletionJob, Remover
    <3> QED BY <1>26, <3>1, <3>2 DEF ReadJob
  <2> QED BY <1>26, RefParts, <2>1 DEF ReadJob, Away, postDb, PostTypeOK
<1>27. CASE RemovePosts
  BY <1>27, RefParts, Nothings DEF RemovePosts, Lucky, Outside, postDb, PostTypeOK, Remover
<1>28. CASE MarkRemote
  BY <1>28, RefParts, Nothings DEF MarkRemote, Away, PostTypeOK, DeletionJob, Remover
<1>29. CASE FinalizeCase
  <2>1. endpoint' \in Endpoint
    BY <1>29, RefParts, Nothings DEF FinalizeCase, Away, NoPage, NoClaim, NoEndpoint, InFlight,
       PostTypeOK, Endpoint
  <2>2. primary' \in Claim
    BY <1>29, RefParts, Nothings DEF FinalizeCase, Away, NoPage, NoClaim, NoEndpoint, InFlight,
       PostTypeOK, Claim
  <2>3. page' \in Page
    BY <1>29, RefParts, Nothings DEF FinalizeCase, Away, NoPage, NoClaim, NoEndpoint, InFlight,
       PostTypeOK, Page
  <2>4. removing' \in DeletionJob
    BY <1>29, RefParts, Nothings DEF FinalizeCase, Away, NoPage, NoClaim, NoEndpoint, InFlight,
       PostTypeOK, DeletionJob
  <2>5. remover' \in Remover
    BY <1>29, RefParts, Nothings DEF FinalizeCase, Away, NoPage, NoClaim, NoEndpoint, InFlight,
       PostTypeOK, Remover
  <2> QED BY <1>29, RefParts, <2>1, <2>2, <2>3, <2>4, <2>5 DEF FinalizeCase, Away, NoPage, NoClaim,
         NoEndpoint, InFlight, PostTypeOK
<1>30. CASE FinishJob
  BY <1>30, RefParts, Nothings DEF FinishJob, Away, NoJob, PostTypeOK, DeletionJob, Remover
<1>31. CASE CrashPosts
  BY <1>31, RefParts, Nothings DEF CrashPosts, Lucky, NoTurn, Away, PostTypeOK, PostInv, TurnFits,
     Claim, Page, Publisher, Remover, PublisherStep
<1>32. CASE UNCHANGED postVars
  BY <1>32 DEF postVars, PostTypeOK
<1> QED BY <1>1, <1>2, <1>3, <1>4, <1>5, <1>6, <1>7, <1>8, <1>9, <1>10, <1>11, <1>12, <1>13, <1>14,
       <1>15, <1>16, <1>17, <1>18, <1>19, <1>20, <1>21, <1>22, <1>23, <1>24, <1>25, <1>26, <1>27,
       <1>28, <1>29, <1>30, <1>31, <1>32 DEF PostNext, Publishing, Removing

-----------------------------------------------------------------------------
(* Steps whose effect on the invariant takes an argument *)

LEMMA Turns ==
  ASSUME PostTypeOK, NEW s \in PublisherStep, Turn(s)
  PROVE  /\ publisher'.step = s /\ publisher'.summary = publisher.summary
         /\ publisher'.sent = publisher.sent /\ publisher'.replace = publisher.replace
BY DEF Turn, PostTypeOK, Publisher

LEMMA EndOfTurn ==
  ASSUME TurnEnds
  PROVE  publisher'.step = "idle" /\ \A m \in Ref : ~InHand(m)'
BY DEF TurnEnds, NoTurn, InHand

\* A step that posts nothing and forgets nothing that is posted leaves known what was.
LEMMA KnownStays ==
  ASSUME PostTypeOK, PostInv, posted' \subseteq posted, review' = review,
         page'.at = page.at, page'.state = page.state \/ page'.state = "published",
         RowsExist' => RowsExist,
         \A m \in posted' : RowsExist' =>
            /\ m \in Listed => m \in Listed'
            /\ InHand(m) => InHand(m)' \/ m \in Listed'
  PROVE  /\ SummaryKnown' /\ PageKnown'
         /\ \A m \in posted' : RowsExist' /\ page'.state = "pending" /\ page'.at = m =>
              m[1] # review' \/ m \in Listed' \/ InHand(m)'
<1>1. SummaryKnown'
  BY DEF PostInv, SummaryKnown
<1>2. PageKnown'
  BY DEF PostInv, PageKnown
<1>3. ASSUME NEW m \in posted', RowsExist', page'.state = "pending", page'.at = m
      PROVE  m[1] # review' \/ m \in Listed' \/ InHand(m)'
  <2>1. m \in posted /\ page.at = m /\ page.state = "pending" /\ RowsExist
    BY <1>3
  <2>2. m[1] # review \/ m \in Listed \/ InHand(m)
    BY <2>1 DEF PostInv, PageFits
  <2> QED BY <1>3, <2>2
<1> QED BY <1>1, <1>2, <1>3

\* A message that may be recorded belongs to a case nobody deletes.
LEMMA CompletePrimaryCleared ==
  ASSUME PostTypeOK, PostInv, CompletePrimary PROVE ClearedIsEmpty'
<1>1. CASE MayRecord
  <2>1. ~removing.planned
    BY <1>1 DEF MayRecord
  <2>2. ~Cleared'
    BY <2>1 DEF CompletePrimary, PostInv, JobFits, NoJob, Cleared, Gone
  <2> QED BY <2>2 DEF ClearedIsEmpty
<1>2. CASE ~MayRecord
  <2>1. \A m \in posted : InHand(m) => InHand(m)'
    BY <1>2, Turns DEF CompletePrimary, InHand, PublisherStep
  <2> QED BY <2>1 DEF CompletePrimary, PostInv, ClearedIsEmpty, Cleared, Gone, Untroubled
<1> QED BY <1>1, <1>2

\* A summary that becomes the one of the case has no thread yet, so no page in it.
LEMMA CompletePrimaryFits ==
  ASSUME PostTypeOK, PostInv, CompletePrimary PROVE PageFits'
<1>1. ASSUME page.state = "pending", page.at \in posted, RowsExist, MayRecord
      PROVE  page.at[1] # publisher.summary
  <2>1. page.at[2] > 0 /\ page.at[1] \in threads
    BY <1>1 DEF PostInv, PageFits, PagesInThreads, PostTypeOK
  <2>2. publisher.summary \notin threads
    BY DEF CompletePrimary, PostInv, TurnFits
  <2> QED BY <2>1, <2>2
<1>2. CASE MayRecord
  BY <1>1, <1>2 DEF CompletePrimary, PostInv, PageFits, RowsExist
<1>3. CASE ~MayRecord
  <2>1. \A m \in posted : InHand(m) => InHand(m)'
    BY <1>3, Turns DEF CompletePrimary, InHand, PublisherStep
  <2> QED BY <1>3, <2>1, KnownStays DEF CompletePrimary, PostInv, PageFits, RowsExist, Listed
<1> QED BY <1>2, <1>3

\* A late message that stays is listed for removal.
LEMMA CompensateKnown ==
  ASSUME PostTypeOK, PostInv, Compensate PROVE SummaryKnown' /\ PageKnown' /\ PageFits'
<1>1. posted' \subseteq posted /\ UNCHANGED <<review, page, lost>> /\ (RowsExist' => RowsExist)
  BY DEF Compensate, RowsExist, PostTypeOK, DeletionJob
<1>2. publisher.sent \in posted' /\ RowsExist' => publisher.sent \in Listed'
  <2>1. CASE posted' = posted \ {publisher.sent}
    BY <2>1
  <2>2. CASE posted' = posted /\ removing.exists
    <3>1. removing \in DeletionJob
      BY DEF PostTypeOK
    <3>2. [removing EXCEPT !.targets = @ \cup {publisher.sent}, !.remote = FALSE].targets
          = removing.targets \cup {publisher.sent}
      BY <3>1 DEF DeletionJob
    <3>3. publisher.sent \in removing'.targets \/ posted' = posted \ {publisher.sent}
      BY <2>2, <3>2 DEF Compensate
    <3> QED BY <3>3 DEF Listed
  <2>3. CASE posted' = posted /\ ~removing.exists /\ publisher.sent \in posted
    BY <2>3, <1>1 DEF Compensate, Listed
  <2> QED BY <2>1, <2>2, <2>3 DEF Compensate
<1>3. Listed \subseteq Listed'
  <2>1. orphans \subseteq orphans' /\ removing.targets \subseteq removing'.targets
    BY DEF Compensate, PostTypeOK, DeletionJob
  <2> QED BY <1>1, <2>1 DEF Listed
<1>4. \A m \in posted' : RowsExist' => /\ m \in Listed => m \in Listed'
                                       /\ InHand(m) => InHand(m)' \/ m \in Listed'
  BY <1>2, <1>3 DEF InHand
<1>5. SummaryKnown' /\ PageKnown'
  BY <1>1, <1>4, KnownStays
<1>6. \A m \in posted' : RowsExist' /\ page'.state = "pending" /\ page'.at = m =>
        m[1] # review' \/ m \in Listed' \/ InHand(m)'
  BY <1>1, <1>4, KnownStays
<1> QED BY <1>1, <1>5, <1>6 DEF PostInv, PageFits, InHand

\* The turn comes to its page with nothing to replace.
LEMMA EnsurePageTurn ==
  ASSUME PostTypeOK, PostInv, EnsurePage
  PROVE TurnFits'
<1>1. UNCHANGED <<removing, review, posted, threads>> /\ publisher.step = "page"
  BY DEF EnsurePage
<1>2. CASE TurnEnds
  BY <1>1, <1>2 DEF TurnEnds, NoTurn, TurnFits, OfSummary
<1>3. CASE Turn("claimpage") \/ Turn("editpage")
  <2>1. /\ publisher'.step \in {"claimpage", "editpage"} /\ publisher'.summary = publisher.summary
        /\ publisher'.replace = publisher.replace
    BY <1>3, Turns DEF PublisherStep
  <2>2. publisher.replace = NoRef
    BY <1>1 DEF PostInv, TurnFits
  <2> QED BY <1>1, <2>1, <2>2 DEF PostInv, TurnFits, OfSummary, RowsExist
<1> QED BY <1>2, <1>3 DEF EnsurePage

\* A page is replaced only when it is gone, or is in another thread.
LEMMA EditPageTurn ==
  ASSUME PostTypeOK, PostInv, EditPage
  PROVE TurnFits'
<1>1. UNCHANGED <<removing, review, posted, threads, page>> /\ publisher.step = "editpage"
  BY DEF EditPage, postDb
<1>2. publisher.replace = NoRef
  BY <1>1 DEF PostInv, TurnFits
<1>3. RowsExist => publisher.summary = review
  BY <1>1 DEF PostInv, TurnFits, OfSummary
<1>4. CASE TurnEnds
  BY <1>1, <1>4 DEF TurnEnds, NoTurn, TurnFits, OfSummary
<1>5. CASE Turn("record")
  <2>1. /\ publisher'.step = "record" /\ publisher'.summary = publisher.summary
        /\ publisher'.replace = publisher.replace
    BY <1>5, Turns DEF PublisherStep
  <2> QED BY <1>1, <1>2, <1>3, <2>1 DEF TurnFits, OfSummary, RowsExist
<1>6. CASE /\ page.at[1] # publisher.summary \/ IsGone(page.at)
           /\ publisher' = [publisher EXCEPT !.step = "claimpage", !.replace = page.at]
  <2>1. /\ publisher'.step = "claimpage" /\ publisher'.summary = publisher.summary
        /\ publisher'.replace = page.at
    BY <1>6 DEF PostTypeOK, Publisher
  <2> QED BY <1>1, <1>3, <1>6, <2>1 DEF TurnFits, OfSummary, RowsExist, IsGone
<1> QED BY <1>4, <1>5, <1>6 DEF EditPage

\* Whoever claims the page of a case may forget the message it has, for the reason it came.
LEMMA ClaimPageFits ==
  ASSUME PostTypeOK, PostInv, ClaimPage
  PROVE PageFits'
<1>1. /\ UNCHANGED <<removing, review, posted, orphans, lost>>
      /\ publisher.step = "claimpage" /\ page'.at = page.at
  BY DEF ClaimPage, PostTypeOK, Page
<1>2. CASE page' = page
  <2>1. \A m \in Ref : ~InHand(m)
    BY <1>1 DEF InHand
  <2> QED BY <1>1, <1>2, <2>1 DEF PostInv, PageFits, PostTypeOK, RowsExist, Listed
<1>3. CASE /\ page.state # "none" /\ Replaceable
           /\ page' = [page EXCEPT !.state = "pending", !.owner = "task", !.stale = FALSE]
  <2>1. page'.state = "pending" /\ page'.owner = "task"
    BY <1>3 DEF PostTypeOK, Page
  <2>2. ASSUME RowsExist, page.at \in posted
        PROVE  page.at[1] # review \/ page.at \in Listed
    <3>1. CASE page.state = "pending"
      BY <1>1, <2>2, <3>1 DEF PostInv, PageFits, InHand
    <3>2. CASE page.at = publisher.replace
      <4>1. publisher.replace # NoRef
        BY <2>2, <3>2, RefParts DEF PostTypeOK
      <4>2. publisher.replace[1] # publisher.summary
        BY <1>1, <2>2, <3>2, <4>1 DEF PostInv, TurnFits
      <4> QED BY <1>1, <2>2, <3>2, <4>2 DEF PostInv, TurnFits, OfSummary
    <3> QED BY <1>3, <3>1, <3>2 DEF Replaceable
  <2> QED BY <1>1, <2>1, <2>2 DEF PostInv, PageFits, RowsExist, Listed
<1> QED BY <1>2, <1>3 DEF ClaimPage

\* A page that is sent is the publisher's until it is recorded.
LEMMA SendPageFits ==
  ASSUME PostTypeOK, PostInv, NEW k \in 1..MaxPage, SendPage(k)
  PROVE  TurnFits' /\ PageKnown' /\ PageFits'
<1> DEFINE m == <<publisher.summary, k>>
<1>1. /\ UNCHANGED <<removing, review, orphans, lost, threads>> /\ publisher.step = "sendpage"
      /\ page'.at = page.at /\ page'.state = page.state
      /\ page'.owner # "none" => page.owner # "none"
  BY DEF SendPage, PostTypeOK, Page
<1>2. \A n \in Ref : ~InHand(n)
  BY <1>1 DEF InHand
<1>3. CASE publisher.summary \notin threads
  <2>1. posted' = posted /\ publisher' = NoTurn
    BY <1>3 DEF SendPage, TurnEnds
  <2>2. TurnFits'
    BY <2>1 DEF NoTurn, TurnFits, OfSummary
  <2>3. PageKnown'
    BY <1>1, <1>2, <2>1 DEF PostInv, PageKnown, PostTypeOK, RowsExist, Listed
  <2>4. PageFits'
    BY <1>1, <1>2, <2>1 DEF PostInv, PageFits, PostTypeOK, RowsExist, Listed
  <2> QED BY <2>2, <2>3, <2>4
<1>4. CASE publisher.summary \in threads
  <2>1. /\ posted' = posted \cup {m}
        /\ publisher' = [publisher EXCEPT !.step = "completepage", !.sent = m]
    BY <1>4 DEF SendPage
  <2>2. /\ publisher'.step = "completepage" /\ publisher'.sent = m
        /\ publisher'.summary = publisher.summary /\ publisher'.replace = publisher.replace
    BY <2>1 DEF PostTypeOK, Publisher
  <2>3. m \in Ref /\ m[1] = publisher.summary /\ m[2] > 0
    <3>1. k \in 0..MaxPage /\ k > 0
      BY PostAssumption DEF PostAssumption
    <3> QED BY <1>4, <3>1, RefParts DEF PostTypeOK
  <2>4. RowsExist => publisher.summary = review
    BY <1>1 DEF PostInv, TurnFits, OfSummary
  <2>5. InHand(m)'
    BY <2>2 DEF InHand
  <2>6. TurnFits'
    BY <1>1, <2>2, <2>3, <2>4 DEF TurnFits, OfSummary, RowsExist
  <2>7. PageKnown'
    BY <1>1, <1>2, <2>1, <2>5 DEF PostInv, PageKnown, PostTypeOK, RowsExist, Listed
  <2>8. PageFits'
    <3>1. page'.at \in posted' => page.at \in posted \/ page.at = m
      BY <1>1, <2>1
    <3> QED BY <1>1, <1>2, <2>2, <3>1 DEF PostInv, PageFits, PostTypeOK, RowsExist, Listed, InHand
  <2> QED BY <2>6, <2>7, <2>8
<1> QED BY <1>3, <1>4

\* A job takes over the orphans.
LEMMA PlanDeletionKnown ==
  ASSUME PostTypeOK, PostInv, PlanDeletion
  PROVE  SummaryKnown' /\ PageKnown' /\ PageFits'
<1>1. UNCHANGED <<posted, review, orphans, lost, publisher, page>> /\ ~removing.planned
  BY DEF PlanDeletion
<1>2. removing = NoJob
  BY <1>1 DEF PostInv, JobFits
<1>3. removing'.targets = orphans /\ ~removing'.rows
  BY DEF PlanDeletion
<1>4. Listed' = Listed /\ RowsExist
  BY <1>1, <1>2, <1>3 DEF Listed, NoJob, RowsExist
<1>5. \A m : InHand(m)' <=> InHand(m)
  BY <1>1 DEF InHand
<1>6. SummaryKnown'
  BY <1>1, <1>4, <1>5 DEF PostInv, SummaryKnown
<1>7. PageKnown'
  BY <1>1, <1>4, <1>5 DEF PostInv, PageKnown
<1>8. PageFits'
  BY <1>1, <1>4, <1>5 DEF PostInv, PageFits, InHand
<1> QED BY <1>6, <1>7, <1>8

\* The rows stay while a publication is in flight.
LEMMA FinalizeCaseFits ==
  ASSUME PostTypeOK, PostInv, FinalizeCase
  PROVE  PageKnown' /\ PageFits'
<1>1. UNCHANGED <<posted, lost, publisher>>
  BY DEF FinalizeCase
<1>2. CASE InFlight \/ removing.rows
  <2>1. /\ UNCHANGED <<review, orphans, removing>> /\ page'.at = page.at
        /\ page'.state = page.state /\ (page'.owner # "none" => page.owner # "none")
    BY <1>2 DEF FinalizeCase, PostTypeOK, Page
  <2>2. \A m : InHand(m)' <=> InHand(m)
    BY <1>1 DEF InHand
  <2>3. PageKnown'
    BY <1>1, <2>1, <2>2 DEF PostInv, PageKnown, RowsExist, Listed
  <2>4. PageFits'
    BY <1>1, <2>1, <2>2 DEF PostInv, PageFits, RowsExist, Listed, InHand
  <2> QED BY <2>3, <2>4
<1>3. CASE ~(InFlight \/ removing.rows)
  <2>1. page' = NoPage /\ ~RowsExist'
    BY <1>3 DEF FinalizeCase, RowsExist, PostTypeOK, DeletionJob
  <2> QED BY <2>1, RefParts DEF PageKnown, PageFits, NoPage
<1> QED BY <1>2, <1>3

\* Without trouble there is one summary at most, whose thread holds every page; the job removes it.
LEMMA RemovePostsCleared ==
  ASSUME PostTypeOK, PostInv, RemovePosts
  PROVE ClearedIsEmpty'
<1> DEFINE s == remover.summary
           t == IF <<s, 0>> \in posted /\ s \in threads THEN s ELSE remover.thread
<1>1. UNCHANGED <<removing, publisher, lost, astray>> /\ remover.step = "remote"
  BY DEF RemovePosts, postDb
<1>2. (Untroubled' <=> Untroubled) /\ (Gone' <=> Gone) /\ \A m : InHand(m)' <=> InHand(m)
  BY <1>1 DEF Untroubled, Gone, InHand
<1>3. threads' = threads \ {t} /\ posted' \subseteq Outside(t) /\ Outside(t) \subseteq posted
  BY DEF RemovePosts, Outside
<1>4. CASE ~Untroubled
  BY <1>2, <1>4 DEF ClearedIsEmpty
<1>5. CASE Untroubled /\ Cleared
  <2>1. threads = {} /\ \A m \in posted : InHand(m)
    BY <1>5 DEF PostInv, ClearedIsEmpty
  <2> QED BY <1>2, <1>3, <2>1 DEF ClearedIsEmpty
<1>6. CASE Untroubled /\ ~Cleared /\ remover'.step = "rows"
  BY <1>1, <1>2, <1>6 DEF ClearedIsEmpty, Cleared
<1>7. CASE Untroubled /\ ~Cleared /\ remover'.step # "rows"
  <2>1. posted' = Outside(t) \ ({<<s, 0>>} \cup remover.targets)
    BY <1>7 DEF RemovePosts, PostTypeOK, Remover
  <2>2. removing.planned /\ s = removing.summary /\ ~Gone
    BY <1>1, <1>7 DEF PostInv, JobFits, Cleared
  <2>3. \A m \in posted : m[2] = 0 => InHand(m) \/ m[1] = s
    BY <1>7, <2>2 DEF PostInv, OneAnchor
  <2>4. \A n \in threads : <<n, 0>> \in posted
    BY <1>7 DEF PostInv, NothingAstray, Untroubled
  <2>5. \A n \in threads : ~InHand(<<n, 0>>)
    BY DEF PostInv, TurnFits, InHand
  <2>6. \A n \in threads : n = s
    BY <2>3, <2>4, <2>5
  <2>7. threads' = {}
    BY <1>3, <2>4, <2>6
  <2>8. ASSUME NEW m \in posted' PROVE InHand(m)
    <3>1. m \in posted /\ m \in Ref /\ m \in Outside(t) /\ m # <<s, 0>>
      BY <1>3, <2>1, <2>8 DEF PostTypeOK
    <3>2. m[2] = 0
      <4>1. SUFFICES ASSUME m[2] > 0 PROVE FALSE
        BY <3>1, RefParts
      <4>2. m[1] \in threads
        BY <3>1, <4>1 DEF PostInv, PagesInThreads
      <4>3. m[1] = t
        BY <2>4, <2>6, <4>2
      <4> QED BY <3>1, <4>1, <4>3 DEF Outside
    <3> QED BY <2>3, <3>1, <3>2, RefParts
  <2> QED BY <1>2, <2>7, <2>8 DEF ClearedIsEmpty
<1> QED BY <1>4, <1>5, <1>6, <1>7

-----------------------------------------------------------------------------
(* Every step *)

LEMMA CaseChangesKeeps ==
  ASSUME PostTypeOK, PostInv, CaseChanges
  PROVE  PostInv'
<1>1. TurnFits' /\ PagesInThreads' /\ SummaryKnown' /\ JobFits' /\ NothingAstray' /\ OneAnchor' /\
      ClearedIsEmpty'
  BY DEF PostInv, CaseChanges, TurnFits, PagesInThreads, SummaryKnown, JobFits, NothingAstray,
     OneAnchor, ClearedIsEmpty, OfSummary, RowsExist, Listed, InHand, Untroubled, Gone, Cleared
<1>2. PageKnown'
  BY RefParts DEF PostInv, PageKnown, RowsExist, Listed, InHand, CaseChanges, Lucky
<1>3. PageFits'
  BY RefParts DEF PostInv, PageFits, RowsExist, Listed, InHand, CaseChanges, Lucky
<1> QED BY <1>1, <1>2, <1>3 DEF PostInv

LEMMA MessageDeletedKeeps ==
  ASSUME PostTypeOK, PostInv, NEW m \in Ref, MessageDeleted(m)
  PROVE  PostInv'
<1>1. JobFits'
  BY DEF PostInv, MessageDeleted, JobFits
<1>2. TurnFits'
  BY RefParts DEF PostInv, TurnFits, OfSummary, RowsExist, MessageDeleted, Lucky
<1>3. PagesInThreads'
  BY RefParts DEF PostInv, PagesInThreads, MessageDeleted, Lucky
<1>4. SummaryKnown'
  BY RefParts DEF PostInv, SummaryKnown, RowsExist, Listed, InHand, MessageDeleted, Lucky
<1>5. PageKnown'
  BY RefParts DEF PostInv, PageKnown, RowsExist, Listed, InHand, MessageDeleted, Lucky
<1>6. PageFits'
  BY RefParts DEF PostInv, PageFits, RowsExist, Listed, InHand, MessageDeleted, Lucky
<1>7. NothingAstray'
  BY RefParts DEF PostInv, NothingAstray, MessageDeleted, Lucky
<1>8. OneAnchor'
  BY RefParts DEF PostInv, OneAnchor, Untroubled, Gone, InHand, MessageDeleted, Lucky
<1>9. ClearedIsEmpty'
  BY RefParts DEF PostInv, ClearedIsEmpty, Untroubled, Cleared, Gone, InHand, MessageDeleted, Lucky
<1> QED BY <1>1, <1>2, <1>3, <1>4, <1>5, <1>6, <1>7, <1>8, <1>9 DEF PostInv

LEMMA ClaimAgesKeeps ==
  ASSUME PostTypeOK, PostInv, ClaimAges
  PROVE  PostInv'
<1>1. TurnFits' /\ PagesInThreads' /\ SummaryKnown' /\ JobFits' /\ NothingAstray' /\ OneAnchor' /\
      ClearedIsEmpty'
  BY DEF PostInv, ClaimAges, TurnFits, PagesInThreads, SummaryKnown, JobFits, NothingAstray,
     OneAnchor, ClearedIsEmpty, OfSummary, RowsExist, Listed, InHand, Untroubled, Gone, Cleared
<1>2. PageKnown'
  BY RefParts DEF PostInv, PageKnown, RowsExist, Listed, InHand, ClaimAges, PostTypeOK, Page
<1>3. PageFits'
  BY RefParts DEF PostInv, PageFits, RowsExist, Listed, InHand, ClaimAges, PostTypeOK, Page
<1> QED BY <1>1, <1>2, <1>3 DEF PostInv

LEMMA ClaimOutlivedKeeps ==
  ASSUME PostTypeOK, PostInv, ClaimOutlived
  PROVE  PostInv'
<1>1. TurnFits' /\ PagesInThreads' /\ SummaryKnown' /\ JobFits' /\ NothingAstray' /\ OneAnchor' /\
      ClearedIsEmpty'
  BY DEF PostInv, ClaimOutlived, TurnFits, PagesInThreads, SummaryKnown, JobFits, NothingAstray,
     OneAnchor, ClearedIsEmpty, OfSummary, RowsExist, Listed, InHand, Untroubled, Gone, Cleared
<1>2. PageKnown'
  BY RefParts DEF PostInv, PageKnown, RowsExist, Listed, InHand, ClaimOutlived, Lucky
<1>3. PageFits'
  BY RefParts DEF PostInv, PageFits, RowsExist, Listed, InHand, ClaimOutlived, Lucky
<1> QED BY <1>1, <1>2, <1>3 DEF PostInv

LEMMA StartPublishingKeeps ==
  ASSUME PostTypeOK, PostInv, StartPublishing
  PROVE  PostInv'
<1>1. PagesInThreads' /\ JobFits' /\ NothingAstray'
  BY DEF PostInv, StartPublishing, postDb, PagesInThreads, JobFits, NothingAstray
<1>2. TurnFits'
  BY RefParts DEF PostInv, TurnFits, OfSummary, RowsExist, StartPublishing, NoTurn, postDb
<1>3. SummaryKnown'
  BY RefParts DEF PostInv, SummaryKnown, RowsExist, Listed, InHand, StartPublishing, NoTurn, postDb
<1>4. PageKnown'
  BY RefParts DEF PostInv, PageKnown, RowsExist, Listed, InHand, StartPublishing, NoTurn, postDb
<1>5. PageFits'
  BY RefParts DEF PostInv, PageFits, RowsExist, Listed, InHand, StartPublishing, NoTurn, postDb
<1>6. OneAnchor'
  BY RefParts DEF PostInv, OneAnchor, Untroubled, Gone, InHand, StartPublishing, RowsExist, NoTurn,
     postDb
<1>7. ClearedIsEmpty'
  BY RefParts DEF PostInv, ClearedIsEmpty, Untroubled, Cleared, Gone, InHand, StartPublishing,
     RowsExist, NoTurn, postDb
<1> QED BY <1>1, <1>2, <1>3, <1>4, <1>5, <1>6, <1>7 DEF PostInv

LEMMA EditSummaryKeeps ==
  ASSUME PostTypeOK, PostInv, EditSummary
  PROVE  PostInv'
<1>1. PagesInThreads' /\ JobFits' /\ NothingAstray'
  BY DEF PostInv, EditSummary, postDb, PagesInThreads, JobFits, NothingAstray
<1>2. TurnFits'
  BY RefParts DEF PostInv, TurnFits, OfSummary, RowsExist, EditSummary, Turn, TurnEnds, NoTurn,
     IsGone, postDb, PostTypeOK, Publisher
<1>3. SummaryKnown'
  BY RefParts DEF PostInv, SummaryKnown, RowsExist, Listed, InHand, EditSummary, Lucky, Turn,
     TurnEnds, NoTurn, IsGone, postDb
<1>4. PageKnown'
  BY RefParts DEF PostInv, PageKnown, RowsExist, Listed, InHand, EditSummary, Lucky, Turn,
     TurnEnds, NoTurn, IsGone, postDb
<1>5. PageFits'
  BY RefParts DEF PostInv, PageFits, RowsExist, Listed, InHand, EditSummary, Lucky, Turn, TurnEnds,
     NoTurn, IsGone, postDb
<1>6. OneAnchor'
  BY RefParts DEF PostInv, OneAnchor, Untroubled, Gone, InHand, EditSummary, Lucky, Turn, TurnEnds,
     NoTurn, IsGone, postDb
<1>7. ClearedIsEmpty'
  BY RefParts DEF PostInv, ClearedIsEmpty, Untroubled, Cleared, Gone, InHand, EditSummary, Lucky,
     Turn, TurnEnds, NoTurn, IsGone, postDb
<1> QED BY <1>1, <1>2, <1>3, <1>4, <1>5, <1>6, <1>7 DEF PostInv

LEMMA ClearReviewKeeps ==
  ASSUME PostTypeOK, PostInv, ClearReview
  PROVE  PostInv'
<1>1. PagesInThreads' /\ JobFits' /\ NothingAstray'
  BY DEF PostInv, ClearReview, PagesInThreads, JobFits, NothingAstray
<1>2. TurnFits'
  BY RefParts DEF PostInv, TurnFits, OfSummary, RowsExist, ClearReview, Turn
<1>3. SummaryKnown'
  BY RefParts DEF PostInv, SummaryKnown, RowsExist, Listed, InHand, ClearReview, TurnFits
<1>4. PageKnown'
  BY RefParts DEF PostInv, PageKnown, RowsExist, Listed, InHand, ClearReview, PostTypeOK
<1>5. PageFits'
  BY RefParts DEF PostInv, PageFits, RowsExist, Listed, InHand, ClearReview, PostTypeOK
<1>6. OneAnchor'
  BY RefParts DEF PostInv, OneAnchor, Untroubled, Gone, InHand, ClearReview, PostTypeOK, TurnFits
<1>7. ClearedIsEmpty'
  BY RefParts DEF PostInv, ClearedIsEmpty, Untroubled, Cleared, Gone, InHand, ClearReview, Turn
<1> QED BY <1>1, <1>2, <1>3, <1>4, <1>5, <1>6, <1>7 DEF PostInv

LEMMA ClaimPrimaryKeeps ==
  ASSUME PostTypeOK, PostInv, ClaimPrimary
  PROVE  PostInv'
<1>1. PagesInThreads' /\ JobFits' /\ NothingAstray'
  BY DEF PostInv, ClaimPrimary, PagesInThreads, JobFits, NothingAstray
<1>2. TurnFits'
  BY RefParts DEF PostInv, TurnFits, OfSummary, ClaimPrimary, Turn, TurnEnds, NoTurn, PostTypeOK,
     Publisher
<1>3. SummaryKnown'
  BY RefParts DEF PostInv, SummaryKnown, RowsExist, Listed, InHand, ClaimPrimary, Turn, TurnEnds,
     NoTurn
<1>4. PageKnown'
  BY RefParts DEF PostInv, PageKnown, RowsExist, Listed, InHand, ClaimPrimary, Turn, TurnEnds,
     NoTurn
<1>5. PageFits'
  BY RefParts DEF PostInv, PageFits, RowsExist, Listed, InHand, ClaimPrimary, Turn, TurnEnds,
     NoTurn
<1>6. OneAnchor'
  BY RefParts DEF PostInv, OneAnchor, Untroubled, Gone, InHand, ClaimPrimary, Turn, TurnEnds,
     NoTurn
<1>7. ClearedIsEmpty'
  BY RefParts DEF PostInv, ClearedIsEmpty, Untroubled, Cleared, Gone, InHand, ClaimPrimary, Turn,
     TurnEnds, NoTurn
<1> QED BY <1>1, <1>2, <1>3, <1>4, <1>5, <1>6, <1>7 DEF PostInv

LEMMA SendSummaryKeeps ==
  ASSUME PostTypeOK, PostInv, NEW s \in Summary, SendSummary(s)
  PROVE  PostInv'
<1>1. JobFits'
  BY DEF PostInv, SendSummary, postDb, JobFits
<1>2. TurnFits'
  BY RefParts DEF PostInv, TurnFits, OfSummary, RowsExist, SendSummary, postDb
<1>3. PagesInThreads'
  BY RefParts DEF PostInv, PagesInThreads, SendSummary, postDb
<1>4. SummaryKnown'
  BY RefParts DEF PostInv, SummaryKnown, RowsExist, Listed, InHand, SendSummary, postDb
<1>5. PageKnown'
  BY RefParts DEF PostInv, PageKnown, RowsExist, Listed, InHand, SendSummary, postDb
<1>6. PageFits'
  BY RefParts DEF PostInv, PageFits, RowsExist, Listed, InHand, SendSummary, postDb
<1>7. NothingAstray'
  BY RefParts DEF PostInv, NothingAstray, SendSummary, postDb
<1>8. OneAnchor'
  BY RefParts DEF PostInv, OneAnchor, Untroubled, Gone, InHand, SendSummary, postDb
<1>9. ClearedIsEmpty'
  BY RefParts DEF PostInv, ClearedIsEmpty, Untroubled, Cleared, Gone, InHand, SendSummary, postDb
<1> QED BY <1>1, <1>2, <1>3, <1>4, <1>5, <1>6, <1>7, <1>8, <1>9 DEF PostInv

LEMMA SendFailsKeeps ==
  ASSUME PostTypeOK, PostInv, SendFails
  PROVE  PostInv'
<1>1. PagesInThreads' /\ JobFits' /\ NothingAstray'
  BY DEF PostInv, SendFails, PagesInThreads, JobFits, NothingAstray
<1>2. TurnFits'
  BY RefParts DEF PostInv, TurnFits, OfSummary, RowsExist, SendFails, Lucky, TurnEnds, NoTurn,
     NoClaim
<1>3. SummaryKnown'
  BY RefParts DEF PostInv, SummaryKnown, RowsExist, Listed, InHand, SendFails, Lucky, TurnEnds,
     NoTurn, NoClaim
<1>4. PageKnown'
  BY RefParts DEF PostInv, PageKnown, RowsExist, Listed, InHand, SendFails, Lucky, TurnEnds,
     NoTurn, NoClaim
<1>5. PageFits'
  BY RefParts DEF PostInv, PageFits, RowsExist, Listed, InHand, SendFails, Lucky, TurnEnds, NoTurn,
     NoClaim
<1>6. OneAnchor'
  BY RefParts DEF PostInv, OneAnchor, Untroubled, Gone, InHand, SendFails, Lucky, TurnEnds, NoTurn,
     NoClaim
<1>7. ClearedIsEmpty'
  BY RefParts DEF PostInv, ClearedIsEmpty, Untroubled, Cleared, Gone, InHand, SendFails, Lucky,
     TurnEnds, NoTurn, NoClaim
<1> QED BY <1>1, <1>2, <1>3, <1>4, <1>5, <1>6, <1>7 DEF PostInv

LEMMA CompletePrimaryKeeps ==
  ASSUME PostTypeOK, PostInv, CompletePrimary
  PROVE  PostInv'
<1>1. PagesInThreads' /\ JobFits' /\ NothingAstray'
  BY DEF PostInv, CompletePrimary, PagesInThreads, JobFits, NothingAstray
<1>2. PageFits'
  BY CompletePrimaryFits
<1>3. ClearedIsEmpty'
  BY CompletePrimaryCleared
<1>4. TurnFits'
  BY RefParts DEF PostInv, TurnFits, OfSummary, CompletePrimary, Turn, PostTypeOK, Publisher
<1>5. SummaryKnown'
  BY RefParts DEF PostInv, SummaryKnown, RowsExist, Listed, InHand, CompletePrimary, Turn,
     MayRecord, PostTypeOK, Publisher, TurnFits
<1>6. PageKnown'
  BY RefParts DEF PostInv, PageKnown, RowsExist, Listed, InHand, CompletePrimary, TurnFits,
     PagesInThreads
<1>7. OneAnchor'
  BY RefParts DEF PostInv, OneAnchor, Untroubled, Gone, InHand, CompletePrimary, Turn, MayRecord,
     PostTypeOK, Publisher, TurnFits
<1> QED BY <1>1, <1>2, <1>3, <1>4, <1>5, <1>6, <1>7 DEF PostInv

LEMMA CompensateKeeps ==
  ASSUME PostTypeOK, PostInv, Compensate
  PROVE  PostInv'
<1>1. SummaryKnown' /\ PageKnown' /\ PageFits'
  BY CompensateKnown
<1>2. TurnFits'
  BY RefParts DEF PostInv, TurnFits, OfSummary, RowsExist, Compensate, Lucky, TurnEnds, NoTurn
<1>3. PagesInThreads'
  BY RefParts DEF PostInv, PagesInThreads, Compensate, Lucky, TurnEnds, RowsExist, NoTurn
<1>4. JobFits'
  BY RefParts DEF PostInv, JobFits, Compensate, PostTypeOK, DeletionJob
<1>5. NothingAstray'
  BY RefParts DEF PostInv, NothingAstray, Compensate, TurnFits
<1>6. OneAnchor'
  BY RefParts DEF PostInv, OneAnchor, Untroubled, Gone, InHand, Compensate, Lucky, TurnEnds,
     RowsExist, NoTurn
<1>7. ClearedIsEmpty'
  BY RefParts DEF PostInv, ClearedIsEmpty, Untroubled, Cleared, Gone, InHand, Compensate, Lucky,
     TurnEnds, RowsExist, NoTurn
<1> QED BY <1>1, <1>2, <1>3, <1>4, <1>5, <1>6, <1>7 DEF PostInv

LEMMA FindThreadKeeps ==
  ASSUME PostTypeOK, PostInv, FindThread
  PROVE  PostInv'
<1>1. JobFits'
  BY DEF PostInv, FindThread, postDb, JobFits
<1>2. TurnFits'
  BY RefParts DEF PostInv, TurnFits, OfSummary, RowsExist, FindThread, Turn, TurnEnds, NoTurn,
     postDb, PostTypeOK, Publisher
<1>3. PagesInThreads'
  BY RefParts DEF PostInv, PagesInThreads, FindThread, Turn, TurnEnds, NoTurn, postDb
<1>4. SummaryKnown'
  BY RefParts DEF PostInv, SummaryKnown, RowsExist, Listed, InHand, FindThread, Turn, TurnEnds,
     NoTurn, postDb
<1>5. PageKnown'
  BY RefParts DEF PostInv, PageKnown, RowsExist, Listed, InHand, FindThread, Turn, TurnEnds,
     NoTurn, postDb
<1>6. PageFits'
  BY RefParts DEF PostInv, PageFits, RowsExist, Listed, InHand, FindThread, Turn, TurnEnds, NoTurn,
     postDb
<1>7. NothingAstray'
  BY RefParts DEF PostInv, NothingAstray, FindThread, Turn, TurnEnds, NoTurn, postDb
<1>8. OneAnchor'
  BY RefParts DEF PostInv, OneAnchor, Untroubled, Gone, InHand, FindThread, Turn, TurnEnds, NoTurn,
     postDb
<1>9. ClearedIsEmpty'
  BY RefParts DEF PostInv, ClearedIsEmpty, Untroubled, Cleared, Gone, InHand, FindThread, Turn,
     TurnEnds, NoTurn, postDb
<1> QED BY <1>1, <1>2, <1>3, <1>4, <1>5, <1>6, <1>7, <1>8, <1>9 DEF PostInv

LEMMA EnsureEndpointKeeps ==
  ASSUME PostTypeOK, PostInv, EnsureEndpoint
  PROVE  PostInv'
<1>1. PagesInThreads' /\ JobFits' /\ NothingAstray'
  BY DEF PostInv, EnsureEndpoint, PagesInThreads, JobFits, NothingAstray
<1>2. TurnFits'
  BY RefParts DEF PostInv, TurnFits, OfSummary, RowsExist, EnsureEndpoint, Turn, PostTypeOK,
     Publisher
<1>3. SummaryKnown'
  BY RefParts DEF PostInv, SummaryKnown, RowsExist, Listed, InHand, EnsureEndpoint, Turn
<1>4. PageKnown'
  BY RefParts DEF PostInv, PageKnown, RowsExist, Listed, InHand, EnsureEndpoint, Turn
<1>5. PageFits'
  BY RefParts DEF PostInv, PageFits, RowsExist, Listed, InHand, EnsureEndpoint, Turn
<1>6. OneAnchor'
  BY RefParts DEF PostInv, OneAnchor, Untroubled, Gone, InHand, EnsureEndpoint, Turn
<1>7. ClearedIsEmpty'
  BY RefParts DEF PostInv, ClearedIsEmpty, Untroubled, Cleared, Gone, InHand, EnsureEndpoint, Turn
<1> QED BY <1>1, <1>2, <1>3, <1>4, <1>5, <1>6, <1>7 DEF PostInv

LEMMA ActivateEndpointKeeps ==
  ASSUME PostTypeOK, PostInv, ActivateEndpoint
  PROVE  PostInv'
<1>1. PagesInThreads' /\ JobFits' /\ NothingAstray'
  BY DEF PostInv, ActivateEndpoint, PagesInThreads, JobFits, NothingAstray
<1>2. TurnFits'
  BY RefParts DEF PostInv, TurnFits, OfSummary, RowsExist, ActivateEndpoint, Turn, PostTypeOK,
     Publisher
<1>3. SummaryKnown'
  BY RefParts DEF PostInv, SummaryKnown, RowsExist, Listed, InHand, ActivateEndpoint, Turn
<1>4. PageKnown'
  BY RefParts DEF PostInv, PageKnown, RowsExist, Listed, InHand, ActivateEndpoint, Turn
<1>5. PageFits'
  BY RefParts DEF PostInv, PageFits, RowsExist, Listed, InHand, ActivateEndpoint, Turn
<1>6. OneAnchor'
  BY RefParts DEF PostInv, OneAnchor, Untroubled, Gone, InHand, ActivateEndpoint, Turn
<1>7. ClearedIsEmpty'
  BY RefParts DEF PostInv, ClearedIsEmpty, Untroubled, Cleared, Gone, InHand, ActivateEndpoint,
     Turn
<1> QED BY <1>1, <1>2, <1>3, <1>4, <1>5, <1>6, <1>7 DEF PostInv

LEMMA DropThreadKeeps ==
  ASSUME PostTypeOK, PostInv, DropThread
  PROVE  PostInv'
<1>1. JobFits'
  BY DEF PostInv, DropThread, postDb, JobFits
<1>2. TurnFits'
  BY RefParts DEF PostInv, TurnFits, OfSummary, RowsExist, DropThread, Lucky, TurnEnds, NoTurn,
     Outside, postDb
<1>3. PagesInThreads'
  BY RefParts DEF PostInv, PagesInThreads, DropThread, Lucky, TurnEnds, NoTurn, Outside, postDb
<1>4. SummaryKnown'
  BY RefParts DEF PostInv, SummaryKnown, RowsExist, Listed, InHand, DropThread, Lucky, TurnEnds,
     NoTurn, Outside, postDb
<1>5. PageKnown'
  BY RefParts DEF PostInv, PageKnown, RowsExist, Listed, InHand, DropThread, Lucky, TurnEnds,
     NoTurn, Outside, postDb
<1>6. PageFits'
  BY RefParts DEF PostInv, PageFits, RowsExist, Listed, InHand, DropThread, Lucky, TurnEnds,
     NoTurn, Outside, postDb
<1>7. NothingAstray'
  BY RefParts DEF PostInv, NothingAstray, DropThread, Lucky, TurnEnds, NoTurn, Outside, postDb
<1>8. OneAnchor'
  BY RefParts DEF PostInv, OneAnchor, Untroubled, Gone, InHand, DropThread, Lucky, TurnEnds,
     NoTurn, Outside, postDb
<1>9. ClearedIsEmpty'
  BY RefParts DEF PostInv, ClearedIsEmpty, Untroubled, Cleared, Gone, InHand, DropThread, Lucky,
     TurnEnds, NoTurn, Outside, postDb
<1> QED BY <1>1, <1>2, <1>3, <1>4, <1>5, <1>6, <1>7, <1>8, <1>9 DEF PostInv

LEMMA EnsurePageKeeps ==
  ASSUME PostTypeOK, PostInv, EnsurePage
  PROVE  PostInv'
<1>1. PagesInThreads' /\ JobFits' /\ NothingAstray'
  BY DEF PostInv, EnsurePage, PagesInThreads, JobFits, NothingAstray
<1>2. TurnFits'
  BY EnsurePageTurn
<1>3. SummaryKnown'
  BY RefParts DEF PostInv, SummaryKnown, RowsExist, Listed, InHand, EnsurePage, Turn, TurnEnds,
     NoTurn
<1>4. PageKnown'
  BY RefParts DEF PostInv, PageKnown, RowsExist, Listed, InHand, EnsurePage, PostTypeOK, Page
<1>5. PageFits'
  BY RefParts DEF PostInv, PageFits, RowsExist, Listed, InHand, EnsurePage, PostTypeOK, Page
<1>6. OneAnchor'
  BY RefParts DEF PostInv, OneAnchor, Untroubled, Gone, InHand, EnsurePage, Turn, TurnEnds, NoTurn
<1>7. ClearedIsEmpty'
  BY RefParts DEF PostInv, ClearedIsEmpty, Untroubled, Cleared, Gone, InHand, EnsurePage, Turn,
     TurnEnds, NoTurn
<1> QED BY <1>1, <1>2, <1>3, <1>4, <1>5, <1>6, <1>7 DEF PostInv

LEMMA EditPageKeeps ==
  ASSUME PostTypeOK, PostInv, EditPage
  PROVE  PostInv'
<1>1. PagesInThreads' /\ JobFits' /\ NothingAstray'
  BY DEF PostInv, EditPage, postDb, PagesInThreads, JobFits, NothingAstray
<1>2. TurnFits'
  BY EditPageTurn
<1>3. SummaryKnown'
  BY RefParts DEF PostInv, SummaryKnown, RowsExist, Listed, InHand, EditPage, Lucky, Turn,
     TurnEnds, NoTurn, IsGone, postDb
<1>4. PageKnown'
  BY RefParts DEF PostInv, PageKnown, RowsExist, Listed, InHand, EditPage, Lucky, Turn, TurnEnds,
     NoTurn, IsGone, postDb
<1>5. PageFits'
  BY RefParts DEF PostInv, PageFits, RowsExist, Listed, InHand, EditPage, Lucky, Turn, TurnEnds,
     NoTurn, IsGone, postDb
<1>6. OneAnchor'
  BY RefParts DEF PostInv, OneAnchor, Untroubled, Gone, InHand, EditPage, Lucky, Turn, TurnEnds,
     NoTurn, IsGone, postDb
<1>7. ClearedIsEmpty'
  BY RefParts DEF PostInv, ClearedIsEmpty, Untroubled, Cleared, Gone, InHand, EditPage, Lucky,
     Turn, TurnEnds, NoTurn, IsGone, postDb
<1> QED BY <1>1, <1>2, <1>3, <1>4, <1>5, <1>6, <1>7 DEF PostInv

LEMMA RecordRenderKeeps ==
  ASSUME PostTypeOK, PostInv, RecordRender
  PROVE  PostInv'
<1>1. PagesInThreads' /\ JobFits' /\ NothingAstray'
  BY DEF PostInv, RecordRender, PagesInThreads, JobFits, NothingAstray
<1>2. TurnFits'
  BY RefParts DEF PostInv, TurnFits, OfSummary, RowsExist, RecordRender, TurnEnds, NoTurn
<1>3. SummaryKnown'
  BY RefParts DEF PostInv, SummaryKnown, RowsExist, Listed, InHand, RecordRender, TurnEnds, NoTurn
<1>4. PageKnown'
  BY RefParts DEF PostInv, PageKnown, RowsExist, Listed, InHand, RecordRender, TurnEnds, NoTurn
<1>5. PageFits'
  BY RefParts DEF PostInv, PageFits, RowsExist, Listed, InHand, RecordRender, TurnEnds, NoTurn
<1>6. OneAnchor'
  BY RefParts DEF PostInv, OneAnchor, Untroubled, Gone, InHand, RecordRender, TurnEnds, NoTurn
<1>7. ClearedIsEmpty'
  BY RefParts DEF PostInv, ClearedIsEmpty, Untroubled, Cleared, Gone, InHand, RecordRender,
     TurnEnds, NoTurn
<1> QED BY <1>1, <1>2, <1>3, <1>4, <1>5, <1>6, <1>7 DEF PostInv

LEMMA ClaimPageKeeps ==
  ASSUME PostTypeOK, PostInv, ClaimPage
  PROVE  PostInv'
<1>1. PagesInThreads' /\ JobFits' /\ NothingAstray'
  BY DEF PostInv, ClaimPage, PagesInThreads, JobFits, NothingAstray
<1>2. PageFits'
  BY ClaimPageFits
<1>3. TurnFits'
  BY RefParts DEF PostInv, TurnFits, OfSummary, RowsExist, ClaimPage, Turn, TurnEnds, NoTurn,
     PostTypeOK, Publisher
<1>4. SummaryKnown'
  BY RefParts DEF PostInv, SummaryKnown, RowsExist, Listed, InHand, ClaimPage, Turn, TurnEnds,
     NoTurn, Replaceable
<1>5. PageKnown'
  BY RefParts DEF PostInv, PageKnown, RowsExist, Listed, InHand, ClaimPage, Replaceable,
     PostTypeOK, TurnFits, PageFits, OfSummary
<1>6. OneAnchor'
  BY RefParts DEF PostInv, OneAnchor, Untroubled, Gone, InHand, ClaimPage, Turn, TurnEnds, NoTurn,
     Replaceable
<1>7. ClearedIsEmpty'
  BY RefParts DEF PostInv, ClearedIsEmpty, Untroubled, Cleared, Gone, InHand, ClaimPage, Turn,
     TurnEnds, NoTurn, Replaceable
<1> QED BY <1>1, <1>2, <1>3, <1>4, <1>5, <1>6, <1>7 DEF PostInv

LEMMA SendPageKeeps ==
  ASSUME PostTypeOK, PostInv, NEW k \in 1..MaxPage, SendPage(k)
  PROVE  PostInv'
<1>1. JobFits'
  BY DEF PostInv, SendPage, JobFits
<1>2. TurnFits' /\ PageKnown' /\ PageFits'
  BY SendPageFits
<1>3. PagesInThreads'
  BY RefParts DEF PostInv, PagesInThreads, SendPage, TurnEnds, NoTurn
<1>4. SummaryKnown'
  BY RefParts DEF PostInv, SummaryKnown, RowsExist, Listed, InHand, SendPage, TurnEnds, NoTurn
<1>5. NothingAstray'
  BY RefParts DEF PostInv, NothingAstray, SendPage, TurnEnds, NoTurn
<1>6. OneAnchor'
  BY RefParts DEF PostInv, OneAnchor, Untroubled, Gone, InHand, SendPage, TurnEnds, NoTurn
<1>7. ClearedIsEmpty'
  BY RefParts DEF PostInv, ClearedIsEmpty, Untroubled, Cleared, Gone, InHand, SendPage, TurnEnds,
     NoTurn
<1> QED BY <1>1, <1>2, <1>3, <1>4, <1>5, <1>6, <1>7 DEF PostInv

LEMMA CompletePageKeeps ==
  ASSUME PostTypeOK, PostInv, CompletePage
  PROVE  PostInv'
<1>1. PagesInThreads' /\ JobFits' /\ NothingAstray'
  BY DEF PostInv, CompletePage, PagesInThreads, JobFits, NothingAstray
<1>2. TurnFits'
  BY RefParts DEF PostInv, TurnFits, OfSummary, CompletePage, Turn, TurnEnds, NoTurn, PostTypeOK,
     Publisher
<1>3. SummaryKnown'
  BY RefParts DEF PostInv, SummaryKnown, RowsExist, Listed, InHand, CompletePage, TurnFits
<1>4. PageKnown'
  BY RefParts DEF PostInv, PageKnown, RowsExist, Listed, InHand, CompletePage, Turn, PostTypeOK,
     Publisher, PageFits
<1>5. PageFits'
  BY RefParts DEF PostInv, PageFits, RowsExist, Listed, InHand, CompletePage, Turn, PostTypeOK,
     Page, Publisher, TurnFits
<1>6. OneAnchor'
  BY RefParts DEF PostInv, OneAnchor, Untroubled, Gone, InHand, CompletePage, TurnFits
<1>7. ClearedIsEmpty'
  BY RefParts DEF PostInv, ClearedIsEmpty, Untroubled, Cleared, Gone, InHand, CompletePage,
     TurnFits, PagesInThreads
<1> QED BY <1>1, <1>2, <1>3, <1>4, <1>5, <1>6, <1>7 DEF PostInv

LEMMA RetryOrphanKeeps ==
  ASSUME PostTypeOK, PostInv, NEW m \in Ref, RetryOrphan(m)
  PROVE  PostInv'
<1>1. JobFits'
  BY DEF PostInv, RetryOrphan, JobFits
<1>2. TurnFits'
  BY RefParts DEF PostInv, TurnFits, OfSummary, RowsExist, RetryOrphan
<1>3. PagesInThreads'
  BY RefParts DEF PostInv, PagesInThreads, RetryOrphan, RowsExist
<1>4. SummaryKnown'
  BY RefParts DEF PostInv, SummaryKnown, RowsExist, Listed, InHand, RetryOrphan
<1>5. PageKnown'
  BY RefParts DEF PostInv, PageKnown, RowsExist, Listed, InHand, RetryOrphan
<1>6. PageFits'
  BY RefParts DEF PostInv, PageFits, RowsExist, Listed, InHand, RetryOrphan
<1>7. NothingAstray'
  BY RefParts DEF PostInv, NothingAstray, RetryOrphan, RowsExist
<1>8. OneAnchor'
  BY RefParts DEF PostInv, OneAnchor, Untroubled, Gone, InHand, RetryOrphan, RowsExist
<1>9. ClearedIsEmpty'
  BY RefParts DEF PostInv, ClearedIsEmpty, Untroubled, Cleared, Gone, InHand, RetryOrphan,
     RowsExist
<1> QED BY <1>1, <1>2, <1>3, <1>4, <1>5, <1>6, <1>7, <1>8, <1>9 DEF PostInv

LEMMA PlanDeletionKeeps ==
  ASSUME PostTypeOK, PostInv, PlanDeletion
  PROVE  PostInv'
<1>1. PagesInThreads'
  BY DEF PostInv, PlanDeletion, PagesInThreads
<1>2. SummaryKnown' /\ PageKnown' /\ PageFits'
  BY PlanDeletionKnown
<1>3. TurnFits'
  BY RefParts DEF PostInv, TurnFits, RowsExist, PlanDeletion, JobFits
<1>4. JobFits'
  BY RefParts DEF PostInv, JobFits, PlanDeletion, Away
<1>5. NothingAstray'
  BY RefParts DEF PostInv, NothingAstray, PlanDeletion, Away
<1>6. OneAnchor'
  BY RefParts DEF PostInv, OneAnchor, Untroubled, InHand, PlanDeletion, PostTypeOK, SummaryKnown,
     JobFits, NothingAstray, RowsExist, Listed
<1>7. ClearedIsEmpty'
  BY RefParts DEF PostInv, ClearedIsEmpty, Untroubled, Cleared, Gone, InHand, PlanDeletion, Away
<1> QED BY <1>1, <1>2, <1>3, <1>4, <1>5, <1>6, <1>7 DEF PostInv

LEMMA RetryDeletionKeeps ==
  ASSUME PostTypeOK, PostInv, RetryDeletion
  PROVE  PostInv'
<1>1. TurnFits' /\ PagesInThreads' /\ SummaryKnown' /\ PageKnown' /\ PageFits' /\ OneAnchor'
  BY DEF PostInv, RetryDeletion, postDb, TurnFits, PagesInThreads, SummaryKnown, PageKnown,
     PageFits, OneAnchor, OfSummary, RowsExist, Listed, InHand, Untroubled, Gone
<1>2. JobFits'
  BY RefParts DEF PostInv, JobFits, RetryDeletion, Away, Unfinished, postDb
<1>3. NothingAstray'
  BY RefParts DEF PostInv, NothingAstray, RetryDeletion, Away, Unfinished, postDb
<1>4. ClearedIsEmpty'
  BY RefParts DEF PostInv, ClearedIsEmpty, Untroubled, Cleared, Gone, InHand, RetryDeletion, Away,
     Unfinished, postDb
<1> QED BY <1>1, <1>2, <1>3, <1>4 DEF PostInv

LEMMA ReadJobKeeps ==
  ASSUME PostTypeOK, PostInv, ReadJob
  PROVE  PostInv'
<1>1. TurnFits' /\ PagesInThreads' /\ SummaryKnown' /\ PageKnown' /\ PageFits' /\ OneAnchor'
  BY DEF PostInv, ReadJob, postDb, TurnFits, PagesInThreads, SummaryKnown, PageKnown, PageFits,
     OneAnchor, OfSummary, RowsExist, Listed, InHand, Untroubled, Gone
<1>2. JobFits'
  BY RefParts DEF PostInv, JobFits, ReadJob, Away, postDb
<1>3. NothingAstray'
  BY RefParts DEF PostInv, NothingAstray, ReadJob, Away, postDb
<1>4. ClearedIsEmpty'
  BY RefParts DEF PostInv, ClearedIsEmpty, Untroubled, Cleared, Gone, InHand, ReadJob, Away, postDb
<1> QED BY <1>1, <1>2, <1>3, <1>4 DEF PostInv

LEMMA RemovePostsKeeps ==
  ASSUME PostTypeOK, PostInv, RemovePosts
  PROVE  PostInv'
<1>1. ClearedIsEmpty'
  BY RemovePostsCleared
<1>2. TurnFits'
  BY RefParts DEF PostInv, TurnFits, OfSummary, RowsExist, RemovePosts, Lucky, Outside, postDb
<1>3. PagesInThreads'
  BY RefParts DEF PostInv, PagesInThreads, RemovePosts, Lucky, Outside, postDb
<1>4. SummaryKnown'
  BY RefParts DEF PostInv, SummaryKnown, RowsExist, Listed, InHand, RemovePosts, Lucky, Outside,
     postDb
<1>5. PageKnown'
  BY RefParts DEF PostInv, PageKnown, RowsExist, Listed, InHand, RemovePosts, Lucky, Outside,
     postDb
<1>6. PageFits'
  BY RefParts DEF PostInv, PageFits, RowsExist, Listed, InHand, RemovePosts, Lucky, Outside, postDb
<1>7. JobFits'
  BY RefParts DEF PostInv, JobFits, RemovePosts, postDb, PostTypeOK, Remover
<1>8. NothingAstray'
  BY RefParts DEF PostInv, NothingAstray, RemovePosts, Outside, postDb, PostTypeOK, Remover
<1>9. OneAnchor'
  BY RefParts DEF PostInv, OneAnchor, Untroubled, Gone, InHand, RemovePosts, Lucky, Outside, postDb
<1> QED BY <1>1, <1>2, <1>3, <1>4, <1>5, <1>6, <1>7, <1>8, <1>9 DEF PostInv

LEMMA MarkRemoteKeeps ==
  ASSUME PostTypeOK, PostInv, MarkRemote
  PROVE  PostInv'
<1>1. PagesInThreads'
  BY DEF PostInv, MarkRemote, PagesInThreads
<1>2. TurnFits'
  BY RefParts DEF PostInv, TurnFits, OfSummary, RowsExist, MarkRemote, Away
<1>3. SummaryKnown'
  BY RefParts DEF PostInv, SummaryKnown, RowsExist, Listed, InHand, MarkRemote, Away
<1>4. PageKnown'
  BY RefParts DEF PostInv, PageKnown, RowsExist, Listed, InHand, MarkRemote, Away
<1>5. PageFits'
  BY RefParts DEF PostInv, PageFits, RowsExist, Listed, InHand, MarkRemote, Away
<1>6. JobFits'
  BY RefParts DEF PostInv, JobFits, MarkRemote, Away
<1>7. NothingAstray'
  BY RefParts DEF PostInv, NothingAstray, MarkRemote, Away
<1>8. OneAnchor'
  BY RefParts DEF PostInv, OneAnchor, Untroubled, Gone, InHand, MarkRemote, Away
<1>9. ClearedIsEmpty'
  BY RefParts DEF PostInv, ClearedIsEmpty, Untroubled, Cleared, Gone, InHand, MarkRemote, Away
<1> QED BY <1>1, <1>2, <1>3, <1>4, <1>5, <1>6, <1>7, <1>8, <1>9 DEF PostInv

LEMMA FinalizeCaseKeeps ==
  ASSUME PostTypeOK, PostInv, FinalizeCase
  PROVE  PostInv'
<1>1. PagesInThreads'
  BY DEF PostInv, FinalizeCase, PagesInThreads
<1>2. PageKnown' /\ PageFits'
  BY FinalizeCaseFits
<1>3. TurnFits'
  BY RefParts DEF PostInv, TurnFits, RowsExist, FinalizeCase, PostTypeOK, DeletionJob
<1>4. SummaryKnown'
  BY RefParts DEF PostInv, SummaryKnown, RowsExist, Listed, InHand, FinalizeCase, PostTypeOK,
     DeletionJob
<1>5. JobFits'
  BY RefParts DEF PostInv, JobFits, FinalizeCase, PostTypeOK, DeletionJob
<1>6. NothingAstray'
  BY RefParts DEF PostInv, NothingAstray, FinalizeCase, Away, PostTypeOK, DeletionJob
<1>7. OneAnchor'
  BY RefParts DEF PostInv, OneAnchor, Untroubled, Gone, InHand, FinalizeCase, PostTypeOK,
     DeletionJob, JobFits
<1>8. ClearedIsEmpty'
  BY RefParts DEF PostInv, ClearedIsEmpty, Untroubled, Cleared, Gone, InHand, FinalizeCase,
     PostTypeOK, DeletionJob, JobFits
<1> QED BY <1>1, <1>2, <1>3, <1>4, <1>5, <1>6, <1>7, <1>8 DEF PostInv

LEMMA FinishJobKeeps ==
  ASSUME PostTypeOK, PostInv, FinishJob
  PROVE  PostInv'
<1>1. PagesInThreads'
  BY DEF PostInv, FinishJob, PagesInThreads
<1>2. TurnFits'
  BY RefParts DEF PostInv, TurnFits, OfSummary, RowsExist, FinishJob, Away, NoJob
<1>3. SummaryKnown'
  BY RefParts DEF PostInv, SummaryKnown, RowsExist, Listed, InHand, FinishJob, Away, NoJob
<1>4. PageKnown'
  BY RefParts DEF PostInv, PageKnown, RowsExist, Listed, InHand, FinishJob, Away, NoJob
<1>5. PageFits'
  BY RefParts DEF PostInv, PageFits, RowsExist, Listed, InHand, FinishJob, Away, NoJob
<1>6. JobFits'
  BY RefParts DEF PostInv, JobFits, FinishJob, Away, NoJob
<1>7. NothingAstray'
  BY RefParts DEF PostInv, NothingAstray, FinishJob, Away, NoJob
<1>8. OneAnchor'
  BY RefParts DEF PostInv, OneAnchor, Untroubled, Gone, InHand, FinishJob, Away, NoJob
<1>9. ClearedIsEmpty'
  BY RefParts DEF PostInv, ClearedIsEmpty, Untroubled, Cleared, Gone, InHand, FinishJob, Away,
     NoJob
<1> QED BY <1>1, <1>2, <1>3, <1>4, <1>5, <1>6, <1>7, <1>8, <1>9 DEF PostInv

LEMMA CrashPostsKeeps ==
  ASSUME PostTypeOK, PostInv, CrashPosts
  PROVE  PostInv'
<1>1. PagesInThreads'
  BY DEF PostInv, CrashPosts, PagesInThreads
<1>2. TurnFits'
  BY RefParts DEF PostInv, TurnFits, OfSummary, RowsExist, CrashPosts, Lucky, NoTurn, Away
<1>3. SummaryKnown'
  BY RefParts DEF PostInv, SummaryKnown, RowsExist, Listed, InHand, CrashPosts, Lucky, NoTurn, Away
<1>4. PageKnown'
  BY RefParts DEF PostInv, PageKnown, RowsExist, Listed, InHand, CrashPosts, Lucky, NoTurn, Away
<1>5. PageFits'
  BY RefParts DEF PostInv, PageFits, RowsExist, Listed, InHand, CrashPosts, Lucky, NoTurn, Away
<1>6. JobFits'
  BY RefParts DEF PostInv, JobFits, CrashPosts, Lucky, NoTurn, Away
<1>7. NothingAstray'
  BY RefParts DEF PostInv, NothingAstray, CrashPosts, Lucky, NoTurn, Away
<1>8. OneAnchor'
  BY RefParts DEF PostInv, OneAnchor, Untroubled, Gone, InHand, CrashPosts, Lucky, NoTurn, Away
<1>9. ClearedIsEmpty'
  BY RefParts DEF PostInv, ClearedIsEmpty, Untroubled, Cleared, Gone, InHand, CrashPosts, Lucky,
     NoTurn, Away
<1> QED BY <1>1, <1>2, <1>3, <1>4, <1>5, <1>6, <1>7, <1>8, <1>9 DEF PostInv

LEMMA PostInvInit == PostInit => PostTypeOK /\ PostInv
<1> SUFFICES ASSUME PostInit PROVE PostTypeOK /\ PostInv
  OBVIOUS
<1>1. PostTypeOK
  BY RefParts, Nothings DEF PostInit, PostTypeOK, Ref
<1>2. TurnFits /\ PagesInThreads /\ SummaryKnown /\ PageKnown
  BY DEF PostInit, TurnFits, OfSummary, NoTurn, PagesInThreads, SummaryKnown, PageKnown
<1>3. PageFits /\ JobFits
  BY RefParts DEF PostInit, PageFits, NoPage, JobFits, NoJob, Away
<1>4. NothingAstray /\ OneAnchor /\ ClearedIsEmpty
  BY DEF PostInit, NothingAstray, OneAnchor, ClearedIsEmpty, NoJob, Away
<1> QED BY <1>1, <1>2, <1>3, <1>4 DEF PostInv

LEMMA PostInvStep ==
  ASSUME PostTypeOK, PostInv, [PostNext]_postVars
  PROVE  PostInv'
<1>1. CASE UNCHANGED postVars
  BY <1>1 DEF postVars, PostInv, TurnFits, PagesInThreads, SummaryKnown, PageKnown, PageFits,
     JobFits, NothingAstray, OneAnchor, ClearedIsEmpty, OfSummary, RowsExist, Listed, InHand,
     Untroubled, Gone, Cleared
<1>2. CASE PostNext
  BY <1>2, CaseChangesKeeps, MessageDeletedKeeps, ClaimAgesKeeps, ClaimOutlivedKeeps,
     StartPublishingKeeps, EditSummaryKeeps, ClearReviewKeeps, ClaimPrimaryKeeps, SendSummaryKeeps,
     SendFailsKeeps, CompletePrimaryKeeps, CompensateKeeps, FindThreadKeeps, EnsureEndpointKeeps,
     ActivateEndpointKeeps, DropThreadKeeps, EnsurePageKeeps, EditPageKeeps, RecordRenderKeeps,
     ClaimPageKeeps, SendPageKeeps, CompletePageKeeps, RetryOrphanKeeps, PlanDeletionKeeps,
     RetryDeletionKeeps, ReadJobKeeps, RemovePostsKeeps, MarkRemoteKeeps, FinalizeCaseKeeps,
     FinishJobKeeps, CrashPostsKeeps DEF PostNext, Publishing, Removing
<1> QED BY <1>1, <1>2

\* One summary and one page, once the publisher rests; nothing when the deletion is done.
LEMMA PostInvShows ==
  ASSUME PostTypeOK, PostInv
  PROVE  ShownAsRecorded
<1>1. ASSUME publisher.step = "idle", RowsExist
      PROVE  Cardinality({m \in posted \ Listed : m[2] = 0}) <= 1
  <2> DEFINE S == {m \in posted \ Listed : m[2] = 0}
  <2>1. S \subseteq {<<review, 0>>}
    BY <1>1 DEF PostInv, SummaryKnown, InHand
  <2> QED BY <2>1, OneAtMost
<1>2. ASSUME publisher.step = "idle", RowsExist
      PROVE  Cardinality({m \in posted \ (Listed \cup Superseded) : m[2] > 0}) <= 1
  <2> DEFINE S == {m \in posted \ (Listed \cup Superseded) : m[2] > 0}
  <2>1. S \subseteq {page.at}
    BY <1>2 DEF PostInv, PageKnown, InHand, Superseded
  <2> QED BY <2>1, OneAtMost
<1>3. LatePublicationsRemoved
  BY DEF PostInv, ClearedIsEmpty, Untroubled, Cleared, InHand, LatePublicationsRemoved, Remains
<1> QED BY <1>1, <1>2, <1>3 DEF ShownAsRecorded, ShownOnce

LEMMA PostInvariant == PostSpec => [](PostTypeOK /\ PostInv)
<1>1. PostInit => PostTypeOK /\ PostInv
  BY PostInvInit
<1>2. (PostTypeOK /\ PostInv) /\ [PostNext]_postVars => (PostTypeOK /\ PostInv)'
  BY PostTypesKept, PostInvStep
<1> QED BY <1>1, <1>2, PTL DEF PostSpec

\* Every variable of a case's publication keeps to its values.
THEOREM PostTypes == PostSpec => []PostTypeOK
BY PostInvariant, PTL

\* However publications, the loss of messages, refusals, crashes and the deletion of the
\* case come together: once the publisher rests, one summary and one page at most are on
\* Discord that are not listed for removal, and when a deletion that met no trouble is
\* done nothing of the case is left (complete_primary_publication,
\* claim_timeline_publication, _compensate_case_publication, finalize_case_deletion).
THEOREM PostsShown == PostSpec => []ShownAsRecorded
<1>1. PostTypeOK /\ PostInv => ShownAsRecorded
  BY PostInvShows
<1> QED BY <1>1, PostInvariant, PTL

-----------------------------------------------------------------------------
(* Evidence *)

\* Once a deletion is planned, no capture gets past the check of the case.
Barred == deletion.planned =>
            \A m \in Message : capture[m].step \in {"none", "queued", "entered", "ended"}

\* What the deletion has recorded is so.
Emptied ==
  /\ deletion.step \in {"files", "rows", "later", "done"} \/ deletion.local => deletion.planned
  /\ deletion.step = "rows" \/ deletion.rows => deletion.local
  /\ deletion.local => files = {}

\* A download that has ended has an outcome.
Downloaded == \A m \in Message : capture[m].step = "saving" => capture[m].got # "none"

EvidenceInv == ProcessedIsSettled /\ Barred /\ Emptied /\ Downloaded

CapturesTyped ==
  /\ capture = [m \in Message |-> capture[m]]
  /\ \A m \in Message : capture[m] \in Capture(capture[m].budget)
RowsTyped == evidence \in [Message -> Attachment] /\ reservation \in [Message -> Reservation]

\* An attachment whose outcome is known keeps having one.
OutcomesStay == \A n \in Message : Terminal(n) => Terminal(n)'

LEMMA Recording ==
  ASSUME EvidenceTypeOK, NEW m \in Message, NEW f \in File \cup {NoFile},
         NEW s \in {"captured", "failed", "too_large"}, Recorded(m, s, f)
  PROVE  evidence' \in [Message -> Attachment] /\ OutcomesStay
<1>1. [status |-> s, file |-> f] \in Attachment
  BY DEF Attachment
<1> QED BY <1>1 DEF EvidenceTypeOK, Recorded, OutcomesStay, Terminal

LEMMA Reserving ==
  ASSUME EvidenceTypeOK, NEW m \in Message,
         NEW s \in {"pending", "claimed", "captured", "too_large"},
         NEW o \in {"none", "task", "dead"}, Reserved(m, s, o)
  PROVE  reservation' \in [Message -> Reservation]
<1>1. [state |-> s, owner |-> o, stale |-> FALSE] \in Reservation
  BY DEF Reservation
<1> QED BY <1>1 DEF EvidenceTypeOK, Reserved

LEMMA Failing ==
  ASSUME EvidenceTypeOK, NEW m \in Message, NEW abandoned \in BOOLEAN, FailPending(m, abandoned)
  PROVE  /\ RowsTyped' /\ OutcomesStay
         /\ ~abandoned /\ ~deletion.rows => Terminal(m)'
<1>1. [evidence[m] EXCEPT !.status = "failed"] \in Attachment
  BY DEF EvidenceTypeOK, Attachment
<1>2. NoReservation \in Reservation
  BY DEF NoReservation, Reservation
<1>3. [evidence[m] EXCEPT !.status = "failed"].status = "failed"
  BY DEF EvidenceTypeOK, Attachment
<1>4. \/ evidence' = evidence
      \/ evidence' = [evidence EXCEPT ![m] = [evidence[m] EXCEPT !.status = "failed"]]
  BY DEF FailPending
<1>5. evidence' \in [Message -> Attachment] /\ OutcomesStay
  BY <1>1, <1>3, <1>4 DEF EvidenceTypeOK, OutcomesStay, Terminal
<1>6. reservation' \in [Message -> Reservation]
  BY <1>2 DEF FailPending, EvidenceTypeOK
<1>7. ASSUME ~abandoned, ~deletion.rows
      PROVE  Terminal(m)'
  <2>1. CASE Terminal(m)
    BY <2>1, <1>5 DEF OutcomesStay
  <2>2. CASE ~Terminal(m)
    BY <1>3, <1>7, <2>2 DEF FailPending, EvidenceTypeOK, Terminal
  <2> QED BY <2>1, <2>2
<1> QED BY <1>5, <1>6, <1>7 DEF RowsTyped

LEMMA Cancelling ==
  ASSUME EvidenceTypeOK, NEW m \in Message, Cancelled(m)
  PROVE  RowsTyped' /\ OutcomesStay
<1>1. CASE capture[m].step = "reading" /\ Owned(m)
  <2>1. Reserved(m, "pending", "none") /\ Recorded(m, "failed", NoFile)
    BY <1>1 DEF Cancelled
  <2> QED BY <2>1, Recording, Reserving DEF RowsTyped
<1>2. CASE capture[m].step = "saving" /\ Owned(m)
  <2>1. Reserved(m, "claimed", "dead") /\ UNCHANGED evidence
    BY <1>2 DEF Cancelled
  <2> QED BY <2>1, Reserving DEF RowsTyped, EvidenceTypeOK, OutcomesStay, Terminal
<1>3. CASE ~Owned(m) \/ capture[m].step \notin {"reading", "saving"}
  <2>1. UNCHANGED <<evidence, reservation>>
    BY <1>3 DEF Cancelled
  <2> QED BY <2>1 DEF RowsTyped, EvidenceTypeOK, OutcomesStay, Terminal
<1> QED BY <1>1, <1>2, <1>3

LEMMA CaptureBecomes ==
  ASSUME EvidenceTypeOK, NEW m \in Message, NEW c, c \in Capture(c.budget),
         capture' = [capture EXCEPT ![m] = c]
  PROVE  CapturesTyped'
BY DEF EvidenceTypeOK, CapturesTyped

LEMMA CaptureSteps ==
  ASSUME EvidenceTypeOK, NEW m \in Message,
         NEW s \in {"none", "queued", "entered", "checked", "reserving", "reading", "saving",
                    "ended"}
  PROVE  CaptureAt(m, s) => CapturesTyped'
<1>1. [capture[m] EXCEPT !.step = s] \in Capture(capture[m].budget)
  BY DEF EvidenceTypeOK, Capture
<1>2. [capture[m] EXCEPT !.step = s].budget = capture[m].budget
  BY DEF EvidenceTypeOK, Capture
<1> QED BY <1>1, <1>2, CaptureBecomes DEF CaptureAt

LEMMA CaptureStarts ==
  ASSUME EvidenceTypeOK, NEW m \in Message, NEW s \in {"reading", "ended"}
  PROVE  Starts(m, s) => CapturesTyped'
<1> DEFINE c == [capture[m] EXCEPT !.step = s, !.started = TRUE]
<1>1. c \in Capture(capture[m].budget) /\ c.budget = capture[m].budget
  BY DEF EvidenceTypeOK, Capture
<1>2. Starts(m, s) => capture' = [capture EXCEPT ![m] = c]
  BY DEF Starts, EvidenceTypeOK
<1> QED BY <1>1, <1>2, CaptureBecomes

LEMMA NewCaptures ==
  /\ NoCapture \in Capture(NoCapture.budget)
  /\ [NoCapture EXCEPT !.step = "queued"] \in Capture([NoCapture EXCEPT !.step = "queued"].budget)
BY DEF NoCapture, Capture

LEMMA HandlerGoes ==
  ASSUME EvidenceTypeOK, NEW m \in Message,
         NEW s \in {"idle", "fetch", "start", "stop", "contain", "await", "done"}
  PROVE  Goes(m, s) => /\ handler' \in [Message -> Handler] /\ handler'[m].step = s
                       /\ \A n \in Message \ {m} : handler'[n] = handler[n]
<1>1. [handler[m] EXCEPT !.step = s] \in Handler /\ [handler[m] EXCEPT !.step = s].step = s
  BY DEF EvidenceTypeOK, Handler
<1> QED BY <1>1 DEF Goes, EvidenceTypeOK

LEMMA ReserveTypes ==
  ASSUME EvidenceTypeOK, EvidenceInv, NEW m \in Message, Reserve(m)
  PROVE  EvidenceTypeOK'
<1>1. RowsTyped'
  <2>1. CASE UNCHANGED <<evidence, reservation>>
    BY <2>1 DEF EvidenceTypeOK, RowsTyped
  <2>2. CASE Reserved(m, "too_large", "none") /\ Recorded(m, "too_large", NoFile)
    BY <2>2, Recording, Reserving DEF RowsTyped
  <2>3. CASE Reserved(m, "claimed", "task") /\ UNCHANGED evidence
    BY <2>3, Reserving DEF RowsTyped, EvidenceTypeOK
  <2> QED BY <2>1, <2>2, <2>3 DEF Reserve
<1>2. CapturesTyped'
  BY CaptureStarts DEF Reserve
<1> QED BY <1>1, <1>2 DEF Reserve, EvidenceTypeOK, RowsTyped, CapturesTyped

LEMMA SettleFileTypes ==
  ASSUME EvidenceTypeOK, EvidenceInv, NEW m \in Message, SettleFile(m)
  PROVE  EvidenceTypeOK'
<1>1. RowsTyped'
  <2>1. CASE UNCHANGED <<evidence, reservation>>
    BY <2>1 DEF EvidenceTypeOK, RowsTyped
  <2>2. CASE Reserved(m, "pending", "none") /\ UNCHANGED evidence
    BY <2>2, Reserving DEF RowsTyped, EvidenceTypeOK
  <2>3. CASE Reserved(m, "too_large", "none") /\ Recorded(m, "too_large", NoFile)
    BY <2>3, Recording, Reserving DEF RowsTyped
  <2>4. CASE Reserved(m, "captured", "none") /\ Recorded(m, "captured", capture[m].file)
    <3>1. capture[m].file \in File \cup {NoFile}
      BY DEF EvidenceTypeOK, Capture
    <3> QED BY <2>4, <3>1, Recording, Reserving DEF RowsTyped
  <2> QED BY <2>1, <2>2, <2>3, <2>4 DEF SettleFile
<1>2. CapturesTyped'
  BY CaptureSteps DEF SettleFile
<1>3. files' \subseteq File
  BY DEF SettleFile, EvidenceTypeOK
<1> QED BY <1>1, <1>2, <1>3 DEF SettleFile, EvidenceTypeOK, RowsTyped, CapturesTyped

LEMMA SettleFailureKeeps ==
  ASSUME EvidenceTypeOK, EvidenceInv, NEW m \in Message, SettleFailure(m)
  PROVE  EvidenceTypeOK' /\ ProcessedIsSettled'
<1>1. capture[m].got \in {"none", "failed", "too_large"}
  BY DEF SettleFailure, EvidenceTypeOK, Capture
<1>2. CapturesTyped'
  BY CaptureSteps DEF SettleFailure
<1>3. RowsTyped' /\ OutcomesStay
  <2>1. CASE UNCHANGED <<evidence, reservation>>
    BY <2>1 DEF EvidenceTypeOK, RowsTyped, OutcomesStay, Terminal
  <2>2. CASE Reserved(m, "pending", "none") /\ Recorded(m, capture[m].got, NoFile)
    <3>1. capture[m].got # "none"
      BY DEF SettleFailure, EvidenceInv, Downloaded
    <3> QED BY <1>1, <2>2, <3>1, Recording, Reserving DEF RowsTyped
  <2> QED BY <2>1, <2>2 DEF SettleFailure
<1>4. EvidenceTypeOK'
  BY <1>2, <1>3 DEF SettleFailure, EvidenceTypeOK, RowsTyped, CapturesTyped
<1>5. ProcessedIsSettled'
  BY <1>3 DEF SettleFailure, EvidenceInv, ProcessedIsSettled, OutcomesStay
<1> QED BY <1>4, <1>5

LEMMA BeginKeeps ==
  ASSUME EvidenceTypeOK, EvidenceInv, NEW m \in Message, Begin(m)
  PROVE  EvidenceTypeOK' /\ ProcessedIsSettled'
<1>1. UNCHANGED <<appended, closed, sources, deletion, files, capture, larger>>
  BY DEF Begin
<1>2. CASE Goes(m, "done") /\ deletion.rows /\ UNCHANGED <<evidence, reservation>>
  BY <1>1, <1>2, HandlerGoes
  DEF EvidenceTypeOK, EvidenceInv, ProcessedIsSettled, Terminal
<1>3. CASE Goes(m, "done") /\ ~deletion.rows /\ FailPending(m, FALSE)
  <2>1. RowsTyped' /\ OutcomesStay /\ Terminal(m)'
    BY <1>3, Failing
  <2>2. handler' \in [Message -> Handler] /\ \A n \in Message \ {m} : handler'[n] = handler[n]
    BY <1>3, HandlerGoes
  <2>3. EvidenceTypeOK'
    BY <1>1, <2>1, <2>2 DEF CapturesTyped, EvidenceTypeOK, RowsTyped
  <2>4. ProcessedIsSettled'
    BY <1>1, <2>1, <2>2 DEF EvidenceInv, ProcessedIsSettled, OutcomesStay
  <2> QED BY <2>3, <2>4
<1>4. CASE Goes(m, "fetch") /\ UNCHANGED <<evidence, reservation>>
  BY <1>1, <1>4, HandlerGoes
  DEF EvidenceTypeOK, EvidenceInv, ProcessedIsSettled, Terminal
<1> QED BY <1>2, <1>3, <1>4 DEF Begin

LEMMA LaunchTypes ==
  ASSUME EvidenceTypeOK, EvidenceInv, NEW m \in Message, Launch(m)
  PROVE  EvidenceTypeOK'
<1>1. handler' \in [Message -> Handler]
  BY DEF Launch, EvidenceTypeOK, Handler
<1>2. CapturesTyped'
  BY NewCaptures, CaptureBecomes DEF Launch
<1> QED BY <1>1, <1>2 DEF Launch, evidenceDb, RowsTyped, EvidenceTypeOK, CapturesTyped

LEMMA LaunchAgainTypes ==
  ASSUME EvidenceTypeOK, EvidenceInv, NEW m \in Message, LaunchAgain(m)
  PROVE  EvidenceTypeOK'
<1>1. [handler[m] EXCEPT !.again = TRUE] \in Handler
  BY DEF EvidenceTypeOK, Handler
<1>2. handler' \in [Message -> Handler]
  BY <1>1 DEF LaunchAgain, EvidenceTypeOK
<1>3. CapturesTyped'
  BY NewCaptures, CaptureBecomes DEF LaunchAgain
<1> QED BY <1>2, <1>3, Cancelling DEF LaunchAgain, EvidenceTypeOK, RowsTyped, CapturesTyped

LEMMA GiveUpStartTypes ==
  ASSUME EvidenceTypeOK, EvidenceInv, NEW m \in Message, GiveUpStart(m)
  PROVE  EvidenceTypeOK'
<1>1. RowsTyped' /\ handler' \in [Message -> Handler]
  BY Failing, HandlerGoes DEF GiveUpStart
<1> QED BY <1>1 DEF GiveUpStart, CapturesTyped, EvidenceTypeOK, RowsTyped

LEMMA StopCaptureTypes ==
  ASSUME EvidenceTypeOK, EvidenceInv, NEW m \in Message, StopCapture(m)
  PROVE  EvidenceTypeOK'
<1>1. RowsTyped' /\ handler' \in [Message -> Handler]
  BY Cancelling, HandlerGoes DEF StopCapture
<1>2. CapturesTyped'
  BY NewCaptures, CaptureBecomes DEF StopCapture
<1>3. files' \subseteq File
  BY DEF StopCapture, EvidenceTypeOK
<1> QED BY <1>1, <1>2, <1>3 DEF StopCapture, EvidenceTypeOK, RowsTyped, CapturesTyped

LEMMA ProcessingFailsTypes ==
  ASSUME EvidenceTypeOK, EvidenceInv, NEW m \in Message, ProcessingFails(m)
  PROVE  EvidenceTypeOK'
<1>1. RowsTyped'
  BY Cancelling DEF ProcessingFails
<1>2. CapturesTyped'
  BY NewCaptures, CaptureBecomes DEF ProcessingFails
<1>3. handler' \in [Message -> Handler]
  BY DEF ProcessingFails, EvidenceTypeOK, Handler, NoHandler
<1> QED BY <1>1, <1>2, <1>3 DEF ProcessingFails, EvidenceTypeOK, RowsTyped, CapturesTyped

LEMMA AwaitCaptureTypes ==
  ASSUME EvidenceTypeOK, EvidenceInv, NEW m \in Message, AwaitCapture(m)
  PROVE  EvidenceTypeOK'
<1>1. RowsTyped'
  <2>1. CASE FailPending(m, TRUE)
    BY <2>1, Failing
  <2>2. CASE UNCHANGED <<evidence, reservation>>
    BY <2>2 DEF EvidenceTypeOK, RowsTyped
  <2> QED BY <2>1, <2>2 DEF AwaitCapture
<1>2. CapturesTyped'
  BY NewCaptures, CaptureBecomes DEF AwaitCapture
<1>3. NoHandler \in Handler /\ [NoHandler EXCEPT !.step = "done"] \in Handler
  BY DEF NoHandler, Handler
<1>4. handler' \in [Message -> Handler]
  BY <1>3 DEF AwaitCapture, EvidenceTypeOK
<1> QED BY <1>1, <1>2, <1>4 DEF AwaitCapture, EvidenceTypeOK, RowsTyped, CapturesTyped

LEMMA EraseCaseTypes ==
  ASSUME EvidenceTypeOK, EvidenceInv, EraseCase
  PROVE  EvidenceTypeOK'
<1>1. /\ [deletion EXCEPT !.step = "done", !.rows = TRUE] \in Deletion
      /\ [deletion EXCEPT !.step = "later"] \in Deletion
  BY DEF EvidenceTypeOK, Deletion
<1>2. deletion' \in Deletion
  BY <1>1 DEF EraseCase
<1>3. [status |-> "pending", file |-> NoFile] \in Attachment /\ NoReservation \in Reservation
  BY DEF Attachment, NoReservation, Reservation
<1>4. RowsTyped'
  BY <1>3 DEF EraseCase, EvidenceTypeOK, RowsTyped
<1> QED BY <1>2, <1>4 DEF EraseCase, CapturesTyped, EvidenceTypeOK, RowsTyped

LEMMA CrashEvidenceTypes ==
  ASSUME EvidenceTypeOK, EvidenceInv, CrashEvidence
  PROVE  EvidenceTypeOK'
<1>1. capture' = [m \in Message |-> NoCapture]
  BY DEF CrashEvidence
<1>2. CapturesTyped'
  BY <1>1, NewCaptures DEF CapturesTyped
<1>3. NoHandler \in Handler
  BY DEF NoHandler, Handler
<1>4. handler' \in [Message -> Handler]
  BY <1>3 DEF CrashEvidence, EvidenceTypeOK
<1>5. \A m \in Message : [reservation[m] EXCEPT !.owner = "dead"] \in Reservation
  BY DEF EvidenceTypeOK, Reservation
<1>6. RowsTyped'
  BY <1>5 DEF CrashEvidence, EvidenceTypeOK, RowsTyped
<1>7. /\ [deletion EXCEPT !.step = "later"] \in Deletion
      /\ [deletion EXCEPT !.step = "none"] \in Deletion
      /\ [deletion EXCEPT !.step = IF deletion.planned THEN "later" ELSE "none"] \in Deletion
  BY DEF EvidenceTypeOK, Deletion
<1>8. deletion' \in Deletion
  BY <1>7 DEF CrashEvidence, EvidenceTypeOK
<1> QED BY <1>2, <1>4, <1>6, <1>8 DEF CrashEvidence, EvidenceTypeOK, RowsTyped, CapturesTyped

LEMMA ReserveDownloaded ==
  ASSUME EvidenceTypeOK, EvidenceInv, NEW m \in Message, Reserve(m)
  PROVE  Downloaded'
<1>1. PICK s \in {"reading", "ended"} : Starts(m, s)
  BY DEF Reserve
<1> DEFINE c == [capture[m] EXCEPT !.step = s, !.started = TRUE]
<1>2. capture' = [capture EXCEPT ![m] = c] /\ c.step = s
  BY <1>1 DEF Starts, EvidenceTypeOK, Capture
<1> QED BY <1>2 DEF EvidenceInv, Downloaded, EvidenceTypeOK


(* Every step of a capture, a handler or a deletion *)

LEMMA AppendMessageKeep ==
  ASSUME EvidenceTypeOK, EvidenceInv, NEW m \in Message, AppendMessage(m)
  PROVE  EvidenceTypeOK' /\ EvidenceInv'
<1>1. ProcessedIsSettled' /\ Barred' /\ Emptied' /\ Downloaded'
  BY DEF EvidenceInv, AppendMessage, ProcessedIsSettled, Barred, Emptied, Downloaded, Terminal
<1>2. EvidenceTypeOK'
  BY DEF EvidenceTypeOK, AppendMessage, Accepts
<1> QED BY <1>1, <1>2 DEF EvidenceInv

LEMMA CloseCaseKeep ==
  ASSUME EvidenceTypeOK, EvidenceInv, CloseCase
  PROVE  EvidenceTypeOK' /\ EvidenceInv'
<1>1. ProcessedIsSettled' /\ Barred' /\ Emptied' /\ Downloaded'
  BY DEF EvidenceInv, CloseCase, ProcessedIsSettled, Barred, Emptied, Downloaded, Terminal
<1>2. EvidenceTypeOK'
  BY DEF EvidenceTypeOK, CloseCase, Risk
<1> QED BY <1>1, <1>2 DEF EvidenceInv

LEMMA EnterSlotKeep ==
  ASSUME EvidenceTypeOK, EvidenceInv, NEW m \in Message, EnterSlot(m)
  PROVE  EvidenceTypeOK' /\ EvidenceInv'
<1>1. ProcessedIsSettled' /\ Emptied'
  BY DEF EvidenceInv, EnterSlot, evidenceDb, ProcessedIsSettled, Emptied, Terminal
<1>2. EvidenceTypeOK'
  BY DEF EvidenceTypeOK, EnterSlot, Inside, CaptureAt, BarrierHeld, evidenceDb, Capture
<1>3. Barred'
  BY DEF EvidenceInv, Barred, EnterSlot, Inside, CaptureAt, BarrierHeld, evidenceDb
<1>4. Downloaded'
  BY DEF EvidenceInv, Downloaded, EnterSlot, Inside, CaptureAt, BarrierHeld, evidenceDb
<1> QED BY <1>1, <1>2, <1>3, <1>4 DEF EvidenceInv

LEMMA CheckCaseKeep ==
  ASSUME EvidenceTypeOK, EvidenceInv, NEW m \in Message, CheckCase(m)
  PROVE  EvidenceTypeOK' /\ EvidenceInv'
<1>1. ProcessedIsSettled' /\ Emptied'
  BY DEF EvidenceInv, CheckCase, evidenceDb, ProcessedIsSettled, Emptied, Terminal
<1>2. EvidenceTypeOK'
  BY DEF EvidenceTypeOK, CheckCase, Accepts, CaptureAt, evidenceDb, Capture
<1>3. Barred'
  BY DEF EvidenceInv, Barred, CheckCase, Accepts, CaptureAt, evidenceDb
<1>4. Downloaded'
  BY DEF EvidenceInv, Downloaded, CheckCase, Accepts, CaptureAt, evidenceDb
<1> QED BY <1>1, <1>2, <1>3, <1>4 DEF EvidenceInv

LEMMA ReadBudgetKeep ==
  ASSUME EvidenceTypeOK, EvidenceInv, NEW m \in Message, ReadBudget(m)
  PROVE  EvidenceTypeOK' /\ EvidenceInv'
<1>1. ProcessedIsSettled' /\ Emptied'
  BY DEF EvidenceInv, ReadBudget, evidenceDb, ProcessedIsSettled, Emptied, Terminal
<1>2. EvidenceTypeOK'
  BY DEF EvidenceTypeOK, ReadBudget, CaptureAt, evidenceDb, Capture
<1>3. Barred'
  BY DEF EvidenceInv, Barred, ReadBudget, CaptureAt, evidenceDb
<1>4. Downloaded'
  BY DEF EvidenceInv, Downloaded, ReadBudget, CaptureAt, evidenceDb, EvidenceTypeOK, Capture
<1> QED BY <1>1, <1>2, <1>3, <1>4 DEF EvidenceInv

LEMMA ReserveKeep ==
  ASSUME EvidenceTypeOK, EvidenceInv, NEW m \in Message, Reserve(m)
  PROVE  EvidenceTypeOK' /\ EvidenceInv'
<1>1. Emptied'
  BY DEF EvidenceInv, Reserve, Emptied
<1>2. EvidenceTypeOK'
  BY ReserveTypes
<1>3. Downloaded'
  BY ReserveDownloaded
<1>4. ProcessedIsSettled'
  BY DEF EvidenceInv, ProcessedIsSettled, Terminal, Reserve, NoFile, Accepts, Reserved,
     Recorded, Starts, Unavailable, EvidenceTypeOK, Attachment, Reservation, Capture
<1>5. Barred'
  BY DEF EvidenceInv, Barred, Reserve, NoFile, Accepts, Reserved, Recorded, Starts, Unavailable
<1> QED BY <1>1, <1>2, <1>3, <1>4, <1>5 DEF EvidenceInv

LEMMA DownloadKeep ==
  ASSUME EvidenceTypeOK, EvidenceInv, NEW m \in Message, NEW got \in {"file", "too_large",
         "failed"}, NEW k \in 1..MaxFiles, Download(m, got, k)
  PROVE  EvidenceTypeOK' /\ EvidenceInv'
<1>1. ProcessedIsSettled'
  BY DEF EvidenceInv, Download, evidenceDb, ProcessedIsSettled, Terminal
<1>2. EvidenceTypeOK'
  BY DEF EvidenceTypeOK, Download, NoFile, Risk, evidenceDb, File, Capture
<1>3. Barred'
  BY DEF EvidenceInv, Barred, Download, NoFile, Risk, evidenceDb
<1>4. Emptied'
  BY DEF EvidenceInv, Emptied, Download, NoFile, Risk, evidenceDb, EvidenceTypeOK, File,
     Capture, Deletion, Attachment, Reservation, Handler, ProcessedIsSettled, Barred, Terminal
<1>5. Downloaded'
  BY DEF EvidenceInv, Downloaded, Download, NoFile, Risk, evidenceDb, EvidenceTypeOK, File,
     Capture
<1> QED BY <1>1, <1>2, <1>3, <1>4, <1>5 DEF EvidenceInv

LEMMA SettleFileKeep ==
  ASSUME EvidenceTypeOK, EvidenceInv, NEW m \in Message, SettleFile(m)
  PROVE  EvidenceTypeOK' /\ EvidenceInv'
<1>1. EvidenceTypeOK'
  BY SettleFileTypes
<1>2. ProcessedIsSettled'
  BY DEF EvidenceInv, ProcessedIsSettled, Terminal, SettleFile, NoFile, Accepts, CaptureAt,
     Reserved, Recorded, Owned, EvidenceTypeOK, Attachment, Reservation, File, Capture
<1>3. Barred'
  BY DEF EvidenceInv, Barred, SettleFile, NoFile, Accepts, CaptureAt, Reserved, Recorded, Owned
<1>4. Emptied'
  BY DEF EvidenceInv, Emptied, SettleFile, NoFile, Accepts, CaptureAt, Reserved, Recorded,
     Owned
<1>5. Downloaded'
  BY DEF EvidenceInv, Downloaded, SettleFile, NoFile, Accepts, CaptureAt, Reserved, Recorded,
     Owned
<1> QED BY <1>1, <1>2, <1>3, <1>4, <1>5 DEF EvidenceInv

LEMMA SettleFailureKeep ==
  ASSUME EvidenceTypeOK, EvidenceInv, NEW m \in Message, SettleFailure(m)
  PROVE  EvidenceTypeOK' /\ EvidenceInv'
<1>1. Emptied'
  BY DEF EvidenceInv, SettleFailure, Emptied
<1>2. EvidenceTypeOK' /\ ProcessedIsSettled'
  BY SettleFailureKeeps
<1>3. Barred'
  BY DEF EvidenceInv, Barred, SettleFailure, NoFile, CaptureAt, Reserved, Recorded, Owned
<1>4. Downloaded'
  BY DEF EvidenceInv, Downloaded, SettleFailure, NoFile, CaptureAt, Reserved, Recorded, Owned
<1> QED BY <1>1, <1>2, <1>3, <1>4 DEF EvidenceInv

LEMMA BeginKeep ==
  ASSUME EvidenceTypeOK, EvidenceInv, NEW m \in Message, Begin(m)
  PROVE  EvidenceTypeOK' /\ EvidenceInv'
<1>1. Barred' /\ Emptied' /\ Downloaded'
  BY DEF EvidenceInv, Begin, Barred, Emptied, Downloaded
<1>2. EvidenceTypeOK' /\ ProcessedIsSettled'
  BY BeginKeeps
<1> QED BY <1>1, <1>2 DEF EvidenceInv

LEMMA LaunchKeep ==
  ASSUME EvidenceTypeOK, EvidenceInv, NEW m \in Message, Launch(m)
  PROVE  EvidenceTypeOK' /\ EvidenceInv'
<1>1. Emptied'
  BY DEF EvidenceInv, Launch, evidenceDb, Emptied
<1>2. EvidenceTypeOK'
  BY LaunchTypes
<1>3. ProcessedIsSettled'
  BY DEF EvidenceInv, ProcessedIsSettled, Terminal, Launch, NoCapture, NoFile, evidenceDb
<1>4. Barred'
  BY DEF EvidenceInv, Barred, Launch, NoCapture, NoFile, Terminal, evidenceDb
<1>5. Downloaded'
  BY DEF EvidenceInv, Downloaded, Launch, NoCapture, NoFile, Terminal, evidenceDb
<1> QED BY <1>1, <1>2, <1>3, <1>4, <1>5 DEF EvidenceInv

LEMMA StartedKeep ==
  ASSUME EvidenceTypeOK, EvidenceInv, NEW m \in Message, Started(m)
  PROVE  EvidenceTypeOK' /\ EvidenceInv'
<1>1. Barred' /\ Emptied' /\ Downloaded'
  BY DEF EvidenceInv, Started, evidenceDb, Barred, Emptied, Downloaded
<1>2. EvidenceTypeOK'
  BY DEF EvidenceTypeOK, Started, Goes, evidenceDb, Handler
<1>3. ProcessedIsSettled'
  BY DEF EvidenceInv, ProcessedIsSettled, Terminal, Started, Goes, evidenceDb
<1> QED BY <1>1, <1>2, <1>3 DEF EvidenceInv

LEMMA LaunchAgainKeep ==
  ASSUME EvidenceTypeOK, EvidenceInv, NEW m \in Message, LaunchAgain(m)
  PROVE  EvidenceTypeOK' /\ EvidenceInv'
<1>1. Emptied'
  BY DEF EvidenceInv, LaunchAgain, Emptied
<1>2. EvidenceTypeOK'
  BY LaunchAgainTypes
<1>3. ProcessedIsSettled'
  BY DEF EvidenceInv, ProcessedIsSettled, Terminal, LaunchAgain, NoCapture, NoFile, Reserved,
     Recorded, Owned, Cancelled, EvidenceTypeOK, Attachment, Reservation, Capture, Handler
<1>4. Barred'
  BY DEF EvidenceInv, Barred, LaunchAgain, NoCapture, NoFile, Terminal, Reserved, Recorded,
     Owned, Cancelled
<1>5. Downloaded'
  BY DEF EvidenceInv, Downloaded, LaunchAgain, NoCapture, NoFile, Terminal, Reserved, Recorded,
     Owned, Cancelled
<1> QED BY <1>1, <1>2, <1>3, <1>4, <1>5 DEF EvidenceInv

LEMMA GiveUpStartKeep ==
  ASSUME EvidenceTypeOK, EvidenceInv, NEW m \in Message, GiveUpStart(m)
  PROVE  EvidenceTypeOK' /\ EvidenceInv'
<1>1. Barred' /\ Emptied' /\ Downloaded'
  BY DEF EvidenceInv, GiveUpStart, Barred, Emptied, Downloaded
<1>2. EvidenceTypeOK'
  BY GiveUpStartTypes
<1>3. ProcessedIsSettled'
  BY DEF EvidenceInv, ProcessedIsSettled, Terminal, GiveUpStart, NoReservation, Goes,
     FailPending
<1> QED BY <1>1, <1>2, <1>3 DEF EvidenceInv

LEMMA StopCaptureKeep ==
  ASSUME EvidenceTypeOK, EvidenceInv, NEW m \in Message, StopCapture(m)
  PROVE  EvidenceTypeOK' /\ EvidenceInv'
<1>1. EvidenceTypeOK'
  BY StopCaptureTypes
<1>2. ProcessedIsSettled'
  BY DEF EvidenceInv, ProcessedIsSettled, Terminal, StopCapture, NoCapture, NoFile, Goes,
     Reserved, Recorded, Owned, Cancelled, EvidenceTypeOK, Attachment, Reservation, File,
     Capture, Handler
<1>3. Barred'
  BY DEF EvidenceInv, Barred, StopCapture, NoCapture, NoFile, Goes, Reserved, Recorded, Owned,
     Cancelled
<1>4. Emptied'
  BY DEF EvidenceInv, Emptied, StopCapture, NoCapture, NoFile, Goes, Reserved, Recorded, Owned,
     Cancelled
<1>5. Downloaded'
  BY DEF EvidenceInv, Downloaded, StopCapture, NoCapture, NoFile, Goes, Reserved, Recorded,
     Owned, Cancelled
<1> QED BY <1>1, <1>2, <1>3, <1>4, <1>5 DEF EvidenceInv

LEMMA ContainKeep ==
  ASSUME EvidenceTypeOK, EvidenceInv, NEW m \in Message, Contain(m)
  PROVE  EvidenceTypeOK' /\ EvidenceInv'
<1>1. Barred' /\ Emptied' /\ Downloaded'
  BY DEF EvidenceInv, Contain, evidenceDb, Barred, Emptied, Downloaded
<1>2. EvidenceTypeOK'
  BY DEF EvidenceTypeOK, Contain, Risk, Goes, evidenceDb, Handler
<1>3. ProcessedIsSettled'
  BY DEF EvidenceInv, ProcessedIsSettled, Terminal, Contain, Risk, Goes, evidenceDb
<1> QED BY <1>1, <1>2, <1>3 DEF EvidenceInv

LEMMA ProcessingFailsKeep ==
  ASSUME EvidenceTypeOK, EvidenceInv, NEW m \in Message, ProcessingFails(m)
  PROVE  EvidenceTypeOK' /\ EvidenceInv'
<1>1. Emptied'
  BY DEF EvidenceInv, ProcessingFails, Emptied
<1>2. EvidenceTypeOK'
  BY ProcessingFailsTypes
<1>3. ProcessedIsSettled'
  BY DEF EvidenceInv, ProcessedIsSettled, Terminal, ProcessingFails, NoHandler, NoCapture,
     NoFile, Risk, Reserved, Recorded, Owned, Cancelled, EvidenceTypeOK, Attachment,
     Reservation, Capture, Handler
<1>4. Barred'
  BY DEF EvidenceInv, Barred, ProcessingFails, NoHandler, NoCapture, NoFile, Risk, Reserved,
     Recorded, Owned, Cancelled
<1>5. Downloaded'
  BY DEF EvidenceInv, Downloaded, ProcessingFails, NoHandler, NoCapture, NoFile, Risk,
     Reserved, Recorded, Owned, Cancelled
<1> QED BY <1>1, <1>2, <1>3, <1>4, <1>5 DEF EvidenceInv

LEMMA AwaitCaptureKeep ==
  ASSUME EvidenceTypeOK, EvidenceInv, NEW m \in Message, AwaitCapture(m)
  PROVE  EvidenceTypeOK' /\ EvidenceInv'
<1>1. Emptied'
  BY DEF EvidenceInv, AwaitCapture, Emptied
<1>2. EvidenceTypeOK'
  BY AwaitCaptureTypes
<1>3. ProcessedIsSettled'
  BY DEF EvidenceInv, ProcessedIsSettled, Terminal, AwaitCapture, NoReservation, NoHandler,
     NoCapture, NoFile, FailPending, Finished, EvidenceTypeOK, Attachment, Reservation,
     Capture, Handler
<1>4. Barred'
  BY DEF EvidenceInv, Barred, AwaitCapture, NoReservation, NoHandler, NoCapture, NoFile,
     Terminal, FailPending, Finished
<1>5. Downloaded'
  BY DEF EvidenceInv, Downloaded, AwaitCapture, NoReservation, NoHandler, NoCapture, NoFile,
     Terminal, FailPending, Finished
<1> QED BY <1>1, <1>2, <1>3, <1>4, <1>5 DEF EvidenceInv

LEMMA TimePassesKeep ==
  ASSUME EvidenceTypeOK, EvidenceInv, NEW m \in Message, TimePasses(m)
  PROVE  EvidenceTypeOK' /\ EvidenceInv'
<1>1. ProcessedIsSettled' /\ Barred' /\ Emptied' /\ Downloaded'
  BY DEF EvidenceInv, TimePasses, ProcessedIsSettled, Barred, Emptied, Downloaded, Terminal
<1>2. EvidenceTypeOK'
  BY DEF EvidenceTypeOK, TimePasses, Reservation
<1> QED BY <1>1, <1>2 DEF EvidenceInv

LEMMA AskDeletionKeep ==
  ASSUME EvidenceTypeOK, EvidenceInv, AskDeletion
  PROVE  EvidenceTypeOK' /\ EvidenceInv'
<1>1. Downloaded'
  BY DEF EvidenceInv, AskDeletion, evidenceDb, Downloaded
<1>2. EvidenceTypeOK'
  BY DEF EvidenceTypeOK, AskDeletion, Risk, evidenceDb, Deletion
<1>3. ProcessedIsSettled'
  BY DEF EvidenceInv, ProcessedIsSettled, Terminal, AskDeletion, Risk, evidenceDb
<1>4. Barred'
  BY DEF EvidenceInv, Barred, AskDeletion, Risk, evidenceDb
<1>5. Emptied'
  BY DEF EvidenceInv, Emptied, AskDeletion, Risk, evidenceDb
<1> QED BY <1>1, <1>2, <1>3, <1>4, <1>5 DEF EvidenceInv

LEMMA PlanRemovalKeep ==
  ASSUME EvidenceTypeOK, EvidenceInv, PlanRemoval
  PROVE  EvidenceTypeOK' /\ EvidenceInv'
<1>1. Downloaded'
  BY DEF EvidenceInv, PlanRemoval, evidenceDb, Downloaded
<1>2. EvidenceTypeOK'
  BY DEF EvidenceTypeOK, PlanRemoval, Inside, SlotsTaken, evidenceDb, Deletion
<1>3. ProcessedIsSettled'
  BY DEF EvidenceInv, ProcessedIsSettled, Terminal, PlanRemoval, Inside, SlotsTaken, evidenceDb
<1>4. Barred'
  BY DEF EvidenceInv, Barred, PlanRemoval, Inside, SlotsTaken, evidenceDb, EvidenceTypeOK,
     Deletion, Attachment, Reservation, Capture, Handler
<1>5. Emptied'
  BY DEF EvidenceInv, Emptied, PlanRemoval, Inside, SlotsTaken, evidenceDb
<1> QED BY <1>1, <1>2, <1>3, <1>4, <1>5 DEF EvidenceInv

LEMMA RemoveFilesKeep ==
  ASSUME EvidenceTypeOK, EvidenceInv, RemoveFiles
  PROVE  EvidenceTypeOK' /\ EvidenceInv'
<1>1. Downloaded'
  BY DEF EvidenceInv, RemoveFiles, evidenceDb, Downloaded
<1>2. EvidenceTypeOK'
  BY DEF EvidenceTypeOK, RemoveFiles, Risk, evidenceDb, Deletion, File
<1>3. ProcessedIsSettled'
  BY DEF EvidenceInv, ProcessedIsSettled, Terminal, RemoveFiles, Risk, evidenceDb,
     EvidenceTypeOK, Deletion, File
<1>4. Barred'
  BY DEF EvidenceInv, Barred, RemoveFiles, Risk, evidenceDb, EvidenceTypeOK, Deletion, File
<1>5. Emptied'
  BY DEF EvidenceInv, Emptied, RemoveFiles, Risk, evidenceDb, EvidenceTypeOK, Deletion, File
<1> QED BY <1>1, <1>2, <1>3, <1>4, <1>5 DEF EvidenceInv

LEMMA EraseCaseKeep ==
  ASSUME EvidenceTypeOK, EvidenceInv, EraseCase
  PROVE  EvidenceTypeOK' /\ EvidenceInv'
<1>1. Downloaded'
  BY DEF EvidenceInv, EraseCase, Downloaded
<1>2. EvidenceTypeOK'
  BY EraseCaseTypes
<1>3. ProcessedIsSettled'
  BY DEF EvidenceInv, ProcessedIsSettled, Terminal, EraseCase, NoReservation, NoFile, Risk,
     EvidenceTypeOK, Deletion, Attachment, Reservation
<1>4. Barred'
  BY DEF EvidenceInv, Barred, EraseCase, NoReservation, NoFile, Risk, EvidenceTypeOK, Deletion,
     Attachment, Reservation
<1>5. Emptied'
  BY DEF EvidenceInv, Emptied, EraseCase, NoReservation, NoFile, Risk, EvidenceTypeOK,
     Deletion, Attachment, Reservation
<1> QED BY <1>1, <1>2, <1>3, <1>4, <1>5 DEF EvidenceInv

LEMMA CrashEvidenceKeep ==
  ASSUME EvidenceTypeOK, EvidenceInv, CrashEvidence
  PROVE  EvidenceTypeOK' /\ EvidenceInv'
<1>1. EvidenceTypeOK'
  BY CrashEvidenceTypes
<1>2. ProcessedIsSettled'
  BY DEF EvidenceInv, ProcessedIsSettled, Terminal, CrashEvidence, NoHandler, NoCapture,
     NoFile, Risk
<1>3. Barred'
  BY DEF EvidenceInv, Barred, CrashEvidence, NoHandler, NoCapture, NoFile, Risk
<1>4. Emptied'
  BY DEF EvidenceInv, Emptied, CrashEvidence, NoHandler, NoCapture, NoFile, Risk
<1>5. Downloaded'
  BY DEF EvidenceInv, Downloaded, CrashEvidence, NoHandler, NoCapture, NoFile, Risk
<1> QED BY <1>1, <1>2, <1>3, <1>4, <1>5 DEF EvidenceInv

LEMMA EvidenceBegins == EvidenceInit => EvidenceTypeOK /\ EvidenceInv
<1> SUFFICES ASSUME EvidenceInit PROVE EvidenceTypeOK /\ EvidenceInv
  OBVIOUS
<1>1. CapturesTyped
  BY NewCaptures DEF EvidenceInit, CapturesTyped
<1>2. RowsTyped /\ handler \in [Message -> Handler]
  BY DEF EvidenceInit, RowsTyped, Attachment, NoReservation, Reservation, NoHandler, Handler
<1>3. deletion \in Deletion
  BY DEF EvidenceInit, Deletion
<1>4. EvidenceTypeOK
  BY <1>1, <1>2, <1>3, EvidenceAssumption
  DEF EvidenceAssumption, EvidenceInit, EvidenceTypeOK, CapturesTyped, RowsTyped
<1>5. EvidenceInv
  BY DEF EvidenceInit, EvidenceInv, ProcessedIsSettled, Barred, Emptied, Downloaded, NoHandler,
         NoCapture
<1> QED BY <1>4, <1>5

LEMMA EvidenceKept ==
  ASSUME EvidenceTypeOK, EvidenceInv, [EvidenceNext]_evidenceVars
  PROVE  EvidenceTypeOK' /\ EvidenceInv'
<1>1. CASE UNCHANGED evidenceVars
  BY <1>1 DEF evidenceVars, EvidenceInv, EvidenceTypeOK, ProcessedIsSettled, Barred, Emptied,
     Downloaded, Terminal
<1>2. CASE EvidenceNext
  BY <1>2, AppendMessageKeep, CloseCaseKeep, EnterSlotKeep, CheckCaseKeep, ReadBudgetKeep,
     ReserveKeep, DownloadKeep, SettleFileKeep, SettleFailureKeep, BeginKeep, LaunchKeep,
     StartedKeep, LaunchAgainKeep, GiveUpStartKeep, StopCaptureKeep, ContainKeep,
     ProcessingFailsKeep, AwaitCaptureKeep, TimePassesKeep, AskDeletionKeep, PlanRemovalKeep,
     RemoveFilesKeep, EraseCaseKeep, CrashEvidenceKeep DEF EvidenceNext, Capturing, Handling,
     Deleting
<1> QED BY <1>1, <1>2

LEMMA EvidenceInvariant == EvidenceSpec => [](EvidenceTypeOK /\ EvidenceInv)
<1>1. EvidenceInit => EvidenceTypeOK /\ EvidenceInv
  BY EvidenceBegins
<1>2. (EvidenceTypeOK /\ EvidenceInv) /\ [EvidenceNext]_evidenceVars
        => (EvidenceTypeOK /\ EvidenceInv)'
  BY EvidenceKept
<1> QED BY <1>1, <1>2, PTL DEF EvidenceSpec

-----------------------------------------------------------------------------
(* Deferred messages *)

\* The drain has a row in hand, and acknowledges one that is settled.
Begun == worker.step # "asleep" => worker.batch # <<>>
Answered == worker.step = "acknowledge" => Head(worker.batch) \in settled

\* A row is due, or it is not.
Apart == Range(queue) \cap later = {}

BacklogInv == Begun /\ Answered /\ Apart /\ NothingDropped


LEMMA RangeOf == ASSUME NEW s \in Seq(Mail) PROVE Range(s) \subseteq Mail
BY DEF Range

\* The rows that remain are rows, each in one place.
LEMMA Remainder ==
  ASSUME BacklogTypeOK, NEW S, S \subseteq Range(queue), NEW rows \in Remaining(S)
  PROVE  rows \in Seq(Mail) /\ IsInjective(rows) /\ Range(rows) = S
<1>1. Len(queue) \in Nat /\ DOMAIN queue = 1..Len(queue) /\ queue \in [1..Len(queue) -> Mail]
  BY DEF BacklogTypeOK
<1>2. queue \in Surjection(1..Len(queue), Range(queue))
  BY <1>1 DEF Surjection, Range
<1>3. IsFiniteSet(1..Len(queue))
  BY <1>1, FS_Interval
<1>4. IsFiniteSet(Range(queue))
  BY <1>2, <1>3, FS_Surjection
<1>5. Cardinality(S) \in Nat
  BY <1>4, FS_Subset, FS_CardinalityType
<1>6. rows \in [1..Cardinality(S) -> S] /\ IsInjective(rows)
      /\ \A t \in S : \E i \in 1..Cardinality(S) : rows[i] = t
  BY DEF Remaining, Bijection, Injection, Surjection
<1>7. Range(rows) = S
  BY <1>6 DEF Range
<1>8. S \subseteq Mail
  BY RangeOf DEF BacklogTypeOK
<1>9. rows \in Seq(Mail)
  BY <1>5, <1>6, <1>8
<1> QED BY <1>6, <1>7, <1>9

\* A row that is stored or comes due goes to the end.
LEMMA AtTheEnd ==
  ASSUME BacklogTypeOK, NEW m \in Mail, m \notin Range(queue)
  PROVE  /\ Append(queue, m) \in Seq(Mail) /\ IsInjective(Append(queue, m))
         /\ Range(Append(queue, m)) = Range(queue) \cup {m}
<1> DEFINE longer == Append(queue, m)
<1>1. /\ queue \in Seq(Mail) /\ Len(queue) \in Nat /\ DOMAIN queue = 1..Len(queue)
      /\ longer \in Seq(Mail) /\ DOMAIN longer = 1..(Len(queue) + 1)
      /\ \A i \in 1..Len(queue) : longer[i] = queue[i]
      /\ longer[Len(queue) + 1] = m
  BY DEF BacklogTypeOK
<1> HIDE DEF longer
<1>2. DOMAIN longer = DOMAIN queue \cup {Len(queue) + 1}
  BY <1>1
<1>3. \A i \in DOMAIN queue : longer[i] = queue[i] /\ longer[i] # m
  BY <1>1 DEF Range
<1>4. IsInjective(longer)
  BY <1>1, <1>2, <1>3 DEF IsInjective, BacklogTypeOK
<1>5. Range(longer) = Range(queue) \cup {m}
  BY <1>1, <1>2, <1>3 DEF Range
<1> QED BY <1>1, <1>4, <1>5 DEF longer

LEMMA WorksTyped ==
  ASSUME NEW s \in Seq(Mail),
         NEW w \in {"asleep", "take", "fetched", "replayed", "acknowledge", "retry", "give up"},
         Works(w, s)
  PROVE  worker' \in Drain /\ worker'.step = w /\ worker'.batch = s
BY DEF Works, Drain

\* The drain goes on with what is left of its batch.
LEMMA GoesOn ==
  ASSUME NEW s \in Seq(Mail), Next1(s)
  PROVE  worker' \in Drain /\ worker'.step \in {"asleep", "take"} /\ Begun'
<1>1. CASE s = <<>>
  BY <1>1, WorksTyped DEF Next1, Begun
<1>2. CASE s # <<>>
  BY <1>2, WorksTyped DEF Next1, Begun
<1> QED BY <1>1, <1>2

LEMMA InHandIsMail ==
  ASSUME BacklogTypeOK, BacklogInv, worker.step # "asleep"
  PROVE  /\ worker.batch \in Seq(Mail) /\ Head(worker.batch) \in Mail
         /\ Tail(worker.batch) \in Seq(Mail)
<1>1. worker.batch \in Seq(Mail) /\ worker.batch # <<>>
  BY DEF BacklogTypeOK, Drain, BacklogInv, Begun
<1> QED BY <1>1

LEMMA AsleepTyped == Asleep \in Drain /\ Asleep.step = "asleep"
BY DEF Asleep, Drain

LEMMA EnqueueKeeps ==
  ASSUME BacklogTypeOK, BacklogInv, NEW m \in Mail, Enqueue(m)
  PROVE  BacklogTypeOK' /\ BacklogInv'
<1>1. CASE m \in Rows
  BY <1>1 DEF Enqueue, BacklogTypeOK, BacklogInv, Begun, Answered, Apart, NothingDropped, Rows
<1>2. CASE m \notin Rows
  <2>1. m \notin Range(queue) /\ m \notin later /\ queue' = Append(queue, m)
    BY <1>2 DEF Enqueue, Rows
  <2>2. BacklogTypeOK'
    BY <2>1, AtTheEnd DEF Enqueue, BacklogTypeOK
  <2>3. Apart' /\ NothingDropped'
    BY <2>1, AtTheEnd DEF Enqueue, BacklogInv, Apart, NothingDropped, Rows
  <2> QED BY <2>2, <2>3 DEF Enqueue, BacklogInv, Begun, Answered
<1> QED BY <1>1, <1>2

LEMMA ComesDueKeeps ==
  ASSUME BacklogTypeOK, BacklogInv, NEW m \in Mail, ComesDue(m)
  PROVE  BacklogTypeOK' /\ BacklogInv'
<1>1. m \notin Range(queue) /\ queue' = Append(queue, m) /\ later' = later \ {m} /\ m \in later
  BY DEF ComesDue, BacklogInv, Apart
<1>2. BacklogTypeOK'
  BY <1>1, AtTheEnd DEF ComesDue, BacklogTypeOK
<1>3. Apart' /\ NothingDropped'
  BY <1>1, AtTheEnd DEF ComesDue, BacklogInv, Apart, NothingDropped, Rows
<1> QED BY <1>2, <1>3 DEF ComesDue, BacklogInv, Begun, Answered

\* Only what is too old is deleted with the batch.
LEMMA DueKeeps ==
  ASSUME BacklogTypeOK, BacklogInv, Due
  PROVE  BacklogTypeOK' /\ BacklogInv'
<1> DEFINE batch == IF Len(queue') > DrainBatch THEN SubSeq(queue', 1, DrainBatch) ELSE queue'
<1>1. queue' \in Seq(Mail) /\ IsInjective(queue') /\ Range(queue') = Range(queue) \ aged
  <2>1. queue' \in Remaining(Range(queue) \ aged) /\ Range(queue) \ aged \subseteq Range(queue)
    BY DEF Due
  <2> QED BY <2>1, Remainder
<1>2. batch \in Seq(Mail)
  BY <1>1, BacklogAssumption DEF BacklogAssumption
<1>3. worker' \in Drain /\ worker'.step \in {"asleep", "take"} /\ Begun'
  <2>1. CASE content
    <3>1. Next1(batch)
      BY <2>1 DEF Due
    <3> HIDE DEF batch
    <3> QED BY <1>2, <3>1, GoesOn
  <2>2. CASE ~content
    <3>1. Works("asleep", <<>>) /\ <<>> \in Seq(Mail)
      BY <2>2 DEF Due
    <3> QED BY <3>1 DEF Works, Drain, Begun
  <2> QED BY <2>1, <2>2
<1>4. later' = later \ aged /\ settled' = settled \cup aged /\ aged' = {}
      /\ UNCHANGED <<content, unreachable, unseen, writing, deferred>>
  BY DEF Due
<1>5. BacklogTypeOK'
  BY <1>1, <1>3, <1>4 DEF BacklogTypeOK
<1>6. NothingDropped' /\ Apart'
  BY <1>1, <1>4 DEF BacklogInv, NothingDropped, Apart, Rows
<1> QED BY <1>3, <1>5, <1>6 DEF BacklogInv, Answered

\* What answers a row settles it first.
LEMMA AnswerKeeps ==
  ASSUME BacklogTypeOK, BacklogInv, worker.step # "asleep",
         UNCHANGED <<content, unreachable, unseen, writing, queue, later, aged, deferred>>,
         \/ worker' = Asleep /\ UNCHANGED settled
         \/ /\ UNCHANGED settled
            /\ \E w \in {"fetched", "retry", "replayed", "give up"} : Works(w, worker.batch)
         \/ /\ Works("acknowledge", worker.batch)
            /\ settled' = settled \cup {Head(worker.batch)}
  PROVE  BacklogTypeOK' /\ BacklogInv'
<1>1. /\ worker.batch \in Seq(Mail) /\ Head(worker.batch) \in Mail /\ worker.batch # <<>>
  BY InHandIsMail DEF BacklogInv, Begun
<1>2. NothingDropped' /\ Apart'
  BY DEF BacklogInv, NothingDropped, Apart, Rows
<1>3. worker' \in Drain /\ Begun' /\ Answered'
  <2>1. CASE worker' = Asleep
    BY <2>1, AsleepTyped DEF Begun, Answered
  <2>2. CASE \E w \in {"fetched", "retry", "replayed", "give up"} : Works(w, worker.batch)
    BY <1>1, <2>2, WorksTyped DEF Begun, Answered
  <2>3. CASE Works("acknowledge", worker.batch) /\ settled' = settled \cup {Head(worker.batch)}
    BY <1>1, <2>3, WorksTyped DEF Begun, Answered
  <2> QED BY <2>1, <2>2, <2>3
<1>4. BacklogTypeOK'
  BY <1>1, <1>3 DEF BacklogTypeOK
<1> QED BY <1>2, <1>3, <1>4 DEF BacklogInv

LEMMA AcknowledgeKeeps ==
  ASSUME BacklogTypeOK, BacklogInv, Acknowledge
  PROVE  BacklogTypeOK' /\ BacklogInv'
<1> DEFINE m == Head(worker.batch)
<1>1. m \in settled /\ Tail(worker.batch) \in Seq(Mail)
  BY InHandIsMail DEF Acknowledge, BacklogInv, Answered
<1>2. queue' \in Seq(Mail) /\ IsInjective(queue') /\ Range(queue') = Range(queue) \ {m}
  BY Remainder DEF Acknowledge
<1>3. worker' \in Drain /\ worker'.step \in {"asleep", "take"} /\ Begun'
  BY <1>1, GoesOn DEF Acknowledge
<1>4. later' = later \ {m} /\ aged' = aged \ {m}
      /\ UNCHANGED <<content, unreachable, unseen, writing, deferred, settled>>
  BY DEF Acknowledge
<1>5. BacklogTypeOK'
  BY <1>2, <1>3, <1>4 DEF BacklogTypeOK
<1>6. NothingDropped' /\ Apart'
  BY <1>1, <1>2, <1>4 DEF BacklogInv, NothingDropped, Apart, Rows
<1> QED BY <1>3, <1>5, <1>6 DEF BacklogInv, Answered

LEMMA RetryKeeps ==
  ASSUME BacklogTypeOK, BacklogInv, RetryLater
  PROVE  BacklogTypeOK' /\ BacklogInv'
<1> DEFINE m == Head(worker.batch)
<1>1. m \in Mail /\ Tail(worker.batch) \in Seq(Mail)
  BY InHandIsMail DEF RetryLater
<1>2. queue' \in Seq(Mail) /\ IsInjective(queue') /\ Range(queue') = Range(queue) \ {m}
  BY Remainder DEF RetryLater, PutOff
<1>3. worker' \in Drain /\ worker'.step \in {"asleep", "take"} /\ Begun'
  <2>1. CASE worker.step = "retry"
    BY <1>1, <2>1, GoesOn DEF RetryLater
  <2>2. CASE worker.step # "retry"
    BY <2>2, AsleepTyped DEF RetryLater, Begun
  <2> QED BY <2>1, <2>2
<1>4. later' = later \cup ({m} \cap Rows)
      /\ UNCHANGED <<content, unreachable, unseen, writing, aged, deferred, settled>>
  BY DEF RetryLater, PutOff
<1>5. BacklogTypeOK'
  BY <1>1, <1>2, <1>3, <1>4 DEF BacklogTypeOK
<1>6. NothingDropped' /\ Apart'
  BY <1>2, <1>4 DEF BacklogInv, NothingDropped, Apart, Rows
<1> QED BY <1>3, <1>5, <1>6 DEF BacklogInv, Answered

LEMMA BacklogKept ==
  ASSUME BacklogTypeOK, BacklogInv, [BacklogNext]_backlogVars
  PROVE  BacklogTypeOK' /\ BacklogInv'
<1>1. ASSUME NEW m \in Mail, Arrive(m) PROVE BacklogTypeOK' /\ BacklogInv'
  BY <1>1 DEF Arrive, BacklogTypeOK, BacklogInv, Begun, Answered, Apart, NothingDropped, Rows
<1>2. ASSUME NEW m \in Mail, Age(m) PROVE BacklogTypeOK' /\ BacklogInv'
  BY <1>2 DEF Age, BacklogTypeOK, BacklogInv, Begun, Answered, Apart, NothingDropped, Rows
<1>3. CASE Take
  BY <1>3, AnswerKeeps DEF Take
<1>4. CASE Replay
  BY <1>4, AnswerKeeps DEF Replay
<1>5. CASE Replayed
  BY <1>5, AnswerKeeps DEF Replayed
<1>6. CASE ContentChanges
  BY <1>6
  DEF ContentChanges, BacklogTypeOK, BacklogInv, Begun, Answered, Apart, NothingDropped, Rows
<1>7. CASE CrashBacklog
  BY <1>7, AsleepTyped
  DEF CrashBacklog, BacklogTypeOK, BacklogInv, Begun, Answered, Apart, NothingDropped, Rows
<1>8. CASE UNCHANGED backlogVars
  BY <1>8
  DEF backlogVars, BacklogTypeOK, BacklogInv, Begun, Answered, Apart, NothingDropped, Rows
<1> QED
  BY <1>1, <1>2, <1>3, <1>4, <1>5, <1>6, <1>7, <1>8, EnqueueKeeps, ComesDueKeeps, DueKeeps,
     AcknowledgeKeeps, RetryKeeps DEF BacklogNext, Draining

LEMMA BacklogBegins == BacklogInit => BacklogTypeOK /\ BacklogInv
<1> SUFFICES ASSUME BacklogInit PROVE BacklogTypeOK /\ BacklogInv
  OBVIOUS
<1>1. <<>> \in Seq(Mail) /\ IsInjective(<<>>) /\ Range(<<>>) = {}
  BY DEF IsInjective, Range
<1>2. BacklogTypeOK
  BY <1>1, AsleepTyped DEF BacklogInit, BacklogTypeOK
<1>3. BacklogInv
  BY <1>1, AsleepTyped DEF BacklogInit, BacklogInv, Begun, Answered, Apart, NothingDropped, Rows
<1> QED BY <1>2, <1>3

LEMMA BacklogInvariant == BacklogSpec => [](BacklogTypeOK /\ BacklogInv)
<1>1. BacklogInit => BacklogTypeOK /\ BacklogInv
  BY BacklogBegins
<1>2. (BacklogTypeOK /\ BacklogInv) /\ [BacklogNext]_backlogVars => (BacklogTypeOK /\ BacklogInv)'
  BY BacklogKept
<1> QED BY <1>1, <1>2, PTL DEF BacklogSpec

-----------------------------------------------------------------------------
(* The pipeline *)

\* Every variable of a case's evidence and of the deferred messages keeps to its values.
THEOREM MessageTypes == PipelineSpec => [](EvidenceTypeOK /\ BacklogTypeOK)
<1>1. EvidenceSpec => []EvidenceTypeOK
  BY EvidenceInvariant, PTL
<1>2. BacklogSpec => []BacklogTypeOK
  BY BacklogInvariant, PTL
<1> QED BY <1>1, <1>2, PTL DEF PipelineSpec

\* However downloads, their cancelling and their takeovers, refusals, crashes and the
\* deletion of the case come together, and however often the content is withheld: a message
\* counts as processed only with its evidence settled, nothing is written to a case that is
\* deleted, and a message that waits is not dropped (message_process_handler,
\* complete_attachment_capture, _delete_detection_case_scope, drain_once).
THEOREM MessagesSettled == PipelineSpec => []MessagesSettle
<1>1. EvidenceTypeOK /\ EvidenceInv => ProcessedIsSettled /\ NothingOutlivesTheCase
  BY DEF EvidenceTypeOK, EvidenceInv, Emptied, Deletion, NothingOutlivesTheCase
<1>2. BacklogInv => NothingDropped
  BY DEF BacklogInv
<1>3. EvidenceTypeOK /\ EvidenceInv /\ BacklogInv => MessagesSettle
  BY <1>1, <1>2 DEF MessagesSettle
<1> QED BY <1>3, EvidenceInvariant, BacklogInvariant, PTL DEF PipelineSpec
=============================================================================
