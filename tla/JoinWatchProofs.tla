--------------------------- MODULE JoinWatchProofs ---------------------------
(***************************************************************************)
(* What is proved of JoinWatch: the incidents of a member (JoinWatch) and  *)
(* the rows they are stored in (LiveState).                                *)
(*                                                                         *)
(* JoinWatch throws a member out only rightly, for every guild setting and *)
(* any number of incidents, sessions, retries and events.  The inductive   *)
(* invariant is JoinInv.  Its parts say what the holder of the lock may    *)
(* count on (HolderFits), that a twin assignment keeps the timer away from *)
(* a restriction (TwinsTogether), that what is left of a kicked incident   *)
(* is spent (KickedIsSpent) and that a passed one waits for its release    *)
(* wherever it is stored (PassedWaits).                                    *)
(*                                                                         *)
(* LiveState keeps the promise of LiveRows for every set of accounts, row  *)
(* kinds and contents.  Its invariant is the type and MovedBack: while a   *)
(* move back runs, the Config kinds already written agree with what is     *)
(* being moved, so that dropping the marker at its end changes no row a    *)
(* reader sees (an export) or shows exactly the saved copy (a restore).    *)
(***************************************************************************)
EXTENDS JoinWatch, LiveState, TLAPS

-----------------------------------------------------------------------------
(* The invariant of the incidents *)

Asg == rows["assignment"]
Res == rows["restriction"]
Busy == task.at # ""

\* An assignment the timer may still act on.
Standing(row) == row # NoRow /\ row.terminal = "" /\ ~row.started /\ row.state # "enrolling"
Twins == Res # NoRow /\ Asg.id = Res.id
Kicks == policy.action = "kick"

\* Every stored incident has a number that was drawn.
Drawn(row) == row = NoRow \/ row.id \in 1..incidents
Numbered ==
  /\ Drawn(Asg) /\ Drawn(Res) /\ Drawn(planned)
  /\ Busy => task.row.id \in 1..incidents
  /\ \A i \in 1..MaxIncident : thrown[i] > 0 => i <= incidents
  /\ passed \subseteq 1..incidents

\* Only a wave or a test enrols, and an enrolment is an assignment.
FromPlan(row) == row.state = "enrolling" => row.source \in {"wave", "test"}
EnrolmentsApart ==
  /\ FromPlan(Asg) /\ Res.state # "enrolling"
  /\ Busy /\ task.at # "enroll" => task.row.state # "enrolling"

\* A plan is of an incident that nothing else is about.
PlanApart ==
  planned # NoRow =>
    /\ planned.source \in {"wave", "test"} /\ planned.captcha /\ ~planned.started
    /\ Res.id # planned.id
    /\ Asg.id = planned.id => Asg.state = "enrolling"
    /\ Busy /\ task.row.id = planned.id => task.at = "enroll"

\* What the holder of the lock works on is what is stored.
HolderFits ==
  /\ task.at = "" => task = Resting
  /\ task.at = "direct" => task.kind = "restriction" /\ Asg = NoRow
  /\ task.at = "add" => /\ task.kind = "assignment" /\ Asg # NoRow
                        /\ Asg.id = task.row.id /\ Asg.ready /\ ~role
  /\ task.at = "enroll" => /\ task.kind = "assignment" /\ Asg.id = task.row.id
                           /\ Asg.state = "enrolling" /\ Res = NoRow
  /\ task.at = "keep" => IF task.kind = "restriction" THEN Asg = NoRow
                         ELSE Asg.id = task.row.id /\ (Standing(Asg) => Asg.ready)
  /\ task.at = "clear" => task.kind = "assignment" /\ Twins
  /\ task.at \in {"punish", "seal"} =>
       rows[task.kind].id = task.row.id /\ rows[task.kind].started /\ task.row.started
  /\ task.at = "punish" =>
       /\ policy.action \in {"kick", "ban"}
       /\ IF task.kind = "restriction" THEN task.row.state # "release_pending"
          ELSE ~Kicks /\ ~role
       /\ Kicks => thrown[task.row.id] = 0 /\ (Twins => ~Standing(Asg))
  /\ task.at \in {"lift", "verify", "close"} => task.kind = "restriction"
  /\ task.at = "close" => ~Standing(Asg)

\* Without a delay, who has an assignment has a CAPTCHA: no incident goes the direct
\* way beside an assignment.
AssignedHaveCaptcha ==
  ~policy.delay /\ Asg # NoRow => /\ Asg.captcha /\ (Res # NoRow => Res.captcha)
                                  /\ Busy => task.row.captcha

\* What the timer selected was due.
SelectedWasDue ==
  /\ picked["assignment"] # NoRow =>
       LET row == picked["assignment"]
       IN row.terminal = "" /\ row.state # "enrolling" /\ row.ready
  /\ picked["restriction"] # NoRow =>
       LET row == picked["restriction"]
       IN row.terminal = "" /\ row.state # "release_pending" /\ row.expired /\ row.source # "test"

\* While the role is on, an assignment of the running incident is due, and
\* selected with it.
TwinsTogether ==
  role /\ Standing(Asg) /\ Twins =>
    /\ Asg.ready
    /\ picked["restriction"] # NoRow /\ picked["restriction"].id = Res.id
       /\ task.at \notin {"keep", "clear"} => picked["assignment"] = Asg

\* For kicks: what is left of an incident that threw the member out is spent.
KickedIsSpent ==
  Kicks => \A i \in 1..MaxIncident : thrown[i] > 0 =>
    /\ Res.id = i => Res.started
    /\ Asg.id = i => ~Standing(Asg)
    /\ Busy /\ task.row.id = i => task.row.started
    /\ planned.id # i

StartedLate(row) == row.started => row.expired /\ row.source # "test"
KicksAreLate == Kicks => StartedLate(Asg) /\ StartedLate(Res) /\ StartedLate(task.row)

BannedIsOut == policy.action = "ban" => \A i \in 1..MaxIncident : thrown[i] > 0 => barred /\ ~present

\* A passed incident waits for its release wherever it is stored.
PassedWaits ==
  \A i \in passed :
    /\ Res.id = i => Res.state = "release_pending"
    /\ Asg.id = i => Asg.state = "release_pending"
    /\ Busy /\ task.row.id = i => task.row.state = "release_pending"
    /\ planned.id # i
    /\ policy.action # "ban" => thrown[i] = 0

RoleIsHeld == role => present
NeverUnasked == policy.action = "none" => \A i \in 1..MaxIncident : thrown[i] = 0

JoinInv ==
  /\ Numbered /\ EnrolmentsApart /\ PlanApart /\ HolderFits /\ AssignedHaveCaptcha
  /\ SelectedWasDue /\ TwinsTogether /\ KickedIsSpent /\ KicksAreLate /\ BannedIsOut /\ PassedWaits
  /\ RoleIsHeld /\ NeverUnasked /\ ThrownOutOnce

\* What each change of a row leaves of it.
LEMMA RowKinds ==
  /\ "assignment" \in Kind /\ "restriction" \in Kind
  /\ \A k \in Kind : k \in {"assignment", "restriction"}
BY DEF Kind

LEMMA NoRowIsRow == NoRow \in Row
BY WatchAssumption DEF WatchAssumption, NoRow, Row, Ending

LEMMA RetriesKnown ==
  ASSUME NEW row \in Row PROVE row.retries \in 0..MaxRetry /\ MaxRetry \in Nat
BY WatchAssumption DEF WatchAssumption, Row

LEMMA MarkIsRow ==
  ASSUME NEW row \in Row, NEW o \in Ending PROVE Mark(row, o) \in Row
<1> DEFINE new == IF row.terminal = "" THEN o ELSE row.terminal
<1>1. new \in Ending
  BY DEF Row
<1>2. [row EXCEPT !.terminal = new] \in Row
  <2> HIDE DEF new
  <2> QED BY <1>1 DEF Row
<1> QED BY <1>2 DEF Mark

LEMMA PutBackIsRow ==
  ASSUME NEW row \in Row, NEW k \in Kind, row.retries < MaxRetry PROVE PutBack(k, row) \in Row
<1> DEFINE n == row.retries + 1
           ready == IF k = "assignment" THEN FALSE ELSE row.ready
           expired == IF k = "restriction" THEN FALSE ELSE row.expired
<1>1. n \in 0..MaxRetry /\ ready \in BOOLEAN /\ expired \in BOOLEAN
  <2>1. row.retries \in 0..MaxRetry /\ row.ready \in BOOLEAN /\ row.expired \in BOOLEAN
    BY DEF Row
  <2>2. n \in 0..MaxRetry
    BY RetriesKnown
  <2> QED BY <2>1, <2>2
<1>2. [row EXCEPT !.retries = n, !.ready = ready, !.expired = expired] \in Row
  <2> HIDE DEF n, ready, expired
  <2> QED BY <1>1 DEF Row
<1> QED BY <1>2 DEF PutBack

LEMMA FinishTyped ==
  ASSUME WatchTypeOK, NEW k \in Kind, NEW row \in Row, NEW o \in Ending, Finish(k, row, o)
  PROVE  rows' \in [Kind -> Row]
BY MarkIsRow, NoRowIsRow DEF Finish, WatchTypeOK

LEMMA RetryTyped ==
  ASSUME WatchTypeOK, NEW k \in Kind, NEW row \in Row, Retry(k, row)
  PROVE  rows' \in [Kind -> Row]
<1>1. CASE row.retries >= MaxRetry
  BY <1>1, FinishTyped, "action_failed" \in Ending DEF Retry, Ending
<1>2. CASE ~(row.retries >= MaxRetry)
  <2>1. row.retries < MaxRetry
    BY <1>2, RetriesKnown
  <2>2. PutBack(k, row) \in Row /\ NoRow \in Row
    BY <2>1, PutBackIsRow, NoRowIsRow
  <2>3. rows' = [rows EXCEPT ![k] = IF rows[k] = NoRow THEN NoRow ELSE PutBack(k, row)]
    BY <1>2 DEF Retry
  <2> QED BY <2>2, <2>3 DEF WatchTypeOK
<1> QED BY <1>1, <1>2

LEMMA DropTyped ==
  ASSUME WatchTypeOK, NEW o \in Ending, DropAssignment(o) \/ DropRestriction(o)
  PROVE  rows' \in [Kind -> Row]
BY FinishTyped, NoRowIsRow, RowKinds DEF DropAssignment, DropRestriction, WatchTypeOK

LEMMA AgedIsRow ==
  ASSUME NEW row \in Row
  PROVE  Aged(row) \in Row /\ Ripe(row) \in Row /\ Idled(row) \in Row
<1>1. [row EXCEPT !.ready = TRUE, !.expired = TRUE] \in Row
  BY DEF Row
<1>2. [row EXCEPT !.ready = TRUE] \in Row
  BY DEF Row
<1>3. [row EXCEPT !.fresh = FALSE] \in Row
  BY DEF Row
<1> QED BY <1>1, <1>2, <1>3 DEF Aged, Ripe, Idled

LEMMA StartedIsRow ==
  ASSUME NEW row \in Row, NEW b \in BOOLEAN
  PROVE  [row EXCEPT !.started = b] \in Row
BY DEF Row

LEMMA ThrowTyped ==
  ASSUME WatchTypeOK, NEW i, Throw(i)
  PROVE  thrown' \in [1..MaxIncident -> 0..2]
<1> DEFINE n == IF thrown[i] = 2 THEN 2 ELSE thrown[i] + 1
<1>1. thrown' = [thrown EXCEPT ![i] = n]
  BY DEF Throw
<1>2. CASE i \in 1..MaxIncident
  <2>1. thrown[i] \in 0..2
    BY <1>2 DEF WatchTypeOK
  <2>2. n \in 0..2
    BY <2>1
  <2> QED
    <3> HIDE DEF n
    <3> QED BY <1>1, <2>2 DEF WatchTypeOK
<1>3. CASE i \notin 1..MaxIncident
  BY <1>1, <1>3 DEF WatchTypeOK
<1> QED BY <1>2, <1>3

LEMMA PolicyFields ==
  ASSUME policy \in Policies
  PROVE  /\ policy.delay \in BOOLEAN /\ policy.captcha \in BOOLEAN
         /\ policy.action \in {"none", "kick", "ban"}
BY WatchAssumption DEF WatchAssumption

LEMMA BoundsNat == MaxIncident \in Nat /\ MaxSession \in Nat
BY WatchAssumption DEF WatchAssumption

LEMMA IncidentIsRow ==
  ASSUME WatchTypeOK, NEW i \in 0..MaxIncident, NEW source \in {"join", "group", "wave", "test"}
  PROVE  Incident(i, source) \in Row
<1> DEFINE captcha == IF source = "join" THEN policy.captcha ELSE TRUE
<1>1. captcha \in BOOLEAN
  BY PolicyFields DEF WatchTypeOK
<1>2. [NoRow EXCEPT !.id = i, !.source = source, !.captcha = captcha] \in Row
  <2> HIDE DEF captcha
  <2> QED BY <1>1, NoRowIsRow DEF Row
<1> QED BY <1>2 DEF Incident

LEMMA UseTyped ==
  ASSUME WatchTypeOK, NEW e \in WatchEvents, Use(e)
  PROVE  left' \in [WatchEvents -> Nat]
<1>1. left[e] \in Nat /\ left[e] > 0
  BY DEF Use, WatchTypeOK
<1>2. left[e] - 1 \in Nat
  BY <1>1
<1> QED BY <1>2 DEF Use, WatchTypeOK

LEMMA TaskTyped ==
  Resting \in Holder
BY NoRowIsRow DEF Resting, Kind, Holder

LEMMA TypesBegin == WatchInit => WatchTypeOK
<1> SUFFICES ASSUME WatchInit PROVE WatchTypeOK
  OBVIOUS
<1>1. left \in [WatchEvents -> Nat]
  BY WatchAssumption DEF WatchAssumption, WatchInit
<1>2. rows \in [Kind -> Row] /\ picked \in [Kind -> Row] /\ planned \in Row
  BY NoRowIsRow DEF WatchInit, NoRows
<1>3. incidents \in 0..MaxIncident /\ sessions \in 0..MaxSession
  BY BoundsNat DEF WatchInit
<1>4. task \in Holder
  BY TaskTyped DEF WatchInit
<1>5. thrown \in [1..MaxIncident -> 0..2] /\ passed \subseteq 1..MaxIncident
  BY DEF WatchInit
<1>6. /\ policy \in Policies /\ archive \in BOOLEAN
      /\ {dryRun, present, barred, role, arrival, removal, verified} \subseteq BOOLEAN
  BY DEF WatchInit
<1> QED BY <1>1, <1>2, <1>3, <1>4, <1>5, <1>6 DEF WatchTypeOK

\* The member, the moderators and time.
LEMMA TypesSurroundings ==
  ASSUME WatchTypeOK,
         \/ Enter \/ Leave \/ TakeRole \/ ToggleDryRun \/ ArchiveFails \/ ArchiveRecovers
         \/ DelayEnds \/ DeadlinePasses \/ SessionEnds
  PROVE  WatchTypeOK'
<1> USE DEF WatchTypeOK
<1>1. {"visits", "enrolments", "meddlings", "faults", "crashes", "toggles"} = WatchEvents
  BY DEF WatchEvents
<1>2. CASE Enter
  BY <1>1, <1>2, UseTyped DEF Enter
<1>3. CASE Leave
  BY <1>1, <1>3, UseTyped DEF Leave
<1>4. CASE TakeRole
  BY <1>1, <1>4, UseTyped DEF TakeRole
<1>5. CASE ToggleDryRun
  BY <1>1, <1>5, UseTyped DEF ToggleDryRun
<1>6. CASE ArchiveFails
  BY <1>1, <1>6, UseTyped DEF ArchiveFails
<1>7. CASE ArchiveRecovers
  BY <1>7 DEF ArchiveRecovers
<1>8. CASE DelayEnds
  BY <1>8, AgedIsRow DEF DelayEnds, PassTime, Holder
<1>9. CASE DeadlinePasses
  BY <1>9, AgedIsRow DEF DeadlinePasses, PassTime, Holder
<1>10. CASE SessionEnds
  BY <1>10, AgedIsRow DEF SessionEnds, PassTime, Holder
<1> QED BY <1>2, <1>3, <1>4, <1>5, <1>6, <1>7, <1>8, <1>9, <1>10

LEMMA TaskRecord ==
  ASSUME NEW at \in {"", "direct", "add", "keep", "clear", "punish", "seal", "lift", "verify",
                     "close", "enroll"}, NEW k \in Kind, NEW row \in Row
  PROVE  [at |-> at, kind |-> k, row |-> row] \in Holder
BY DEF Holder

LEMMA TypesJoin ==
  ASSUME WatchTypeOK, Join
  PROVE  WatchTypeOK'
<1> DEFINE opened == IF Existing = NoRow THEN Incident(incidents + 1, "join") ELSE Existing
           incident == [opened EXCEPT !.restore = rows["restriction"] # NoRow]
           ready == rows["assignment"] # NoRow /\ rows["assignment"].ready
           waiting == [incident EXCEPT !.ready = ready]
           now == [incident EXCEPT !.ready = TRUE]
<1>1. CASE Skipped \/ ~present
  BY <1>1 DEF Join, WatchTypeOK
<1>2. CASE ~(Skipped \/ ~present)
  <2>1. /\ Existing # NoRow \/ incidents < MaxIncident
        /\ incidents' = IF Existing = NoRow THEN incidents + 1 ELSE incidents
    BY <1>2 DEF Join
  <2>2. incidents' \in 0..MaxIncident
    <3>1. incidents \in 0..MaxIncident
      BY DEF WatchTypeOK
    <3>2. incidents' = incidents \/ (incidents < MaxIncident /\ incidents' = incidents + 1)
      BY <2>1
    <3> QED BY <3>1, <3>2, BoundsNat
  <2>3. Existing \in Row
    BY RowKinds DEF Existing, WatchTypeOK
  <2>4. opened \in Row
    <3>1. CASE Existing = NoRow
      <4>1. incidents + 1 \in 0..MaxIncident
        BY <3>1, <2>1, <2>2
      <4> QED BY <3>1, <4>1, IncidentIsRow
    <3>2. CASE Existing # NoRow
      BY <3>2, <2>3
    <3> QED BY <3>1, <3>2
  <2>5. incident \in Row
    <3> HIDE DEF opened
    <3> QED BY <2>4 DEF Row
  <2>6. ready \in BOOLEAN
    BY RowKinds DEF WatchTypeOK, Row
  <2>7. waiting \in Row /\ now \in Row
    <3> HIDE DEF incident, ready
    <3> QED BY <2>5, <2>6 DEF Row
  <2>8. \/ UNCHANGED <<rows, task>>
        \/ rows' = [rows EXCEPT !["assignment"] = waiting] /\ UNCHANGED task
        \/ /\ rows' = [rows EXCEPT !["assignment"] = now]
           /\ task' \in {task, [at |-> "add", kind |-> "assignment", row |-> now]}
        \/ UNCHANGED rows /\ task' = [at |-> "direct", kind |-> "restriction", row |-> incident]
    BY <1>2 DEF Join
  <2>9. /\ UNCHANGED <<policy, dryRun, present, barred, role, removal, archive, verified,
                       planned, picked, sessions, thrown, passed, left>>
        /\ arrival' = FALSE
    BY DEF Join
  <2> HIDE DEF opened, incident, waiting, now, ready
  <2>10. rows' \in [Kind -> Row]
    BY <2>7, <2>8 DEF WatchTypeOK
  <2>11. task' \in Holder
    <3>1. \/ task' = task
          \/ task' = [at |-> "add", kind |-> "assignment", row |-> now]
          \/ task' = [at |-> "direct", kind |-> "restriction", row |-> incident]
      BY <2>8
    <3>2. [at |-> "add", kind |-> "assignment", row |-> now] \in Holder
      BY <2>7, TaskRecord, RowKinds
    <3>3. [at |-> "direct", kind |-> "restriction", row |-> incident] \in Holder
      BY <2>5, TaskRecord, RowKinds
    <3> QED BY <3>1, <3>2, <3>3 DEF WatchTypeOK
  <2> QED BY <2>2, <2>9, <2>10, <2>11 DEF WatchTypeOK
<1> QED BY <1>1, <1>2

LEMMA EndingsKnown ==
  {"", "cancelled", "manual", "passed", "no_action", "dry_run", "action_failed",
   "action_uncertain", "member_absent", "thrown_out"} = Ending
BY DEF Ending

LEMMA ExecuteTyped ==
  ASSUME WatchTypeOK, NEW k \in Kind, NEW row \in Row, Execute(k, row)
  PROVE  /\ rows' \in [Kind -> Row]
         /\ task' \in Holder
         /\ UNCHANGED <<present, role, removal>>
<1> DEFINE begun == [row EXCEPT !.started = TRUE]
<1>1. CASE \E o \in {"no_action", "dry_run", "action_uncertain", "member_absent"} :
             Finish(k, row, o) /\ Release /\ UNCHANGED <<present, role, removal>>
  BY <1>1, FinishTyped, EndingsKnown, TaskTyped DEF Release
<1>2. CASE /\ rows' = [rows EXCEPT ![k] = begun]
           /\ task' = [at |-> "punish", kind |-> k, row |-> begun]
           /\ UNCHANGED <<present, role, removal>>
  <2>1. begun \in Row
    BY StartedIsRow
  <2> HIDE DEF begun
  <2> QED BY <1>2, <2>1, TaskRecord DEF WatchTypeOK
<1> QED BY <1>1, <1>2 DEF Execute

LEMMA TypesTimer ==
  ASSUME WatchTypeOK,
         \/ SettleHistory \/ Select \/ TimeAssignment \/ GiveUpGroup \/ TimeRestriction
         \/ NoticeRemoval
  PROVE  WatchTypeOK'
<1>1. CASE SettleHistory
  <2>1. rows' \in [Kind -> Row]
    BY <1>1, FinishTyped, EndingsKnown DEF SettleHistory, WatchTypeOK
  <2> QED BY <1>1, <2>1 DEF SettleHistory, Around, WatchTypeOK
<1>2. CASE Select
  <2>1. DueAssignment \in Row /\ DueRestriction \in Row
    BY NoRowIsRow, RowKinds DEF DueAssignment, DueRestriction, WatchTypeOK
  <2>2. picked' \in [Kind -> Row]
    BY <1>2, <2>1 DEF Select
  <2> QED BY <1>2, <2>2 DEF Select, WatchTypeOK
<1>3. CASE TimeAssignment
  <2> DEFINE row == picked["assignment"]
  <2>1. row \in Row
    BY RowKinds DEF WatchTypeOK
  <2>2. picked' \in [Kind -> Row]
    BY <1>3, NoRowIsRow DEF TimeAssignment, WatchTypeOK
  <2>3. \/ UNCHANGED <<present, role, removal, rows, task>>
        \/ /\ \E o \in {"cancelled", "dry_run"} : DropAssignment(o)
           /\ UNCHANGED <<present, role, removal, task>>
        \/ Execute("assignment", row)
        \/ /\ task' = [at |-> "add", kind |-> "assignment", row |-> row]
           /\ UNCHANGED <<present, role, removal, rows>>
    BY <1>3 DEF TimeAssignment
  <2> HIDE DEF row
  <2>4. /\ rows' \in [Kind -> Row]
        /\ task' \in Holder
        /\ UNCHANGED <<present, role, removal>>
    <3>1. CASE UNCHANGED <<present, role, removal, rows, task>>
      BY <3>1 DEF WatchTypeOK
    <3>2. CASE /\ \E o \in {"cancelled", "dry_run"} : DropAssignment(o)
               /\ UNCHANGED <<present, role, removal, task>>
      BY <3>2, DropTyped, EndingsKnown DEF WatchTypeOK
    <3>3. CASE Execute("assignment", row)
      BY <2>1, <3>3, ExecuteTyped, RowKinds
    <3>4. CASE /\ task' = [at |-> "add", kind |-> "assignment", row |-> row]
               /\ UNCHANGED <<present, role, removal, rows>>
      BY <2>1, <3>4, TaskRecord, RowKinds DEF WatchTypeOK
    <3> QED BY <2>3, <3>1, <3>2, <3>3, <3>4
  <2> QED BY <1>3, <2>2, <2>4 DEF TimeAssignment, WatchTypeOK
<1>4. CASE GiveUpGroup
  <2>1. left' \in [WatchEvents -> Nat]
    BY <1>4, UseTyped DEF GiveUpGroup, WatchEvents
  <2> QED BY <1>4, <2>1, NoRowIsRow DEF GiveUpGroup, WatchTypeOK
<1>5. CASE TimeRestriction
  <2> DEFINE row == picked["restriction"]
  <2>1. row \in Row
    BY RowKinds DEF WatchTypeOK
  <2>2. picked' \in [Kind -> Row]
    BY <1>5, NoRowIsRow DEF TimeRestriction, WatchTypeOK
  <2>3. \/ UNCHANGED <<present, role, removal, rows, task>>
        \/ Finish("restriction", row, "manual") /\ UNCHANGED <<present, role, removal, task>>
        \/ Execute("restriction", row)
    BY <1>5 DEF TimeRestriction
  <2> HIDE DEF row
  <2>4. /\ rows' \in [Kind -> Row]
        /\ task' \in Holder
        /\ UNCHANGED <<present, role, removal>>
    BY <2>1, <2>3, ExecuteTyped, FinishTyped, EndingsKnown, RowKinds DEF WatchTypeOK
  <2> QED BY <1>5, <2>2, <2>4 DEF TimeRestriction, WatchTypeOK
<1>6. CASE NoticeRemoval
  <2>1. rows' \in [Kind -> Row]
    BY <1>6, DropTyped, EndingsKnown DEF NoticeRemoval
  <2> QED BY <1>6, <2>1 DEF NoticeRemoval, Around, WatchTypeOK
<1> QED BY <1>1, <1>2, <1>3, <1>4, <1>5, <1>6

LEMMA HolderFields ==
  ASSUME task \in Holder
  PROVE  task.kind \in Kind /\ task.row \in Row
BY DEF Holder

LEMMA StepTyped ==
  ASSUME task \in Holder, NEW at \in {"keep", "clear", "seal", "verify", "close"}
  PROVE  [task EXCEPT !.at = at] \in Holder
BY DEF Holder

LEMMA KeptIsRow ==
  ASSUME NEW row \in Row PROVE Kept(row) \in Row
<1> DEFINE state == IF row.state = "" THEN "active" ELSE row.state
<1>1. state \in {"", "enrolling", "active", "release_pending"}
  BY DEF Row
<1>2. [row EXCEPT !.state = state, !.ready = FALSE] \in Row
  <2> HIDE DEF state
  <2> QED BY <1>1 DEF Row
<1> QED BY <1>2 DEF Kept

LEMMA TypesHolder ==
  ASSUME WatchTypeOK,
         \/ AddDirectly \/ AddRole \/ KeepRole \/ ClearAssignment \/ Punish \/ Seal
         \/ Lift \/ Verify \/ CloseIncident \/ AddEnrolled
  PROVE  WatchTypeOK'
<1>1. task \in Holder /\ task.kind \in Kind /\ task.row \in Row /\ Resting \in Holder
  BY HolderFields, TaskTyped DEF WatchTypeOK
<1>2. CASE AddDirectly
  <2>1. task' \in Holder
    BY <1>1, <1>2, StepTyped DEF AddDirectly, Release
  <2> QED BY <1>2, <2>1 DEF AddDirectly, Around, WatchTypeOK
<1>3. CASE AddRole
  <2>1. task' \in Holder
    BY <1>1, <1>3, StepTyped DEF AddRole, Release
  <2>2. rows' \in [Kind -> Row]
    BY <1>1, <1>3, RetryTyped, RowKinds DEF AddRole, WatchTypeOK
  <2> QED BY <1>3, <2>1, <2>2 DEF AddRole, Around, WatchTypeOK
<1>4. CASE KeepRole
  <2>1. task' \in Holder
    BY <1>1, <1>4, StepTyped DEF KeepRole
  <2>2. rows' \in [Kind -> Row]
    BY <1>1, <1>4, KeptIsRow DEF KeepRole, WatchTypeOK
  <2> QED BY <1>4, <2>1, <2>2 DEF KeepRole, Around, WatchTypeOK
<1>5. CASE ClearAssignment
  <2>1. rows' \in [Kind -> Row]
    BY <1>5, DropTyped, EndingsKnown DEF ClearAssignment
  <2> QED BY <1>1, <1>5, <2>1 DEF ClearAssignment, Release, Around, WatchTypeOK
<1>6. CASE Punish
  <2> DEFINE undone == [task.row EXCEPT !.started = FALSE]
  <2>1. undone \in Row
    BY <1>1, StartedIsRow
  <2>2. \/ UNCHANGED rows /\ task' = [task EXCEPT !.at = "seal"]
        \/ Retry(task.kind, undone) /\ Release
        \/ Finish(task.kind, task.row, "cancelled") /\ Release
    BY <1>6 DEF Punish
  <2>3. rows' \in [Kind -> Row]
    <3> HIDE DEF undone
    <3> QED BY <1>1, <2>1, <2>2, RetryTyped, FinishTyped, EndingsKnown DEF WatchTypeOK
  <2>4. task' \in Holder
    BY <1>1, <2>2, StepTyped DEF Release
  <2>5. thrown' \in [1..MaxIncident -> 0..2]
    <3>1. Throw(task.row.id) \/ UNCHANGED thrown
      BY <1>6 DEF Punish
    <3> QED BY <3>1, ThrowTyped DEF WatchTypeOK
  <2>6. present' \in BOOLEAN /\ role' \in BOOLEAN /\ barred' \in BOOLEAN
    BY <1>6 DEF Punish, WatchTypeOK
  <2>7. UNCHANGED <<policy, dryRun, arrival, removal, archive, verified, planned, picked, incidents,
                    sessions, passed, left>>
    BY <1>6 DEF Punish
  <2> QED BY <2>3, <2>4, <2>5, <2>6, <2>7 DEF WatchTypeOK
<1>7. CASE Seal
  <2>1. rows' \in [Kind -> Row]
    BY <1>1, <1>7, FinishTyped, EndingsKnown DEF Seal
  <2> QED BY <1>1, <1>7, <2>1 DEF Seal, Release, Around, WatchTypeOK
<1>8. CASE Lift
  <2>1. task' \in Holder
    BY <1>1, <1>8, StepTyped DEF Lift, Release
  <2>2. left' \in [WatchEvents -> Nat]
    <3>1. UNCHANGED left \/ Use("faults")
      BY <1>8 DEF Lift
    <3> QED BY <3>1, UseTyped DEF WatchEvents, WatchTypeOK
  <2>3. role' \in BOOLEAN /\ removal' \in BOOLEAN
    BY <1>8 DEF Lift, WatchTypeOK
  <2> QED BY <1>8, <2>1, <2>2, <2>3 DEF Lift, Around, WatchTypeOK
<1>9. CASE Verify
  <2>1. rows' \in [Kind -> Row]
    BY <1>9, DropTyped, EndingsKnown DEF Verify
  <2>2. task' \in Holder
    BY <1>1, <1>9, StepTyped DEF Verify
  <2> QED BY <1>9, <2>1, <2>2 DEF Verify, Around, WatchTypeOK
<1>10. CASE CloseIncident
  <2>1. task.row.completion \in Ending
    BY <1>1 DEF Row
  <2>2. rows' \in [Kind -> Row]
    BY <1>1, <1>10, <2>1, FinishTyped, RowKinds DEF CloseIncident
  <2> QED BY <1>1, <1>10, <2>2 DEF CloseIncident, Release, Around, WatchTypeOK
<1>11. CASE AddEnrolled
  <2>1. rows' \in [Kind -> Row]
    BY <1>11, DropTyped, EndingsKnown DEF AddEnrolled, WatchTypeOK
  <2>2. [task EXCEPT !.at = "keep", !.row.state = "active"] \in Holder
    <3>1. [task.row EXCEPT !.state = "active"] \in Row
      BY <1>1 DEF Row
    <3> QED BY <1>1, <3>1 DEF Holder
  <2>3. task' \in Holder
    BY <1>1, <1>11, <2>2 DEF AddEnrolled, Release
  <2>4. planned' \in Row /\ role' \in BOOLEAN
    BY <1>11, NoRowIsRow DEF AddEnrolled, WatchTypeOK
  <2> QED BY <1>11, <2>1, <2>3, <2>4 DEF AddEnrolled, Around, WatchTypeOK
<1> QED BY <1>2, <1>3, <1>4, <1>5, <1>6, <1>7, <1>8, <1>9, <1>10, <1>11

LEMMA TypesVerification ==
  ASSUME WatchTypeOK, Numbered,
         \/ StartSession \/ ResumeRelease
         \/ \E s \in 1..MaxSession, n \in {0, 1} : AnswerWrong(s, n) \/ AnswerRight(s, n)
         \/ ReleaseByHand \/ ReleaseAbsent \/ MarkManual
  PROVE  WatchTypeOK'
<1>1. Restriction \in Row
  BY RowKinds DEF Restriction, WatchTypeOK
<1>2. "meddlings" \in WatchEvents
  BY DEF WatchEvents
<1>3. CASE StartSession
  <2>1. sessions + 1 \in 0..MaxSession
    <3>1. sessions \in 0..MaxSession /\ sessions < MaxSession
      BY <1>3 DEF StartSession, WatchTypeOK
    <3> QED BY <3>1, BoundsNat
  <2>2. [Restriction EXCEPT !.session = sessions + 1, !.fresh = TRUE] \in Row
    BY <1>1, <2>1 DEF Row
  <2>3. rows' = [rows EXCEPT !["restriction"] =
                   [Restriction EXCEPT !.session = sessions + 1, !.fresh = TRUE]]
    BY <1>3, RowKinds DEF StartSession, Restriction, WatchTypeOK
  <2>4. rows' \in [Kind -> Row]
    BY <2>2, <2>3 DEF WatchTypeOK
  <2> QED BY <1>3, <2>1, <2>4 DEF StartSession, WatchTypeOK
<1>4. CASE ResumeRelease
  <2>1. task' \in Holder
    BY <1>1, <1>4, TaskRecord, RowKinds DEF ResumeRelease
  <2> QED BY <1>4, <2>1 DEF ResumeRelease, WatchTypeOK
<1>5. CASE \E s \in 1..MaxSession, n \in {0, 1} : AnswerWrong(s, n)
  <2>1. PICK s \in 1..MaxSession, n \in {0, 1} : AnswerWrong(s, n)
    BY <1>5
  <2>2. Restriction.failures + 1 \in 0..2
    <3>1. Restriction.failures \in 0..2
      BY <1>1 DEF Row
    <3> QED BY <2>1, <3>1 DEF AnswerWrong, Accepted
  <2>3. [Restriction EXCEPT !.failures = Restriction.failures + 1, !.stage = 0, !.session = 0,
                            !.fresh = FALSE] \in Row
    <3>1. 0 \in {0, 1} /\ 0 \in 0..MaxSession
      BY BoundsNat
    <3> QED BY <1>1, <2>2, <3>1 DEF Row
  <2>4. rows' = [rows EXCEPT !["restriction"] =
                   [Restriction EXCEPT !.failures = Restriction.failures + 1, !.stage = 0,
                                       !.session = 0, !.fresh = FALSE]]
    BY <2>1, RowKinds DEF AnswerWrong, Restriction, WatchTypeOK
  <2>5. rows' \in [Kind -> Row]
    BY <2>3, <2>4 DEF WatchTypeOK
  <2> QED BY <2>1, <2>5 DEF AnswerWrong, WatchTypeOK
<1>6. CASE \E s \in 1..MaxSession, n \in {0, 1} : AnswerRight(s, n)
  <2>1. PICK s \in 1..MaxSession, n \in {0, 1} : AnswerRight(s, n)
    BY <1>6
  <2> DEFINE next == IF n = 0 THEN [Restriction EXCEPT !.stage = 1]
                     ELSE [Restriction EXCEPT !.state = "release_pending", !.completion = "passed"]
  <2>2. next \in Row
    <3>1. [Restriction EXCEPT !.stage = 1] \in Row
      BY <1>1 DEF Row
    <3>2. [Restriction EXCEPT !.state = "release_pending", !.completion = "passed"] \in Row
      BY <1>1, EndingsKnown DEF Row
    <3> QED BY <3>1, <3>2
  <2>3. /\ rows' = [rows EXCEPT !["restriction"] = next]
        /\ passed' = IF n = 1 /\ rows["assignment"] = NoRow THEN passed \cup {next.id} ELSE passed
        /\ task' = IF n = 1 THEN [at |-> "lift", kind |-> "restriction", row |-> next] ELSE task
    BY <2>1 DEF AnswerRight
  <2>4. n = 1 => next.id \in 1..MaxIncident
    <3>1. next.id = Restriction.id
      BY <1>1 DEF Row
    <3>2. Restriction.id \in 0..MaxIncident
      BY <1>1 DEF Row
    <3>3. Restriction.id # 0
      <4>1. Restriction = NoRow \/ Restriction.id \in 1..incidents
        BY DEF Numbered, Drawn, Res, Restriction
      <4> QED BY <2>1, <4>1 DEF AnswerRight, Accepted
    <3> QED BY <3>1, <3>2, <3>3, BoundsNat
  <2> HIDE DEF next
  <2>5. rows' \in [Kind -> Row] /\ passed' \subseteq 1..MaxIncident
    BY <2>2, <2>3, <2>4 DEF WatchTypeOK
  <2>6. task' \in Holder
    BY <2>2, <2>3, TaskRecord, RowKinds DEF WatchTypeOK
  <2> QED BY <2>1, <2>5, <2>6 DEF AnswerRight, WatchTypeOK
<1>7. CASE ReleaseByHand
  <2> DEFINE next == [Restriction EXCEPT !.state = "release_pending", !.completion = "manual"]
  <2>1. next \in Row
    BY <1>1, EndingsKnown DEF Row
  <2>2. /\ rows' = [rows EXCEPT !["restriction"] = next]
        /\ task' = [at |-> "lift", kind |-> "restriction", row |-> next]
    BY <1>7 DEF ReleaseByHand
  <2> HIDE DEF next
  <2>3. rows' \in [Kind -> Row] /\ task' \in Holder
    BY <2>1, <2>2, TaskRecord, RowKinds DEF WatchTypeOK
  <2>4. left' \in [WatchEvents -> Nat]
    BY <1>2, <1>7, UseTyped DEF ReleaseByHand
  <2> QED BY <1>7, <2>3, <2>4 DEF ReleaseByHand, WatchTypeOK
<1>8. CASE ReleaseAbsent
  <2>1. left' \in [WatchEvents -> Nat]
    BY <1>2, <1>8, UseTyped DEF ReleaseAbsent, Use
  <2> QED BY <1>8, <2>1, NoRowIsRow DEF ReleaseAbsent, WatchTypeOK
<1>9. CASE MarkManual
  <2>1. [Restriction EXCEPT !.manual = TRUE] \in Row
    BY <1>1 DEF Row
  <2>2. rows' = [rows EXCEPT !["restriction"] = [Restriction EXCEPT !.manual = TRUE]]
    BY <1>9, RowKinds DEF MarkManual, Restriction, WatchTypeOK
  <2>3. rows' \in [Kind -> Row]
    BY <2>1, <2>2 DEF WatchTypeOK
  <2>4. left' \in [WatchEvents -> Nat]
    BY <1>2, <1>9, UseTyped DEF MarkManual
  <2> QED BY <1>9, <2>3, <2>4 DEF MarkManual, WatchTypeOK
<1> QED BY <1>3, <1>4, <1>5, <1>6, <1>7, <1>8, <1>9

LEMMA NextIncident ==
  ASSUME WatchTypeOK, incidents < MaxIncident
  PROVE  incidents + 1 \in 0..MaxIncident
<1>1. incidents \in 0..MaxIncident
  BY DEF WatchTypeOK
<1> QED BY <1>1, BoundsNat

LEMMA TypesEnrolment ==
  ASSUME WatchTypeOK,
         \/ \E source \in {"wave", "test"} : Plan(source)
         \/ CancelPlan \/ Enroll \/ ScheduleGroup \/ JoinGroup \/ EnableExisting \/ EraseRows
  PROVE  WatchTypeOK'
<1>1. "meddlings" \in WatchEvents /\ "enrolments" \in WatchEvents
  BY DEF WatchEvents
<1>2. CASE \E source \in {"wave", "test"} : Plan(source)
  <2>1. PICK source \in {"wave", "test"} : Plan(source)
    BY <1>2
  <2>2. incidents + 1 \in 0..MaxIncident
    BY <2>1, NextIncident DEF Plan
  <2>3. Incident(incidents + 1, source) \in Row
    BY <2>2, IncidentIsRow
  <2>4. left' \in [WatchEvents -> Nat]
    BY <1>1, <2>1, UseTyped DEF Plan
  <2> QED BY <2>1, <2>2, <2>3, <2>4 DEF Plan, WatchTypeOK
<1>3. CASE CancelPlan
  <2>1. left' \in [WatchEvents -> Nat]
    BY <1>1, <1>3, UseTyped DEF CancelPlan
  <2>2. rows' \in [Kind -> Row] /\ planned' \in Row
    BY <1>3, NoRowIsRow DEF CancelPlan, WatchTypeOK
  <2> QED BY <1>3, <2>1, <2>2 DEF CancelPlan, WatchTypeOK
<1>4. CASE Enroll
  <2> DEFINE row == [planned EXCEPT !.state = "enrolling", !.ready = TRUE]
  <2>1. row \in Row
    BY DEF WatchTypeOK, Row
  <2>2. /\ planned' = row
        /\ rows' = [rows EXCEPT !["assignment"] = row]
        /\ task' = [at |-> "enroll", kind |-> "assignment", row |-> row]
    BY <1>4 DEF Enroll
  <2> HIDE DEF row
  <2>3. rows' \in [Kind -> Row] /\ task' \in Holder /\ planned' \in Row
    BY <2>1, <2>2, TaskRecord, RowKinds DEF WatchTypeOK
  <2> QED BY <1>4, <2>3 DEF Enroll, WatchTypeOK
<1>5. CASE ScheduleGroup
  <2> DEFINE ready == ~policy.delay
  <2>1. incidents + 1 \in 0..MaxIncident
    BY <1>5, NextIncident DEF ScheduleGroup
  <2>2. Incident(incidents + 1, "group") \in Row /\ ready \in BOOLEAN
    BY <2>1, IncidentIsRow, PolicyFields DEF WatchTypeOK
  <2>3. [Incident(incidents + 1, "group") EXCEPT !.ready = ready] \in Row
    <3> HIDE DEF ready
    <3> QED BY <2>2 DEF Row
  <2>4. rows' \in [Kind -> Row]
    BY <1>5, <2>3 DEF ScheduleGroup, WatchTypeOK
  <2>5. left' \in [WatchEvents -> Nat]
    BY <1>1, <1>5, UseTyped DEF ScheduleGroup
  <2> QED BY <1>5, <2>1, <2>4, <2>5 DEF ScheduleGroup, WatchTypeOK
<1>6. CASE JoinGroup
  <2>1. PICK k \in Kind : rows' = [rows EXCEPT ![k].captcha = TRUE]
    BY <1>6 DEF JoinGroup
  <2>2. [rows[k] EXCEPT !.captcha = TRUE] \in Row
    <3>1. rows[k] \in Row
      BY DEF WatchTypeOK
    <3> QED BY <3>1 DEF Row
  <2>3. rows' \in [Kind -> Row]
    BY <2>1, <2>2 DEF WatchTypeOK
  <2>4. left' \in [WatchEvents -> Nat]
    BY <1>1, <1>6, UseTyped DEF JoinGroup
  <2> QED BY <1>6, <2>3, <2>4 DEF JoinGroup, WatchTypeOK
<1>7. CASE EnableExisting
  <2>1. [rows["restriction"] EXCEPT !.captcha = TRUE] \in Row
    <3>1. rows["restriction"] \in Row
      BY RowKinds DEF WatchTypeOK
    <3> QED BY <3>1 DEF Row
  <2>2. rows' \in [Kind -> Row]
    BY <1>7, <2>1 DEF EnableExisting, WatchTypeOK
  <2>3. left' \in [WatchEvents -> Nat]
    BY <1>1, <1>7, UseTyped DEF EnableExisting
  <2> QED BY <1>7, <2>2, <2>3 DEF EnableExisting, WatchTypeOK
<1>8. CASE EraseRows
  <2>1. left' \in [WatchEvents -> Nat]
    BY <1>1, <1>8, UseTyped DEF EraseRows
  <2> QED BY <1>8, <2>1, NoRowIsRow DEF EraseRows, NoRows, WatchTypeOK
<1> QED BY <1>2, <1>3, <1>4, <1>5, <1>6, <1>7, <1>8

LEMMA TypesRestart ==
  ASSUME WatchTypeOK, Restart
  PROVE  WatchTypeOK'
<1>1. PICK happened \in BOOLEAN : Cut(happened)
  BY DEF Restart
<1>2. task' \in Holder
  <2>1. rows["restriction"] \in Row
    BY RowKinds DEF WatchTypeOK
  <2> QED BY <2>1, TaskRecord, TaskTyped, RowKinds DEF Restart, Restriction
<1>3. thrown' \in [1..MaxIncident -> 0..2]
  <2>1. Throw(task.row.id) \/ UNCHANGED thrown
    BY <1>1 DEF Cut
  <2> QED BY <2>1, ThrowTyped DEF WatchTypeOK
<1>4. present' \in BOOLEAN /\ barred' \in BOOLEAN /\ role' \in BOOLEAN
  BY <1>1 DEF Cut, WatchTypeOK
<1>5. left' \in [WatchEvents -> Nat]
  BY UseTyped DEF Restart, WatchEvents
<1>6. planned' \in Row /\ picked' \in [Kind -> Row]
  BY NoRowIsRow DEF Restart, NoRows
<1> QED BY <1>2, <1>3, <1>4, <1>5, <1>6 DEF Restart, WatchTypeOK

LEMMA TypesKept ==
  ASSUME WatchTypeOK, Numbered, [WatchNext]_watchVars
  PROVE  WatchTypeOK'
<1>1. CASE WatchNext
  BY <1>1, TypesSurroundings, TypesJoin, TypesTimer, TypesHolder, TypesVerification, TypesEnrolment,
     TypesRestart
  DEF WatchNext, TimerStep, HolderStep
<1>2. CASE UNCHANGED watchVars
  BY <1>2 DEF watchVars, WatchTypeOK
<1> QED BY <1>1, <1>2


-----------------------------------------------------------------------------
(* The invariant: steps that only take from the rows. *)

LEMMA NoRowFields ==
  /\ NoRow.id = 0 /\ NoRow.source = "" /\ NoRow.state = "" /\ NoRow.terminal = ""
  /\ NoRow.started = FALSE /\ NoRow.captcha = FALSE /\ NoRow.ready = FALSE
  /\ NoRow.expired = FALSE
BY DEF NoRow

LEMMA DrawnIds ==
  ASSUME WatchTypeOK, Numbered
  PROVE  /\ Asg = NoRow \/ Asg.id # 0
         /\ Res = NoRow \/ Res.id # 0
         /\ planned = NoRow \/ planned.id # 0
         /\ Busy => task.row.id # 0
         /\ incidents \in Nat /\ incidents <= MaxIncident
<1>1. incidents \in 0..MaxIncident
  BY DEF WatchTypeOK
<1>2. 0 \notin 1..incidents
  OBVIOUS
<1> QED BY <1>1, <1>2, BoundsNat DEF Numbered, Drawn

\* `new' is what a step left of `old': nothing, or the same incident, no less
\* spent than it was, unless its punishment did not happen, and begun only when
\* it is late.
Wane(new, old) ==
  \/ new = NoRow
  \/ /\ old.id # 0 /\ new.id = old.id /\ new.source = old.source
     /\ new.state = "enrolling" <=> old.state = "enrolling"
     /\ old.state = "release_pending" => new.state = "release_pending"
     /\ old.captcha => new.captcha
     /\ Kicks => /\ \/ new.started => old.started /\ (old.expired => new.expired)
                    \/ new.expired /\ new.source # "test"
                 /\ old.started => new.started \/ thrown[old.id] = 0
     /\ old.terminal # "" => new.terminal # ""

LEMMA MarkWanes ==
  ASSUME NEW row \in Row, row.id # 0, NEW o
  PROVE  Wane(Mark(row, o), row) /\ (o # "" => Mark(row, o).terminal # "")
BY DEF Mark, Row, Wane

LEMMA KeptWanes ==
  ASSUME NEW row \in Row, row.id # 0
  PROVE  Wane(Kept(row), row) /\ Kept(row).ready = FALSE /\ Kept(row).id = row.id
BY DEF Kept, Row, Wane

LEMMA PutBackFields ==
  ASSUME NEW row \in Row, NEW k \in Kind
  PROVE  LET new == PutBack(k, row)
         IN /\ new.id = row.id /\ new.source = row.source /\ new.state = row.state
            /\ new.captcha = row.captcha /\ new.started = row.started
            /\ new.terminal = row.terminal
            /\ k = "assignment" => ~new.ready /\ new.expired = row.expired
BY DEF PutBack, Row

LEMMA FinishWanes ==
  ASSUME WatchTypeOK, NEW k \in Kind, NEW row \in Row, row.id # 0, NEW o, Finish(k, row, o)
  PROVE  /\ rows'[k] = NoRow \/ (Wane(rows'[k], row) /\ (o # "" => rows'[k].terminal # ""))
         /\ \A j \in Kind \ {k} : rows'[j] = rows[j]
BY MarkWanes DEF Finish, WatchTypeOK

LEMMA SameWanes ==
  ASSUME NEW row, row = NoRow \/ row.id # 0
  PROVE  Wane(row, row)
BY DEF Wane

LEMMA RetryWanes ==
  ASSUME WatchTypeOK, NEW k \in Kind, NEW row \in Row, row.id # 0, Retry(k, row),
         k = "assignment" \/ ~row.started
  PROVE  /\ rows'[k] = NoRow \/ Wane(rows'[k], row)
         /\ \A j \in Kind \ {k} : rows'[j] = rows[j]
<1>1. CASE row.retries >= MaxRetry
  BY <1>1, FinishWanes DEF Retry
<1>2. CASE ~(row.retries >= MaxRetry)
  <2>1. Wane(PutBack(k, row), row)
    BY PutBackFields, RowKinds DEF Wane
  <2> QED BY <1>2, <2>1 DEF Retry, WatchTypeOK
<1> QED BY <1>1, <1>2

LEMMA RowsTyped ==
  ASSUME WatchTypeOK
  PROVE  /\ Asg \in Row /\ Res \in Row /\ planned \in Row
         /\ picked["assignment"] \in Row /\ picked["restriction"] \in Row
BY RowKinds DEF WatchTypeOK, Asg, Res

\* A step may also open an incident.
Fresh(new) ==
  /\ new.id = incidents + 1 /\ incidents' = incidents + 1
  /\ new.started = FALSE /\ new.terminal = "" /\ new.state = ""

\* Most steps leave of the rows what comes from the rows or from the copy of
\* the lock's holder, and the copy of the next holder comes from there too.
AllAsked == Asg.captcha /\ (Res # NoRow => Res.captcha) /\ (Busy => task.row.captcha)

CarriedRows ==
  /\ \/ Wane(Asg', Asg)
     \/ Asg # NoRow /\ Busy /\ task.at # "enroll" /\ Wane(Asg', task.row)
     \/ (Wane(Asg', Res) \/ Fresh(Asg')) /\ (policy.delay \/ AllAsked')
  /\ \/ Wane(Res', Res)
     \/ Busy /\ task.at # "enroll" /\ Wane(Res', task.row)

CarriedTask ==
  IF Busy'
  THEN /\ task'.row # NoRow
       /\ \/ Busy /\ (task'.at = "enroll" <=> task.at = "enroll") /\ Wane(task'.row, task.row)
          \/ task'.at # "enroll" /\ Wane(task'.row, Res)
          \/ /\ task'.at # "enroll" /\ Wane(task'.row, Asg)
             /\ Asg.terminal = "" /\ Asg.state # "enrolling"
          \/ /\ task'.at # "enroll" /\ Fresh(task'.row)
             /\ Asg' # NoRow => policy.delay \/ task'.row.captcha
  ELSE task' = Resting

CarriedRest ==
  /\ \/ planned' \in {planned, NoRow}
     \/ /\ planned' \in Row /\ Fresh(planned') /\ Asg' = Asg /\ Res' = Res /\ ~Busy'
        /\ planned'.source \in {"wave", "test"} /\ planned'.captcha
  /\ incidents' \in {incidents, incidents + 1} /\ policy' = policy
  /\ role' => present'
  /\ barred /\ ~present => barred' /\ ~present'

\* An incident passes when its restriction waits for the release and no
\* assignment is left.
PassedNow ==
  \/ passed' = passed
  \/ /\ passed' = passed \cup {Res.id}
     /\ Res # NoRow /\ Asg' = NoRow /\ Res'.id = Res.id /\ Res'.state = "release_pending"
     /\ Busy' /\ task'.row.id = Res.id => task'.row.state = "release_pending"
     /\ policy.action # "ban" => thrown[Res.id] = 0

\* The holder's call throws a present member out.
Struck ==
  /\ task.at = "punish" /\ Throw(task.row.id)
  /\ present /\ ~present' /\ (policy.action = "ban" => barred')
  /\ Asg' = Asg /\ Res' = Res /\ planned' \in {planned, NoRow}
  /\ Busy' => task'.row \in {task.row, Res}
  /\ passed' = passed
ThrownNow == thrown' = thrown \/ Struck

Carried == CarriedRows /\ CarriedTask /\ CarriedRest /\ PassedNow /\ ThrownNow

\* Who is thrown out now was not before.
LEMMA StruckFirst ==
  ASSUME WatchTypeOK, JoinInv, Struck
  PROVE  LET i == task.row.id
         IN /\ i \in 1..incidents /\ i \in 1..MaxIncident /\ thrown[i] = 0
            /\ thrown' = [thrown EXCEPT ![i] = 1]
            /\ policy.action \in {"kick", "ban"} /\ task.row.started
            /\ Kicks => /\ Res.id = i /\ Res.started /\ (Asg.id = i => ~Standing(Asg))
                        /\ planned.id # i /\ i \notin passed
<1> DEFINE i == task.row.id
<1>1. /\ task.at = "punish" /\ Busy /\ present
      /\ Throw(i)
  BY DEF Struck, Busy
<1>2. i \in 1..incidents
  BY <1>1 DEF JoinInv, Numbered
<1>3. incidents \in 0..MaxIncident /\ thrown \in [1..MaxIncident -> 0..2]
  BY DEF WatchTypeOK
<1>4. i \in 1..MaxIncident
  BY <1>2, <1>3, BoundsNat
<1>5. /\ policy.action \in {"kick", "ban"} /\ task.row.started
      /\ rows[task.kind].id = i /\ rows[task.kind].started
      /\ IF task.kind = "restriction" THEN task.row.state # "release_pending"
         ELSE ~Kicks /\ ~role
      /\ Kicks => thrown[i] = 0 /\ (Twins => ~Standing(Asg))
  BY <1>1 DEF JoinInv, HolderFits
<1>6. thrown[i] = 0
  <2>1. policy.action = "ban" => ~(thrown[i] > 0)
    BY <1>1, <1>4 DEF JoinInv, BannedIsOut
  <2> QED BY <1>3, <1>4, <1>5, <2>1 DEF Kicks
<1>7. thrown' = [thrown EXCEPT ![i] = 1]
  BY <1>1, <1>4, <1>6 DEF Throw
<1>8. ASSUME Kicks
      PROVE  /\ Res.id = i /\ Res.started /\ (Asg.id = i => ~Standing(Asg))
             /\ planned.id # i /\ i \notin passed
  <2>1. Res.id = i /\ Res.started /\ task.row.state # "release_pending"
    BY <1>5, <1>8 DEF Res
  <2>2. i # 0
    BY <1>4
  <2>3. Res # NoRow
    BY <2>1, NoRowFields
  <2>4. Asg.id = i => ~Standing(Asg)
    BY <1>5, <1>8, <2>1, <2>3 DEF Twins
  <2>5. planned.id # i
    BY <1>1, <2>1, <2>2, NoRowFields DEF JoinInv, PlanApart
  <2>6. i \notin passed
    BY <1>1, <1>4, <2>1 DEF JoinInv, PassedWaits
  <2> QED BY <2>1, <2>4, <2>5, <2>6
<1> QED BY <1>2, <1>4, <1>5, <1>6, <1>7, <1>8

LEMMA CarriedKeeps ==
  ASSUME WatchTypeOK, JoinInv, Carried, HolderFits', SelectedWasDue', TwinsTogether'
  PROVE  JoinInv'
<1>1. /\ NoRow.id = 0 /\ NoRow.source = "" /\ NoRow.state = "" /\ NoRow.terminal = ""
      /\ NoRow.started = FALSE /\ NoRow.captcha = FALSE
  BY NoRowFields
<1>2. /\ Asg = NoRow \/ Asg.id # 0
      /\ Res = NoRow \/ Res.id # 0
      /\ planned = NoRow \/ planned.id # 0
      /\ Busy => task.row.id # 0
  BY DrawnIds DEF JoinInv
<1>3. CarriedRows /\ CarriedTask /\ CarriedRest /\ PassedNow /\ ThrownNow
  BY DEF Carried
<1>4. ~Busy' => task'.row = NoRow
  <2>1. ~Busy' => task' = Resting
    BY <1>3 DEF CarriedTask
  <2>2. Resting.row = NoRow
    BY DEF Resting
  <2> QED BY <2>1, <2>2
<1>5. incidents \in Nat /\ incidents' \in Nat /\ incidents <= incidents'
  BY <1>3, DrawnIds DEF JoinInv, CarriedRest
<1>6. /\ Drawn(Asg) /\ Drawn(Res) /\ Drawn(planned)
      /\ Busy => task.row.id \in 1..incidents
      /\ \A i \in 1..MaxIncident : thrown[i] > 0 => i <= incidents
      /\ passed \subseteq 1..incidents
  BY DEF JoinInv, Numbered
\* The number a new incident gets is nobody's.
<1>7. /\ Asg.id # incidents + 1 /\ Res.id # incidents + 1 /\ planned.id # incidents + 1
      /\ Busy => task.row.id # incidents + 1
      /\ incidents + 1 \notin passed /\ incidents + 1 # 0
      /\ \A i \in 1..MaxIncident : thrown[i] > 0 => i # incidents + 1
  <2>1. incidents + 1 \notin 1..incidents /\ incidents + 1 # 0
    BY <1>5
  <2>2. \A i \in 1..MaxIncident : i <= incidents => i # incidents + 1
    BY <1>5
  <2> QED BY <1>1, <1>6, <2>1, <2>2 DEF Drawn
\* Who was thrown out before, or is now.
<1>8. /\ thrown \in [1..MaxIncident -> 0..2] /\ thrown' \in [1..MaxIncident -> 0..2]
      /\ 0 \notin 1..MaxIncident
  <2>1. 0 \notin 1..MaxIncident
    OBVIOUS
  <2>2. thrown \in [1..MaxIncident -> 0..2]
    BY DEF WatchTypeOK
  <2>3. CASE Struck
    BY <2>2, <2>3, StruckFirst
  <2> QED BY <1>3, <2>1, <2>2, <2>3 DEF ThrownNow
<1>9. ASSUME NEW i \in 1..MaxIncident, thrown'[i] > 0
      PROVE  \/ thrown[i] > 0 /\ thrown'[i] = thrown[i]
             \/ Struck /\ i = task.row.id /\ thrown'[i] = 1
  BY <1>3, <1>8, <1>9, StruckFirst DEF ThrownNow
<1>10. Numbered'
  <2>1. \A i \in 1..incidents : i \in 1..incidents'
    BY <1>5
  <2>0. incidents' = incidents + 1 => incidents + 1 \in 1..incidents'
    BY <1>5
  <2>2. Drawn(Asg)'
    BY <1>1, <1>3, <1>6, <2>0, <2>1 DEF CarriedRows, Wane, Drawn, Fresh
  <2>3. Drawn(Res)'
    BY <1>1, <1>3, <1>6, <2>1 DEF CarriedRows, Wane, Drawn
  <2>4. Drawn(planned)'
    BY <1>3, <1>6, <2>0, <2>1 DEF CarriedRest, Drawn, Fresh
  <2>5. \A i \in 1..MaxIncident : thrown'[i] > 0 => i <= incidents'
    <3> SUFFICES ASSUME NEW i \in 1..MaxIncident, thrown'[i] > 0
                 PROVE  i <= incidents'
      OBVIOUS
    <3>1. CASE thrown[i] > 0
      BY <1>5, <1>6, <3>1
    <3>2. CASE Struck /\ i = task.row.id
      BY <1>5, <3>2, StruckFirst
    <3> QED BY <1>9, <3>1, <3>2
  <2>6. passed' \subseteq 1..incidents'
    BY <1>1, <1>3, <1>6, <2>1 DEF PassedNow, Drawn
  <2>7. Busy' => task'.row.id \in 1..incidents'
    BY <1>1, <1>3, <1>6, <2>0, <2>1 DEF CarriedTask, Wane, Drawn, Fresh
  <2> QED BY <2>2, <2>3, <2>4, <2>5, <2>6, <2>7 DEF Numbered
<1>11. EnrolmentsApart'
  <2>1. /\ FromPlan(Asg) /\ Res.state # "enrolling"
        /\ Busy /\ task.at # "enroll" => task.row.state # "enrolling"
    BY DEF JoinInv, EnrolmentsApart
  <2>2. FromPlan(Asg)'
    BY <1>1, <1>3, <2>1 DEF CarriedRows, Wane, Fresh, FromPlan
  <2>3. Res'.state # "enrolling"
    BY <1>1, <1>3, <2>1 DEF CarriedRows, Wane
  <2>4. Busy' /\ task'.at # "enroll" => task'.row.state # "enrolling"
    BY <1>1, <1>3, <2>1 DEF CarriedTask, Wane, Fresh
  <2> QED BY <2>2, <2>3, <2>4 DEF EnrolmentsApart
<1>12. PlanApart'
  <2> SUFFICES ASSUME planned' # NoRow
               PROVE  /\ planned'.source \in {"wave", "test"} /\ planned'.captcha
                      /\ ~planned'.started
                      /\ Res'.id # planned'.id
                      /\ Asg'.id = planned'.id => Asg'.state = "enrolling"
                      /\ Busy' /\ task'.row.id = planned'.id => task'.at = "enroll"
    BY DEF PlanApart
  <2>1. CASE planned' \in {planned, NoRow}
    <3>1. planned' = planned /\ planned # NoRow
      BY <2>1
    <3>2. /\ planned.source \in {"wave", "test"} /\ planned.captcha /\ ~planned.started
          /\ Res.id # planned.id
          /\ Asg.id = planned.id => Asg.state = "enrolling"
          /\ Busy /\ task.row.id = planned.id => task.at = "enroll"
      BY <3>1 DEF JoinInv, PlanApart
    <3>3. planned.id # 0 /\ planned.id # incidents + 1
      BY <1>2, <1>7, <3>1
    <3>4. Res'.id # planned.id
      BY <1>1, <1>3, <3>2, <3>3 DEF CarriedRows, Wane
    <3>5. Asg'.id = planned.id => Asg'.state = "enrolling"
      BY <1>1, <1>3, <3>2, <3>3 DEF CarriedRows, Wane, Fresh
    <3>6. Busy' /\ task'.row.id = planned.id => task'.at = "enroll"
      BY <1>1, <1>3, <3>2, <3>3 DEF CarriedTask, Wane, Fresh, JoinInv, EnrolmentsApart
    <3> QED BY <3>1, <3>2, <3>4, <3>5, <3>6
  <2>2. CASE planned' \notin {planned, NoRow}
    BY <1>3, <1>7, <2>2 DEF CarriedRest, Fresh
  <2> QED BY <2>1, <2>2
<1>13. AssignedHaveCaptcha'
  <2> SUFFICES ASSUME ~policy.delay, Asg' # NoRow
               PROVE  /\ Asg'.captcha /\ (Res' # NoRow => Res'.captcha)
                      /\ Busy' => task'.row.captcha
    BY <1>3 DEF AssignedHaveCaptcha, CarriedRest
  <2>1. CASE Asg # NoRow
    <3>1. /\ Asg.captcha /\ (Res # NoRow => Res.captcha)
          /\ Busy => task.row.captcha
      BY <2>1 DEF JoinInv, AssignedHaveCaptcha
    <3>2. Asg'.captcha
      BY <1>1, <1>3, <3>1 DEF CarriedRows, Wane, AllAsked
    <3>3. Res' # NoRow => Res'.captcha
      BY <1>1, <1>3, <3>1 DEF CarriedRows, Wane
    <3>4. Busy' => task'.row.captcha
      BY <1>1, <1>3, <3>1 DEF CarriedTask, Wane
    <3> QED BY <3>2, <3>3, <3>4
  <2>2. CASE Asg = NoRow
    <3>1. AllAsked'
      BY <1>1, <1>3, <2>2 DEF CarriedRows, Wane
    <3> QED BY <3>1 DEF AllAsked
  <2> QED BY <2>1, <2>2
<1>14. KickedIsSpent'
  <2> SUFFICES ASSUME Kicks, NEW i \in 1..MaxIncident, thrown'[i] > 0
               PROVE  /\ Res'.id = i => Res'.started
                      /\ Asg'.id = i => ~Standing(Asg')
                      /\ Busy' /\ task'.row.id = i => task'.row.started
                      /\ planned'.id # i
    BY <1>3 DEF CarriedRest, KickedIsSpent, Kicks
  <2>1. CASE thrown[i] > 0
    <3>1. /\ Res.id = i => Res.started
          /\ Asg.id = i => ~Standing(Asg)
          /\ Busy /\ task.row.id = i => task.row.started
          /\ planned.id # i /\ i # 0 /\ thrown[i] # 0 /\ i # incidents + 1
      BY <1>7, <2>1 DEF JoinInv, KickedIsSpent
    <3>2. Res'.id = i => Res'.started
      BY <1>1, <1>3, <3>1 DEF CarriedRows, Wane
    <3>3. Asg'.id = i => ~Standing(Asg')
      BY <1>1, <1>2, <1>3, <3>1 DEF CarriedRows, Wane, Standing, Fresh
    <3>4. planned'.id # i
      BY <1>1, <1>3, <3>1 DEF CarriedRest, Fresh
    <3>5. Busy' /\ task'.row.id = i => task'.row.started
      BY <1>1, <1>3, <3>1 DEF CarriedTask, Wane, Standing, Fresh
    <3> QED BY <3>2, <3>3, <3>4, <3>5
  <2>2. CASE Struck /\ i = task.row.id
    <3>1. /\ Res.started /\ Res.id = i /\ (Asg.id = i => ~Standing(Asg))
          /\ task.row.started /\ planned.id # i /\ i # 0
      BY <1>8, <2>2, StruckFirst
    <3>2. /\ Asg' = Asg /\ Res' = Res /\ planned' \in {planned, NoRow}
          /\ Busy' => task'.row \in {task.row, Res}
      BY <2>2 DEF Struck
    <3> QED BY <1>1, <3>1, <3>2
  <2> QED BY <1>9, <2>1, <2>2
<1>15. KicksAreLate'
  <2> SUFFICES ASSUME Kicks
               PROVE  StartedLate(Asg') /\ StartedLate(Res') /\ StartedLate(task'.row)
    BY <1>3 DEF CarriedRest, KicksAreLate, Kicks
  <2>1. StartedLate(Asg) /\ StartedLate(Res) /\ StartedLate(task.row)
    BY DEF JoinInv, KicksAreLate
  <2>2. StartedLate(Asg')
    BY <1>1, <1>3, <2>1 DEF CarriedRows, Wane, Fresh, StartedLate
  <2>3. StartedLate(Res')
    BY <1>1, <1>3, <2>1 DEF CarriedRows, Wane, StartedLate
  <2>4. StartedLate(task'.row)
    BY <1>1, <1>3, <1>4, <2>1 DEF CarriedTask, Wane, Fresh, StartedLate
  <2> QED BY <2>2, <2>3, <2>4
<1>16. BannedIsOut'
  <2> SUFFICES ASSUME policy.action = "ban", NEW i \in 1..MaxIncident, thrown'[i] > 0
               PROVE  barred' /\ ~present'
    BY <1>3 DEF CarriedRest, BannedIsOut
  <2>1. thrown[i] > 0 => barred /\ ~present
    BY DEF JoinInv, BannedIsOut
  <2>2. barred /\ ~present => barred' /\ ~present'
    BY <1>3 DEF CarriedRest
  <2>3. Struck => barred' /\ ~present'
    BY DEF Struck
  <2> QED BY <1>9, <2>1, <2>2, <2>3
<1>17. PassedWaits'
  <2> SUFFICES ASSUME NEW i \in passed'
               PROVE  /\ Res'.id = i => Res'.state = "release_pending"
                      /\ Asg'.id = i => Asg'.state = "release_pending"
                      /\ Busy' /\ task'.row.id = i => task'.row.state = "release_pending"
                      /\ planned'.id # i
                      /\ policy.action # "ban" => thrown'[i] = 0
    BY <1>3 DEF CarriedRest, PassedWaits
  <2>1. i \in 1..MaxIncident /\ i # 0
    <3>1. passed \subseteq 1..MaxIncident /\ Res.id \in 0..MaxIncident
      BY RowsTyped DEF WatchTypeOK, Row
    <3>2. i \in passed \/ (i = Res.id /\ Res.id # 0)
      BY <1>2, <1>3 DEF PassedNow
    <3>3. \A j \in 0..MaxIncident : j # 0 => j \in 1..MaxIncident
      BY BoundsNat
    <3> QED BY <1>8, <3>1, <3>2, <3>3
  <2>2. CASE i \in passed
    <3>1. /\ Res.id = i => Res.state = "release_pending"
          /\ Asg.id = i => Asg.state = "release_pending"
          /\ Busy /\ task.row.id = i => task.row.state = "release_pending"
          /\ planned.id # i /\ i # incidents + 1
          /\ policy.action # "ban" => thrown[i] = 0
      BY <1>7, <2>2 DEF JoinInv, PassedWaits
    <3>2. Res'.id = i => Res'.state = "release_pending"
      BY <1>1, <1>3, <2>1, <3>1 DEF CarriedRows, Wane
    <3>3. Asg'.id = i => Asg'.state = "release_pending"
      BY <1>1, <1>3, <2>1, <3>1 DEF CarriedRows, Wane, Fresh
    <3>4. Busy' /\ task'.row.id = i => task'.row.state = "release_pending"
      BY <1>1, <1>3, <2>1, <3>1 DEF CarriedTask, Wane, Fresh
    <3>5. planned'.id # i
      BY <1>1, <1>3, <2>1, <3>1 DEF CarriedRest, Fresh
    <3>6. policy.action # "ban" => thrown'[i] = 0
      <4> SUFFICES ASSUME policy.action # "ban", thrown'[i] > 0
                   PROVE  FALSE
        BY <1>8, <2>1
      <4>1. CASE thrown[i] > 0
        BY <3>1, <4>1
      <4>2. CASE Struck /\ i = task.row.id
        BY <2>2, <4>2, StruckFirst DEF Kicks
      <4> QED BY <1>9, <2>1, <4>1, <4>2
    <3> QED BY <3>2, <3>3, <3>4, <3>5, <3>6
  <2>3. CASE i \notin passed
    <3>1. /\ i = Res.id /\ passed' # passed
          /\ Res # NoRow /\ Asg' = NoRow /\ Res'.id = Res.id /\ Res'.state = "release_pending"
          /\ Busy' /\ task'.row.id = Res.id => task'.row.state = "release_pending"
          /\ policy.action # "ban" => thrown[Res.id] = 0
      BY <1>3, <2>3 DEF PassedNow
    <3>2. thrown' = thrown
      BY <1>3, <3>1 DEF ThrownNow, Struck
    <3>3. planned'.id # i
      <4>1. planned.id # i
        BY <1>1, <2>1, <3>1 DEF JoinInv, PlanApart
      <4> QED BY <1>1, <1>3, <1>7, <2>1, <3>1, <4>1 DEF CarriedRest, Fresh
    <3> QED BY <1>1, <2>1, <3>1, <3>2, <3>3
  <2> QED BY <2>2, <2>3
<1>18. RoleIsHeld'
  BY <1>3 DEF CarriedRest, RoleIsHeld
<1>19. NeverUnasked'
  <2> SUFFICES ASSUME policy.action = "none", NEW i \in 1..MaxIncident, thrown'[i] > 0
               PROVE  FALSE
    BY <1>3, <1>8 DEF CarriedRest, NeverUnasked
  <2>1. ~(thrown[i] > 0)
    BY DEF JoinInv, NeverUnasked
  <2>2. ~Struck
    BY StruckFirst
  <2> QED BY <1>9, <2>1, <2>2
<1>20. ThrownOutOnce'
  <2> SUFFICES ASSUME NEW i \in 1..MaxIncident, thrown'[i] > 0
               PROVE  thrown'[i] <= 1
    BY <1>8 DEF ThrownOutOnce
  <2>1. thrown[i] <= 1
    BY DEF JoinInv, ThrownOutOnce
  <2> QED BY <1>9, <2>1
<1> QED BY <1>10, <1>11, <1>12, <1>13, <1>14, <1>15, <1>16, <1>17, <1>18, <1>19, <1>20 DEF JoinInv

\* A step that ends a piece of work leaves the lock free.
Lessened == Carried /\ task' = Resting

LEMMA LessenedKeeps ==
  ASSUME WatchTypeOK, JoinInv, Lessened, SelectedWasDue', TwinsTogether'
  PROVE  JoinInv'
<1>1. HolderFits'
  BY DEF Lessened, HolderFits, Resting
<1> QED BY <1>1, CarriedKeeps DEF Lessened

\* The twins stay together when the assignment and its selection stay.
LEMMA TwinsStill ==
  ASSUME JoinInv,
         \/ ~role' \/ ~Standing(Asg')
         \/ /\ role /\ Asg' = Asg /\ Wane(Res', Res)
            /\ task.at \notin {"keep", "clear"}
            /\ picked' = picked \/ picked'["restriction"] = NoRow
  PROVE  TwinsTogether'
<1> SUFFICES ASSUME role', Standing(Asg'), Twins'
             PROVE  /\ Asg'.ready
                    /\ picked'["restriction"] # NoRow /\ picked'["restriction"].id = Res'.id
                       => picked'["assignment"] = Asg'
  BY DEF TwinsTogether
<1>1. /\ role /\ Asg' = Asg /\ Wane(Res', Res)
      /\ task.at \notin {"keep", "clear"}
      /\ picked' = picked \/ picked'["restriction"] = NoRow
  OBVIOUS
<1>2. Res' # NoRow /\ Asg'.id = Res'.id
  BY DEF Twins
<1>3. Res'.id = Res.id /\ Res # NoRow
  BY <1>1, <1>2, NoRowFields DEF Wane
<1>4. role /\ Standing(Asg) /\ Twins
  BY <1>1, <1>2, <1>3 DEF Twins
<1>5. /\ Asg.ready
      /\ picked["restriction"] # NoRow /\ picked["restriction"].id = Res.id
         => picked["assignment"] = Asg
  BY <1>1, <1>4 DEF JoinInv, TwinsTogether
<1> QED BY <1>1, <1>3, <1>5

LEMMA SelectionStays ==
  ASSUME JoinInv,
         picked'["assignment"] \in {picked["assignment"], NoRow},
         picked'["restriction"] \in {picked["restriction"], NoRow}
  PROVE  SelectedWasDue'
BY DEF JoinInv, SelectedWasDue

LEMMA RestingFacts ==
  ASSUME Unlocked
  PROVE  task.at = "" /\ ~Busy /\ task.at \notin {"keep", "clear"}
BY DEF Unlocked, Resting, Busy

\* The timer's clearing up, and what it or a moderator gives up.
LEMMA SettleKeeps ==
  ASSUME WatchTypeOK, JoinInv, SettleHistory
  PROVE  JoinInv'
<1>1. PICK k \in Kind : /\ rows[k] # NoRow
                        /\ Finish(k, rows[k], "action_uncertain")
  BY DEF SettleHistory, Unsettled
<1>2. /\ Unlocked /\ task' = task /\ picked' = picked
      /\ UNCHANGED <<policy, incidents, thrown, passed, planned, role, present, barred>>
  BY DEF SettleHistory, Around
<1>3. /\ Asg = NoRow \/ Asg.id # 0
      /\ Res = NoRow \/ Res.id # 0
  BY DrawnIds DEF JoinInv
<1>4. rows[k].id # 0
  BY <1>1, <1>3, RowKinds DEF Asg, Res
<1>5. /\ rows'[k] = NoRow \/ (Wane(rows'[k], rows[k]) /\ rows'[k].terminal # "")
      /\ \A j \in Kind \ {k} : rows'[j] = rows[j]
  <2>1. rows[k] \in Row
    BY DEF WatchTypeOK
  <2> DEFINE row == rows[k]
             o == "action_uncertain"
  <2>2. row \in Row /\ row.id # 0 /\ Finish(k, row, o) /\ o # ""
    BY <1>1, <1>4, <2>1
  <2> HIDE DEF row, o
  <2>3. /\ rows'[k] = NoRow \/ (Wane(rows'[k], row) /\ (o # "" => rows'[k].terminal # ""))
        /\ \A j \in Kind \ {k} : rows'[j] = rows[j]
    BY <2>2, FinishWanes
  <2> QED BY <2>2, <2>3 DEF row
<1>6. /\ k = "assignment" => /\ Asg' = NoRow \/ (Wane(Asg', Asg) /\ Asg'.terminal # "")
                             /\ Res' = Res
      /\ k = "restriction" => /\ Asg' = Asg
                              /\ Res' = NoRow \/ Wane(Res', Res)
      /\ k \in {"assignment", "restriction"}
  BY <1>5, RowKinds DEF Asg, Res
<1>7. Lessened
  BY <1>2, <1>3, <1>6, SameWanes
     DEF Lessened, Carried, CarriedRows, CarriedTask, CarriedRest, PassedNow, ThrownNow, Unlocked,
        Resting, Busy, JoinInv, RoleIsHeld, Wane
<1>8. TwinsTogether'
  <2>1. ~Standing(Asg') \/ (Asg' = Asg /\ Wane(Res', Res))
    BY <1>3, <1>6, SameWanes DEF Standing, Wane
  <2> QED BY <1>2, <2>1, RestingFacts, TwinsStill
<1>9. SelectedWasDue'
  BY <1>2, SelectionStays
<1> QED BY <1>7, <1>8, <1>9, LessenedKeeps

LEMMA DropAssignmentWanes ==
  ASSUME WatchTypeOK, JoinInv, NEW o, o # "", DropAssignment(o)
  PROVE  /\ Wane(Asg', Asg) /\ ~Standing(Asg') /\ Res' = Res
<1>1. Asg = NoRow \/ Asg.id # 0
  BY DrawnIds DEF JoinInv
<1>2. CASE Asg = NoRow \/ SameIncident
  BY <1>2, RowKinds DEF DropAssignment, Asg, Res, Wane, Standing, WatchTypeOK
<1>3. CASE ~(Asg = NoRow \/ SameIncident)
  <2>1. Finish("assignment", Asg, o)
    BY <1>3 DEF DropAssignment, Asg
  <2>2. /\ Asg' = NoRow \/ (Wane(Asg', Asg) /\ Asg'.terminal # "")
        /\ Res' = Res
    BY <1>1, <1>3, <2>1, FinishWanes, RowsTyped, RowKinds DEF Asg, Res
  <2> QED BY <2>2 DEF Wane, Standing
<1> QED BY <1>2, <1>3

LEMMA DropRestrictionWanes ==
  ASSUME WatchTypeOK, JoinInv, NEW o, DropRestriction(o)
  PROVE  Wane(Res', Res) /\ Asg' = Asg
<1>1. Res = NoRow \/ Res.id # 0
  BY DrawnIds DEF JoinInv
<1>2. CASE Res = NoRow
  BY <1>2 DEF DropRestriction, Asg, Res, Wane
<1>3. CASE Res # NoRow
  <2>1. Finish("restriction", Res, o)
    BY <1>3 DEF DropRestriction, Res
  <2>2. /\ Res' = NoRow \/ Wane(Res', Res)
        /\ Asg' = Asg
    BY <1>1, <1>3, <2>1, FinishWanes, RowsTyped, RowKinds DEF Asg, Res
  <2> QED BY <2>2 DEF Wane
<1> QED BY <1>2, <1>3

LEMMA NoticeKeeps ==
  ASSUME WatchTypeOK, JoinInv, NoticeRemoval
  PROVE  JoinInv'
<1>1. /\ Unlocked /\ task' = task /\ picked' = picked
      /\ UNCHANGED <<policy, incidents, thrown, passed, planned, role, present, barred>>
      /\ DropRestriction("manual")
  BY DEF NoticeRemoval, Around
<1>2. Wane(Res', Res) /\ Asg' = Asg
  BY <1>1, DropRestrictionWanes
<1>3. Lessened
  BY <1>1, <1>2, DrawnIds, SameWanes
     DEF Lessened, Carried, CarriedRows, CarriedTask, CarriedRest, PassedNow, ThrownNow, Unlocked,
        Resting, Busy, JoinInv, RoleIsHeld
<1>4. TwinsTogether'
  BY <1>1, <1>2, RestingFacts, TwinsStill
<1>5. SelectedWasDue'
  BY <1>1, SelectionStays
<1> QED BY <1>3, <1>4, <1>5, LessenedKeeps

\* Steps that find the lock free, change the restriction in ways nobody minds
\* and leave the rest.
LEMMA RestrictionTouched ==
  ASSUME WatchTypeOK, JoinInv, Unlocked, task' = task, Wane(Res', Res), Asg' = Asg,
         UNCHANGED <<policy, incidents, thrown, passed, planned, role, present, barred, picked>>
  PROVE  JoinInv'
<1>1. Lessened
  BY DrawnIds, SameWanes
     DEF Lessened, Carried, CarriedRows, CarriedTask, CarriedRest, PassedNow, ThrownNow, Unlocked,
        Resting, Busy, JoinInv, RoleIsHeld
<1>2. TwinsTogether'
  BY RestingFacts, TwinsStill
<1>3. SelectedWasDue'
  BY SelectionStays
<1> QED BY <1>1, <1>2, <1>3, LessenedKeeps

LEMMA WaneByFields ==
  ASSUME NEW row \in Row, row.id # 0,
         NEW s, NEW f, NEW a, NEW t
  PROVE  /\ Wane([row EXCEPT !.session = s, !.fresh = f], row)
         /\ Wane([row EXCEPT !.failures = a, !.stage = t, !.session = s, !.fresh = f], row)
         /\ Wane([row EXCEPT !.stage = t], row)
         /\ Wane([row EXCEPT !.manual = f], row)
         /\ Wane([row EXCEPT !.captcha = TRUE], row)
BY DEF Wane, Row

LEMMA SessionStartKeeps ==
  ASSUME WatchTypeOK, JoinInv, StartSession
  PROVE  JoinInv'
<1>1. Res \in Row /\ Res.id # 0
  BY RowsTyped, DrawnIds DEF StartSession, Restriction, Res, JoinInv
<1>2. Res' = [Res EXCEPT !.session = sessions + 1, !.fresh = TRUE] /\ Asg' = Asg
  BY RowKinds DEF StartSession, Res, Asg, WatchTypeOK
<1>3. Wane(Res', Res)
  BY <1>1, <1>2, WaneByFields
<1> QED BY <1>2, <1>3, RestrictionTouched DEF StartSession

LEMMA WrongAnswerKeeps ==
  ASSUME WatchTypeOK, JoinInv, NEW s \in 1..MaxSession, NEW n \in {0, 1}, AnswerWrong(s, n)
  PROVE  JoinInv'
<1>1. Res \in Row /\ Res.id # 0
  BY RowsTyped, DrawnIds DEF AnswerWrong, Accepted, Restriction, Res, JoinInv
<1>2. /\ Res' = [Res EXCEPT !.failures = Res.failures + 1, !.stage = 0, !.session = 0, !.fresh = FALSE]
      /\ Asg' = Asg
  BY RowKinds DEF AnswerWrong, Res, Asg, WatchTypeOK
<1>3. Wane(Res', Res)
  BY <1>1, <1>2, WaneByFields
<1> QED BY <1>2, <1>3, RestrictionTouched DEF AnswerWrong

LEMMA MarkManualKeeps ==
  ASSUME WatchTypeOK, JoinInv, MarkManual
  PROVE  JoinInv'
<1>1. Res \in Row /\ Res.id # 0
  BY RowsTyped, DrawnIds DEF MarkManual, Restriction, Res, JoinInv
<1>2. Res' = [Res EXCEPT !.manual = TRUE] /\ Asg' = Asg
  BY RowKinds DEF MarkManual, Res, Asg, WatchTypeOK
<1>3. Wane(Res', Res)
  BY <1>1, <1>2, WaneByFields
<1> QED BY <1>2, <1>3, RestrictionTouched DEF MarkManual

LEMMA EnableKeeps ==
  ASSUME WatchTypeOK, JoinInv, EnableExisting
  PROVE  JoinInv'
<1>1. Res \in Row /\ Res.id # 0
  BY RowsTyped, DrawnIds DEF EnableExisting, Restriction, Res, JoinInv
<1>2. Res' = [Res EXCEPT !.captcha = TRUE] /\ Asg' = Asg
  BY RowKinds DEF EnableExisting, Res, Asg, WatchTypeOK
<1>3. Wane(Res', Res)
  BY <1>1, <1>2, WaneByFields
<1> QED BY <1>2, <1>3, RestrictionTouched DEF EnableExisting

\* Rows that are forgotten at once.
LEMMA ForgottenKeeps ==
  ASSUME WatchTypeOK, JoinInv, Unlocked, task' = task,
         Asg' = NoRow, Res' \in {Res, NoRow}, planned' \in {planned, NoRow},
         UNCHANGED <<policy, incidents, thrown, passed, role, present, barred>>,
         picked'["assignment"] \in {picked["assignment"], NoRow},
         picked'["restriction"] \in {picked["restriction"], NoRow}
  PROVE  JoinInv'
<1>1. Lessened
  BY DrawnIds, SameWanes
     DEF Lessened, Carried, CarriedRows, CarriedTask, CarriedRest, PassedNow, ThrownNow, Unlocked,
        Resting, Busy, JoinInv, RoleIsHeld, Wane
<1>2. TwinsTogether'
  BY TwinsStill DEF Standing
<1>3. SelectedWasDue'
  BY SelectionStays
<1> QED BY <1>1, <1>2, <1>3, LessenedKeeps

LEMMA ForgettingKeeps ==
  ASSUME WatchTypeOK, JoinInv, GiveUpGroup \/ ReleaseAbsent \/ EraseRows
  PROVE  JoinInv'
<1>1. CASE GiveUpGroup
  <2>1. Asg' = NoRow /\ Res' = Res
    BY <1>1, RowKinds DEF GiveUpGroup, Asg, Res, WatchTypeOK
  <2>2. picked'["assignment"] = NoRow /\ picked'["restriction"] = picked["restriction"]
    BY <1>1, RowKinds DEF GiveUpGroup, WatchTypeOK
  <2> QED BY <1>1, <2>1, <2>2, ForgottenKeeps DEF GiveUpGroup
<1>2. CASE ReleaseAbsent
  <2>1. Asg' = NoRow /\ Res' = NoRow
    BY <1>2, RowKinds DEF ReleaseAbsent, Asg, Res
  <2> QED BY <1>2, <2>1, ForgottenKeeps DEF ReleaseAbsent
<1>3. CASE EraseRows
  <2>1. Asg' = NoRow /\ Res' = NoRow
    BY <1>3, RowKinds DEF EraseRows, NoRows, Asg, Res
  <2> QED BY <1>3, <2>1, ForgottenKeeps DEF EraseRows
<1> QED BY <1>1, <1>2, <1>3

LEMMA CancelPlanKeeps ==
  ASSUME WatchTypeOK, JoinInv, CancelPlan
  PROVE  JoinInv'
<1>1. CASE rows["assignment"].source = "wave"
  <2>1. Asg' = NoRow /\ Res' = Res
    BY <1>1, RowKinds DEF CancelPlan, Asg, Res, WatchTypeOK
  <2> QED BY <2>1, ForgottenKeeps DEF CancelPlan
<1>2. CASE rows["assignment"].source # "wave"
  <2>1. Asg' = Asg /\ Res' = Res
    BY <1>2 DEF CancelPlan, Asg, Res
  <2>2. /\ Unlocked /\ task' = task /\ picked' = picked /\ planned' = NoRow
        /\ UNCHANGED <<policy, incidents, thrown, passed, role, present, barred>>
    BY DEF CancelPlan
  <2>3. Lessened
    BY <2>1, <2>2, DrawnIds, SameWanes
       DEF Lessened, Carried, CarriedRows, CarriedTask, CarriedRest, PassedNow, ThrownNow,
          Unlocked, Resting, Busy, JoinInv, RoleIsHeld
  <2>4. TwinsTogether'
    BY <2>1, <2>2, DrawnIds, SameWanes, RestingFacts, TwinsStill DEF JoinInv
  <2>5. SelectedWasDue'
    BY <2>2, SelectionStays
  <2> QED BY <2>3, <2>4, <2>5, LessenedKeeps
<1> QED BY <1>1, <1>2

LEMMA JoinGroupKeeps ==
  ASSUME WatchTypeOK, JoinInv, JoinGroup
  PROVE  JoinInv'
<1>1. PICK k \in Kind : /\ rows[k] # NoRow
                        /\ k = "assignment" => rows["restriction"] = NoRow
                        /\ rows' = [rows EXCEPT ![k].captcha = TRUE]
  BY DEF JoinGroup
<1>2. /\ Unlocked /\ task' = task /\ picked' = picked
      /\ UNCHANGED <<policy, incidents, thrown, passed, planned, role, present, barred>>
  BY DEF JoinGroup
<1>3. CASE k = "restriction"
  <2>1. Res' = [Res EXCEPT !.captcha = TRUE] /\ Asg' = Asg
    BY <1>1, <1>3, RowKinds DEF Res, Asg, WatchTypeOK
  <2>2. Res \in Row /\ Res.id # 0
    BY <1>1, <1>3, RowsTyped, DrawnIds DEF Res, JoinInv
  <2>3. Wane(Res', Res)
    BY <2>1, <2>2, WaneByFields
  <2> QED BY <1>2, <2>1, <2>3, RestrictionTouched
<1>4. CASE k = "assignment"
  <2>1. Asg' = [Asg EXCEPT !.captcha = TRUE] /\ Res' = NoRow /\ Res = NoRow
    BY <1>1, <1>4, RowKinds DEF Res, Asg, WatchTypeOK
  <2>2. Asg \in Row /\ Asg.id # 0
    BY <1>1, <1>4, RowsTyped, DrawnIds DEF Asg, JoinInv
  <2>3. Wane(Asg', Asg)
    BY <2>1, <2>2, WaneByFields
  <2>4. Lessened
    BY <1>2, <2>1, <2>3
       DEF Lessened, Carried, CarriedRows, CarriedTask, CarriedRest, PassedNow, ThrownNow,
          Unlocked, Resting, Busy, JoinInv, RoleIsHeld, Wane
  <2>5. TwinsTogether'
    BY <2>1 DEF TwinsTogether, Twins
  <2>6. SelectedWasDue'
    BY <1>2, SelectionStays
  <2> QED BY <2>4, <2>5, <2>6, LessenedKeeps
<1> QED BY <1>3, <1>4, RowKinds


LEMMA TwinsStay ==
  ASSUME JoinInv,
         \/ ~role' \/ ~Standing(Asg')
         \/ /\ role /\ Asg' = Asg /\ (Res' = NoRow \/ (Res # NoRow /\ Res'.id = Res.id))
            /\ task.at \notin {"keep", "clear"}
            /\ picked' = picked \/ picked'["restriction"] = NoRow
  PROVE  TwinsTogether'
<1> SUFFICES ASSUME role', Standing(Asg'), Twins'
             PROVE  /\ Asg'.ready
                    /\ picked'["restriction"] # NoRow /\ picked'["restriction"].id = Res'.id
                       => picked'["assignment"] = Asg'
  BY DEF TwinsTogether
<1>1. /\ role /\ Asg' = Asg /\ (Res' = NoRow \/ (Res # NoRow /\ Res'.id = Res.id))
      /\ task.at \notin {"keep", "clear"}
      /\ picked' = picked \/ picked'["restriction"] = NoRow
  OBVIOUS
<1>2. Res' # NoRow /\ Asg'.id = Res'.id
  BY DEF Twins
<1>4. role /\ Standing(Asg) /\ Twins
  BY <1>1, <1>2 DEF Twins
<1>5. /\ Asg.ready
      /\ picked["restriction"] # NoRow /\ picked["restriction"].id = Res.id
         => picked["assignment"] = Asg
  BY <1>1, <1>4 DEF JoinInv, TwinsTogether
<1> QED BY <1>1, <1>2, <1>5

\* Parts of what most steps leave alone.
LEMMA RestByFrame ==
  ASSUME JoinInv, UNCHANGED <<policy, incidents, thrown, passed>>, planned' \in {planned, NoRow},
         role' => present', barred /\ ~present => barred' /\ ~present'
  PROVE  CarriedRest /\ PassedNow /\ ThrownNow
BY DEF CarriedRest, PassedNow, ThrownNow

LEMMA StoredIds ==
  ASSUME WatchTypeOK, JoinInv
  PROVE  /\ Asg = NoRow \/ Asg.id # 0
         /\ Res = NoRow \/ Res.id # 0
         /\ Busy => task.row.id # 0 /\ task.row # NoRow /\ task.row \in Row
         /\ Wane(Asg, Asg) /\ Wane(Res, Res) /\ (Busy => Wane(task.row, task.row))
<1>1. /\ Asg = NoRow \/ Asg.id # 0
      /\ Res = NoRow \/ Res.id # 0
      /\ Busy => task.row.id # 0
  BY DrawnIds DEF JoinInv
<1>2. task.row \in Row
  BY DEF WatchTypeOK, Holder
<1> QED BY <1>1, <1>2, NoRowFields, SameWanes

\* The role is on: the way to its row.
LEMMA AddDirectlyKeeps ==
  ASSUME WatchTypeOK, JoinInv, AddDirectly
  PROVE  JoinInv'
<1>1. /\ task.at = "direct" /\ Busy /\ task.kind = "restriction" /\ Asg = NoRow
      /\ rows' = rows /\ Asg' = Asg /\ Res' = Res /\ picked' = picked /\ present' = present
      /\ UNCHANGED <<policy, incidents, thrown, passed, planned, barred>>
  BY DEF AddDirectly, Around, JoinInv, HolderFits, Busy, Asg, Res
<1>2. SelectedWasDue'
  BY <1>1, SelectionStays
<1>3. TwinsTogether'
  BY <1>1, TwinsStay DEF Standing
<1>4. CarriedRows
  BY <1>1, StoredIds DEF CarriedRows
<1>5. CASE present /\ role' = TRUE /\ task' = [task EXCEPT !.at = "keep"]
  <2>1. task'.at = "keep" /\ task'.row = task.row /\ task'.kind = task.kind
    BY <1>5, HolderFields DEF WatchTypeOK
  <2>2. HolderFits'
    BY <1>1, <2>1 DEF HolderFits
  <2>3. CarriedTask
    BY <1>1, <2>1, StoredIds DEF CarriedTask, Busy
  <2>4. CarriedRest /\ PassedNow /\ ThrownNow
    BY <1>1, <1>5, RestByFrame
  <2> QED BY <1>2, <1>3, <1>4, <2>2, <2>3, <2>4, CarriedKeeps DEF Carried
<1>6. CASE UNCHANGED role /\ Release
  <2>1. CarriedTask
    BY <1>6 DEF CarriedTask, Release, Resting, Busy
  <2>2. CarriedRest /\ PassedNow /\ ThrownNow
    BY <1>1, <1>6, RestByFrame DEF JoinInv, RoleIsHeld
  <2> QED BY <1>2, <1>3, <1>4, <1>6, <2>1, <2>2, LessenedKeeps DEF Lessened, Carried, Release
<1> QED BY <1>5, <1>6 DEF AddDirectly

LEMMA StepFields ==
  ASSUME WatchTypeOK, NEW at, task' = [task EXCEPT !.at = at]
  PROVE  task'.at = at /\ task'.row = task.row /\ task'.kind = task.kind
BY HolderFields DEF WatchTypeOK, Holder

\* A holder that lets go.
LEMMA LetGo ==
  ASSUME Release
  PROVE  task' = Resting /\ CarriedTask
BY DEF Release, CarriedTask, Resting, Busy

LEMMA AddRoleKeeps ==
  ASSUME WatchTypeOK, JoinInv, AddRole
  PROVE  JoinInv'
<1>1. /\ task.at = "add" /\ Busy /\ picked' = picked /\ present' = present
      /\ task.kind = "assignment" /\ Asg # NoRow /\ Asg.id = task.row.id /\ Asg.ready /\ ~role
      /\ UNCHANGED <<policy, incidents, thrown, passed, planned, barred>>
  BY DEF AddRole, Around, JoinInv, HolderFits, Busy
<1>2. SelectedWasDue'
  BY <1>1, SelectionStays
<1>3. CASE present /\ role' = TRUE /\ task' = [task EXCEPT !.at = "keep"] /\ UNCHANGED rows
  <2>1. task'.at = "keep" /\ task'.row = task.row /\ task'.kind = task.kind
    BY <1>3, StepFields
  <2>2. Asg' = Asg /\ Res' = Res
    BY <1>3 DEF Asg, Res
  <2>3. HolderFits'
    BY <1>1, <2>1, <2>2 DEF HolderFits
  <2>4. TwinsTogether'
    BY <1>1, <2>1, <2>2 DEF TwinsTogether
  <2>5. CarriedTask
    BY <1>1, <2>1, StoredIds DEF CarriedTask, Busy
  <2>6. CarriedRows
    BY <2>2, StoredIds DEF CarriedRows
  <2>7. CarriedRest /\ PassedNow /\ ThrownNow
    BY <1>1, <1>3, RestByFrame
  <2> QED BY <1>2, <2>3, <2>4, <2>5, <2>6, <2>7, CarriedKeeps DEF Carried
<1>4. CASE Retry("assignment", task.row) /\ UNCHANGED role /\ Release
  <2>1. (Asg' = NoRow \/ Wane(Asg', task.row)) /\ Res' = Res
    BY <1>1, <1>4, StoredIds, RetryWanes, RowKinds DEF Asg, Res
  <2>2. CarriedRows
    BY <1>1, <2>1, StoredIds DEF CarriedRows, Wane
  <2>3. CarriedRest /\ PassedNow /\ ThrownNow
    BY <1>1, <1>4, RestByFrame DEF JoinInv, RoleIsHeld
  <2>4. TwinsTogether'
    BY <1>1, <1>4, TwinsStay
  <2> QED BY <1>2, <1>4, <2>2, <2>3, <2>4, LetGo, LessenedKeeps DEF Lessened, Carried
<1> QED BY <1>3, <1>4 DEF AddRole

LEMMA KeepRoleKeeps ==
  ASSUME WatchTypeOK, JoinInv, KeepRole
  PROVE  JoinInv'
<1>1. /\ task.at = "keep" /\ Busy /\ picked' = picked /\ present' = present /\ role' = role
      /\ UNCHANGED <<policy, incidents, thrown, passed, planned, barred>>
      /\ rows' = [rows EXCEPT !["restriction"] = Kept(task.row)]
      /\ task' = IF task.kind = "assignment" THEN [task EXCEPT !.at = "clear"] ELSE Resting
  BY DEF KeepRole, Around, Busy
<1>2. SelectedWasDue'
  BY <1>1, SelectionStays
<1>3. /\ Asg' = Asg /\ Res' = Kept(task.row) /\ Wane(Res', task.row) /\ Res'.id = task.row.id
      /\ Res' # NoRow
  <2>1. Asg' = Asg /\ Res' = Kept(task.row)
    BY <1>1, RowKinds DEF Asg, Res, WatchTypeOK
  <2> QED BY <1>1, <2>1, StoredIds, KeptWanes, NoRowFields
<1>4. CarriedRows
  BY <1>1, <1>3, StoredIds DEF CarriedRows
<1>5. CarriedRest /\ PassedNow /\ ThrownNow
  BY <1>1, RestByFrame DEF JoinInv, RoleIsHeld
<1>6. IF task.kind = "restriction" THEN Asg = NoRow
      ELSE Asg.id = task.row.id /\ (Standing(Asg) => Asg.ready)
  BY <1>1 DEF JoinInv, HolderFits
<1>7. CASE task.kind = "assignment"
  <2>1. task'.at = "clear" /\ task'.row = task.row /\ task'.kind = task.kind
    BY <1>1, <1>7, StepFields
  <2>2. HolderFits'
    BY <1>3, <1>6, <1>7, <2>1 DEF HolderFits, Twins
  <2>3. TwinsTogether'
    BY <1>3, <1>6, <1>7, <2>1 DEF TwinsTogether
  <2>4. CarriedTask
    BY <1>1, <2>1, StoredIds DEF CarriedTask, Busy
  <2> QED BY <1>2, <1>4, <1>5, <2>2, <2>3, <2>4, CarriedKeeps DEF Carried
<1>8. CASE task.kind # "assignment"
  <2>1. Release /\ Asg = NoRow
    BY <1>1, <1>6, <1>8, HolderFields, RowKinds DEF Release, WatchTypeOK
  <2>2. TwinsTogether'
    BY <1>3, <2>1, TwinsStay DEF Standing
  <2> QED BY <1>2, <1>4, <1>5, <2>1, <2>2, LetGo, LessenedKeeps DEF Lessened, Carried
<1> QED BY <1>7, <1>8

LEMMA ClearAssignmentKeeps ==
  ASSUME WatchTypeOK, JoinInv, ClearAssignment
  PROVE  JoinInv'
<1>1. /\ picked' = picked /\ present' = present /\ role' = role
      /\ UNCHANGED <<policy, incidents, thrown, passed, planned, barred>>
      /\ DropAssignment("cancelled") /\ Release
  BY DEF ClearAssignment, Around
<1>2. Wane(Asg', Asg) /\ ~Standing(Asg') /\ Res' = Res
  <2> DEFINE o == "cancelled"
  <2>1. o # "" /\ DropAssignment(o)
    BY <1>1
  <2> HIDE DEF o
  <2> QED BY <2>1, DropAssignmentWanes
<1>3. CarriedRows
  BY <1>2, StoredIds DEF CarriedRows
<1>4. CarriedRest /\ PassedNow /\ ThrownNow
  BY <1>1, RestByFrame DEF JoinInv, RoleIsHeld
<1>5. TwinsTogether' /\ SelectedWasDue'
  BY <1>1, <1>2, TwinsStay, SelectionStays
<1> QED BY <1>1, <1>3, <1>4, <1>5, LetGo, LessenedKeeps DEF Lessened, Carried

LEMMA SealKeeps ==
  ASSUME WatchTypeOK, JoinInv, Seal
  PROVE  JoinInv'
<1> DEFINE o == "thrown_out"
<1>1. /\ task.at = "seal" /\ Busy /\ picked' = picked /\ present' = present /\ role' = role
      /\ UNCHANGED <<policy, incidents, thrown, passed, planned, barred>>
      /\ o # "" /\ Finish(task.kind, task.row, o) /\ Release
      /\ task.kind \in Kind
      /\ rows[task.kind].id = task.row.id
  BY HolderFields DEF Seal, Around, Busy, WatchTypeOK, JoinInv, HolderFits
<1> HIDE DEF o
<1>2. /\ rows'[task.kind] = NoRow
         \/ (Wane(rows'[task.kind], task.row) /\ (o # "" => rows'[task.kind].terminal # ""))
      /\ \A j \in Kind \ {task.kind} : rows'[j] = rows[j]
  BY <1>1, StoredIds, FinishWanes
<1>3. CarriedRest /\ PassedNow /\ ThrownNow
  BY <1>1, RestByFrame DEF JoinInv, RoleIsHeld
<1>4. CASE task.kind = "assignment"
  <2>1. /\ Asg' = NoRow \/ (Wane(Asg', task.row) /\ Asg'.terminal # "")
        /\ Res' = Res /\ Asg # NoRow
    BY <1>1, <1>2, <1>4, StoredIds, NoRowFields, RowKinds DEF Asg, Res
  <2>2. CarriedRows
    BY <1>1, <2>1, StoredIds DEF CarriedRows, Wane
  <2>3. TwinsTogether' /\ SelectedWasDue'
    BY <1>1, <2>1, TwinsStay, SelectionStays DEF Standing
  <2> QED BY <1>1, <1>3, <2>2, <2>3, LetGo, LessenedKeeps DEF Lessened, Carried
<1>5. CASE task.kind = "restriction"
  <2>1. /\ Res' = NoRow \/ Wane(Res', task.row)
        /\ Asg' = Asg /\ Res # NoRow /\ Res.id = task.row.id
    BY <1>1, <1>2, <1>5, StoredIds, NoRowFields, RowKinds DEF Asg, Res
  <2>2. CarriedRows
    BY <1>1, <2>1, StoredIds DEF CarriedRows, Wane
  <2>3. TwinsTogether' /\ SelectedWasDue'
    BY <1>1, <2>1, TwinsStay, SelectionStays DEF Wane
  <2> QED BY <1>1, <1>3, <2>2, <2>3, LetGo, LessenedKeeps DEF Lessened, Carried
<1> QED BY <1>1, <1>4, <1>5, RowKinds

\* The release of a member.
LEMMA LiftKeeps ==
  ASSUME WatchTypeOK, JoinInv, Lift
  PROVE  JoinInv'
<1>1. /\ task.at = "lift" /\ Busy /\ picked' = picked /\ present' = present
      /\ UNCHANGED <<policy, incidents, thrown, passed, planned, barred>>
      /\ Asg' = Asg /\ Res' = Res /\ (role' => role)
  BY DEF Lift, Around, Busy, Asg, Res
<1>2. CarriedRows
  BY <1>1, StoredIds DEF CarriedRows
<1>3. CarriedRest /\ PassedNow /\ ThrownNow
  BY <1>1, RestByFrame DEF JoinInv, RoleIsHeld
<1>4. TwinsTogether' /\ SelectedWasDue'
  BY <1>1, TwinsStay, SelectionStays
<1>5. CASE Release
  BY <1>2, <1>3, <1>4, <1>5, LetGo, LessenedKeeps DEF Lessened, Carried
<1>6. CASE task' = [task EXCEPT !.at = "verify"]
  <2>1. task'.at = "verify" /\ task'.row = task.row /\ task'.kind = task.kind
    BY <1>6, StepFields
  <2>2. HolderFits'
    BY <1>1, <2>1 DEF HolderFits, JoinInv
  <2>3. CarriedTask
    BY <1>1, <2>1, StoredIds DEF CarriedTask, Busy
  <2> QED BY <1>2, <1>3, <1>4, <2>2, <2>3, CarriedKeeps DEF Carried
<1> QED BY <1>5, <1>6 DEF Lift

LEMMA VerifyKeeps ==
  ASSUME WatchTypeOK, JoinInv, Verify
  PROVE  JoinInv'
<1>1. /\ task.at = "verify" /\ Busy /\ picked' = picked /\ present' = present /\ role' = role
      /\ UNCHANGED <<policy, incidents, thrown, passed, planned, barred>>
      /\ task' = [task EXCEPT !.at = "close"] /\ DropAssignment("cancelled")
  BY DEF Verify, Around, Busy
<1>2. Wane(Asg', Asg) /\ ~Standing(Asg') /\ Res' = Res
  <2> DEFINE o == "cancelled"
  <2>1. o # "" /\ DropAssignment(o)
    BY <1>1
  <2> HIDE DEF o
  <2> QED BY <2>1, DropAssignmentWanes
<1>3. CarriedRows
  BY <1>2, StoredIds DEF CarriedRows
<1>4. CarriedRest /\ PassedNow /\ ThrownNow
  BY <1>1, RestByFrame DEF JoinInv, RoleIsHeld
<1>5. TwinsTogether' /\ SelectedWasDue'
  BY <1>1, <1>2, TwinsStay, SelectionStays
<1>6. task'.at = "close" /\ task'.row = task.row /\ task'.kind = task.kind
  BY <1>1, StepFields
<1>7. HolderFits'
  BY <1>1, <1>2, <1>6 DEF HolderFits, JoinInv
<1>8. CarriedTask
  BY <1>1, <1>6, StoredIds DEF CarriedTask, Busy
<1> QED BY <1>3, <1>4, <1>5, <1>7, <1>8, CarriedKeeps DEF Carried

LEMMA CloseKeeps ==
  ASSUME WatchTypeOK, JoinInv, CloseIncident
  PROVE  JoinInv'
<1> DEFINE o == task.row.completion
<1>1. /\ task.at = "close" /\ Busy /\ picked' = picked /\ present' = present /\ role' = role
      /\ UNCHANGED <<policy, incidents, thrown, passed, planned, barred>>
      /\ Finish("restriction", task.row, o) /\ Release /\ ~Standing(Asg)
  BY DEF CloseIncident, Around, Busy, JoinInv, HolderFits
<1> HIDE DEF o
<1>2. (Res' = NoRow \/ Wane(Res', task.row)) /\ Asg' = Asg
  BY <1>1, StoredIds, FinishWanes, RowKinds DEF Asg, Res
<1>3. CarriedRows
  BY <1>1, <1>2, StoredIds DEF CarriedRows, Wane
<1>4. CarriedRest /\ PassedNow /\ ThrownNow
  BY <1>1, RestByFrame DEF JoinInv, RoleIsHeld
<1>5. TwinsTogether' /\ SelectedWasDue'
  BY <1>1, <1>2, TwinsStay, SelectionStays
<1> QED BY <1>1, <1>3, <1>4, <1>5, LetGo, LessenedKeeps DEF Lessened, Carried

\* A release takes the lock with the restriction, which waits for it.
Lifting ==
  /\ Unlocked /\ Asg' = Asg /\ Res # NoRow /\ Wane(Res', Res) /\ Res' # NoRow
  /\ task' = [at |-> "lift", kind |-> "restriction", row |-> Res']
  /\ UNCHANGED <<policy, incidents, thrown, planned, role, present, barred, picked>>

LEMMA LiftingKeeps ==
  ASSUME WatchTypeOK, JoinInv, Lifting, PassedNow
  PROVE  JoinInv'
<1>1. task'.at = "lift" /\ task'.kind = "restriction" /\ task'.row = Res'
  BY DEF Lifting
<1>2. HolderFits'
  BY <1>1 DEF HolderFits
<1>3. CarriedTask
  BY <1>1 DEF CarriedTask, Lifting, Busy
<1>4. CarriedRows
  BY StoredIds DEF CarriedRows, Lifting
<1>5. CarriedRest /\ ThrownNow
  BY DEF Lifting, CarriedRest, ThrownNow, JoinInv, RoleIsHeld
<1>6. TwinsTogether' /\ SelectedWasDue'
  <2>1. task.at \notin {"keep", "clear"}
    BY RestingFacts DEF Lifting
  <2> QED BY <2>1, TwinsStill, SelectionStays DEF Lifting
<1> QED BY <1>2, <1>3, <1>4, <1>5, <1>6, CarriedKeeps DEF Carried

LEMMA ResumeReleaseKeeps ==
  ASSUME WatchTypeOK, JoinInv, ResumeRelease
  PROVE  JoinInv'
<1>1. /\ Res # NoRow /\ Asg' = Asg /\ Res' = Res
  BY NoRowFields DEF ResumeRelease, Restriction, Res, Asg
<1>2. Lifting
  BY <1>1, StoredIds DEF Lifting, ResumeRelease, Restriction, Res
<1>3. PassedNow
  BY DEF ResumeRelease, PassedNow
<1> QED BY <1>2, <1>3, LiftingKeeps

LEMMA ReleasedWanes ==
  ASSUME NEW row \in Row, row.id # 0, row.state # "enrolling", NEW o
  PROVE  LET new == [row EXCEPT !.state = "release_pending", !.completion = o]
         IN /\ Wane(new, row) /\ new # NoRow /\ new.id = row.id /\ new.state = "release_pending"
BY DEF Wane, Row, NoRow

LEMMA ReleaseByHandKeeps ==
  ASSUME WatchTypeOK, JoinInv, ReleaseByHand
  PROVE  JoinInv'
<1>1. Res # NoRow /\ Res \in Row /\ Res.id # 0 /\ Res.state # "enrolling"
  BY RowsTyped, StoredIds DEF ReleaseByHand, Restriction, Res, JoinInv, EnrolmentsApart
<1> DEFINE next == [Res EXCEPT !.state = "release_pending", !.completion = "manual"]
<1>2. Wane(next, Res) /\ next # NoRow
  BY <1>1, ReleasedWanes
<1>3. /\ rows' = [rows EXCEPT !["restriction"] = next]
      /\ task' = [at |-> "lift", kind |-> "restriction", row |-> next]
      /\ UNCHANGED <<policy, incidents, thrown, passed, planned, role, present, barred, picked>>
      /\ Unlocked
  BY DEF ReleaseByHand, Restriction, Res
<1> HIDE DEF next
<1>4. Asg' = Asg /\ Res' = next
  BY <1>3, RowKinds DEF Asg, Res, WatchTypeOK
<1>5. Lifting
  BY <1>1, <1>2, <1>3, <1>4 DEF Lifting
<1>6. PassedNow
  BY <1>3 DEF PassedNow
<1> QED BY <1>5, <1>6, LiftingKeeps

LEMMA RightAnswerKeeps ==
  ASSUME WatchTypeOK, JoinInv, NEW s \in 1..MaxSession, NEW n \in {0, 1}, AnswerRight(s, n)
  PROVE  JoinInv'
<1>1. /\ Res # NoRow /\ Res \in Row /\ Res.id # 0 /\ Res.state # "enrolling"
      /\ Res.expired => Res.source = "test"
  BY RowsTyped, StoredIds DEF AnswerRight, Accepted, Restriction, Res, JoinInv, EnrolmentsApart
<1>2. CASE n = 0
  <2>1. Res' = [Res EXCEPT !.stage = 1] /\ Asg' = Asg /\ task' = task /\ passed' = passed
    BY <1>2, RowKinds DEF AnswerRight, Restriction, Res, Asg, WatchTypeOK
  <2>2. Wane(Res', Res)
    BY <1>1, <2>1, WaneByFields
  <2> QED BY <2>1, <2>2, RestrictionTouched DEF AnswerRight
<1>3. CASE n = 1
  <2> DEFINE next == [Res EXCEPT !.state = "release_pending", !.completion = "passed"]
  <2>1. Wane(next, Res) /\ next # NoRow /\ next.id = Res.id /\ next.state = "release_pending"
    BY <1>1, ReleasedWanes
  <2>2. /\ rows' = [rows EXCEPT !["restriction"] = next]
        /\ task' = [at |-> "lift", kind |-> "restriction", row |-> next]
        /\ passed' = IF Asg = NoRow THEN passed \cup {next.id} ELSE passed
        /\ UNCHANGED <<policy, incidents, thrown, planned, role, present, barred, picked>>
        /\ Unlocked
    BY <1>3 DEF AnswerRight, Restriction, Res, Asg
  <2> HIDE DEF next
  <2>3. Asg' = Asg /\ Res' = next
    BY <2>2, RowKinds DEF Asg, Res, WatchTypeOK
  <2>4. Lifting
    BY <1>1, <2>1, <2>2, <2>3 DEF Lifting
  \* Its restriction has not begun to throw the member out.
  <2>5. policy.action # "ban" => thrown[Res.id] = 0
    <3> SUFFICES ASSUME policy.action # "ban", thrown[Res.id] # 0
                 PROVE  FALSE
      OBVIOUS
    <3>1. Res.id \in 1..MaxIncident /\ thrown[Res.id] \in 0..2 /\ thrown[Res.id] > 0
      <4>1. Res.id \in 0..MaxIncident /\ thrown \in [1..MaxIncident -> 0..2]
        BY RowsTyped DEF WatchTypeOK, Row
      <4>2. Res.id \in 1..MaxIncident
        BY <1>1, <4>1, BoundsNat
      <4> QED BY <4>1, <4>2
    <3>2. Kicks
      BY <3>1, PolicyFields DEF JoinInv, NeverUnasked, Kicks, WatchTypeOK
    <3>3. Res.started
      BY <3>1, <3>2 DEF JoinInv, KickedIsSpent
    <3> QED BY <1>1, <3>2, <3>3 DEF JoinInv, KicksAreLate, StartedLate
  <2>6. PassedNow
    <3>1. task'.row = next
      BY <2>2
    <3> QED BY <1>1, <2>1, <2>2, <2>3, <2>5, <3>1 DEF PassedNow
  <2> QED BY <2>4, <2>6, LiftingKeeps
<1> QED BY <1>2, <1>3

\* The timer's decision: the incident ends, or its punishment begins.
LEMMA BegunWanes ==
  ASSUME NEW row \in Row, row.id # 0, ~Kicks \/ (row.expired /\ row.source # "test")
  PROVE  LET new == [row EXCEPT !.started = TRUE]
         IN Wane(new, row) /\ new # NoRow /\ new.id = row.id /\ new.started /\ new.state = row.state
BY DEF Wane, Row, NoRow

LEMMA ExecuteEnds ==
  ASSUME WatchTypeOK, JoinInv, NEW k \in Kind, rows[k] # NoRow, Execute(k, rows[k]),
         ~role \/ (k = "restriction" /\ picked'["restriction"] = NoRow),
         SelectedWasDue', Release, Unlocked,
         UNCHANGED <<policy, incidents, thrown, passed, planned, present, barred>>
  PROVE  JoinInv'
<1>1. PICK o \in {"no_action", "dry_run", "action_uncertain", "member_absent"} :
        Finish(k, rows[k], o) /\ UNCHANGED role
  BY DEF Execute, Release, Resting
<1>2. rows[k] \in Row /\ rows[k].id # 0
  BY RowKinds, StoredIds, RowsTyped DEF Asg, Res
<1>3. /\ Wane(rows'[k], rows[k])
      /\ \A j \in Kind \ {k} : rows'[j] = rows[j]
  <2>1. Wane(NoRow, rows[k])
    BY DEF Wane
  <2> QED BY <1>1, <1>2, <2>1, FinishWanes
<1>4. CarriedRest /\ PassedNow /\ ThrownNow
  BY <1>1, RestByFrame DEF JoinInv, RoleIsHeld
<1>5. Wane(Asg', Asg) /\ Wane(Res', Res) /\ (k = "restriction" => Asg' = Asg)
  <2>1. CASE k = "assignment"
    BY <1>3, <2>1, StoredIds, RowKinds DEF Asg, Res
  <2>2. CASE k = "restriction"
    BY <1>3, <2>2, StoredIds, RowKinds DEF Asg, Res
  <2> QED BY <2>1, <2>2, RowKinds
<1>6. TwinsTogether'
  BY <1>1, <1>5, TwinsStill, RestingFacts
<1>7. CarriedRows
  BY <1>5 DEF CarriedRows
<1> QED BY <1>4, <1>6, <1>7, LetGo, LessenedKeeps DEF Lessened, Carried

\* The mark is written and the call to Discord begins.
LEMMA IdInBounds ==
  ASSUME WatchTypeOK, NEW row \in Row, row.id # 0
  PROVE  row.id \in 1..MaxIncident
<1>1. row.id \in 0..MaxIncident
  BY DEF Row
<1> QED BY <1>1, BoundsNat

LEMMA NeverThrown ==
  ASSUME WatchTypeOK, NEW i \in 1..MaxIncident, ~(thrown[i] > 0)
  PROVE  thrown[i] = 0
<1>1. thrown[i] \in 0..2
  BY DEF WatchTypeOK
<1> QED BY <1>1

LEMMA ExecuteBegins ==
  ASSUME WatchTypeOK, JoinInv, NEW k \in Kind, rows[k] # NoRow, Execute(k, rows[k]),
         ~Release, Unlocked, SelectedWasDue',
         k = "assignment" => ~present,
         rows[k].terminal = "" /\ rows[k].state # "enrolling",
         k = "restriction" => /\ rows[k].expired /\ rows[k].source # "test"
                              /\ rows[k].state # "release_pending"
                              /\ picked["restriction"] = rows[k] /\ picked["assignment"] = NoRow
                              /\ picked'["restriction"] = NoRow /\ (present => role),
         UNCHANGED <<policy, incidents, thrown, passed, planned, present, barred>>
  PROVE  JoinInv'
<1> DEFINE new == [rows[k] EXCEPT !.started = TRUE]
<1>1. /\ rows' = [rows EXCEPT ![k] = new]
      /\ task' = [at |-> "punish", kind |-> k, row |-> new]
      /\ UNCHANGED role /\ ~rows[k].started
      /\ policy.action = "ban" \/ (policy.action = "kick" /\ present)
  BY DEF Execute, Release, Begun
<1>2. rows[k] \in Row /\ rows[k].id # 0
  BY RowKinds, StoredIds, RowsTyped DEF Asg, Res
<1>3. Kicks => k = "restriction" /\ present
  BY <1>1, RowKinds DEF Kicks
<1>4. Wane(new, rows[k]) /\ new # NoRow /\ new.id = rows[k].id /\ new.started /\ new.state = rows[k].state
  BY <1>2, <1>3, BegunWanes
<1> HIDE DEF new
<1>5. /\ rows'[k] = new /\ \A j \in Kind \ {k} : rows'[j] = rows[j]
      /\ task'.at = "punish" /\ task'.kind = k /\ task'.row = new
  BY <1>1 DEF WatchTypeOK
<1>6. Wane(Asg', Asg) /\ Wane(Res', Res) /\ (k = "restriction" => Asg' = Asg)
  <2>1. CASE k = "assignment"
    BY <1>4, <1>5, <2>1, StoredIds, RowKinds DEF Asg, Res
  <2>2. CASE k = "restriction"
    BY <1>4, <1>5, <2>2, StoredIds, RowKinds DEF Asg, Res
  <2> QED BY <2>1, <2>2, RowKinds
<1>7. CarriedRows
  BY <1>6 DEF CarriedRows
<1>8. CarriedTask
  <2>1. CASE k = "assignment"
    BY <1>4, <1>5, <2>1 DEF CarriedTask, Busy, Asg
  <2>2. CASE k = "restriction"
    BY <1>4, <1>5, <2>2 DEF CarriedTask, Busy, Res
  <2> QED BY <2>1, <2>2, RowKinds
<1>9. CarriedRest /\ PassedNow /\ ThrownNow
  BY <1>1, RestByFrame DEF JoinInv, RoleIsHeld
<1>10. TwinsTogether'
  <2>1. k = "assignment" => ~role'
    BY <1>1 DEF JoinInv, RoleIsHeld
  <2> QED BY <1>1, <1>6, <2>1, TwinsStill, RestingFacts, RowKinds
<1>11. ASSUME Kicks
       PROVE  thrown[new.id] = 0 /\ (Twins' => ~Standing(Asg'))
  <2>1. /\ k = "restriction" /\ rows[k] = Res /\ role /\ Asg' = Asg
        /\ picked["restriction"] = Res /\ picked["assignment"] = NoRow
    BY <1>3, <1>6, <1>11 DEF Res
  <2>2. thrown[new.id] = 0
    <3>1. Res \in Row /\ Res.id # 0
      BY <1>2, <2>1
    <3>2. Res.id \in 1..MaxIncident
      BY <3>1, IdInBounds
    <3>3. ~(thrown[Res.id] > 0)
      BY <1>1, <1>11, <2>1, <3>2 DEF JoinInv, KickedIsSpent
    <3> QED BY <1>4, <2>1, <3>2, <3>3, NeverThrown
  <2>3. Twins' => ~Standing(Asg')
    <3>1. Twins' => Twins
      BY <1>2, <1>4, <1>5, <2>1 DEF Twins, Res
    <3>2. Standing(Asg) /\ Twins => picked["assignment"] = Asg
      BY <2>1, RestingFacts DEF JoinInv, TwinsTogether
    <3>3. picked["assignment"] = Asg => ~Standing(Asg)
      BY <2>1 DEF Standing
    <3> QED BY <2>1, <3>1, <3>2, <3>3
  <2> QED BY <2>2, <2>3
<1>12. HolderFits'
  <2>1. policy'.action \in {"kick", "ban"}
    BY <1>1
  <2>2. IF k = "restriction" THEN new.state # "release_pending" ELSE ~Kicks' /\ ~role'
    BY <1>1, <1>3, <1>4, RowKinds DEF Kicks, JoinInv, RoleIsHeld
  <2>3. Kicks' => thrown'[new.id] = 0 /\ (Twins' => ~Standing(Asg'))
    BY <1>11 DEF Kicks
  <2> QED BY <1>4, <1>5, <2>1, <2>2, <2>3 DEF HolderFits
<1> QED BY <1>7, <1>8, <1>9, <1>10, <1>12, CarriedKeeps DEF Carried


LEMMA TimeAssignmentKeeps ==
  ASSUME WatchTypeOK, JoinInv, TimeAssignment
  PROVE  JoinInv'
<1> DEFINE row == picked["assignment"]
<1>1. /\ Unlocked /\ row # NoRow
      /\ picked'["assignment"] = NoRow /\ picked'["restriction"] = picked["restriction"]
      /\ UNCHANGED <<policy, incidents, thrown, passed, planned, barred>>
  BY RowKinds DEF TimeAssignment, WatchTypeOK
<1>2. SelectedWasDue'
  BY <1>1, SelectionStays
<1>3. row.terminal = "" /\ row.state # "enrolling" /\ row.ready
  BY <1>1 DEF JoinInv, SelectedWasDue
<1>4. CASE StaleAssignment
  <2>1. /\ UNCHANGED <<present, role, rows, task>> /\ row # Asg
    BY <1>1, <1>4 DEF TimeAssignment, StaleAssignment, Asg
  <2>2. Asg' = Asg /\ Res' = Res
    BY <2>1 DEF Asg, Res
  <2>3. TwinsTogether'
    BY <1>1, <2>1, <2>2, RestingFacts DEF JoinInv, TwinsTogether, Twins
  <2>4. CarriedRows
    BY <2>2, StoredIds DEF CarriedRows
  <2>5. CarriedRest /\ PassedNow /\ ThrownNow
    BY <1>1, <2>1, RestByFrame DEF JoinInv, RoleIsHeld
  <2>6. Release
    BY <1>1, <2>1 DEF Unlocked, Release
  <2> QED BY <1>2, <2>3, <2>4, <2>5, <2>6, LetGo, LessenedKeeps DEF Lessened, Carried
<1>5. CASE ~StaleAssignment
  <2>1. row = Asg /\ rows["assignment"] = row /\ Asg # NoRow
    BY <1>1, <1>5 DEF StaleAssignment, Asg
  <2>2. ASSUME NEW o, o # "", DropAssignment(o), UNCHANGED <<present, role, task>>
        PROVE  JoinInv'
    <3>1. Wane(Asg', Asg) /\ ~Standing(Asg') /\ Res' = Res
      BY <2>2, DropAssignmentWanes
    <3>2. CarriedRows
      BY <3>1, StoredIds DEF CarriedRows
    <3>3. CarriedRest /\ PassedNow /\ ThrownNow
      BY <1>1, <2>2, RestByFrame DEF JoinInv, RoleIsHeld
    <3>4. TwinsTogether'
      BY <3>1, TwinsStay
    <3>5. Release
      BY <1>1, <2>2 DEF Unlocked, Release
    <3> QED BY <1>2, <3>2, <3>3, <3>4, <3>5, LetGo, LessenedKeeps DEF Lessened, Carried
  <2>3. CASE ~present /\ row.source = "test"
    <3>1. DropAssignment("cancelled") /\ UNCHANGED <<present, role, task>>
      BY <1>5, <2>3 DEF TimeAssignment
    <3> DEFINE o == "cancelled"
    <3>2. o # "" /\ DropAssignment(o)
      BY <3>1
    <3> HIDE DEF o
    <3> QED BY <2>2, <3>1, <3>2
  <2>4. CASE ~present /\ row.source # "test"
    <3>1. Execute("assignment", rows["assignment"])
      BY <1>5, <2>1, <2>4 DEF TimeAssignment
    <3>2. UNCHANGED present /\ ~role
      BY <2>4, <3>1 DEF Execute, JoinInv, RoleIsHeld
    <3>3. CASE Release
      BY <1>1, <1>2, <2>1, <3>1, <3>2, <3>3, ExecuteEnds, RowKinds
    <3>4. CASE ~Release
      BY <1>1, <1>2, <1>3, <2>1, <2>4, <3>1, <3>2, <3>4, ExecuteBegins, RowKinds
    <3> QED BY <3>3, <3>4
  <2>5. CASE present /\ role
    <3>1. DropAssignment("cancelled") /\ UNCHANGED <<present, role, task>>
      BY <1>5, <2>5 DEF TimeAssignment
    <3> DEFINE o == "cancelled"
    <3>2. o # "" /\ DropAssignment(o)
      BY <3>1
    <3> HIDE DEF o
    <3> QED BY <2>2, <3>1, <3>2
  <2>6. CASE present /\ ~role /\ dryRun
    <3>1. DropAssignment("dry_run") /\ UNCHANGED <<present, role, task>>
      BY <1>5, <2>6 DEF TimeAssignment
    <3> DEFINE o == "dry_run"
    <3>2. o # "" /\ DropAssignment(o)
      BY <3>1
    <3> HIDE DEF o
    <3> QED BY <2>2, <3>1, <3>2
  <2>7. CASE present /\ ~role /\ ~dryRun
    <3>1. /\ task' = [at |-> "add", kind |-> "assignment", row |-> row]
          /\ UNCHANGED <<present, role, rows>>
      BY <1>5, <2>7 DEF TimeAssignment
    <3>2. task'.at = "add" /\ task'.kind = "assignment" /\ task'.row = Asg
      BY <2>1, <3>1
    <3>3. Asg' = Asg /\ Res' = Res
      BY <3>1 DEF Asg, Res
    <3>4. HolderFits'
      BY <1>3, <2>1, <2>7, <3>1, <3>2, <3>3 DEF HolderFits
    <3>5. CarriedTask
      BY <1>3, <2>1, <3>2, StoredIds DEF CarriedTask, Busy
    <3>6. CarriedRows
      BY <3>3, StoredIds DEF CarriedRows
    <3>7. CarriedRest /\ PassedNow /\ ThrownNow
      BY <1>1, <3>1, RestByFrame DEF JoinInv, RoleIsHeld
    <3>8. TwinsTogether'
      BY <2>7, <3>1, TwinsStay
    <3> QED BY <1>2, <3>4, <3>5, <3>6, <3>7, <3>8, CarriedKeeps DEF Carried
  <2> QED BY <2>3, <2>4, <2>5, <2>6, <2>7
<1> QED BY <1>4, <1>5

LEMMA TimeRestrictionKeeps ==
  ASSUME WatchTypeOK, JoinInv, TimeRestriction
  PROVE  JoinInv'
<1> DEFINE row == picked["restriction"]
<1>1. /\ Unlocked /\ row # NoRow /\ picked["assignment"] = NoRow
      /\ picked'["restriction"] = NoRow /\ picked'["assignment"] = picked["assignment"]
      /\ UNCHANGED <<policy, incidents, thrown, passed, planned, barred>>
  BY RowKinds DEF TimeRestriction, WatchTypeOK
<1>2. SelectedWasDue'
  BY <1>1, SelectionStays
<1>3. row.terminal = "" /\ row.state # "release_pending" /\ row.expired /\ row.source # "test"
  BY <1>1 DEF JoinInv, SelectedWasDue
<1>4. CASE UNCHANGED <<present, role, rows, task>>
  <2>1. Asg' = Asg /\ Res' = Res
    BY <1>4 DEF Asg, Res
  <2>2. TwinsTogether'
    BY <1>1, <1>4, <2>1, RestingFacts, TwinsStay
  <2>3. CarriedRows
    BY <2>1, StoredIds DEF CarriedRows
  <2>4. CarriedRest /\ PassedNow /\ ThrownNow
    BY <1>1, <1>4, RestByFrame DEF JoinInv, RoleIsHeld
  <2>5. Release
    BY <1>1, <1>4 DEF Unlocked, Release
  <2> QED BY <1>2, <2>2, <2>3, <2>4, <2>5, LetGo, LessenedKeeps DEF Lessened, Carried
<1>5. CASE /\ rows["restriction"] = row
           /\ present /\ ~role
           /\ Finish("restriction", row, "manual")
           /\ UNCHANGED <<present, role, task>>
  <2> DEFINE o == "manual"
  <2>1. Res = row /\ Res # NoRow /\ Finish("restriction", Res, o)
    BY <1>1, <1>5 DEF Res
  <2> HIDE DEF o
  <2>2. (Res' = NoRow \/ Wane(Res', Res)) /\ Asg' = Asg
    BY <2>1, StoredIds, RowsTyped, FinishWanes, RowKinds DEF Asg, Res
  <2>3. CarriedRows
    BY <2>2, StoredIds DEF CarriedRows, Wane
  <2>4. CarriedRest /\ PassedNow /\ ThrownNow
    BY <1>1, <1>5, RestByFrame DEF JoinInv, RoleIsHeld
  <2>5. TwinsTogether'
    BY <1>5, TwinsStay
  <2>6. Release
    BY <1>1, <1>5 DEF Unlocked, Release
  <2> QED BY <1>2, <2>3, <2>4, <2>5, <2>6, LetGo, LessenedKeeps DEF Lessened, Carried
<1>6. CASE rows["restriction"] = row /\ (present => role) /\ Execute("restriction", row)
  <2>1. Execute("restriction", rows["restriction"]) /\ rows["restriction"] # NoRow /\ UNCHANGED present
    BY <1>1, <1>6 DEF Execute
  <2>2. CASE Release
    BY <1>1, <1>2, <2>1, <2>2, ExecuteEnds, RowKinds
  <2>3. CASE ~Release
    <3>1. rows["restriction"].state # "enrolling"
      BY DEF JoinInv, EnrolmentsApart, Res
    <3> QED BY <1>1, <1>2, <1>3, <1>6, <2>1, <2>3, <3>1, ExecuteBegins, RowKinds
  <2> QED BY <2>2, <2>3
<1> QED BY <1>1, <1>4, <1>5, <1>6 DEF TimeRestriction

\* A punishment that did not happen.
LEMMA UndoneWanes ==
  ASSUME NEW row \in Row, row.id # 0, Kicks => thrown[row.id] = 0
  PROVE  LET undone == [row EXCEPT !.started = FALSE]
         IN /\ undone \in Row /\ undone.id = row.id /\ ~undone.started
            /\ \A new : Wane(new, undone) => Wane(new, row)
<1> DEFINE undone == [row EXCEPT !.started = FALSE]
<1>1. undone \in Row
  BY DEF Row
<1>2. /\ undone.id = row.id /\ undone.source = row.source /\ undone.state = row.state
      /\ undone.captcha = row.captcha /\ undone.started = FALSE /\ undone.expired = row.expired
      /\ undone.terminal = row.terminal
  BY DEF Row
<1> HIDE DEF undone
<1>3. \A new : Wane(new, undone) => Wane(new, row)
  BY <1>2 DEF Wane
<1> QED BY <1>1, <1>2, <1>3 DEF undone

\* A call that came to nothing: the holder's row is written back or ended.
LEMMA PunishFails ==
  ASSUME WatchTypeOK, JoinInv, task.at = "punish",
         NEW k \in Kind, k = task.kind,
         rows'[k] = NoRow \/ Wane(rows'[k], task.row),
         \A j \in Kind \ {k} : rows'[j] = rows[j],
         Release, role' => role /\ present', present' => present, barred => barred' \/ present,
         picked' = picked,
         UNCHANGED <<policy, incidents, thrown, passed, planned>>
  PROVE  JoinInv'
<1>1. /\ Busy /\ rows[k].id = task.row.id
      /\ k = "assignment" => ~role
  <2>1. Busy
    BY DEF Busy
  <2>2. rows[k].id = task.row.id /\ (k = "assignment" => ~role)
    BY DEF JoinInv, HolderFits
  <2> QED BY <2>1, <2>2
<1>2. /\ k = "assignment" => /\ Asg' = NoRow \/ Wane(Asg', task.row)
                             /\ Res' = Res /\ Asg # NoRow
      /\ k = "restriction" => /\ Res' = NoRow \/ (Wane(Res', task.row) /\ Res'.id = Res.id)
                              /\ Asg' = Asg /\ Res # NoRow
  <2>1. rows[k] # NoRow
    BY <1>1, StoredIds, NoRowFields
  <2>2. Wane(rows'[k], task.row) => rows'[k] = NoRow \/ rows'[k].id = rows[k].id
    BY <1>1 DEF Wane
  <2> QED BY <2>1, <2>2, RowKinds DEF Asg, Res
<1>3. CarriedRows
  <2>1. Wane(NoRow, Asg) /\ Wane(NoRow, Res)
    BY DEF Wane
  <2>2. task.at # "enroll"
    OBVIOUS
  <2> QED BY <1>1, <1>2, <2>1, <2>2, StoredIds, RowKinds DEF CarriedRows
<1>4. CarriedRest /\ PassedNow /\ ThrownNow
  BY RestByFrame
<1>5. TwinsTogether' /\ SelectedWasDue'
  BY <1>1, <1>2, RowKinds, TwinsStay, SelectionStays
<1> QED BY <1>3, <1>4, <1>5, LetGo, LessenedKeeps DEF Lessened, Carried

LEMMA PunishKeeps ==
  ASSUME WatchTypeOK, JoinInv, Punish
  PROVE  JoinInv'
<1> DEFINE k == task.kind
           undone == [task.row EXCEPT !.started = FALSE]
<1>1. /\ task.at = "punish" /\ Busy /\ k \in Kind /\ picked' = picked
      /\ UNCHANGED <<policy, incidents, passed, planned>>
  BY HolderFields DEF Punish, Busy, WatchTypeOK
<1>2. /\ policy.action \in {"kick", "ban"}
      /\ rows[k].id = task.row.id /\ rows[k].started /\ task.row.started
      /\ IF k = "restriction" THEN task.row.state # "release_pending" ELSE ~Kicks /\ ~role
      /\ Kicks => thrown[task.row.id] = 0 /\ (Twins => ~Standing(Asg))
  BY <1>1 DEF JoinInv, HolderFits
<1>3. /\ undone \in Row /\ undone.id = task.row.id /\ ~undone.started
      /\ \A new : Wane(new, undone) => Wane(new, task.row)
      /\ undone.id # 0
  BY <1>1, <1>2, StoredIds, UndoneWanes
<1>4. role => present
  BY DEF JoinInv, RoleIsHeld
<1> HIDE DEF undone
<1>5. CASE /\ present \/ policy.action = "ban"
           /\ present' = FALSE /\ role' = FALSE
           /\ barred' = (policy.action = "ban")
           /\ IF present THEN Throw(task.row.id) ELSE UNCHANGED thrown
           /\ task' = [task EXCEPT !.at = "seal"]
           /\ UNCHANGED rows
  <2>1. task'.at = "seal" /\ task'.row = task.row /\ task'.kind = task.kind
    BY <1>5, StepFields
  <2>2. Asg' = Asg /\ Res' = Res
    BY <1>5 DEF Asg, Res
  <2>3. HolderFits'
    BY <1>2, <1>5, <2>1 DEF HolderFits
  <2>4. CarriedTask
    BY <1>1, <2>1, StoredIds DEF CarriedTask, Busy
  <2>5. CarriedRows
    BY <2>2, StoredIds DEF CarriedRows
  <2>6. CarriedRest
    BY <1>1, <1>2, <1>5 DEF CarriedRest
  <2>7. PassedNow /\ ThrownNow
    BY <1>1, <1>5, <2>1, <2>2 DEF PassedNow, ThrownNow, Struck
  <2>8. TwinsTogether' /\ SelectedWasDue'
    BY <1>1, <1>5, TwinsStay, SelectionStays
  <2> QED BY <2>3, <2>4, <2>5, <2>6, <2>7, <2>8, CarriedKeeps DEF Carried
<1>6. CASE /\ Retry(k, undone) /\ Release /\ UNCHANGED <<present, role, barred, thrown>>
  <2>1. (rows'[k] = NoRow \/ Wane(rows'[k], undone)) /\ \A j \in Kind \ {k} : rows'[j] = rows[j]
    BY <1>1, <1>3, <1>6, RetryWanes
  <2> QED BY <1>1, <1>3, <1>4, <1>6, <2>1, PunishFails
<1>7. CASE /\ present
           /\ present' = FALSE /\ role' = FALSE /\ barred' = (policy.action = "ban")
           /\ Retry(k, undone) /\ Release /\ UNCHANGED thrown
  <2>1. (rows'[k] = NoRow \/ Wane(rows'[k], undone)) /\ \A j \in Kind \ {k} : rows'[j] = rows[j]
    BY <1>1, <1>3, <1>7, RetryWanes
  <2> QED BY <1>1, <1>3, <1>7, <2>1, PunishFails
<1>8. CASE /\ Finish(k, task.row, "cancelled")
           /\ Release /\ UNCHANGED <<present, role, barred, thrown>>
  <2> DEFINE o == "cancelled"
  <2>1. Finish(k, task.row, o)
    BY <1>8
  <2> HIDE DEF o
  <2>2. (rows'[k] = NoRow \/ Wane(rows'[k], task.row)) /\ \A j \in Kind \ {k} : rows'[j] = rows[j]
    BY <1>1, <2>1, StoredIds, FinishWanes
  <2> QED BY <1>1, <1>4, <1>8, <2>2, PunishFails
<1> QED BY <1>5, <1>6, <1>7, <1>8 DEF Punish, undone

\* The role of an enrolment.
LEMMA EnrolledFields ==
  ASSUME WatchTypeOK, task' = [task EXCEPT !.at = "keep", !.row.state = "active"]
  PROVE  /\ task'.at = "keep" /\ task'.kind = task.kind
         /\ task'.row.id = task.row.id /\ task'.row.state = "active"
         /\ task'.row.source = task.row.source /\ task'.row.started = task.row.started
         /\ task'.row.captcha = task.row.captcha /\ task'.row.expired = task.row.expired
BY HolderFields DEF WatchTypeOK, Holder, Row

LEMMA AddEnrolledKeeps ==
  ASSUME WatchTypeOK, JoinInv, AddEnrolled
  PROVE  JoinInv'
<1>1. /\ task.at = "enroll" /\ Busy /\ picked' = picked /\ present' = present
      /\ task.kind = "assignment" /\ Asg.id = task.row.id /\ Asg.state = "enrolling" /\ Res = NoRow
      /\ UNCHANGED <<policy, incidents, thrown, passed, barred>>
  BY DEF AddEnrolled, Around, Busy, JoinInv, HolderFits
<1>2. ~Standing(Asg) /\ SelectedWasDue'
  BY <1>1, SelectionStays DEF Standing
<1>3. CASE /\ present /\ role' = TRUE
           /\ task' = [task EXCEPT !.at = "keep", !.row.state = "active"]
           /\ planned' = NoRow /\ UNCHANGED rows
  <2>1. /\ task'.at = "keep" /\ task'.kind = task.kind
        /\ task'.row.id = task.row.id /\ task'.row.state = "active"
        /\ task'.row.source = task.row.source /\ task'.row.started = task.row.started
        /\ task'.row.captcha = task.row.captcha /\ task'.row.expired = task.row.expired
    BY <1>3, EnrolledFields
  <2>2. Asg' = Asg /\ Res' = Res /\ Busy' /\ planned' = NoRow
    BY <1>3, <2>1 DEF Asg, Res, Busy
  <2>3. Numbered'
    BY <1>1, <2>1, <2>2 DEF JoinInv, Numbered, Drawn
  <2>4. EnrolmentsApart' /\ PlanApart' /\ AssignedHaveCaptcha'
    BY <1>1, <2>1, <2>2 DEF JoinInv, EnrolmentsApart, FromPlan, PlanApart, AssignedHaveCaptcha
  <2>5. HolderFits' /\ TwinsTogether'
    BY <1>1, <1>2, <2>1, <2>2 DEF HolderFits, TwinsTogether
  <2>6. KickedIsSpent'
    <3>1. \A i \in 1..MaxIncident : NoRow.id # i
      <4>1. 0 \notin 1..MaxIncident
        OBVIOUS
      <4> QED BY <4>1, NoRowFields
    <3> QED BY <1>1, <2>1, <2>2, <3>1 DEF JoinInv, KickedIsSpent, Kicks
  <2>7. KicksAreLate'
    BY <1>1, <2>1, <2>2 DEF JoinInv, KicksAreLate, Kicks, StartedLate
  <2>8. BannedIsOut' /\ RoleIsHeld' /\ NeverUnasked' /\ ThrownOutOnce'
    BY <1>1, <1>3 DEF JoinInv, BannedIsOut, RoleIsHeld, NeverUnasked, ThrownOutOnce
  <2>9. PassedWaits'
    <3>1. \A i \in passed : i # 0
      BY DEF WatchTypeOK
    <3> QED BY <1>1, <2>1, <2>2, <3>1, NoRowFields DEF JoinInv, PassedWaits
  <2> QED BY <1>2, <2>3, <2>4, <2>5, <2>6, <2>7, <2>8, <2>9 DEF JoinInv
<1>4. CASE UNCHANGED role /\ Release /\ DropAssignment("action_failed") /\ UNCHANGED planned
  <2> DEFINE o == "action_failed"
  <2>1. o # "" /\ DropAssignment(o)
    BY <1>4
  <2> HIDE DEF o
  <2>2. Wane(Asg', Asg) /\ ~Standing(Asg') /\ Res' = Res
    BY <2>1, DropAssignmentWanes
  <2>3. CarriedRows
    BY <2>2, StoredIds DEF CarriedRows
  <2>4. CarriedRest /\ PassedNow /\ ThrownNow
    BY <1>1, <1>4, RestByFrame DEF JoinInv, RoleIsHeld
  <2>5. TwinsTogether'
    BY <2>2, TwinsStay
  <2> QED BY <1>2, <1>4, <2>3, <2>4, <2>5, LetGo, LessenedKeeps DEF Lessened, Carried
<1>5. CASE present /\ role' \in BOOLEAN /\ Release /\ UNCHANGED <<rows, planned>>
  <2>1. Asg' = Asg /\ Res' = Res
    BY <1>5 DEF Asg, Res
  <2>2. CarriedRows
    BY <2>1, StoredIds DEF CarriedRows
  <2>3. CarriedRest /\ PassedNow /\ ThrownNow
    BY <1>1, <1>5, RestByFrame
  <2>4. TwinsTogether'
    BY <1>2, <2>1, TwinsStay
  <2> QED BY <1>2, <1>5, <2>2, <2>3, <2>4, LetGo, LessenedKeeps DEF Lessened, Carried
<1> QED BY <1>3, <1>4, <1>5 DEF AddEnrolled

\* What happens around the lock leaves rows and holder alone.
LEMMA StillCarried ==
  ASSUME WatchTypeOK, JoinInv,
         rows' = rows, task' = task, planned' = planned,
         UNCHANGED <<policy, incidents, thrown, passed>>,
         role' => role, role' => present', barred /\ ~present => barred' /\ ~present'
  PROVE  Carried /\ HolderFits' /\ Asg' = Asg /\ Res' = Res
<1>1. Asg' = Asg /\ Res' = Res
  BY DEF Asg, Res
<1>2. CarriedRows
  BY <1>1, StoredIds DEF CarriedRows
<1>3. HolderFits'
  BY <1>1 DEF JoinInv, HolderFits, Twins, Kicks
<1>4. CarriedTask
  <2>1. task.at = "" => task = Resting
    BY DEF JoinInv, HolderFits
  <2> QED BY <2>1, StoredIds DEF CarriedTask, Busy
<1>5. CarriedRest /\ PassedNow /\ ThrownNow
  BY RestByFrame
<1> QED BY <1>1, <1>2, <1>3, <1>4, <1>5 DEF Carried

LEMMA SurroundingsKeep ==
  ASSUME WatchTypeOK, JoinInv,
         Enter \/ Leave \/ TakeRole \/ ToggleDryRun \/ ArchiveFails \/ ArchiveRecovers
  PROVE  JoinInv'
<1>1. /\ rows' = rows /\ task' = task /\ planned' = planned /\ picked' = picked
      /\ UNCHANGED <<policy, incidents, thrown, passed>>
      /\ role' = FALSE \/ role' = role
      /\ role' => present'
      /\ barred /\ ~present => barred' /\ ~present'
  BY DEF Enter, Leave, TakeRole, ToggleDryRun, ArchiveFails, ArchiveRecovers, JoinInv, RoleIsHeld
<1>2. Carried /\ HolderFits' /\ Asg' = Asg /\ Res' = Res
  BY <1>1, StillCarried
<1>3. SelectedWasDue'
  BY <1>1, SelectionStays
<1>4. TwinsTogether'
  BY <1>1, <1>2 DEF JoinInv, TwinsTogether, Twins
<1> QED BY <1>2, <1>3, <1>4, CarriedKeeps

LEMMA SelectKeeps ==
  ASSUME WatchTypeOK, JoinInv, Select
  PROVE  JoinInv'
<1>1. /\ rows' = rows /\ task' = task /\ planned' = planned
      /\ UNCHANGED <<policy, incidents, thrown, passed, role, present, barred>>
      /\ picked'["assignment"] = DueAssignment /\ picked'["restriction"] = DueRestriction
  BY RowKinds DEF Select
<1>2. Carried /\ HolderFits' /\ Asg' = Asg /\ Res' = Res
  BY <1>1, StillCarried DEF JoinInv, RoleIsHeld
<1>3. SelectedWasDue'
  BY <1>1 DEF SelectedWasDue, DueAssignment, DueRestriction
<1>4. TwinsTogether'
  <2>1. role /\ Standing(Asg) /\ Twins => Asg.ready
    BY DEF JoinInv, TwinsTogether
  <2>2. Standing(Asg) /\ Twins /\ Asg.ready => DueAssignment = Asg
    BY DEF Standing, Twins, DueAssignment, SameIncident, Asg, Res
  <2> QED BY <1>1, <1>2, <2>1, <2>2 DEF TwinsTogether, Twins
<1> QED BY <1>2, <1>3, <1>4, CarriedKeeps

\* A deadline passes for every copy of a row alike.
Grown(new, old) ==
  /\ old = NoRow => new = NoRow
  /\ new.id = old.id /\ new.source = old.source /\ new.state = old.state
  /\ new.terminal = old.terminal /\ new.captcha = old.captcha /\ new.started = old.started
  /\ (old.ready => new.ready) /\ (old.expired => new.expired)

LEMMA IdleNothing == [NoRow EXCEPT !.fresh = FALSE] = NoRow
<1>1. \A row \in Row : row.fresh = FALSE => [row EXCEPT !.fresh = FALSE] = row
  BY DEF Row
<1>2. NoRow.fresh = FALSE
  BY DEF NoRow
<1> QED BY <1>1, <1>2, NoRowIsRow

LEMMA GrownWanes ==
  ASSUME NEW new, NEW old, Grown(new, old), old = NoRow \/ old.id # 0
  PROVE  Wane(new, old)
BY DEF Grown, Wane

LEMMA AllGrow ==
  ASSUME NEW row \in Row
  PROVE  Grown(Aged(row), row) /\ Grown(Ripe(row), row) /\ Grown(Idled(row), row)
<1>1. Aged(NoRow) = NoRow /\ Ripe(NoRow) = NoRow /\ Idled(NoRow) = NoRow
  BY IdleNothing DEF Aged, Ripe, Idled
<1>2. Grown(Aged(row), row)
  BY <1>1 DEF Grown, Aged, Row
<1>3. Grown(Ripe(row), row)
  BY <1>1 DEF Grown, Ripe, Row
<1>4. Grown(Idled(row), row)
  BY <1>1 DEF Grown, Idled, Row
<1> QED BY <1>2, <1>3, <1>4

LEMMA GrowingKeeps ==
  ASSUME WatchTypeOK, JoinInv,
         Grown(Asg', Asg), Grown(Res', Res), Grown(task'.row, task.row),
         Grown(picked'["assignment"], picked["assignment"]),
         Grown(picked'["restriction"], picked["restriction"]),
         picked["assignment"] = Asg => picked'["assignment"] = Asg',
         task'.at = task.at, task'.kind = task.kind, ~Busy => task' = Resting,
         UNCHANGED <<policy, incidents, thrown, passed, planned, role, present, barred>>
  PROVE  JoinInv'
<1>1. CarriedRows
  BY StoredIds, GrownWanes DEF CarriedRows
<1>2. CarriedTask
  <2>1. CASE Busy
    <3>1. Wane(task'.row, task.row) /\ task'.row # NoRow /\ Busy'
      <4>1. task.row.id # 0 /\ Grown(task'.row, task.row)
        BY <2>1, StoredIds
      <4>2. Wane(task'.row, task.row)
        BY <4>1, GrownWanes
      <4>3. task'.row.id # 0
        BY <4>1 DEF Grown
      <4> QED BY <2>1, <4>2, <4>3, NoRowFields DEF Busy
    <3> QED BY <2>1, <3>1 DEF CarriedTask
  <2>2. CASE ~Busy
    BY <2>2 DEF CarriedTask, Busy
  <2> QED BY <2>1, <2>2
<1>3. CarriedRest /\ PassedNow /\ ThrownNow
  BY RestByFrame DEF JoinInv, RoleIsHeld
<1>4. Standing(Asg') = Standing(Asg) /\ Twins' = Twins /\ Asg'.id = Asg.id /\ Res'.id = Res.id
  <2>1. Asg'.id = Asg.id /\ Res'.id = Res.id
    BY DEF Grown
  <2>2. (Asg' = NoRow <=> Asg = NoRow) /\ (Res' = NoRow <=> Res = NoRow)
    BY <2>1, StoredIds, NoRowFields DEF Grown
  <2>3. Standing(Asg') = Standing(Asg)
    BY <2>2 DEF Standing, Grown
  <2>4. Twins' = Twins
    BY <2>1, <2>2 DEF Twins
  <2> QED BY <2>1, <2>3, <2>4
<1>5. SelectedWasDue'
  BY DEF JoinInv, SelectedWasDue, Grown
<1>6. TwinsTogether'
  BY <1>4 DEF JoinInv, TwinsTogether, Grown
<1>7. HolderFits'
  <2>1. Asg # NoRow => Asg' # NoRow
    BY StoredIds, NoRowFields DEF Grown
  <2>2. \A k \in Kind : rows'[k].id = rows[k].id /\ rows'[k].started = rows[k].started
    BY RowKinds DEF Grown, Asg, Res
  <2>3. /\ task'.row.id = task.row.id /\ task'.row.started = task.row.started
        /\ task'.row.state = task.row.state /\ Asg'.state = Asg.state
        /\ (Asg.ready => Asg'.ready) /\ (Asg = NoRow => Asg' = NoRow) /\ (Res = NoRow => Res' = NoRow)
    BY DEF Grown
  <2>4. HolderFits /\ task.kind \in Kind
    BY HolderFields DEF JoinInv, WatchTypeOK
  <2>5. task.at = "" => task' = Resting
    BY DEF Busy
  <2> QED BY <1>4, <2>1, <2>2, <2>3, <2>4, <2>5 DEF HolderFits, Kicks
<1> QED BY <1>1, <1>2, <1>3, <1>5, <1>6, <1>7, CarriedKeeps DEF Carried

LEMMA TimePassesKeeps ==
  ASSUME WatchTypeOK, JoinInv, DelayEnds \/ DeadlinePasses \/ SessionEnds
  PROVE  JoinInv'
<1>1. CASE DelayEnds
  <2>1. /\ Asg' = Ripe(Asg) /\ Res' = Ripe(Res)
        /\ picked'["assignment"] = Ripe(picked["assignment"])
        /\ picked'["restriction"] = Ripe(picked["restriction"])
        /\ task' = [task EXCEPT !.row = Ripe(task.row)]
        /\ UNCHANGED <<policy, incidents, thrown, passed, planned, role, present, barred>>
    BY <1>1, RowKinds DEF DelayEnds, PassTime, Asg, Res
  <2>2. task'.at = task.at /\ task'.kind = task.kind /\ task'.row = Ripe(task.row)
    BY <2>1 DEF WatchTypeOK, Holder
  <2>3. ~Busy => task' = Resting
    <3>1. ~Busy => task = Resting
      BY DEF JoinInv, HolderFits, Busy
    <3>2. [Resting EXCEPT !.row = Ripe(Resting.row)] = Resting
      BY DEF Resting, Ripe, NoRow
    <3> QED BY <2>1, <3>1, <3>2
  <2> QED BY <2>1, <2>2, <2>3, AllGrow, RowsTyped, HolderFields, GrowingKeeps DEF WatchTypeOK
<1>2. CASE DeadlinePasses
  <2>1. /\ Asg' = Aged(Asg) /\ Res' = Aged(Res)
        /\ picked'["assignment"] = Aged(picked["assignment"])
        /\ picked'["restriction"] = Aged(picked["restriction"])
        /\ task' = [task EXCEPT !.row = Aged(task.row)]
        /\ UNCHANGED <<policy, incidents, thrown, passed, planned, role, present, barred>>
    BY <1>2, RowKinds DEF DeadlinePasses, PassTime, Asg, Res
  <2>2. task'.at = task.at /\ task'.kind = task.kind /\ task'.row = Aged(task.row)
    BY <2>1 DEF WatchTypeOK, Holder
  <2>3. ~Busy => task' = Resting
    <3>1. ~Busy => task = Resting
      BY DEF JoinInv, HolderFits, Busy
    <3>2. [Resting EXCEPT !.row = Aged(Resting.row)] = Resting
      BY DEF Resting, Aged, NoRow
    <3> QED BY <2>1, <3>1, <3>2
  <2> QED BY <2>1, <2>2, <2>3, AllGrow, RowsTyped, HolderFields, GrowingKeeps DEF WatchTypeOK
<1>3. CASE SessionEnds
  <2>1. /\ Asg' = Idled(Asg) /\ Res' = Idled(Res)
        /\ picked'["assignment"] = Idled(picked["assignment"])
        /\ picked'["restriction"] = Idled(picked["restriction"])
        /\ task' = [task EXCEPT !.row = Idled(task.row)]
        /\ UNCHANGED <<policy, incidents, thrown, passed, planned, role, present, barred>>
    BY <1>3, RowKinds DEF SessionEnds, PassTime, Asg, Res
  <2>2. task'.at = task.at /\ task'.kind = task.kind /\ task'.row = Idled(task.row)
    BY <2>1 DEF WatchTypeOK, Holder
  <2>3. ~Busy => task' = Resting
    <3>1. ~Busy => task = Resting
      BY DEF JoinInv, HolderFits, Busy
    <3>2. [Resting EXCEPT !.row = Idled(Resting.row)] = Resting
      <4>1. Idled(Resting.row) = NoRow
        BY IdleNothing DEF Resting, Idled
      <4>2. [Resting EXCEPT !.row = NoRow] = Resting
        <5>1. \A t \in Holder : [t EXCEPT !.row = t.row] = t
          BY DEF Holder
        <5>2. Resting \in Holder /\ Resting.row = NoRow
          BY RowKinds, NoRowIsRow DEF Resting, Holder
        <5> QED BY <5>1, <5>2
      <4> QED BY <4>1, <4>2
    <3> QED BY <2>1, <3>1, <3>2
  <2> QED BY <2>1, <2>2, <2>3, AllGrow, RowsTyped, HolderFields, GrowingKeeps DEF WatchTypeOK
<1> QED BY <1>1, <1>2, <1>3


\* A new incident.
LEMMA IncidentFields ==
  \A i, source :
    /\ Incident(i, source).id = i /\ Incident(i, source).source = source
    /\ Incident(i, source).captcha = IF source = "join" THEN policy.captcha ELSE TRUE
    /\ Incident(i, source).started = FALSE /\ Incident(i, source).terminal = ""
    /\ Incident(i, source).state = "" /\ Incident(i, source).expired = FALSE
BY DEF Incident, NoRow

\* The incident a join continues, or opens.
Continues(new) ==
  /\ new # NoRow
  /\ \/ /\ Res # NoRow /\ Wane(new, Res) /\ new.captcha = Res.captcha /\ incidents' = incidents
     \/ /\ Res = NoRow /\ Asg # NoRow
        /\ Wane(new, Asg) /\ new.captcha = Asg.captcha /\ new.terminal = Asg.terminal
        /\ incidents' = incidents
     \/ Res = NoRow /\ Asg = NoRow /\ Fresh(new)

LEMMA ContinuesSo ==
  ASSUME WatchTypeOK, JoinInv, NEW row \in Row, NEW b, NEW c,
         IF Existing # NoRow THEN row = Existing /\ incidents' = incidents
         ELSE Fresh(row)
  PROVE  /\ Continues([row EXCEPT !.restore = b])
         /\ Continues([[row EXCEPT !.restore = b] EXCEPT !.ready = c])
<1>1. \A new : /\ new.id = row.id /\ new.source = row.source /\ new.state = row.state
               /\ new.terminal = row.terminal /\ new.captcha = row.captcha
               /\ new.started = row.started /\ new.expired = row.expired
               => Continues(new)
  <2> SUFFICES ASSUME NEW new,
                      /\ new.id = row.id /\ new.source = row.source /\ new.state = row.state
                      /\ new.terminal = row.terminal /\ new.captcha = row.captcha
                      /\ new.started = row.started /\ new.expired = row.expired
               PROVE  Continues(new)
    OBVIOUS
  <2>1. CASE Res # NoRow
    <3>1. row = Res /\ incidents' = incidents /\ Res.id # 0
      BY <2>1, StoredIds DEF Existing, Res
    <3>2. Wane(new, Res)
      BY <3>1 DEF Wane
    <3>3. new # NoRow
      BY <3>1, NoRowFields
    <3> QED BY <2>1, <3>1, <3>2, <3>3 DEF Continues
  <2>2. CASE Res = NoRow /\ Asg # NoRow
    <3>1. row = Asg /\ incidents' = incidents /\ Asg.id # 0
      BY <2>2, StoredIds DEF Existing, Res, Asg
    <3>2. Wane(new, Asg)
      BY <3>1 DEF Wane
    <3>3. new # NoRow
      BY <3>1, NoRowFields
    <3> QED BY <2>2, <3>1, <3>2, <3>3 DEF Continues
  <2>3. CASE Res = NoRow /\ Asg = NoRow
    <3>1. Fresh(row)
      BY <2>3 DEF Existing, Res, Asg
    <3>2. Fresh(new)
      BY <3>1 DEF Fresh
    <3>3. new # NoRow
      <4>1. incidents + 1 # 0
        BY DrawnIds DEF JoinInv
      <4> QED BY <3>2, <4>1, NoRowFields DEF Fresh
    <3> QED BY <2>3, <3>2, <3>3 DEF Continues
  <2> QED BY <2>1, <2>2, <2>3
<1> DEFINE first == [row EXCEPT !.restore = b]
           second == [[row EXCEPT !.restore = b] EXCEPT !.ready = c]
<1>2. /\ first.id = row.id /\ first.source = row.source /\ first.state = row.state
      /\ first.terminal = row.terminal /\ first.captcha = row.captcha
      /\ first.started = row.started /\ first.expired = row.expired
  BY DEF Row
<1>3. /\ second.id = row.id /\ second.source = row.source /\ second.state = row.state
      /\ second.terminal = row.terminal /\ second.captcha = row.captcha
      /\ second.started = row.started /\ second.expired = row.expired
  BY DEF Row
<1> HIDE DEF first, second
<1> QED BY <1>1, <1>2, <1>3 DEF first, second

LEMMA RestingAfter ==
  ASSUME task' = Resting
  PROVE  ~Busy' /\ task'.at = "" /\ task'.row = NoRow
BY DEF Busy, Resting

\* The member joins: nothing happens, an assignment waits or is carried out, or
\* the role is given directly.
LEMMA JoinWaits ==
  ASSUME WatchTypeOK, JoinInv, Unlocked, ~role, NEW new, Continues(new),
         Asg' = new, Res' = Res, policy.delay \/ new.captcha,
         \/ task' = task
         \/ /\ task' = [at |-> "add", kind |-> "assignment", row |-> new]
            /\ new.ready /\ new.terminal = "" /\ new.source \notin {"wave", "test"}
         ,
         UNCHANGED <<policy, role, present, barred, picked, planned, thrown, passed>>
  PROVE  JoinInv'
<1>1. incidents' \in {incidents, incidents + 1} /\ new # NoRow
  BY DEF Continues, Fresh
<1>2. CarriedRest /\ PassedNow /\ ThrownNow
  BY <1>1 DEF CarriedRest, PassedNow, ThrownNow, JoinInv, RoleIsHeld
<1>3. TwinsTogether' /\ SelectedWasDue'
  BY TwinsStay, SelectionStays
<1>4. \/ task' = Resting
      \/ /\ task'.at = "add" /\ task'.kind = "assignment" /\ task'.row = new
         /\ new.ready /\ new.terminal = "" /\ new.source \notin {"wave", "test"}
  <2>1. CASE task' = task
    BY <2>1 DEF Unlocked
  <2>2. CASE task' # task
    <3>1. task' = [at |-> "add", kind |-> "assignment", row |-> new]
      BY <2>2
    <3> QED BY <2>2, <3>1
  <2> QED BY <2>1, <2>2
<1>5. HolderFits'
  <2>1. CASE task' = Resting
    BY <2>1 DEF HolderFits, Resting
  <2>2. CASE task' # Resting
    <3>1. task'.at = "add" /\ task'.kind = "assignment" /\ task'.row = new /\ new.ready
      BY <1>4, <2>2
    <3> QED BY <1>1, <3>1 DEF HolderFits
  <2> QED BY <2>1, <2>2
<1>6. CarriedTask
  <2>1. CASE task' = Resting
    BY <2>1 DEF CarriedTask, Busy, Resting
  <2>2. CASE task' # Resting
    <3>1. /\ task'.at = "add" /\ task'.row = new
          /\ new.ready /\ new.terminal = "" /\ new.source \notin {"wave", "test"}
      BY <1>4, <2>2
    <3>2. Busy'
      BY <3>1 DEF Busy
    <3>3. CASE Res # NoRow
      BY <1>1, <3>1, <3>2, <3>3 DEF CarriedTask, Continues
    <3>4. CASE Res = NoRow /\ Asg # NoRow
      <4>1. Wane(new, Asg) /\ Asg.terminal = ""
        BY <3>1, <3>4 DEF Continues
      <4>2. Asg.state # "enrolling"
        BY <1>1, <3>1, <4>1 DEF Wane, JoinInv, EnrolmentsApart, FromPlan
      <4> QED BY <1>1, <3>1, <3>2, <4>1, <4>2 DEF CarriedTask
    <3>5. CASE Res = NoRow /\ Asg = NoRow
      BY <1>1, <3>1, <3>2, <3>5 DEF CarriedTask, Continues
    <3> QED BY <3>3, <3>4, <3>5
  <2> QED BY <2>1, <2>2
<1>7. policy.delay \/ AllAsked' \/ (Res = NoRow /\ Asg # NoRow)
  <2> SUFFICES ASSUME ~policy.delay, ~(Res = NoRow /\ Asg # NoRow)
               PROVE  AllAsked'
    OBVIOUS
  <2>1. Asg'.captcha /\ (Res' # NoRow => Res'.captcha)
    BY DEF Continues
  <2>2. Busy' => task'.row.captcha
    <3>1. task' = Resting => ~Busy'
      BY RestingAfter
    <3>2. new.captcha
      OBVIOUS
    <3> QED BY <1>4, <3>1, <3>2
  <2> QED BY <2>1, <2>2 DEF AllAsked
<1>8. CarriedRows
  <2>1. Wane(Res', Res)
    BY StoredIds
  <2>2. \/ Wane(Asg', Asg)
        \/ (Wane(Asg', Res) \/ Fresh(Asg')) /\ (policy.delay \/ AllAsked')
    BY <1>7 DEF Continues
  <2> QED BY <2>1, <2>2 DEF CarriedRows
<1> QED BY <1>2, <1>3, <1>5, <1>6, <1>8, CarriedKeeps DEF Carried

LEMMA JoinDirectly ==
  ASSUME WatchTypeOK, JoinInv, Unlocked, ~policy.delay, NEW new, Continues(new), ~new.captcha,
         rows' = rows, task' = [at |-> "direct", kind |-> "restriction", row |-> new],
         UNCHANGED <<policy, role, present, barred, picked, planned, thrown, passed>>
  PROVE  JoinInv'
<1>1. incidents' \in {incidents, incidents + 1} /\ new # NoRow
  BY DEF Continues, Fresh
<1>2. CarriedRest /\ PassedNow /\ ThrownNow
  BY <1>1 DEF CarriedRest, PassedNow, ThrownNow, JoinInv, RoleIsHeld
<1>3. Asg' = Asg /\ Res' = Res
  BY DEF Asg, Res
<1>4. TwinsTogether' /\ SelectedWasDue'
  <2>1. TwinsTogether'
    BY <1>3, RestingFacts DEF JoinInv, TwinsTogether, Twins
  <2> QED BY <2>1, SelectionStays
\* Without a delay an assignment would have a CAPTCHA.
<1>5. Asg = NoRow
  BY DEF JoinInv, AssignedHaveCaptcha, Continues
<1>6. task'.at = "direct" /\ task'.kind = "restriction" /\ task'.row = new
  OBVIOUS
<1>7. HolderFits'
  BY <1>3, <1>5, <1>6 DEF HolderFits
<1>8. CarriedTask
  BY <1>1, <1>3, <1>5, <1>6 DEF CarriedTask, Continues, Busy
<1>9. CarriedRows
  BY <1>3, StoredIds DEF CarriedRows
<1> QED BY <1>2, <1>4, <1>7, <1>8, <1>9, CarriedKeeps DEF Carried

LEMMA JoinKeeps ==
  ASSUME WatchTypeOK, JoinInv, Join
  PROVE  JoinInv'
<1> DEFINE opened == IF Existing = NoRow THEN Incident(incidents + 1, "join") ELSE Existing
           incident == [opened EXCEPT !.restore = rows["restriction"] # NoRow]
           ready == rows["assignment"] # NoRow /\ rows["assignment"].ready
           waiting == [incident EXCEPT !.ready = ready]
           now == [incident EXCEPT !.ready = TRUE]
<1>1. /\ Unlocked
      /\ UNCHANGED <<policy, role, present, barred, picked, planned, thrown, passed>>
  BY DEF Join
<1>2. ASSUME UNCHANGED <<rows, task>>, incidents' \in {incidents, incidents + 1}
      PROVE  JoinInv'
  <2>1. Asg' = Asg /\ Res' = Res
    BY <1>2 DEF Asg, Res
  <2>2. CarriedRows
    BY <2>1, StoredIds DEF CarriedRows
  <2>3. CarriedRest /\ PassedNow /\ ThrownNow
    BY <1>1, <1>2 DEF CarriedRest, PassedNow, ThrownNow, JoinInv, RoleIsHeld
  <2>4. TwinsTogether' /\ SelectedWasDue'
    <3>1. TwinsTogether'
      BY <1>1, <1>2, <2>1 DEF JoinInv, TwinsTogether, Twins
    <3> QED BY <1>1, <3>1, SelectionStays
  <2>5. Release
    BY <1>1, <1>2 DEF Unlocked, Release
  <2> QED BY <2>2, <2>3, <2>4, <2>5, LetGo, LessenedKeeps DEF Lessened, Carried
<1>3. CASE Skipped \/ ~present
  BY <1>2, <1>3 DEF Join
<1>4. CASE ~(Skipped \/ ~present)
  <2>1. /\ Existing # NoRow \/ incidents < MaxIncident
        /\ incidents' = IF Existing = NoRow THEN incidents + 1 ELSE incidents
    BY <1>4 DEF Join
  <2>2. opened \in Row
    <3>1. CASE Existing = NoRow
      <4>1. incidents + 1 \in 0..MaxIncident
        <5>1. incidents \in 0..MaxIncident /\ incidents < MaxIncident
          BY <2>1, <3>1 DEF WatchTypeOK
        <5> QED BY <5>1, BoundsNat
      <4> QED BY <3>1, <4>1, IncidentIsRow
    <3>2. CASE Existing # NoRow
      BY <3>2, RowsTyped DEF Existing, Asg, Res
    <3> QED BY <3>1, <3>2
  <2>3. IF Existing # NoRow THEN opened = Existing /\ incidents' = incidents ELSE Fresh(opened)
    <3>1. CASE Existing = NoRow
      <4> DEFINE i == incidents + 1
                 source == "join"
      <4>1. opened = Incident(i, source)
        BY <3>1
      <4> HIDE DEF i, source, opened
      <4>2. opened.id = i /\ opened.started = FALSE /\ opened.terminal = "" /\ opened.state = ""
        BY <4>1, IncidentFields
      <4> QED BY <2>1, <3>1, <4>2 DEF Fresh, i
    <3>2. CASE Existing # NoRow
      BY <2>1, <3>2
    <3> QED BY <3>1, <3>2
  <2>4. \/ UNCHANGED <<rows, task>>
        \/ policy.delay /\ ~role /\ rows' = [rows EXCEPT !["assignment"] = waiting] /\ UNCHANGED task
        \/ /\ incident.captcha /\ ~role
           /\ rows' = [rows EXCEPT !["assignment"] = now]
           /\ \/ task' = task
              \/ /\ task' = [at |-> "add", kind |-> "assignment", row |-> now]
                 /\ now.terminal = "" /\ now.source \notin {"wave", "test"}
        \/ /\ UNCHANGED rows /\ ~policy.delay /\ ~incident.captcha
           /\ task' = [at |-> "direct", kind |-> "restriction", row |-> incident]
    BY <1>4 DEF Join
  <2> DEFINE b == rows["restriction"] # NoRow
             c == TRUE
  <2>5. /\ Continues([opened EXCEPT !.restore = b])
        /\ Continues([[opened EXCEPT !.restore = b] EXCEPT !.ready = ready])
        /\ Continues([[opened EXCEPT !.restore = b] EXCEPT !.ready = c])
    <3> HIDE DEF opened, b, c, ready
    <3> QED BY <2>2, <2>3, ContinuesSo
  <2>6. Continues(incident) /\ Continues(waiting) /\ Continues(now)
    BY <2>5
  <2>7. incident.captcha = opened.captcha /\ now.captcha = incident.captcha /\ now.ready
    <3>1. incident \in Row
      <4> HIDE DEF opened
      <4> QED BY <2>2 DEF Row
    <3>2. now.captcha = incident.captcha /\ now.ready
      <4> HIDE DEF incident
      <4> QED BY <3>1 DEF Row
    <3>3. incident.captcha = opened.captcha
      <4> HIDE DEF opened
      <4> QED BY <2>2 DEF Row
    <3> QED BY <3>2, <3>3
  <2> HIDE DEF opened, incident, ready, waiting, now
  <2>8. CASE UNCHANGED <<rows, task>>
    BY <1>2, <2>1, <2>8
  <2>9. ASSUME NEW new, rows' = [rows EXCEPT !["assignment"] = new]
        PROVE  Asg' = new /\ Res' = Res
    BY <2>9, RowKinds DEF Asg, Res, WatchTypeOK
  <2>10. CASE policy.delay /\ ~role /\ rows' = [rows EXCEPT !["assignment"] = waiting] /\ UNCHANGED task
    <3>1. Asg' = waiting /\ Res' = Res
      BY <2>9, <2>10
    <3> QED BY <1>1, <2>6, <2>10, <3>1, JoinWaits
  <2>11. CASE /\ incident.captcha /\ ~role
              /\ rows' = [rows EXCEPT !["assignment"] = now]
              /\ \/ task' = task
                 \/ /\ task' = [at |-> "add", kind |-> "assignment", row |-> now]
                    /\ now.terminal = "" /\ now.source \notin {"wave", "test"}
    <3>1. Asg' = now /\ Res' = Res
      BY <2>9, <2>11
    <3> QED BY <1>1, <2>6, <2>7, <2>11, <3>1, JoinWaits
  <2>12. CASE /\ UNCHANGED rows /\ ~policy.delay /\ ~incident.captcha
              /\ task' = [at |-> "direct", kind |-> "restriction", row |-> incident]
    BY <1>1, <2>6, <2>12, JoinDirectly
  <2> QED BY <2>4, <2>8, <2>10, <2>11, <2>12
<1> QED BY <1>3, <1>4

\* Enrolments.
LEMMA NothingStored ==
  ASSUME WatchTypeOK, NEW source, FreeFor(source)
  PROVE  Asg = NoRow /\ Res = NoRow /\ ~role
BY RowKinds DEF FreeFor, NoRows, Asg, Res

LEMMA PlanKeeps ==
  ASSUME WatchTypeOK, JoinInv, NEW source \in {"wave", "test"}, Plan(source)
  PROVE  JoinInv'
<1>1. /\ Unlocked /\ FreeFor(source) /\ incidents < MaxIncident /\ incidents' = incidents + 1
      /\ planned' = Incident(incidents + 1, source)
      /\ UNCHANGED <<policy, role, present, barred, rows, picked, task, thrown, passed>>
  BY DEF Plan
<1>2. Asg' = Asg /\ Res' = Res /\ ~role
  BY <1>1, NothingStored DEF Asg, Res
<1>3. planned' \in Row
  <2>1. incidents + 1 \in 0..MaxIncident
    <3>1. incidents \in 0..MaxIncident
      BY DEF WatchTypeOK
    <3> QED BY <1>1, <3>1, BoundsNat
  <2> QED BY <1>1, <2>1, IncidentIsRow
<1>4. Fresh(planned') /\ planned'.source = source /\ planned'.captcha
  BY <1>1, IncidentFields DEF Fresh
<1>5. Release
  BY <1>1 DEF Unlocked, Release
<1>6. CarriedRest /\ PassedNow /\ ThrownNow
  BY <1>1, <1>2, <1>3, <1>4, <1>5, RestingAfter
     DEF CarriedRest, PassedNow, ThrownNow, Release, JoinInv, RoleIsHeld
<1>7. CarriedRows
  BY <1>2, StoredIds DEF CarriedRows
<1>8. TwinsTogether' /\ SelectedWasDue'
  BY <1>1, <1>2, TwinsStay, SelectionStays
<1> QED BY <1>5, <1>6, <1>7, <1>8, LetGo, LessenedKeeps DEF Lessened, Carried

LEMMA ScheduleGroupKeeps ==
  ASSUME WatchTypeOK, JoinInv, ScheduleGroup
  PROVE  JoinInv'
<1> DEFINE new == Incident(incidents + 1, "group")
           row == [new EXCEPT !.ready = ~policy.delay]
<1>1. /\ Unlocked /\ FreeFor("group") /\ incidents < MaxIncident /\ incidents' = incidents + 1
      /\ rows' = [rows EXCEPT !["assignment"] = row]
      /\ UNCHANGED <<policy, role, present, barred, planned, picked, task, thrown, passed>>
  BY DEF ScheduleGroup
<1>2. Asg = NoRow /\ Res = NoRow /\ ~role
  BY <1>1, NothingStored
<1>3. new \in Row /\ new.id = incidents + 1 /\ new.started = FALSE /\ new.terminal = ""
      /\ new.state = "" /\ new.captcha
  <2>1. incidents + 1 \in 0..MaxIncident
    <3>1. incidents \in 0..MaxIncident
      BY DEF WatchTypeOK
    <3> QED BY <1>1, <3>1, BoundsNat
  <2> QED BY <2>1, IncidentIsRow, IncidentFields
<1>4. Fresh(row) /\ row.captcha
  <2> HIDE DEF new
  <2> QED BY <1>1, <1>3 DEF Fresh, Row
<1> HIDE DEF new, row
<1>5. Asg' = row /\ Res' = Res
  BY <1>1, RowKinds DEF Asg, Res, WatchTypeOK
<1>6. Release
  BY <1>1 DEF Unlocked, Release
<1>7. AllAsked'
  BY <1>2, <1>4, <1>5, <1>6, RestingAfter DEF AllAsked, Release
<1>8. CarriedRows
  BY <1>4, <1>5, <1>7, StoredIds DEF CarriedRows
<1>9. CarriedRest /\ PassedNow /\ ThrownNow
  BY <1>1 DEF CarriedRest, PassedNow, ThrownNow, JoinInv, RoleIsHeld
<1>10. TwinsTogether' /\ SelectedWasDue'
  BY <1>1, <1>2, TwinsStay, SelectionStays
<1> QED BY <1>6, <1>8, <1>9, <1>10, LetGo, LessenedKeeps DEF Lessened, Carried

LEMMA EnrollingFields ==
  ASSUME NEW row \in Row
  PROVE  LET new == [row EXCEPT !.state = "enrolling", !.ready = TRUE]
         IN /\ new.id = row.id /\ new.source = row.source /\ new.captcha = row.captcha
            /\ new.started = row.started /\ new.state = "enrolling" /\ new.ready
BY DEF Row

LEMMA EnrollKeeps ==
  ASSUME WatchTypeOK, JoinInv, Enroll
  PROVE  JoinInv'
<1> DEFINE row == [planned EXCEPT !.state = "enrolling", !.ready = TRUE]
<1>1. /\ Unlocked /\ planned # NoRow /\ FreeFor(planned.source)
      /\ planned' = row /\ rows' = [rows EXCEPT !["assignment"] = row]
      /\ task' = [at |-> "enroll", kind |-> "assignment", row |-> row]
      /\ UNCHANGED <<policy, role, present, barred, picked, incidents, thrown, passed>>
  BY DEF Enroll
<1>2. /\ row.id = planned.id /\ row.source = planned.source /\ row.captcha = planned.captcha
      /\ row.started = planned.started /\ row.state = "enrolling" /\ row.ready
  BY EnrollingFields, RowsTyped
<1> HIDE DEF row
<1>3. planned.id # 0 /\ planned.id \in 1..incidents
  BY <1>1, DrawnIds DEF JoinInv, Numbered, Drawn
<1>4. /\ planned.source \in {"wave", "test"} /\ planned.captcha /\ ~planned.started
  BY <1>1 DEF JoinInv, PlanApart
<1>5. Asg = NoRow /\ Res = NoRow /\ ~role
  BY <1>1, NothingStored
<1>6. Asg' = row /\ Res' = NoRow /\ task'.at = "enroll" /\ task'.kind = "assignment" /\ task'.row = row
  BY <1>1, <1>5, RowKinds DEF Asg, Res, WatchTypeOK
<1>7. Busy' /\ ~Standing(row) /\ row # NoRow /\ NoRow.id = 0 /\ NoRow.state = "" /\ NoRow.started = FALSE
  BY <1>2, <1>3, <1>6, NoRowFields DEF Busy, Standing
<1>8. Numbered'
  BY <1>1, <1>2, <1>3, <1>6 DEF JoinInv, Numbered, Drawn
<1>9. EnrolmentsApart' /\ PlanApart'
  BY <1>1, <1>2, <1>3, <1>4, <1>6, <1>7 DEF EnrolmentsApart, FromPlan, PlanApart
<1>10. HolderFits' /\ AssignedHaveCaptcha' /\ TwinsTogether'
  BY <1>2, <1>4, <1>6, <1>7 DEF HolderFits, AssignedHaveCaptcha, TwinsTogether
<1>11. SelectedWasDue'
  BY <1>1, SelectionStays
<1>12. KickedIsSpent'
  <2>1. \A i \in 1..MaxIncident : i # 0
    OBVIOUS
  <2>2. Kicks => \A i \in 1..MaxIncident : thrown[i] > 0 => planned.id # i
    BY DEF JoinInv, KickedIsSpent
  <2> QED BY <1>1, <1>2, <1>6, <1>7, <2>1, <2>2 DEF KickedIsSpent, Kicks
<1>13. KicksAreLate'
  BY <1>2, <1>4, <1>6, <1>7 DEF KicksAreLate, StartedLate
<1>14. BannedIsOut' /\ RoleIsHeld' /\ NeverUnasked' /\ ThrownOutOnce'
  BY <1>1 DEF JoinInv, BannedIsOut, RoleIsHeld, NeverUnasked, ThrownOutOnce
<1>15. PassedWaits'
  <2>1. \A i \in passed : i # 0 /\ planned.id # i /\ (policy.action # "ban" => thrown[i] = 0)
    BY DEF WatchTypeOK, JoinInv, PassedWaits
  <2> QED BY <1>1, <1>2, <1>6, <1>7, <2>1 DEF PassedWaits
<1> QED BY <1>8, <1>9, <1>10, <1>11, <1>12, <1>13, <1>14, <1>15 DEF JoinInv

\* After a restart: a call in flight may have been carried out.
LEMMA RestartKeeps ==
  ASSUME WatchTypeOK, JoinInv, Restart
  PROVE  JoinInv'
<1>1. /\ planned' = NoRow /\ picked' = NoRows
      /\ UNCHANGED <<policy, rows, incidents, passed>>
      /\ \/ task' = Resting
         \/ /\ Res.state = "release_pending"
            /\ task' = [at |-> "lift", kind |-> "restriction", row |-> Res]
  BY DEF Restart, Restriction, Res
<1>2. PICK happened \in BOOLEAN : Cut(happened)
  BY DEF Restart
<1>3. Asg' = Asg /\ Res' = Res
  BY <1>1 DEF Asg, Res
<1>4. CarriedRows
  BY <1>3, StoredIds DEF CarriedRows
<1>5. task' = Resting \/ (task'.at = "lift" /\ task'.kind = "restriction" /\ task'.row = Res /\ Res # NoRow)
  <2>1. CASE task' = Resting
    BY <2>1
  <2>2. CASE task' # Resting
    <3>1. Res.state = "release_pending" /\ task' = [at |-> "lift", kind |-> "restriction", row |-> Res]
      BY <1>1, <2>2
    <3>2. Res # NoRow
      BY <3>1, NoRowFields
    <3>3. task'.at = "lift" /\ task'.kind = "restriction" /\ task'.row = Res
      BY <3>1
    <3> QED BY <3>2, <3>3
  <2> QED BY <2>1, <2>2
<1>6. CarriedTask
  <2>1. CASE task' = Resting
    BY <2>1, RestingAfter DEF CarriedTask
  <2>2. CASE task' # Resting
    BY <1>5, <2>2, StoredIds DEF CarriedTask, Busy
  <2> QED BY <2>1, <2>2
<1>7. HolderFits'
  <2>1. CASE task' = Resting
    BY <2>1, RestingAfter DEF HolderFits
  <2>2. CASE task' # Resting
    BY <1>5, <2>2 DEF HolderFits
  <2> QED BY <2>1, <2>2
<1>8. CarriedRest /\ PassedNow
  BY <1>1, <1>2 DEF CarriedRest, PassedNow, Cut
<1>9. ThrownNow
  <2>1. CASE happened /\ task.at = "punish" /\ present
    <3>1. Throw(task.row.id) /\ ~present' /\ (policy.action = "ban" => barred')
      BY <1>2, <2>1 DEF Cut
    <3>2. Busy' => task'.row = Res
      BY <1>5, RestingAfter
    <3> QED BY <1>1, <1>3, <2>1, <3>1, <3>2 DEF ThrownNow, Struck
  <2>2. CASE ~(happened /\ task.at = "punish" /\ present)
    BY <1>2, <2>2 DEF Cut, ThrownNow
  <2> QED BY <2>1, <2>2
<1>10. SelectedWasDue' /\ picked'["restriction"] = NoRow
  BY <1>1, RowKinds DEF SelectedWasDue, NoRows
<1>11. TwinsTogether'
  <2> SUFFICES ASSUME role', Standing(Asg), Twins
               PROVE  Asg.ready
    BY <1>3, <1>10 DEF TwinsTogether, Twins
  <2>1. role \/ task.at \in {"add", "direct", "enroll"}
    BY <1>2 DEF Cut
  <2>2. CASE role
    BY <2>2 DEF JoinInv, TwinsTogether
  <2>3. CASE task.at \in {"add", "direct", "enroll"}
    BY <2>3 DEF JoinInv, HolderFits, Standing
  <2> QED BY <2>1, <2>2, <2>3
<1> QED BY <1>4, <1>6, <1>7, <1>8, <1>9, <1>10, <1>11, CarriedKeeps DEF Carried

-----------------------------------------------------------------------------
(* The theorems *)

LEMMA JoinInvBegins ==
  ASSUME WatchInit
  PROVE  JoinInv
<1>1. /\ Asg = NoRow /\ Res = NoRow /\ planned = NoRow /\ task = Resting /\ ~Busy /\ task.at = ""
      /\ task.row = NoRow /\ ~role /\ passed = {}
      /\ picked["assignment"] = NoRow /\ picked["restriction"] = NoRow
      /\ \A i \in 1..MaxIncident : thrown[i] = 0
  <2>1. rows = NoRows /\ picked = NoRows /\ planned = NoRow /\ task = Resting /\ ~role /\ passed = {}
    BY DEF WatchInit
  <2>2. Asg = NoRow /\ Res = NoRow /\ picked["assignment"] = NoRow /\ picked["restriction"] = NoRow
    BY <2>1, RowKinds DEF NoRows, Asg, Res
  <2>3. task.at = "" /\ task.row = NoRow /\ ~Busy
    BY <2>1 DEF Resting, Busy
  <2>4. \A i \in 1..MaxIncident : thrown[i] = 0
    BY DEF WatchInit
  <2> QED BY <2>1, <2>2, <2>3, <2>4
<1>2. NoRow.id = 0 /\ NoRow.state = "" /\ NoRow.started = FALSE /\ NoRow.captcha = FALSE
  BY NoRowFields
<1>3. Numbered /\ EnrolmentsApart /\ PlanApart
  <2>1. ~(0 > 0)
    OBVIOUS
  <2> QED BY <1>1, <1>2, <2>1 DEF Numbered, Drawn, EnrolmentsApart, FromPlan, PlanApart
<1>4. HolderFits
  BY <1>1 DEF HolderFits
<1>5. AssignedHaveCaptcha /\ SelectedWasDue /\ TwinsTogether
  BY <1>1 DEF AssignedHaveCaptcha, SelectedWasDue, TwinsTogether, Standing
<1>6. KickedIsSpent /\ BannedIsOut /\ NeverUnasked /\ ThrownOutOnce
  <2>1. ~(0 > 0) /\ 0 <= 1
    OBVIOUS
  <2> QED BY <1>1, <2>1 DEF KickedIsSpent, BannedIsOut, NeverUnasked, ThrownOutOnce
<1>7. KicksAreLate /\ PassedWaits /\ RoleIsHeld
  BY <1>1, <1>2 DEF KicksAreLate, StartedLate, PassedWaits, RoleIsHeld
<1> QED BY <1>3, <1>4, <1>5, <1>6, <1>7 DEF JoinInv

LEMMA JoinInvKept ==
  ASSUME WatchTypeOK, JoinInv, [WatchNext]_watchVars
  PROVE  JoinInv'
<1>1. CASE Enter \/ Leave \/ TakeRole \/ ToggleDryRun \/ ArchiveFails \/ ArchiveRecovers
  BY <1>1, SurroundingsKeep
<1>2. CASE DelayEnds \/ DeadlinePasses \/ SessionEnds
  BY <1>2, TimePassesKeeps
<1>3. CASE Join \/ NoticeRemoval
  BY <1>3, JoinKeeps, NoticeKeeps
<1>4. CASE TimerStep
  BY <1>4, SettleKeeps, TimeAssignmentKeeps, TimeRestrictionKeeps DEF TimerStep
<1>5. CASE Select \/ GiveUpGroup
  BY <1>5, SelectKeeps, ForgettingKeeps
<1>6. CASE HolderStep
  BY <1>6, AddDirectlyKeeps, AddRoleKeeps, KeepRoleKeeps, ClearAssignmentKeeps, PunishKeeps,
     SealKeeps, LiftKeeps, VerifyKeeps, CloseKeeps, AddEnrolledKeeps DEF HolderStep
<1>7. CASE StartSession \/ ResumeRelease
  BY <1>7, SessionStartKeeps, ResumeReleaseKeeps
<1>8. ASSUME NEW s \in 1..MaxSession, NEW n \in {0, 1}, AnswerWrong(s, n) \/ AnswerRight(s, n)
      PROVE  JoinInv'
  BY <1>8, WrongAnswerKeeps, RightAnswerKeeps
<1>9. CASE ReleaseByHand \/ ReleaseAbsent \/ MarkManual
  BY <1>9, ReleaseByHandKeeps, ForgettingKeeps, MarkManualKeeps
<1>10. ASSUME NEW source \in {"wave", "test"}, Plan(source)
       PROVE  JoinInv'
  BY <1>10, PlanKeeps
<1>11. CASE CancelPlan \/ Enroll \/ ScheduleGroup \/ JoinGroup
  BY <1>11, CancelPlanKeeps, EnrollKeeps, ScheduleGroupKeeps, JoinGroupKeeps
<1>12. CASE EnableExisting \/ EraseRows \/ Restart
  BY <1>12, EnableKeeps, ForgettingKeeps, RestartKeeps
<1>13. CASE UNCHANGED watchVars
  <2>1. /\ rows' = rows /\ task' = task /\ planned' = planned /\ picked' = picked
        /\ UNCHANGED <<policy, incidents, thrown, passed, role, present, barred>>
    BY <1>13 DEF watchVars
  <2>2. Carried /\ HolderFits' /\ Asg' = Asg /\ Res' = Res
    BY <2>1, StillCarried DEF JoinInv, RoleIsHeld
  <2>3. TwinsTogether' /\ SelectedWasDue'
    <3>1. TwinsTogether'
      BY <2>1, <2>2 DEF JoinInv, TwinsTogether, Twins
    <3> QED BY <2>1, <3>1, SelectionStays
  <2> QED BY <2>2, <2>3, CarriedKeeps
<1> QED
  BY <1>1, <1>2, <1>3, <1>4, <1>5, <1>6, <1>7, <1>8, <1>9, <1>10, <1>11, <1>12, <1>13 DEF WatchNext

LEMMA RightlyByInvariant ==
  ASSUME WatchTypeOK, JoinInv
  PROVE  ThrownOutRightly
<1>1. ThrownOutOnce
  BY DEF JoinInv
<1>2. ASSUME NEW i \in passed
      PROVE  /\ policy.action = "ban" \/ thrown[i] = 0
             /\ task.at = "punish" /\ task.row.id = i =>
                  task.kind = "assignment" /\ task.row.state = "release_pending"
  <2>1. /\ policy.action # "ban" => thrown[i] = 0
        /\ Busy /\ task.row.id = i => task.row.state = "release_pending"
    BY DEF JoinInv, PassedWaits
  <2>2. task.at = "punish" /\ task.kind = "restriction" => task.row.state # "release_pending"
    BY DEF JoinInv, HolderFits
  <2>3. task.kind \in {"assignment", "restriction"}
    BY HolderFields, RowKinds DEF WatchTypeOK
  <2> QED BY <2>1, <2>2, <2>3 DEF Busy
<1> QED BY <1>1, <1>2 DEF ThrownOutRightly, PassedIsNotThrownOut

\* The state of JoinWatch is well-formed, for every guild setting and any number
\* of incidents, sessions, retries and events (honeypot/joinwatch.py,
\* honeypot/joinwatch_verification.py).
THEOREM WatchTypes == WatchSpec => []WatchTypeOK
<1>1. WatchInit => WatchTypeOK
  BY TypesBegin
<1>2. WatchTypeOK /\ JoinInv /\ [WatchNext]_watchVars => WatchTypeOK'
  BY TypesKept DEF JoinInv
<1>3. WatchInit => JoinInv
  BY JoinInvBegins
<1>4. WatchTypeOK /\ JoinInv /\ [WatchNext]_watchVars => JoinInv'
  BY JoinInvKept
<1> QED BY <1>1, <1>2, <1>3, <1>4, PTL DEF WatchSpec

\* No incident throws a member out twice, and one that he passed does so only
\* as a ban of an assignment that was left of it (_execute_joinwatch_action,
\* settle_history, select_due_joinwatch_assignments).
THEOREM ThrownOutOnlyRightly == WatchSpec => []ThrownOutRightly
<1>1. WatchInit => WatchTypeOK /\ JoinInv
  BY TypesBegin, JoinInvBegins
<1>2. WatchTypeOK /\ JoinInv /\ [WatchNext]_watchVars => (WatchTypeOK /\ JoinInv)'
  BY TypesKept, JoinInvKept DEF JoinInv
<1>3. WatchTypeOK /\ JoinInv => ThrownOutRightly
  BY RightlyByInvariant
<1> QED BY <1>1, <1>2, <1>3, PTL DEF WatchSpec

-----------------------------------------------------------------------------
(* The rows: LiveState *)

Inv == LiveTypeOK /\ MovedBack

LEMMA NothingIsTable == Nothing \in Table
BY DEF Nothing, Table

\* Writing one row or one kind keeps a table a table.
LEMMA RowWritten ==
  ASSUME NEW t \in Table, NEW k \in Kinds, NEW m \in Members, NEW v \in Payloads \cup {Missing}
  PROVE  [t EXCEPT ![k][m] = v] \in Table
BY DEF Table

LEMMA KindWritten ==
  ASSUME NEW t \in Table, NEW s \in Table, NEW k \in Kinds
  PROVE  [t EXCEPT ![k] = s[k]] \in Table
BY DEF Table

LEMMA WithoutIsTable ==
  ASSUME NEW t \in Table, NEW some, NEW m \in Members
  PROVE  /\ Without(t, some, m) \in Table
         /\ \A k \in Kinds, n \in Members : Without(t, some, m)[k][n] \in {t[k][n], Missing}
BY DEF Table, Without

LEMMA IdleIsJob == Idle \in Job /\ Idle.at = "idle"
BY NothingIsTable DEF Idle, Job

LEMMA HoldingIsJob ==
  ASSUME NEW at \in {"wipe", "export", "restore", "forget"}, NEW maps \in Table
  PROVE  /\ Holding(at, maps) \in Job /\ Holding(at, maps).at = at
         /\ Holding(at, maps).maps = maps /\ Holding(at, maps).todo = Kinds
BY DEF Holding, Job

LEMMA LaterIsJob ==
  ASSUME job \in Job, NEW k \in Kinds
  PROVE  /\ Later(k) \in Job /\ Later(k).at = job.at /\ Later(k).maps = job.maps
         /\ Later(k).todo = job.todo \ {k}
BY DEF Later, Job

-----------------------------------------------------------------------------
(* The invariant *)

\* LiveState starts with both backends empty and nobody moving rows.
LEMMA InitInv == LiveInit => Inv
BY NothingIsTable, IdleIsJob DEF LiveInit, Inv, LiveTypeOK, MovedBack

\* Every step of the code keeps the types and what a move back has written.
LEMMA StepInv == Inv /\ [LiveNext]_liveVars => Inv'
<1> SUFFICES ASSUME Inv, [LiveNext]_liveVars PROVE Inv'
  OBVIOUS
<1> USE NothingIsTable, IdleIsJob DEF Inv
<1>1. ASSUME NEW k \in Kinds, NEW m \in Members, NEW p \in Payloads \cup {Missing}, Free,
             IF marker THEN sqlite' = [sqlite EXCEPT ![k][m] = p] /\ UNCHANGED config
                       ELSE config' = [config EXCEPT ![k][m] = p] /\ UNCHANGED sqlite,
             UNCHANGED <<marker, backup, job>>
      PROVE  Inv'
  BY <1>1, RowWritten DEF LiveTypeOK, MovedBack, Free
<1>2. ASSUME NEW some, NEW m \in Members, EraseConfig(some, m) \/ EraseSqlite(some, m)
      PROVE  Inv'
  BY <1>2, WithoutIsTable DEF EraseConfig, EraseSqlite, LiveTypeOK, MovedBack, Free
<1>3. CASE ReloadMarked \/ LoadEmpty \/ Copy
  <2>1. Holding("wipe", Nothing) \in Job /\ Holding("wipe", Nothing).at = "wipe"
    BY HoldingIsJob
  <2>2. CASE ReloadMarked
    BY <2>1, <2>2 DEF ReloadMarked, LiveTypeOK, MovedBack
  <2>3. CASE LoadEmpty
    BY <2>3 DEF LoadEmpty, LiveTypeOK, MovedBack, Free
  <2>4. CASE Copy
    BY <2>1, <2>4 DEF Copy, LiveTypeOK, MovedBack
  <2> QED
    BY <1>3, <2>2, <2>3, <2>4
<1>4. ASSUME NEW k \in Kinds, Wipe(k)
      PROVE  Inv'
  <2>1. config' \in Table
    BY <1>4, KindWritten DEF Wipe, Emptied, LiveTypeOK
  <2>2. job' \in Job /\ job'.at \in {"idle", "wipe"}
    BY <1>4, LaterIsJob DEF Wipe, LiveTypeOK
  <2> QED
    BY <1>4, <2>1, <2>2 DEF Wipe, LiveTypeOK, MovedBack
<1>5. ASSUME NEW k \in Kinds, WriteBack(k)
      PROVE  Inv'
  <2>1. config \in Table /\ job.maps \in Table /\ job \in Job
    BY DEF LiveTypeOK, Job
  <2>2. config' \in Table
    BY <1>5, <2>1, KindWritten DEF WriteBack
  <2>3. job' \in Job /\ job'.at = job.at /\ job'.maps = job.maps /\ job'.todo = job.todo \ {k}
    BY <1>5, <2>1, LaterIsJob DEF WriteBack
  <2>4. \A n \in Kinds \ job'.todo : config'[n] = job.maps[n]
    BY <1>5, <2>1, <2>3 DEF WriteBack, MovedBack, Table
  <2> QED
    BY <1>5, <2>2, <2>3, <2>4 DEF WriteBack, LiveTypeOK, MovedBack
<1>6. ASSUME NEW k \in Kinds, ForgetKind(k)
      PROVE  Inv'
  <2>1. config \in Table /\ job \in Job
    BY DEF LiveTypeOK
  <2>2. config' \in Table
    BY <1>6, <2>1, KindWritten DEF ForgetKind, Emptied
  <2>3. job' \in Job /\ job'.at = "forget" /\ job'.todo = job.todo \ {k}
    BY <1>6, <2>1, LaterIsJob DEF ForgetKind
  <2>4. \A n \in Kinds \ job'.todo : config'[n] = Nothing[n]
    BY <1>6, <2>1, <2>3 DEF ForgetKind, Emptied, MovedBack, Table
  <2> QED
    BY <1>6, <2>2, <2>3, <2>4 DEF ForgetKind, LiveTypeOK, MovedBack
<1>7. CASE StartExport
  BY <1>7, HoldingIsJob DEF StartExport, LiveTypeOK, MovedBack
<1>8. CASE StartRestore
  BY <1>8, HoldingIsJob DEF StartRestore, LiveTypeOK, MovedBack
<1>9. CASE StartForget
  BY <1>9, HoldingIsJob DEF StartForget, LiveTypeOK, MovedBack
<1>10. CASE ClearCutover \/ ForgetGuild \/ Abandon
  BY <1>10 DEF ClearCutover, ForgetGuild, Abandon, LiveTypeOK, MovedBack
<1>11. CASE ExpireBackup
  BY <1>11 DEF ExpireBackup, LiveTypeOK, MovedBack
<1>12. CASE UNCHANGED liveVars
  BY <1>12 DEF liveVars, LiveTypeOK, MovedBack
<1> QED
  BY <1>1, <1>2, <1>3, <1>4, <1>5, <1>6, <1>7, <1>8, <1>9, <1>10, <1>11, <1>12
     DEF LiveNext, DeleteRow, WriteRow

\* The type and the invariant of a move hold in every reachable state.
THEOREM LiveInvariant == LiveSpec => []Inv
<1>1. Inv /\ [LiveNext]_liveVars => Inv'
  BY StepInv
<1> QED
  BY InitInv, <1>1, PTL DEF LiveSpec

-----------------------------------------------------------------------------
(* The refinement *)

LEMMA SameTables == Promise!Table = Table /\ Promise!Nothing = Nothing
BY DEF Promise!Table, Table, Promise!Nothing, Nothing

LEMMA LiveIsTable == Inv => Live \in Table
BY DEF Inv, LiveTypeOK, Live

\* Nothing a reader sees and nothing saved has changed.
LEMMA StutterStep ==
  ASSUME Live' = Live, Saved' = Saved
  PROVE  [Promise!Next]_<<Live, Saved>>
OBVIOUS

\* A step after which some rows, and perhaps the copy, are gone.
LEMMA DiscardStep ==
  ASSUME Live' \in Table, \A k \in Kinds, m \in Members : Live'[k][m] \in {Live[k][m], Missing},
         Saved' \in {Saved, NoCopy}
  PROVE  [Promise!Next]_<<Live, Saved>>
BY SameTables DEF Promise!Next, Promise!Discard

\* Every step of the two backends is a step of the one table or none.
LEMMA StepPromise ==
  ASSUME Inv, Inv', [LiveNext]_liveVars
  PROVE  [Promise!Next]_<<Live, Saved>>
<1>1. Live \in Table /\ Live' \in Table
  BY LiveIsTable DEF Inv, LiveTypeOK, Live
<1>2. ASSUME NEW k \in Kinds, NEW m \in Members, NEW p \in Payloads, WriteRow(k, m, p)
      PROVE  [Promise!Next]_<<Live, Saved>>
  <2>1. Live' = [Live EXCEPT ![k][m] = p] /\ Saved' = Saved
    BY <1>2 DEF WriteRow, Live, Saved
  <2> QED
    BY <2>1 DEF Promise!Next, Promise!Put
<1>3. ASSUME NEW k \in Kinds, NEW m \in Members, DeleteRow(k, m)
      PROVE  [Promise!Next]_<<Live, Saved>>
  <2>1. Live' = [Live EXCEPT ![k][m] = Missing] /\ Saved' = Saved
    BY <1>3 DEF DeleteRow, Live, Saved
  <2>2. \A j \in Kinds, n \in Members : Live'[j][n] \in {Live[j][n], Missing}
    BY <1>1, <2>1 DEF Table
  <2> QED
    BY <1>1, <2>1, <2>2, DiscardStep
<1>4. ASSUME NEW some, NEW m \in Members, EraseConfig(some, m) \/ EraseSqlite(some, m)
      PROVE  [Promise!Next]_<<Live, Saved>>
  <2>1. Saved' = Saved /\ marker' = marker
    BY <1>4 DEF EraseConfig, EraseSqlite, Saved
  <2>2. CASE Live' = Live
    BY <2>1, <2>2, StutterStep
  <2>3. CASE Live' = Without(Live, some, m)
    BY <1>1, <2>1, <2>3, WithoutIsTable, DiscardStep
  <2> QED
    BY <1>4, <2>1, <2>2, <2>3 DEF EraseConfig, EraseSqlite, Live
<1>5. CASE ReloadMarked \/ LoadEmpty \/ StartExport \/ StartForget
  <2>1. Live' = Live
    BY <1>5 DEF ReloadMarked, LoadEmpty, StartExport, StartForget, Live
  <2>2. Saved' = Saved
    BY <1>5, NothingIsTable, HoldingIsJob
       DEF ReloadMarked, LoadEmpty, StartExport, StartForget, Saved, Free, Inv, LiveTypeOK
  <2> QED
    BY <2>1, <2>2, StutterStep
<1>6. CASE Copy
  <2>1. Live' = Live
    BY <1>6 DEF Copy, Live
  <2>2. job.at # "restore" /\ job'.at # "restore"
    BY <1>6, NothingIsTable, HoldingIsJob DEF Copy, Free
  <2>3. Saved = backup /\ Saved' = backup' /\ Live = config
    BY <1>6, <2>2 DEF Copy, Saved, Live
  <2>4. CASE backup = NoCopy
    BY <1>6, <2>1, <2>3, <2>4 DEF Copy, Promise!Next, Promise!Save
  <2>5. CASE backup # NoCopy
    BY <1>6, <2>1, <2>3, <2>5, StutterStep DEF Copy
  <2> QED
    BY <2>4, <2>5
<1>7. ASSUME NEW k \in Kinds, Wipe(k)
      PROVE  [Promise!Next]_<<Live, Saved>>
  <2>1. Saved' = Saved
    BY <1>7, IdleIsJob, LaterIsJob DEF Wipe, Saved, Inv, LiveTypeOK
  <2>2. marker' = marker /\ (marker => Live' = Live)
    BY <1>7 DEF Wipe, Live
  <2>3. ASSUME ~marker PROVE \A j \in Kinds, n \in Members : Live'[j][n] \in {Live[j][n], Missing}
    <3>1. Live = config /\ Live' = [config EXCEPT ![k] = Nothing[k]]
      BY <1>7, <2>3 DEF Wipe, Live, Emptied
    <3> QED
      BY <1>1, <3>1 DEF Nothing, Table
  <2> QED
    BY <1>1, <2>1, <2>2, <2>3, StutterStep, DiscardStep
<1>8. ASSUME NEW k \in Kinds, ForgetKind(k)
      PROVE  [Promise!Next]_<<Live, Saved>>
  <2>1. Saved' = Saved
    BY <1>8, LaterIsJob DEF ForgetKind, Saved, Inv, LiveTypeOK
  <2>2. marker' = marker /\ (marker => Live' = Live)
    BY <1>8 DEF ForgetKind, Live
  <2>3. ASSUME ~marker PROVE \A j \in Kinds, n \in Members : Live'[j][n] \in {Live[j][n], Missing}
    <3>1. Live = config /\ Live' = [config EXCEPT ![k] = Nothing[k]]
      BY <1>8, <2>3 DEF ForgetKind, Live, Emptied
    <3> QED
      BY <1>1, <3>1 DEF Nothing, Table
  <2> QED
    BY <1>1, <2>1, <2>2, <2>3, StutterStep, DiscardStep
<1>9. CASE StartRestore
  <2>1. Live' = Live
    BY <1>9 DEF StartRestore, Live
  <2>2. Saved' = Saved
    BY <1>9, HoldingIsJob DEF StartRestore, Saved, Free, Inv, LiveTypeOK
  <2> QED
    BY <2>1, <2>2, StutterStep
<1>10. ASSUME NEW k \in Kinds, WriteBack(k)
       PROVE  [Promise!Next]_<<Live, Saved>>
  <2>1. marker /\ marker' = marker /\ Live' = Live
    BY <1>10 DEF WriteBack, Live, Inv, MovedBack
  <2>2. Saved' = Saved
    BY <1>10, LaterIsJob DEF WriteBack, Saved, Inv, LiveTypeOK
  <2> QED
    BY <2>1, <2>2, StutterStep
<1>11. CASE ClearCutover
  <2>1. config = job.maps /\ marker
    BY <1>11 DEF ClearCutover, Inv, MovedBack, LiveTypeOK, Job, Table
  <2>2. Live = sqlite /\ Live' = job.maps
    BY <1>11, <2>1 DEF ClearCutover, Live
  <2>3. Saved' = backup
    BY <1>11, IdleIsJob DEF ClearCutover, Saved
  <2>4. CASE job.at = "export"
    BY <1>11, <2>2, <2>3, <2>4, StutterStep DEF ClearCutover, Saved, Inv, MovedBack
  <2>5. CASE job.at = "restore"
    <3>1. Saved = job.maps /\ Saved # NoCopy /\ Saved' \in {Saved, NoCopy}
      BY <2>3, <2>5, LiveAssumption DEF Saved, Inv, MovedBack, LiveTypeOK, Job, Table
    <3> QED
      BY <2>2, <3>1 DEF Promise!Next, Promise!GoBack
  <2> QED
    BY <1>11, <2>4, <2>5 DEF ClearCutover
<1>12. CASE ForgetGuild
  <2>1. config = Nothing /\ Live' = Nothing
    BY <1>12, NothingIsTable DEF ForgetGuild, Live, Inv, MovedBack, LiveTypeOK, Table
  <2>2. Saved' = NoCopy
    BY <1>12, IdleIsJob DEF ForgetGuild, Saved
  <2>3. \A j \in Kinds, n \in Members : Live'[j][n] \in {Live[j][n], Missing}
    BY <2>1 DEF Nothing
  <2> QED
    BY <1>1, <2>2, <2>3, DiscardStep
<1>13. CASE ExpireBackup \/ Abandon
  <2>1. Live' = Live
    BY <1>13 DEF ExpireBackup, Abandon, Live
  <2>2. Saved' \in {Saved, NoCopy}
    BY <1>13, IdleIsJob DEF ExpireBackup, Abandon, Saved, Inv, MovedBack
  <2> QED
    BY <1>1, <2>1, <2>2, DiscardStep
<1>14. CASE UNCHANGED liveVars
  BY <1>14, StutterStep DEF liveVars, Live, Saved
<1> QED
  BY <1>2, <1>3, <1>4, <1>5, <1>6, <1>7, <1>8, <1>9, <1>10, <1>11, <1>12, <1>13, <1>14 DEF LiveNext

\* Whatever the accounts, the kinds and the contents, the two backends behave
\* as one table (cutover_live_state, export_live_state, restore_live_backup).
THEOREM LiveKeepsPromise == LiveSpec => MoveInvisible
<1>1. LiveInit => Promise!Init
  BY SameTables, IdleIsJob DEF LiveInit, Promise!Init, Live, Saved
<1>2. Inv /\ Inv' /\ [LiveNext]_liveVars => [Promise!Next]_<<Live, Saved>>
  BY StepPromise
<1> QED
  BY <1>1, <1>2, LiveInvariant, PTL DEF LiveSpec, MoveInvisible, Promise!Spec
=============================================================================
