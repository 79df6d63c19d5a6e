------------------------ MODULE OperationQueueProofs ------------------------
(***************************************************************************)
(* Proofs about OperationQueue, for any rows, tasks and bounds.            *)
(***************************************************************************)
EXTENDS OperationQueue, FiniteSetTheorems, TLAPS

-----------------------------------------------------------------------------
(* What the record updates do *)

\* A claim marks the row running under the token; it keeps the effect marker.
LEMMA ClaimedRow ==
  ASSUME NEW r \in Row, NEW t \in Nat
  PROVE  /\ Claimed(r, t) \in Row
         /\ Claimed(r, t).token = t
         /\ Claimed(r, t).effect = r.effect
<1>1. Claimed(r, t) \in Row
  <2>1. ASSUME NEW n \in Nat
        PROVE  [r EXCEPT !.status = "running", !.attempts = n, !.token = t,
                         !.stale = FALSE] \in Row
    BY DEF Row, Statuses
  <2>2. r.attempts + 1 \in Nat
    BY DEF Row
  <2> QED
    BY <2>1, <2>2 DEF Claimed
<1>2. Claimed(r, t).token = t /\ Claimed(r, t).effect = r.effect
  BY DEF Claimed, Row
<1> QED
  BY <1>1, <1>2

\* A settlement clears the token and keeps the effect marker.
LEMMA SettledRow ==
  ASSUME NEW r \in Row, NEW out
  PROVE  /\ Failed(r, out) \in Row /\ Failed(r, out).token = 0
         /\ Failed(r, out).effect = r.effect
         /\ Deferred(r) \in Row /\ Deferred(r).token = 0
         /\ Deferred(r).effect = r.effect
         /\ Succeeded(r, out).token = 0 /\ Succeeded(r, out).effect = r.effect
         /\ out \in Successes => Succeeded(r, out) \in Row
<1>1. Failed(r, out) \in Row
  BY DEF Failed, Row, Statuses
<1>2. Failed(r, out).token = 0 /\ Failed(r, out).effect = r.effect
  BY DEF Failed, Row
<1>3. Deferred(r) \in Row
  <2>1. ASSUME NEW n \in Nat
        PROVE  [r EXCEPT !.status = "pending", !.retryAt = "future", !.attempts = n,
                         !.token = 0, !.stale = FALSE] \in Row
    BY DEF Row, Statuses
  <2>2. (IF r.attempts > 0 THEN r.attempts - 1 ELSE 0) \in Nat
    BY DEF Row
  <2> QED
    BY <2>1, <2>2 DEF Deferred
<1>4. Deferred(r).token = 0 /\ Deferred(r).effect = r.effect
  BY DEF Deferred, Row
<1>5. Succeeded(r, out).token = 0 /\ Succeeded(r, out).effect = r.effect
  BY DEF Succeeded, Row
<1>6. out \in Successes => Succeeded(r, out) \in Row
  BY DEF Succeeded, Row, Statuses
<1> QED
  BY <1>1, <1>2, <1>3, <1>4, <1>5, <1>6

\* Moving on keeps the row and the token an executor holds.
LEMMA MovedExec ==
  ASSUME NEW e \in Exec, NEW s \in Stages
  PROVE  /\ Moved(e, s) \in Exec
         /\ Moved(e, s).stage = s
         /\ Moved(e, s).op = e.op
         /\ Moved(e, s).token = e.token
         /\ Moved(e, s).outcome = e.outcome
         /\ Moved(e, s).sawEffect = e.sawEffect
BY DEF Moved, Leased, Exec

\* Reporting an outcome keeps the row and the token the executor holds.
LEMMA ReportedExec ==
  ASSUME NEW e \in Exec, NEW s \in Stages, NEW out \in Outcomes
  PROVE  /\ Reported(e, s, out) \in Exec
         /\ Reported(e, s, out).stage = s
         /\ Reported(e, s, out).op = e.op
         /\ Reported(e, s, out).token = e.token
         /\ Reported(e, s, out).outcome = out
BY DEF Reported, Leased, Exec

\* An executor at rest holds nothing.
LEMMA IdleExec ==
  /\ Idle \in Exec /\ Idle.stage = "idle" /\ Idle.op = NoOp /\ Idle.token = 0
  /\ Idle.beating = FALSE
BY DEF Idle, Exec, Stages, Outcomes

\* An executor that begins holds the row it was given, under its token.
LEMMA StartedExec ==
  ASSUME NEW o \in Op, NEW t \in Nat
  PROVE  /\ Started(o, t) \in Exec /\ Started(o, t).stage = "load"
         /\ Started(o, t).op = o /\ Started(o, t).token = t
BY DEF Started, Exec, Stages, Outcomes

\* Reading the effect marker keeps the row and the token.
LEMMA ReadExec ==
  ASSUME NEW e \in Exec, NEW b \in BOOLEAN
  PROVE  LET f == [e EXCEPT !.stage = "decide", !.sawEffect = b]
         IN  /\ f \in Exec /\ f.stage = "decide" /\ f.sawEffect = b
             /\ f.op = e.op /\ f.token = e.token
BY DEF Exec, Stages

\* A heartbeat that dies changes nothing else of its executor.
LEMMA DeadExec ==
  ASSUME NEW e \in Exec
  PROVE  LET f == [e EXCEPT !.beating = FALSE]
         IN  /\ f \in Exec /\ f.stage = e.stage /\ f.sawEffect = e.sawEffect
             /\ f.op = e.op /\ f.token = e.token /\ f.outcome = e.outcome
BY DEF Exec

\* Setting the marker, ageing a claim and a retry time coming due keep the token.
LEMMA TouchedRow ==
  ASSUME NEW r \in Row
  PROVE  /\ [r EXCEPT !.effect = TRUE] \in Row
         /\ [r EXCEPT !.effect = TRUE].token = r.token
         /\ [r EXCEPT !.effect = TRUE].effect = TRUE
         /\ [r EXCEPT !.stale = TRUE] \in Row
         /\ [r EXCEPT !.stale = TRUE].token = r.token
         /\ [r EXCEPT !.stale = TRUE].effect = r.effect
         /\ [r EXCEPT !.retryAt = "due"] \in Row
         /\ [r EXCEPT !.retryAt = "due"].token = r.token
         /\ [r EXCEPT !.retryAt = "due"].effect = r.effect
<1>1. /\ [r EXCEPT !.effect = TRUE] \in Row
      /\ [r EXCEPT !.effect = TRUE].token = r.token
      /\ [r EXCEPT !.effect = TRUE].effect = TRUE
  BY DEF Row
<1>2. /\ [r EXCEPT !.stale = TRUE] \in Row
      /\ [r EXCEPT !.stale = TRUE].token = r.token
      /\ [r EXCEPT !.stale = TRUE].effect = r.effect
  BY DEF Row
<1>3. /\ [r EXCEPT !.retryAt = "due"] \in Row
      /\ [r EXCEPT !.retryAt = "due"].token = r.token
      /\ [r EXCEPT !.retryAt = "due"].effect = r.effect
  BY DEF Row
<1> QED
  BY <1>1, <1>2, <1>3

-----------------------------------------------------------------------------
(* The invariant *)

\* Most steps leave every row's marker alone, give no row a new token, let some
\* executors rest and move the others to stages the invariant says nothing of.
\* They cannot disturb it.
QuietRow(r, s) == s.effect = r.effect /\ s.token \in {r.token, 0}

QuietExec(e, f) ==
    \/ f = Idle
    \/ /\ e.stage # "idle" => f.stage # "idle" /\ f.op = e.op /\ f.token = e.token
       /\ e.stage = "idle" => f = e
       /\ \/ f.stage \notin {"decide", "start", "call"}
          \/ f.stage = e.stage /\ f.sawEffect = e.sawEffect

\* A step whose rows and executors all change quietly preserves the invariant.
LEMMA QuietStep ==
  ASSUME KickInv, TypeOK',
         \A o \in Op : QuietRow(row[o], row'[o]),
         claims' = claims,
         \A w \in Worker : QuietExec(exec[w], exec'[w]),
         \A w \in Worker : exec'[w].stage = "success" =>
                              exec'[w].outcome \in Successes,
         batch' \subseteq batch,
         \A o \in Kicks : requests'[o] = requests[o]
  PROVE  KickInv'
<1> USE DEF KickInv
<1>1. \A w \in Worker : Active(w)' =>
         Active(w) /\ exec'[w].op = exec[w].op /\ exec'[w].token = exec[w].token
  BY IdleExec DEF QuietExec, Active
<1>2. Bound'
  BY <1>1 DEF Bound, At, QuietExec, Active
<1>3. Issued'
  BY <1>1 DEF Issued, QuietRow, TypeOK, Row
<1>4. Distinct'
  BY <1>1 DEF Distinct
<1>5. \A w \in Worker, s \in {"decide", "start", "call"} :
         KickAt(w, s)' => KickAt(w, s) /\ Active(w)'
                          /\ exec'[w].sawEffect = exec[w].sawEffect
  BY IdleExec, <1>1 DEF KickAt, QuietExec, Active
<1>6. Marked'
  <2>1. \A o \in Op : row'[o].effect = row[o].effect /\ row'[o].token \in {row[o].token, 0}
    BY DEF QuietRow
  <2>2. \A o \in Kicks : requests'[o] > 0 => row'[o].effect
    BY <2>1 DEF Marked, Kicks
  <2>3. ASSUME NEW w \in Worker, Active(w)'
        PROVE  /\ exec'[w].op = exec[w].op /\ exec'[w].token = exec[w].token
               /\ exec[w].op \in Op /\ exec[w].token > 0
    BY <1>1, <2>3 DEF Bound
  <2>4. ASSUME NEW w \in Worker,
               KickAt(w, "start")' \/ (KickAt(w, "decide")' /\ ~exec'[w].sawEffect),
               row'[exec'[w].op].token = exec'[w].token
        PROVE  ~row'[exec'[w].op].effect
    BY <1>5, <2>1, <2>3, <2>4 DEF Marked
  <2>5. ASSUME NEW w \in Worker, KickAt(w, "call")'
        PROVE  row'[exec'[w].op].effect /\ requests'[exec'[w].op] = 0
    <3>1. KickAt(w, "call") /\ Active(w)'
      BY <1>5, <2>5
    <3>2. exec[w].op \in Kicks
      BY <2>3, <3>1 DEF KickAt, Kicks
    <3> QED
      BY <2>1, <2>3, <3>1, <3>2 DEF Marked
  <2>6. ASSUME NEW v \in Worker, NEW w \in Worker,
               KickAt(v, "call")', KickAt(w, "call")', exec'[v].op = exec'[w].op
        PROVE  v = w
    BY <1>5, <2>3, <2>6 DEF Marked
  <2> QED
    BY <2>2, <2>4, <2>5, <2>6 DEF Marked
<1>7. KickAtMostOnce'
  BY DEF KickAtMostOnce, Kicks
<1> QED
  BY <1>2, <1>3, <1>4, <1>6, <1>7

\* Claiming one row: the new token exceeds every token in use, so whoever held
\* the row's previous claim has lost it.
LEMMA ClaimStep ==
  ASSUME KickInv, NEW w \in Worker, NEW o \in Op, NEW reached,
         ClaimWith(w, o, reached)
  PROVE  KickInv'
<1> USE DEF KickInv
<1> DEFINE t == claims + 1
<1>1. t \in Nat /\ t > claims
  BY DEF TypeOK
<1>2. /\ row' = [row EXCEPT ![o] = Claimed(row[o], t)]
      /\ exec' = [exec EXCEPT ![w] = Started(o, t)]
      /\ claims' = t
      /\ UNCHANGED <<batch, stopped, sourcePending, attention, deleting, member, requests, faults>>
      /\ ~Active(w)
  BY DEF ClaimWith, Begin, caseVars, loopVars, discord, Active
<1> HIDE DEF t
<1>3. row[o] \in Row
  BY DEF TypeOK
<1>4. TypeOK'
  BY <1>1, <1>2, <1>3, ClaimedRow, StartedExec DEF TypeOK
<1>5. /\ exec'[w] = Started(o, t)
      /\ \A v \in Worker \ {w} : exec'[v] = exec[v]
      /\ row'[o].token = t /\ row'[o].effect = row[o].effect
      /\ \A p \in Op \ {o} : row'[p] = row[p]
  BY <1>1, <1>2, <1>3, ClaimedRow DEF TypeOK
<1>6. exec'[w].stage = "load" /\ exec'[w].op = o /\ exec'[w].token = t
  BY <1>1, <1>5, StartedExec
<1>7. \A p \in Op : row'[p].effect = row[p].effect
  BY <1>5
<1>8. Bound'
  BY <1>1, <1>2, <1>5, <1>6 DEF Bound, Active, At, TypeOK
<1>9. Issued'
  BY <1>1, <1>2, <1>5, <1>6 DEF Issued, Active, TypeOK, Row, Exec
<1>10. Distinct'
  BY <1>1, <1>2, <1>5, <1>6 DEF Distinct, Issued, Active, TypeOK, Exec
<1>11. Marked'
  <2>1. \A v \in Worker, s \in {"decide", "start", "call"} :
           KickAt(v, s)' => /\ KickAt(v, s) /\ exec'[v] = exec[v] /\ v # w
                            /\ exec[v].token <= claims /\ exec[v].op \in Op
    BY <1>5, <1>6 DEF KickAt, Issued, Bound, Active
  <2>2. \A v \in Worker :
           (/\ KickAt(v, "start")' \/ KickAt(v, "decide")'
            /\ row'[exec'[v].op].token = exec'[v].token)
           => row[exec[v].op].token = exec[v].token /\ exec[v].op # o
    BY <1>1, <1>5, <2>1 DEF TypeOK, Exec
  <2> QED
    BY <1>2, <1>5, <1>7, <2>1, <2>2 DEF Marked, KickAt
<1>12. KickAtMostOnce'
  BY <1>2 DEF KickAtMostOnce
<1> QED
  BY <1>4, <1>8, <1>9, <1>10, <1>11, <1>12

\* Claiming a batch: the same, for several rows and as many fresh tokens.
LEMMA BatchStep ==
  ASSUME KickInv, ClaimDue
  PROVE  KickInv'
<1> USE DEF KickInv
<1>1. PICK S \in SUBSET Op :
         \E t \in [S -> (claims + 1) .. (claims + Cardinality(S))] :
            /\ \A o, p \in S : o # p => t[o] # t[p]
            /\ claims' = claims + Cardinality(S)
            /\ row' = [o \in Op |-> IF o \in S THEN Claimed(row[o], t[o]) ELSE row[o]]
            /\ batch' = {<<o, t[o]>> : o \in S}
  BY DEF ClaimDue
<1>0. PICK t \in [S -> (claims + 1) .. (claims + Cardinality(S))] :
         /\ \A o, p \in S : o # p => t[o] # t[p]
         /\ claims' = claims + Cardinality(S)
         /\ row' = [o \in Op |-> IF o \in S THEN Claimed(row[o], t[o]) ELSE row[o]]
         /\ batch' = {<<o, t[o]>> : o \in S}
  BY <1>1
<1>2. /\ batch = {}
      /\ UNCHANGED <<exec, stopped, sourcePending, attention, deleting, member, requests, faults>>
  BY DEF ClaimDue, caseVars, loopVars, discord
<1>3. Cardinality(S) \in Nat
  BY OpAssumption, FS_Subset, FS_CardinalityType
<1>4. /\ claims' \in Nat /\ claims' >= claims
      /\ \A o \in S : t[o] \in Nat /\ t[o] > claims /\ t[o] <= claims' /\ t[o] > 0
  BY <1>0, <1>3 DEF TypeOK
<1>5. \A o \in Op : row[o] \in Row
  BY DEF TypeOK
<1>6. /\ \A o \in Op : row'[o] \in Row /\ row'[o].effect = row[o].effect
      /\ \A o \in S : row'[o].token = t[o]
      /\ \A o \in Op \ S : row'[o] = row[o]
  BY <1>0, <1>4, <1>5, ClaimedRow
<1>7. row' \in [Op -> Row]
  BY <1>0, <1>6
<1>8. \A b \in batch' : /\ b \in Op \X Nat /\ b[1] \in S /\ b[2] = t[b[1]]
                        /\ b = <<b[1], b[2]>>
  BY <1>0, <1>4
<1>9. TypeOK'
  BY <1>2, <1>4, <1>7, <1>8 DEF TypeOK
<1>10. Bound'
  BY <1>2, <1>4, <1>8 DEF Bound, Active, At
<1>11. Issued'
  BY <1>2, <1>4, <1>5, <1>6, <1>8 DEF Issued, Active, TypeOK, Exec, Row
<1>12. Distinct'
  <2>1. \A w \in Worker, b \in batch' : Active(w)' => exec'[w].token # b[2]
    BY <1>2, <1>4, <1>8 DEF Issued, Active, TypeOK, Exec
  <2>2. \A b, d \in batch' : b[2] = d[2] => b = d
    BY <1>0, <1>8
  <2> QED
    BY <1>2, <2>1, <2>2 DEF Distinct, Active
<1>13. Marked'
  <2>1. \A w \in Worker : (Active(w) /\ exec[w].op \in S)
           => row'[exec[w].op].token # exec[w].token
    BY <1>4, <1>6 DEF Issued, TypeOK, Exec
  <2> QED
    BY <1>2, <1>6, <2>1 DEF Marked, KickAt, Bound, Active, Kicks
<1>14. KickAtMostOnce'
  BY <1>2 DEF KickAtMostOnce
<1> QED
  BY <1>9, <1>10, <1>11, <1>12, <1>13, <1>14

\* Beginning a row of the batch hands its token from the batch to the loop.
LEMMA TakeStep ==
  ASSUME KickInv, NEW o, NEW t, TakeFromBatch(o, t)
  PROVE  KickInv'
<1> USE DEF KickInv
<1>1. /\ <<o, t>> \in batch /\ o \in Op /\ t \in Nat /\ t > 0 /\ t <= claims
      /\ batch' = batch \ {<<o, t>>}
      /\ exec' = [exec EXCEPT ![Loop] = Started(o, t)]
      /\ UNCHANGED <<row, claims, stopped, sourcePending, attention, deleting, member,
                     requests, faults>>
      /\ ~Active(Loop) /\ Loop \in Worker
  BY DEF TakeFromBatch, Begin, caseVars, loopVars, discord, table, Active, TypeOK, Bound, Issued, Worker
<1>2. TypeOK'
  BY <1>1, StartedExec DEF TypeOK
<1>3. /\ exec'[Loop].stage = "load" /\ exec'[Loop].op = o /\ exec'[Loop].token = t
      /\ \A v \in Worker \ {Loop} : exec'[v] = exec[v]
  BY <1>1, StartedExec DEF TypeOK
<1>4. Bound'
  BY <1>1, <1>3 DEF Bound, Active, At
<1>5. Issued'
  BY <1>1, <1>3 DEF Issued, Active
<1>6. Distinct'
  <2>1. \A b \in batch' : b \in batch /\ b[2] # t
    BY <1>1 DEF Distinct
  <2> QED
    BY <1>1, <1>3, <2>1 DEF Distinct, Active
<1>7. Marked'
  BY <1>1, <1>3 DEF Marked, KickAt
<1>8. KickAtMostOnce'
  BY <1>1 DEF KickAtMostOnce
<1> QED
  BY <1>2, <1>4, <1>5, <1>6, <1>7, <1>8

\* The variables the invariant only types.
EnvOK ==
    /\ sourcePending \in BOOLEAN /\ attention \in BOOLEAN /\ deleting \in BOOLEAN
    /\ stopped \in BOOLEAN
    /\ member \in {"in", "out", "banned"}
    /\ faults \in 0 .. MaxFaults

\* One executor moves to a stage the invariant says nothing of.
LEMMA QuietMove ==
  ASSUME KickInv, EnvOK', NEW w \in Worker, Active(w), NEW e \in Exec,
         e.stage \notin {"idle", "decide", "start", "call"},
         e.op = exec[w].op, e.token = exec[w].token,
         e.stage = "success" => e.outcome \in Successes,
         exec' = [exec EXCEPT ![w] = e],
         UNCHANGED <<row, claims, batch, requests>>
  PROVE  KickInv'
<1>1. TypeOK'
  BY DEF KickInv, TypeOK, EnvOK
<1>2. /\ exec'[w] = e
      /\ \A v \in Worker \ {w} : exec'[v] = exec[v]
  BY DEF KickInv, TypeOK
<1>3. \A v \in Worker : QuietExec(exec[v], exec'[v])
  BY <1>2 DEF QuietExec, Active
<1>4. \A v \in Worker : exec'[v].stage = "success" => exec'[v].outcome \in Successes
  BY <1>2 DEF KickInv, Bound, At
<1>5. \A o \in Op : QuietRow(row[o], row'[o])
  BY DEF QuietRow
<1> QED
  BY <1>1, <1>3, <1>4, <1>5, QuietStep

\* A step that reports an outcome and sends nothing preserves the invariant.
LEMMA QuietReport ==
  ASSUME KickInv, EnvOK', NEW w \in Worker, Active(w),
         NEW s \in Stages \ {"idle", "decide", "start", "call"}, NEW o \in Outcomes,
         s = "success" => o \in Successes,
         Report(w, s, o),
         UNCHANGED <<row, claims, batch, requests>>
  PROVE  KickInv'
<1>1. exec[w] \in Exec
  BY DEF KickInv, TypeOK
<1> DEFINE e == Reported(exec[w], s, o)
<1>2. /\ e \in Exec /\ e.stage = s /\ e.op = exec[w].op /\ e.token = exec[w].token
      /\ e.outcome = o
  BY <1>1, ReportedExec
<1>3. exec' = [exec EXCEPT ![w] = e]
  BY DEF Report
<1> HIDE DEF e
<1> QED
  BY <1>2, <1>3, QuietMove

\* A step that merely goes on to a quiet stage preserves the invariant.
LEMMA QuietGoto ==
  ASSUME KickInv, EnvOK', NEW w \in Worker, Active(w),
         NEW s \in Stages \ {"idle", "decide", "start", "call"},
         s = "success" => exec[w].outcome \in Successes,
         Goto(w, s),
         UNCHANGED <<row, claims, batch, requests>>
  PROVE  KickInv'
<1>1. exec[w] \in Exec
  BY DEF KickInv, TypeOK
<1> QED
  BY <1>1, MovedExec, QuietMove DEF Goto

\* Steps of an executor that neither touch a row nor send a request.
LEMMA ReadingStep ==
  ASSUME KickInv, NEW w \in Worker,
         \/ LoadCase(w) \/ ContentUnavailable(w) \/ KickOutcomeUnknown(w) \/ DryRun(w)
         \/ BanAlreadyApplied(w) \/ KickTargetMissing(w) \/ HandlerRaises(w)
         \/ CallPlanned(w) \/ CallForbidden(w) \/ Work(w) \/ PurgeFails(w)
         \/ FlagAttention(w)
  PROVE  KickInv'
<1> USE DEF Read, At, Active, Fault, table, caseVars, loopVars, discord
<1>1. EnvOK
  BY DEF KickInv, TypeOK, EnvOK
<1>2. CASE LoadCase(w)
  <2>1. EnvOK'
    BY <1>1, <1>2 DEF LoadCase, EnvOK
  <2>2. PICK s \in {"read", "work"} : Goto(w, s)
    BY <1>2 DEF LoadCase
  <2> QED
    BY <1>2, <2>1, <2>2, QuietGoto DEF LoadCase, Stages
<1>3. CASE ContentUnavailable(w)
  <2>1. EnvOK'
    BY <1>1, <1>3, BoundAssumption DEF ContentUnavailable, EnvOK
  <2> QED
    BY <1>3, <2>1, QuietGoto DEF ContentUnavailable, Stages
<1>4. CASE DryRun(w) \/ BanAlreadyApplied(w) \/ KickTargetMissing(w) \/ CallPlanned(w)
  <2>1. EnvOK'
    BY <1>1, <1>4 DEF DryRun, BanAlreadyApplied, KickTargetMissing, CallPlanned, EnvOK
  <2>2. PICK o \in {"planned", "ban", "kick_missing"} : Report(w, "success", o)
    BY <1>4 DEF DryRun, BanAlreadyApplied, KickTargetMissing, CallPlanned
  <2>3. o \in Successes /\ o \in Outcomes
    BY DEF Successes, Outcomes
  <2> QED
    BY <1>4, <2>1, <2>2, <2>3, QuietReport
    DEF DryRun, BanAlreadyApplied, KickTargetMissing, CallPlanned, Stages
<1>5. CASE KickOutcomeUnknown(w)
  <2>1. EnvOK'
    BY <1>1, <1>5 DEF KickOutcomeUnknown, EnvOK
  <2> QED
    BY <1>5, <2>1, QuietReport DEF KickOutcomeUnknown, Stages, Outcomes, Successes
<1>6. CASE HandlerRaises(w) \/ CallForbidden(w)
  <2>1. EnvOK'
    BY <1>1, <1>6, BoundAssumption DEF HandlerRaises, CallForbidden, EnvOK
  <2> QED
    BY <1>6, <2>1, QuietReport DEF HandlerRaises, CallForbidden, Stages, Outcomes, Failures
<1>7. CASE Work(w)
  <2>1. EnvOK'
    BY <1>1, <1>7 DEF Work, EnvOK
  <2> QED
    BY <1>7, <2>1, QuietReport DEF Work, Stages, Outcomes, Successes
<1>8. CASE PurgeFails(w)
  <2>1. EnvOK'
    BY <1>1, <1>8, BoundAssumption DEF PurgeFails, EnvOK
  <2>2. PICK s \in {"flag", "failure"}, o \in {"giveup", "retry"} : Report(w, s, o)
    BY <1>8 DEF PurgeFails
  <2> QED
    BY <1>8, <2>1, <2>2, QuietReport DEF PurgeFails, Stages, Outcomes, Failures
<1>9. CASE FlagAttention(w)
  <2>1. EnvOK'
    BY <1>1, <1>9 DEF FlagAttention, EnvOK
  <2>2. PICK s \in {"success", "failure"} :
           Goto(w, s) /\ (s = "success" => exec[w].outcome = "unknown")
    BY <1>9 DEF FlagAttention
  <2> QED
    BY <1>9, <2>1, <2>2, QuietGoto DEF FlagAttention, Stages, Successes
<1> QED
  BY <1>2, <1>3, <1>4, <1>5, <1>6, <1>7, <1>8, <1>9

\* The handler reads the marker: what it saw is true while it holds the claim.
LEMMA ReadEffectStep ==
  ASSUME KickInv, NEW w \in Worker, ReadEffectStarted(w)
  PROVE  KickInv'
<1> USE DEF KickInv
<1> DEFINE saw == row[exec[w].op].effect
<1>1. /\ exec[w].stage = "read" /\ Active(w) /\ exec[w].op \in Op /\ exec[w] \in Exec
      /\ exec' = [exec EXCEPT ![w] = [@ EXCEPT !.stage = "decide", !.sawEffect = saw]]
      /\ UNCHANGED <<row, claims, batch, stopped, sourcePending, attention, deleting, member,
                     requests, faults>>
  BY DEF ReadEffectStarted, Read, At, Active, Bound, TypeOK, table, caseVars, loopVars, discord
<1>2. saw \in BOOLEAN
  BY <1>1 DEF TypeOK, Row
<1> DEFINE f == [exec[w] EXCEPT !.stage = "decide", !.sawEffect = saw]
<1> HIDE DEF saw
<1>a. exec \in [Worker -> Exec]
  BY DEF TypeOK
<1>b. f \in Exec /\ f.stage = "decide" /\ f.sawEffect = saw /\ f.op = exec[w].op
      /\ f.token = exec[w].token
  BY <1>1, <1>2, ReadExec
<1> HIDE DEF f
<1>c. exec' = [exec EXCEPT ![w] = f]
  BY <1>1 DEF f
<1>3. /\ exec'[w] \in Exec /\ exec'[w].stage = "decide" /\ exec'[w].sawEffect = saw
      /\ exec'[w].op = exec[w].op /\ exec'[w].token = exec[w].token
      /\ \A v \in Worker \ {w} : exec'[v] = exec[v]
      /\ exec' \in [Worker -> Exec]
  BY <1>a, <1>b, <1>c
<1>4. \A v \in Worker : Active(v)' => Active(v) /\ exec'[v].op = exec[v].op
                                      /\ exec'[v].token = exec[v].token
  BY <1>1, <1>3 DEF Active
<1>5. TypeOK' /\ KickAtMostOnce'
  BY <1>1, <1>3 DEF TypeOK, KickAtMostOnce
<1>6. Bound'
  BY <1>1, <1>3, <1>4 DEF Bound, At, Active
<1>7. Issued'
  BY <1>1, <1>4 DEF Issued
<1>8. Distinct'
  BY <1>1, <1>4 DEF Distinct
<1>9. Marked'
  <2>1. \A v \in Worker : v # w => \A s : KickAt(v, s)' <=> KickAt(v, s)
    BY <1>3 DEF KickAt
  <2>2. ~KickAt(w, "start")' /\ ~KickAt(w, "call")'
    BY <1>3 DEF KickAt
  <2>3. \A v \in Worker : exec'[v].op = exec[v].op /\ exec'[v].token = exec[v].token
    BY <1>3
  <2>4. \A v \in Worker :
           (/\ KickAt(v, "start")' \/ (KickAt(v, "decide")' /\ ~exec'[v].sawEffect)
            /\ row[exec'[v].op].token = exec'[v].token) => ~row[exec'[v].op].effect
    <3>1. CASE ~saw
      BY <1>3, <2>1, <2>2, <2>3, <3>1 DEF Marked, saw
    <3>2. CASE saw
      BY <1>2, <1>3, <2>1, <2>2, <2>3, <3>2 DEF Marked
    <3> QED
      BY <3>1, <3>2
  <2> QED
    BY <1>1, <2>1, <2>2, <2>3, <2>4 DEF Marked
<1> QED
  BY <1>5, <1>6, <1>7, <1>8, <1>9

\* A target was found: the handler goes on relying on having seen no marker.
LEMMA TargetStep ==
  ASSUME KickInv, NEW w \in Worker, TargetFound(w)
  PROVE  KickInv'
<1> USE DEF KickInv
<1>1. /\ exec[w].stage = "decide" /\ Active(w) /\ exec[w].op \in Op /\ exec[w] \in Exec
      /\ KickAt(w, "decide") => ~exec[w].sawEffect
      /\ exec' = [exec EXCEPT ![w] = Moved(exec[w], "start")]
      /\ UNCHANGED <<row, claims, batch, stopped, sourcePending, attention, deleting, member,
                     requests, faults>>
  BY DEF TargetFound, KickSeenStarted, KickAt, Goto, Read, At, Active, Bound, TypeOK,
         table, caseVars, loopVars, discord
<1>2. /\ exec'[w] \in Exec /\ exec'[w].stage = "start"
      /\ exec'[w].op = exec[w].op /\ exec'[w].token = exec[w].token
      /\ \A v \in Worker \ {w} : exec'[v] = exec[v]
      /\ exec' \in [Worker -> Exec]
  <2>1. "start" \in Stages
    BY DEF Stages
  <2> QED
    BY <1>1, <2>1, MovedExec DEF TypeOK
<1>3. \A v \in Worker : Active(v)' => Active(v) /\ exec'[v].op = exec[v].op
                                      /\ exec'[v].token = exec[v].token
  BY <1>1, <1>2 DEF Active
<1>4. TypeOK' /\ KickAtMostOnce'
  BY <1>1, <1>2 DEF TypeOK, KickAtMostOnce
<1>5. Bound' /\ Issued' /\ Distinct'
  BY <1>1, <1>2, <1>3 DEF Bound, Issued, Distinct, At, Active
<1>6. Marked'
  BY <1>1, <1>2 DEF Marked, KickAt
<1> QED
  BY <1>4, <1>5, <1>6

\* The marker is persisted under a live claim; the holder of that claim saw no
\* marker, so nobody has sent the kick and nobody else is about to.
LEMMA StartEffectStep ==
  ASSUME KickInv, NEW w \in Worker, StartEffect(w)
  PROVE  KickInv'
<1> USE DEF KickInv
<1>1. /\ exec[w].stage = "start" /\ Active(w) /\ exec[w].op \in Op /\ exec[w] \in Exec
      /\ UNCHANGED <<claims, batch, stopped, sourcePending, attention, deleting, member,
                     requests, faults>>
  BY DEF StartEffect, At, Active, Bound, TypeOK, caseVars, loopVars, discord
<1>2. CASE ~Holds(w)
  <2>1. Report(w, "failure", "retry") /\ UNCHANGED row
    BY <1>2 DEF StartEffect
  <2>2. EnvOK'
    BY <1>1 DEF EnvOK, TypeOK
  <2> QED
    BY <1>1, <2>1, <2>2, QuietReport DEF Stages, Outcomes, Failures
<1>3. CASE Holds(w)
  <2> DEFINE o == exec[w].op
  <2>1. /\ row' = [row EXCEPT ![o] = [row[o] EXCEPT !.effect = TRUE]]
        /\ exec' = [exec EXCEPT ![w] = Moved(exec[w], "call")]
        /\ row[o].token = exec[w].token /\ row[o] \in Row
    BY <1>1, <1>3 DEF StartEffect, Holds, Goto, TypeOK
  <2>2. /\ exec'[w] \in Exec /\ exec'[w].stage = "call"
        /\ exec'[w].op = o /\ exec'[w].token = exec[w].token
        /\ \A v \in Worker \ {w} : exec'[v] = exec[v]
        /\ exec' \in [Worker -> Exec]
    <3>1. "call" \in Stages
      BY DEF Stages
    <3> QED
      BY <1>1, <2>1, <3>1, MovedExec DEF TypeOK
  <2>3. /\ row'[o] \in Row /\ row'[o].token = row[o].token /\ row'[o].effect
        /\ \A p \in Op \ {o} : row'[p] = row[p]
        /\ row' \in [Op -> Row]
    BY <1>1, <2>1, TouchedRow DEF TypeOK
  <2>4. \A v \in Worker : Active(v)' => Active(v) /\ exec'[v].op = exec[v].op
                                        /\ exec'[v].token = exec[v].token
    BY <1>1, <2>2 DEF Active
  <2>5. TypeOK' /\ KickAtMostOnce'
    BY <1>1, <2>2, <2>3 DEF TypeOK, KickAtMostOnce
  <2>6. Bound' /\ Issued' /\ Distinct'
    BY <1>1, <2>2, <2>3, <2>4 DEF Bound, Issued, Distinct, At, Active
  <2>7. Marked'
    <3>1. \A v \in Worker \ {w} : (Active(v) /\ exec[v].op = o)
             => row[o].token # exec[v].token
      BY <1>1, <2>1 DEF Distinct
    <3>2. Kind[o] = "kick" => ~row[o].effect /\ requests[o] = 0
      BY <1>1, <2>1 DEF Marked, KickAt, Kicks, TypeOK
    <3>3. Kind[o] = "kick" => \A v \in Worker : ~(KickAt(v, "call") /\ exec[v].op = o)
      BY <3>2 DEF Marked
    <3>4. \A p \in Kicks : requests'[p] > 0 => row'[p].effect
      BY <1>1, <2>3 DEF Marked, Kicks
    <3>5. \A v \in Worker :
            (/\ KickAt(v, "start")' \/ (KickAt(v, "decide")' /\ ~exec'[v].sawEffect)
             /\ row'[exec'[v].op].token = exec'[v].token) => ~row'[exec'[v].op].effect
      <4> SUFFICES ASSUME NEW v \in Worker,
                          KickAt(v, "start")' \/ (KickAt(v, "decide")' /\ ~exec'[v].sawEffect),
                          row'[exec'[v].op].token = exec'[v].token
                   PROVE  ~row'[exec'[v].op].effect
        OBVIOUS
      <4>1. v # w /\ exec'[v] = exec[v] /\ Active(v) /\ exec[v].op \in Op
        BY <2>2 DEF KickAt, Active, Bound
      <4>2. exec[v].op # o
        BY <2>3, <3>1, <4>1
      <4> QED
        BY <2>3, <4>1, <4>2 DEF Marked, KickAt
    <3>6. \A v \in Worker : KickAt(v, "call")' =>
            row'[exec'[v].op].effect /\ requests'[exec'[v].op] = 0
      BY <1>1, <2>2, <2>3, <3>2 DEF Marked, KickAt, Bound, Active
    <3>7. \A u, v \in Worker :
            (KickAt(u, "call")' /\ KickAt(v, "call")' /\ exec'[u].op = exec'[v].op)
            => u = v
      BY <2>2, <3>3 DEF Marked, KickAt
    <3> QED
      BY <3>4, <3>5, <3>6, <3>7 DEF Marked
  <2> QED
    BY <2>5, <2>6, <2>7
<1> QED
  BY <1>2, <1>3

\* Sending the request: the one executor that may send it leaves the call.
LEMMA SendStep ==
  ASSUME KickInv, NEW w \in Worker,
         CallKick(w) \/ CallKickNotFound(w) \/ CallBan(w) \/ CallError(w)
  PROVE  KickInv'
<1> USE DEF KickInv
<1> DEFINE o == exec[w].op
<1>1. /\ exec[w].stage = "call" /\ Active(w) /\ o \in Op /\ exec[w] \in Exec
      /\ requests' = [requests EXCEPT ![o] = @ + 1]
      /\ UNCHANGED <<row, claims, batch>>
  BY DEF CallKick, CallKickNotFound, CallBan, CallError, Sent, At, Active, Bound, TypeOK, table,
         loopVars
<1>2. EnvOK'
  BY BoundAssumption
  DEF CallKick, CallKickNotFound, CallBan, CallError, Fault, TypeOK, EnvOK, caseVars,
      loopVars
<1>3. PICK s \in {"success", "failure"}, out \in Outcomes :
         Report(w, s, out) /\ (s = "success" => out \in Successes)
  <2>1. {"kick", "ban"} \subseteq Successes /\ {"terminal", "retry"} \subseteq Failures
    BY DEF Successes, Failures
  <2> QED
    BY <2>1 DEF CallKick, CallKickNotFound, CallBan, CallError, Outcomes
<1>4. /\ exec'[w] \in Exec /\ exec'[w].stage = s /\ exec'[w].outcome = out
      /\ exec'[w].op = o /\ exec'[w].token = exec[w].token
      /\ \A v \in Worker \ {w} : exec'[v] = exec[v]
      /\ exec' \in [Worker -> Exec]
  <2>1. s \in Stages
    BY DEF Stages
  <2> QED
    BY <1>1, <1>3, <2>1, ReportedExec DEF Report, TypeOK
<1>5. requests' \in [Op -> Nat]
  BY <1>1 DEF TypeOK
<1>6. \A v \in Worker : Active(v)' => Active(v) /\ exec'[v].op = exec[v].op
                                      /\ exec'[v].token = exec[v].token
  BY <1>1, <1>4 DEF Active
<1>7. TypeOK'
  BY <1>1, <1>2, <1>4, <1>5 DEF TypeOK, EnvOK
<1>8. Bound' /\ Issued' /\ Distinct'
  BY <1>1, <1>3, <1>4, <1>6 DEF Bound, Issued, Distinct, At, Active
<1>9. KickAtMostOnce'
  BY <1>1 DEF KickAtMostOnce, Marked, KickAt, TypeOK
<1>10. Marked'
  <2>1. \A p \in Kicks : requests'[p] > 0 => row'[p].effect
    BY <1>1 DEF Marked, KickAt, Kicks, TypeOK
  <2>2. \A v \in Worker : KickAt(v, "call")' =>
           KickAt(v, "call") /\ exec'[v] = exec[v] /\ exec[v].op # o /\ exec[v].op \in Op
    BY <1>1, <1>4 DEF Marked, KickAt, Active, Bound
  <2> QED
    BY <1>1, <1>4, <2>1, <2>2 DEF Marked, KickAt, TypeOK
<1> QED
  BY <1>7, <1>8, <1>9, <1>10

\* Settling, resting and ageing clear tokens at most.
LEMMA RestingStep ==
  ASSUME KickInv, NEW w \in Worker,
         \/ SettleSuccess(w) \/ SettleFailure(w) \/ Defer(w)
         \/ StoreFails(w) \/ HeartbeatDies(w) \/ Cancel(w)
  PROVE  KickInv'
<1> USE DEF KickInv, At
<1>1. /\ EnvOK' /\ UNCHANGED <<claims, requests>> /\ batch' \subseteq batch /\ Active(w)
      /\ exec[w] \in Exec /\ exec[w].op \in Op /\ row[exec[w].op] \in Row
  <2>1. Active(w)
    BY IdleExec DEF SettleSuccess, SettleFailure, Defer, HeartbeatDies, Cancel, StoreFails,
                     Active, Bound
  <2>2. exec[w] \in Exec /\ exec[w].op \in Op /\ row[exec[w].op] \in Row
    BY <2>1 DEF Bound, TypeOK
  <2>3. batch' \subseteq batch /\ stopped' \in BOOLEAN
    BY DEF SettleSuccess, SettleFailure, Defer, HeartbeatDies, Cancel, StoreFails, Escapes,
           loopVars, TypeOK
  <2>4. faults' \in 0 .. MaxFaults
    BY BoundAssumption DEF SettleSuccess, SettleFailure, Defer, HeartbeatDies, Cancel,
                           StoreFails, Fault, TypeOK
  <2>5. UNCHANGED <<claims, requests, caseVars, discord>>
    BY DEF SettleSuccess, SettleFailure, Defer, HeartbeatDies, Cancel, StoreFails, table,
           discord
  <2> QED
    BY <2>1, <2>2, <2>3, <2>4, <2>5 DEF EnvOK, TypeOK, caseVars, discord
<1>2. /\ row' \in [Op -> Row]
      /\ \A o \in Op : QuietRow(row[o], row'[o])
  <2> DEFINE p == exec[w].op
  <2>1. UNCHANGED row \/ \E r \in Row : /\ row' = [row EXCEPT ![p] = r]
                                        /\ r.token = 0 /\ r.effect = row[p].effect
    <3>1. CASE SettleSuccess(w)
      <4>1. exec[w].outcome \in Successes
        BY <3>1 DEF SettleSuccess, Bound
      <4> DEFINE r == Succeeded(row[p], exec[w].outcome)
      <4>2. r \in Row /\ r.token = 0 /\ r.effect = row[p].effect
        BY <1>1, <4>1, SettledRow
      <4>3. UNCHANGED row \/ row' = [row EXCEPT ![p] = r]
        BY <3>1 DEF SettleSuccess
      <4> QED
        BY <4>2, <4>3
    <3>2. CASE SettleFailure(w) \/ Defer(w)
      <4> DEFINE f == Failed(row[p], exec[w].outcome)
                 d == Deferred(row[p])
      <4>1. /\ f \in Row /\ f.token = 0 /\ f.effect = row[p].effect
            /\ d \in Row /\ d.token = 0 /\ d.effect = row[p].effect
        BY <1>1, SettledRow
      <4>2. \/ UNCHANGED row
            \/ row' = [row EXCEPT ![p] = f]
            \/ row' = [row EXCEPT ![p] = d]
        BY <3>2 DEF SettleFailure, Defer
      <4> HIDE DEF f, d
      <4> QED
        BY <4>1, <4>2
    <3>3. CASE HeartbeatDies(w) \/ Cancel(w) \/ StoreFails(w)
      BY <3>3 DEF HeartbeatDies, Cancel, StoreFails, table
    <3> QED
      BY <3>1, <3>2, <3>3
  <2> QED
    BY <1>1, <2>1 DEF QuietRow, TypeOK
<1>3. /\ exec' \in [Worker -> Exec]
      /\ \A v \in Worker : QuietExec(exec[v], exec'[v])
      /\ \A v \in Worker : exec'[v].stage = "success" => exec'[v].outcome \in Successes
  <2>1. CASE HeartbeatDies(w)
    <3> DEFINE e == [exec[w] EXCEPT !.beating = FALSE]
    <3>1. /\ e \in Exec /\ e.stage = exec[w].stage /\ e.sawEffect = exec[w].sawEffect
          /\ e.op = exec[w].op /\ e.token = exec[w].token
          /\ e.outcome = exec[w].outcome
      BY <1>1, DeadExec
    <3>2. exec' = [exec EXCEPT ![w] = e]
      BY <2>1 DEF HeartbeatDies
    <3> HIDE DEF e
    <3> QED
      BY <1>1, <3>1, <3>2 DEF QuietExec, Bound, TypeOK, Active
  <2>2. CASE exec' = [exec EXCEPT ![w] = Idle]
    BY <1>1, <2>2, IdleExec DEF QuietExec, Bound, TypeOK
  <2> QED
    BY <2>1, <2>2 DEF SettleSuccess, SettleFailure, Defer, StoreFails, Cancel, Escapes,
                       Rest
<1>4. TypeOK'
  BY <1>1, <1>2, <1>3 DEF TypeOK, EnvOK
<1> QED
  BY <1>1, <1>2, <1>3, <1>4, QuietStep

\* Time, crashes and the rest of the bot.
LEMMA OutsideStep ==
  ASSUME KickInv,
         \/ \E o \in Op : GoStale(o) \/ RetryComesDue(o)
         \/ LoopFails \/ Crash \/ PlanDeletion \/ MemberMoves \/ UNCHANGED vars
  PROVE  KickInv'
<1> USE DEF KickInv
<1>1. /\ EnvOK' /\ UNCHANGED <<claims, requests>> /\ batch' \subseteq batch
  <2>1. CASE \E o \in Op : GoStale(o) \/ RetryComesDue(o)
    BY <2>1
    DEF GoStale, RetryComesDue, EnvOK, TypeOK, caseVars, loopVars, discord
  <2>2. CASE LoopFails \/ Crash
    <3>1. batch' \subseteq batch /\ stopped' \in BOOLEAN
      BY <2>2 DEF LoopFails, Crash
    <3>2. faults' \in 0 .. MaxFaults
      BY <2>2, BoundAssumption DEF LoopFails, Crash, Fault, TypeOK
    <3>3. UNCHANGED <<claims, requests, caseVars, discord>>
      BY <2>2 DEF LoopFails, Crash, table, discord
    <3> QED
      BY <3>1, <3>2, <3>3 DEF EnvOK, TypeOK, caseVars, discord
  <2>3. CASE PlanDeletion \/ MemberMoves \/ UNCHANGED vars
    BY <2>3
    DEF PlanDeletion, MemberMoves, EnvOK, TypeOK, vars, table, caseVars, loopVars, discord
  <2> QED
    BY <2>1, <2>2, <2>3
<1>2. /\ row' \in [Op -> Row]
      /\ \A o \in Op : QuietRow(row[o], row'[o])
  <2>1. CASE UNCHANGED row
    BY <2>1 DEF QuietRow, TypeOK
  <2>2. ASSUME NEW o \in Op, GoStale(o) \/ RetryComesDue(o)
        PROVE  /\ row' \in [Op -> Row]
               /\ \A p \in Op : QuietRow(row[p], row'[p])
    <3>1. row[o] \in Row
      BY DEF TypeOK
    <3>2. PICK r \in Row : /\ row' = [row EXCEPT ![o] = r]
                           /\ r.token = row[o].token /\ r.effect = row[o].effect
      BY <2>2, <3>1, TouchedRow DEF GoStale, RetryComesDue
    <3> QED
      BY <3>2 DEF QuietRow, TypeOK
  <2> QED
    BY <2>1, <2>2 DEF LoopFails, Crash, PlanDeletion, MemberMoves, vars, table
<1>3. /\ exec' \in [Worker -> Exec]
      /\ \A v \in Worker : QuietExec(exec[v], exec'[v])
      /\ \A v \in Worker : exec'[v].stage = "success" => exec'[v].outcome \in Successes
  <2>1. CASE UNCHANGED exec
    BY <2>1 DEF QuietExec, Bound, TypeOK, At
  <2>2. CASE exec' = [v \in Worker |-> Idle]
    BY <2>2, IdleExec DEF QuietExec
  <2> QED
    BY <2>1, <2>2 DEF GoStale, RetryComesDue, LoopFails, Crash, PlanDeletion,
                       MemberMoves, vars
<1>4. TypeOK'
  BY <1>1, <1>2, <1>3 DEF TypeOK, EnvOK
<1> QED
  BY <1>1, <1>2, <1>3, <1>4, QuietStep

-----------------------------------------------------------------------------
(* The theorems *)

\* The invariant holds of the empty queue.
LEMMA InitInv == Init => KickInv
<1> SUFFICES ASSUME Init PROVE KickInv
  OBVIOUS
<1>1. Fresh \in Row /\ Fresh.token = 0
  BY DEF Fresh, Row, Statuses
<1>2. TypeOK
  <2>1. row \in [Op -> Row] /\ exec \in [Worker -> Exec] /\ requests \in [Op -> Nat]
    BY <1>1, IdleExec DEF Init
  <2>2. sourcePending \in BOOLEAN
    BY DEF Init
  <2>3. faults \in 0 .. MaxFaults /\ claims \in Nat
    BY BoundAssumption DEF Init
  <2>4. /\ batch \subseteq Op \X Nat /\ attention \in BOOLEAN /\ deleting \in BOOLEAN
        /\ stopped \in BOOLEAN
    BY DEF Init
  <2>5. member \in {"in", "out", "banned"}
    BY DEF Init
  <2> QED
    BY <2>1, <2>2, <2>3, <2>4, <2>5 DEF TypeOK
<1>3. \A w \in Worker, s \in Stages : exec[w].stage = s => s = "idle"
  BY IdleExec DEF Init
<1>4. Bound /\ Distinct
  BY IdleExec DEF Init, Bound, Distinct, Active, At
<1>5. Issued
  BY <1>1, IdleExec DEF Init, Issued, Active
<1>6. Marked /\ KickAtMostOnce
  BY IdleExec DEF Init, Marked, KickAt, KickAtMostOnce, Kicks
<1> QED
  BY <1>2, <1>4, <1>5, <1>6 DEF KickInv

\* Every step of the queue preserves the invariant.
LEMMA StepInv == KickInv /\ [Next]_vars => KickInv'
<1> SUFFICES ASSUME KickInv, [Next]_vars PROVE KickInv'
  OBVIOUS
<1>1. ASSUME NEW w \in Task, NEW o \in Op, ClaimOperation(w, o) \/ ClaimMessageChild(w, o)
      PROVE  KickInv'
  BY <1>1, ClaimStep DEF ClaimOperation, ClaimMessageChild, Worker
<1>2. CASE ClaimDue
  BY <1>2, BatchStep
<1>3. ASSUME NEW b \in batch, TakeFromBatch(b[1], b[2]) PROVE KickInv'
  BY <1>3, TakeStep
<1>4. ASSUME NEW w \in Worker, Step(w) PROVE KickInv'
  BY <1>4, ReadingStep, ReadEffectStep, TargetStep, StartEffectStep, SendStep, RestingStep
  DEF Step
<1>5. ASSUME NEW w \in Worker, StoreFails(w) \/ HeartbeatDies(w) \/ Cancel(w)
      PROVE  KickInv'
  BY <1>5, RestingStep
<1>6. CASE \/ \E o \in Op : GoStale(o) \/ RetryComesDue(o)
           \/ LoopFails \/ Crash \/ PlanDeletion \/ MemberMoves \/ UNCHANGED vars
  BY <1>6, OutsideStep
<1> QED
  BY <1>1, <1>2, <1>3, <1>4, <1>5, <1>6 DEF Next

\* The invariant holds in every reachable state of the queue.
THEOREM Invariance == Spec => []KickInv
<1>1. KickInv /\ [Next]_vars => KickInv'
  BY StepInv
<1> QED
  BY InitInv, <1>1, PTL DEF Spec

\* The queue's variables keep their types.
THEOREM TypeCorrect == Spec => []TypeOK
<1>1. KickInv => TypeOK
  BY DEF KickInv
<1> QED
  BY Invariance, <1>1, PTL

\* However many workers, crashes and take-overs: a row kicks at most once.
THEOREM KickOnce == Spec => []KickAtMostOnce
<1>1. KickInv => KickAtMostOnce
  BY DEF KickInv
<1> QED
  BY Invariance, <1>1, PTL

\* The claim a row carries has at most one holder.
THEOREM LeaseHeldOnce == Spec => []OneLeaseHolder
<1>1. KickInv => OneLeaseHolder
  <2> SUFFICES ASSUME KickInv, NEW o \in Op,
                      NEW S, S = {w \in Worker : exec[w].op = o /\ Holds(w)},
                      NEW B, B = {b \in batch : b[1] = o /\ b[2] = row[o].token}
               PROVE  (\A v, w \in S : v = w) /\ (S = {} \/ B = {})
    BY DEF OneLeaseHolder
  <2>1. \A w \in S : w \in Worker /\ exec[w].token = row[o].token
    BY DEF Holds
  <2>2. \A w \in S : Active(w)
    BY OpAssumption, IdleExec DEF KickInv, Bound
  <2> QED
    BY <2>1, <2>2 DEF KickInv, Distinct
<1> QED
  BY Invariance, <1>1, PTL

-----------------------------------------------------------------------------
(* What a step does, seen from one row and from one executor *)

\* A holder of the row's claim marks its effect, or settles it as a success.
Arms(o) ==
    \E w \in Worker : /\ At(w, "start") /\ exec[w].op = o /\ Holds(w)
                      /\ row' = [row EXCEPT ![o] = [@ EXCEPT !.effect = TRUE]]

Settles(o) ==
    \E w \in Worker : /\ At(w, "success") /\ exec[w].op = o /\ Holds(w)
                      /\ row' = [row EXCEPT ![o] = Succeeded(@, exec[w].outcome)]

\* Other steps leave what the row says of its effect alone, and its token too,
\* unless they clear it or give it one that nobody has.
Touched(o) ==
    /\ row'[o].effect = row[o].effect
    /\ row'[o].result = row[o].result
    /\ row'[o].status = "succeeded" <=> row[o].status = "succeeded"
    /\ row'[o].token \in {row[o].token, 0} \/ row'[o].token > claims

\* A claim keeps the row's result and leaves it running.
LEMMA ClaimedFields ==
  ASSUME NEW r \in Row, NEW t \in Nat
  PROVE  Claimed(r, t).result = r.result /\ Claimed(r, t).status = "running"
BY DEF Claimed, Row

\* What a settlement makes of the row's result and status.
LEMMA SettledFields ==
  ASSUME NEW r \in Row, NEW out
  PROVE  /\ Failed(r, out).result = r.result
         /\ Failed(r, out).status \in {"failed", "abandoned"}
         /\ Deferred(r).result = r.result /\ Deferred(r).status = "pending"
         /\ Succeeded(r, out).result = out /\ Succeeded(r, out).status = "succeeded"
<1>1. Failed(r, out).result = r.result /\ Failed(r, out).status \in {"failed", "abandoned"}
  BY DEF Failed, Row
<1>2. Deferred(r).result = r.result /\ Deferred(r).status = "pending"
  BY DEF Deferred, Row
<1>3. Succeeded(r, out).result = out /\ Succeeded(r, out).status = "succeeded"
  BY DEF Succeeded, Row
<1> QED
  BY <1>1, <1>2, <1>3

\* The marker, staleness and a retry that comes due leave result and status alone.
LEMMA TouchedFields ==
  ASSUME NEW r \in Row
  PROVE  /\ [r EXCEPT !.effect = TRUE].result = r.result
         /\ [r EXCEPT !.effect = TRUE].status = r.status
         /\ [r EXCEPT !.stale = TRUE].result = r.result
         /\ [r EXCEPT !.stale = TRUE].status = r.status
         /\ [r EXCEPT !.retryAt = "due"].result = r.result
         /\ [r EXCEPT !.retryAt = "due"].status = r.status
BY DEF Row

\* Every step changes a row in one of these ways.
LEMMA RowStep ==
  ASSUME KickInv, [Next]_vars, NEW o \in Op
  PROVE  Arms(o) \/ Settles(o) \/ Touched(o)
<1>0. row \in [Op -> Row] /\ row[o] \in Row /\ claims \in Nat
  BY DEF KickInv, TypeOK
<1>1. ASSUME UNCHANGED row PROVE Touched(o)
  BY <1>1 DEF Touched
<1>2. ASSUME NEW w \in Task, NEW p \in Op, ClaimOperation(w, p) \/ ClaimMessageChild(w, p)
      PROVE  Touched(o)
  <2>1. /\ row' = [row EXCEPT ![p] = Claimed(row[p], claims + 1)]
        /\ row[p].status \in {"pending", "failed"}
    BY <1>2 DEF ClaimOperation, ClaimMessageChild, ClaimWith, Claimable
  <2> DEFINE t == claims + 1
             c == Claimed(row[o], t)
  <2>2. t \in Nat /\ t > claims
    BY <1>0
  <2>3. row'[o] = row[o] \/ (row'[o] = c /\ row[o].status # "succeeded")
    BY <1>0, <2>1
  <2> HIDE DEF t
  <2>4. c.token = t /\ c.effect = row[o].effect /\ c.result = row[o].result
        /\ c.status = "running"
    BY <1>0, <2>2, ClaimedRow, ClaimedFields
  <2> HIDE DEF c
  <2> QED
    BY <2>2, <2>3, <2>4 DEF Touched
<1>3. ASSUME ClaimDue PROVE Touched(o)
  <2>1. PICK S \in SUBSET Op :
           /\ IsBatch(S)
           /\ \E t \in [S -> (claims + 1) .. (claims + Cardinality(S))] :
                row' = [p \in Op |-> IF p \in S THEN Claimed(row[p], t[p]) ELSE row[p]]
    BY <1>3 DEF ClaimDue
  <2>2. PICK t \in [S -> (claims + 1) .. (claims + Cardinality(S))] :
           row' = [p \in Op |-> IF p \in S THEN Claimed(row[p], t[p]) ELSE row[p]]
    BY <2>1
  <2>3. Cardinality(S) \in Nat
    BY OpAssumption, FS_Subset, FS_CardinalityType
  <2>4. CASE o \in S
    <3> DEFINE c == Claimed(row[o], t[o])
    <3>1. t[o] \in Nat /\ t[o] > claims
      BY <1>0, <2>3, <2>4
    <3>2. row[o].status # "succeeded"
      BY <2>1, <2>4 DEF IsBatch, Due, Reclaimable
    <3>3. row'[o] = c
      BY <2>2, <2>4
    <3>4. c.token = t[o] /\ c.effect = row[o].effect /\ c.result = row[o].result
          /\ c.status = "running"
      BY <1>0, <3>1, ClaimedRow, ClaimedFields
    <3> HIDE DEF c
    <3> QED
      BY <3>1, <3>2, <3>3, <3>4 DEF Touched
  <2>5. CASE o \notin S
    BY <2>2, <2>5 DEF Touched
  <2> QED
    BY <2>4, <2>5
<1>4. ASSUME NEW w \in Worker, StartEffect(w) PROVE Arms(o) \/ Touched(o)
  <2>1. At(w, "start")
    BY <1>4 DEF StartEffect
  <2>2. \/ UNCHANGED row
        \/ Holds(w) /\ row' = [row EXCEPT ![exec[w].op] = [@ EXCEPT !.effect = TRUE]]
    BY <1>4 DEF StartEffect
  <2> QED
    BY <1>0, <2>1, <2>2 DEF Arms, Touched
<1>5. ASSUME NEW w \in Worker, SettleSuccess(w) PROVE Settles(o) \/ Touched(o)
  <2>1. At(w, "success")
    BY <1>5 DEF SettleSuccess
  <2>2. \/ UNCHANGED row
        \/ Holds(w) /\ row' = [row EXCEPT ![exec[w].op] = Succeeded(@, exec[w].outcome)]
    BY <1>5 DEF SettleSuccess
  <2> QED
    BY <1>0, <2>1, <2>2 DEF Settles, Touched
<1>6. ASSUME NEW w \in Worker, SettleFailure(w) \/ Defer(w) PROVE Touched(o)
  <2> DEFINE f == Failed(row[o], exec[w].outcome)
             d == Deferred(row[o])
  <2>1. row'[o] \in {row[o], f, d} /\ (row'[o] # row[o] => row[o].status = "running")
    BY <1>0, <1>6 DEF SettleFailure, Defer, Holds
  <2>2. /\ f.effect = row[o].effect /\ d.effect = row[o].effect
        /\ f.result = row[o].result /\ d.result = row[o].result
        /\ f.token = 0 /\ d.token = 0
        /\ f.status # "succeeded" /\ d.status # "succeeded"
    BY <1>0, SettledRow, SettledFields
  <2> HIDE DEF f, d
  <2> QED
    BY <2>1, <2>2 DEF Touched
<1>7. ASSUME NEW p \in Op, GoStale(p) \/ RetryComesDue(p) PROVE Touched(o)
  <2>1. row'[o] \in {row[o], [row[o] EXCEPT !.stale = TRUE], [row[o] EXCEPT !.retryAt = "due"]}
    BY <1>0, <1>7 DEF GoStale, RetryComesDue
  <2> DEFINE s == [row[o] EXCEPT !.stale = TRUE]
             d == [row[o] EXCEPT !.retryAt = "due"]
  <2>2. /\ s.effect = row[o].effect /\ s.result = row[o].result
        /\ s.status = row[o].status /\ s.token = row[o].token
        /\ d.effect = row[o].effect /\ d.result = row[o].result
        /\ d.status = row[o].status /\ d.token = row[o].token
    BY <1>0, TouchedRow, TouchedFields
  <2> HIDE DEF s, d
  <2> QED
    BY <2>1, <2>2 DEF Touched, s, d
<1>8. ASSUME NEW w \in Worker, Step(w) PROVE Arms(o) \/ Settles(o) \/ Touched(o)
  <2>1. \/ StartEffect(w) \/ SettleSuccess(w) \/ SettleFailure(w) \/ Defer(w)
        \/ UNCHANGED row
    BY <1>8
    DEF Step, LoadCase, ContentUnavailable, ReadEffectStarted, KickOutcomeUnknown, DryRun,
        BanAlreadyApplied, KickTargetMissing, TargetFound, HandlerRaises, CallPlanned,
        CallForbidden, CallKick, CallKickNotFound, CallBan, CallError, Work, PurgeFails,
        FlagAttention, Read, table
  <2> QED
    BY <1>1, <1>4, <1>5, <1>6, <2>1
<1>9. CASE \/ \E b \in batch : TakeFromBatch(b[1], b[2])
           \/ \E w \in Worker : StoreFails(w) \/ HeartbeatDies(w) \/ Cancel(w)
           \/ LoopFails \/ Crash \/ PlanDeletion \/ MemberMoves \/ UNCHANGED vars
  BY <1>1, <1>9
  DEF TakeFromBatch, StoreFails, HeartbeatDies, Cancel, LoopFails, Crash, PlanDeletion,
      MemberMoves, vars, table
<1> QED
  BY <1>2, <1>3, <1>7, <1>8, <1>9 DEF Next

\* An executor is left alone (a heartbeat may die), rests, begins a row, or acts.
Same(w) ==
    /\ exec'[w].stage = exec[w].stage /\ exec'[w].op = exec[w].op
    /\ exec'[w].token = exec[w].token /\ exec'[w].sawEffect = exec[w].sawEffect
    /\ exec'[w].outcome = exec[w].outcome

Begins(w) ==
    \E o \in Op, t \in Nat :
        /\ exec'[w] = Started(o, t)
        /\ ProjectionDone(o) \/ <<o, t>> \in batch

\* Every step treats an executor in one of these ways.
LEMMA ExecStep ==
  ASSUME KickInv, [Next]_vars, NEW v \in Worker
  PROVE  Same(v) \/ exec'[v] = Idle \/ Begins(v) \/ (Step(v) /\ Active(v))
<1>0. /\ exec \in [Worker -> Exec] /\ exec[v] \in Exec /\ claims \in Nat
      /\ batch \subseteq Op \X Nat
      /\ Loop \in Worker
  BY DEF KickInv, TypeOK, Worker
<1>1. ASSUME UNCHANGED exec PROVE Same(v)
  BY <1>1 DEF Same
<1>2. ASSUME NEW w \in Task, NEW p \in Op, ClaimOperation(w, p) \/ ClaimMessageChild(w, p)
      PROVE  Same(v) \/ Begins(v)
  <2>1. /\ exec' = [exec EXCEPT ![w] = Started(p, claims + 1)]
        /\ ProjectionDone(p)
    BY <1>2 DEF ClaimOperation, ClaimMessageChild, ClaimWith, Claimable, Begin
  <2>2. claims + 1 \in Nat
    BY <1>0
  <2>3. exec'[v] = exec[v] \/ exec'[v] = Started(p, claims + 1)
    BY <1>0, <2>1
  <2> QED
    BY <2>1, <2>2, <2>3 DEF Same, Begins
<1>3. ASSUME NEW b \in batch, TakeFromBatch(b[1], b[2]) PROVE Same(v) \/ Begins(v)
  <2>1. /\ exec' = [exec EXCEPT ![Loop] = Started(b[1], b[2])]
        /\ <<b[1], b[2]>> \in batch
    BY <1>3 DEF TakeFromBatch, Begin
  <2>2. b[1] \in Op /\ b[2] \in Nat
    BY <1>0
  <2>3. exec'[v] = exec[v] \/ exec'[v] = Started(b[1], b[2])
    BY <1>0, <2>1
  <2> QED
    BY <2>1, <2>2, <2>3 DEF Same, Begins
<1>4. ASSUME NEW w \in Worker, Step(w)
      PROVE  Same(v) \/ (Step(v) /\ Active(v))
  <2>1. exec' = [exec EXCEPT ![w] = exec'[w]] /\ Active(w)
    <3>1. /\ exec' = [exec EXCEPT ![w] = exec'[w]]
      BY <1>0, <1>4
      DEF Step, LoadCase, ContentUnavailable, ReadEffectStarted, KickOutcomeUnknown, DryRun,
          BanAlreadyApplied, KickTargetMissing, TargetFound, HandlerRaises, StartEffect,
          CallPlanned, CallForbidden, CallKick, CallKickNotFound, CallBan, CallError, Work,
          PurgeFails, FlagAttention, SettleSuccess, SettleFailure, Defer, Goto, Report, Rest,
          Escapes
    <3>2. Active(w)
      BY <1>4
      DEF Step, LoadCase, ContentUnavailable, ReadEffectStarted, KickOutcomeUnknown, DryRun,
          BanAlreadyApplied, KickTargetMissing, TargetFound, HandlerRaises, StartEffect,
          CallPlanned, CallForbidden, CallKick, CallKickNotFound, CallBan, CallError, Work,
          PurgeFails, FlagAttention, SettleSuccess, SettleFailure, Defer, At, Active
    <3> QED
      BY <3>1, <3>2
  <2> QED
    BY <1>0, <1>4, <2>1 DEF Same
<1>5. ASSUME NEW w \in Worker, HeartbeatDies(w) PROVE Same(v)
  <2> DEFINE e == [exec[v] EXCEPT !.beating = FALSE]
  <2>1. exec'[v] \in {exec[v], e}
    BY <1>0, <1>5 DEF HeartbeatDies
  <2>2. /\ e.stage = exec[v].stage /\ e.sawEffect = exec[v].sawEffect
        /\ e.op = exec[v].op /\ e.token = exec[v].token /\ e.outcome = exec[v].outcome
    BY <1>0, DeadExec
  <2> HIDE DEF e
  <2> QED
    BY <2>1, <2>2 DEF Same
<1>6. ASSUME NEW w \in Worker, StoreFails(w) \/ Cancel(w)
      PROVE  Same(v) \/ exec'[v] = Idle
  BY <1>0, <1>6 DEF StoreFails, Cancel, Escapes, Rest, Same
<1>7. CASE Crash
  BY <1>7 DEF Crash
<1>8. CASE \/ ClaimDue \/ LoopFails \/ PlanDeletion \/ MemberMoves \/ UNCHANGED vars
           \/ \E o \in Op : GoStale(o) \/ RetryComesDue(o)
  BY <1>1, <1>8
  DEF ClaimDue, LoopFails, PlanDeletion, MemberMoves, GoStale, RetryComesDue, vars
<1> QED
  BY <1>2, <1>3, <1>4, <1>5, <1>6, <1>7, <1>8 DEF Next

\* A ban stays, and so does the moderators' attention; a kick's request is sent by
\* an executor at its call, once.
Sends(o) ==
    \E w \in Worker : At(w, "call") /\ exec[w].op = o
                      /\ requests' = [requests EXCEPT ![o] = @ + 1]
                      /\ UNCHANGED row

\* What a step does to Discord's side and to the moderators' attention.
LEMMA WorldStep ==
  ASSUME KickInv, [Next]_vars
  PROVE  /\ member = "banned" => member' = "banned"
         /\ attention => attention'
         /\ UNCHANGED requests \/ \E o \in Op : Sends(o)
<1>1. ASSUME NEW w \in Worker, CallKick(w) \/ CallKickNotFound(w) \/ CallBan(w) \/ CallError(w)
      PROVE  /\ member = "banned" => member' = "banned"
             /\ attention => attention'
             /\ \E o \in Op : Sends(o)
  <2>1. /\ At(w, "call") /\ requests' = [requests EXCEPT ![exec[w].op] = @ + 1]
        /\ UNCHANGED <<attention, row>>
    BY <1>1 DEF CallKick, CallKickNotFound, CallBan, CallError, Sent, caseVars, table
  <2>2. exec[w].op \in Op
    BY <2>1 DEF KickInv, Bound, Active, At
  <2>3. member = "banned" => member' = "banned"
    BY <1>1 DEF CallKick, CallKickNotFound, CallBan, CallError
  <2> QED
    BY <2>1, <2>2, <2>3 DEF Sends
<1>2. ASSUME NEW w \in Worker, Step(w) \/ StoreFails(w) \/ HeartbeatDies(w) \/ Cancel(w),
             ~(CallKick(w) \/ CallKickNotFound(w) \/ CallBan(w) \/ CallError(w))
      PROVE  UNCHANGED <<member, requests>> /\ (attention => attention')
  BY <1>2
  DEF Step, LoadCase, ContentUnavailable, ReadEffectStarted, KickOutcomeUnknown, DryRun,
      BanAlreadyApplied, KickTargetMissing, TargetFound, HandlerRaises, StartEffect,
      CallPlanned, CallForbidden, Work, PurgeFails, FlagAttention, SettleSuccess,
      SettleFailure, Defer, StoreFails, HeartbeatDies, Cancel, Read, discord, caseVars
<1>3. ASSUME \/ \E w \in Task, o \in Op : ClaimOperation(w, o) \/ ClaimMessageChild(w, o)
             \/ ClaimDue
             \/ \E b \in batch : TakeFromBatch(b[1], b[2])
             \/ \E o \in Op : GoStale(o) \/ RetryComesDue(o)
             \/ LoopFails \/ Crash \/ PlanDeletion \/ UNCHANGED vars
      PROVE  UNCHANGED <<member, requests, attention>>
  BY <1>3
  DEF ClaimOperation, ClaimMessageChild, ClaimWith, ClaimDue, TakeFromBatch, GoStale,
      RetryComesDue, LoopFails, Crash, PlanDeletion, vars, discord, caseVars
<1>4. CASE MemberMoves
  BY <1>4 DEF MemberMoves, caseVars
<1> QED
  BY <1>1, <1>2, <1>3, <1>4 DEF Next

-----------------------------------------------------------------------------
(* Results are truthful *)

\* The effect marker of a row is never taken back.
LEMMA EffectStays ==
  ASSUME KickInv, [Next]_vars, NEW o \in Op, row[o].effect
  PROVE  row'[o].effect
<1>1. row \in [Op -> Row] /\ row[o] \in Row
  BY DEF KickInv, TypeOK
<1>2. CASE Arms(o)
  BY <1>1, <1>2, TouchedRow DEF Arms
<1>3. CASE Settles(o)
  <2>1. PICK w \in Worker : row' = [row EXCEPT ![o] = Succeeded(@, exec[w].outcome)]
    BY <1>3 DEF Settles
  <2> QED
    BY <1>1, <2>1, SettledRow
<1> QED
  BY <1>2, <1>3, RowStep DEF Touched

\* What going on to the next stage leaves of an executor.
LEMMA GoesOn ==
  ASSUME KickInv, NEW w \in Worker, NEW s \in Stages, Goto(w, s)
  PROVE  /\ exec'[w].stage = s /\ exec'[w].op = exec[w].op /\ exec'[w].token = exec[w].token
         /\ exec'[w].sawEffect = exec[w].sawEffect /\ exec'[w].outcome = exec[w].outcome
         /\ \A u \in Worker \ {w} : exec'[u] = exec[u]
<1>1. exec \in [Worker -> Exec] /\ exec[w] \in Exec
  BY DEF KickInv, TypeOK
<1>2. exec' = [exec EXCEPT ![w] = Moved(exec[w], s)]
  BY DEF Goto
<1> DEFINE e == Moved(exec[w], s)
<1>3. /\ e.stage = s /\ e.op = exec[w].op /\ e.token = exec[w].token
      /\ e.sawEffect = exec[w].sawEffect /\ e.outcome = exec[w].outcome
  BY <1>1, MovedExec
<1>4. exec' = [exec EXCEPT ![w] = e]
  BY <1>2
<1> HIDE DEF e
<1> QED
  BY <1>1, <1>3, <1>4

\* What reporting an outcome leaves of an executor.
LEMMA ReportsOn ==
  ASSUME KickInv, NEW w \in Worker, NEW s \in Stages, NEW out \in Outcomes, Report(w, s, out)
  PROVE  /\ exec'[w].stage = s /\ exec'[w].op = exec[w].op /\ exec'[w].token = exec[w].token
         /\ exec'[w].sawEffect = exec[w].sawEffect /\ exec'[w].outcome = out
         /\ \A u \in Worker \ {w} : exec'[u] = exec[u]
<1>1. exec \in [Worker -> Exec] /\ exec[w] \in Exec
  BY DEF KickInv, TypeOK
<1> DEFINE e == Reported(exec[w], s, out)
<1>2. /\ e.stage = s /\ e.op = exec[w].op /\ e.token = exec[w].token /\ e.outcome = out
  BY <1>1, ReportedExec
<1>3. e.sawEffect = exec[w].sawEffect
  BY <1>1 DEF Reported, Exec
<1>4. exec' = [exec EXCEPT ![w] = e]
  BY DEF Report
<1> HIDE DEF e
<1> QED
  BY <1>1, <1>2, <1>3, <1>4

\* Whoever is at the call of a kick was there, or had the claim when he came.
LEMMA CallArrives ==
  ASSUME KickInv, [Next]_vars, NEW v \in Worker, KickAt(v, "call")'
  PROVE  /\ exec'[v].op = exec[v].op
         /\ KickAt(v, "call") \/ (At(v, "start") /\ Holds(v) /\ Active(v))
<1>1. CASE Same(v)
  BY <1>1 DEF Same, KickAt
<1>2. CASE exec'[v] = Idle
  BY <1>2, IdleExec DEF KickAt
<1>3. CASE Begins(v)
  BY <1>3, StartedExec DEF Begins, KickAt
<1>4. CASE Step(v) /\ Active(v)
  <2>1. exec[v] \in Exec
    BY DEF KickInv, TypeOK
  <2>2. ASSUME NEW s \in Stages, Goto(v, s)
        PROVE  exec'[v].stage = s /\ exec'[v].op = exec[v].op
    BY <2>2, GoesOn
  <2>3. ASSUME NEW s \in Stages, NEW out \in Outcomes, Report(v, s, out)
        PROVE  exec'[v].stage = s
    BY <2>3, ReportsOn
  <2>4. {"read", "work", "defer", "start", "success", "failure", "call", "flag"} \subseteq Stages
        /\ {"unknown", "planned", "ban", "kick_missing", "retry", "terminal", "kick", "done",
            "giveup"} \subseteq Outcomes
    BY DEF Stages, Outcomes, Successes, Failures
  <2>5. CASE StartEffect(v)
    <3>1. Holds(v) \/ exec'[v].stage = "failure"
      BY <2>3, <2>4, <2>5 DEF StartEffect
    <3>2. CASE Holds(v)
      BY <1>4, <2>2, <2>4, <2>5, <3>2 DEF StartEffect
    <3> QED
      BY <3>1, <3>2 DEF KickAt
  <2>6. CASE LoadCase(v) \/ ContentUnavailable(v) \/ TargetFound(v) \/ FlagAttention(v)
    <3>1. \E s \in Stages \ {"call"} : Goto(v, s)
      BY <2>4, <2>6 DEF LoadCase, ContentUnavailable, TargetFound, FlagAttention
    <3> QED
      BY <2>2, <3>1 DEF KickAt
  <2>7. CASE \/ KickOutcomeUnknown(v) \/ DryRun(v) \/ BanAlreadyApplied(v)
             \/ KickTargetMissing(v) \/ HandlerRaises(v) \/ CallPlanned(v)
             \/ CallForbidden(v) \/ CallKick(v) \/ CallKickNotFound(v) \/ CallBan(v)
             \/ CallError(v) \/ Work(v) \/ PurgeFails(v)
    <3>1. \E s \in Stages \ {"call"}, out \in Outcomes : Report(v, s, out)
      BY <2>4, <2>7
      DEF KickOutcomeUnknown, DryRun, BanAlreadyApplied, KickTargetMissing, HandlerRaises,
          CallPlanned, CallForbidden, CallKick, CallKickNotFound, CallBan, CallError, Work,
          PurgeFails
    <3> QED
      BY <2>3, <3>1 DEF KickAt
  <2>8. CASE ReadEffectStarted(v)
    <3>1. exec'[v].stage = "decide"
      BY <2>1, <2>8 DEF ReadEffectStarted, KickInv, TypeOK, Exec
    <3> QED
      BY <3>1 DEF KickAt
  <2>9. CASE SettleSuccess(v) \/ SettleFailure(v) \/ Defer(v)
    <3>1. exec'[v] = Idle
      BY <2>9 DEF SettleSuccess, SettleFailure, Defer, Escapes, Rest, KickInv, TypeOK
    <3> QED
      BY <1>2, <3>1
  <2> QED
    BY <1>4, <2>5, <2>6, <2>7, <2>8, <2>9 DEF Step
<1> QED
  BY <1>1, <1>2, <1>3, <1>4, ExecStep

\* A kick nobody sent or is about to send stays so, while its row carries the claim
\* of an executor that is past its call, or none that runs.
LEMMA UnsentStays ==
  ASSUME KickInv, [Next]_vars, NEW o \in Op, Kind[o] = "kick", Unsent(o),
         \/ row[o].status = "succeeded"
         \/ \E w \in Worker : /\ At(w, "success") /\ exec[w].op = o
                              /\ exec[w].token = row[o].token
  PROVE  Unsent(o)'
<1>1. requests'[o] = 0
  <2>1. UNCHANGED requests \/ \E p \in Op : Sends(p)
    BY WorldStep
  <2>2. ~Sends(o)
    BY DEF Sends, Unsent, KickAt, At
  <2> QED
    BY <2>1, <2>2 DEF Sends, Unsent, KickInv, TypeOK
<1>2. ASSUME NEW v \in Worker, KickAt(v, "call")', exec'[v].op = o PROVE FALSE
  <2>1. exec[v].op = o /\ At(v, "start") /\ Holds(v) /\ Active(v)
    BY <1>2, CallArrives DEF Unsent
  <2>2. row[o].status = "running" /\ row[o].token = exec[v].token
    BY <2>1 DEF Holds
  <2>3. PICK w \in Worker : At(w, "success") /\ exec[w].token = row[o].token
    BY <2>2
  <2>4. w = v
    BY <2>1, <2>2, <2>3 DEF KickInv, Distinct, Active, At
  <2> QED
    BY <2>1, <2>3, <2>4 DEF At
<1> QED
  BY <1>1, <1>2 DEF Unsent

\* An executor that is left alone stays honest.
LEMMA HonestAlone ==
  ASSUME ResultInv, [Next]_vars, NEW v \in Worker, Active(v), Same(v)
  PROVE  Honest(v)'
<1>1. KickInv /\ Honest(v)
  BY DEF ResultInv
<1> DEFINE o == exec[v].op
<1>2. /\ exec'[v].stage = exec[v].stage /\ exec'[v].op = o
      /\ exec'[v].token = exec[v].token /\ exec'[v].sawEffect = exec[v].sawEffect
      /\ exec'[v].outcome = exec[v].outcome /\ o \in Op
  BY <1>1 DEF Same, KickInv, Bound
<1>3. row[o].effect => row'[o].effect
  BY <1>1, <1>2, EffectStays
<1>4. /\ member = "banned" => member' = "banned"
      /\ attention => attention'
      /\ requests[o] > 0 => requests'[o] > 0
  <2>1. /\ UNCHANGED requests \/ \E p \in Op : Sends(p)
        /\ requests \in [Op -> Nat]
    BY <1>1, WorldStep DEF KickInv, TypeOK
  <2> QED
    BY <1>1, <1>2, <2>1, WorldStep DEF Sends
<1>5. ASSUME KickAt(v, "success"), exec[v].outcome \in NotSent, row'[o].token = exec[v].token
      PROVE  Unsent(o)'
  <2>1. row[o].token = exec[v].token
    <3>1. row[o] \in Row /\ exec[v].token \in Nat /\ exec[v].token > 0 /\ exec[v].token <= claims
      BY <1>1, <1>2 DEF KickInv, TypeOK, Bound, Issued, Exec
    <3>2. CASE Arms(o)
      BY <1>5, <3>1, <3>2, TouchedRow DEF Arms
    <3>3. CASE Settles(o)
      <4>1. row'[o].token = 0
        <5>1. row \in [Op -> Row] /\ o \in Op
          BY <1>1, <1>2 DEF KickInv, TypeOK
        <5> HIDE DEF o
        <5>2. PICK w \in Worker : row' = [row EXCEPT ![o] = Succeeded(@, exec[w].outcome)]
          BY <3>3 DEF Settles
        <5> QED
          BY <3>1, <5>1, <5>2, SettledRow
      <4> QED
        BY <1>5, <3>1, <4>1
    <3>4. CASE Touched(o)
      BY <1>1, <1>5, <3>1, <3>4 DEF Touched, KickInv, TypeOK
    <3> QED
      BY <1>1, <1>2, <3>2, <3>3, <3>4, RowStep
  <2>2. Unsent(o) /\ Kind[o] = "kick"
    BY <1>1, <1>5, <2>1 DEF Honest, KickAt
  <2> QED
    BY <1>1, <1>2, <1>5, <2>1, <2>2, UnsentStays DEF KickAt, At
<1> HIDE DEF o
<1> QED
  BY <1>1, <1>2, <1>3, <1>4, <1>5 DEF Honest, KickAt, At, o

\* An executor that acts stays honest.
LEMMA HonestActing ==
  ASSUME ResultInv, [Next]_vars, NEW v \in Worker, Active(v), Step(v), Active(v)'
  PROVE  Honest(v)'
<1>1. KickInv /\ Honest(v)
  BY DEF ResultInv
<1> SUFFICES ASSUME NEW o \in Op, o = exec[v].op PROVE Honest(v)'
  BY <1>1 DEF KickInv, Bound
<1>2. o \in Op /\ exec[v] \in Exec
  BY <1>1 DEF KickInv, TypeOK
<1>3. row[o].effect => row'[o].effect
  BY <1>1, <1>2, EffectStays
<1>4. {"read", "work", "defer", "start", "success", "failure", "call", "flag"} \subseteq Stages
      /\ {"unknown", "planned", "ban", "kick_missing", "retry", "terminal", "kick", "done",
          "giveup"} \subseteq Outcomes
  BY DEF Stages, Outcomes, Successes, Failures
<1>5. ASSUME exec'[v].op = o, exec'[v].sawEffect => exec[v].sawEffect,
             exec'[v].stage \notin {"work", "flag", "success"}
      PROVE  Honest(v)'
  BY <1>1, <1>3, <1>5 DEF Honest, KickAt, At
<1>6. ASSUME NEW s \in Stages \ {"work", "flag", "success"}, Goto(v, s) PROVE Honest(v)'
  BY <1>1, <1>5, <1>6, GoesOn
<1>7. ASSUME NEW s \in Stages \ {"work", "flag", "success"}, NEW out \in Outcomes,
             Report(v, s, out)
      PROVE  Honest(v)'
  BY <1>1, <1>5, <1>7, ReportsOn
<1>8. CASE LoadCase(v)
  <2>1. CASE Moderation(o)
    BY <1>4, <1>6, <1>8, <2>1 DEF LoadCase
  <2>2. CASE ~Moderation(o)
    <3>1. Goto(v, "work")
      BY <1>8, <2>2 DEF LoadCase
    <3>2. exec'[v].stage = "work" /\ exec'[v].op = o /\ exec'[v].sawEffect = exec[v].sawEffect
      BY <1>1, <1>4, <3>1, GoesOn
    <3> QED
      BY <1>1, <1>3, <2>2, <3>2 DEF Honest, KickAt, At, Moderation
  <2> QED
    BY <2>1, <2>2
<1>9. CASE ReadEffectStarted(v)
  <2> DEFINE saw == row[o].effect
             f == [exec[v] EXCEPT !.stage = "decide", !.sawEffect = saw]
  <2>1. saw \in BOOLEAN
    BY <1>1, <1>2 DEF KickInv, TypeOK, Row
  <2>2. exec'[v] = f
    BY <1>1, <1>9 DEF ReadEffectStarted, KickInv, TypeOK
  <2> HIDE DEF saw
  <2>3. f.stage = "decide" /\ f.sawEffect = saw /\ f.op = o
    BY <1>2, <2>1, ReadExec
  <2>4. exec'[v].stage = "decide" /\ exec'[v].sawEffect = saw /\ exec'[v].op = o
    BY <2>2, <2>3
  <2> QED
    BY <1>3, <2>4 DEF Honest, KickAt, At, saw
<1>10. CASE ContentUnavailable(v) \/ TargetFound(v)
  BY <1>4, <1>6, <1>10 DEF ContentUnavailable, TargetFound
<1>11. CASE HandlerRaises(v) \/ CallForbidden(v) \/ CallKickNotFound(v) \/ CallError(v)
  BY <1>4, <1>7, <1>11 DEF HandlerRaises, CallForbidden, CallKickNotFound, CallError
<1>12. CASE StartEffect(v)
  BY <1>4, <1>6, <1>7, <1>12 DEF StartEffect
<1>13. CASE KickOutcomeUnknown(v)
  <2>1. Report(v, "flag", "unknown") /\ exec[v].sawEffect
    BY <1>13 DEF KickOutcomeUnknown, KickSeenStarted
  <2>2. /\ exec'[v].stage = "flag" /\ exec'[v].op = o /\ exec'[v].outcome = "unknown"
    BY <1>1, <1>4, <2>1, ReportsOn
  <2> QED
    BY <1>1, <1>3, <2>1, <2>2 DEF Honest, KickAt, At, KickOutcomes
<1>14. CASE DryRun(v) \/ KickTargetMissing(v) \/ CallPlanned(v)
  <2>1. PICK out \in NotSent : Report(v, "success", out)
    BY <1>14 DEF DryRun, KickTargetMissing, CallPlanned, NotSent
  <2>2. /\ exec'[v].stage = "success" /\ exec'[v].op = o /\ exec'[v].outcome = out
        /\ exec'[v].token = exec[v].token /\ exec'[v].sawEffect = exec[v].sawEffect
        /\ \A u \in Worker \ {v} : exec'[u] = exec[u]
    BY <1>1, <1>4, <2>1, ReportsOn DEF NotSent
  <2>3. UNCHANGED <<row, requests>>
    BY <1>14 DEF DryRun, KickTargetMissing, CallPlanned, Read, table, discord
  <2>4. ASSUME Kind[o] = "kick", row[o].token = exec[v].token
        PROVE  /\ requests[o] = 0
               /\ \A u \in Worker \ {v} : ~(KickAt(u, "call") /\ exec[u].op = o)
    <3>1. CASE At(v, "call")
      BY <1>1, <2>4, <3>1 DEF KickInv, Marked, KickAt, At
    <3>2. CASE At(v, "decide") /\ ~KickSeenStarted(v)
      <4>1. ~row[o].effect
        BY <1>1, <2>4, <3>2 DEF KickInv, Marked, KickAt, At, KickSeenStarted
      <4>2. requests[o] = 0
        BY <1>1, <2>4, <4>1 DEF KickInv, Marked, Kicks, TypeOK
      <4> QED
        BY <1>1, <4>1, <4>2 DEF KickInv, Marked
    <3> QED
      BY <1>14, <3>1, <3>2 DEF DryRun, KickTargetMissing, CallPlanned
  <2>5. ASSUME KickAt(v, "success")', row'[o].token = exec'[v].token PROVE Unsent(o)'
    <3>1. /\ requests[o] = 0
          /\ \A u \in Worker \ {v} : ~(KickAt(u, "call") /\ exec[u].op = o)
      BY <2>2, <2>3, <2>4, <2>5 DEF KickAt
    <3> QED
      BY <2>2, <2>3, <3>1 DEF Unsent, KickAt
  <2>6. out \in KickOutcomes /\ out \notin {"unknown", "kick", "ban"}
    BY DEF NotSent, KickOutcomes
  <2>7. exec'[v].sawEffect => row'[o].effect
    BY <1>1, <1>3, <2>2 DEF Honest
  <2> QED
    BY <2>2, <2>5, <2>6, <2>7 DEF Honest, KickAt, At
<1>15. CASE BanAlreadyApplied(v) \/ CallBan(v)
  <2>1. Report(v, "success", "ban") /\ Kind[o] = "ban" /\ member' = "banned"
    BY <1>15 DEF BanAlreadyApplied, CallBan, BanConfirmed, Read, discord
  <2>2. /\ exec'[v].stage = "success" /\ exec'[v].op = o /\ exec'[v].outcome = "ban"
        /\ exec'[v].sawEffect = exec[v].sawEffect
    BY <1>1, <1>4, <2>1, ReportsOn
  <2> QED
    BY <1>1, <1>3, <2>1, <2>2 DEF Honest, KickAt, At
<1>16. CASE CallKick(v)
  <2>1. Report(v, "success", "kick") /\ Kind[o] = "kick" /\ requests' = [requests EXCEPT ![o] = @ + 1]
    BY <1>16 DEF CallKick, Sent
  <2>2. /\ exec'[v].stage = "success" /\ exec'[v].op = o /\ exec'[v].outcome = "kick"
        /\ exec'[v].sawEffect = exec[v].sawEffect
    BY <1>1, <1>4, <2>1, ReportsOn
  <2>3. requests'[o] > 0
    BY <1>1, <1>2, <2>1 DEF KickInv, TypeOK
  <2> QED
    BY <1>1, <1>3, <2>1, <2>2, <2>3 DEF Honest, KickAt, At, KickOutcomes, NotSent
<1>17. CASE Work(v)
  <2>1. Report(v, "success", "done") /\ Kind[o] # "kick"
    BY <1>1, <1>17 DEF Work, Honest, KickAt, At
  <2>2. /\ exec'[v].stage = "success" /\ exec'[v].op = o /\ exec'[v].outcome = "done"
        /\ exec'[v].sawEffect = exec[v].sawEffect
    BY <1>1, <1>4, <2>1, ReportsOn
  <2> QED
    BY <1>1, <1>3, <2>1, <2>2 DEF Honest, KickAt, At
<1>18. CASE PurgeFails(v)
  <2>1. Kind[o] = "purge" /\ (Report(v, "flag", "giveup") \/ Report(v, "failure", "retry"))
    BY <1>18 DEF PurgeFails
  <2>2. CASE Report(v, "flag", "giveup")
    <3>1. /\ exec'[v].stage = "flag" /\ exec'[v].op = o /\ exec'[v].outcome = "giveup"
          /\ exec'[v].sawEffect = exec[v].sawEffect
      BY <1>1, <1>4, <2>2, ReportsOn
    <3> QED
      BY <1>1, <1>3, <2>1, <3>1 DEF Honest, KickAt, At
  <2> QED
    BY <1>4, <1>7, <2>1, <2>2
<1>19. CASE FlagAttention(v)
  <2>1. CASE exec[v].outcome = "unknown"
    <3>1. Goto(v, "success") /\ attention' /\ At(v, "flag")
      BY <1>19, <2>1 DEF FlagAttention
    <3>2. /\ exec'[v].stage = "success" /\ exec'[v].op = o /\ exec'[v].outcome = "unknown"
          /\ exec'[v].sawEffect = exec[v].sawEffect
      BY <1>1, <1>4, <2>1, <3>1, GoesOn
    <3> QED
      BY <1>1, <1>3, <2>1, <3>1, <3>2 DEF Honest, KickAt, At, KickOutcomes, NotSent
  <2>2. CASE exec[v].outcome # "unknown"
    BY <1>4, <1>6, <1>19, <2>2 DEF FlagAttention
  <2> QED
    BY <2>1, <2>2
<1>20. CASE SettleSuccess(v) \/ SettleFailure(v) \/ Defer(v)
  <2>1. exec'[v] = Idle
    BY <1>1, <1>20 DEF SettleSuccess, SettleFailure, Defer, Escapes, Rest, KickInv, TypeOK
  <2> QED
    BY <2>1, IdleExec DEF Active
<1> QED
  BY <1>8, <1>9, <1>10, <1>11, <1>12, <1>13, <1>14, <1>15, <1>16, <1>17, <1>18, <1>19, <1>20
  DEF Step

\* A row's record stays true, and a new one is true when it is made.
LEMMA RecordedStep ==
  ASSUME ResultInv, [Next]_vars, NEW o \in Op
  PROVE  Recorded(o)'
<1>1. /\ KickInv /\ Recorded(o) /\ row[o] \in Row /\ requests \in [Op -> Nat]
      /\ row \in [Op -> Row]
  BY DEF ResultInv, KickInv, TypeOK
<1>2. /\ row[o].effect => row'[o].effect
      /\ member = "banned" => member' = "banned"
      /\ attention => attention'
  BY <1>1, EffectStays, WorldStep
<1>3. requests[o] > 0 => requests'[o] > 0
  <2>1. UNCHANGED requests \/ \E p \in Op : Sends(p)
    BY <1>1, WorldStep
  <2> QED
    BY <1>1, <2>1 DEF Sends
<1>4. ASSUME row'[o].status = "succeeded" <=> row[o].status = "succeeded",
             row'[o].result = row[o].result
      PROVE  Recorded(o)'
  <2>1. ASSUME row[o].status = "succeeded", Kind[o] = "kick", row[o].result \in NotSent
        PROVE  Unsent(o)'
    BY <1>1, <2>1, UnsentStays DEF Recorded
  <2> QED
    BY <1>1, <1>2, <1>3, <1>4, <2>1 DEF Recorded
<1>5. CASE Arms(o)
  BY <1>1, <1>4, <1>5, TouchedFields DEF Arms
<1>6. CASE Touched(o)
  BY <1>4, <1>6 DEF Touched
<1>7. ASSUME NEW w \in Worker, At(w, "success"), exec[w].op = o, Holds(w),
             row'[o] = Succeeded(row[o], exec[w].outcome)
      PROVE  Recorded(o)'
  <2> DEFINE out == exec[w].outcome
  <2>1. row'[o].result = out
    BY <1>1, <1>7, SettledFields
  <2>2. Honest(w) /\ row[o].token = exec[w].token
    BY <1>7 DEF ResultInv, Active, At, Holds
  <2>3. ASSUME Kind[o] = "kick", out \in NotSent PROVE Unsent(o)'
    <3>1. Unsent(o)
      BY <1>7, <2>2, <2>3 DEF Honest, KickAt, At
    <3> QED
      BY <1>1, <1>7, <2>2, <2>3, <3>1, UnsentStays
  <2>4. Kind[o] = "kick" => out \in KickOutcomes
    BY <1>7, <2>2 DEF Honest, KickAt, At
  <2>5. /\ out = "kick" => Kind[o] = "kick" /\ requests[o] > 0
        /\ out = "ban" => member = "banned"
        /\ out = "unknown" => row[o].effect /\ attention
    BY <1>7, <2>2 DEF Honest, At
  <2> HIDE DEF out
  <2> QED
    BY <1>2, <1>3, <2>1, <2>3, <2>4, <2>5 DEF Recorded
<1> QED
  BY <1>1, <1>5, <1>6, <1>7, RowStep DEF Settles

\* Whatever step is taken, what is read, reported and recorded stays true.
LEMMA ResultStep == ResultInv /\ [Next]_vars => ResultInv'
<1> SUFFICES ASSUME ResultInv, [Next]_vars PROVE ResultInv'
  OBVIOUS
<1>1. KickInv /\ KickInv'
  BY StepInv DEF ResultInv
<1>2. ASSUME NEW w \in Worker, Active(w)' PROVE Honest(w)'
  <2>1. CASE Same(w)
    <3>1. Active(w)
      BY <1>2, <2>1 DEF Same, Active
    <3> QED
      BY <2>1, <3>1, HonestAlone
  <2>2. CASE Begins(w)
    <3>1. exec'[w].stage = "load" /\ ~exec'[w].sawEffect
      BY <2>2, StartedExec DEF Begins, Started
    <3> QED
      BY <3>1 DEF Honest, KickAt, At
  <2>3. CASE Step(w) /\ Active(w)
    BY <1>2, <2>3, HonestActing
  <2> QED
    BY <1>1, <1>2, <2>1, <2>2, <2>3, ExecStep, IdleExec DEF Active
<1>3. \A o \in Op : Recorded(o)'
  BY RecordedStep
<1> QED
  BY <1>1, <1>2, <1>3 DEF ResultInv

\* Nothing is reported or recorded at first.
LEMMA ResultInit == Init => ResultInv
<1> SUFFICES ASSUME Init PROVE ResultInv
  OBVIOUS
<1>1. KickInv
  BY InitInv
<1>2. \A w \in Worker : ~Active(w)
  BY IdleExec DEF Init, Active
<1>3. \A o \in Op : row[o].status # "succeeded"
  BY DEF Init, Fresh
<1> QED
  BY <1>1, <1>2, <1>3 DEF ResultInv, Recorded

\* The inductive invariant behind the verdicts holds throughout.
THEOREM ResultInvariance == Spec => []ResultInv
BY ResultInit, ResultStep, PTL DEF Spec

\* What a settled punishment says happened did happen.
THEOREM ResultsTrue == Spec => []ResultTruthful
<1>1. ResultInv => ResultTruthful
  BY DEF ResultInv, ResultTruthful, Recorded, KickInv, KickAtMostOnce, TypeOK, NotSent, Unsent
<1> QED
  BY ResultInvariance, <1>1, PTL

-----------------------------------------------------------------------------
(* Evidence outlives the projection *)

\* An executor that takes a step keeps its row, or rests.
LEMMA KeepsRow ==
  ASSUME KickInv, NEW v \in Worker, Step(v)
  PROVE  exec'[v].op = exec[v].op \/ exec'[v] = Idle
<1>1. exec[v] \in Exec
  BY DEF KickInv, TypeOK
<1>2. ASSUME NEW s \in Stages, Goto(v, s) PROVE exec'[v].op = exec[v].op
  BY <1>2, GoesOn
<1>3. ASSUME NEW s \in Stages, NEW out \in Outcomes, Report(v, s, out)
      PROVE  exec'[v].op = exec[v].op
  BY <1>3, ReportsOn
<1>4. {"read", "work", "defer", "start", "success", "failure", "call", "flag"} \subseteq Stages
      /\ {"unknown", "planned", "ban", "kick_missing", "retry", "terminal", "kick", "done",
          "giveup"} \subseteq Outcomes
  BY DEF Stages, Outcomes, Successes, Failures
<1>5. CASE LoadCase(v) \/ ContentUnavailable(v) \/ TargetFound(v) \/ FlagAttention(v)
  <2>1. \E s \in Stages : Goto(v, s)
    BY <1>4, <1>5 DEF LoadCase, ContentUnavailable, TargetFound, FlagAttention
  <2> QED
    BY <1>2, <2>1
<1>6. CASE \/ KickOutcomeUnknown(v) \/ DryRun(v) \/ BanAlreadyApplied(v)
           \/ KickTargetMissing(v) \/ HandlerRaises(v) \/ CallPlanned(v)
           \/ CallForbidden(v) \/ CallKick(v) \/ CallKickNotFound(v) \/ CallBan(v)
           \/ CallError(v) \/ Work(v) \/ PurgeFails(v)
  <2>1. \E s \in Stages, out \in Outcomes : Report(v, s, out)
    BY <1>4, <1>6
    DEF KickOutcomeUnknown, DryRun, BanAlreadyApplied, KickTargetMissing, HandlerRaises,
        CallPlanned, CallForbidden, CallKick, CallKickNotFound, CallBan, CallError, Work,
        PurgeFails
  <2> QED
    BY <1>3, <2>1
<1>7. CASE StartEffect(v)
  BY <1>2, <1>3, <1>4, <1>7 DEF StartEffect
<1>8. CASE ReadEffectStarted(v)
  BY <1>1, <1>8 DEF ReadEffectStarted, KickInv, TypeOK, Exec
<1>9. CASE SettleSuccess(v) \/ SettleFailure(v) \/ Defer(v)
  BY <1>9 DEF SettleSuccess, SettleFailure, Defer, Escapes, Rest, KickInv, TypeOK
<1> QED
  BY <1>5, <1>6, <1>7, <1>8, <1>9 DEF Step

\* A row that has succeeded stays so.
LEMMA SuccessStays ==
  ASSUME KickInv, [Next]_vars, NEW o \in Op, row[o].status = "succeeded"
  PROVE  row'[o].status = "succeeded"
<1>1. row \in [Op -> Row] /\ row[o] \in Row
  BY DEF KickInv, TypeOK
<1>2. CASE Arms(o)
  BY <1>1, <1>2 DEF Arms, Holds
<1>3. CASE Settles(o)
  BY <1>1, <1>3 DEF Settles, Holds
<1> QED
  BY <1>2, <1>3, RowStep DEF Touched

\* What the loop has claimed it had claimed before, or claims in this step, due.
LEMMA BatchGrows ==
  ASSUME KickInv, [Next]_vars, NEW b \in batch'
  PROVE  b \in batch \/ (b[1] \in Op /\ ProjectionDone(b[1]))
<1>1. CASE ClaimDue
  <2>1. PICK S \in SUBSET Op :
           /\ IsBatch(S)
           /\ \E t \in [S -> (claims + 1) .. (claims + Cardinality(S))] :
                batch' = {<<o, t[o]>> : o \in S}
    BY <1>1 DEF ClaimDue
  <2>2. PICK o \in S : b[1] = o
    BY <2>1
  <2> QED
    BY <2>1, <2>2 DEF IsBatch, Due
<1>2. CASE ~ClaimDue
  <2>1. ASSUME NEW w \in Worker, Step(w) PROVE batch' \subseteq batch
    BY <2>1
    DEF Step, LoadCase, ContentUnavailable, ReadEffectStarted, KickOutcomeUnknown, DryRun,
        BanAlreadyApplied, KickTargetMissing, TargetFound, HandlerRaises, StartEffect,
        CallPlanned, CallForbidden, CallKick, CallKickNotFound, CallBan, CallError, Work,
        PurgeFails, FlagAttention, SettleSuccess, SettleFailure, Defer, Escapes, Read,
        loopVars
  <2>2. ASSUME \/ \E w \in Task, o \in Op : ClaimOperation(w, o) \/ ClaimMessageChild(w, o)
               \/ \E d \in batch : TakeFromBatch(d[1], d[2])
               \/ \E w \in Worker : StoreFails(w) \/ HeartbeatDies(w) \/ Cancel(w)
               \/ \E o \in Op : GoStale(o) \/ RetryComesDue(o)
               \/ LoopFails \/ Crash \/ PlanDeletion \/ MemberMoves \/ UNCHANGED vars
        PROVE  batch' \subseteq batch
    BY <2>2
    DEF ClaimOperation, ClaimMessageChild, ClaimWith, TakeFromBatch, StoreFails,
        HeartbeatDies, Cancel, Escapes, GoStale, RetryComesDue, LoopFails, Crash,
        PlanDeletion, MemberMoves, vars, loopVars
  <2> QED
    BY <1>2, <2>1, <2>2 DEF Next
<1> QED
  BY <1>1, <1>2

\* A cleanup is claimed after the projection, and the projection is not undone.
LEMMA CleanupStep == CleanupInv /\ [Next]_vars => CleanupInv'
<1> SUFFICES ASSUME CleanupInv, [Next]_vars PROVE CleanupInv'
  OBVIOUS
<1>1. KickInv /\ KickInv'
  BY StepInv DEF CleanupInv
<1>2. Projected => Projected'
  BY <1>1, SuccessStays DEF Projected
<1>3. ASSUME NEW w \in Worker, Active(w)', Kind[exec'[w].op] = "cleanup" PROVE Projected'
  <2>1. CASE Same(w)
    BY <1>2, <1>3, <2>1 DEF CleanupInv, Same, Active
  <2>2. CASE exec'[w] = Idle
    BY <1>3, <2>2, IdleExec DEF Active
  <2>3. CASE Begins(w)
    <3>1. PICK o \in Op, t \in Nat :
             exec'[w] = Started(o, t) /\ (ProjectionDone(o) \/ <<o, t>> \in batch)
      BY <2>3 DEF Begins
    <3>2. Kind[o] = "cleanup"
      BY <1>3, <3>1, StartedExec
    <3>3. Projected
      BY <3>1, <3>2 DEF ProjectionDone, Projected, CleanupInv
    <3> QED
      BY <1>2, <3>3
  <2>4. CASE Step(w) /\ Active(w)
    <3>1. exec'[w].op = exec[w].op
      BY <1>1, <1>3, <2>4, KeepsRow, IdleExec DEF Active
    <3> QED
      BY <1>2, <1>3, <2>4, <3>1 DEF CleanupInv
  <2> QED
    BY <1>1, <2>1, <2>2, <2>3, <2>4, ExecStep
<1>4. ASSUME NEW b \in batch', Kind[b[1]] = "cleanup" PROVE Projected'
  BY <1>1, <1>2, <1>4, BatchGrows DEF CleanupInv, ProjectionDone, Projected
<1> QED
  BY <1>1, <1>3, <1>4 DEF CleanupInv

\* Evidence is deleted only once the final review projection has been written.
THEOREM CleanupLast == Spec => []CleanupAfterProjection
<1>1. Init => CleanupInv
  <2> SUFFICES ASSUME Init PROVE CleanupInv
    OBVIOUS
  <2>1. \A w \in Worker : ~Active(w)
    BY IdleExec DEF Init, Active
  <2> QED
    BY <2>1, InitInv DEF CleanupInv, Init
<1>2. CleanupInv => CleanupAfterProjection
  BY DEF CleanupInv, CleanupAfterProjection, Projected, Active
<1> QED
  BY <1>1, <1>2, CleanupStep, PTL DEF Spec

-----------------------------------------------------------------------------
(* The rows keep the promise *)

\* What a verdict says of the row.
LEMMA VerdictCases ==
  ASSUME NEW r
  PROVE  /\ Verdict(r) \in {"open", "done", "none", "unknown"}
         /\ Verdict(r) = "open" <=> r.status # "succeeded"
         /\ Verdict(r) = "unknown" => r.result = "unknown"
         /\ Verdict(r) = "none" => r.result \in NotSent
         /\ Verdict(r) = "done" => r.result \notin NotSent \cup {"unknown"}
<1>1. CASE r.status # "succeeded"
  BY <1>1 DEF Verdict
<1>2. CASE r.status = "succeeded" /\ r.result = "unknown"
  BY <1>2 DEF Verdict
<1>3. CASE r.status = "succeeded" /\ r.result \in NotSent
  BY <1>3 DEF Verdict, NotSent
<1>4. CASE r.status = "succeeded" /\ r.result \notin NotSent \cup {"unknown"}
  BY <1>4 DEF Verdict, NotSent
<1> QED
  BY <1>1, <1>2, <1>3, <1>4

\* A request that leaves is one the promise allows.
LEMMA IssueStep ==
  ASSUME ResultInv, NEW p \in Op, Sends(p)
  PROVE  [Promise!Next]_(Promise!pvars)
<1>1. KickInv /\ Recorded(p) /\ row \in [Op -> Row] /\ requests \in [Op -> Nat]
  BY DEF ResultInv, KickInv, TypeOK
<1>2. CASE p \notin Kicks
  <2>1. \A o \in Kicks : requests'[o] = requests[o] /\ row'[o] = row[o]
    BY <1>1, <1>2 DEF Sends, Kicks
  <2> QED
    BY <2>1 DEF Promise!pvars
<1>3. CASE p \in Kicks
  <2>1. PICK w \in Worker : KickAt(w, "call") /\ exec[w].op = p
    BY <1>3 DEF Sends, KickAt, At, Kicks
  <2>2. row[p].effect /\ requests[p] = 0
    BY <1>1, <2>1 DEF KickInv, Marked
  <2>3. Verdict(row[p]) \in {"open", "unknown"}
    BY <1>1, <1>3, <2>1, <2>2, VerdictCases DEF Recorded, Unsent, Kicks, KickOutcomes, NotSent
  <2>4. [o \in Kicks |-> requests[o]]' = [[o \in Kicks |-> requests[o]] EXCEPT ![p] = 1]
    <3>1. requests' = [requests EXCEPT ![p] = requests[p] + 1]
      BY DEF Sends
    <3>2. Kicks \subseteq Op
      BY DEF Kicks
    <3>3. \A o \in Kicks : requests'[o] = IF o = p THEN 1 ELSE requests[o]
      BY <1>1, <1>3, <2>2, <3>1, <3>2
    <3> QED
      BY <3>3
  <2>5. row' = row
    BY DEF Sends
  <2>6. Promise!Issue(p)
    BY <1>3, <2>2, <2>3, <2>4, <2>5 DEF Promise!Issue
  <2> QED
    BY <1>3, <2>6 DEF Promise!Next
<1> QED
  BY <1>2, <1>3

\* Every step of the queue is one of the promise, or none.
LEMMA PromiseStep ==
  ResultInv /\ ResultInv' /\ [Next]_vars => [Promise!Next]_(Promise!pvars)
<1> SUFFICES ASSUME ResultInv, ResultInv', [Next]_vars
             PROVE  [Promise!Next]_(Promise!pvars)
  OBVIOUS
<1>1. KickInv /\ row \in [Op -> Row] /\ requests \in [Op -> Nat]
  BY DEF ResultInv, KickInv, TypeOK
<1>2. CASE \E p \in Op : Sends(p)
  BY <1>2, IssueStep
<1>3. ASSUME UNCHANGED requests, NEW p \in Op, Arms(p) PROVE [Promise!Next]_(Promise!pvars)
  <2>1. row' = [row EXCEPT ![p] = [@ EXCEPT !.effect = TRUE]] /\ row[p].status = "running"
    BY <1>3 DEF Arms, Holds
  <2>2. row'[p].effect /\ row'[p].status = "running"
    BY <1>1, <2>1
  <2>3. /\ [o \in Kicks |-> row[o].effect]'
              = [o \in Kicks |-> IF o = p THEN TRUE ELSE row[o].effect]
        /\ [o \in Kicks |-> Verdict(row[o])]' = [o \in Kicks |-> Verdict(row[o])]
    BY <1>1, <2>1, <2>2 DEF Kicks, Verdict
  <2>4. CASE p \in Kicks
    <3>1. Promise!Arm(p)
      <4>1. Verdict(row[p]) = "open"
        BY <2>1, VerdictCases
      <4>2. [o \in Kicks |-> Verdict(row[o])][p] = "open"
        BY <2>4, <4>1
      <4>3. [o \in Kicks |-> row[o].effect]'
               = [[o \in Kicks |-> row[o].effect] EXCEPT ![p] = TRUE]
        BY <2>3
      <4>4. UNCHANGED [o \in Kicks |-> requests[o]]
        BY <1>3
      <4> QED
        BY <2>3, <4>2, <4>3, <4>4 DEF Promise!Arm
    <3> QED
      BY <2>4, <3>1 DEF Promise!Next
  <2>5. CASE p \notin Kicks
    BY <1>3, <2>3, <2>5 DEF Promise!pvars
  <2> QED
    BY <2>4, <2>5
<1>4. ASSUME UNCHANGED requests, NEW p \in Op, Settles(p)
      PROVE  [Promise!Next]_(Promise!pvars)
  <2>1. PICK w \in Worker : /\ row' = [row EXCEPT ![p] = Succeeded(@, exec[w].outcome)]
                            /\ row[p].status = "running"
    BY <1>4 DEF Settles, Holds
  <2> DEFINE r == Succeeded(row[p], exec[w].outcome)
  <2>2. r.effect = row[p].effect /\ r.status = "succeeded"
    BY <1>1, SettledRow, SettledFields
  <2>3. row' = [row EXCEPT ![p] = r]
    BY <2>1
  <2> HIDE DEF r
  <2>4. [o \in Kicks |-> row[o].effect]' = [o \in Kicks |-> row[o].effect]
    BY <1>1, <2>2, <2>3 DEF Kicks
  <2>5. [o \in Kicks |-> Verdict(row[o])]'
           = [o \in Kicks |-> IF o = p THEN Verdict(r) ELSE Verdict(row[o])]
    BY <1>1, <2>3 DEF Kicks
  <2>6. CASE p \in Kicks
    <3>1. Recorded(p)' /\ requests'[p] <= 1 /\ row'[p] = r /\ requests'[p] = requests[p]
      BY <1>1, <1>4, <2>3, <2>6 DEF ResultInv, KickInv, KickAtMostOnce, Kicks
    <3>2. /\ Verdict(r) \in {"done", "none", "unknown"}
          /\ Verdict(r) = "done" => requests[p] = 1
          /\ Verdict(r) = "none" => requests[p] = 0
          /\ Verdict(r) = "unknown" => row[p].effect
      BY <1>1, <2>2, <2>6, <3>1, VerdictCases
      DEF Recorded, Unsent, Kicks, KickOutcomes, NotSent
    <3>3. Promise!Settle(p, Verdict(r))
      <4>1. Verdict(row[p]) = "open"
        BY <2>1, VerdictCases
      <4>2. [o \in Kicks |-> Verdict(row[o])][p] = "open"
        BY <2>6, <4>1
      <4>3. [o \in Kicks |-> Verdict(row[o])]'
               = [[o \in Kicks |-> Verdict(row[o])] EXCEPT ![p] = Verdict(r)]
        BY <2>5
      <4>4. UNCHANGED [o \in Kicks |-> requests[o]]
        BY <1>4
      <4>5. /\ [o \in Kicks |-> requests[o]][p] = requests[p]
            /\ [o \in Kicks |-> row[o].effect][p] = row[p].effect
        BY <2>6
      <4> HIDE DEF Verdict
      <4> QED
        BY <2>4, <3>2, <4>2, <4>3, <4>4, <4>5 DEF Promise!Settle
    <3> QED
      BY <2>6, <3>2, <3>3 DEF Promise!Next
  <2>7. CASE p \notin Kicks
    BY <1>4, <2>4, <2>5, <2>7 DEF Promise!pvars
  <2> QED
    BY <2>6, <2>7
<1>5. ASSUME UNCHANGED requests, \A o \in Op : Touched(o)
      PROVE  UNCHANGED Promise!pvars
  <2>1. \A o \in Kicks : row'[o].effect = row[o].effect /\ Verdict(row'[o]) = Verdict(row[o])
    BY <1>5 DEF Touched, Verdict, Kicks
  <2> QED
    BY <1>5, <2>1 DEF Promise!pvars
<1> QED
  BY <1>1, <1>2, <1>3, <1>4, <1>5, RowStep, WorldStep

\* The queue implements the promise made about kicks: the marker is durable before
\* the request, one request per row, a verdict that is true and final.
THEOREM KicksKeepPromise == Spec => KeepsPromise
<1>1. Init => Promise!Init
  <2> SUFFICES ASSUME Init PROVE Promise!Init
    OBVIOUS
  <2>1. \A o \in Kicks : row[o].effect = FALSE /\ requests[o] = 0 /\ Verdict(row[o]) = "open"
    BY DEF Init, Fresh, Verdict, Kicks
  <2> QED
    BY <2>1 DEF Promise!Init
<1> QED
  BY <1>1, ResultInvariance, PromiseStep, PTL DEF Spec, KeepsPromise, Promise!Spec, Promise!pvars

=============================================================================
