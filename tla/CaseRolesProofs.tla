-------------------------- MODULE CaseRolesProofs ---------------------------
(***************************************************************************)
(* Proofs about CaseRoles, for any cases, executors, resolvers and bounds. *)
(* RoleInv is inductive: the messages, the moderators and the resolvers    *)
(* are summed up by SideStep, an executor by ExecMove, and the invariant   *)
(* is shown to survive the two summaries, a change of the world and a      *)
(* crash.  The second half is about what holds while no call has failed    *)
(* and the process has not ended; with a fault, SentActionDecides is false *)
(* (MCCaseRolesRevoked).                                                   *)
(***************************************************************************)
EXTENDS CaseRoles, TLAPS

-----------------------------------------------------------------------------
(* What the record updates do *)

\* A row that is asked for exists afterwards; one that exists stays as it is.
LEMMA EnsuredRow ==
  ASSUME NEW k \in Row
  PROVE  /\ Ensured(k) \in Row /\ Ensured(k).status # "none"
         /\ k.status # "none" => Ensured(k) = k
         /\ k.status = "none" => Ensured(k) = Pending
         /\ Pending \in Row /\ Pending.status = "pending" /\ ~Pending.effect
         /\ NoRow \in Row /\ NoRow.status = "none" /\ ~NoRow.effect
<1>1. 0 \in 0 .. MaxClaims
  BY BoundAssumption
<1>2. NoRow \in Row /\ NoRow.status = "none" /\ ~NoRow.effect
  BY <1>1 DEF NoRow, Row
<1>3. Pending \in Row /\ Pending.status = "pending" /\ ~Pending.effect
  BY <1>1 DEF Pending, NoRow, Row
<1> QED
  BY <1>2, <1>3 DEF Ensured

\* The updates of a row.
LEMMA RowUpdates ==
  ASSUME NEW k \in Row
  PROVE  /\ [k EXCEPT !.effect = TRUE] \in Row
         /\ [k EXCEPT !.effect = TRUE].status = k.status
         /\ [k EXCEPT !.effect = TRUE].claim = k.claim
         /\ [k EXCEPT !.effect = TRUE].effect
         /\ \A s \in {"abandoned", "running", "failed", "succeeded"} :
               /\ [k EXCEPT !.status = s] \in Row
               /\ [k EXCEPT !.status = s].status = s
               /\ [k EXCEPT !.status = s].claim = k.claim
               /\ [k EXCEPT !.status = s].effect = k.effect
BY DEF Row

\* A claim marks the row running under the next number; it keeps the effect marker.
LEMMA ClaimedRow ==
  ASSUME NEW k \in Row, k.claim < MaxClaims
  PROVE  /\ Claimed(k) \in Row
         /\ Claimed(k).status = "running"
         /\ Claimed(k).claim = k.claim + 1
         /\ Claimed(k).effect = k.effect
<1>1. k.claim \in 0 .. MaxClaims
  BY DEF Row
<1>2. k.claim + 1 \in 0 .. MaxClaims
  BY <1>1, BoundAssumption
<1> QED
  BY <1>2 DEF Claimed, Row

\* A row is settled only under the claim it carries.
LEMMA SettledRow ==
  ASSUME NEW k \in Row, NEW e
  PROVE  /\ Settled(k, e) \in Row
         /\ Settled(k, e).effect = k.effect
         /\ ~Held(k, e.claim) => Settled(k, e) = k
         /\ Held(k, e.claim) /\ e.failed =>
               Settled(k, e).status = "failed" /\ Settled(k, e).claim = k.claim
         /\ Held(k, e.claim) /\ ~e.failed => Settled(k, e).status = "succeeded"
<1>1. CASE ~Held(k, e.claim)
  BY <1>1 DEF Settled
<1>2. CASE Held(k, e.claim) /\ e.failed
  BY <1>2 DEF Settled, Row
<1>3. CASE Held(k, e.claim) /\ ~e.failed
  <2>1. 0 \in 0 .. MaxClaims
    BY BoundAssumption
  <2> QED
    BY <1>3, <2>1 DEF Settled, Row
<1> QED
  BY <1>1, <1>2, <1>3

\* The updates of a case.
LEMMA ClosedCase ==
  ASSUME NEW s \in Terminal
  PROVE  Closed(s) \in CaseRow /\ Closed(s).status = s /\ Closed(s).holder = "none"
BY DEF Closed, NoCaseRow, CaseRow, Holder, Terminal

\* A case taken back is pending.
LEMMA ReopenedCase ==
  ASSUME NEW k \in CaseRow
  PROVE  Reopened(k) \in CaseRow /\ Reopened(k).status = "pending"
BY DEF Reopened, CaseRow, Holder, Active

\* A case is taken by its holder.
LEMMA ResolvingCase ==
  ASSUME NEW k \in CaseRow, NEW h \in Holder
  PROVE  /\ Resolving(k, h) \in CaseRow
         /\ Resolving(k, h).status = "resolving" /\ Resolving(k, h).holder = h
BY DEF Resolving, CaseRow, Active

\* Deadlines touch neither status nor holder,
LEMMA AgedCase ==
  ASSUME NEW k \in CaseRow, NEW b \in BOOLEAN
  PROVE  /\ [k EXCEPT !.due = b] \in CaseRow
         /\ [k EXCEPT !.due = b].status = k.status
         /\ [k EXCEPT !.due = b].holder = k.holder
         /\ [k EXCEPT !.stale = b] \in CaseRow
         /\ [k EXCEPT !.stale = b].status = k.status
         /\ [k EXCEPT !.stale = b].holder = k.holder
BY DEF CaseRow

\* and no more does the progress of the case's messages.
LEMMA WorkedCase ==
  ASSUME NEW k \in CaseRow, NEW v \in {"capturing", "reviewing", "done"}
  PROVE  /\ [k EXCEPT !.work = v] \in CaseRow
         /\ [k EXCEPT !.work = v].status = k.status
         /\ [k EXCEPT !.work = v].holder = k.holder
BY DEF CaseRow

-----------------------------------------------------------------------------
(* What a step of the messages, the moderators, the resolvers and of time does *)

\* What may happen to a case: nothing its roles depend on,
Kept(d) == case'[d].status = case[d].status /\ case'[d].holder = case[d].holder

\* it opens, or is taken back,
Opened(d) ==
    /\ case'[d].status = "pending"
    /\ case[d].status \in {"none", "pending"} \/ d \in reopened'

\* someone takes it, a resolver with a fresh lease,
Taken(d) ==
    /\ case[d].status # "none"
    /\ case'[d].status = "resolving"
    /\ \A r \in Resolver : case'[d].holder = r => resolver'[r].stage = "claimed"

\* or it closes, and its role has a release.
Closes(d) ==
    /\ case[d].status # "none"
    /\ case'[d].status \in Terminal
    /\ owner = d => release'[d].status # "none"

\* A row that is asked for is asked for by a case that exists; a release, by its owner.
Asked(d) ==
    /\ \/ apply'[d] = apply[d]
       \/ apply[d].status = "none" /\ apply'[d] = Pending /\ case'[d].status # "none"
    /\ \/ release'[d] = release[d]
       \/ /\ release[d].status = "none" /\ release'[d] = Pending
          /\ owner = d
          /\ Closes(d) \/ d \in letGo

\* A resolver ends, begins, or reads who owns the role.
Looks(r) ==
    \/ resolver'[r] = resolver[r]
    \/ resolver'[r].stage = "idle"
    \/ resolver'[r].stage = "claimed" /\ resolver'[r].case \in Case
    \/ /\ resolver[r].stage = "claimed" /\ resolver'[r].stage = "owned"
       /\ resolver'[r].case = resolver[r].case
       /\ resolver'[r].owned <=> owner = resolver[r].case

\* Nobody of them touches the role or an executor.
SideStep ==
    /\ UNCHANGED <<exec, role>>
    /\ reopened \subseteq reopened'
    /\ \A d \in Case : Kept(d) \/ Opened(d) \/ Taken(d) \/ Closes(d)
    /\ \A d \in Case : Asked(d)
    /\ \A d \in letGo' : d \in letGo \/ case'[d].status \notin {"none", "pending"}
    /\ \A r \in Resolver : Looks(r)

\* Steps that leave the cases and the rows of their roles as they are.
LEMMA QuietSide ==
  ASSUME \A d \in Case : Kept(d), UNCHANGED <<apply, release, exec, role, resolver>>,
         reopened' = reopened, letGo' \subseteq letGo
  PROVE  SideStep
BY DEF SideStep, Asked, Looks

\* append_message opens a case or takes it back; the rest of the pipeline and the clock
\* leave its status alone.
LEMMA MessageSide ==
  ASSUME RoleInv, NEW c \in Case, Message(c) \/ Expires(c) \/ GoStale(c)
  PROVE  SideStep
<1>1. /\ case \in [Case -> CaseRow] /\ apply \in [Case -> Row] /\ case[c] \in CaseRow
      /\ apply[c] \in Row
  BY DEF RoleInv, TypeOK
<1>2. ASSUME NEW wantsRole \in BOOLEAN, Append(c, wantsRole) PROVE SideStep
  <2> DEFINE back == case[c].status = "resolving" /\ ~Protected(c)
             opened == IF case[c].status = "resolving" /\ Protected(c)
                       THEN case[c] ELSE Reopened(case[c])
             k == [opened EXCEPT !.work = "capturing"]
  <2>1. /\ case' = [case EXCEPT ![c] = k]
        /\ reopened' = IF back THEN reopened \cup {c} ELSE reopened
        /\ case[c].status \in {"none", "pending", "resolving"}
        /\ apply' = IF wantsRole THEN [apply EXCEPT ![c] = Ensured(@)] ELSE apply
        /\ UNCHANGED <<release, role, exec, resolver, letGo>>
    BY <1>2 DEF Append, Active, running
  <2>2. opened \in CaseRow
    BY <1>1, ReopenedCase
  <2>3. k.status = opened.status /\ k.holder = opened.holder
    BY <2>2, WorkedCase
  <2> HIDE DEF k
  <2>4. case'[c] = k /\ \A d \in Case \ {c} : case'[d] = case[d]
    BY <1>1, <2>1
  <2>5. Opened(c) \/ (Kept(c) /\ case[c].status = "resolving")
    <3>1. CASE case[c].status = "resolving" /\ Protected(c)
      BY <2>3, <2>4, <3>1 DEF Kept, Protected
    <3>2. CASE ~(case[c].status = "resolving" /\ Protected(c))
      <4>1. opened = Reopened(case[c])
        BY <3>2
      <4>2. case'[c].status = "pending"
        BY <1>1, <2>3, <2>4, <4>1, ReopenedCase
      <4> QED
        BY <2>1, <3>2, <4>2 DEF Opened
    <3> QED
      BY <3>1, <3>2
  <2>6. \A d \in Case : Kept(d) \/ Opened(d)
    BY <2>4, <2>5 DEF Kept
  <2>7. case'[c].status # "none"
    BY <2>1, <2>5 DEF Kept, Opened, Protected
  <2>8. \A d \in Case : Asked(d)
    <3>1. \A d \in Case \ {c} : apply'[d] = apply[d]
      BY <1>1, <2>1
    <3>2. apply'[c] \in {apply[c], Ensured(apply[c])}
      BY <1>1, <2>1
    <3> QED
      BY <1>1, <2>1, <2>7, <3>1, <3>2, EnsuredRow DEF Asked
  <2> HIDE DEF back
  <2> QED
    BY <2>1, <2>6, <2>8 DEF SideStep, Looks
<1>3. CASE MessageWork(c) \/ Expires(c) \/ GoStale(c) \/ ResumeDeferred(c)
  <2> DEFINE v == IF case[c].work = "capturing" THEN "reviewing" ELSE "done"
  <2>1. case'[c] \in {[case[c] EXCEPT !.work = v], [case[c] EXCEPT !.due = TRUE],
                      [case[c] EXCEPT !.due = FALSE], [case[c] EXCEPT !.stale = TRUE]}
        /\ \A d \in Case \ {c} : case'[d] = case[d]
    BY <1>1, <1>3 DEF MessageWork, Expires, GoStale, ResumeDeferred
  <2>2. v \in {"capturing", "reviewing", "done"}
    OBVIOUS
  <2> HIDE DEF v
  <2>3. Kept(c)
    <3> DEFINE k == [case[c] EXCEPT !.work = v]
               d(b) == [case[c] EXCEPT !.due = b]
               o == [case[c] EXCEPT !.stale = TRUE]
    <3>1. k.status = case[c].status /\ k.holder = case[c].holder
      BY <1>1, <2>2, WorkedCase
    <3>2. \A b \in BOOLEAN : d(b).status = case[c].status /\ d(b).holder = case[c].holder
      BY <1>1, AgedCase
    <3>3. o.status = case[c].status /\ o.holder = case[c].holder
      BY <1>1, AgedCase
    <3>4. case'[c] \in {k, d(TRUE), d(FALSE), o}
      BY <2>1
    <3> HIDE DEF k, d, o
    <3> QED
      BY <3>1, <3>2, <3>3, <3>4 DEF Kept
  <2>4. \A d \in Case : Kept(d)
    BY <2>1, <2>3 DEF Kept
  <2> QED
    BY <1>3, <2>4, QuietSide
    DEF MessageWork, Expires, GoStale, ResumeDeferred, rows, running
<1>4. CASE Punish(c)
  BY <1>4, QuietSide DEF Punish, Kept, running
<1> QED
  BY <1>2, <1>3, <1>4 DEF Message

\* A moderator takes the case or closes it; closing asks for the release.
LEMMA ModeratorSide ==
  ASSUME RoleInv, NEW c \in Case, Moderate(c)
  PROVE  SideStep
<1>1. /\ case \in [Case -> CaseRow] /\ release \in [Case -> Row] /\ case[c] \in CaseRow
      /\ release[c] \in Row
  BY DEF RoleInv, TypeOK
<1>2. CASE ClaimAction(c) \/ StartAction(c) \/ FailAction(c)
  BY <1>2, QuietSide DEF ClaimAction, StartAction, FailAction, Kept, running
<1>3. ASSUME NEW h \in {"action", "ignore"}, case[c].status = "pending",
             case' = [case EXCEPT ![c] = Resolving(@, h)],
             UNCHANGED <<apply, release, exec, role, resolver, reopened>>,
             letGo' \subseteq letGo \cup {c}
      PROVE  SideStep
  <2> DEFINE k == Resolving(case[c], h)
  <2>1. k.status = "resolving" /\ k.holder = h
    BY <1>1, ResolvingCase DEF Holder
  <2>2. case'[c] = k /\ \A d \in Case \ {c} : case'[d] = case[d]
    BY <1>1, <1>3
  <2> HIDE DEF k
  <2>3. Taken(c)
    BY <1>3, <2>1, <2>2, ResolverAssumption DEF Taken
  <2> QED
    BY <1>3, <2>1, <2>2, <2>3 DEF SideStep, Kept, Asked, Looks
<1>4. ASSUME case[c].status # "none", case' = [case EXCEPT ![c] = Closed("resolved")],
             release' = IF owner = c THEN [release EXCEPT ![c] = Ensured(@)] ELSE release,
             UNCHANGED <<apply, exec, role, resolver, reopened>>,
             letGo' \subseteq letGo \cup {c}
      PROVE  SideStep
  <2> DEFINE k == Closed("resolved")
  <2>1. k.status = "resolved"
    BY <1>1, ClosedCase DEF Terminal
  <2>2. case'[c] = k /\ \A d \in Case \ {c} : case'[d] = case[d]
    BY <1>1, <1>4
  <2> HIDE DEF k
  <2>3. \A d \in Case \ {c} : release'[d] = release[d]
    BY <1>1, <1>4
  <2>4. release'[c] = IF owner = c THEN Ensured(release[c]) ELSE release[c]
    BY <1>1, <1>4
  <2>5. Closes(c)
    BY <1>1, <1>4, <2>1, <2>2, <2>4, EnsuredRow DEF Closes, Terminal
  <2>6. \A d \in Case : Asked(d)
    BY <1>1, <1>4, <2>3, <2>4, <2>5, EnsuredRow DEF Asked
  <2> QED
    BY <1>4, <2>1, <2>2, <2>5, <2>6 DEF SideStep, Kept, Looks
<1>5. CASE ClickAction(c)
  BY <1>3, <1>5 DEF ClickAction, running
<1>6. CASE ClickIgnore(c)
  BY <1>3, <1>4, <1>6 DEF ClickIgnore
<1>7. CASE CompleteAction(c) \/ Reconcile(c)
  <2>1. Finalized(c) /\ case[c].status = "resolving"
        /\ UNCHANGED <<apply, exec, role, resolver, reopened, letGo>>
    BY <1>7 DEF CompleteAction, Reconcile, Decided, running
  <2>2. CASE UNCHANGED <<case, release>>
    BY <2>1, <2>2, QuietSide DEF Kept
  <2> QED
    BY <1>4, <2>1, <2>2 DEF Finalized
<1>8. CASE ReleaseIgnored(c)
  <2>1. /\ c \in letGo /\ letGo' \subseteq letGo
        /\ release' = IF owner = c THEN [release EXCEPT ![c] = Ensured(@)] ELSE release
        /\ UNCHANGED <<case, apply, role, exec, resolver, reopened>>
    BY <1>8 DEF ReleaseIgnored
  <2>2. \A d \in Case : Asked(d)
    BY <1>1, <2>1, EnsuredRow DEF Asked
  <2> QED
    BY <2>1, <2>2 DEF SideStep, Kept, Looks
<1> QED
  BY <1>2, <1>5, <1>6, <1>7, <1>8 DEF Moderate

\* A resolver takes, closes or gives back a case; what it read of the ownership decides
\* whether the release is asked for.
LEMMA ResolverSide ==
  ASSUME RoleInv, NEW r \in Resolver, Resolve(r)
  PROVE  SideStep
<1>1. /\ case \in [Case -> CaseRow] /\ release \in [Case -> Row]
      /\ resolver \in [Resolver -> Lease]
  BY DEF RoleInv, TypeOK
<1>2. ASSUME NEW c \in Case, NEW auto \in BOOLEAN, ClaimResolution(r, c, auto)
      PROVE  SideStep
  <2> DEFINE k == Resolving(case[c], r)
             l == [stage |-> "claimed", case |-> c, auto |-> auto, owned |-> FALSE]
  <2>1. k.status = "resolving" /\ k.holder = r
    BY <1>1, ResolvingCase DEF Holder
  <2>2. case'[c] = k /\ \A d \in Case \ {c} : case'[d] = case[d]
    BY <1>1, <1>2 DEF ClaimResolution
  <2>3. /\ resolver'[r].stage = "claimed" /\ resolver'[r].case = c
        /\ \A q \in Resolver \ {r} : resolver'[q] = resolver[q]
    BY <1>1, <1>2 DEF ClaimResolution
  <2> HIDE DEF k
  <2>4. Taken(c)
    BY <1>2, <2>1, <2>2, <2>3 DEF Taken, ClaimResolution
  <2> QED
    BY <1>2, <2>2, <2>3, <2>4 DEF SideStep, Kept, Asked, Looks, ClaimResolution, rows
<1>3. CASE ReadOwned(r)
  <2> DEFINE o == (owner = resolver[r].case)
             l == [resolver[r] EXCEPT !.stage = "owned", !.owned = o]
  <2>1. l.stage = "owned" /\ l.case = resolver[r].case /\ (l.owned <=> o)
    BY <1>1 DEF Lease
  <2>2. resolver' = [resolver EXCEPT ![r] = l]
    BY <1>1, <1>3 DEF ReadOwned, Lease
  <2>3. UNCHANGED <<case, apply, release, exec, role, reopened, letGo>>
    BY <1>3 DEF ReadOwned, rows
  <2> HIDE DEF l
  <2>4. \A q \in Resolver : Looks(q)
    BY <1>1, <1>3, <2>1, <2>2 DEF Looks, ReadOwned
  <2> QED
    BY <2>3, <2>4 DEF SideStep, Kept, Asked
<1>4. CASE FinishResolution(r) \/ ReleaseResolution(r)
  <2> DEFINE c == resolver[r].case
  <2>1. c \in Case /\ case[c] \in CaseRow /\ release[c] \in Row
    BY <1>1, <1>4 DEF FinishResolution, ReleaseResolution, RoleInv, Bound
  <2>2. UNCHANGED <<apply, exec, role, letGo>>
    BY <1>4 DEF FinishResolution, ReleaseResolution, rows
  <2>3. \A q \in Resolver : Looks(q)
    BY <1>1, <1>4 DEF FinishResolution, ReleaseResolution, Looks, NoLease
  <2> HIDE DEF c
  <2>4. CASE case' = case /\ reopened' = reopened /\ release' = release
    BY <2>2, <2>3, <2>4 DEF SideStep, Kept, Asked
  <2>5. CASE /\ case' = [case EXCEPT ![c] = Reopened(@)]
             /\ reopened' = reopened \cup {c} /\ release' = release
    <3>1. case'[c].status = "pending" /\ \A d \in Case \ {c} : case'[d] = case[d]
      BY <1>1, <2>1, <2>5, ReopenedCase
    <3> QED
      BY <2>2, <2>3, <2>5, <3>1 DEF SideStep, Kept, Asked, Opened
  <2>6. ASSUME NEW s \in Terminal, case' = [case EXCEPT ![c] = Closed(s)],
               reopened' = reopened, Leased(r), resolver[r].stage = "owned",
               release' = IF resolver[r].owned THEN [release EXCEPT ![c] = Ensured(@)]
                          ELSE release
        PROVE  SideStep
    <3>1. case'[c].status = s /\ \A d \in Case \ {c} : case'[d] = case[d]
      BY <1>1, <2>1, <2>6, ClosedCase
    <3>2. case[c].status # "none"
      BY <2>6 DEF Leased, c
    <3>3. release[c].status = "none" => (resolver[r].owned <=> owner = c)
      BY <2>6 DEF RoleInv, Snapshots, c
    <3>4. /\ release'[c] = IF resolver[r].owned THEN Ensured(release[c]) ELSE release[c]
          /\ \A d \in Case \ {c} : release'[d] = release[d]
      BY <1>1, <2>1, <2>6
    <3>5. Closes(c)
      BY <2>1, <3>1, <3>2, <3>3, <3>4, EnsuredRow DEF Closes
    <3>6. \A d \in Case : Asked(d)
      BY <2>1, <2>2, <3>3, <3>4, <3>5, EnsuredRow DEF Asked
    <3> QED
      BY <2>2, <2>3, <2>6, <3>1, <3>5, <3>6 DEF SideStep, Kept
  <2>7. CASE FinishResolution(r)
    BY <2>4, <2>5, <2>6, <2>7 DEF FinishResolution, Terminal, c
  <2>8. CASE ReleaseResolution(r)
    BY <2>4, <2>5, <2>8 DEF ReleaseResolution, rows, c
  <2> QED
    BY <1>4, <2>7, <2>8
<1> QED
  BY <1>2, <1>3, <1>4 DEF Resolve

\* None of these steps breaks what the executors rely on.
LEMMA SideKeeps ==
  ASSUME RoleInv, SideStep
  PROVE  Bound' /\ Locked' /\ Reviewed' /\ Snapshots' /\ Queued'
<1>1. /\ exec' = exec /\ owner' = owner /\ reopened \subseteq reopened'
      /\ owner \in Case \cup {NoCase} /\ letGo \subseteq Case
      /\ \A w \in Worker : Busy(w) => exec[w].case \in Case
  BY DEF SideStep, role, RoleInv, TypeOK, Bound, Placed
<1>2. Pending.status = "pending" /\ Terminal \cap {"none", "pending", "resolving"} = {}
  BY DEF Pending, NoRow, Terminal
<1>3. \A d \in Case :
         /\ apply[d].status # "none" => apply'[d].status # "none"
         /\ release[d].status # "none" => release'[d] = release[d]
         /\ case[d].status # "none" => case'[d].status # "none"
         /\ apply'[d].status # "none" => case'[d].status # "none"
  <2> TAKE d \in Case
  <2>1. Asked(d) /\ (Kept(d) \/ Opened(d) \/ Taken(d) \/ Closes(d))
        /\ (apply[d].status # "none" => case[d].status # "none")
    BY DEF SideStep, RoleInv, Bound
  <2>2. case[d].status # "none" => case'[d].status # "none"
    BY <1>2, <2>1 DEF Kept, Opened, Taken, Closes
  <2> QED
    BY <1>2, <2>1, <2>2 DEF Asked
<1>4. Bound'
  <2>1. \A r \in Resolver : resolver'[r].stage # "idle" => resolver'[r].case \in Case
    BY DEF SideStep, Looks, RoleInv, Bound
  <2>2. \A w \in Worker : Placed(w)'
    BY <1>1, <1>3 DEF RoleInv, Bound, Placed, Busy, Applying, Releasing
  <2> QED
    BY <1>3, <2>1, <2>2 DEF Bound
<1>5. Locked'
  BY <1>1 DEF RoleInv, Locked, Inside
<1>6. \A d \in Case : Past(d) => Past(d)'
  BY <1>1, <1>2 DEF SideStep, Kept, Opened, Taken, Closes, Past
<1>7. Reviewed'
  <2>1. ASSUME NEW d \in letGo' PROVE Past(d)'
    BY <1>1, <1>6, <2>1 DEF SideStep, RoleInv, Reviewed, Past
  <2>2. ASSUME NEW d \in Case, release'[d].status # "none" PROVE Past(d)'
    <3>1. Asked(d)
      BY DEF SideStep
    <3>2. CASE Closes(d)
      BY <1>2, <3>2 DEF Closes, Past
    <3> QED
      BY <1>6, <2>2, <3>1, <3>2 DEF Asked, RoleInv, Reviewed
  <2> QED
    BY <2>1, <2>2 DEF Reviewed
<1>8. Snapshots'
  <2> SUFFICES ASSUME NEW r \in Resolver, resolver'[r].stage = "owned", Leased(r)',
                      release'[resolver'[r].case].status = "none"
               PROVE  resolver'[r].owned <=> owner' = resolver'[r].case
    BY DEF Snapshots
  <2>1. Looks(r)
    BY DEF SideStep
  <2>2. CASE resolver'[r] = resolver[r]
    <3> DEFINE c == resolver[r].case
    <3>1. c \in Case
      BY <2>2 DEF RoleInv, Bound
    <3>2. case'[c].status = "resolving" /\ case'[c].holder = r
      BY <2>2 DEF Leased
    <3> HIDE DEF c
    <3>3. Kept(c)
      BY <1>2, <2>2, <3>1, <3>2 DEF SideStep, Opened, Taken, Closes
    <3>4. Leased(r) /\ release[c].status = "none"
      BY <1>3, <2>2, <3>1, <3>2, <3>3 DEF Kept, Leased, c
    <3> QED
      BY <1>1, <2>2, <3>4 DEF RoleInv, Snapshots, c
  <2> QED
    BY <1>1, <2>1, <2>2 DEF Looks
<1>9. Queued'
  <2>1. ASSUME NEW d \in Case, owner' = d, case'[d].status \in Terminal
        PROVE  release'[d].status # "none"
    <3>1. Kept(d) \/ Closes(d)
      BY <1>2, <2>1 DEF SideStep, Opened, Taken
    <3> QED
      BY <1>1, <1>3, <2>1, <3>1 DEF Kept, Closes, RoleInv, Queued
  <2>2. ASSUME NEW d \in Case \ reopened', owner' = d, release'[d].status # "none"
        PROVE  Unfinished(release'[d])
    <3>1. Asked(d) /\ d \notin reopened
      BY <1>1 DEF SideStep
    <3> QED
      BY <1>1, <1>2, <2>2, <3>1 DEF Asked, Unfinished, RoleInv, Queued
  <2>3. ASSUME NEW w \in Worker PROVE Timely(w)'
    <3> DEFINE d == exec[w].case
    <3>1. Timely(w) /\ (Busy(w) => d \in Case)
      BY <1>1 DEF RoleInv, Queued
    <3>2. CASE ~Busy(w)
      BY <1>1, <3>2 DEF Timely, Busy, Releasing
    <3>3. CASE Busy(w)
      <4>1. Asked(d) /\ d \in Case
        BY <3>1, <3>3 DEF SideStep
      <4>2. release'[d] = release[d] \/ owner = d
        BY <4>1 DEF Asked
      <4>3. Releasing(w) => release[d].status # "none"
        BY DEF RoleInv, Bound, Placed
      <4> HIDE DEF d
      <4> QED
        BY <1>1, <3>1, <4>2, <4>3 DEF Timely, Releasing, Busy, d
    <3> QED
      BY <3>2, <3>3
  <2> QED
    BY <2>1, <2>2, <2>3 DEF Queued
<1> QED
  BY <1>4, <1>5, <1>7, <1>8, <1>9

-----------------------------------------------------------------------------
(* What a step of an executor does *)

\* The ownership changes hands inside the lock: it is given up, or taken over from a
\* case whose role is to go, by a case that is open or has its release asked for.
OwnerMoves(w) ==
    /\ Inside(w) \/ ~LockedOut(w)
    /\ \/ owner = NoCase
       \/ owner \in Case /\ (release[owner].status # "none" \/ case[owner].status \in Terminal)
    /\ \/ owner' = NoCase
       \/ /\ owner' \in Case
          /\ owner' \in reopened \/ release[owner'].status = "none"
          /\ case[owner'].status = "pending" \/ release'[owner'].status # "none"

\* A release is asked for late by an apply, goes on, or ends when it may.
ReleaseMoves(w, d) ==
    \/ release'[d] = release[d]
    \/ /\ Unfinished(release'[d])
       /\ release[d].status = "none" =>
             Inside(w) /\ owner' = d /\ case[d].status \notin {"none", "pending"}
    \/ /\ release[d].status # "none" /\ release'[d].status # "none"
       /\ d \in reopened \/ owner' # d

ExecMove(w) ==
    /\ UNCHANGED <<case, resolver, letGo, reopened>>
    /\ \A v \in Worker \ {w} : exec'[v] = exec[v]
    /\ \A d \in Case : apply'[d].status # "none" <=> apply[d].status # "none"
    /\ \A d \in Case : ReleaseMoves(w, d)
    /\ owner' = owner \/ OwnerMoves(w)
    /\ Inside(w)' => Inside(w) \/ ~LockedOut(w)
    /\ exec'[w].stage = "remove" => owner' = exec'[w].case
    /\ Placed(w)' /\ Timely(w)'

\* Such a step breaks nothing that the other executors rely on.
LEMMA MoveKeeps ==
  ASSUME RoleInv, NEW w \in Worker, ExecMove(w)
  PROVE  Bound' /\ Locked' /\ Reviewed' /\ Snapshots' /\ Queued'
<1>1. /\ case' = case /\ resolver' = resolver /\ letGo' = letGo /\ reopened' = reopened
      /\ \A v \in Worker \ {w} : exec'[v] = exec[v]
      /\ owner \in Case \cup {NoCase} /\ NoCase \notin Case
  BY NoCaseAssumption DEF ExecMove, RoleInv, TypeOK
<1>2. \A d \in Case : release[d].status # "none" => release'[d].status # "none"
  BY DEF ExecMove, ReleaseMoves, Unfinished
<1>3. Bound'
  <2>1. ASSUME NEW v \in Worker PROVE Placed(v)'
    <3>1. CASE v = w
      BY <3>1 DEF ExecMove
    <3>2. CASE v # w
      BY <1>1, <1>2, <3>2 DEF ExecMove, RoleInv, Bound, Placed, Busy, Applying, Releasing
    <3> QED
      BY <3>1, <3>2
  <2> QED
    BY <1>1, <2>1 DEF ExecMove, RoleInv, Bound
<1>4. Locked'
  <2>1. ASSUME NEW u \in Worker, NEW v \in Worker, Inside(u)', Inside(v)' PROVE u = v
    BY <1>1, <2>1 DEF ExecMove, RoleInv, Locked, LockedOut, Inside
  <2>2. ASSUME NEW v \in Worker, exec'[v].stage = "remove" PROVE owner' = exec'[v].case
    <3>1. CASE v = w
      BY <2>2, <3>1 DEF ExecMove
    <3>2. CASE v # w
      <4>1. Inside(v) /\ owner = exec[v].case
        BY <1>1, <2>2, <3>2 DEF RoleInv, Locked, Inside
      <4>2. ~OwnerMoves(w)
        BY <3>2, <4>1 DEF OwnerMoves, LockedOut, RoleInv, Locked
      <4> QED
        BY <1>1, <3>2, <4>1, <4>2 DEF ExecMove
    <3> QED
      BY <3>1, <3>2
  <2> QED
    BY <2>1, <2>2 DEF Locked
<1>5. Reviewed'
  <2>1. ASSUME NEW d \in Case, release'[d].status # "none" PROVE Past(d)'
    BY <1>1, <2>1 DEF ExecMove, ReleaseMoves, RoleInv, Reviewed, Past
  <2> QED
    BY <1>1, <2>1 DEF RoleInv, Reviewed, Past
<1>6. Snapshots'
  <2> SUFFICES ASSUME NEW r \in Resolver, resolver[r].stage = "owned", Leased(r),
                      release'[resolver[r].case].status = "none"
               PROVE  resolver[r].owned <=> owner' = resolver[r].case
    BY <1>1 DEF Snapshots, Leased
  <2> DEFINE c == resolver[r].case
  <2>1. c \in Case /\ case[c].status = "resolving"
    BY DEF RoleInv, Bound, Leased
  <2>2. release[c].status = "none"
    BY <1>2, <2>1
  <2>3. resolver[r].owned <=> owner = c
    BY <2>2 DEF RoleInv, Snapshots
  <2> HIDE DEF c
  <2>4. ASSUME OwnerMoves(w) PROVE owner # c /\ owner' # c
    BY <2>1, <2>2, <2>4, <1>1 DEF OwnerMoves, Terminal, c
  <2> QED
    BY <2>3, <2>4 DEF ExecMove, c
<1>7. Queued'
  <2>1. ASSUME NEW d \in Case, owner' = d, case'[d].status \in Terminal
        PROVE  release'[d].status # "none"
    BY <1>1, <1>2, <2>1 DEF ExecMove, OwnerMoves, RoleInv, Queued, Terminal
  <2>2. ASSUME NEW d \in Case \ reopened', owner' = d, release'[d].status # "none"
        PROVE  Unfinished(release'[d])
    <3>1. ReleaseMoves(w, d)
      BY DEF ExecMove
    <3>2. CASE release'[d] = release[d]
      BY <1>1, <2>2, <3>2 DEF ExecMove, OwnerMoves, RoleInv, Queued
    <3> QED
      BY <1>1, <2>2, <3>1, <3>2 DEF ReleaseMoves
  <2>3. ASSUME NEW v \in Worker PROVE Timely(v)'
    <3>1. CASE v = w
      BY <3>1 DEF ExecMove
    <3>2. CASE v # w
      <4> DEFINE d == exec[v].case
      <4>1. Timely(v) /\ exec'[v] = exec[v] /\ (Busy(v) => d \in Case)
            /\ (Releasing(v) => release[d].status # "none")
        BY <1>1, <3>2 DEF RoleInv, Queued, Bound, Placed
      <4>2. ASSUME d \notin reopened, exec[v].stage \in {"add", "record"},
                   release'[d].status # "none"
            PROVE  owner' = d
        <5>1. Inside(v) /\ d \in Case
          BY <4>1, <4>2 DEF Inside, Busy
        <5>2. ~Inside(w) /\ LockedOut(w)
          BY <3>2, <5>1 DEF RoleInv, Locked, LockedOut
        <5>3. owner' = owner
          BY <5>2 DEF ExecMove, OwnerMoves
        <5>4. release[d].status # "none"
          BY <4>2, <5>1, <5>2 DEF ExecMove, ReleaseMoves
        <5> QED
          BY <4>1, <4>2, <5>3, <5>4 DEF Timely
      <4>3. ASSUME d \notin reopened, Releasing(v), exec[v].stage = "settle", ~exec[v].failed
            PROVE  owner' # d
        BY <1>1, <4>1, <4>3 DEF ExecMove, OwnerMoves, Timely, Releasing
      <4> QED
        BY <1>1, <4>1, <4>2, <4>3 DEF Timely, Releasing, Busy
    <3> QED
      BY <3>1, <3>2
  <2> QED
    BY <2>1, <2>2, <2>3 DEF Queued
<1> QED
  BY <1>3, <1>4, <1>5, <1>6, <1>7

\* What going on to the next stage leaves of an executor.
LEMMA GoesOn ==
  ASSUME exec \in [Worker -> Exec], NEW w \in Worker, NEW s \in Stages, Goto(w, s)
  PROVE  /\ exec' \in [Worker -> Exec]
         /\ exec'[w].stage = s /\ exec'[w].kind = exec[w].kind
         /\ exec'[w].case = exec[w].case /\ exec'[w].claim = exec[w].claim
         /\ exec'[w].outer = exec[w].outer /\ exec'[w].failed = exec[w].failed
         /\ \A v \in Worker \ {w} : exec'[v] = exec[v]
<1> DEFINE f == [exec[w] EXCEPT !.stage = s, !.wanted = FALSE]
<1>1. /\ f \in Exec /\ f.stage = s /\ f.kind = exec[w].kind /\ f.case = exec[w].case
      /\ f.claim = exec[w].claim /\ f.outer = exec[w].outer /\ f.failed = exec[w].failed
  BY DEF Exec
<1>2. exec' = [exec EXCEPT ![w] = f]
  BY DEF Goto, Exec
<1> HIDE DEF f
<1> QED
  BY <1>1, <1>2

\* What reporting the outcome leaves of an executor.
LEMMA ReportsOn ==
  ASSUME exec \in [Worker -> Exec], NEW w \in Worker, NEW ok \in BOOLEAN, Report(w, ok)
  PROVE  /\ exec' \in [Worker -> Exec]
         /\ exec'[w].stage = "settle" /\ exec'[w].kind = exec[w].kind
         /\ exec'[w].case = exec[w].case /\ exec'[w].claim = exec[w].claim
         /\ exec'[w].outer = exec[w].outer /\ (exec'[w].failed <=> ~ok)
         /\ \A v \in Worker \ {w} : exec'[v] = exec[v]
<1> DEFINE b == ~ok
           f == [exec[w] EXCEPT !.stage = "settle", !.wanted = FALSE, !.failed = b]
<1>1. b \in BOOLEAN
  OBVIOUS
<1>2. exec' = [exec EXCEPT ![w] = f]
  BY DEF Report, Exec
<1>3. b <=> ~ok
  OBVIOUS
<1> HIDE DEF b
<1>4. /\ f \in Exec /\ f.stage = "settle" /\ f.kind = exec[w].kind /\ f.case = exec[w].case
      /\ f.claim = exec[w].claim /\ f.outer = exec[w].outer /\ f.failed = b
  BY <1>1 DEF Exec, Stages
<1> HIDE DEF f
<1> QED
  BY <1>2, <1>3, <1>4

\* An executor that goes on with its row stays placed.
LEMMA StaysPlaced ==
  ASSUME RoleInv, NEW w \in Worker, Busy(w), exec[w].stage # "settle",
         exec'[w].kind = exec[w].kind, exec'[w].case = exec[w].case,
         exec'[w].outer = exec[w].outer, exec'[w].stage # "idle",
         exec'[w].stage \in {"add", "record", "nest"} =>
            exec[w].kind = "apply" /\ exec[w].outer = 0,
         exec'[w].stage \in {"remove", "disown"} => exec[w].kind = "release",
         \A d \in Case : apply[d].status # "none" => apply'[d].status # "none",
         \A d \in Case : release[d].status # "none" => release'[d].status # "none"
  PROVE  Placed(w)'
BY DEF RoleInv, Bound, Placed, Busy, Applying, Releasing

\* The steps that report, and touch neither the ownership nor the releases.
LEMMA ReportMove ==
  ASSUME RoleInv, NEW w \in Worker, Busy(w), exec[w].stage # "settle",
         NEW ok \in BOOLEAN, Report(w, ok),
         ok /\ exec[w].kind = "release" => owner # exec[w].case,
         UNCHANGED <<case, resolver, letGo, reopened, apply, release, owner>>
  PROVE  ExecMove(w)
<1>1. exec \in [Worker -> Exec]
  BY DEF RoleInv, TypeOK
<1>2. /\ exec'[w].stage = "settle" /\ exec'[w].kind = exec[w].kind
      /\ exec'[w].case = exec[w].case /\ exec'[w].outer = exec[w].outer
      /\ (exec'[w].failed <=> ~ok)
      /\ \A v \in Worker \ {w} : exec'[v] = exec[v]
  BY <1>1, ReportsOn
<1>3. Placed(w)'
  BY <1>2, StaysPlaced
<1>4. Timely(w)'
  BY <1>2 DEF Timely, Releasing
<1> QED
  BY <1>2, <1>3, <1>4 DEF ExecMove, ReleaseMoves, Inside

\* A claim puts an executor on a row that exists.
LEMMA ClaimMove ==
  ASSUME RoleInv, NEW w \in Worker, NEW kind \in {"apply", "release"}, NEW c \in Case,
         ClaimRole(w, kind, c)
  PROVE  ExecMove(w)
<1>1. /\ exec \in [Worker -> Exec] /\ apply \in [Case -> Row] /\ release \in [Case -> Row]
      /\ apply[c] \in Row /\ release[c] \in Row /\ exec[w].stage = "idle"
  BY DEF RoleInv, TypeOK, ClaimRole
<1> DEFINE k == IF kind = "apply" THEN apply[c] ELSE release[c]
           n == k.claim + 1
           f == [Idle EXCEPT !.stage = "load", !.kind = kind, !.case = c, !.claim = n]
           j == Claimed(k)
<1>2. k \in Row /\ Unfinished(k) /\ k.claim < MaxClaims
  BY <1>1 DEF ClaimRole, Claimable
<1>3. /\ exec' = [exec EXCEPT ![w] = f]
      /\ UNCHANGED <<case, owner, resolver, letGo, reopened>>
      /\ IF kind = "apply" THEN apply' = [apply EXCEPT ![c] = j] /\ UNCHANGED release
         ELSE release' = [release EXCEPT ![c] = j] /\ UNCHANGED apply
  BY DEF ClaimRole, role
<1>4. j.status = "running"
  BY <1>2, ClaimedRow
<1>5. f.stage = "load" /\ f.kind = kind /\ f.case = c /\ f.outer = 0
  BY DEF Idle
<1>6. kind = "apply" => k = apply[c]
  OBVIOUS
<1>7. kind = "release" => k = release[c]
  OBVIOUS
<1> HIDE DEF f, j, k
<1>8. /\ exec'[w] = f /\ \A v \in Worker \ {w} : exec'[v] = exec[v]
  BY <1>1, <1>3
<1>9. /\ \A d \in Case : apply'[d].status # "none" <=> apply[d].status # "none"
      /\ kind = "apply" => apply'[c].status # "none"
  BY <1>1, <1>2, <1>3, <1>4, <1>6 DEF Unfinished
<1>10. /\ \A d \in Case : ReleaseMoves(w, d)
       /\ kind = "release" => release'[c].status # "none"
  BY <1>1, <1>2, <1>3, <1>4, <1>7 DEF Unfinished, ReleaseMoves
<1>11. Placed(w)'
  BY <1>5, <1>8, <1>9, <1>10 DEF Placed, Busy, Applying, Releasing
<1>12. Timely(w)'
  BY <1>5, <1>8 DEF Timely, Releasing
<1> QED
  BY <1>3, <1>5, <1>8, <1>9, <1>10, <1>11, <1>12 DEF ExecMove, Inside

\* The snapshot touches the executor only.
LEMMA LoadMove ==
  ASSUME RoleInv, NEW w \in Worker, Load(w)
  PROVE  ExecMove(w)
<1>1. exec \in [Worker -> Exec] /\ exec[w].stage = "load" /\ Busy(w)
  BY DEF RoleInv, TypeOK, Load, Busy
<1>2. /\ exec'[w].stage = "decide" /\ exec'[w].kind = exec[w].kind
      /\ exec'[w].case = exec[w].case /\ exec'[w].outer = exec[w].outer
      /\ \A v \in Worker \ {w} : exec'[v] = exec[v]
  BY <1>1 DEF Load, Exec
<1>3. UNCHANGED <<case, apply, release, owner, resolver, letGo, reopened>>
  BY DEF Load, rows, role
<1>4. Placed(w)'
  BY <1>1, <1>2, <1>3, StaysPlaced
<1>5. Timely(w)'
  BY <1>2 DEF Timely, Releasing
<1> QED
  BY <1>2, <1>3, <1>4, <1>5 DEF ExecMove, ReleaseMoves, Inside

\* The steps of an apply up to the record of the ownership.
LEMMA ApplyMove ==
  ASSUME RoleInv, NEW w \in Worker,
         \/ ApplySuperseded(w) \/ ApplyStarts(w) \/ ApplyAmbiguous(w) \/ ApplyReconciles(w)
         \/ AddRole(w) \/ AddFails(w)
  PROVE  ExecMove(w)
<1>1. /\ exec \in [Worker -> Exec] /\ apply \in [Case -> Row]
      /\ exec[w].stage \in {"decide", "add"} /\ Busy(w) /\ exec[w].case \in Case
      /\ exec[w].kind = "apply" /\ exec[w].outer = 0
      /\ UNCHANGED <<case, resolver, letGo, reopened, release>>
  <2>1. exec[w].stage \in {"decide", "add"} /\ (exec[w].stage = "decide" => exec[w].kind = "apply")
    BY DEF ApplySuperseded, ApplyStarts, ApplyAmbiguous, ApplyReconciles, AddRole, AddFails,
           Decides
  <2>2. UNCHANGED <<case, resolver, letGo, reopened, release>>
    BY DEF ApplySuperseded, ApplyStarts, ApplyAmbiguous, ApplyReconciles, AddRole, AddFails,
           Aside
  <2>3. exec[w].outer \in Nat
    BY BoundAssumption DEF RoleInv, TypeOK, Exec
  <2> QED
    BY <2>1, <2>2, <2>3 DEF RoleInv, TypeOK, Bound, Placed, Busy
<1> DEFINE c == exec[w].case
<1>2. CASE ApplySuperseded(w) \/ ApplyAmbiguous(w) \/ AddFails(w)
  BY <1>1, <1>2, ReportMove DEF ApplySuperseded, ApplyAmbiguous, AddFails, role
<1>3. CASE ApplyStarts(w)
  <2>1. CASE ApplyHeld(w)
    <3>1. apply' = [apply EXCEPT ![c].effect = TRUE] /\ Goto(w, "add") /\ owner' = owner
          /\ case[c].status = "pending" /\ ~LockedOut(w)
      BY <1>3, <2>1 DEF ApplyStarts, ApplyHeld, role, Decides
    <3>2. /\ exec'[w].stage = "add" /\ exec'[w].kind = exec[w].kind
          /\ exec'[w].case = exec[w].case /\ exec'[w].outer = exec[w].outer
          /\ \A v \in Worker \ {w} : exec'[v] = exec[v]
      BY <1>1, <3>1, GoesOn DEF Stages
    <3>3. \A d \in Case : apply'[d].status = apply[d].status
      BY <1>1, <3>1 DEF Row
    <3>4. Placed(w)'
      BY <1>1, <3>2, <3>3, StaysPlaced
    <3>5. release[c].status # "none" => c \in reopened
      BY <1>1, <3>1 DEF RoleInv, Reviewed, Past
    <3>6. Timely(w)'
      BY <1>1, <3>2, <3>5 DEF Timely, Releasing
    <3> QED
      BY <1>1, <3>1, <3>2, <3>3, <3>4, <3>6 DEF ExecMove, ReleaseMoves, Inside
  <2>2. CASE ~ApplyHeld(w)
    BY <1>1, <1>3, <2>2, ReportMove DEF ApplyStarts, role
  <2> QED
    BY <2>1, <2>2
<1>4. CASE ApplyReconciles(w)
  <2> DEFINE inherits == ApplyHeld(w) /\ Transferable(owner, c)
             ok == inherits \/ owner \in {NoCase, c}
  <2>1. /\ owner' = IF inherits THEN c ELSE owner
        /\ Report(w, ok) /\ apply' = apply /\ ~LockedOut(w)
    BY <1>4 DEF ApplyReconciles, Decides
  <2>2. CASE ~inherits
    BY <1>1, <2>1, <2>2, ReportMove
  <2>3. CASE inherits
    <3>1. case[c].status = "pending" /\ owner # NoCase /\ case[owner].status \in Terminal
      BY <2>3 DEF ApplyHeld, Transferable
    <3>2. owner \in Case /\ NoCase \notin Case
      BY <3>1, NoCaseAssumption DEF RoleInv, TypeOK
    <3>3. c \in reopened \/ release[c].status = "none"
      BY <1>1, <3>1 DEF RoleInv, Reviewed, Past
    <3>4. owner' = c
      BY <2>1, <2>3
    <3>5. OwnerMoves(w)
      BY <1>1, <2>1, <3>1, <3>2, <3>3, <3>4 DEF OwnerMoves
    <3>6. ok \in BOOLEAN
      OBVIOUS
    <3> HIDE DEF ok
    <3>7. /\ exec'[w].stage = "settle" /\ exec'[w].kind = exec[w].kind
          /\ exec'[w].case = exec[w].case /\ exec'[w].outer = exec[w].outer
          /\ \A v \in Worker \ {w} : exec'[v] = exec[v]
      BY <1>1, <2>1, <3>6, ReportsOn
    <3>8. Placed(w)'
      BY <1>1, <2>1, <3>7, StaysPlaced
    <3>9. Timely(w)'
      BY <1>1, <3>7 DEF Timely, Releasing
    <3> QED
      BY <1>1, <2>1, <3>5, <3>7, <3>8, <3>9 DEF ExecMove, ReleaseMoves, Inside
  <2> QED
    BY <2>2, <2>3
<1>5. CASE AddRole(w)
  <2>1. Goto(w, "record") /\ UNCHANGED <<apply, owner>> /\ exec[w].stage = "add"
    BY <1>5 DEF AddRole
  <2>2. /\ exec'[w].stage = "record" /\ exec'[w].kind = exec[w].kind
        /\ exec'[w].case = exec[w].case /\ exec'[w].outer = exec[w].outer
        /\ \A v \in Worker \ {w} : exec'[v] = exec[v]
    BY <1>1, <2>1, GoesOn DEF Stages
  <2>3. Placed(w)'
    BY <1>1, <2>1, <2>2, StaysPlaced
  <2>4. Timely(w)'
    BY <1>1, <2>1, <2>2 DEF Timely, Releasing, RoleInv, Queued
  <2> QED
    BY <1>1, <2>1, <2>2, <2>3, <2>4 DEF ExecMove, ReleaseMoves, Inside
<1> QED
  BY <1>2, <1>3, <1>4, <1>5

\* The record of the ownership, and the release that an apply runs itself.
LEMMA RecordMove ==
  ASSUME RoleInv, NEW w \in Worker, RecordOwnership(w)
  PROVE  ExecMove(w)
<1> DEFINE c == exec[w].case
           recorded == Held(apply[c], exec[w].claim) /\ owner = NoCase
<1>1. /\ exec \in [Worker -> Exec] /\ release \in [Case -> Row] /\ exec[w].stage = "record"
      /\ Busy(w) /\ Inside(w) /\ c \in Case /\ exec[w].kind = "apply" /\ exec[w].outer = 0
      /\ apply[c].status # "none" /\ case[c].status # "none" /\ release[c] \in Row
  BY DEF RecordOwnership, RoleInv, TypeOK, Bound, Placed, Busy, Inside, Applying
<1>2. /\ UNCHANGED <<case, resolver, letGo, reopened, apply>>
      /\ owner' = IF recorded THEN c ELSE owner
  BY DEF RecordOwnership, Aside
<1>3. /\ exec'[w].stage \in {"nest", "settle"} /\ exec'[w].kind = exec[w].kind
      /\ exec'[w].case = exec[w].case /\ exec'[w].outer = exec[w].outer
      /\ \A v \in Worker \ {w} : exec'[v] = exec[v]
  <2>1. Goto(w, "nest") \/ Report(w, TRUE)
    BY DEF RecordOwnership
  <2> QED
    BY <1>1, <2>1, GoesOn, ReportsOn DEF Stages
<1>4. \/ release' = release /\ (recorded => case[c].status = "pending")
      \/ /\ recorded /\ case[c].status # "pending"
         /\ release' = [release EXCEPT ![c] = Ensured(@)]
  BY DEF RecordOwnership, ReleaseRequired
<1>5. \A d \in Case \ {c} : release'[d] = release[d]
  BY <1>1, <1>4
<1>6. \/ release'[c] = release[c]
      \/ release[c].status = "none" /\ release'[c] = Pending /\ recorded
         /\ case[c].status # "pending"
  BY <1>1, <1>4, EnsuredRow
<1>7. recorded => case[c].status = "pending" \/ release'[c].status # "none"
  BY <1>1, <1>4, EnsuredRow
<1>8. recorded => c \in reopened \/ release[c].status = "none"
  BY <1>1, NoCaseAssumption DEF RoleInv, Queued, Timely
<1>9. Pending.status = "pending"
  BY DEF Pending, NoRow
<1> HIDE DEF c
<1>10. \A d \in Case : ReleaseMoves(w, d)
  BY <1>1, <1>2, <1>5, <1>6, <1>9 DEF ReleaseMoves, Unfinished
<1>11. owner' = owner \/ OwnerMoves(w)
  BY <1>1, <1>2, <1>7, <1>8 DEF OwnerMoves
<1>12. \A d \in Case : release[d].status # "none" => release'[d].status # "none"
  BY <1>5, <1>6
<1>13. Placed(w)'
  BY <1>1, <1>2, <1>3, <1>12, StaysPlaced
<1>14. Timely(w)'
  BY <1>1, <1>3 DEF Timely, Releasing
<1> QED
  BY <1>1, <1>2, <1>3, <1>10, <1>11, <1>13, <1>14 DEF ExecMove

\* The release inside an apply works on a row that was asked for.
LEMMA NestMove ==
  ASSUME RoleInv, NEW w \in Worker, NestRelease(w)
  PROVE  ExecMove(w)
<1> DEFINE c == exec[w].case
           n == release[c].claim + 1
           m == exec[w].claim
           k == Claimed(release[c])
           f == [exec[w] EXCEPT !.stage = "decide", !.kind = "release", !.claim = n,
                                !.outer = m]
<1>1. /\ exec \in [Worker -> Exec] /\ release \in [Case -> Row] /\ exec[w].stage = "nest"
      /\ Busy(w) /\ Inside(w) /\ c \in Case /\ exec[w].kind = "apply"
      /\ apply[c].status # "none" /\ release[c] \in Row
      /\ UNCHANGED <<case, resolver, letGo, reopened, apply, owner>>
  BY DEF NestRelease, RoleInv, TypeOK, Bound, Placed, Busy, Inside, Applying, Aside, role
<1>2. CASE release[c].status # "pending" /\ Report(w, TRUE) /\ UNCHANGED release
  BY <1>1, <1>2, ReportMove
<1>3. CASE /\ release[c].status \in {"pending", "failed"} /\ release[c].claim < MaxClaims
           /\ release' = [release EXCEPT ![c] = k]
           /\ exec' = [exec EXCEPT ![w] = f]
  <2>1. k.status = "running"
    BY <1>1, <1>3, ClaimedRow
  <2>2. f.stage = "decide" /\ f.kind = "release" /\ f.case = c
    BY <1>1 DEF Exec
  <2> HIDE DEF f, k
  <2>3. exec'[w] = f /\ \A v \in Worker \ {w} : exec'[v] = exec[v]
    BY <1>1, <1>3
  <2>4. release'[c].status = "running" /\ \A d \in Case \ {c} : release'[d] = release[d]
    BY <1>1, <1>3, <2>1
  <2> HIDE DEF c
  <2>5. Placed(w)'
    BY <1>1, <2>2, <2>3, <2>4 DEF Placed, Busy, Applying, Releasing
  <2>6. Timely(w)'
    BY <2>2, <2>3 DEF Timely, Releasing
  <2> QED
    BY <1>1, <1>3, <2>2, <2>3, <2>4, <2>5, <2>6 DEF ExecMove, ReleaseMoves, Unfinished
<1>4. exec' = [exec EXCEPT ![w].stage = "decide", ![w].kind = "release", ![w].claim = n,
                           ![w].outer = m] => exec' = [exec EXCEPT ![w] = f]
  BY <1>1 DEF Exec
<1> QED
  BY <1>2, <1>3, <1>4 DEF NestRelease

\* The steps of a release.
LEMMA ReleaseMove ==
  ASSUME RoleInv, NEW w \in Worker,
         \/ ReleaseMoot(w) \/ ReleaseStarts(w) \/ RemoveRole(w) \/ RemoveFails(w) \/ Disown(w)
  PROVE  ExecMove(w)
<1> DEFINE c == exec[w].case
<1>1. /\ exec \in [Worker -> Exec] /\ release \in [Case -> Row]
      /\ exec[w].stage \in {"decide", "remove", "disown"} /\ Busy(w) /\ c \in Case
      /\ exec[w].kind = "release" /\ release[c].status # "none" /\ release[c] \in Row
      /\ UNCHANGED <<case, resolver, letGo, reopened, apply>>
  <2>1. /\ exec[w].stage \in {"decide", "remove", "disown"}
        /\ exec[w].stage = "decide" => exec[w].kind = "release"
    BY DEF ReleaseMoot, ReleaseStarts, RemoveRole, RemoveFails, Disown, Decides
  <2>2. UNCHANGED <<case, resolver, letGo, reopened, apply>>
    BY DEF ReleaseMoot, ReleaseStarts, RemoveRole, RemoveFails, Disown, Aside
  <2> QED
    BY <2>1, <2>2 DEF RoleInv, TypeOK, Bound, Placed, Busy, Releasing
<1>2. CASE ReleaseMoot(w) \/ RemoveFails(w)
  BY <1>1, <1>2, ReportMove DEF ReleaseMoot, RemoveFails, role
<1>3. CASE ReleaseStarts(w)
  <2>1. CASE Held(release[c], exec[w].claim)
    <3>1. /\ release' = [release EXCEPT ![c].effect = TRUE] /\ Goto(w, "remove")
          /\ owner' = owner /\ owner = c /\ ~LockedOut(w) /\ release[c].status = "running"
      BY <1>3, <2>1 DEF ReleaseStarts, role, Decides, Held
    <3>2. /\ exec'[w].stage = "remove" /\ exec'[w].kind = exec[w].kind
          /\ exec'[w].case = exec[w].case /\ exec'[w].outer = exec[w].outer
          /\ \A v \in Worker \ {w} : exec'[v] = exec[v]
      BY <1>1, <3>1, GoesOn DEF Stages
    <3>3. release'[c].status = "running" /\ \A d \in Case \ {c} : release'[d] = release[d]
      BY <1>1, <3>1 DEF Row
    <3> HIDE DEF c
    <3>4. \A d \in Case : release[d].status # "none" => release'[d].status # "none"
      BY <3>3
    <3>5. Placed(w)'
      BY <1>1, <3>2, <3>4, StaysPlaced
    <3>6. Timely(w)'
      BY <3>2 DEF Timely, Releasing
    <3> QED
      BY <1>1, <3>1, <3>2, <3>3, <3>5, <3>6 DEF ExecMove, ReleaseMoves, Unfinished, c
  <2>2. CASE ~Held(release[c], exec[w].claim)
    BY <1>1, <1>3, <2>2, ReportMove DEF ReleaseStarts, role
  <2> QED
    BY <2>1, <2>2
<1>4. CASE RemoveRole(w)
  <2>1. Goto(w, "disown") /\ UNCHANGED <<release, owner>> /\ exec[w].stage = "remove"
    BY <1>4 DEF RemoveRole
  <2>2. /\ exec'[w].stage = "disown" /\ exec'[w].kind = exec[w].kind
        /\ exec'[w].case = exec[w].case /\ exec'[w].outer = exec[w].outer
        /\ \A v \in Worker \ {w} : exec'[v] = exec[v]
    BY <1>1, <2>1, GoesOn DEF Stages
  <2>3. Placed(w)'
    BY <1>1, <2>1, <2>2, StaysPlaced
  <2>4. Timely(w)'
    BY <2>2 DEF Timely, Releasing
  <2> QED
    BY <1>1, <2>1, <2>2, <2>3, <2>4 DEF ExecMove, ReleaseMoves, Inside
<1>5. CASE Disown(w)
  <2>1. /\ Report(w, TRUE) /\ UNCHANGED release /\ Inside(w)
        /\ owner' = IF owner = c THEN NoCase ELSE owner
    BY <1>5 DEF Disown, Inside
  <2>2. /\ exec'[w].stage = "settle" /\ exec'[w].kind = exec[w].kind
        /\ exec'[w].case = exec[w].case /\ exec'[w].outer = exec[w].outer
        /\ \A v \in Worker \ {w} : exec'[v] = exec[v]
    BY <1>1, <2>1, ReportsOn
  <2>3. Placed(w)'
    BY <1>1, <2>1, <2>2, StaysPlaced
  <2>4. owner' # c
    BY <1>1, <2>1, NoCaseAssumption
  <2>5. Timely(w)'
    BY <2>2, <2>4 DEF Timely
  <2>6. owner' = owner \/ OwnerMoves(w)
    BY <1>1, <2>1 DEF OwnerMoves
  <2> QED
    BY <1>1, <2>1, <2>2, <2>3, <2>5, <2>6 DEF ExecMove, ReleaseMoves
<1> QED
  BY <1>2, <1>3, <1>4, <1>5

\* A handler that raises reports a failure.
LEMMA RaiseMove ==
  ASSUME RoleInv, NEW w \in Worker, HandlerRaises(w)
  PROVE  ExecMove(w)
BY ReportMove DEF HandlerRaises, Aside, role, Busy, RoleInv

\* A row is settled; a nested release goes back to its apply.
LEMMA SettleMove ==
  ASSUME RoleInv, NEW w \in Worker, Settle(w)
  PROVE  ExecMove(w)
<1> DEFINE e == exec[w]
           c == e.case
           b == ~e.failed /\ ~Held(release[c], e.claim)
           n == e.outer
           g == [e EXCEPT !.kind = "apply", !.claim = n, !.outer = 0, !.failed = b]
           f == IF e.outer = 0 THEN Idle ELSE g
           a == Settled(apply[c], e)
           k == Settled(release[c], e)
<1>1. /\ exec \in [Worker -> Exec] /\ release \in [Case -> Row] /\ apply \in [Case -> Row]
      /\ e \in Exec /\ e.stage = "settle" /\ Busy(w) /\ c \in Case
      /\ release[c] \in Row /\ apply[c] \in Row
      /\ UNCHANGED <<case, resolver, letGo, reopened, owner>>
  BY DEF Settle, RoleInv, TypeOK, Bound, Placed, Busy, Aside, role
<1>2. exec' = [exec EXCEPT ![w] = f]
  BY <1>1 DEF Settle, Exec
<1>3. IF e.kind = "apply" THEN apply' = [apply EXCEPT ![c] = a] /\ UNCHANGED release
      ELSE release' = [release EXCEPT ![c] = k] /\ UNCHANGED apply
  BY DEF Settle
<1>4. /\ a.status # "none" <=> apply[c].status # "none"
      /\ k = release[c] \/ k.status \in {"failed", "succeeded"}
      /\ k.status = "succeeded" => k = release[c] \/ ~e.failed
      /\ k # release[c] => release[c].status = "running"
  <2>1. Held(apply[c], e.claim) => a.status \in {"failed", "succeeded"}
    BY <1>1, SettledRow
  <2>2. ~Held(apply[c], e.claim) => a = apply[c]
    BY <1>1, SettledRow
  <2>3. Held(release[c], e.claim) => k.status = IF e.failed THEN "failed" ELSE "succeeded"
    BY <1>1, SettledRow
  <2>4. ~Held(release[c], e.claim) => k = release[c]
    BY <1>1, SettledRow
  <2> HIDE DEF a, k
  <2> QED
    BY <2>1, <2>2, <2>3, <2>4 DEF Held
<1>5. /\ e.outer > 0 => g.kind = "apply" /\ g.case = c /\ g.outer = 0 /\ g.stage = "settle"
      /\ e.outer \in Nat
  BY <1>1, BoundAssumption DEF Exec
<1>6. Idle.stage = "idle" /\ Idle.outer = 0
  BY DEF Idle
<1> HIDE DEF g, a, k, b
<1>7. /\ exec'[w] = f /\ \A v \in Worker \ {w} : exec'[v] = exec[v]
  BY <1>1, <1>2
<1>8. /\ exec'[w] = Idle
      \/ /\ e.outer > 0 /\ exec'[w].kind = "apply" /\ exec'[w].case = c
         /\ exec'[w].outer = 0 /\ exec'[w].stage = "settle"
  BY <1>5, <1>7
<1> HIDE DEF f
<1>9. \A d \in Case : apply'[d].status # "none" <=> apply[d].status # "none"
  BY <1>1, <1>3, <1>4
<1>10. e.kind # "apply" => e.kind = "release"
  BY <1>1 DEF Exec
<1>11. \A d \in Case : ReleaseMoves(w, d)
  <2>1. ASSUME e.kind = "release", ~e.failed PROVE c \in reopened \/ owner # c
    BY <1>1, <2>1 DEF RoleInv, Queued, Timely, Releasing
  <2>2. ReleaseMoves(w, c)
    BY <1>1, <1>3, <1>4, <1>10, <2>1 DEF ReleaseMoves, Unfinished
  <2>3. \A d \in Case \ {c} : release'[d] = release[d]
    BY <1>1, <1>3
  <2> HIDE DEF c, e
  <2> QED
    BY <2>2, <2>3 DEF ReleaseMoves
<1>12. Placed(w)'
  <2>1. CASE exec'[w] = Idle
    BY <1>6, <2>1 DEF Placed, Busy, Applying, Releasing
  <2>2. CASE /\ e.outer > 0 /\ exec'[w].kind = "apply" /\ exec'[w].case = c
             /\ exec'[w].outer = 0 /\ exec'[w].stage = "settle"
    <3>1. apply[c].status # "none"
      BY <1>1, <2>2 DEF RoleInv, Bound, Placed, Applying
    <3> QED
      BY <1>1, <1>9, <2>2, <3>1 DEF Placed, Busy, Applying, Releasing
  <2> QED
    BY <1>8, <2>1, <2>2
<1>13. Timely(w)'
  BY <1>6, <1>8 DEF Timely, Releasing
<1>14. ~Inside(w)' /\ exec'[w].stage # "remove"
  BY <1>6, <1>8 DEF Inside
<1> QED
  BY <1>1, <1>7, <1>9, <1>11, <1>12, <1>13, <1>14 DEF ExecMove

\* A crash leaves only what the database holds.
LEMMA WorldMove ==
  ASSUME RoleInv, RoleChanges \/ Crash
  PROVE  Bound' /\ Locked' /\ Reviewed' /\ Snapshots' /\ Queued'
<1>1. /\ UNCHANGED <<case, apply, release, owner, reopened>>
      /\ letGo' \subseteq letGo
      /\ \A w \in Worker : exec'[w] = exec[w] \/ exec'[w] = Idle
      /\ \A r \in Resolver : resolver'[r] = resolver[r] \/ resolver'[r] = NoLease
  BY DEF RoleChanges, Crash, rows, role, running
<1>2. Idle.stage = "idle" /\ Idle.outer = 0 /\ NoLease.stage = "idle"
  BY DEF Idle, NoLease
<1>3. Bound'
  BY <1>1, <1>2 DEF RoleInv, Bound, Placed, Busy, Applying, Releasing
<1>4. Locked'
  BY <1>1, <1>2 DEF RoleInv, Locked, Inside
<1>5. Reviewed'
  BY <1>1 DEF RoleInv, Reviewed, Past
<1>6. Snapshots'
  BY <1>1, <1>2 DEF RoleInv, Snapshots, Leased
<1>7. Queued'
  BY <1>1, <1>2 DEF RoleInv, Queued, Timely, Releasing, Busy, Unfinished
<1> QED
  BY <1>3, <1>4, <1>5, <1>6, <1>7

\* The part of the invariant that is about no type.
LEMMA PartsStep ==
  ASSUME RoleInv, [Next]_vars
  PROVE  Bound' /\ Locked' /\ Reviewed' /\ Snapshots' /\ Queued'
<1>1. ASSUME NEW c \in Case, Message(c) \/ Moderate(c) \/ Expires(c) \/ GoStale(c) PROVE SideStep
  BY <1>1, MessageSide, ModeratorSide
<1>2. ASSUME NEW r \in Resolver, Resolve(r) PROVE SideStep
  BY <1>2, ResolverSide
<1>3. ASSUME NEW w \in Worker, Execute(w) PROVE ExecMove(w)
  BY <1>3, ClaimMove, LoadMove, ApplyMove, RecordMove, NestMove, ReleaseMove, RaiseMove,
     SettleMove DEF Execute
<1>4. CASE UNCHANGED vars
  <2>1. SideStep
    BY <1>4, QuietSide DEF vars, rows, running, Kept
  <2> QED
    BY <2>1, SideKeeps
<1> QED
  BY <1>1, <1>2, <1>3, <1>4, SideKeeps, MoveKeeps, WorldMove DEF Next

-----------------------------------------------------------------------------
(* Types *)

\* The lease of a resolver and an executor have their types after each step.
LEMMA LeaseUpdates ==
  ASSUME NEW l \in Lease
  PROVE  /\ NoLease \in Lease
         /\ \A o \in BOOLEAN : [l EXCEPT !.stage = "owned", !.owned = o] \in Lease
         /\ \A c \in Case, a \in BOOLEAN :
               [stage |-> "claimed", case |-> c, auto |-> a, owned |-> FALSE] \in Lease
BY DEF Lease, NoLease

\* An idle executor is one.
LEMMA IdleExec == Idle \in Exec
<1>1. 0 \in 0 .. MaxClaims
  BY BoundAssumption
<1> QED
  BY <1>1 DEF Idle, Exec, Stages

\* The bounds keep their types.
Bounded == team \in Teams /\ messages \in 0 .. MaxMessages /\ faults \in 0 .. MaxFaults

\* A fault stays within its bound.
LEMMA FaultType ==
  ASSUME Bounded, Fault \/ UNCHANGED bounds
  PROVE  Bounded'
BY BoundAssumption DEF Bounded, Fault, bounds

\* So does every step.
LEMMA BoundsStep ==
  ASSUME TypeOK, [Next]_vars
  PROVE  Bounded'
<1>1. Bounded
  BY DEF TypeOK, Bounded
<1>2. ASSUME NEW c \in Case, NEW wantsRole \in BOOLEAN, Append(c, wantsRole) PROVE Bounded'
  BY <1>1, <1>2, BoundAssumption DEF Append, Bounded
<1>3. ASSUME NEW c \in Case, Moderate(c) \/ Expires(c) \/ GoStale(c) \/ MessageWork(c)
                             \/ Punish(c) \/ ResumeDeferred(c)
      PROVE  Fault \/ UNCHANGED bounds
  BY <1>3 DEF Moderate, ClickAction, ClaimAction, StartAction, FailAction, CompleteAction,
     ClickIgnore, ReleaseIgnored, Reconcile, Expires, GoStale, MessageWork, Punish,
     ResumeDeferred
<1>4. ASSUME NEW r \in Resolver, Resolve(r) PROVE Fault \/ UNCHANGED bounds
  BY <1>4 DEF Resolve, ClaimResolution, ReadOwned, FinishResolution, ReleaseResolution
<1>5. ASSUME NEW w \in Worker, Execute(w) PROVE Fault \/ UNCHANGED bounds
  BY <1>5 DEF Execute, ClaimRole, Claimable, Load, ApplySuperseded, ApplyStarts,
     ApplyAmbiguous, ApplyReconciles, AddRole, AddFails, RecordOwnership, NestRelease,
     ReleaseMoot, ReleaseStarts, RemoveRole, RemoveFails, Disown, HandlerRaises, Settle
<1> QED
  BY <1>1, <1>2, <1>3, <1>4, <1>5, FaultType DEF Next, Message, RoleChanges, Crash, vars

\* The tables keep their types.
Tables ==
    /\ case \in [Case -> CaseRow]
    /\ action \in [Case -> Row] /\ apply \in [Case -> Row] /\ release \in [Case -> Row]
    /\ ignored \in [Case -> BOOLEAN] /\ punished \in [Case -> BOOLEAN]
    /\ letGo \subseteq Case /\ reopened \subseteq Case
    /\ resolver \in [Resolver -> Lease]

Actors ==
    /\ owner \in Case \cup {NoCase}
    /\ hasRole \in BOOLEAN /\ added \in BOOLEAN
    /\ attention \subseteq Case
    /\ exec \in [Worker -> Exec]

\* The messages and the clock keep the types,
LEMMA MessageType ==
  ASSUME RoleInv, NEW c \in Case, Message(c) \/ Expires(c) \/ GoStale(c)
  PROVE  Tables' /\ Actors'
<1> USE DEF RoleInv, TypeOK, Tables, Actors
<1>1. case[c] \in CaseRow /\ apply[c] \in Row /\ action[c] \in Row
  OBVIOUS
<1>2. UNCHANGED <<owner, hasRole, added, attention, exec, resolver, letGo, ignored, release>>
  BY DEF Message, Append, MessageWork, Punish, ResumeDeferred, Expires, GoStale, role, running,
         rows
<1>3. ASSUME NEW wantsRole \in BOOLEAN, Append(c, wantsRole) PROVE Tables'
  <2> DEFINE opened == IF case[c].status = "resolving" /\ Protected(c)
                       THEN case[c] ELSE Reopened(case[c])
             k == [opened EXCEPT !.work = "capturing"]
             a == [action[c] EXCEPT !.status = "abandoned"]
             p == Ensured(apply[c])
  <2>1. opened \in CaseRow
    BY <1>1, ReopenedCase
  <2>2. k \in CaseRow
    BY <2>1, WorkedCase
  <2>3. a \in Row /\ p \in Row
    BY <1>1, RowUpdates, EnsuredRow
  <2>4. /\ case' = [case EXCEPT ![c] = k]
        /\ action' = action \/ action' = [action EXCEPT ![c] = a]
        /\ apply' = apply \/ apply' = [apply EXCEPT ![c] = p]
        /\ reopened' \subseteq reopened \cup {c} /\ punished' = punished
    BY <1>3 DEF Append
  <2> HIDE DEF k, a, p
  <2> QED
    BY <1>2, <2>2, <2>3, <2>4
<1>4. CASE MessageWork(c) \/ Expires(c) \/ GoStale(c) \/ ResumeDeferred(c)
  <2> DEFINE v == IF case[c].work = "capturing" THEN "reviewing" ELSE "done"
             j == [case[c] EXCEPT !.work = v]
             d == [case[c] EXCEPT !.due = TRUE]
             l == [case[c] EXCEPT !.due = FALSE]
             o == [case[c] EXCEPT !.stale = TRUE]
  <2>1. \E k \in {j, d, l, o} : case' = [case EXCEPT ![c] = k]
    BY <1>4 DEF MessageWork, Expires, GoStale, ResumeDeferred
  <2>2. j \in CaseRow
    BY <1>1, WorkedCase
  <2>3. d \in CaseRow /\ l \in CaseRow /\ o \in CaseRow
    BY <1>1, AgedCase
  <2>4. UNCHANGED <<action, apply, punished, reopened>>
    BY <1>4 DEF MessageWork, Expires, GoStale, ResumeDeferred, rows
  <2> HIDE DEF j, d, l, o
  <2> QED
    BY <1>2, <2>1, <2>2, <2>3, <2>4
<1>5. CASE Punish(c)
  BY <1>2, <1>5 DEF Punish
<1> QED
  BY <1>2, <1>3, <1>4, <1>5 DEF Message

\* the moderators do,
LEMMA ModeratorType ==
  ASSUME RoleInv, NEW c \in Case, Moderate(c)
  PROVE  Tables' /\ Actors'
<1> USE DEF RoleInv, TypeOK, Tables, Actors
<1>1. case[c] \in CaseRow /\ release[c] \in Row /\ action[c] \in Row
  OBVIOUS
<1>2. UNCHANGED <<owner, hasRole, added, attention, exec, resolver, apply, punished, reopened>>
  BY DEF Moderate, ClickAction, ClaimAction, StartAction, FailAction, CompleteAction,
     ClickIgnore, ReleaseIgnored, Reconcile, role, running
<1> DEFINE x == Resolving(case[c], "action")
           i == Resolving(case[c], "ignore")
           z == Closed("resolved")
           e == Ensured(release[c])
           a == [action[c] EXCEPT !.status = "running"]
           f == [action[c] EXCEPT !.status = "failed"]
           s == [action[c] EXCEPT !.status = "succeeded"]
           m == [action[c] EXCEPT !.effect = TRUE]
<1>3. x \in CaseRow /\ i \in CaseRow
  BY <1>1, ResolvingCase DEF Holder
<1>4. z \in CaseRow
  BY ClosedCase DEF Terminal
<1>5. e \in Row /\ Pending \in Row /\ m \in Row
  BY <1>1, EnsuredRow, RowUpdates
<1>6. a \in Row /\ f \in Row /\ s \in Row
  BY <1>1, RowUpdates
<1>7. \/ UNCHANGED case
      \/ \E k \in {x, i, z} : case' = [case EXCEPT ![c] = k]
  BY DEF Moderate, ClickAction, ClaimAction, StartAction, FailAction, CompleteAction,
     ClickIgnore, ReleaseIgnored, Reconcile, Finalized
<1>8. \/ UNCHANGED release
      \/ release' = [release EXCEPT ![c] = e]
  BY DEF Moderate, ClickAction, ClaimAction, StartAction, FailAction, CompleteAction,
     ClickIgnore, ReleaseIgnored, Reconcile, Finalized
<1>9. \/ UNCHANGED action
      \/ \E k \in {Pending, a, f, s, m} :
            action' = [action EXCEPT ![c] = k]
  BY DEF Moderate, ClickAction, ClaimAction, StartAction, FailAction, CompleteAction,
     ClickIgnore, ReleaseIgnored, Reconcile
<1>10. /\ ignored' = ignored \/ ignored' = [ignored EXCEPT ![c] = TRUE]
       /\ letGo' \subseteq letGo \cup {c}
  BY DEF Moderate, ClickAction, ClaimAction, StartAction, FailAction, CompleteAction,
     ClickIgnore, ReleaseIgnored, Reconcile, running
<1> HIDE DEF x, i, z, e, a, f, s, m
<1>11. case' \in [Case -> CaseRow]
  BY <1>3, <1>4, <1>7
<1>12. action' \in [Case -> Row] /\ release' \in [Case -> Row]
  BY <1>5, <1>6, <1>8, <1>9
<1>13. letGo' \subseteq Case /\ ignored' \in [Case -> BOOLEAN]
  BY <1>10
<1> QED
  BY <1>2, <1>11, <1>12, <1>13

\* the resolvers do,
LEMMA ResolverType ==
  ASSUME RoleInv, NEW r \in Resolver, Resolve(r)
  PROVE  Tables' /\ Actors'
<1> USE DEF RoleInv, TypeOK, Tables, Actors
<1>1. UNCHANGED <<owner, hasRole, added, attention, exec, apply, punished, action, ignored, letGo>>
  BY DEF Resolve, ClaimResolution, ReadOwned, FinishResolution, ReleaseResolution, role, rows
<1>2. resolver[r] \in Lease
  OBVIOUS
<1>3. ASSUME NEW c \in Case, NEW auto \in BOOLEAN, ClaimResolution(r, c, auto) PROVE Tables'
  <2> DEFINE k == Resolving(case[c], r)
             l == [stage |-> "claimed", case |-> c, auto |-> auto, owned |-> FALSE]
  <2>1. case[c] \in CaseRow /\ r \in Holder
    BY DEF Holder
  <2>2. k \in CaseRow
    BY <2>1, ResolvingCase
  <2>3. l \in Lease
    BY <1>2, LeaseUpdates
  <2>4. /\ case' = [case EXCEPT ![c] = k] /\ resolver' = [resolver EXCEPT ![r] = l]
        /\ UNCHANGED <<release, reopened>>
    BY <1>3 DEF ClaimResolution, rows
  <2> HIDE DEF k, l
  <2> QED
    BY <1>1, <2>2, <2>3, <2>4
<1>4. CASE ReadOwned(r)
  <2> DEFINE o == (owner = resolver[r].case)
             l == [resolver[r] EXCEPT !.stage = "owned", !.owned = o]
  <2>1. l \in Lease
    BY <1>2, LeaseUpdates
  <2>2. resolver' = [resolver EXCEPT ![r] = l] /\ UNCHANGED <<case, release, reopened>>
    BY <1>2, <1>4 DEF ReadOwned, Lease, rows
  <2> HIDE DEF l
  <2> QED
    BY <1>1, <2>1, <2>2
<1>5. CASE FinishResolution(r) \/ ReleaseResolution(r)
  <2> DEFINE c == resolver[r].case
             k == Reopened(case[c])
             e == Ensured(release[c])
             z(s) == Closed(s)
  <2>1. c \in Case /\ case[c] \in CaseRow /\ release[c] \in Row
    BY <1>5 DEF FinishResolution, ReleaseResolution, Bound
  <2>2. k \in CaseRow /\ z("expired") \in CaseRow /\ z("resolved") \in CaseRow /\ e \in Row
    BY <2>1, ReopenedCase, ClosedCase, EnsuredRow DEF Terminal
  <2>3. NoLease \in Lease
    BY <1>2, LeaseUpdates
  <2>4. /\ \/ UNCHANGED case
           \/ \E j \in {k, z("expired"), z("resolved")} : case' = [case EXCEPT ![c] = j]
        /\ release' = release \/ release' = [release EXCEPT ![c] = e]
        /\ reopened' \subseteq reopened \cup {c}
        /\ resolver' = [resolver EXCEPT ![r] = NoLease]
    BY <1>5 DEF FinishResolution, ReleaseResolution, rows
  <2> HIDE DEF c, k, e, z
  <2> QED
    BY <1>1, <2>1, <2>2, <2>3, <2>4
<1> QED
  BY <1>1, <1>3, <1>4, <1>5 DEF Resolve

\* and the executors.
LEMMA ExecutorType ==
  ASSUME RoleInv, NEW w \in Worker, Execute(w)
  PROVE  Tables' /\ Actors'
<1> USE DEF RoleInv, TypeOK, Tables, Actors
<1>1. /\ UNCHANGED <<case, action, ignored, punished, letGo, reopened, resolver>>
      /\ exec[w] \in Exec
  BY DEF Execute, ClaimRole, Load, ApplySuperseded, ApplyStarts,
     ApplyAmbiguous, ApplyReconciles, AddRole, AddFails, RecordOwnership, NestRelease,
     ReleaseMoot, ReleaseStarts, RemoveRole, RemoveFails, Disown, HandlerRaises, Settle,
     Aside, rows
<1> DEFINE c == exec[w].case
<1>2. Busy(w) => c \in Case
  BY DEF Bound, Placed
<1>3. /\ \A s \in Stages : Goto(w, s) => exec' \in [Worker -> Exec]
      /\ \A ok \in BOOLEAN : Report(w, ok) => exec' \in [Worker -> Exec]
      /\ {"add", "record", "nest", "remove", "disown"} \subseteq Stages
  BY GoesOn, ReportsOn DEF Stages
<1>4. ASSUME NEW kind \in {"apply", "release"}, NEW d \in Case, ClaimRole(w, kind, d)
      PROVE  Tables' /\ Actors'
  <2> DEFINE k == IF kind = "apply" THEN apply[d] ELSE release[d]
             n == k.claim + 1
             f == [Idle EXCEPT !.stage = "load", !.kind = kind, !.case = d, !.claim = n]
             j == Claimed(k)
  <2>1. k \in Row /\ k.claim < MaxClaims
    BY <1>4 DEF ClaimRole, Claimable
  <2>2. n \in 0 .. MaxClaims
    BY <2>1, BoundAssumption DEF Row
  <2>3. j \in Row
    BY <2>1, ClaimedRow
  <2>4. /\ exec' = [exec EXCEPT ![w] = f] /\ UNCHANGED <<owner, hasRole, added, attention>>
        /\ apply' = apply \/ apply' = [apply EXCEPT ![d] = j]
        /\ release' = release \/ release' = [release EXCEPT ![d] = j]
    BY <1>4 DEF ClaimRole, role
  <2> HIDE DEF n
  <2>5. f \in Exec
    BY <2>2, IdleExec DEF Exec, Stages
  <2> HIDE DEF f, j
  <2> QED
    BY <1>1, <2>3, <2>4, <2>5
<1>5. CASE Load(w)
  <2> DEFINE b == /\ case[c].status = "pending"
                  /\ ~punished[c] /\ ~ignored[c]
                  /\ action[c].status # "succeeded"
             f == [exec[w] EXCEPT !.stage = "decide", !.wanted = b]
  <2>1. exec' = [exec EXCEPT ![w] = f]
    BY <1>1, <1>5 DEF Load, Exec
  <2>2. b \in BOOLEAN
    OBVIOUS
  <2>3. UNCHANGED <<apply, release, owner, hasRole, added, attention>>
    BY <1>5 DEF Load, rows, role
  <2> HIDE DEF b
  <2>4. f \in Exec
    BY <1>1, <2>2 DEF Exec, Stages
  <2> HIDE DEF f
  <2> QED
    BY <1>1, <2>1, <2>3, <2>4
<1>6. CASE NestRelease(w)
  <2> DEFINE n == release[c].claim + 1
             m == exec[w].claim
             k == Claimed(release[c])
             f == [exec[w] EXCEPT !.stage = "decide", !.kind = "release", !.claim = n,
                                  !.outer = m]
  <2>1. c \in Case /\ release[c] \in Row
    BY <1>2, <1>6 DEF NestRelease, Busy
  <2>2. UNCHANGED <<apply, owner, hasRole, added, attention>>
    BY <1>6 DEF NestRelease, role
  <2>3. CASE release[c].claim < MaxClaims /\ release' = [release EXCEPT ![c] = k]
             /\ exec' = [exec EXCEPT ![w] = f]
    <3>1. n \in 0 .. MaxClaims /\ m \in 0 .. MaxClaims
      BY <1>1, <2>1, <2>3, BoundAssumption DEF Row, Exec
    <3>2. k \in Row
      BY <2>1, <2>3, ClaimedRow
    <3> HIDE DEF n, m
    <3>3. f \in Exec
      BY <1>1, <3>1 DEF Exec, Stages
    <3> HIDE DEF f, k, c
    <3> QED
      BY <1>1, <2>1, <2>2, <2>3, <3>2, <3>3
  <2>4. CASE Report(w, TRUE) /\ UNCHANGED release
    BY <1>1, <1>3, <2>2, <2>4
  <2>5. exec' = [exec EXCEPT ![w].stage = "decide", ![w].kind = "release", ![w].claim = n,
                             ![w].outer = m] => exec' = [exec EXCEPT ![w] = f]
    BY <1>1 DEF Exec
  <2> QED
    BY <1>6, <2>3, <2>4, <2>5 DEF NestRelease
<1>7. CASE Settle(w)
  <2> DEFINE e == exec[w]
             b == ~e.failed /\ ~Held(release[c], e.claim)
             n == e.outer
             g == [e EXCEPT !.kind = "apply", !.claim = n, !.outer = 0, !.failed = b]
             f == IF e.outer = 0 THEN Idle ELSE g
             a == Settled(apply[c], e)
             k == Settled(release[c], e)
  <2>1. c \in Case /\ release[c] \in Row /\ apply[c] \in Row
    BY <1>2, <1>7 DEF Settle, Busy
  <2>2. a \in Row /\ k \in Row
    BY <2>1, SettledRow
  <2>3. b \in BOOLEAN /\ n \in 0 .. MaxClaims /\ 0 \in 0 .. MaxClaims
    BY <1>1, BoundAssumption DEF Exec
  <2>4. exec' = [exec EXCEPT ![w] = f]
    BY <1>1, <1>7 DEF Settle, Exec
  <2>5. /\ apply' = apply \/ apply' = [apply EXCEPT ![c] = a]
        /\ release' = release \/ release' = [release EXCEPT ![c] = k]
        /\ UNCHANGED <<owner, hasRole, added, attention>>
    BY <1>7 DEF Settle, role
  <2> HIDE DEF b, n, a, k
  <2>6. g \in Exec
    BY <1>1, <2>3 DEF Exec
  <2> HIDE DEF g
  <2>7. f \in Exec
    BY <2>6, IdleExec
  <2> HIDE DEF f, c
  <2> QED
    BY <1>1, <2>1, <2>2, <2>4, <2>5, <2>7
<1>8. CASE RecordOwnership(w)
  <2> DEFINE e == Ensured(release[c])
  <2>1. c \in Case /\ release[c] \in Row
    BY <1>2, <1>8 DEF RecordOwnership, Busy
  <2>2. e \in Row
    BY <2>1, EnsuredRow
  <2>3. /\ owner' \in {owner, c} /\ attention' \subseteq attention \cup {c}
        /\ release' = release \/ release' = [release EXCEPT ![c] = e]
        /\ Goto(w, "nest") \/ Report(w, TRUE)
        /\ UNCHANGED <<apply, hasRole, added>>
    BY <1>8 DEF RecordOwnership
  <2> HIDE DEF e
  <2>4. exec' \in [Worker -> Exec]
    BY <1>3, <2>3
  <2>5. release' \in [Case -> Row]
    BY <2>1, <2>2, <2>3
  <2> HIDE DEF c
  <2> QED
    BY <1>1, <2>1, <2>3, <2>4, <2>5
<1>9. CASE ApplyStarts(w) \/ ReleaseStarts(w)
  <2> DEFINE a == [apply[c] EXCEPT !.effect = TRUE]
             k == [release[c] EXCEPT !.effect = TRUE]
  <2>1. c \in Case /\ release[c] \in Row /\ apply[c] \in Row
    BY <1>2, <1>9 DEF ApplyStarts, ReleaseStarts, Decides, Busy
  <2>2. a \in Row /\ k \in Row
    BY <2>1, RowUpdates
  <2>3. /\ apply' = apply \/ apply' = [apply EXCEPT ![c] = a]
        /\ release' = release \/ release' = [release EXCEPT ![c] = k]
        /\ Goto(w, "add") \/ Goto(w, "remove") \/ Report(w, FALSE)
        /\ UNCHANGED <<owner, hasRole, added, attention>>
    BY <1>9 DEF ApplyStarts, ReleaseStarts, role
  <2> HIDE DEF a, k
  <2>4. exec' \in [Worker -> Exec]
    BY <1>3, <2>3
  <2>5. apply' \in [Case -> Row] /\ release' \in [Case -> Row]
    BY <2>1, <2>2, <2>3
  <2> QED
    BY <1>1, <2>3, <2>4, <2>5
<1>10. CASE \/ ApplySuperseded(w) \/ ApplyAmbiguous(w) \/ ApplyReconciles(w)
            \/ AddRole(w) \/ AddFails(w) \/ ReleaseMoot(w) \/ RemoveRole(w)
            \/ RemoveFails(w) \/ Disown(w) \/ HandlerRaises(w)
  <2>1. c \in Case
    BY <1>2, <1>10 DEF ApplySuperseded, ApplyAmbiguous, ApplyReconciles, AddRole, AddFails,
       ReleaseMoot, RemoveRole, RemoveFails, Disown, HandlerRaises, Decides, Busy
  <2>2. exec' \in [Worker -> Exec]
    <3>1. Goto(w, "record") \/ Goto(w, "disown") \/ \E ok \in BOOLEAN : Report(w, ok)
      BY <1>10 DEF ApplySuperseded, ApplyAmbiguous, ApplyReconciles, AddRole, AddFails,
         ReleaseMoot, RemoveRole, RemoveFails, Disown, HandlerRaises
    <3> QED
      BY <1>3, <3>1
  <2>3. /\ UNCHANGED <<apply, release>>
        /\ owner' \in {owner, c, NoCase} /\ attention' \subseteq attention \cup {c}
        /\ hasRole' \in BOOLEAN /\ added' \in BOOLEAN
    BY <1>10 DEF ApplySuperseded, ApplyAmbiguous, ApplyReconciles, AddRole, AddFails,
       ReleaseMoot, RemoveRole, RemoveFails, Disown, HandlerRaises, role
  <2> QED
    BY <1>1, <2>1, <2>2, <2>3
<1> QED
  BY <1>4, <1>5, <1>6, <1>7, <1>8, <1>9, <1>10 DEF Execute

\* Every step keeps the types.
LEMMA TypeStep ==
  ASSUME RoleInv, [Next]_vars
  PROVE  TypeOK'
<1>1. Bounded'
  BY BoundsStep DEF RoleInv
<1>2. CASE RoleChanges \/ UNCHANGED vars
  BY <1>1, <1>2 DEF RoleChanges, vars, rows, role, running, RoleInv, TypeOK, Bounded
<1>3. CASE Crash
  <2>1. NoLease \in Lease /\ Idle \in Exec
    BY IdleExec DEF Lease, NoLease
  <2> QED
    BY <1>1, <1>3, <2>1 DEF Crash, rows, role, RoleInv, TypeOK, Bounded
<1> QED
  BY <1>1, <1>2, <1>3, MessageType, ModeratorType, ResolverType, ExecutorType
  DEF Next, Tables, Actors, Bounded, TypeOK

-----------------------------------------------------------------------------
(* The theorems *)

\* At the start there is no case, no row, no ownership and nobody at work.
LEMMA InitInv == Init => RoleInv
<1> SUFFICES ASSUME Init PROVE RoleInv
  OBVIOUS
<1>1. NoRow \in Row /\ NoCaseRow \in CaseRow /\ Idle \in Exec /\ NoLease \in Lease
  <2>1. 0 \in 0 .. MaxClaims
    BY BoundAssumption
  <2> QED
    BY <2>1, IdleExec DEF NoRow, Row, NoCaseRow, CaseRow, Holder, NoLease, Lease
<1>2. TypeOK
  <2>1. /\ case \in [Case -> CaseRow]
        /\ action \in [Case -> Row] /\ apply \in [Case -> Row] /\ release \in [Case -> Row]
    BY <1>1 DEF Init
  <2>2. /\ ignored \in [Case -> BOOLEAN] /\ punished \in [Case -> BOOLEAN]
        /\ owner \in Case \cup {NoCase}
        /\ hasRole \in BOOLEAN /\ added \in BOOLEAN
        /\ attention \subseteq Case /\ letGo \subseteq Case /\ reopened \subseteq Case
    BY DEF Init
  <2>3. exec \in [Worker -> Exec] /\ resolver \in [Resolver -> Lease]
    BY <1>1 DEF Init
  <2>4. team \in Teams /\ messages \in 0 .. MaxMessages /\ faults \in 0 .. MaxFaults
    BY BoundAssumption DEF Init
  <2> QED
    BY <2>1, <2>2, <2>3, <2>4 DEF TypeOK
<1>3. \A w \in Worker : exec[w] = Idle /\ ~Busy(w) /\ ~Inside(w) /\ ~Applying(w) /\ ~Releasing(w)
  BY DEF Init, Busy, Inside, Applying, Releasing, Idle
<1>4. \A c \in Case : case[c].status = "none" /\ apply[c].status = "none"
                        /\ release[c].status = "none" /\ owner # c
  BY NoCaseAssumption DEF Init, NoCaseRow, NoRow
<1>5. Bound
  <2>1. ASSUME NEW w \in Worker PROVE Placed(w)
    <3>1. exec[w].stage = "idle" /\ ~(exec[w].outer > 0)
      BY <1>3 DEF Idle
    <3> QED
      BY <1>3, <3>1 DEF Placed
  <2>2. \A r \in Resolver : resolver[r].stage = "idle"
    BY DEF Init, NoLease
  <2> QED
    BY <1>4, <2>1, <2>2 DEF Bound
<1>6. Locked /\ Reviewed
  BY <1>3, <1>4 DEF Init, Locked, Reviewed, Idle
<1>7. Snapshots
  BY DEF Init, Snapshots, NoLease
<1>8. Queued
  BY <1>3, <1>4 DEF Queued, Timely, Terminal, Releasing, Idle
<1> QED
  BY <1>2, <1>5, <1>6, <1>7, <1>8 DEF RoleInv

\* The invariant holds in every behaviour, whatever the number of cases, executors
\* and resolvers, and whatever fails.
THEOREM RoleInvariance == Spec => []RoleInv
<1>1. Init => RoleInv
  BY InitInv
<1>2. RoleInv /\ [Next]_vars => RoleInv'
  BY TypeStep, PartsStep DEF RoleInv
<1> QED
  BY <1>1, <1>2, PTL DEF Spec

\* The rows of detection_cases, of operations and of detection_role_ownership and the
\* executors' memories have their types.
THEOREM TypeCorrect == Spec => []TypeOK
<1>1. RoleInv => TypeOK
  BY DEF RoleInv
<1> QED
  BY <1>1, RoleInvariance, PTL

\* A release takes the role off for the case that owns it, and only once the case is
\* past its review.
LEMMA RemovalAllowed ==
  ASSUME RoleInv, NEW w \in Worker, Removes(w)
  PROVE  /\ owner = exec[w].case
         /\ case[exec[w].case].status # "pending" \/ exec[w].case \in reopened
<1>1. Busy(w) /\ exec[w].stage = "remove"
  BY DEF Removes, Busy
<1>2. owner = exec[w].case
  BY <1>1 DEF RoleInv, Locked
<1>3. exec[w].case \in Case /\ Releasing(w)
  BY <1>1 DEF RoleInv, Bound, Placed, Releasing
<1>4. release[exec[w].case].status # "none"
  BY <1>3 DEF RoleInv, Bound, Placed
<1>5. Past(exec[w].case)
  BY <1>3, <1>4 DEF RoleInv, Reviewed
<1> QED
  BY <1>2, <1>5 DEF Past

\* The containment role stays on while its case is pending, and a release takes off no
\* other case's role (start_role_apply_effect, start_role_release_effect,
\* transfer_terminal_role_ownership).
THEOREM ContainmentKept == Spec => ContainmentHonest
<1>1. RoleInv => [\A w \in Worker : Removes(w) => owner = exec[w].case]_vars
  BY RemovalAllowed
<1>2. RoleInv => [\A w \in Worker : Removes(w) =>
                    case[exec[w].case].status # "pending" \/ exec[w].case \in reopened]_vars
  BY RemovalAllowed
<1> QED
  BY <1>1, <1>2, RoleInvariance, PTL
  DEF ContainmentHonest, ContainedWhilePending, OnlyOwnRoleRemoved

\* Failing calls, lost heartbeats and lost processes change neither: the role stays on
\* while its case is pending, and a closed case that owns it has its release queued
\* (finish_resolution, _finalize_moderator_action_locked, record_operation_role_ownership).
THEOREM ContainedDespiteFaults == Spec => ContainedWithFaults
<1>1. RoleInv => [\A w \in Worker : Removes(w) =>
                    case[exec[w].case].status # "pending" \/ exec[w].case \in reopened]_vars
  BY RemovalAllowed
<1>2. RoleInv => ReleaseQueued
  BY DEF RoleInv, Queued, ReleaseQueued
<1> QED
  BY <1>1, <1>2, RoleInvariance, PTL DEF ContainedWithFaults, ContainedWhilePending

-----------------------------------------------------------------------------
(* A moderator's ban or kick, while no call has failed *)

\* One case's part of ActionHolds.
Holds(d) ==
    /\ action[d].status # "failed"
    /\ action[d].status \in {"pending", "running"} =>
          case[d].status = "resolving" /\ case[d].holder = "action"
    /\ action[d].effect =>
          \/ case[d].status = "resolving" /\ case[d].holder = "action"
          \/ case[d].status = "resolved"

\* The case is neither held by a ban or kick nor closed.
Free(d) ==
    /\ ~(case[d].status = "resolving" /\ case[d].holder = "action")
    /\ case[d].status \notin Terminal

\* What a step does to a case and its ban or kick: it works on the row, takes or closes
\* the case with it, takes back a case whose row has not acted, or leaves the row alone
\* and moves a case that is not the row's.
ActionMoves(d) ==
    \/ Kept(d) /\ action'[d] = action[d]
    \/ /\ Kept(d) /\ action[d].status \in {"pending", "running"}
       /\ action'[d].status \in {"running", "succeeded"}
    \/ /\ action'[d].status = "pending"
       /\ case'[d].status = "resolving" /\ case'[d].holder = "action"
    \/ case'[d].status = "resolved" /\ action'[d].status = "succeeded"
    \/ ~action'[d].effect /\ action'[d].status \in {"abandoned", "succeeded", "none"}
    \/ Free(d) /\ action'[d] = action[d]

\* Whatever moves so keeps the case's part.
LEMMA ActionMovesHold ==
  ASSUME NEW d \in Case, Holds(d), ActionMoves(d)
  PROVE  Holds(d)'
<1>1. CASE Kept(d) /\ action'[d] = action[d]
  BY <1>1 DEF Kept, Holds
<1>2. CASE /\ Kept(d) /\ action[d].status \in {"pending", "running"}
           /\ action'[d].status \in {"running", "succeeded"}
  BY <1>2 DEF Kept, Holds
<1>3. CASE \/ /\ action'[d].status = "pending"
              /\ case'[d].status = "resolving" /\ case'[d].holder = "action"
           \/ case'[d].status = "resolved" /\ action'[d].status = "succeeded"
           \/ ~action'[d].effect /\ action'[d].status \in {"abandoned", "succeeded", "none"}
  BY <1>3 DEF Holds
<1>4. CASE Free(d) /\ action'[d] = action[d]
  BY <1>4 DEF Free, Holds, Terminal
<1> QED
  BY <1>1, <1>2, <1>3, <1>4 DEF ActionMoves

\* append_message takes a case back only from a ban or kick that has not acted.
LEMMA AppendAction ==
  ASSUME RoleInv, ActionHolds, NEW c \in Case, NEW wantsRole \in BOOLEAN, Append(c, wantsRole)
  PROVE  \A d \in Case : ActionMoves(d)
<1>1. /\ case \in [Case -> CaseRow] /\ action \in [Case -> Row]
      /\ case[c] \in CaseRow /\ action[c] \in Row /\ Holds(c)
  BY DEF RoleInv, TypeOK, ActionHolds, Holds
<1> DEFINE opened == IF case[c].status = "resolving" /\ Protected(c)
                     THEN case[c] ELSE Reopened(case[c])
           k == [opened EXCEPT !.work = "capturing"]
           a == [action[c] EXCEPT !.status = "abandoned"]
           back == case[c].status = "resolving" /\ ~Protected(c)
<1>2. opened \in CaseRow
  BY <1>1, ReopenedCase
<1>3. k.status = opened.status /\ k.holder = opened.holder
  BY <1>2, WorkedCase
<1>4. a.status = "abandoned" /\ a.effect = action[c].effect
  BY <1>1, RowUpdates
<1>5. /\ case' = [case EXCEPT ![c] = k]
      /\ action' = IF /\ back /\ case[c].holder = "action"
                      /\ action[c].status \in {"pending", "running"}
                   THEN [action EXCEPT ![c] = a] ELSE action
      /\ case[c].status \in Active \cup {"none"}
  BY DEF Append
<1> HIDE DEF k, a
<1>6. case'[c] = k /\ \A d \in Case \ {c} : case'[d] = case[d]
  BY <1>1, <1>5
<1>7. \A d \in Case \ {c} : action'[d] = action[d]
  BY <1>1, <1>5
<1>8. ActionMoves(c)
  <2>1. CASE case[c].status = "resolving" /\ Protected(c)
    BY <1>3, <1>5, <1>6, <2>1 DEF ActionMoves, Kept
  <2>2. CASE back /\ case[c].holder = "action" /\ action[c].status \in {"pending", "running"}
    <3>1. ~action[c].effect
      BY <2>2 DEF Protected
    <3>2. action'[c] = a
      BY <1>1, <1>5, <2>2
    <3> QED
      BY <1>4, <3>1, <3>2 DEF ActionMoves
  <2>3. CASE /\ back /\ case[c].holder = "action"
             /\ action[c].status \notin {"pending", "running"}
    <3>1. ~action[c].effect
      BY <2>3 DEF Protected
    <3>2. action'[c] = action[c]
      BY <1>5, <2>3
    <3>3. action[c].status \in {"none", "abandoned", "succeeded"}
      BY <1>1, <2>3 DEF Holds, Row
    <3> QED
      BY <3>1, <3>2, <3>3 DEF ActionMoves
  <2>4. CASE Free(c)
    <3>1. action'[c] = action[c]
      BY <1>5, <2>4 DEF Free
    <3> QED
      BY <2>4, <3>1 DEF ActionMoves
  <2>5. ~(case[c].status = "resolving" /\ case[c].holder = "action") => Free(c)
    BY <1>5 DEF Free, Active, Terminal
  <2> QED
    BY <2>1, <2>2, <2>3, <2>4, <2>5
<1> QED
  BY <1>6, <1>7, <1>8 DEF ActionMoves, Kept

\* The pipeline of the messages and the clock touch neither status nor holder.
LEMMA AgeAction ==
  ASSUME RoleInv, NEW c \in Case,
         MessageWork(c) \/ Punish(c) \/ ResumeDeferred(c) \/ Expires(c) \/ GoStale(c)
  PROVE  \A d \in Case : ActionMoves(d)
<1>1. case \in [Case -> CaseRow] /\ case[c] \in CaseRow
  BY DEF RoleInv, TypeOK
<1> DEFINE v == IF case[c].work = "capturing" THEN "reviewing" ELSE "done"
           j == [case[c] EXCEPT !.work = v]
           n == [case[c] EXCEPT !.due = TRUE]
           l == [case[c] EXCEPT !.due = FALSE]
           o == [case[c] EXCEPT !.stale = TRUE]
<1>2. action' = action /\ (case' = case \/ \E k \in {j, n, l, o} : case' = [case EXCEPT ![c] = k])
  BY DEF MessageWork, Expires, GoStale, ResumeDeferred, Punish, rows
<1>3. \A k \in {j, n, l, o} : k.status = case[c].status /\ k.holder = case[c].holder
  <2>1. v \in {"capturing", "reviewing", "done"}
    OBVIOUS
  <2> HIDE DEF v
  <2>2. j.status = case[c].status /\ j.holder = case[c].holder
    BY <1>1, <2>1, WorkedCase
  <2> QED
    BY <1>1, <2>2, AgedCase
<1> HIDE DEF j, n, l, o
<1>4. \A d \in Case : Kept(d)
  BY <1>1, <1>2, <1>3 DEF Kept
<1> QED
  BY <1>2, <1>4 DEF ActionMoves

\* A ban or kick takes a pending case, and closes it; an ignore takes one that is free.
LEMMA ModeratorAction ==
  ASSUME RoleInv, ActionHolds, NEW c \in Case, Moderate(c), ~FailAction(c)
  PROVE  \A d \in Case : ActionMoves(d)
<1>1. /\ case \in [Case -> CaseRow] /\ action \in [Case -> Row]
      /\ case[c] \in CaseRow /\ action[c] \in Row /\ Holds(c)
  BY DEF RoleInv, TypeOK, ActionHolds, Holds
<1>2. \A d \in Case \ {c} : case'[d] = case[d] /\ action'[d] = action[d]
  BY <1>1 DEF Moderate, ClickAction, ClaimAction, StartAction, FailAction, CompleteAction,
     ClickIgnore, ReleaseIgnored, Reconcile, Finalized, rows
<1>3. SUFFICES ActionMoves(c)
  BY <1>2 DEF ActionMoves, Kept
<1>4. Closed("resolved").status = "resolved"
  BY ClosedCase DEF Terminal
<1>5. CASE ClickAction(c)
  <2> DEFINE k == Resolving(case[c], "action")
  <2>1. k.status = "resolving" /\ k.holder = "action"
    BY <1>1, ResolvingCase DEF Holder
  <2>2. Pending.status = "pending"
    BY <1>1, EnsuredRow
  <2>3. case'[c] = k /\ action'[c] = Pending
    BY <1>1, <1>5 DEF ClickAction
  <2> HIDE DEF k
  <2> QED
    BY <2>1, <2>2, <2>3 DEF ActionMoves
<1>6. CASE ClaimAction(c)
  <2> DEFINE a == [action[c] EXCEPT !.status = "running"]
  <2>1. a.status = "running" /\ action'[c] = a /\ case' = case
    BY <1>1, <1>6, RowUpdates DEF ClaimAction
  <2>2. action[c].status \in {"pending", "running"}
    BY <1>1, <1>6 DEF ClaimAction, Holds
  <2> QED
    BY <2>1, <2>2 DEF ActionMoves, Kept
<1>7. CASE StartAction(c)
  <2> DEFINE a == [action[c] EXCEPT !.effect = TRUE]
  <2>1. a.status = "running" /\ action'[c] = a /\ case' = case
    BY <1>1, <1>7, RowUpdates DEF StartAction
  <2> QED
    BY <1>7, <2>1 DEF StartAction, ActionMoves, Kept
<1>8. CASE CompleteAction(c)
  <2> DEFINE a == [action[c] EXCEPT !.status = "succeeded"]
  <2>1. a.status = "succeeded" /\ action'[c] = a
    BY <1>1, <1>8, RowUpdates DEF CompleteAction
  <2>2. case'[c] = case[c] \/ case'[c] = Closed("resolved")
    BY <1>1, <1>8 DEF CompleteAction, Finalized
  <2> QED
    BY <1>4, <1>8, <2>1, <2>2 DEF CompleteAction, ActionMoves, Kept
<1>9. CASE ClickIgnore(c)
  <2>1. Free(c) /\ action' = action
    BY <1>9 DEF ClickIgnore, Free, Terminal
  <2> QED
    BY <2>1 DEF ActionMoves
<1>10. CASE ReleaseIgnored(c)
  BY <1>10 DEF ReleaseIgnored, ActionMoves, Kept
<1>11. CASE Reconcile(c)
  <2>1. action' = action /\ case'[c] = Closed("resolved")
    BY <1>1, <1>11 DEF Reconcile, Finalized
  <2>2. CASE case[c].holder = "action" /\ action[c].status = "succeeded"
    BY <1>4, <2>1, <2>2 DEF ActionMoves
  <2>3. CASE case[c].holder = "ignore" /\ case[c].status = "resolving"
    BY <2>1, <2>3 DEF ActionMoves, Free, Terminal
  <2> QED
    BY <1>11, <2>1, <2>2, <2>3 DEF Reconcile, Decided
<1> QED
  BY <1>5, <1>6, <1>7, <1>8, <1>9, <1>10, <1>11 DEF Moderate

\* A resolver moves only cases that no ban or kick holds.
LEMMA ResolverAction ==
  ASSUME RoleInv, NEW r \in Resolver, Resolve(r)
  PROVE  \A d \in Case : ActionMoves(d)
<1>1. case \in [Case -> CaseRow] /\ action' = action /\ r # "action"
  BY ResolverAssumption DEF RoleInv, TypeOK, Resolve, ClaimResolution, ReadOwned,
     FinishResolution, ReleaseResolution, rows
<1>2. ASSUME NEW c \in Case, NEW auto \in BOOLEAN, ClaimResolution(r, c, auto)
      PROVE  \A d \in Case : case'[d] = case[d] \/ Free(d)
  BY <1>1, <1>2 DEF ClaimResolution, Free, Terminal
<1>3. CASE ReadOwned(r)
  BY <1>1, <1>3 DEF ReadOwned, ActionMoves, Kept
<1>4. CASE FinishResolution(r) \/ ReleaseResolution(r)
  <2> DEFINE c == resolver[r].case
  <2>1. \/ case' = case
        \/ Leased(r) /\ \A d \in Case \ {c} : case'[d] = case[d]
    BY <1>1, <1>4 DEF FinishResolution, ReleaseResolution
  <2>2. Leased(r) => Free(c)
    BY <1>1 DEF Leased, Free, Terminal
  <2> QED
    BY <1>1, <2>1, <2>2 DEF ActionMoves, Kept
<1> QED
  BY <1>1, <1>2, <1>3, <1>4 DEF Resolve, ActionMoves, Kept

\* Faults are never taken back.
LEMMA NoFaultStep ==
  ASSUME RoleInv, [Next]_vars, faults' = 0
  PROVE  ~Fault /\ faults = 0
<1>1. ~Fault
  BY DEF Fault, RoleInv, TypeOK
<1>2. faults = 0
  <2>1. faults \in Nat
    BY BoundAssumption DEF RoleInv, TypeOK
  <2>2. CASE UNCHANGED faults
    BY <2>2
  <2>3. \A c \in Case, b \in BOOLEAN : Append(c, b) => UNCHANGED faults
    BY DEF Append
  <2>4. \A c \in Case : MessageWork(c) \/ Punish(c) \/ Moderate(c) \/ Expires(c) \/ GoStale(c)
                         => Fault \/ UNCHANGED faults
    BY DEF MessageWork, Punish, Moderate, ClickAction, ClaimAction, StartAction,
       FailAction, CompleteAction, ClickIgnore, ReleaseIgnored, Reconcile, Expires, GoStale, bounds
  <2>5. \A r \in Resolver : Resolve(r) => Fault \/ UNCHANGED faults
    BY DEF Resolve, ClaimResolution, ReadOwned, FinishResolution, ReleaseResolution, bounds
  <2>6. ASSUME NEW w \in Worker, Execute(w) PROVE Fault \/ UNCHANGED faults
    BY <2>6 DEF Execute, ClaimRole, Claimable, Load, ApplySuperseded, ApplyStarts,
       ApplyAmbiguous, ApplyReconciles, AddRole, AddFails, RecordOwnership, NestRelease,
       ReleaseMoot, ReleaseStarts, RemoveRole, RemoveFails, Disown, HandlerRaises, Settle, bounds
  <2> QED
    BY <1>1, <2>2, <2>3, <2>4, <2>5, <2>6
    DEF Next, Message, ResumeDeferred, RoleChanges, Crash, vars, bounds
<1> QED
  BY <1>1, <1>2

\* A step that is no fault keeps ActionHolds.
LEMMA ActionStep ==
  ASSUME RoleInv, faults = 0 => ActionHolds, [Next]_vars
  PROVE  faults' = 0 => ActionHolds'
<1> SUFFICES ASSUME faults' = 0 PROVE ActionHolds'
  OBVIOUS
<1>1. ~Fault /\ faults = 0
  BY NoFaultStep
<1>3. ActionHolds /\ \A d \in Case : Holds(d)
  BY <1>1 DEF ActionHolds, Holds
<1>4. SUFFICES \A d \in Case : ActionMoves(d)
  <2>1. \A d \in Case : Holds(d)'
    BY <1>3, <1>4, ActionMovesHold
  <2> QED
    BY <2>1 DEF Holds, ActionHolds
<1>5. ASSUME NEW c \in Case, Message(c) \/ Moderate(c) \/ Expires(c) \/ GoStale(c)
      PROVE  \A d \in Case : ActionMoves(d)
  BY <1>1, <1>3, <1>5, AppendAction, AgeAction, ModeratorAction DEF Message, FailAction
<1>6. ASSUME NEW w \in Worker, Execute(w) PROVE UNCHANGED <<case, action>>
  BY <1>6 DEF Execute, ClaimRole, Load, ApplySuperseded, ApplyStarts,
     ApplyAmbiguous, ApplyReconciles, AddRole, AddFails, RecordOwnership, NestRelease,
     ReleaseMoot, ReleaseStarts, RemoveRole, RemoveFails, Disown, HandlerRaises, Settle,
     Aside, rows
<1>7. CASE RoleChanges \/ Crash
  BY <1>1, <1>7 DEF RoleChanges, Crash
<1>8. CASE UNCHANGED vars
  BY <1>8 DEF vars, rows, ActionMoves, Kept
<1> QED
  BY <1>5, <1>6, <1>7, <1>8, ResolverAction DEF Next, ActionMoves, Kept

\* Until a call fails or the process ends, a ban or kick that may have been sent decides
\* its case (claim_moderator_action, append_message, claim_resolution).
THEOREM SentActionKeepsCase == Spec => [](faults = 0 => SentActionDecides)
<1>1. Init => ActionInv
  BY DEF ActionInv, Init, ActionHolds, NoRow
<1>2. RoleInv /\ ActionInv /\ [Next]_vars => ActionInv'
  BY ActionStep DEF ActionInv
<1>3. ActionInv => (faults = 0 => SentActionDecides)
  BY DEF ActionInv, ActionHolds, SentActionDecides
<1> QED
  BY <1>1, <1>2, <1>3, RoleInvariance, PTL DEF Spec

-----------------------------------------------------------------------------
(* The claims and the ownership, while no call has failed *)

\* An executor goes on with its row under the same claim: it may start the effect, ask
\* for the release of an ownership it records too late, and move the ownership.
Works(w) ==
    /\ Busy(w) /\ exec'[w].stage # "idle"
    /\ exec'[w].kind = exec[w].kind /\ exec'[w].case = exec[w].case
    /\ exec'[w].claim = exec[w].claim /\ exec'[w].outer = exec[w].outer
    /\ \A v \in Worker \ {w} : exec'[v] = exec[v]
    /\ \A d \in Case :
          /\ apply'[d].status = apply[d].status /\ apply'[d].claim = apply[d].claim
          /\ apply[d].effect => apply'[d].effect
    /\ \A d \in Case :
          \/ release'[d].status = release[d].status /\ release'[d].claim = release[d].claim
          \/ /\ d = exec[w].case /\ Early(w)
             /\ release[d].status = "none" /\ release'[d].status = "pending"
    /\ owner' \in {owner, NoCase} \/ (owner' = exec[w].case /\ Early(w))
    /\ Early(w)' => /\ Early(w) /\ owner' = owner
                    /\ release'[exec[w].case].status = release[exec[w].case].status
    /\ exec'[w].kind = "release" /\ exec'[w].stage = "settle" /\ ~exec'[w].failed =>
          owner' # exec[w].case
    /\ exec'[w].stage \in {"add", "record"} => apply'[exec[w].case].effect
    /\ exec'[w].stage = "disown" => ~added'
    /\ added' => added \/ Inside(w)
    /\ hasRole' /\ added' =>
          \/ exec'[w].stage = "record" \/ attention' # {} \/ owner' # NoCase
          \/ hasRole /\ added /\ owner = NoCase /\ attention = {} /\ exec[w].stage # "record"

\* Such a step keeps every claim.
LEMMA WorkClaims ==
  ASSUME RoleInv, ClaimsKept, NEW w \in Worker, Works(w)
  PROVE  ClaimsKept'
<1>1. \A v \in Worker : exec[v].stage # "idle" => exec[v].case \in Case
  BY DEF RoleInv, Bound, Placed, Busy
<1>2. \A v \in Worker : /\ exec'[v].stage = "idle" <=> exec[v].stage = "idle"
                        /\ exec'[v].kind = exec[v].kind /\ exec'[v].case = exec[v].case
                        /\ exec'[v].claim = exec[v].claim /\ exec'[v].outer = exec[v].outer
  BY DEF Works, Busy
<1>3. \A v \in Worker : exec[v].outer > 0 => exec[v].stage # "idle"
  BY DEF RoleInv, Bound, Placed, Busy, Idle
<1>4. \A d \in Case : apply'[d].status = apply[d].status /\ apply'[d].claim = apply[d].claim
  BY DEF Works
<1>5. \A d \in Case : release[d].status = "running" =>
         release'[d].status = "running" /\ release'[d].claim = release[d].claim
  BY DEF Works
<1>6. ASSUME NEW v \in Worker
      PROVE  /\ Busy(v)' => Busy(v)
             /\ Applying(v)' => Applying(v)
             /\ Applying(v) => Applying(v)'
             /\ Releasing(v)' => Releasing(v)
  <2>1. /\ exec'[v].stage = "idle" <=> exec[v].stage = "idle"
        /\ exec'[v].kind = exec[v].kind /\ exec'[v].outer = exec[v].outer
    BY <1>2
  <2> QED
    BY <2>1 DEF Busy, Applying, Releasing
<1>7. ASSUME NEW v \in Worker, Busy(v)' PROVE exec'[v].claim > 0
  <2>1. Busy(v) /\ exec'[v].claim = exec[v].claim
    BY <1>2, <1>6, <1>7
  <2> QED
    BY <2>1 DEF ClaimsKept
<1>8. ASSUME NEW v \in Worker, Busy(v)', exec'[v].kind = "apply"
      PROVE  Held(apply'[exec'[v].case], exec'[v].claim)
  <2>1. /\ Busy(v) /\ exec[v].kind = "apply" /\ exec[v].case \in Case
        /\ exec'[v].case = exec[v].case /\ exec'[v].claim = exec[v].claim
    BY <1>1, <1>2, <1>6, <1>8 DEF Busy
  <2>2. Held(apply[exec[v].case], exec[v].claim)
    BY <2>1 DEF ClaimsKept
  <2> QED
    BY <1>4, <2>1, <2>2 DEF Held
<1>9. ASSUME NEW v \in Worker, exec'[v].outer > 0
      PROVE  Held(apply'[exec'[v].case], exec'[v].outer)
  <2>1. /\ exec[v].outer > 0 /\ exec[v].case \in Case
        /\ exec'[v].case = exec[v].case /\ exec'[v].outer = exec[v].outer
    BY <1>1, <1>2, <1>3, <1>9
  <2>2. Held(apply[exec[v].case], exec[v].outer)
    BY <2>1 DEF ClaimsKept
  <2> QED
    BY <1>4, <2>1, <2>2 DEF Held
<1>10. ASSUME NEW v \in Worker, Releasing(v)'
       PROVE  Held(release'[exec'[v].case], exec'[v].claim)
  <2>1. /\ Releasing(v) /\ exec[v].case \in Case
        /\ exec'[v].case = exec[v].case /\ exec'[v].claim = exec[v].claim
    BY <1>1, <1>2, <1>6, <1>10 DEF Releasing, Busy
  <2>2. Held(release[exec[v].case], exec[v].claim)
    BY <2>1 DEF ClaimsKept
  <2> QED
    BY <1>5, <2>1, <2>2 DEF Held
<1>11. ASSUME NEW u \in Worker, NEW v \in Worker, exec'[u].case = exec'[v].case
       PROVE  /\ Applying(u)' /\ Applying(v)' => u = v
              /\ Releasing(u)' /\ Releasing(v)' => u = v
  <2>1. exec[u].case = exec[v].case
    BY <1>2, <1>11
  <2>2. /\ Applying(u) /\ Applying(v) => u = v
        /\ Releasing(u) /\ Releasing(v) => u = v
    BY <2>1 DEF ClaimsKept
  <2> QED
    BY <1>6, <2>2
<1>12. ASSUME NEW d \in Case, apply'[d].status = "running"
       PROVE  \E v \in Worker : Applying(v)' /\ exec'[v].case = d
  <2>1. PICK v \in Worker : Applying(v) /\ exec[v].case = d
    BY <1>4, <1>12 DEF ClaimsKept
  <2>2. Applying(v)' /\ exec'[v].case = d
    BY <1>2, <1>6, <2>1
  <2> QED
    BY <2>2
<1> QED
  BY <1>7, <1>8, <1>9, <1>10, <1>11, <1>12 DEF ClaimsKept

\* Such a step keeps an ownership, and the release of it, its apply's own.
LEMMA WorkOwned ==
  ASSUME RoleInv, ClaimsKept, OwnedOnce, NEW w \in Worker, Works(w)
  PROVE  OwnedOnce'
<1>1. /\ exec[w].case \in Case
      /\ \A v \in Worker : Busy(v) => exec[v].case \in Case
  BY DEF RoleInv, Bound, Placed, Works
<1>2. \A v \in Worker \ {w} : exec'[v] = exec[v]
  BY DEF Works
<1>3. \A v \in Worker : Early(v) => Busy(v) /\ Applying(v)
  BY DEF Early, Busy, Applying
<1>4. Early(w) => /\ apply[exec[w].case].status = "running"
                  /\ owner # exec[w].case /\ release[exec[w].case].status = "none"
                  /\ \A v \in Worker \ {w} : Early(v) => exec[v].case # exec[w].case
  BY <1>3 DEF ClaimsKept, OwnedOnce, Early, Held, Busy
<1>5. ASSUME NEW d \in Case, owner' = d PROVE owner = d \/ (Early(w) /\ d = exec[w].case)
  <2>1. owner' \in {owner, NoCase} \/ (owner' = exec[w].case /\ Early(w))
    BY DEF Works
  <2>2. owner' # NoCase
    BY <1>5, NoCaseAssumption
  <2> QED
    BY <1>5, <2>1, <2>2
<1>6. ASSUME NEW d \in Case, release[d].status = "none"
      PROVE  release'[d].status = "none" \/ (Early(w) /\ d = exec[w].case)
  BY <1>6 DEF Works
<1>7. \A d \in Case : apply'[d].status \in {"none", "pending", "failed"} =>
         owner' # d /\ release'[d].status = "none"
  BY <1>4, <1>5, <1>6 DEF Works, OwnedOnce
<1>8. \A v \in Worker : Early(v)' =>
         owner' # exec'[v].case /\ release'[exec'[v].case].status = "none"
  <2>1. Early(w)' => owner' # exec'[w].case /\ release'[exec'[w].case].status = "none"
    BY <1>4 DEF Works
  <2>2. ASSUME NEW v \in Worker \ {w}, Early(v)'
        PROVE  owner' # exec'[v].case /\ release'[exec'[v].case].status = "none"
    <3>1. Early(v) /\ exec'[v] = exec[v] /\ exec[v].case \in Case
      BY <1>1, <1>2, <1>3, <2>2 DEF Early
    <3>2. owner # exec[v].case /\ release[exec[v].case].status = "none"
      BY <3>1 DEF OwnedOnce
    <3> QED
      BY <1>4, <1>5, <1>6, <3>1, <3>2
  <2> QED
    BY <2>1, <2>2
<1>9. \A d \in Case : owner' = d /\ release'[d].status # "none" => Unfinished(release'[d])
  BY <1>4, <1>5 DEF Works, OwnedOnce, Unfinished
<1>10. \A v \in Worker : Releasing(v)' /\ exec'[v].stage = "settle" /\ ~exec'[v].failed =>
          owner' # exec'[v].case
  <2>1. Releasing(w)' /\ exec'[w].stage = "settle" /\ ~exec'[w].failed => owner' # exec'[w].case
    BY DEF Works, Releasing
  <2>2. ASSUME NEW v \in Worker \ {w}, Releasing(v)', exec'[v].stage = "settle",
               ~exec'[v].failed
        PROVE  owner' # exec'[v].case
    <3>1. Releasing(v) /\ exec'[v] = exec[v] /\ exec[v].case \in Case
      BY <1>1, <1>2, <2>2 DEF Releasing, Busy
    <3>2. owner # exec[v].case /\ release[exec[v].case].status # "none"
      BY <2>2, <3>1 DEF OwnedOnce, RoleInv, Bound, Placed
    <3> QED
      BY <1>4, <1>5, <3>1, <3>2
  <2> QED
    BY <2>1, <2>2
<1> QED
  BY <1>7, <1>8, <1>9, <1>10 DEF OwnedOnce

\* Such a step forgets no role that a case put on.
LEMMA WorkAccounted ==
  ASSUME RoleInv, Accounted, NEW w \in Worker, Works(w)
  PROVE  Accounted'
<1>1. \A v \in Worker : Busy(v) => exec[v].case \in Case
  BY DEF RoleInv, Bound, Placed
<1>2. \A v \in Worker \ {w} : exec'[v] = exec[v]
  BY DEF Works
<1>3. \A v \in Worker : exec'[v].stage \in {"add", "record"} => apply'[exec'[v].case].effect
  BY <1>1, <1>2 DEF Works, Accounted, Busy
<1>4. \A v \in Worker : exec'[v].stage = "disown" => ~added'
  <2>1. ASSUME NEW v \in Worker \ {w}, exec[v].stage = "disown" PROVE ~added'
    <3>1. ~Inside(w)
      BY <2>1 DEF RoleInv, Locked, Inside
    <3> QED
      BY <2>1, <3>1 DEF Works, Accounted
  <2> QED
    BY <1>2, <2>1 DEF Works
<1>5. hasRole' /\ added' =>
         owner' # NoCase \/ attention' # {} \/ \E v \in Worker : exec'[v].stage = "record"
  <2>1. ASSUME hasRole, added, owner = NoCase, attention = {}, exec[w].stage # "record"
        PROVE  \E v \in Worker : exec'[v].stage = "record"
    BY <1>2, <2>1 DEF Accounted
  <2> QED
    BY <2>1 DEF Works
<1> QED
  BY <1>3, <1>4, <1>5 DEF Accounted

\* The three together.
Books == ClaimsKept /\ OwnedOnce /\ Accounted

\* Such a step keeps all three.
LEMMA WorkKeeps ==
  ASSUME RoleInv, Books, NEW w \in Worker, Works(w)
  PROVE  Books'
BY WorkClaims, WorkOwned, WorkAccounted DEF Books

\* What every executor knows while no call has failed.
LEMMA BusyFacts ==
  ASSUME RoleInv, Books, NEW w \in Worker, Busy(w)
  PROVE  /\ exec \in [Worker -> Exec] /\ apply \in [Case -> Row] /\ release \in [Case -> Row]
         /\ exec[w].case \in Case /\ apply[exec[w].case] \in Row
         /\ release[exec[w].case] \in Row /\ exec[w] \in Exec
         /\ exec[w].kind \in {"apply", "release"} /\ exec[w].outer \in Nat
         /\ exec[w].kind = "apply" => Held(apply[exec[w].case], exec[w].claim)
         /\ exec[w].kind = "release" => Held(release[exec[w].case], exec[w].claim)
<1>1. exec \in [Worker -> Exec] /\ apply \in [Case -> Row] /\ release \in [Case -> Row]
  BY DEF RoleInv, TypeOK
<1>2. exec[w].case \in Case
  BY DEF RoleInv, Bound, Placed
<1>3. exec[w].kind = "release" => Held(release[exec[w].case], exec[w].claim)
  BY DEF Books, ClaimsKept, Releasing
<1>4. exec[w].kind = "apply" => Held(apply[exec[w].case], exec[w].claim)
  BY DEF Books, ClaimsKept
<1>5. exec[w] \in Exec
  BY <1>1
<1>6. exec[w].kind \in {"apply", "release"} /\ exec[w].outer \in Nat
  BY <1>5, BoundAssumption DEF Exec
<1> QED
  BY <1>1, <1>2, <1>3, <1>4, <1>5, <1>6

\* The steps of the handlers do no more than that: the snapshot,
LEMMA LoadWorks ==
  ASSUME RoleInv, Books, NEW w \in Worker, Load(w)
  PROVE  Works(w)
<1>1. Busy(w) /\ exec[w].stage = "load"
  BY DEF Load, Busy
<1> DEFINE b == /\ case[exec[w].case].status = "pending"
                /\ ~punished[exec[w].case] /\ ~ignored[exec[w].case]
                /\ action[exec[w].case].status # "succeeded"
           f == [exec[w] EXCEPT !.stage = "decide", !.wanted = b]
<1>2. exec' = [exec EXCEPT ![w] = f]
  BY <1>1, BusyFacts DEF Load, Exec
<1> HIDE DEF b
<1>3. /\ f.stage = "decide" /\ f.kind = exec[w].kind /\ f.case = exec[w].case
      /\ f.claim = exec[w].claim /\ f.outer = exec[w].outer
  BY <1>1, BusyFacts DEF Exec
<1> HIDE DEF f
<1>4. exec'[w] = f /\ \A v \in Worker \ {w} : exec'[v] = exec[v]
  BY <1>1, <1>2, BusyFacts
<1>5. UNCHANGED <<apply, release, owner, hasRole, added, attention>>
  BY DEF Load, rows, role
<1> QED
  BY <1>1, <1>3, <1>4, <1>5 DEF Works, Early

\* the decisions of an apply,
LEMMA ApplyWorks ==
  ASSUME RoleInv, Books, NEW w \in Worker,
         \/ ApplySuperseded(w) \/ ApplyStarts(w) \/ ApplyAmbiguous(w) \/ ApplyReconciles(w)
  PROVE  Works(w)
<1>1. Busy(w) /\ exec[w].stage = "decide" /\ exec[w].kind = "apply" /\ Early(w)
  BY DEF ApplySuperseded, ApplyStarts, ApplyAmbiguous, ApplyReconciles, Decides, Busy, Early
<1>2. exec \in [Worker -> Exec] /\ apply \in [Case -> Row] /\ exec[w].case \in Case
      /\ apply[exec[w].case] \in Row /\ release' = release /\ hasRole' = hasRole /\ added' = added
  BY <1>1, BusyFacts DEF ApplySuperseded, ApplyStarts, ApplyAmbiguous, ApplyReconciles, role
<1>3. owner # exec[w].case /\ release[exec[w].case].status = "none"
  BY <1>1 DEF Books, OwnedOnce
<1>4. CASE ApplySuperseded(w) \/ ApplyAmbiguous(w)
  <2>1. Report(w, TRUE) /\ UNCHANGED <<apply, owner>> /\ attention \subseteq attention'
    BY <1>4 DEF ApplySuperseded, ApplyAmbiguous, role
  <2> QED
    BY <1>1, <1>2, <1>3, <2>1, ReportsOn DEF Works, Early
<1>5. CASE ApplyReconciles(w)
  <2> DEFINE c == exec[w].case
             inherits == ApplyHeld(w) /\ Transferable(owner, c)
             ok == inherits \/ owner \in {NoCase, c}
  <2>1. /\ Report(w, ok) /\ UNCHANGED <<apply, attention>>
        /\ owner' = IF inherits THEN c ELSE owner
    BY <1>5 DEF ApplyReconciles
  <2>2. ok \in BOOLEAN /\ (inherits => ok)
    OBVIOUS
  <2>3. c # NoCase
    BY <1>2, NoCaseAssumption
  <2> HIDE DEF inherits, ok
  <2>4. /\ exec'[w].stage = "settle" /\ exec'[w].kind = exec[w].kind
        /\ exec'[w].case = exec[w].case /\ exec'[w].claim = exec[w].claim
        /\ exec'[w].outer = exec[w].outer /\ (exec'[w].failed <=> ~ok)
        /\ \A v \in Worker \ {w} : exec'[v] = exec[v]
    BY <1>2, <2>1, <2>2, ReportsOn
  <2> QED
    BY <1>1, <1>2, <1>3, <2>1, <2>2, <2>3, <2>4 DEF Works, Early
<1>6. CASE ApplyStarts(w)
  <2> DEFINE c == exec[w].case
             a == [apply[c] EXCEPT !.effect = TRUE]
  <2>1. a.effect /\ a.status = apply[c].status /\ a.claim = apply[c].claim
    BY <1>2, RowUpdates
  <2>2. owner' = owner /\ attention' = attention
    BY <1>6 DEF ApplyStarts, role
  <2>3. CASE apply' = [apply EXCEPT ![c] = a] /\ Goto(w, "add")
    <3> HIDE DEF a
    <3>1. apply'[c] = a /\ \A d \in Case \ {c} : apply'[d] = apply[d]
      BY <1>2, <2>3
    <3>2. /\ exec'[w].stage = "add" /\ exec'[w].kind = exec[w].kind
          /\ exec'[w].case = exec[w].case /\ exec'[w].claim = exec[w].claim
          /\ exec'[w].outer = exec[w].outer
          /\ \A v \in Worker \ {w} : exec'[v] = exec[v]
      BY <1>2, <2>3, GoesOn DEF Stages
    <3>3. \A d \in Case : /\ apply'[d].status = apply[d].status
                          /\ apply'[d].claim = apply[d].claim
                          /\ apply[d].effect => apply'[d].effect
      BY <2>1, <3>1
    <3> QED
      BY <1>1, <1>2, <1>3, <2>1, <2>2, <3>1, <3>2, <3>3 DEF Works, Early
  <2>4. CASE apply' = apply /\ Report(w, FALSE)
    BY <1>1, <1>2, <1>3, <2>2, <2>4, ReportsOn DEF Works, Early
  <2> QED
    BY <1>6, <2>3, <2>4 DEF ApplyStarts
<1> QED
  BY <1>4, <1>5, <1>6

\* the request that puts the role on, under a row whose effect has started,
LEMMA AddWorks ==
  ASSUME RoleInv, Books, NEW w \in Worker, AddRole(w)
  PROVE  Works(w)
<1>1. /\ Busy(w) /\ Inside(w) /\ exec[w].stage = "add" /\ exec[w].kind = "apply" /\ Early(w)
      /\ apply[exec[w].case].effect
  BY DEF AddRole, Busy, Inside, Early, RoleInv, Bound, Placed, Books, Accounted
<1>2. exec \in [Worker -> Exec] /\ Goto(w, "record") /\ "record" \in Stages
  BY <1>1, BusyFacts DEF AddRole, Stages
<1>3. UNCHANGED <<apply, release, owner, attention>>
  BY DEF AddRole
<1> QED
  BY <1>1, <1>2, <1>3, GoesOn DEF Works, Early

\* the record of the ownership,
LEMMA RecordWorks ==
  ASSUME RoleInv, Books, NEW w \in Worker, RecordOwnership(w)
  PROVE  Works(w)
<1> DEFINE c == exec[w].case
           e == Ensured(release[c])
           recorded == Held(apply[c], exec[w].claim) /\ owner = NoCase
<1>1. /\ Busy(w) /\ exec[w].stage = "record" /\ exec[w].kind = "apply" /\ Early(w)
      /\ c \in Case /\ release \in [Case -> Row] /\ exec \in [Worker -> Exec]
      /\ release[c] \in Row
  BY BusyFacts DEF RecordOwnership, Busy, Early, RoleInv, Bound, Placed
<1>2. release[c].status = "none"
  BY <1>1 DEF Books, OwnedOnce
<1>3. e.status = "pending"
  BY <1>1, <1>2, EnsuredRow
<1>4. /\ owner' = IF recorded THEN c ELSE owner
      /\ attention' = IF recorded THEN attention ELSE attention \cup {c}
      /\ UNCHANGED <<apply, hasRole, added>>
      /\ \/ release' = [release EXCEPT ![c] = e] /\ Goto(w, "nest")
         \/ release' = release /\ Report(w, TRUE)
  BY DEF RecordOwnership
<1> HIDE DEF e, recorded
<1>5. release' = release \/ release' = [release EXCEPT ![c] = e]
  BY <1>4
<1>6. \A d \in Case :
          \/ release'[d].status = release[d].status /\ release'[d].claim = release[d].claim
          \/ d = c /\ release[d].status = "none" /\ release'[d].status = "pending"
  BY <1>1, <1>2, <1>3, <1>5
<1>7. /\ exec'[w].stage \in {"nest", "settle"} /\ exec'[w].kind = exec[w].kind
      /\ exec'[w].case = exec[w].case /\ exec'[w].claim = exec[w].claim
      /\ exec'[w].outer = exec[w].outer
      /\ exec'[w].stage = "settle" => ~exec'[w].failed
      /\ \A v \in Worker \ {w} : exec'[v] = exec[v]
  BY <1>1, <1>4, GoesOn, ReportsOn DEF Stages
<1>8. owner' # NoCase \/ attention' # {}
  BY <1>1, <1>4, NoCaseAssumption
<1>9. owner' \in {owner, c}
  BY <1>4
<1> HIDE DEF c
<1> QED
  BY <1>1, <1>4, <1>6, <1>7, <1>8, <1>9 DEF Works, Early, c

\* and the steps of a release.
LEMMA ReleaseWorks ==
  ASSUME RoleInv, Books, NEW w \in Worker,
         ReleaseMoot(w) \/ ReleaseStarts(w) \/ RemoveRole(w) \/ Disown(w)
  PROVE  Works(w)
<1>1. Busy(w) /\ exec[w].kind = "release" /\ exec[w].stage \in {"decide", "remove", "disown"}
  BY DEF ReleaseMoot, ReleaseStarts, RemoveRole, Disown, Decides, Busy, RoleInv, Bound, Placed
<1>2. /\ exec \in [Worker -> Exec] /\ release \in [Case -> Row] /\ exec[w].case \in Case
      /\ release[exec[w].case] \in Row /\ apply' = apply /\ attention' = attention
  BY <1>1, BusyFacts DEF ReleaseMoot, ReleaseStarts, RemoveRole, Disown, role
<1>3. CASE ReleaseMoot(w)
  <2>1. Report(w, TRUE) /\ UNCHANGED <<release, owner, hasRole, added>> /\ owner # exec[w].case
    BY <1>3 DEF ReleaseMoot, role
  <2> QED
    BY <1>1, <1>2, <2>1, ReportsOn DEF Works, Early
<1>4. CASE ReleaseStarts(w)
  <2> DEFINE c == exec[w].case
             k == [release[c] EXCEPT !.effect = TRUE]
  <2>1. k.status = release[c].status /\ k.claim = release[c].claim
    BY <1>2, RowUpdates
  <2>2. /\ \/ release' = [release EXCEPT ![c] = k] /\ Goto(w, "remove")
           \/ release' = release /\ Report(w, FALSE)
        /\ UNCHANGED <<owner, hasRole, added>>
    BY <1>4 DEF ReleaseStarts, role
  <2> HIDE DEF k
  <2>3. \A d \in Case :
           release'[d].status = release[d].status /\ release'[d].claim = release[d].claim
    BY <1>2, <2>1, <2>2
  <2>4. /\ exec'[w].stage \in {"remove", "settle"} /\ exec'[w].kind = exec[w].kind
        /\ exec'[w].case = exec[w].case /\ exec'[w].claim = exec[w].claim
        /\ exec'[w].outer = exec[w].outer
        /\ exec'[w].stage = "settle" => exec'[w].failed
        /\ \A v \in Worker \ {w} : exec'[v] = exec[v]
    BY <1>2, <2>2, GoesOn, ReportsOn DEF Stages
  <2> QED
    BY <1>1, <1>2, <2>2, <2>3, <2>4 DEF Works, Early
<1>5. CASE RemoveRole(w)
  <2>1. Goto(w, "disown") /\ UNCHANGED <<release, owner>> /\ ~hasRole' /\ ~added'
    BY <1>5 DEF RemoveRole
  <2>2. "disown" \in Stages
    BY DEF Stages
  <2> QED
    BY <1>1, <1>2, <2>1, <2>2, GoesOn DEF Works, Early
<1>6. CASE Disown(w)
  <2>1. /\ Report(w, TRUE) /\ UNCHANGED <<release, hasRole, added>> /\ exec[w].stage = "disown"
        /\ owner' = IF owner = exec[w].case THEN NoCase ELSE owner
    BY <1>6 DEF Disown
  <2>2. ~added /\ exec[w].case # NoCase
    BY <1>2, <2>1, NoCaseAssumption DEF Books, Accounted
  <2> QED
    BY <1>1, <1>2, <2>1, <2>2, ReportsOn DEF Works, Early
<1> QED
  BY <1>3, <1>4, <1>5, <1>6

\* An executor turns to a row of the case, or from it: it claims or settles the row, and
\* nobody else works on that row.
Turns(w, c) ==
    /\ \A v \in Worker \ {w} : exec'[v] = exec[v]
    /\ \A d \in Case \ {c} : apply'[d] = apply[d] /\ release'[d] = release[d]
    /\ apply[c].effect => apply'[c].effect
    /\ UNCHANGED role
    /\ exec[w].stage \notin {"add", "record", "disown"}
    /\ exec'[w].stage \notin {"add", "record", "disown"}
    /\ exec[w].stage # "idle" => exec[w].case = c
    /\ exec'[w].stage # "idle" => exec'[w].case = c
    /\ apply'[c] # apply[c] \/ Applying(w)' =>
          \A v \in Worker \ {w} : ~(Applying(v) /\ exec[v].case = c)
    /\ release'[c] # release[c] \/ Releasing(w)' =>
          \A v \in Worker \ {w} : ~(Releasing(v) /\ exec[v].case = c)
    /\ Busy(w)' => exec'[w].claim > 0
    /\ Busy(w)' /\ exec'[w].kind = "apply" => Held(apply'[c], exec'[w].claim)
    /\ exec'[w].outer > 0 => Busy(w)' /\ Held(apply'[c], exec'[w].outer)
    /\ Releasing(w)' => Held(release'[c], exec'[w].claim)
    /\ apply'[c].status = "running" => Applying(w)' \/ (apply'[c] = apply[c] /\ ~Applying(w))
    /\ apply'[c].status \in {"none", "pending", "failed"} =>
          owner # c /\ release'[c].status = "none"
    /\ Early(w)' => owner # c /\ release'[c].status = "none"
    /\ release[c].status = "none" => release'[c].status = "none"
    /\ owner = c /\ release'[c].status # "none" => Unfinished(release'[c])
    /\ Releasing(w)' /\ exec'[w].stage = "settle" /\ ~exec'[w].failed => owner # c

\* Such a step keeps every claim,
LEMMA TurnClaims ==
  ASSUME RoleInv, ClaimsKept, NEW w \in Worker, NEW c \in Case, Turns(w, c)
  PROVE  ClaimsKept'
<1>1. \A v \in Worker \ {w} : exec'[v] = exec[v]
  BY DEF Turns
<1>2. ASSUME NEW v \in Worker \ {w}
      PROVE  /\ Busy(v)' => Busy(v)
             /\ Applying(v)' => Applying(v)
             /\ Applying(v) => Applying(v)'
             /\ Releasing(v)' => Releasing(v)
  <2>1. exec'[v] = exec[v]
    BY <1>1
  <2> QED
    BY <2>1 DEF Busy, Applying, Releasing
<1>3. \A v \in Worker : Busy(v) => exec[v].case \in Case
  BY DEF RoleInv, Bound, Placed
<1>4. ASSUME NEW v \in Worker \ {w}, Applying(v)
      PROVE  apply'[exec[v].case] = apply[exec[v].case]
  BY <1>3, <1>4 DEF Turns, Applying
<1>5. ASSUME NEW v \in Worker \ {w}, Releasing(v)
      PROVE  release'[exec[v].case] = release[exec[v].case]
  BY <1>3, <1>5 DEF Turns, Releasing
<1>6. ASSUME NEW v \in Worker, Busy(v)' PROVE exec'[v].claim > 0
  <2>1. CASE v = w
    BY <1>6, <2>1 DEF Turns
  <2>2. CASE v # w
    BY <1>1, <1>2, <1>6, <2>2 DEF ClaimsKept
  <2> QED
    BY <2>1, <2>2
<1>7. ASSUME NEW v \in Worker, Busy(v)', exec'[v].kind = "apply"
      PROVE  Held(apply'[exec'[v].case], exec'[v].claim)
  <2>1. CASE v = w
    BY <1>7, <2>1 DEF Turns, Busy
  <2>2. CASE v # w
    <3>1. Busy(v) /\ exec'[v] = exec[v]
      BY <1>1, <1>2, <1>7, <2>2
    <3>2. Applying(v) /\ Held(apply[exec[v].case], exec[v].claim)
      BY <1>7, <3>1 DEF ClaimsKept, Applying
    <3> QED
      BY <1>4, <2>2, <3>1, <3>2
  <2> QED
    BY <2>1, <2>2
<1>8. ASSUME NEW v \in Worker, exec'[v].outer > 0
      PROVE  Held(apply'[exec'[v].case], exec'[v].outer)
  <2>1. CASE v = w
    BY <1>8, <2>1 DEF Turns, Busy
  <2>2. CASE v # w
    <3>1. exec[v].outer > 0 /\ exec'[v] = exec[v]
      BY <1>1, <1>8, <2>2
    <3>2. Busy(v)
      BY <3>1 DEF RoleInv, Bound, Placed, Idle
    <3>3. Applying(v) /\ Held(apply[exec[v].case], exec[v].outer)
      BY <3>1, <3>2 DEF ClaimsKept, Applying
    <3> QED
      BY <1>4, <2>2, <3>1, <3>3
  <2> QED
    BY <2>1, <2>2
<1>9. ASSUME NEW v \in Worker, Releasing(v)'
      PROVE  Held(release'[exec'[v].case], exec'[v].claim)
  <2>1. CASE v = w
    BY <1>9, <2>1 DEF Turns, Releasing, Busy
  <2>2. CASE v # w
    <3>1. Releasing(v) /\ exec'[v] = exec[v]
      BY <1>1, <1>2, <1>9, <2>2
    <3>2. Held(release[exec[v].case], exec[v].claim)
      BY <3>1 DEF ClaimsKept
    <3> QED
      BY <1>5, <2>2, <3>1, <3>2
  <2> QED
    BY <2>1, <2>2
<1>10. ASSUME NEW v \in Worker \ {w}, exec'[v].case = exec'[w].case
       PROVE  ~(Applying(v)' /\ Applying(w)') /\ ~(Releasing(v)' /\ Releasing(w)')
  <2>1. ~(Applying(v)' /\ Applying(w)')
    <3>1. ASSUME Applying(w)' PROVE exec'[w].case = c /\ ~(Applying(v) /\ exec[v].case = c)
      BY <3>1 DEF Turns, Applying, Busy
    <3> QED
      BY <1>1, <1>2, <1>10, <3>1
  <2>2. ~(Releasing(v)' /\ Releasing(w)')
    <3>1. ASSUME Releasing(w)' PROVE exec'[w].case = c /\ ~(Releasing(v) /\ exec[v].case = c)
      BY <3>1 DEF Turns, Releasing, Busy
    <3> QED
      BY <1>1, <1>2, <1>10, <3>1
  <2> QED
    BY <2>1, <2>2
<1>11. ASSUME NEW u \in Worker, NEW v \in Worker, exec'[u].case = exec'[v].case
       PROVE  /\ Applying(u)' /\ Applying(v)' => u = v
              /\ Releasing(u)' /\ Releasing(v)' => u = v
  <2>1. CASE u # w /\ v # w
    <3>1. /\ exec[u].case = exec[v].case
          /\ Applying(u) /\ Applying(v) => u = v
          /\ Releasing(u) /\ Releasing(v) => u = v
      BY <1>1, <1>11, <2>1 DEF ClaimsKept
    <3> QED
      BY <1>2, <2>1, <3>1
  <2>2. CASE u = w \/ v = w
    BY <1>10, <1>11, <2>2
  <2> QED
    BY <2>1, <2>2
<1>12. ASSUME NEW d \in Case, apply'[d].status = "running"
       PROVE  \E v \in Worker : Applying(v)' /\ exec'[v].case = d
  <2>1. CASE d = c /\ Applying(w)'
    <3>1. exec'[w].case = c
      BY <2>1 DEF Turns, Applying, Busy
    <3> QED
      BY <2>1, <3>1
  <2>2. CASE d # c \/ ~Applying(w)'
    <3>1. apply'[d] = apply[d] /\ (d # c \/ ~Applying(w))
      BY <1>12, <2>2 DEF Turns
    <3>2. PICK v \in Worker : Applying(v) /\ exec[v].case = d
      BY <1>12, <3>1 DEF ClaimsKept
    <3>3. v # w
      BY <3>1, <3>2 DEF Turns, Applying, Busy
    <3>4. Applying(v)' /\ exec'[v].case = d
      BY <1>1, <1>2, <3>2, <3>3
    <3> QED
      BY <3>4
  <2> QED
    BY <2>1, <2>2
<1> QED
  BY <1>6, <1>7, <1>8, <1>9, <1>11, <1>12 DEF ClaimsKept

\* the ownership,
LEMMA TurnOwned ==
  ASSUME RoleInv, ClaimsKept, OwnedOnce, NEW w \in Worker, NEW c \in Case, Turns(w, c)
  PROVE  OwnedOnce'
<1>1. owner' = owner /\ \A v \in Worker \ {w} : exec'[v] = exec[v]
  BY DEF Turns, role
<1>2. \A v \in Worker : Busy(v) => exec[v].case \in Case
  BY DEF RoleInv, Bound, Placed
<1>3. \A d \in Case : release[d].status = "none" => release'[d].status = "none"
  BY DEF Turns
<1>4. \A d \in Case : apply'[d].status \in {"none", "pending", "failed"} =>
         owner' # d /\ release'[d].status = "none"
  BY <1>1 DEF Turns, OwnedOnce
<1>5. ASSUME NEW v \in Worker, Early(v)'
      PROVE  owner' # exec'[v].case /\ release'[exec'[v].case].status = "none"
  <2>1. CASE v = w
    <3>1. exec'[w].case = c
      BY <1>5, <2>1 DEF Turns, Early
    <3> QED
      BY <1>1, <1>5, <2>1, <3>1 DEF Turns
  <2>2. CASE v # w
    <3>1. exec'[v] = exec[v] /\ Early(v) /\ exec[v].case \in Case
      BY <1>1, <1>2, <1>5, <2>2 DEF Early, Busy
    <3> QED
      BY <1>1, <1>3, <3>1 DEF OwnedOnce
  <2> QED
    BY <2>1, <2>2
<1>6. \A d \in Case : owner' = d /\ release'[d].status # "none" => Unfinished(release'[d])
  BY <1>1 DEF Turns, OwnedOnce
<1>7. ASSUME NEW v \in Worker, Releasing(v)', exec'[v].stage = "settle", ~exec'[v].failed
      PROVE  owner' # exec'[v].case
  <2>1. CASE v = w
    <3>1. exec'[w].case = c
      BY <1>7, <2>1 DEF Turns
    <3> QED
      BY <1>1, <1>7, <2>1, <3>1 DEF Turns
  <2>2. CASE v # w
    <3>1. exec'[v] = exec[v] /\ Releasing(v)
      BY <1>1, <1>7, <2>2 DEF Releasing, Busy
    <3> QED
      BY <1>1, <1>7, <3>1 DEF OwnedOnce
  <2> QED
    BY <2>1, <2>2
<1> QED
  BY <1>4, <1>5, <1>6, <1>7 DEF OwnedOnce

\* and the account of the role.
LEMMA TurnAccounted ==
  ASSUME RoleInv, Accounted, NEW w \in Worker, NEW c \in Case, Turns(w, c)
  PROVE  Accounted'
<1>1. UNCHANGED role /\ \A v \in Worker \ {w} : exec'[v] = exec[v]
  BY DEF Turns
<1>2. ASSUME NEW v \in Worker, exec'[v].stage \in {"add", "record", "disown"}
      PROVE  v # w /\ exec'[v] = exec[v] /\ exec[v].case \in Case
  BY <1>1, <1>2 DEF Turns, RoleInv, Bound, Placed, Busy
<1>3. \A d \in Case : apply[d].effect => apply'[d].effect
  BY DEF Turns
<1>4. ASSUME NEW v \in Worker, exec[v].stage = "record" PROVE exec'[v].stage = "record"
  BY <1>1, <1>4 DEF Turns
<1>5. \A v \in Worker : exec'[v].stage \in {"add", "record"} => apply'[exec'[v].case].effect
  BY <1>2, <1>3 DEF Accounted
<1>6. \A v \in Worker : exec'[v].stage = "disown" => ~added'
  BY <1>1, <1>2 DEF Accounted, role
<1>7. hasRole' /\ added' =>
         owner' # NoCase \/ attention' # {} \/ \E v \in Worker : exec'[v].stage = "record"
  BY <1>1, <1>4 DEF Accounted, role
<1> QED
  BY <1>5, <1>6, <1>7 DEF Accounted

\* A claim or a settlement keeps all three.
LEMMA TurnKeeps ==
  ASSUME RoleInv, Books, NEW w \in Worker, NEW c \in Case, Turns(w, c)
  PROVE  Books'
BY TurnClaims, TurnOwned, TurnAccounted DEF Books

\* A row is claimed only from nobody: no heartbeat of a living executor dies.
LEMMA ClaimTurns ==
  ASSUME RoleInv, Books, NEW w \in Worker, NEW kind \in {"apply", "release"}, NEW c \in Case,
         ClaimRole(w, kind, c), ~Fault
  PROVE  Turns(w, c)
<1> DEFINE k == IF kind = "apply" THEN apply[c] ELSE release[c]
           n == k.claim + 1
           f == [Idle EXCEPT !.stage = "load", !.kind = kind, !.case = c, !.claim = n]
           j == Claimed(k)
<1>1. /\ exec \in [Worker -> Exec] /\ apply \in [Case -> Row] /\ release \in [Case -> Row]
      /\ k \in Row /\ exec[w].stage = "idle" /\ ~Busy(w) /\ ~Applying(w) /\ k.claim \in Nat
  BY BoundAssumption DEF RoleInv, TypeOK, ClaimRole, Busy, Applying, Row
<1>2. /\ Unfinished(k) /\ k.claim < MaxClaims
      /\ ~(k.status = "running" /\ Attended(k, kind, c))
      /\ exec' = [exec EXCEPT ![w] = f] /\ UNCHANGED role
      /\ IF kind = "apply" THEN apply' = [apply EXCEPT ![c] = j] /\ UNCHANGED release
         ELSE release' = [release EXCEPT ![c] = j] /\ UNCHANGED apply
  BY DEF ClaimRole, Claimable
<1>3. j.status = "running" /\ j.claim = n /\ j.effect = k.effect
  BY <1>1, <1>2, ClaimedRow
<1>4. /\ f.stage = "load" /\ f.kind = kind /\ f.case = c /\ f.claim = n /\ f.outer = 0
      /\ ~f.failed /\ n > 0
  BY <1>1 DEF Idle
<1> HIDE DEF f, j, n
<1>5. exec'[w] = f /\ \A v \in Worker \ {w} : exec'[v] = exec[v]
  BY <1>1, <1>2
<1>6. CASE kind = "apply"
  <2>1. ASSUME NEW v \in Worker, Applying(v), exec[v].case = c
        PROVE  apply[c].status = "running" /\ Attended(apply[c], "apply", c)
    <3>1. exec[v].kind = "apply" \/ exec[v].outer > 0
      BY <2>1 DEF Applying
    <3>2. \/ exec[v].kind = "apply" /\ Held(apply[c], exec[v].claim)
          \/ Held(apply[c], exec[v].outer)
      BY <2>1, <3>1 DEF Books, ClaimsKept, Applying
    <3> QED
      BY <2>1, <3>2 DEF Attended, Held
  <2>2. \A v \in Worker : ~(Applying(v) /\ exec[v].case = c)
    BY <1>2, <1>6, <2>1
  <2>3. apply[c].status \in {"pending", "failed"}
    <3>1. apply[c].status # "running"
      BY <2>2 DEF Books, ClaimsKept
    <3> QED
      BY <1>2, <1>6, <3>1 DEF Unfinished
  <2>4. owner # c /\ release[c].status = "none"
    BY <2>3 DEF Books, OwnedOnce
  <2>5. apply'[c] = j /\ release' = release /\ \A d \in Case \ {c} : apply'[d] = apply[d]
    BY <1>1, <1>2, <1>6
  <2>6. ~Releasing(w)' /\ Applying(w)' /\ Busy(w)'
    BY <1>4, <1>5, <1>6 DEF Releasing, Applying, Busy
  <2> QED
    BY <1>1, <1>2, <1>3, <1>4, <1>5, <1>6, <2>2, <2>4, <2>5, <2>6 DEF Turns, Busy, Held
<1>7. CASE kind = "release"
  <2>1. \A v \in Worker : ~(Releasing(v) /\ exec[v].case = c)
    <3> SUFFICES ASSUME NEW v \in Worker, Releasing(v), exec[v].case = c PROVE FALSE
      OBVIOUS
    <3>1. Held(release[c], exec[v].claim) /\ exec[v].kind = "release"
      BY DEF Books, ClaimsKept, Releasing
    <3>2. release[c].status = "running" /\ Attended(release[c], "release", c)
      BY <3>1 DEF Attended, Held
    <3> QED
      BY <1>2, <1>7, <3>2
  <2>2. release[c].status # "none"
    BY <1>2, <1>7 DEF Unfinished
  <2>3. apply[c].status \notin {"none", "pending", "failed"}
    BY <2>2 DEF Books, OwnedOnce
  <2>4. release'[c] = j /\ apply' = apply /\ \A d \in Case \ {c} : release'[d] = release[d]
    BY <1>1, <1>2, <1>7
  <2>5. Releasing(w)' /\ ~Applying(w)' /\ Busy(w)' /\ ~Early(w)'
    BY <1>4, <1>5, <1>7 DEF Releasing, Applying, Busy, Early
  <2> QED
    BY <1>1, <1>2, <1>3, <1>4, <1>5, <1>7, <2>1, <2>2, <2>3, <2>4, <2>5
    DEF Turns, Busy, Held, Unfinished
<1> QED
  BY <1>6, <1>7

\* The release inside an apply claims a row that nobody works on.
LEMMA NestBooks ==
  ASSUME RoleInv, Books, NEW w \in Worker, NestRelease(w)
  PROVE  Works(w) \/ Turns(w, exec[w].case)
<1> DEFINE c == exec[w].case
           n == release[c].claim + 1
           m == exec[w].claim
           k == Claimed(release[c])
           f == [exec[w] EXCEPT !.stage = "decide", !.kind = "release", !.claim = n,
                                !.outer = m]
<1>1. /\ exec[w].stage = "nest" /\ Busy(w) /\ exec[w].kind = "apply" /\ Applying(w)
      /\ UNCHANGED <<apply, owner, hasRole, added, attention>>
  BY DEF NestRelease, RoleInv, Bound, Placed, Busy, Applying, role
<1>2. /\ exec \in [Worker -> Exec] /\ release \in [Case -> Row] /\ c \in Case
      /\ release[c] \in Row /\ Held(apply[c], m) /\ m > 0 /\ release[c].claim \in Nat
  <2>1. m > 0
    BY <1>1 DEF Books, ClaimsKept
  <2> QED
    BY <1>1, <2>1, BusyFacts, BoundAssumption DEF Row
<1>3. CASE Report(w, TRUE) /\ UNCHANGED release
  BY <1>1, <1>2, <1>3, ReportsOn DEF Works, Early
<1>4. CASE /\ release[c].status \in {"pending", "failed"} /\ release[c].claim < MaxClaims
           /\ release' = [release EXCEPT ![c] = k]
           /\ exec' = [exec EXCEPT ![w] = f]
  <2>1. k.status = "running" /\ k.claim = n /\ n > 0
    BY <1>2, <1>4, ClaimedRow
  <2>2. f.stage = "decide" /\ f.kind = "release" /\ f.case = c /\ f.claim = n /\ f.outer = m
    BY <1>2 DEF Exec
  <2> HIDE DEF f, k, n
  <2>3. exec'[w] = f /\ \A v \in Worker \ {w} : exec'[v] = exec[v]
    BY <1>2, <1>4
  <2>4. release'[c] = k /\ \A d \in Case \ {c} : release'[d] = release[d]
    BY <1>2, <1>4
  <2>5. \A v \in Worker : ~(Releasing(v) /\ exec[v].case = c)
    BY <1>4 DEF Books, ClaimsKept, Held
  <2>6. \A v \in Worker \ {w} : ~(Applying(v) /\ exec[v].case = c)
    BY <1>1 DEF Books, ClaimsKept
  <2>7. Releasing(w)' /\ Applying(w)' /\ Busy(w)' /\ ~Early(w)'
    BY <1>2, <2>2, <2>3 DEF Releasing, Applying, Busy, Early
  <2> HIDE DEF m, c
  <2> QED
    BY <1>1, <1>2, <1>4, <2>1, <2>2, <2>3, <2>4, <2>5, <2>6, <2>7
    DEF Turns, Held, Unfinished, role, c, m
<1>5. exec' = [exec EXCEPT ![w].stage = "decide", ![w].kind = "release", ![w].claim = n,
                           ![w].outer = m] => exec' = [exec EXCEPT ![w] = f]
  BY <1>2 DEF Exec
<1> QED
  BY <1>3, <1>4, <1>5 DEF NestRelease

\* A row is settled under the claim it carries; the apply goes on under its own.
LEMMA SettleTurns ==
  ASSUME RoleInv, Books, NEW w \in Worker, Settle(w)
  PROVE  Turns(w, exec[w].case)
<1> DEFINE e == exec[w]
           c == e.case
           b == ~e.failed /\ ~Held(release[c], e.claim)
           n == e.outer
           g == [e EXCEPT !.kind = "apply", !.claim = n, !.outer = 0, !.failed = b]
           f == IF e.outer = 0 THEN Idle ELSE g
           a == Settled(apply[c], e)
           k == Settled(release[c], e)
<1>1. e.stage = "settle" /\ Busy(w) /\ UNCHANGED <<owner, hasRole, added, attention>>
  BY DEF Settle, Busy, role
<1>2. /\ exec \in [Worker -> Exec] /\ release \in [Case -> Row] /\ apply \in [Case -> Row]
      /\ e \in Exec /\ c \in Case /\ release[c] \in Row /\ apply[c] \in Row
      /\ e.kind \in {"apply", "release"} /\ n \in Nat
      /\ e.kind = "apply" => Held(apply[c], e.claim) /\ e.outer = 0
      /\ e.kind = "release" => Held(release[c], e.claim)
      /\ n > 0 => Held(apply[c], n)
  <2>1. e.outer > 0 => e.kind = "release"
    BY DEF RoleInv, Bound, Placed
  <2>2. e.outer > 0 => Held(apply[c], e.outer)
    BY DEF Books, ClaimsKept
  <2> QED
    BY <1>1, <2>1, <2>2, BusyFacts
<1>3. exec' = [exec EXCEPT ![w] = f]
  BY <1>2 DEF Settle, Exec
<1>4. IF e.kind = "apply" THEN apply' = [apply EXCEPT ![c] = a] /\ UNCHANGED release
      ELSE release' = [release EXCEPT ![c] = k] /\ UNCHANGED apply
  BY DEF Settle
<1>5. e.kind = "apply" =>
         a.status = (IF e.failed THEN "failed" ELSE "succeeded") /\ a.effect = apply[c].effect
  BY <1>2, SettledRow
<1>6. e.kind = "release" => k.status = IF e.failed THEN "failed" ELSE "succeeded"
  BY <1>2, SettledRow
<1>7. /\ g.kind = "apply" /\ g.case = c /\ g.outer = 0 /\ g.stage = "settle" /\ g.claim = n
      /\ g.failed = b
  BY <1>1, <1>2 DEF Exec
<1>8. Idle.stage = "idle" /\ Idle.outer = 0 /\ Idle.kind = "apply"
  BY DEF Idle
<1>9. n > 0 => ~b
  BY <1>2
<1> HIDE DEF g, a, k, b
<1>10. /\ exec'[w] = f /\ \A v \in Worker \ {w} : exec'[v] = exec[v]
  BY <1>2, <1>3
<1>11. /\ n = 0 => exec'[w] = Idle
       /\ n > 0 => /\ exec'[w].kind = "apply" /\ exec'[w].case = c /\ exec'[w].outer = 0
                   /\ exec'[w].stage = "settle" /\ exec'[w].claim = n /\ ~exec'[w].failed
  BY <1>2, <1>7, <1>9, <1>10
<1> HIDE DEF f
<1>12. /\ ~Releasing(w)' /\ ~Early(w)'
       /\ Busy(w)' => n > 0
       /\ n > 0 => Applying(w)
       /\ n > 0 => Applying(w)'
  BY <1>1, <1>2, <1>8, <1>11 DEF Releasing, Early, Applying, Busy
<1>13. CASE e.kind = "apply"
  <2>1. n = 0 /\ Applying(w) /\ Busy(w)
    BY <1>1, <1>2, <1>13 DEF Applying
  <2>2. \A v \in Worker \ {w} : ~(Applying(v) /\ exec[v].case = c)
    BY <2>1 DEF Books, ClaimsKept
  <2>3. e.failed => Early(w)
    BY <1>1, <1>13 DEF Early
  <2>4. e.failed => owner # c /\ release[c].status = "none"
    BY <2>3 DEF Books, OwnedOnce
  <2>5. apply'[c] = a /\ release' = release /\ \A d \in Case \ {c} : apply'[d] = apply[d]
    BY <1>2, <1>4, <1>13
  <2>6. owner = c /\ release[c].status # "none" => Unfinished(release[c])
    BY <1>2 DEF Books, OwnedOnce
  <2>7. ~Applying(w)' /\ ~Busy(w)' /\ exec'[w].stage = "idle" /\ exec'[w].outer = 0
    BY <1>8, <1>11, <2>1 DEF Applying, Busy
  <2> HIDE DEF c, n, e
  <2> QED
    BY <1>1, <1>2, <1>5, <1>10, <1>12, <1>13, <2>1, <2>2, <2>4, <2>5, <2>6, <2>7
    DEF Turns, role, c, n, e
<1>14. CASE e.kind = "release"
  <2>1. Releasing(w)
    BY <1>1, <1>14 DEF Releasing
  <2>2. \A v \in Worker \ {w} : ~(Releasing(v) /\ exec[v].case = c)
    BY <2>1 DEF Books, ClaimsKept
  <2>3. n > 0 => \A v \in Worker \ {w} : ~(Applying(v) /\ exec[v].case = c)
    BY <1>12 DEF Books, ClaimsKept
  <2>4. ~e.failed => owner # c
    BY <1>1, <2>1 DEF Books, OwnedOnce
  <2>5. release'[c] = k /\ apply' = apply /\ \A d \in Case \ {c} : release'[d] = release[d]
    BY <1>2, <1>4, <1>14
  <2>6. release[c].status = "running"
    BY <1>2, <1>14 DEF Held
  <2>7. apply[c].status \notin {"none", "pending", "failed"}
    BY <1>2, <2>6 DEF Books, OwnedOnce
  <2>8. n = 0 => ~Applying(w) /\ ~Busy(w)' /\ exec'[w].outer = 0 /\ ~Applying(w)'
    BY <1>1, <1>2, <1>8, <1>11, <1>14 DEF Applying, Busy
  <2>9. owner = c => Unfinished(k)
    BY <1>6, <1>14, <2>4 DEF Unfinished
  <2> HIDE DEF c, n, e
  <2> QED
    BY <1>1, <1>2, <1>10, <1>11, <1>12, <1>14, <2>2, <2>3, <2>5, <2>6, <2>7, <2>8, <2>9
    DEF Turns, role, c, n, e, Busy
<1> QED
  BY <1>2, <1>13, <1>14

\* The messages, the moderators and the resolvers ask for rows, and no more; a release,
\* for the owner of the role.
LEMMA SideBooks ==
  ASSUME RoleInv, Books, SideStep
  PROVE  Books'
<1>1. UNCHANGED <<exec, role>> /\ \A d \in Case : Asked(d)
  BY DEF SideStep
<1>2. \A w \in Worker : Busy(w) => exec[w].case \in Case
  BY DEF RoleInv, Bound, Placed
<1>3. /\ Pending.status = "pending"
  BY DEF Pending, NoRow
<1>4. ASSUME NEW d \in Case
      PROVE  /\ apply[d].status # "none" => apply'[d] = apply[d]
             /\ release[d].status # "none" => release'[d] = release[d]
             /\ apply'[d].status = "running" => apply[d].status = "running"
             /\ release[d].status = "none" /\ release'[d].status # "none" =>
                   owner = d /\ release'[d].status = "pending"
             /\ apply'[d].status \in {"none", "pending", "failed"} =>
                   apply[d].status \in {"none", "pending", "failed"}
  BY <1>1, <1>3 DEF Asked
<1>5. ASSUME NEW w \in Worker
      PROVE  /\ Busy(w)' <=> Busy(w)
             /\ Applying(w)' <=> Applying(w)
             /\ Releasing(w)' <=> Releasing(w)
             /\ Early(w)' <=> Early(w)
  BY <1>1 DEF Busy, Applying, Releasing, Early
<1>6. ClaimsKept'
  <2>1. \A w \in Worker : Busy(w)' => exec'[w].claim > 0
    BY <1>1, <1>5 DEF Books, ClaimsKept
  <2>2. ASSUME NEW w \in Worker, Busy(w)', exec'[w].kind = "apply"
        PROVE  Held(apply'[exec'[w].case], exec'[w].claim)
    <3>1. exec'[w] = exec[w] /\ Held(apply[exec[w].case], exec[w].claim) /\ exec[w].case \in Case
      BY <1>1, <1>2, <1>5, <2>2 DEF Books, ClaimsKept
    <3> QED
      BY <1>4, <3>1 DEF Held
  <2>3. ASSUME NEW w \in Worker, exec'[w].outer > 0
        PROVE  Held(apply'[exec'[w].case], exec'[w].outer)
    <3>1. exec'[w] = exec[w] /\ Held(apply[exec[w].case], exec[w].outer)
      BY <1>1, <2>3 DEF Books, ClaimsKept
    <3>2. exec[w].case \in Case
      BY <1>1, <1>2, <2>3 DEF RoleInv, Bound, Placed, Idle
    <3> QED
      BY <1>4, <3>1, <3>2 DEF Held
  <2>4. ASSUME NEW w \in Worker, Releasing(w)'
        PROVE  Held(release'[exec'[w].case], exec'[w].claim)
    <3>1. exec'[w] = exec[w] /\ Held(release[exec[w].case], exec[w].claim) /\ exec[w].case \in Case
      BY <1>1, <1>2, <1>5, <2>4 DEF Books, ClaimsKept, Releasing
    <3> QED
      BY <1>4, <3>1 DEF Held
  <2>5. ASSUME NEW v \in Worker, NEW w \in Worker, exec'[v].case = exec'[w].case
        PROVE  /\ Applying(v)' /\ Applying(w)' => v = w
               /\ Releasing(v)' /\ Releasing(w)' => v = w
    <3>1. exec[v].case = exec[w].case
      BY <1>1, <2>5
    <3> QED
      BY <1>5, <3>1 DEF Books, ClaimsKept
  <2>6. ASSUME NEW d \in Case, apply'[d].status = "running"
        PROVE  \E w \in Worker : Applying(w)' /\ exec'[w].case = d
    <3>1. PICK w \in Worker : Applying(w) /\ exec[w].case = d
      BY <1>4, <2>6 DEF Books, ClaimsKept
    <3> QED
      BY <1>1, <1>5, <3>1
  <2> QED
    BY <2>1, <2>2, <2>3, <2>4, <2>5, <2>6 DEF ClaimsKept
<1>7. OwnedOnce'
  <2>1. ASSUME NEW d \in Case, apply'[d].status \in {"none", "pending", "failed"}
        PROVE  owner' # d /\ release'[d].status = "none"
    <3>1. owner # d /\ release[d].status = "none"
      BY <1>4, <2>1 DEF Books, OwnedOnce
    <3> QED
      BY <1>1, <1>4, <3>1 DEF role
  <2>2. ASSUME NEW w \in Worker, Early(w)'
        PROVE  owner' # exec'[w].case /\ release'[exec'[w].case].status = "none"
    <3>1. Early(w) /\ exec'[w] = exec[w] /\ exec[w].case \in Case
      BY <1>1, <1>2, <1>5, <2>2 DEF Early, Busy
    <3>2. owner # exec[w].case /\ release[exec[w].case].status = "none"
      BY <3>1 DEF Books, OwnedOnce
    <3> QED
      BY <1>1, <1>4, <3>1, <3>2 DEF role
  <2>3. ASSUME NEW d \in Case, owner' = d, release'[d].status # "none"
        PROVE  Unfinished(release'[d])
    <3>1. owner = d
      BY <1>1, <2>3 DEF role
    <3> QED
      BY <1>4, <2>3, <3>1 DEF Books, OwnedOnce, Unfinished
  <2>4. \A w \in Worker : Releasing(w)' /\ exec'[w].stage = "settle" /\ ~exec'[w].failed =>
           owner' # exec'[w].case
    BY <1>1, <1>5 DEF Books, OwnedOnce, role
  <2> QED
    BY <2>1, <2>2, <2>3, <2>4 DEF OwnedOnce
<1>8. Accounted'
  <2>1. ASSUME NEW w \in Worker, exec[w].stage \in {"add", "record"}
        PROVE  apply'[exec[w].case].effect
    <3>1. apply[exec[w].case].effect /\ exec[w].case \in Case
      BY <1>2, <2>1 DEF Books, Accounted, Busy
    <3>2. apply[exec[w].case].status # "none"
      BY <2>1 DEF RoleInv, Bound, Placed, Applying, Busy
    <3> QED
      BY <1>4, <3>1, <3>2
  <2> QED
    BY <1>1, <2>1 DEF Books, Accounted, role
<1> QED
  BY <1>6, <1>7, <1>8 DEF Books

\* A step that is no fault keeps the books.
LEMMA BooksStep ==
  ASSUME RoleInv, faults = 0 => Books, [Next]_vars
  PROVE  faults' = 0 => Books'
<1> SUFFICES ASSUME faults' = 0 PROVE Books'
  OBVIOUS
<1>1. ~Fault /\ faults = 0
  BY NoFaultStep
<1>2. Books
  BY <1>1
<1>3. ASSUME NEW c \in Case, Message(c) \/ Moderate(c) \/ Expires(c) \/ GoStale(c) PROVE Books'
  BY <1>2, <1>3, MessageSide, ModeratorSide, SideBooks
<1>4. ASSUME NEW r \in Resolver, Resolve(r) PROVE Books'
  BY <1>2, <1>4, ResolverSide, SideBooks
<1>5. ASSUME NEW w \in Worker, Execute(w) PROVE Books'
  <2>1. Busy(w) => exec[w].case \in Case
    BY DEF RoleInv, Bound, Placed
  <2>2. ~(AddFails(w) \/ RemoveFails(w) \/ HandlerRaises(w))
    BY <1>1 DEF AddFails, RemoveFails, HandlerRaises
  <2>3. ASSUME NEW kind \in {"apply", "release"}, NEW c \in Case, ClaimRole(w, kind, c)
        PROVE  Books'
    BY <1>1, <1>2, <2>3, ClaimTurns, TurnKeeps
  <2>4. CASE Settle(w) \/ NestRelease(w)
    <3>1. exec[w].case \in Case
      BY <2>1, <2>4 DEF Settle, NestRelease, Busy
    <3> QED
      BY <1>2, <2>4, <3>1, SettleTurns, NestBooks, TurnKeeps, WorkKeeps
  <2>5. CASE \/ Load(w) \/ AddRole(w) \/ RecordOwnership(w)
             \/ ApplySuperseded(w) \/ ApplyStarts(w) \/ ApplyAmbiguous(w) \/ ApplyReconciles(w)
             \/ ReleaseMoot(w) \/ ReleaseStarts(w) \/ RemoveRole(w) \/ Disown(w)
    BY <1>2, <2>5, LoadWorks, AddWorks, RecordWorks, ApplyWorks, ReleaseWorks, WorkKeeps
  <2> QED
    BY <1>5, <2>2, <2>3, <2>4, <2>5 DEF Execute
<1>6. CASE RoleChanges \/ Crash
  BY <1>1, <1>6 DEF RoleChanges, Crash
<1>7. CASE UNCHANGED vars
  <2>1. SideStep
    BY <1>7, QuietSide DEF vars, rows, running, Kept
  <2> QED
    BY <1>2, <2>1, SideBooks
<1> QED
  BY <1>3, <1>4, <1>5, <1>6, <1>7 DEF Next

\* Until a call fails or the process ends, no containment role is forgotten
\* (record_operation_role_ownership, finish_resolution, release_role_ownership): one that
\* a case put on has an owner or the moderators' attention, and a closed case that owns
\* one has its release queued.
THEOREM RoleKeptTrackOf == Spec => [](faults = 0 => RoleAccounted)
<1>1. Init => NoFaultInv
  <2> SUFFICES ASSUME Init PROVE Books
    BY DEF NoFaultInv, Books
  <2>1. \A w \in Worker : exec[w] = Idle /\ Idle.stage = "idle" /\ Idle.outer = 0
    BY DEF Init, Idle
  <2>2. \A c \in Case : apply[c] = NoRow /\ release[c] = NoRow /\ NoRow.status = "none" /\ owner # c
    BY NoCaseAssumption DEF Init, NoRow
  <2>3. ClaimsKept
    BY <2>1, <2>2 DEF ClaimsKept, Busy, Applying, Releasing
  <2>4. OwnedOnce
    BY <2>1, <2>2 DEF OwnedOnce, Early, Releasing, Busy
  <2>5. Accounted
    BY <2>1 DEF Init, Accounted
  <2> QED
    BY <2>3, <2>4, <2>5 DEF Books
<1>2. RoleInv /\ NoFaultInv /\ [Next]_vars => NoFaultInv'
  BY BooksStep DEF NoFaultInv, Books
<1>3. RoleInv /\ NoFaultInv => (faults = 0 => RoleAccounted)
  <2> SUFFICES ASSUME RoleInv, Books PROVE RoleAccounted
    BY DEF NoFaultInv, Books
  <2>1. ASSUME NEW w \in Worker, exec[w].stage = "record"
        PROVE  \E c \in Case : apply[c].effect /\ Unfinished(apply[c])
    <3>1. Busy(w) /\ exec[w].kind = "apply" /\ exec[w].case \in Case
      BY <2>1 DEF RoleInv, Bound, Placed, Busy
    <3>2. apply[exec[w].case].effect /\ Held(apply[exec[w].case], exec[w].claim)
      BY <2>1, <3>1 DEF Books, Accounted, ClaimsKept
    <3> QED
      BY <3>1, <3>2 DEF Held, Unfinished
  <2>2. AddedRoleAccounted
    BY <2>1 DEF Books, Accounted, AddedRoleAccounted
  <2>3. RoleReleasedAtTheEnd
    BY DEF RoleInv, Queued, Books, OwnedOnce, RoleReleasedAtTheEnd
  <2> QED
    BY <2>2, <2>3 DEF RoleAccounted
<1> QED
  BY <1>1, <1>2, <1>3, RoleInvariance, PTL DEF Spec
=============================================================================
