------------------------ MODULE GateIncrementProofs ------------------------
(***************************************************************************)
(* Proofs about GateIncrement, for any users, messages, handlers, tiers    *)
(* and bounds.                                                             *)
(*                                                                         *)
(* Earned once: the active awards of a user whom nobody else has changed   *)
(* are numbered 1 to n and at most one more is pending, n + 1 (Progress).  *)
(* A plan is claimed only when it agrees with the active awards, so the    *)
(* next free ordinal is the next tier (NextFree); who has the lease of the *)
(* message edits and completes its rows, and no other (Worked).            *)
(*                                                                         *)
(* Told: who has the publication writes the message, and the counts are    *)
(* never ahead of the rows (Publishing, Told): a count that was read late  *)
(* is published too low and leaves the message to be published again.      *)
(***************************************************************************)
EXTENDS GateIncrement, Integers, FiniteSetTheorems, WellFoundedInduction, TLAPS

-----------------------------------------------------------------------------
(* The least ordinal that is not in use *)

\* A set of numbers that is not empty has a least one.
LEMMA Least ==
  ASSUME NEW T \in SUBSET Nat, T # {}
  PROVE  \E i \in T : \A j \in T : i <= j
<1> DEFINE R == OpToRel(<, Nat)
<1>1. IsWellFoundedOn(R, Nat)
  BY NatLessThanWellFounded
<1>2. R = {ss \in Nat \X Nat : ss[1] < ss[2]}
  BY DEF OpToRel
<1> HIDE DEF R
<1>3. PICK i \in T : \A j \in T : <<j, i>> \notin R
  BY <1>1, WFMin
<1>4. ASSUME NEW j \in T
      PROVE  i <= j
  <2>1. <<j, i>> \notin R /\ i \in Nat /\ j \in Nat
    BY <1>3
  <2>2. ~(j < i)
    BY <1>2, <2>1
  <2> QED
    BY <2>1, <2>2
<1> QED
  BY <1>3, <1>4

\* A finite set of ordinals leaves one free, and all before it are used.
LEMMA NextFree ==
  ASSUME NEW used, IsFiniteSet(used)
  PROVE  /\ NextOrdinal(used) \in 1..(Cardinality(used) + 1)
         /\ NextOrdinal(used) \notin used
         /\ \A j \in 1..(NextOrdinal(used) - 1) : j \in used
<1> DEFINE c == Cardinality(used)
           free == {i \in 1..(c + 1) : i \notin used}
<1>1. c \in Nat
  BY FS_CardinalityType
<1>2. free # {}
  <2> SUFFICES ASSUME 1..(c + 1) \subseteq used
               PROVE  FALSE
    OBVIOUS
  <2> HIDE DEF c
  <2>1. Cardinality(1..(c + 1)) = c + 1
    BY <1>1, FS_Interval
  <2>2. Cardinality(1..(c + 1)) <= Cardinality(used)
    BY FS_Subset
  <2> QED
    BY <1>1, <2>1, <2>2 DEF c
<1>3. free \subseteq Nat
  OBVIOUS
<1>4. PICK i \in free : \A j \in free : i <= j
  BY <1>2, <1>3, Least
<1>5. i \in 1..(c + 1) /\ i \notin used /\ \A j \in 1..(i - 1) : j \in used
  <2> HIDE DEF c
  <2> QED
    BY <1>1, <1>4
<1>6. \E k \in 1..(Cardinality(used) + 1) : k \notin used /\ \A j \in 1..(k - 1) : j \in used
  BY <1>5
<1> QED
  BY <1>6 DEF NextOrdinal

\* The numbers up to n + 1 are those up to n and n + 1.
LEMMA OneMore ==
  ASSUME NEW n \in Nat
  PROVE  1..(n + 1) = 1..n \cup {n + 1}
OBVIOUS

\* After 1, 2, ..., n comes n + 1.
LEMMA NextAfter ==
  ASSUME NEW n \in Nat
  PROVE  NextOrdinal(1..n) = n + 1
<1>1. IsFiniteSet(1..n) /\ Cardinality(1..n) = n
  BY FS_Interval
<1>2. NextOrdinal(1..n) \in 1..(n + 1) /\ NextOrdinal(1..n) \notin 1..n
  BY <1>1, NextFree
<1> QED
  BY <1>2

-----------------------------------------------------------------------------
(* Handlers and their records *)

Plans == UNION {[S -> Tiers] : S \in SUBSET Gated}
HandlerStep == {"idle", "claim", "lease", "run", "fetch", "edit", "mark", "log", "logged",
                "publish", "read", "deliver", "record"}
HandlerState ==
  [step : HandlerStep, of : Source \cup {NoSource}, confirms : BOOLEAN, only : SUBSET Gated,
   ordinal : Plans, expected : Plans, extra : BOOLEAN, todo : SUBSET Gated,
   unnamed : SUBSET Gated, user : SUBSET Gated,
   outcome : {"none", "edit", "completed", "failed", "conflict"}, unlogged : SUBSET Gated,
   behind : BOOLEAN, count : Nat, lines : SUBSET Gated]

\* A handler at work has a message, and one that confirms a tier for each user.
WellFormed(r) ==
  /\ r \in HandlerState
  /\ r.step # "idle" => r.of \in Source
  /\ r.step = "claim" => /\ r.ordinal \in [r.only -> 1..MaxTier]
                         /\ r.expected \in [r.only -> 0..(MaxTier - 1)]

HandlersOK == handler \in [Handler -> HandlerState] /\ \A h \in Handler : WellFormed(handler[h])
OthersStay(h) == \A k \in Handler \ {h} : handler'[k] = handler[k]

\* A function of users to tiers is a plan, and so is the empty one.
LEMMA PlanOf ==
  ASSUME NEW S \in SUBSET Gated, NEW f \in [S -> Tiers]
  PROVE  f \in Plans
BY DEF Plans

\* The empty function is a plan.
LEMMA NoPlan == <<>> \in Plans
<1>1. <<>> \in [{} -> Tiers]
  OBVIOUS
<1> QED
  BY <1>1, PlanOf

\* The record of an idle handler is well formed.
LEMMA IdleFields ==
  /\ WellFormed(Idle) /\ Idle.step = "idle"
BY NoPlan DEF Idle, WellFormed, HandlerState, HandlerStep

\* A handler takes another record and the others keep theirs.
LEMMA Went ==
  ASSUME HandlersOK, NEW h \in Handler, NEW r, WellFormed(r), Goto(h, r)
  PROVE  HandlersOK' /\ handler'[h] = r /\ OthersStay(h)
BY DEF HandlersOK, WellFormed, Goto, OthersStay

\* The records a handler starts with: what a moderator confirms, who goes for the lease,
\* who has it, and who has only the log and the message left.
ToConfirm(m, users, extra, e, o) ==
  [Idle EXCEPT !.step = "claim", !.of = m, !.confirms = TRUE, !.only = users, !.extra = extra,
               !.expected = e, !.ordinal = o]
ToLease(m, only) == [Idle EXCEPT !.step = "lease", !.of = m, !.only = only]
ToLeaseOwn(m, only) ==
  [Idle EXCEPT !.step = "lease", !.of = m, !.confirms = TRUE, !.only = only]
ToRun(m, todo, unnamed) ==
  [Idle EXCEPT !.step = "run", !.of = m, !.todo = todo, !.unnamed = unnamed]
ToLog(m, unlogged, behind) ==
  [Idle EXCEPT !.step = "log", !.of = m, !.unlogged = unlogged, !.behind = behind]

\* A handler that confirms has its plan.
LEMMA Confirming ==
  ASSUME NEW m \in Source, NEW users \in SUBSET Gated, NEW extra \in BOOLEAN,
         NEW e \in [users -> 0..(MaxTier - 1)], NEW o \in [users -> 1..MaxTier]
  PROVE  LET r == ToConfirm(m, users, extra, e, o) IN
         /\ WellFormed(r) /\ r.step = "claim" /\ r.of = m /\ r.only = users
         /\ r.expected = e /\ r.ordinal = o
<1>1. e \in Plans /\ o \in Plans
  <2>1. MaxTier \in Nat \ {0}
    BY GateAssumption
  <2>2. e \in [users -> Tiers] /\ o \in [users -> Tiers]
    BY <2>1 DEF Tiers
  <2> QED
    BY <2>2, PlanOf
<1> QED
  BY <1>1, NoPlan DEF ToConfirm, Idle, WellFormed, HandlerState, HandlerStep

\* A handler that goes for the lease has nothing but the message and the users it wants.
LEMMA Leasing ==
  ASSUME NEW m \in Source, NEW only \in SUBSET Gated
  PROVE  /\ WellFormed(ToLease(m, only)) /\ ToLease(m, only).step = "lease"
         /\ WellFormed(ToLeaseOwn(m, only)) /\ ToLeaseOwn(m, only).step = "lease"
BY NoPlan DEF ToLease, ToLeaseOwn, Idle, WellFormed, HandlerState, HandlerStep

\* A handler with the lease has the users to edit and those to give up.
LEMMA Running ==
  ASSUME NEW m \in Source, NEW todo \in SUBSET Gated, NEW unnamed \in SUBSET Gated
  PROVE  LET r == ToRun(m, todo, unnamed) IN
         /\ WellFormed(r) /\ r.step = "run" /\ r.of = m /\ r.todo = todo /\ r.unnamed = unnamed
         /\ r.user = {}
BY NoPlan DEF ToRun, Idle, WellFormed, HandlerState, HandlerStep

\* A handler that comes for the log only has the message.
LEMMA Logging ==
  ASSUME NEW m \in Source, NEW unlogged \in SUBSET Gated, NEW behind \in BOOLEAN
  PROVE  WellFormed(ToLog(m, unlogged, behind)) /\ ToLog(m, unlogged, behind).step = "log"
BY NoPlan DEF ToLog, Idle, WellFormed, HandlerState, HandlerStep

\* What becomes of a record r: it begins with a user, decides about him, has tried, and
\* goes on; it is through with the users; it publishes.
Unnaming(r, u) ==
  [r EXCEPT !.step = "mark", !.user = {u}, !.outcome = "conflict", !.unnamed = @ \ {u}]
Fetching(r, u) == [r EXCEPT !.step = "fetch", !.user = {u}, !.todo = @ \ {u}]
Decided(r, step, outcome, lines) ==
  [r EXCEPT !.step = step, !.outcome = outcome, !.lines = lines]
Tried(r, outcome) == [r EXCEPT !.step = "mark", !.outcome = outcome]
GoneOn(r) == [r EXCEPT !.step = "run", !.user = {}, !.outcome = "none", !.lines = {}]
Through(r, unlogged, behind) ==
  [r EXCEPT !.step = "log", !.unlogged = unlogged, !.behind = behind]
Stepped(r, step) == [r EXCEPT !.step = step]
LogDone(r) == [r EXCEPT !.step = "publish", !.unlogged = {}]
HasRead(r, lines, count) == [r EXCEPT !.step = "deliver", !.lines = lines, !.count = count]

SameUsers(n, r) == n.of = r.of /\ n.todo = r.todo /\ n.unnamed = r.unnamed

\* A handler takes one user in hand, out of those it has before it.
LEMMA Working ==
  ASSUME NEW r, WellFormed(r), r.step = "run", NEW u \in Gated
  PROVE  /\ LET n == Unnaming(r, u) IN
            /\ WellFormed(n) /\ n.step = "mark" /\ n.of = r.of /\ n.user = {u}
            /\ n.todo = r.todo /\ n.unnamed = r.unnamed \ {u} /\ n.outcome = "conflict"
         /\ LET n == Fetching(r, u) IN
            /\ WellFormed(n) /\ n.step = "fetch" /\ n.of = r.of /\ n.user = {u}
            /\ n.todo = r.todo \ {u} /\ n.unnamed = r.unnamed
<1>1. LET n == Unnaming(r, u) IN
      /\ WellFormed(n) /\ n.step = "mark" /\ n.of = r.of /\ n.user = {u}
      /\ n.todo = r.todo /\ n.unnamed = r.unnamed \ {u} /\ n.outcome = "conflict"
  BY DEF Unnaming, WellFormed, HandlerState, HandlerStep
<1>2. LET n == Fetching(r, u) IN
      /\ WellFormed(n) /\ n.step = "fetch" /\ n.of = r.of /\ n.user = {u}
      /\ n.todo = r.todo \ {u} /\ n.unnamed = r.unnamed
  BY DEF Fetching, WellFormed, HandlerState, HandlerStep
<1> QED
  BY <1>1, <1>2

\* After the member is fetched the users it works on stay.
LEMMA Deciding ==
  ASSUME NEW r, WellFormed(r), r.step # "idle", NEW s \in {"edit", "mark"},
         NEW outcome \in {"edit", "completed", "failed", "conflict"}, NEW lines \in SUBSET Gated
  PROVE  LET n == Decided(r, s, outcome, lines) IN
         /\ WellFormed(n) /\ n.step = s /\ SameUsers(n, r) /\ n.user = r.user
         /\ n.outcome = outcome
BY DEF Decided, SameUsers, WellFormed, HandlerState, HandlerStep

\* So they do after the edit.
LEMMA Trying ==
  ASSUME NEW r, WellFormed(r), r.step # "idle",
         NEW outcome \in {"edit", "completed", "failed", "conflict"}
  PROVE  LET n == Tried(r, outcome) IN
         /\ WellFormed(n) /\ n.step = "mark" /\ SameUsers(n, r) /\ n.user = r.user
         /\ n.outcome = outcome
BY DEF Tried, SameUsers, WellFormed, HandlerState, HandlerStep

\* It goes on with nobody in hand.
LEMMA GoingOn ==
  ASSUME NEW r, WellFormed(r), r.step # "idle"
  PROVE  LET n == GoneOn(r) IN
         WellFormed(n) /\ n.step = "run" /\ SameUsers(n, r) /\ n.user = {}
BY DEF GoneOn, SameUsers, WellFormed, HandlerState, HandlerStep

\* It is through with the users, and then with the log.
LEMMA Ending ==
  ASSUME NEW r, WellFormed(r), r.step # "idle", NEW unlogged \in SUBSET Gated,
         NEW behind \in BOOLEAN
  PROVE  /\ WellFormed(Through(r, unlogged, behind)) /\ Through(r, unlogged, behind).step = "log"
         /\ WellFormed(LogDone(r)) /\ LogDone(r).step = "publish"
<1>1. WellFormed(Through(r, unlogged, behind)) /\ Through(r, unlogged, behind).step = "log"
  BY DEF Through, WellFormed, HandlerState, HandlerStep
<1>2. WellFormed(LogDone(r)) /\ LogDone(r).step = "publish"
  BY DEF LogDone, WellFormed, HandlerState, HandlerStep
<1> QED
  BY <1>1, <1>2

\* It goes to the next step of the publication with what it has read.
LEMMA Stepping ==
  ASSUME NEW r, WellFormed(r), r.step # "idle", NEW s \in {"logged", "publish", "read", "record"}
  PROVE  LET n == Stepped(r, s) IN
         WellFormed(n) /\ n.step = s /\ n.of = r.of /\ n.lines = r.lines /\ n.count = r.count
BY DEF Stepped, WellFormed, HandlerState, HandlerStep

\* It reads the lines and the count it will publish.
LEMMA Reading ==
  ASSUME NEW r, WellFormed(r), r.step # "idle", NEW lines \in SUBSET Gated, NEW count \in Nat
  PROVE  LET n == HasRead(r, lines, count) IN
         /\ WellFormed(n) /\ n.step = "deliver" /\ n.of = r.of
         /\ n.lines = lines /\ n.count = count
BY DEF HasRead, WellFormed, HandlerState, HandlerStep

-----------------------------------------------------------------------------
(* Rows *)

OperationState == [state : {"none", "applying", "partial", "completed"},
                   completed : Nat, published : Nat, result : BOOLEAN,
                   lease : Handler \cup {NoHandler}, publication : Handler \cup {NoHandler}]
RowState == [state : MemberState, known : BOOLEAN, expected : Tiers, target : Tiers,
             extra : BOOLEAN, logged : BOOLEAN]
BonusState == [of : Source \cup {NoSource}, state : {"none", "pending", "active"}]
AwardState == [state : {"none", "pending", "active"}, ordinal : Tiers]

\* The parts of the type invariant.
LEMMA TypeParts ==
  TypeOK <=>
    /\ operation \in [Source -> OperationState]
    /\ granted \in [Source -> [Gated -> RowState]]
    /\ award \in [Source -> [Gated -> AwardState]]
    /\ bonus \in [Gated -> BonusState]
    /\ gates \in [Gated -> SUBSET (1..MaxTier)]
    /\ badge \in [Gated -> BOOLEAN]
    /\ congrats \in [Source -> SUBSET Gated]
    /\ unrecovered \subseteq Source /\ loaded \in BOOLEAN /\ moved \subseteq Gated
BY Zenon DEF TypeOK, OperationState, RowState, AwardState, BonusState

\* The same after a step.
LEMMA TypePartsNext ==
  TypeOK' <=>
    /\ operation' \in [Source -> OperationState]
    /\ granted' \in [Source -> [Gated -> RowState]]
    /\ award' \in [Source -> [Gated -> AwardState]]
    /\ bonus' \in [Gated -> BonusState]
    /\ gates' \in [Gated -> SUBSET (1..MaxTier)]
    /\ badge' \in [Gated -> BOOLEAN]
    /\ congrats' \in [Source -> SUBSET Gated]
    /\ unrecovered' \subseteq Source /\ loaded' \in BOOLEAN /\ moved' \subseteq Gated
BY Zenon DEF TypeOK, OperationState, RowState, AwardState, BonusState

OtherOperations(m) == \A n \in Source \ {m} : operation'[n] = operation[n]
OtherRows(m, u) ==
  \A n \in Source, v \in Gated : <<n, v>> # <<m, u>> => granted'[n][v] = granted[n][v]
OtherAwards(m, u) ==
  \A n \in Source, v \in Gated : <<n, v>> # <<m, u>> => award'[n][v] = award[n][v]

\* What of an operation the leases do not touch.
CountsStay(m) == /\ operation'[m].state = operation[m].state
                 /\ operation'[m].completed = operation[m].completed
                 /\ operation'[m].published = operation[m].published
                 /\ operation'[m].result = operation[m].result

\* A lease is taken or given back.
LEMMA LeaseSet ==
  ASSUME operation \in [Source -> OperationState], NEW m \in Source,
         NEW who \in Handler \cup {NoHandler}, operation' = [operation EXCEPT ![m].lease = who]
  PROVE  /\ operation' \in [Source -> OperationState] /\ OtherOperations(m) /\ CountsStay(m)
         /\ operation'[m].lease = who /\ operation'[m].publication = operation[m].publication
BY DEF OperationState, OtherOperations, CountsStay

\* So is a publication.
LEMMA PublicationSet ==
  ASSUME operation \in [Source -> OperationState], NEW m \in Source,
         NEW who \in Handler \cup {NoHandler},
         operation' = [operation EXCEPT ![m].publication = who]
  PROVE  /\ operation' \in [Source -> OperationState] /\ OtherOperations(m) /\ CountsStay(m)
         /\ operation'[m].publication = who /\ operation'[m].lease = operation[m].lease
BY DEF OperationState, OtherOperations, CountsStay

\* An operation is applied again.
LEMMA Applying ==
  ASSUME operation \in [Source -> OperationState], NEW m \in Source,
         operation' = [operation EXCEPT ![m].state = "applying"]
  PROVE  /\ operation' \in [Source -> OperationState] /\ OtherOperations(m)
         /\ operation'[m].state = "applying"
         /\ operation'[m].completed = operation[m].completed
         /\ operation'[m].published = operation[m].published
         /\ operation'[m].lease = operation[m].lease
         /\ operation'[m].publication = operation[m].publication
BY DEF OperationState, OtherOperations

\* An operation that ends counts its completed rows and gives the lease back.
LEMMA Counted ==
  ASSUME operation \in [Source -> OperationState], NEW m \in Source,
         NEW state \in {"completed", "partial"}, NEW count \in Nat,
         operation' = [operation EXCEPT ![m].state = state, ![m].completed = count,
                                        ![m].lease = NoHandler]
  PROVE  /\ operation' \in [Source -> OperationState] /\ OtherOperations(m)
         /\ operation'[m].state = state /\ operation'[m].completed = count
         /\ operation'[m].lease = NoHandler
         /\ operation'[m].published = operation[m].published
         /\ operation'[m].publication = operation[m].publication
BY ZenonT(60) DEF OperationState, OtherOperations

\* A publication that ends records how much it told, and is given back.
LEMMA Published ==
  ASSUME operation \in [Source -> OperationState], NEW m \in Source, NEW count \in Nat,
         operation' = [operation EXCEPT ![m].result = TRUE, ![m].publication = NoHandler,
                                        ![m].published = count]
  PROVE  /\ operation' \in [Source -> OperationState] /\ OtherOperations(m)
         /\ operation'[m].state = operation[m].state
         /\ operation'[m].completed = operation[m].completed
         /\ operation'[m].lease = operation[m].lease
         /\ operation'[m].published = count /\ operation'[m].publication = NoHandler
BY ZenonT(60) DEF OperationState, OtherOperations

\* The row of a user changes its state.
LEMMA RowSet ==
  ASSUME granted \in [Source -> [Gated -> RowState]], NEW m \in Source, NEW u \in Gated,
         NEW state \in MemberState, granted' = [granted EXCEPT ![m][u].state = state]
  PROVE  /\ granted' \in [Source -> [Gated -> RowState]] /\ OtherRows(m, u)
         /\ granted'[m][u].state = state
         /\ granted'[m][u].known = granted[m][u].known
         /\ granted'[m][u].target = granted[m][u].target
BY DEF RowState, OtherRows

\* His pending award becomes active.
LEMMA Activated ==
  ASSUME award \in [Source -> [Gated -> AwardState]], NEW m \in Source, NEW u \in Gated,
         award' = [award EXCEPT ![m][u].state = "active"]
  PROVE  /\ award' \in [Source -> [Gated -> AwardState]] /\ OtherAwards(m, u)
         /\ award'[m][u].state = "active"
         /\ award'[m][u].ordinal = award[m][u].ordinal
BY DEF AwardState, OtherAwards

-----------------------------------------------------------------------------
(* The inductive invariant *)

ActiveIn(u) == {m \in Source : award[m][u].state = "active"}
PendingIn(u) == {m \in Source : award[m][u].state = "pending"}
Count(u) == Cardinality(ActiveIn(u))
Done(m) == InState(m, "completed")

\* Unless someone else has changed them, a user's rows and awards go together, his active
\* awards are numbered without a gap, at most one more is pending, the next one, and his
\* role is that of the active ones, or that of the pending one whose row was begun.
RowFits(m, u) ==
  /\ granted[m][u].state = "none" <=> award[m][u].state = "none"
  /\ granted[m][u].state = "completed" <=> award[m][u].state = "active"
  /\ granted[m][u].state # "none" => granted[m][u].known
OnePending(u) ==
  \A m \in PendingIn(u) :
    /\ award[m][u].ordinal = Count(u) + 1 /\ granted[m][u].target = Count(u) + 1
    /\ \A k \in PendingIn(u) : k = m
RoleFits(u) ==
  \/ gates[u] = {Count(u)} \ {0}
  \/ gates[u] = {Count(u) + 1} /\ \E m \in PendingIn(u) : granted[m][u].state # "pending"
Progress(u) ==
  /\ OrdinalsOf(u, {"active"}) = 1..Count(u)
  /\ OnePending(u) /\ RoleFits(u)
  /\ \A m \in Source : RowFits(m, u)

\* A handler that works on users holds the lease of the message; the rows it has before it
\* are unfinished, and an edit it took for done has been done.
Leased(h) == handler[h].step \in {"run", "fetch", "edit", "mark"}
Worked(h) ==
  Leased(h) =>
    LET r == handler[h] IN
    /\ operation[r.of].lease = h
    /\ \A u \in r.todo \cup r.unnamed \cup r.user :
         granted[r.of][u].state \notin {"none", "completed"}
    /\ r.todo \cap r.unnamed = {} /\ r.user \cap (r.todo \cup r.unnamed) = {}
    /\ r.step = "run" => r.user = {}
    /\ r.step # "run" => \E u \in Gated : r.user = {u} /\ granted[r.of][u].state = "in_progress"
    /\ r.step = "mark" => r.outcome \in {"completed", "failed", "conflict"}
    /\ r.step = "mark" /\ r.outcome = "completed" =>
         \A u \in r.user \ moved : gates[u] = {granted[r.of][u].target}

\* A plan that is confirmed goes one tier beyond what was active, which only grows; no row
\* of its users was redacted.
Planned(h) ==
  handler[h].step = "claim" =>
    LET r == handler[h] IN
    \A u \in r.only :
      /\ granted[r.of][u].state = "none" \/ granted[r.of][u].known
      /\ u \notin moved => r.ordinal[u] = r.expected[u] + 1 /\ r.expected[u] <= Count(u)

\* A handler that publishes holds the publication, and has news; the lines it has read are
\* all there is if nobody was completed since.
Publishes(h) == handler[h].step \in {"read", "deliver", "record"}
Publishing(h) ==
  Publishes(h) =>
    LET r == handler[h] IN
    /\ operation[r.of].publication = h
    /\ operation[r.of].published < operation[r.of].completed
    /\ r.step # "read" =>
         /\ r.count <= operation[r.of].completed /\ r.lines \subseteq Done(r.of)
         /\ r.count = Cardinality(Done(r.of)) => r.lines \ moved = Done(r.of) \ moved
    /\ r.step = "record" => congrats[r.of] = r.lines

\* The counts of a message are never ahead of its rows.
Told(m) ==
  /\ operation[m].state = "none" => /\ operation[m].lease = NoHandler
                                    /\ operation[m].publication = NoHandler
  /\ operation[m].published <= operation[m].completed
  /\ operation[m].completed <= Cardinality(Done(m))
  /\ operation[m].published = Cardinality(Done(m)) => congrats[m] \ moved = Done(m) \ moved

TargetsFit ==
  \A m \in Source, u \in Gated :
    granted[m][u].state \notin {"none", "completed"} => granted[m][u].target \in 1..MaxTier
AtRest == ~loaded => \A h \in Handler : handler[h] = Idle

IInv ==
  /\ TypeOK /\ HandlersOK /\ TargetsFit /\ AtRest
  /\ \A h \in Handler : Worked(h) /\ Planned(h) /\ Publishing(h)
  /\ \A m \in Source : Told(m)
  /\ \A u \in Gated \ moved : Progress(u)

-----------------------------------------------------------------------------
(* What a step leaves alone stays as the invariant says *)

\* The completed rows of a message are finitely many, before and after a step.
LEMMA DoneFinite ==
  ASSUME NEW m \in Source
  PROVE  /\ Done(m) \subseteq Gated /\ IsFiniteSet(Done(m)) /\ Cardinality(Done(m)) \in Nat
         /\ IsFiniteSet(Done(m)') /\ Cardinality(Done(m)') \in Nat
<1>1. Done(m) \subseteq Gated /\ Done(m)' \subseteq Gated
  BY DEF Done, InState
<1>2. IsFiniteSet(Done(m)) /\ IsFiniteSet(Done(m)')
  BY <1>1, GateAssumption, FS_Subset
<1> QED
  BY <1>1, <1>2, FS_CardinalityType

\* Of two finite sets as large as each other, one in the other, neither has more.
LEMMA DoneGrown ==
  ASSUME NEW m \in Source, Done(m) \subseteq Done(m)'
  PROVE  /\ Cardinality(Done(m)) <= Cardinality(Done(m)')
         /\ Cardinality(Done(m)) = Cardinality(Done(m)') => Done(m)' = Done(m)
BY DoneFinite, FS_Subset

\* A handler that stands still keeps its work if the lease, the rows of the message and the
\* roles of who is in hand stay.
LEMMA WorkedKept ==
  ASSUME NEW h \in Handler, Worked(h), handler'[h] = handler[h], moved \subseteq moved',
         Leased(h) => /\ operation'[handler[h].of].lease = operation[handler[h].of].lease
                      /\ \A u \in Gated : granted'[handler[h].of][u].state
                                          = granted[handler[h].of][u].state
                      /\ \A u \in handler[h].user \ moved' :
                           /\ gates'[u] = gates[u]
                           /\ granted'[handler[h].of][u].target = granted[handler[h].of][u].target,
         WellFormed(handler[h])
  PROVE  Worked(h)'
BY DEF Worked, Leased, WellFormed, HandlerState

\* It keeps its plan if no row of its users is redacted and no award of theirs is lost.
LEMMA PlannedKept ==
  ASSUME NEW h \in Handler, Planned(h), handler'[h] = handler[h], moved \subseteq moved',
         handler[h].step = "claim" => \A u \in handler[h].only :
            /\ granted[handler[h].of][u].state = "none" \/ granted[handler[h].of][u].known
               => granted'[handler[h].of][u].state = "none" \/ granted'[handler[h].of][u].known
            /\ u \notin moved' => Count(u) <= Count(u)' /\ Count(u) \in Nat /\ Count(u)' \in Nat,
         WellFormed(handler[h])
  PROVE  Planned(h)'
<1> SUFFICES ASSUME handler[h].step = "claim", NEW u \in handler[h].only
             PROVE  /\ \/ granted'[handler[h].of][u].state = "none"
                       \/ granted'[handler[h].of][u].known
                    /\ u \notin moved' => /\ handler[h].ordinal[u] = handler[h].expected[u] + 1
                                          /\ handler[h].expected[u] <= Count(u)'
  BY DEF Planned
<1>1. /\ granted[handler[h].of][u].state = "none" \/ granted[handler[h].of][u].known
      /\ u \notin moved => /\ handler[h].ordinal[u] = handler[h].expected[u] + 1
                           /\ handler[h].expected[u] <= Count(u)
  BY DEF Planned
<1>2. handler[h].expected[u] \in Nat
  BY DEF WellFormed
<1> QED
  BY <1>1, <1>2

\* It keeps what it has read if the publication, the counts and the message stay and no row
\* becomes less complete.
LEMMA PublishingKept ==
  ASSUME NEW h \in Handler, Publishing(h), handler'[h] = handler[h], moved \subseteq moved',
         WellFormed(handler[h]), operation \in [Source -> OperationState],
         operation' \in [Source -> OperationState],
         NEW m, m = handler[h].of,
         Publishes(h) => /\ Told(m)
                         /\ operation'[m].publication = operation[m].publication
                         /\ operation'[m].published = operation[m].published
                         /\ operation[m].completed <= operation'[m].completed
                         /\ Done(m) \subseteq Done(m)' /\ congrats'[m] = congrats[m]
  PROVE  Publishing(h)'
<1> SUFFICES ASSUME Publishes(h)
             PROVE  Publishing(h)'
  BY DEF Publishing, Publishes
<1> DEFINE lines == handler[h].lines
           count == handler[h].count
<1>0. m \in Source /\ count \in Nat
  BY DEF Publishes, WellFormed, HandlerState
<1>1. /\ operation[m].publication = h /\ operation[m].published < operation[m].completed
      /\ handler[h].step # "read" =>
           /\ count <= operation[m].completed /\ lines \subseteq Done(m)
           /\ count = Cardinality(Done(m)) => lines \ moved = Done(m) \ moved
      /\ handler[h].step = "record" => congrats[m] = lines
  BY DEF Publishing
<1>2. operation[m].completed <= Cardinality(Done(m))
  BY DEF Told
<1>3. Cardinality(Done(m)) \in Nat /\ Cardinality(Done(m)') \in Nat
  BY <1>0, DoneFinite
<1>4. /\ Cardinality(Done(m)) <= Cardinality(Done(m)')
      /\ Cardinality(Done(m)) = Cardinality(Done(m)') => Done(m)' = Done(m)
  BY <1>0, DoneGrown
<1>5. operation[m].completed \in Nat /\ operation'[m].completed \in Nat
      /\ operation[m].published \in Nat
  BY <1>0 DEF OperationState
<1>6. ASSUME handler[h].step # "read"
      PROVE  /\ count <= operation'[m].completed /\ lines \subseteq Done(m)'
             /\ count = Cardinality(Done(m)') => lines \ moved' = Done(m)' \ moved'
  <2>1. count <= operation'[m].completed
    BY <1>0, <1>1, <1>5, <1>6
  <2>2. ASSUME count = Cardinality(Done(m)')
        PROVE  lines \ moved' = Done(m)' \ moved'
    <3>1. count = Cardinality(Done(m)) /\ Done(m)' = Done(m)
      BY <1>0, <1>1, <1>2, <1>3, <1>4, <1>5, <1>6, <2>2
    <3> QED
      BY <3>1, <1>1, <1>6
  <2> QED
    BY <2>1, <2>2, <1>1, <1>6
<1>7. /\ operation'[m].publication = h /\ operation'[m].published < operation'[m].completed
      /\ handler[h].step = "record" => congrats'[m] = lines
  BY <1>1, <1>5
<1> QED
  BY <1>6, <1>7 DEF Publishing

\* The counts of a message stay behind its rows if they stay and no row becomes less complete.
LEMMA ToldKept ==
  ASSUME NEW m \in Source, Told(m), moved \subseteq moved',
         operation[m] \in OperationState,
         operation'[m].completed = operation[m].completed,
         operation'[m].published = operation[m].published,
         operation'[m].state = "none" => /\ operation'[m].lease = NoHandler
                                         /\ operation'[m].publication = NoHandler,
         Done(m) \subseteq Done(m)', congrats'[m] = congrats[m]
  PROVE  Told(m)'
<1>1. Cardinality(Done(m)) \in Nat /\ Cardinality(Done(m)') \in Nat
  BY DoneFinite
<1>2. /\ Cardinality(Done(m)) <= Cardinality(Done(m)')
      /\ Cardinality(Done(m)) = Cardinality(Done(m)') => Done(m)' = Done(m)
  BY DoneGrown
<1>3. operation[m].completed \in Nat /\ operation[m].published \in Nat
  BY DEF OperationState
<1>4. /\ operation[m].published <= operation[m].completed
      /\ operation[m].completed <= Cardinality(Done(m))
      /\ operation[m].published = Cardinality(Done(m)) => congrats[m] \ moved = Done(m) \ moved
  BY DEF Told
<1>5. operation'[m].completed <= Cardinality(Done(m)')
  BY <1>1, <1>2, <1>3, <1>4
<1>6. ASSUME operation'[m].published = Cardinality(Done(m)')
      PROVE  congrats'[m] \ moved' = Done(m)' \ moved'
  <2>1. operation[m].published = Cardinality(Done(m)) /\ Done(m)' = Done(m)
    BY <1>1, <1>2, <1>3, <1>4, <1>6
  <2> QED
    BY <1>4, <2>1
<1> QED
  BY <1>4, <1>5, <1>6 DEF Told

\* A user whose rows, awards and role stay keeps his progress.
LEMMA ProgressKept ==
  ASSUME NEW u \in Gated, Progress(u), gates'[u] = gates[u],
         \A m \in Source : /\ award'[m][u] = award[m][u]
                           /\ granted'[m][u].state = granted[m][u].state
                           /\ granted'[m][u].known = granted[m][u].known
                           /\ granted'[m][u].target = granted[m][u].target
  PROVE  Progress(u)'
<1>1. ActiveIn(u)' = ActiveIn(u) /\ PendingIn(u)' = PendingIn(u)
  BY DEF ActiveIn, PendingIn
<1>2. Count(u)' = Count(u)
  BY <1>1 DEF Count
<1>3. OrdinalsOf(u, {"active"})' = OrdinalsOf(u, {"active"})
  BY DEF OrdinalsOf
<1>4. \A m \in Source : RowFits(m, u)'
  BY DEF Progress, RowFits
<1>5. OnePending(u)'
  BY <1>1, <1>2 DEF Progress, OnePending, PendingIn
<1>6. RoleFits(u)'
  BY <1>1, <1>2 DEF Progress, RoleFits, PendingIn
<1> QED
  BY <1>2, <1>3, <1>4, <1>5, <1>6 DEF Progress

\* A user's awards are counted.
LEMMA CountType ==
  ASSUME NEW u
  PROVE  /\ IsFiniteSet(ActiveIn(u)) /\ Count(u) \in Nat
         /\ IsFiniteSet(ActiveIn(u)') /\ Count(u)' \in Nat
<1>1. ActiveIn(u) \subseteq Source /\ ActiveIn(u)' \subseteq Source
  BY DEF ActiveIn
<1>2. IsFiniteSet(ActiveIn(u)) /\ IsFiniteSet(ActiveIn(u)')
  BY <1>1, GateAssumption, FS_Subset
<1> QED
  BY <1>2, FS_CardinalityType DEF Count

\* Who is at work was not interrupted.
LEMMA AtWork ==
  ASSUME IInv, NEW h \in Handler, handler[h].step # "idle"
  PROVE  loaded /\ WellFormed(handler[h]) /\ handler[h].of \in Source
BY IdleFields DEF IInv, AtRest, HandlersOK, WellFormed

\* A step of a handler that changes no more than what it does and a lease.
LEMMA LeaseSteps ==
  ASSUME IInv, NEW h \in Handler, NEW m \in Source, loaded,
         UNCHANGED <<granted, award, bonus, gateDiscord, loaded, moved>>,
         unrecovered' \subseteq Source,
         HandlersOK', OthersStay(h), Worked(h)', Planned(h)', Publishing(h)',
         operation' \in [Source -> OperationState], OtherOperations(m), CountsStay(m),
         \/ operation'[m].lease = operation[m].lease
         \/ operation[m].state # "none" /\ operation[m].lease \in {NoHandler, h},
         \/ operation'[m].publication = operation[m].publication
         \/ operation[m].state # "none" /\ operation[m].publication \in {NoHandler, h}
  PROVE  IInv'
<1> USE DEF IInv, gateDiscord
<1>0. operation \in [Source -> OperationState] /\ NoHandler \notin Handler
  BY TypeParts, GateAssumption
<1>1. TypeOK'
  BY TypeParts, TypePartsNext
<1>2. TargetsFit' /\ AtRest'
  BY DEF TargetsFit, AtRest
<1>3. \A n \in Source : Done(n)' = Done(n)
  BY DEF Done, InState
<1>4. \A u : Count(u)' = Count(u)
  BY DEF Count, ActiveIn
<1>5. ASSUME NEW k \in Handler
      PROVE  Worked(k)' /\ Planned(k)' /\ Publishing(k)'
  <2>1. CASE k = h
    BY <2>1
  <2>2. CASE k # h
    <3>1. handler'[k] = handler[k] /\ WellFormed(handler[k])
      BY <2>2 DEF OthersStay, HandlersOK
    <3>2. Worked(k)'
      <4>1. ASSUME Leased(k)
            PROVE  operation'[handler[k].of].lease = operation[handler[k].of].lease
        <5>1. operation[handler[k].of].lease = k /\ handler[k].of \in Source
          BY <3>1, <4>1 DEF Worked, WellFormed, Leased
        <5> QED
          BY <1>0, <2>2, <5>1 DEF OtherOperations
      <4> QED
        BY <3>1, <4>1, WorkedKept
    <3>3. Planned(k)'
      BY <1>4, <3>1, CountType, PlannedKept
    <3>4. Publishing(k)'
      <4>1. PICK n : n = handler[k].of
        OBVIOUS
      <4>2. ASSUME Publishes(k)
            PROVE  /\ Told(n) /\ operation'[n].publication = operation[n].publication
                   /\ operation'[n].published = operation[n].published
                   /\ operation[n].completed <= operation'[n].completed
                   /\ Done(n) \subseteq Done(n)' /\ congrats'[n] = congrats[n]
        <5>1. operation[n].publication = k /\ n \in Source
          BY <3>1, <4>1, <4>2 DEF Publishing, WellFormed, Publishes
        <5>2. operation'[n].publication = operation[n].publication
          BY <1>0, <2>2, <5>1 DEF OtherOperations
        <5>3. /\ operation'[n].published = operation[n].published
              /\ operation'[n].completed = operation[n].completed
          BY <5>1 DEF OtherOperations, CountsStay
        <5>4. operation[n].completed \in Nat
          BY <1>0, <5>1 DEF OperationState
        <5> QED
          BY <1>3, <5>1, <5>2, <5>3, <5>4
      <4> QED
        BY <1>0, <3>1, <4>1, <4>2, PublishingKept
    <3> QED
      BY <3>2, <3>3, <3>4
  <2> QED
    BY <2>1, <2>2
<1>6. ASSUME NEW n \in Source
      PROVE  Told(n)'
  <2>1. /\ operation'[n].completed = operation[n].completed
        /\ operation'[n].published = operation[n].published
        /\ operation'[n].state = "none" => /\ operation'[n].lease = NoHandler
                                           /\ operation'[n].publication = NoHandler
    BY DEF OtherOperations, CountsStay, Told
  <2>2. operation[n] \in OperationState
    BY <1>0
  <2> QED
    BY <1>3, <2>1, <2>2, ToldKept
<1>7. ASSUME NEW u \in Gated \ moved'
      PROVE  Progress(u)'
  BY ProgressKept
<1> QED
  BY <1>1, <1>2, <1>5, <1>6, <1>7

\* A handler that neither confirms nor works on users nor publishes promises nothing.
LEMMA Quiet ==
  ASSUME NEW h \in Handler, handler'[h].step \in {"idle", "lease", "log", "logged", "publish"}
  PROVE  Worked(h)' /\ Planned(h)' /\ Publishing(h)'
BY DEF Worked, Leased, Planned, Publishing, Publishes

\* A step of a handler that changes only what the handler does.
LEMMA HandlerSteps ==
  ASSUME IInv, NEW h \in Handler, NEW m \in Source, loaded,
         UNCHANGED <<gateRows, gateDiscord, loaded, moved>>, unrecovered' \subseteq Source,
         HandlersOK', OthersStay(h), Worked(h)', Planned(h)', Publishing(h)'
  PROVE  IInv'
<1>1. operation' = operation /\ operation' \in [Source -> OperationState]
  BY TypeParts DEF IInv, gateRows
<1>2. OtherOperations(m) /\ CountsStay(m)
  BY <1>1 DEF OtherOperations, CountsStay
<1> QED
  BY <1>1, <1>2, LeaseSteps DEF gateRows

-----------------------------------------------------------------------------
(* Handlers that start *)

\* The ordinals of a user's awards are finitely many.
LEMMA OrdinalsFinite ==
  ASSUME award \in [Source -> [Gated -> AwardState]], NEW u \in Gated, NEW states
  PROVE  /\ IsFiniteSet(OrdinalsOf(u, states)) /\ OrdinalsOf(u, states) \subseteq Nat
         /\ Cardinality(OrdinalsOf(u, states)) \in Nat
<1>1. OrdinalsOf(u, states) \subseteq 0..MaxTier
  BY DEF OrdinalsOf, AwardState, Tiers
<1>2. IsFiniteSet(0..MaxTier)
  BY GateAssumption, FS_Interval
<1>3. IsFiniteSet(OrdinalsOf(u, states))
  BY <1>1, <1>2, FS_Subset
<1> QED
  BY <1>1, <1>3, FS_CardinalityType

\* What is planned for a user: one tier beyond his active ones.
LEMMA Plan ==
  ASSUME IInv, NEW m \in Source, NEW u \in Gated, Candidate(m, u)
  PROVE  /\ ActiveCount(u) \in 0..(MaxTier - 1)
         /\ NextOrdinal(OrdinalsOf(u, {"active"})) \in 1..MaxTier
         /\ granted[m][u].state = "none"
         /\ u \notin moved => /\ ActiveCount(u) = Count(u)
                              /\ NextOrdinal(OrdinalsOf(u, {"active"})) = Count(u) + 1
<1> DEFINE active == OrdinalsOf(u, {"active"})
<1>0. MaxTier \in Nat
  BY GateAssumption
<1>1. IsFiniteSet(active) /\ Cardinality(active) \in Nat
  BY TypeParts, OrdinalsFinite DEF IInv
<1>2. ActiveCount(u) = Cardinality(active) /\ Cardinality(active) < MaxTier
      /\ granted[m][u].state = "none"
  BY DEF Candidate, ActiveCount
<1>3. NextOrdinal(active) \in 1..(Cardinality(active) + 1)
  BY <1>1, NextFree
<1>4. ASSUME u \notin moved
      PROVE  Cardinality(active) = Count(u) /\ NextOrdinal(active) = Count(u) + 1
  <2>1. active = 1..Count(u) /\ Count(u) \in Nat
    BY <1>4, CountType DEF IInv, Progress
  <2>2. NextOrdinal(1..Count(u)) = Count(u) + 1
    BY <2>1, NextAfter
  <2>3. Cardinality(1..Count(u)) = Count(u)
    BY <2>1, FS_Interval
  <2> QED
    BY <2>1, <2>2, <2>3
<1> HIDE DEF active
<1>5. NextOrdinal(active) \in 1..MaxTier /\ ActiveCount(u) \in 0..(MaxTier - 1)
  BY <1>0, <1>1, <1>2, <1>3
<1> QED
  BY <1>2, <1>4, <1>5 DEF active

\* A moderator's confirmation plans the next tier of every user it names.
LEMMA PrepareKeeps ==
  ASSUME IInv, NEW h \in Handler, NEW m \in Source, NEW users \in SUBSET Gated,
         NEW extra \in Extras, Prepare(h, m, users, extra)
  PROVE  IInv'
<1> DEFINE e == [u \in users |-> ActiveCount(u)]
           o == [u \in users |-> NextOrdinal(OrdinalsOf(u, {"active"}))]
           r == ToConfirm(m, users, extra, e, o)
<1>1. \A u \in users : Candidate(m, u)
  BY DEF Prepare
<1>2. /\ e \in [users -> 0..(MaxTier - 1)] /\ o \in [users -> 1..MaxTier]
      /\ \A u \in users : /\ granted[m][u].state = "none"
                          /\ u \notin moved => o[u] = e[u] + 1 /\ e[u] = Count(u)
  <2>1. ASSUME NEW u \in users
        PROVE  /\ ActiveCount(u) \in 0..(MaxTier - 1)
               /\ NextOrdinal(OrdinalsOf(u, {"active"})) \in 1..MaxTier
               /\ granted[m][u].state = "none"
               /\ u \notin moved => /\ ActiveCount(u) = Count(u)
                                    /\ NextOrdinal(OrdinalsOf(u, {"active"})) = Count(u) + 1
    BY <1>1, Plan
  <2> QED
    BY <2>1
<1>3. Goto(h, r) /\ UNCHANGED <<gateRows, gateDiscord, unrecovered, context, budget>> /\ loaded
  BY DEF Prepare, ToConfirm
<1> HIDE DEF e, o
<1>4. extra \in BOOLEAN
  BY GateAssumption
<1>5. /\ WellFormed(r) /\ r.step = "claim" /\ r.of = m /\ r.only = users
      /\ r.expected = e /\ r.ordinal = o
  BY <1>2, <1>4, Confirming
<1> HIDE DEF r
<1>6. HandlersOK' /\ handler'[h] = r /\ OthersStay(h)
  BY <1>3, <1>5, Went DEF IInv
<1>7. Worked(h)' /\ Publishing(h)'
  BY <1>5, <1>6 DEF Worked, Leased, Publishing, Publishes
<1>8. Planned(h)'
  <2>1. ASSUME NEW u \in users
        PROVE  granted'[m][u].state = "none"
               /\ (u \notin moved' => o[u] = e[u] + 1 /\ e[u] <= Count(u)')
    <3>1. granted' = granted /\ moved' = moved /\ Count(u)' = Count(u)
      BY <1>3 DEF gateRows, context, Count, ActiveIn
    <3>2. Count(u) \in Nat
      BY CountType
    <3> QED
      BY <1>2, <3>1, <3>2
  <2>2. /\ handler'[h].of = m /\ handler'[h].only = users
        /\ handler'[h].ordinal = o /\ handler'[h].expected = e
    BY <1>5, <1>6
  <2> QED
    BY <2>1, <2>2 DEF Planned
<1>9. unrecovered' \subseteq Source
  BY <1>3, TypeParts DEF IInv
<1> QED
  BY <1>3, <1>6, <1>7, <1>8, <1>9, HandlerSteps DEF context

\* The other entries.
LEMMA ResumeKeeps ==
  ASSUME IInv, NEW h \in Handler, NEW m \in Source,
         Resume(h, m) \/ Reopen(h, m) \/ (h = Recovery /\ Recover(m))
  PROVE  IInv'
<1>1. loaded /\ UNCHANGED <<gateRows, gateDiscord, context>> /\ unrecovered' \subseteq Source
  BY TypeParts DEF Resume, Reopen, Recover, IInv
<1>2. PICK r : WellFormed(r) /\ r.step \in {"lease", "log"} /\ Goto(h, r)
  <2>1. CASE Resume(h, m)
    <3>1. Goto(h, ToLease(m, Gated))
      BY <2>1 DEF Resume, ToLease
    <3> QED
      BY <3>1, Leasing
  <2>2. CASE Reopen(h, m)
    <3>1. Unlogged(m) \in SUBSET Gated /\ Behind(m) \in BOOLEAN
      BY DEF Unlogged, InState, Behind
    <3>2. Goto(h, ToLog(m, Unlogged(m), Behind(m)))
      BY <2>2 DEF Reopen, ToLog
    <3> QED
      BY <3>1, <3>2, Logging
  <2>3. CASE h = Recovery /\ Recover(m)
    <3>1. Goto(h, ToLease(m, Gated))
      BY <2>3 DEF Recover, ToLease
    <3> QED
      BY <3>1, Leasing
  <2> QED
    BY <2>1, <2>2, <2>3
<1>3. HandlersOK' /\ handler'[h] = r /\ OthersStay(h)
  BY <1>2, Went DEF IInv
<1>4. Worked(h)' /\ Planned(h)' /\ Publishing(h)'
  BY <1>2, <1>3, Quiet
<1> QED
  BY <1>1, <1>3, <1>4, HandlerSteps DEF context

-----------------------------------------------------------------------------
(* Leases *)

\* The lease is taken only when nobody has it, and the users are those of unfinished rows.
LEMMA AcquireLeaseKeeps ==
  ASSUME IInv, NEW h \in Handler, AcquireLease(h)
  PROVE  IInv'
<1>0. /\ handler[h].step = "lease"
      /\ UNCHANGED <<granted, award, bonus, gateDiscord, unrecovered, context, budget>>
  BY DEF AcquireLease, Step
<1>1. loaded /\ WellFormed(handler[h]) /\ handler[h].of \in Source
  BY <1>0, AtWork
<1>2. PICK m \in Source : m = handler[h].of
  BY <1>1
<1>3. PICK r : r = handler[h]
  OBVIOUS
<1>4. unrecovered' \subseteq Source /\ operation \in [Source -> OperationState]
  BY <1>0, TypeParts DEF IInv
<1> DEFINE left == {u \in Rows(m) : granted[m][u].state # "completed"}
           todo == {u \in left : granted[m][u].known /\ u \in r.only}
           unnamed == {u \in left : ~granted[m][u].known /\ ~r.confirms}
<1>5. CASE /\ operation[m].state \in {"applying", "partial"} /\ operation[m].lease = NoHandler
           /\ operation' = [operation EXCEPT ![m].lease = h]
           /\ Goto(h, ToRun(m, todo, unnamed))
  <2>1. todo \in SUBSET Gated /\ unnamed \in SUBSET Gated /\ todo \cap unnamed = {}
        /\ \A u \in todo \cup unnamed : granted[m][u].state \notin {"none", "completed"}
    BY DEF Rows
  <2> HIDE DEF todo, unnamed
  <2>2. LET n == ToRun(m, todo, unnamed) IN
        /\ WellFormed(n) /\ n.step = "run" /\ n.of = m /\ n.todo = todo /\ n.unnamed = unnamed
        /\ n.user = {}
    BY <2>1, Running
  <2>3. HandlersOK' /\ handler'[h] = ToRun(m, todo, unnamed) /\ OthersStay(h)
    BY <1>5, <2>2, Went DEF IInv
  <2>4. /\ operation' \in [Source -> OperationState] /\ OtherOperations(m) /\ CountsStay(m)
        /\ operation'[m].lease = h /\ operation'[m].publication = operation[m].publication
    BY <1>4, <1>5, LeaseSet
  <2>5. Planned(h)' /\ Publishing(h)'
    BY <2>2, <2>3 DEF Planned, Publishing, Publishes
  <2>6. Worked(h)'
    BY <1>0, <2>1, <2>2, <2>3, <2>4 DEF Worked, Leased
  <2> QED
    BY <1>0, <1>1, <1>4, <1>5, <2>3, <2>4, <2>5, <2>6, LeaseSteps DEF context
<1>6. CASE /\ UNCHANGED operation
           /\ Goto(h, IF operation[m].state = "applying" /\ ~r.confirms /\ h # Recovery
                      THEN Idle ELSE ToLog(m, Unlogged(m), Behind(m)))
  <2>1. PICK n : WellFormed(n) /\ n.step \in {"idle", "log"} /\ Goto(h, n)
    <3>1. Unlogged(m) \in SUBSET Gated /\ Behind(m) \in BOOLEAN
      BY DEF Unlogged, InState, Behind
    <3> QED
      BY <1>6, <3>1, Logging, IdleFields
  <2>2. HandlersOK' /\ handler'[h] = n /\ OthersStay(h)
    BY <2>1, Went DEF IInv
  <2>3. Worked(h)' /\ Planned(h)' /\ Publishing(h)'
    BY <2>1, <2>2, Quiet
  <2> QED
    BY <1>0, <1>1, <1>4, <1>6, <2>2, <2>3, HandlerSteps DEF context, gateRows
<1> QED
  BY <1>2, <1>3, <1>5, <1>6 DEF AcquireLease, ToRun, ToLog

\* A handler that was refused gives the lease back.
LEMMA RefuseKeeps ==
  ASSUME IInv, NEW h \in Handler, Refuse(h)
  PROVE  IInv'
<1>0. /\ handler[h].step = "run" /\ Goto(h, Idle)
      /\ UNCHANGED <<granted, award, bonus, gateDiscord, unrecovered, context>>
  BY DEF Refuse, Step
<1>1. loaded /\ WellFormed(handler[h]) /\ handler[h].of \in Source
  BY <1>0, AtWork
<1>2. PICK m \in Source : m = handler[h].of
  BY <1>1
<1>3. unrecovered' \subseteq Source /\ operation \in [Source -> OperationState] /\ Told(m)
  BY <1>0, TypeParts DEF IInv
<1>4. operation' = [operation EXCEPT ![m].lease = NoHandler]
  BY <1>2 DEF Refuse
<1>5. /\ operation' \in [Source -> OperationState] /\ OtherOperations(m) /\ CountsStay(m)
      /\ operation'[m].lease = NoHandler /\ operation'[m].publication = operation[m].publication
  BY <1>3, <1>4, LeaseSet
<1>6. HandlersOK' /\ handler'[h] = Idle /\ OthersStay(h)
  BY <1>0, IdleFields, Went DEF IInv
<1>7. Worked(h)' /\ Planned(h)' /\ Publishing(h)'
  BY <1>6, IdleFields, Quiet
<1>8. operation[m].lease = h
  BY <1>0, <1>2 DEF IInv, Worked, Leased
<1>9. operation[m].state # "none"
  BY <1>3, <1>8, GateAssumption DEF Told
<1> QED
  BY <1>0, <1>1, <1>3, <1>5, <1>6, <1>7, <1>8, <1>9, LeaseSteps DEF context

\* What a handler knows of the publication it acquires, and what it gives back.
LEMMA AcquirePublicationKeeps ==
  ASSUME IInv, NEW h \in Handler, AcquirePublication(h)
  PROVE  IInv'
<1>0. /\ handler[h].step = "publish"
      /\ UNCHANGED <<granted, award, bonus, gateDiscord, unrecovered, context, budget>>
  BY DEF AcquirePublication, Step
<1>1. loaded /\ WellFormed(handler[h]) /\ handler[h].of \in Source
  BY <1>0, AtWork
<1>2. PICK m \in Source : m = handler[h].of
  BY <1>1
<1>3. unrecovered' \subseteq Source /\ operation \in [Source -> OperationState]
  BY <1>0, TypeParts DEF IInv
<1>4. CASE /\ operation[m].state \in {"completed", "partial"} /\ Behind(m)
           /\ operation[m].publication = NoHandler
           /\ operation' = [operation EXCEPT ![m].publication = h]
           /\ Goto(h, Stepped(handler[h], "read"))
  <2>1. LET n == Stepped(handler[h], "read") IN WellFormed(n) /\ n.step = "read" /\ n.of = m
    BY <1>0, <1>1, <1>2, Stepping
  <2>2. HandlersOK' /\ handler'[h] = Stepped(handler[h], "read") /\ OthersStay(h)
    BY <1>4, <2>1, Went DEF IInv
  <2>3. /\ operation' \in [Source -> OperationState] /\ OtherOperations(m) /\ CountsStay(m)
        /\ operation'[m].publication = h /\ operation'[m].lease = operation[m].lease
    BY <1>3, <1>4, PublicationSet
  <2>4. handler'[h].step = "read" /\ handler'[h].of = m
    BY <2>1, <2>2
  <2>5. operation'[m].published < operation'[m].completed
    BY <1>4, <2>3 DEF Behind, CountsStay
  <2>6. Worked(h)' /\ Planned(h)' /\ Publishing(h)'
    BY <2>3, <2>4, <2>5 DEF Worked, Leased, Planned, Publishing, Publishes
  <2> QED
    BY <1>0, <1>1, <1>3, <1>4, <2>2, <2>3, <2>6, LeaseSteps DEF context
<1>5. CASE Goto(h, Idle) /\ UNCHANGED operation
  <2>1. HandlersOK' /\ handler'[h] = Idle /\ OthersStay(h)
    BY <1>5, IdleFields, Went DEF IInv
  <2>2. Worked(h)' /\ Planned(h)' /\ Publishing(h)'
    BY <2>1, IdleFields, Quiet
  <2> QED
    BY <1>0, <1>1, <1>3, <1>5, <2>1, <2>2, HandlerSteps DEF context, gateRows
<1> QED
  BY <1>2, <1>4, <1>5 DEF AcquirePublication, At, Stepped

\* Who publishes has the publication, which nobody else has.
LEMMA Publisher ==
  ASSUME IInv, NEW h \in Handler, Publishes(h), NEW m, m = handler[h].of
  PROVE  /\ loaded /\ WellFormed(handler[h]) /\ m \in Source /\ Told(m)
         /\ operation \in [Source -> OperationState]
         /\ operation[m].publication = h /\ operation[m].state # "none"
         /\ operation[m].published < operation[m].completed
         /\ operation[m].published \in Nat /\ operation[m].completed \in Nat
         /\ operation[m].completed <= Cardinality(Done(m)) /\ Cardinality(Done(m)) \in Nat
<1>1. handler[h].step # "idle"
  BY DEF Publishes
<1>2. loaded /\ WellFormed(handler[h]) /\ m \in Source
  BY <1>1, AtWork
<1>3. operation[m].publication = h /\ operation[m].published < operation[m].completed
  BY DEF IInv, Publishing
<1>4. Told(m) /\ operation \in [Source -> OperationState]
  BY <1>2, TypeParts DEF IInv
<1>5. operation[m].published \in Nat /\ operation[m].completed \in Nat
  BY <1>2, <1>4 DEF OperationState
<1>6. Cardinality(Done(m)) \in Nat
  BY <1>2, DoneFinite
<1> QED
  BY <1>2, <1>3, <1>4, <1>5, <1>6, GateAssumption DEF Told

\* It gives the publication back.
LEMMA GivenBack ==
  ASSUME IInv, NEW h \in Handler, Publishes(h), NEW m, m = handler[h].of,
         operation' = [operation EXCEPT ![m].publication = NoHandler], Goto(h, Idle),
         UNCHANGED <<granted, award, bonus, gateDiscord, unrecovered, context>>
  PROVE  IInv'
<1>1. /\ loaded /\ WellFormed(handler[h]) /\ m \in Source
      /\ operation \in [Source -> OperationState]
      /\ operation[m].publication = h /\ operation[m].state # "none"
  BY Publisher
<1>2. /\ operation' \in [Source -> OperationState] /\ OtherOperations(m) /\ CountsStay(m)
      /\ operation'[m].publication = NoHandler /\ operation'[m].lease = operation[m].lease
  BY <1>1, PublicationSet
<1>3. HandlersOK' /\ handler'[h] = Idle /\ OthersStay(h)
  BY IdleFields, Went DEF IInv
<1>4. Worked(h)' /\ Planned(h)' /\ Publishing(h)'
  BY <1>3, IdleFields, Quiet
<1>5. unrecovered' \subseteq Source
  BY TypeParts DEF IInv
<1> QED
  BY <1>1, <1>2, <1>3, <1>4, <1>5, LeaseSteps DEF context

\* What is read is complete as of the rows the count counts.
LEMMA ReadLinesKeeps ==
  ASSUME IInv, NEW h \in Handler, ReadLines(h)
  PROVE  IInv'
<1>0. /\ handler[h].step = "read" /\ Publishes(h)
      /\ UNCHANGED <<granted, award, bonus, gateDiscord, unrecovered, context, budget>>
  BY DEF ReadLines, Step, Publishes
<1>1. PICK m : m = handler[h].of
  OBVIOUS
<1>2. /\ loaded /\ WellFormed(handler[h]) /\ m \in Source
      /\ operation[m].publication = h
      /\ operation[m].published < operation[m].completed /\ operation[m].completed \in Nat
      /\ operation[m].completed <= Cardinality(Done(m))
  BY <1>0, <1>1, Publisher
<1> DEFINE lines == {u \in Done(m) : granted[m][u].known}
<1>3. CASE /\ Goto(h, HasRead(handler[h], lines, operation[m].completed))
           /\ UNCHANGED operation
  <2>1. lines \in SUBSET Gated /\ lines \subseteq Done(m)
    BY DEF Done, InState
  <2>2. lines \ moved = Done(m) \ moved
    <3>1. ASSUME NEW u \in Done(m) \ moved
          PROVE  granted[m][u].known
      <4>1. u \in Gated \ moved /\ granted[m][u].state = "completed"
        BY DEF Done, InState
      <4> QED
        BY <1>2, <4>1 DEF IInv, Progress, RowFits
    <3> QED
      BY <3>1
  <2> HIDE DEF lines
  <2>3. LET n == HasRead(handler[h], lines, operation[m].completed) IN
        /\ WellFormed(n) /\ n.step = "deliver" /\ n.of = m
        /\ n.lines = lines /\ n.count = operation[m].completed
    BY <1>0, <1>1, <1>2, <2>1, Reading
  <2>4. HandlersOK' /\ OthersStay(h)
        /\ handler'[h] = HasRead(handler[h], lines, operation[m].completed)
    BY <1>3, <2>3, Went DEF IInv
  <2>5. /\ handler'[h].step = "deliver" /\ handler'[h].of = m
        /\ handler'[h].lines = lines /\ handler'[h].count = operation[m].completed
    BY <2>3, <2>4
  <2>6. Worked(h)' /\ Planned(h)'
    BY <2>5 DEF Worked, Leased, Planned
  <2>7. Publishing(h)'
    <3>1. Done(m)' = Done(m) /\ moved' = moved /\ operation' = operation
      BY <1>0, <1>3 DEF Done, InState, context
    <3> QED
      BY <1>2, <2>1, <2>2, <2>5, <3>1 DEF Publishing, Publishes
  <2>8. unrecovered' \subseteq Source
    BY <1>0, TypeParts DEF IInv
  <2> QED
    BY <1>0, <1>2, <1>3, <2>4, <2>6, <2>7, <2>8, HandlerSteps DEF context, gateRows
<1>4. CASE /\ operation' = [operation EXCEPT ![m].publication = NoHandler]
           /\ Goto(h, Idle)
  BY <1>0, <1>1, <1>4, GivenBack
<1> QED
  BY <1>1, <1>3, <1>4 DEF ReadLines, HasRead, Done

\* The handlers' steps that change no row, no operation and nothing at Discord.
LEMMA LogKeeps ==
  ASSUME IInv, NEW h \in Handler, Log(h)
  PROVE  IInv'
<1>0. handler[h].step = "log" /\ UNCHANGED <<gateRows, gateDiscord, unrecovered, context>>
  BY DEF Log, Step
<1>1. loaded /\ WellFormed(handler[h]) /\ handler[h].of \in Source
  BY <1>0, AtWork
<1>2. PICK n : WellFormed(n) /\ n.step \in {"logged", "publish"} /\ Goto(h, n)
  <2>1. CASE Goto(h, Stepped(handler[h], IF handler[h].unlogged = {}
                                         THEN "publish" ELSE "logged"))
    BY <1>0, <1>1, <2>1, Stepping
  <2>2. CASE Goto(h, LogDone(handler[h]))
    <3>1. WellFormed(LogDone(handler[h])) /\ LogDone(handler[h]).step = "publish"
      BY <1>0, <1>1, Ending
    <3> QED
      BY <2>2, <3>1
  <2> QED
    BY <2>1, <2>2 DEF Log, At, Stepped, LogDone
<1>3. HandlersOK' /\ handler'[h] = n /\ OthersStay(h)
  BY <1>2, Went DEF IInv
<1>4. Worked(h)' /\ Planned(h)' /\ Publishing(h)'
  BY <1>2, <1>3, Quiet
<1>5. unrecovered' \subseteq Source
  BY <1>0, TypeParts DEF IInv
<1> QED
  BY <1>0, <1>1, <1>3, <1>4, <1>5, HandlerSteps DEF context

-----------------------------------------------------------------------------
(* The result message *)

\* Nobody else publishes what one publishes.
LEMMA OnePublisher ==
  ASSUME IInv, NEW h \in Handler, NEW k \in Handler, Publishes(h), Publishes(k),
         handler[h].of = handler[k].of
  PROVE  h = k
BY DEF IInv, Publishing

\* A step of the one who publishes changes nothing of the other handlers.
LEMMA PublicationSteps ==
  ASSUME IInv, NEW h \in Handler, Publishes(h), NEW m, m = handler[h].of,
         UNCHANGED <<granted, award, bonus, gates, badge, loaded, moved, unrecovered>>,
         congrats' \in [Source -> SUBSET Gated],
         \A n \in Source \ {m} : congrats'[n] = congrats[n],
         operation' \in [Source -> OperationState], OtherOperations(m),
         operation'[m].lease = operation[m].lease,
         HandlersOK', OthersStay(h), Worked(h)', Planned(h)', Publishing(h)', Told(m)'
  PROVE  IInv'
<1> USE DEF IInv
<1>0. /\ loaded /\ m \in Source /\ operation \in [Source -> OperationState]
      /\ operation[m].publication = h
  BY Publisher
<1>1. TypeOK'
  BY TypeParts, TypePartsNext
<1>2. TargetsFit' /\ AtRest'
  BY <1>0 DEF TargetsFit, AtRest
<1>3. \A n \in Source : Done(n)' = Done(n)
  BY DEF Done, InState
<1>4. \A u : Count(u)' = Count(u)
  BY DEF Count, ActiveIn
<1>5. ASSUME NEW k \in Handler, k # h
      PROVE  Worked(k)' /\ Planned(k)' /\ Publishing(k)'
  <2>1. handler'[k] = handler[k] /\ WellFormed(handler[k])
    BY <1>5 DEF OthersStay, HandlersOK
  <2>2. Worked(k)'
    <3>1. ASSUME Leased(k)
          PROVE  operation'[handler[k].of].lease = operation[handler[k].of].lease
      <4>1. handler[k].of \in Source
        BY <2>1, <3>1 DEF WellFormed, Leased
      <4> QED
        BY <4>1 DEF OtherOperations
    <3> QED
      BY <2>1, <3>1, WorkedKept
  <2>3. Planned(k)'
    BY <1>4, <2>1, CountType, PlannedKept
  <2>4. Publishing(k)'
    <3>1. PICK n : n = handler[k].of
      OBVIOUS
    <3>2. ASSUME Publishes(k)
          PROVE  /\ Told(n) /\ operation'[n].publication = operation[n].publication
                 /\ operation'[n].published = operation[n].published
                 /\ operation[n].completed <= operation'[n].completed
                 /\ Done(n) \subseteq Done(n)' /\ congrats'[n] = congrats[n]
      <4>1. n # m
        BY <1>5, <3>1, <3>2, OnePublisher
      <4>2. n \in Source
        BY <3>1, <3>2, Publisher
      <4>3. operation'[n] = operation[n] /\ operation[n].completed \in Nat
        BY <1>0, <4>1, <4>2 DEF OtherOperations, OperationState
      <4> QED
        BY <1>3, <4>1, <4>2, <4>3
    <3> QED
      BY <1>0, <2>1, <3>1, <3>2, PublishingKept
  <2> QED
    BY <2>2, <2>3, <2>4
<1>6. ASSUME NEW n \in Source, n # m
      PROVE  Told(n)'
  <2>1. operation'[n] = operation[n] /\ operation[n] \in OperationState
    BY <1>0, <1>6 DEF OtherOperations
  <2>2. operation[n].state = "none" => /\ operation[n].lease = NoHandler
                                       /\ operation[n].publication = NoHandler
    BY DEF Told
  <2> QED
    BY <1>3, <1>6, <2>1, <2>2, ToldKept
<1>7. ASSUME NEW u \in Gated \ moved'
      PROVE  Progress(u)'
  BY ProgressKept
<1> QED
  BY <1>1, <1>2, <1>5, <1>6, <1>7

\* The message names what was read, or nothing changes.
LEMMA DeliverKeeps ==
  ASSUME IInv, NEW h \in Handler, Deliver(h)
  PROVE  IInv'
<1>0. /\ handler[h].step = "deliver" /\ Publishes(h)
      /\ UNCHANGED <<granted, award, bonus, gates, badge, unrecovered, context>>
  BY DEF Deliver, Step, Publishes
<1>1. PICK m : m = handler[h].of
  OBVIOUS
<1>2. /\ loaded /\ WellFormed(handler[h]) /\ m \in Source /\ Told(m)
      /\ operation \in [Source -> OperationState]
      /\ operation[m].publication = h /\ operation[m].state # "none"
      /\ operation[m].published < operation[m].completed
      /\ operation[m].published \in Nat /\ operation[m].completed \in Nat
      /\ operation[m].completed <= Cardinality(Done(m)) /\ Cardinality(Done(m)) \in Nat
  BY <1>0, <1>1, Publisher
<1>3. PICK lines : lines = handler[h].lines
  OBVIOUS
<1>4. PICK count : count = handler[h].count
  OBVIOUS
<1>5. /\ lines \in SUBSET Gated /\ count \in Nat /\ count <= operation[m].completed
      /\ lines \subseteq Done(m)
      /\ count = Cardinality(Done(m)) => lines \ moved = Done(m) \ moved
  BY <1>0, <1>1, <1>2, <1>3, <1>4 DEF IInv, Publishing, WellFormed, HandlerState
<1>6. CASE /\ congrats' = [congrats EXCEPT ![m] = lines] /\ UNCHANGED operation
           /\ Goto(h, Stepped(handler[h], "record"))
  <2>1. LET n == Stepped(handler[h], "record") IN
        WellFormed(n) /\ n.step = "record" /\ n.of = m /\ n.lines = lines /\ n.count = count
    BY <1>0, <1>1, <1>2, <1>3, <1>4, Stepping
  <2>2. HandlersOK' /\ handler'[h] = Stepped(handler[h], "record") /\ OthersStay(h)
    BY <1>6, <2>1, Went DEF IInv
  <2>3. /\ handler'[h].step = "record" /\ handler'[h].of = m /\ handler'[h].lines = lines
        /\ handler'[h].count = count
    BY <2>1, <2>2
  <2>4. congrats' \in [Source -> SUBSET Gated] /\ congrats'[m] = lines
        /\ \A n \in Source \ {m} : congrats'[n] = congrats[n]
    BY <1>2, <1>5, <1>6, TypeParts DEF IInv
  <2>5. Done(m)' = Done(m) /\ moved' = moved /\ loaded' = loaded /\ operation' = operation
    BY <1>0, <1>6 DEF Done, InState, context
  <2>6. Worked(h)' /\ Planned(h)'
    BY <2>3 DEF Worked, Leased, Planned
  <2>7. Publishing(h)'
    BY <1>2, <1>5, <2>3, <2>4, <2>5 DEF Publishing, Publishes
  <2>8. Told(m)'
    BY <1>2, <2>5 DEF Told
  <2> QED
    BY <1>0, <1>1, <1>2, <2>2, <2>4, <2>5, <2>6, <2>7, <2>8, PublicationSteps
       DEF OtherOperations, context
<1>7. CASE /\ operation' = [operation EXCEPT ![m].publication = NoHandler]
           /\ Goto(h, Idle) /\ UNCHANGED congrats
  BY <1>0, <1>1, <1>7, GivenBack DEF gateDiscord
<1> QED
  BY <1>1, <1>3, <1>6, <1>7 DEF Deliver, At, Stepped

\* The publication is recorded with the count that was read.
LEMMA RecordKeeps ==
  ASSUME IInv, NEW h \in Handler, Record(h)
  PROVE  IInv'
<1>0. /\ handler[h].step = "record" /\ Publishes(h) /\ Goto(h, Idle)
      /\ UNCHANGED <<granted, award, bonus, gateDiscord, unrecovered, context, budget>>
  BY DEF Record, Step, Publishes
<1>1. PICK m : m = handler[h].of
  OBVIOUS
<1>2. /\ loaded /\ WellFormed(handler[h]) /\ m \in Source /\ Told(m)
      /\ operation \in [Source -> OperationState]
      /\ operation[m].publication = h /\ operation[m].state # "none"
      /\ operation[m].completed \in Nat
      /\ operation[m].completed <= Cardinality(Done(m)) /\ Cardinality(Done(m)) \in Nat
  BY <1>0, <1>1, Publisher
<1>3. PICK count : count = handler[h].count
  OBVIOUS
<1>4. /\ count \in Nat /\ count <= operation[m].completed
      /\ count = Cardinality(Done(m)) => congrats[m] \ moved = Done(m) \ moved
  BY <1>0, <1>1, <1>2, <1>3 DEF IInv, Publishing, WellFormed, HandlerState
<1>5. HandlersOK' /\ handler'[h] = Idle /\ OthersStay(h)
  BY <1>0, IdleFields, Went DEF IInv
<1>6. Worked(h)' /\ Planned(h)' /\ Publishing(h)'
  BY <1>5, IdleFields, Quiet
<1>7. CASE operation' = [operation EXCEPT ![m].result = TRUE, ![m].publication = NoHandler,
                                           ![m].published = count]
  <2>1. /\ operation' \in [Source -> OperationState] /\ OtherOperations(m)
        /\ operation'[m].state = operation[m].state
        /\ operation'[m].completed = operation[m].completed
        /\ operation'[m].lease = operation[m].lease
        /\ operation'[m].published = count
    BY <1>2, <1>4, <1>7, Published
  <2>2. Done(m)' = Done(m) /\ moved' = moved /\ loaded' = loaded /\ congrats' = congrats
    BY <1>0 DEF Done, InState, context, gateDiscord
  <2>3. Told(m)'
    BY <1>2, <1>4, <2>1, <2>2 DEF Told
  <2>4. congrats \in [Source -> SUBSET Gated]
    BY TypeParts DEF IInv
  <2> QED
    BY <1>0, <1>1, <1>5, <1>6, <2>1, <2>2, <2>3, <2>4, PublicationSteps DEF context, gateDiscord
<1>8. CASE UNCHANGED operation
  <2>1. unrecovered' \subseteq Source
    BY <1>0, TypeParts DEF IInv
  <2> QED
    BY <1>0, <1>2, <1>5, <1>6, <1>8, <2>1, HandlerSteps DEF context, gateRows
<1> QED
  BY <1>1, <1>3, <1>7, <1>8 DEF Record

-----------------------------------------------------------------------------
(* Work on users *)

\* Who works on users has the lease, and one user in hand.
LEMMA Worker ==
  ASSUME IInv, NEW h \in Handler, Leased(h), NEW m, m = handler[h].of
  PROVE  /\ loaded /\ WellFormed(handler[h]) /\ m \in Source /\ Told(m)
         /\ operation[m].lease = h /\ operation[m].state # "none"
         /\ operation \in [Source -> OperationState]
         /\ granted \in [Source -> [Gated -> RowState]]
<1>1. handler[h].step # "idle"
  BY DEF Leased
<1>2. loaded /\ WellFormed(handler[h]) /\ m \in Source
  BY <1>1, AtWork
<1>3. operation[m].lease = h
  BY DEF IInv, Worked
<1> QED
  BY <1>2, <1>3, TypeParts, GateAssumption DEF IInv, Told

\* Who decides, edits or records has one user in hand, whose row is in progress.
LEMMA InHand ==
  ASSUME IInv, NEW h \in Handler, handler[h].step \in {"fetch", "edit", "mark"}
  PROVE  \E u \in Gated : /\ handler[h].user = {u} /\ (CHOOSE x \in handler[h].user : TRUE) = u
                          /\ granted[handler[h].of][u].state = "in_progress"
                          /\ u \notin handler[h].todo \cup handler[h].unnamed
<1>1. PICK u \in Gated : /\ handler[h].user = {u}
                         /\ granted[handler[h].of][u].state = "in_progress"
                         /\ u \notin handler[h].todo \cup handler[h].unnamed
  BY DEF IInv, Worked, Leased
<1>2. (CHOOSE x \in {u} : TRUE) = u
  OBVIOUS
<1> QED
  BY <1>1, <1>2

\* One message is worked on by one handler, and so is a user unless someone else changed him.
LEMMA OneWorker ==
  ASSUME IInv, NEW h \in Handler, NEW k \in Handler, Leased(h), Leased(k),
         handler[h].of = handler[k].of
  PROVE  h = k
BY DEF IInv, Worked

\* A user whom nobody else changed is in one handler's hand only: he has one pending award.
LEMMA OneAtWork ==
  ASSUME IInv, NEW h \in Handler, NEW k \in Handler,
         handler[h].step \in {"fetch", "edit", "mark"},
         handler[k].step \in {"fetch", "edit", "mark"},
         NEW u \in Gated \ moved, handler[h].user = {u}, handler[k].user = {u}
  PROVE  h = k
<1>1. PICK m : m = handler[h].of
  OBVIOUS
<1>2. PICK n : n = handler[k].of
  OBVIOUS
<1>3. m \in Source /\ n \in Source
  BY <1>1, <1>2, Worker DEF Leased
<1>4. granted[m][u].state = "in_progress" /\ granted[n][u].state = "in_progress"
  BY <1>1, <1>2, InHand
<1>5. Progress(u)
  BY DEF IInv
<1>6. award[m][u] \in AwardState /\ award[n][u] \in AwardState
  BY <1>3, TypeParts DEF IInv
<1>7. award[m][u].state = "pending" /\ award[n][u].state = "pending"
  BY <1>3, <1>4, <1>5, <1>6 DEF Progress, RowFits, AwardState
<1>8. m = n
  BY <1>3, <1>5, <1>7 DEF Progress, OnePending, PendingIn
<1> QED
  BY <1>1, <1>2, <1>8, OneWorker DEF Leased

\* What is decided about a user changes no row, and an outcome "completed" has his role right.
LEMMA FetchKeeps ==
  ASSUME IInv, NEW h \in Handler, Fetch(h)
  PROVE  IInv'
<1>0. /\ handler[h].step = "fetch" /\ Leased(h)
      /\ UNCHANGED <<gateRows, gateDiscord, unrecovered, context>>
  BY DEF Fetch, Step, Leased
<1>1. PICK m : m = handler[h].of
  OBVIOUS
<1>2. /\ loaded /\ WellFormed(handler[h]) /\ m \in Source /\ operation[m].lease = h
  BY <1>0, <1>1, Worker
<1>3. PICK u \in Gated : /\ handler[h].user = {u} /\ (CHOOSE x \in handler[h].user : TRUE) = u
                         /\ granted[m][u].state = "in_progress"
                         /\ u \notin handler[h].todo \cup handler[h].unnamed
  BY <1>0, <1>1, InHand
<1>4. PICK outcome, lines, n :
        /\ outcome \in {"edit", "completed", "failed", "conflict"} /\ lines \in SUBSET Gated
        /\ outcome = "completed" => gates[u] = {granted[m][u].target}
        /\ \/ n = Decided(handler[h], IF outcome = "edit" THEN "edit" ELSE "mark", outcome, lines)
           \/ n = Tried(handler[h], outcome) /\ outcome = "failed"
        /\ Goto(h, n)
  <2> DEFINE row == granted[m][u]
             outcome == IF gates[u] = {row.target} /\ row.target > 0
                        THEN IF Owes(m, u) /\ ~badge[u] THEN "edit" ELSE "completed"
                        ELSE IF gates[u] = {row.expected} \ {0} THEN "edit" ELSE "conflict"
             lines == {x \in {u} : badge[x] \/ Owes(m, x)}
  <2>1. CASE Goto(h, Decided(handler[h], IF outcome = "edit" THEN "edit" ELSE "mark",
                             outcome, lines))
    <3>1. outcome \in {"edit", "completed", "conflict"} /\ lines \in SUBSET Gated
          /\ (outcome = "completed" => gates[u] = {granted[m][u].target})
      OBVIOUS
    <3> HIDE DEF outcome, lines
    <3> QED
      BY <2>1, <3>1
  <2>2. CASE Goto(h, Tried(handler[h], "failed"))
    BY <2>2
  <2>3. \/ Goto(h, Decided(handler[h], IF outcome = "edit" THEN "edit" ELSE "mark",
                           outcome, lines))
        \/ Goto(h, Tried(handler[h], "failed"))
    BY <1>1, <1>3 DEF Fetch, Decided, Tried
  <2> QED
    BY <2>1, <2>2, <2>3
<1>5. /\ WellFormed(n) /\ n.step = IF outcome = "edit" THEN "edit" ELSE "mark"
      /\ SameUsers(n, handler[h]) /\ n.user = {u} /\ n.outcome = outcome
  <2>1. WellFormed(handler[h]) /\ handler[h].step # "idle" /\ handler[h].user = {u}
    BY <1>0, <1>2, <1>3
  <2>2. CASE n = Tried(handler[h], outcome) /\ outcome = "failed"
    BY <1>4, <2>1, <2>2, Trying
  <2>3. CASE n = Decided(handler[h], IF outcome = "edit" THEN "edit" ELSE "mark", outcome, lines)
    <3>1. ASSUME NEW s \in {"edit", "mark"}, n = Decided(handler[h], s, outcome, lines)
          PROVE  /\ WellFormed(n) /\ n.step = s
                 /\ SameUsers(n, handler[h]) /\ n.user = {u} /\ n.outcome = outcome
      BY <1>4, <2>1, <3>1, Deciding
    <3>2. (IF outcome = "edit" THEN "edit" ELSE "mark") \in {"edit", "mark"}
      OBVIOUS
    <3> QED
      BY <2>3, <3>1, <3>2
  <2> QED
    BY <1>4, <2>2, <2>3
<1>6. HandlersOK' /\ handler'[h] = n /\ OthersStay(h)
  BY <1>4, <1>5, Went DEF IInv
<1>7. Planned(h)' /\ Publishing(h)'
  BY <1>5, <1>6 DEF Planned, Publishing, Publishes
<1>8. Worked(h)'
  <2>1. /\ \A x \in handler[h].todo \cup handler[h].unnamed :
             granted[m][x].state \notin {"none", "completed"}
        /\ handler[h].todo \cap handler[h].unnamed = {}
    BY <1>0, <1>1 DEF IInv, Worked
  <2>2. /\ handler'[h].step \in {"edit", "mark"} /\ handler'[h].of = m
        /\ handler'[h].user = {u} /\ handler'[h].todo = handler[h].todo
        /\ handler'[h].unnamed = handler[h].unnamed /\ handler'[h].outcome = outcome
        /\ handler'[h].step = "mark" => outcome # "edit"
    BY <1>1, <1>5, <1>6 DEF SameUsers
  <2>3. operation' = operation /\ granted' = granted /\ gates' = gates
    BY <1>0 DEF gateRows, gateDiscord
  <2> QED
    BY <1>2, <1>3, <1>4, <2>1, <2>2, <2>3 DEF Worked, Leased
<1>9. unrecovered' \subseteq Source
  BY <1>0, TypeParts DEF IInv
<1> QED
  BY <1>0, <1>2, <1>6, <1>7, <1>8, <1>9, HandlerSteps DEF context

\* A step that changes the rows of one message, or the roles of who is in hand.
LEMMA RowSteps ==
  ASSUME IInv, NEW h \in Handler, NEW m \in Source, loaded,
         UNCHANGED <<congrats, loaded, moved, unrecovered>>,
         operation' \in [Source -> OperationState], granted' \in [Source -> [Gated -> RowState]],
         award' \in [Source -> [Gated -> AwardState]],
         bonus' \in [Gated -> BonusState],
         gates' \in [Gated -> SUBSET (1..MaxTier)], badge' \in [Gated -> BOOLEAN],
         OtherOperations(m), operation'[m].published = operation[m].published,
         operation'[m].publication = operation[m].publication,
         operation[m].completed <= operation'[m].completed,
         \A n \in Source \ {m}, u \in Gated : granted'[n][u] = granted[n][u],
         \A u \in Gated : granted[m][u].state = "none" \/ granted[m][u].known
                          => granted'[m][u].state = "none" \/ granted'[m][u].known,
         Done(m) \subseteq Done(m)', \A u \in Gated \ moved : ActiveIn(u) \subseteq ActiveIn(u)',
         \A k \in Handler \ {h} : Leased(k) =>
           /\ handler[k].of = m => /\ operation'[m].lease = operation[m].lease
                                   /\ \A u \in Gated :
                                        /\ granted'[m][u].state = granted[m][u].state
                                        /\ granted'[m][u].target = granted[m][u].target
           /\ \A u \in handler[k].user \ moved : gates'[u] = gates[u],
         TargetsFit', Told(m)', \A u \in Gated \ moved : Progress(u)',
         HandlersOK', OthersStay(h), Worked(h)', Planned(h)', Publishing(h)'
  PROVE  IInv'
<1> USE DEF IInv
<1>0. operation \in [Source -> OperationState]
  BY TypeParts
<1>1. TypeOK'
  BY TypeParts, TypePartsNext
<1>2. AtRest'
  BY DEF AtRest
<1>3. \A n \in Source : Done(n) \subseteq Done(n)'
  <2>1. ASSUME NEW n \in Source, n # m
        PROVE  Done(n) \subseteq Done(n)'
    BY <2>1 DEF Done, InState
  <2> QED
    BY <2>1
<1>4. ASSUME NEW u \in Gated \ moved
      PROVE  Count(u) <= Count(u)' /\ Count(u) \in Nat /\ Count(u)' \in Nat
  <2>1. ActiveIn(u) \subseteq ActiveIn(u)'
    OBVIOUS
  <2> QED
    BY <2>1, CountType, FS_Subset DEF Count
<1>5. ASSUME NEW k \in Handler, k # h
      PROVE  Worked(k)' /\ Planned(k)' /\ Publishing(k)'
  <2>1. handler'[k] = handler[k] /\ WellFormed(handler[k])
    BY <1>5 DEF OthersStay, HandlersOK
  <2>2. PICK n : n = handler[k].of
    OBVIOUS
  <2>3. Worked(k)'
    <3>1. ASSUME Leased(k)
          PROVE  /\ operation'[n].lease = operation[n].lease
                 /\ \A u \in Gated : granted'[n][u].state = granted[n][u].state
                 /\ \A u \in handler[k].user \ moved' :
                      gates'[u] = gates[u] /\ granted'[n][u].target = granted[n][u].target
      <4>1. n \in Source /\ handler[k].user \subseteq Gated
        BY <2>1, <2>2, <3>1 DEF WellFormed, Leased, HandlerState
      <4>2. CASE n = m
        BY <1>5, <2>2, <3>1, <4>1, <4>2
      <4>3. CASE n # m
        <5>1. operation'[n] = operation[n] /\ \A u \in Gated : granted'[n][u] = granted[n][u]
          BY <4>1, <4>3 DEF OtherOperations
        <5>2. \A u \in handler[k].user \ moved : gates'[u] = gates[u]
          BY <1>5, <3>1
        <5> QED
          BY <4>1, <5>1, <5>2
      <4> QED
        BY <4>2, <4>3
    <3> QED
      BY <2>1, <2>2, <3>1, WorkedKept
  <2>4. Planned(k)'
    <3>1. ASSUME handler[k].step = "claim", NEW u \in handler[k].only
          PROVE  /\ granted[n][u].state = "none" \/ granted[n][u].known
                    => granted'[n][u].state = "none" \/ granted'[n][u].known
                 /\ u \notin moved'
                    => Count(u) <= Count(u)' /\ Count(u) \in Nat /\ Count(u)' \in Nat
      <4>1. n \in Source /\ u \in Gated
        BY <2>1, <2>2, <3>1 DEF WellFormed, HandlerState
      <4>2. n # m => granted'[n][u] = granted[n][u]
        BY <4>1
      <4> QED
        BY <1>4, <4>1, <4>2
    <3> QED
      BY <2>1, <2>2, <3>1, PlannedKept
  <2>5. Publishing(k)'
    <3>1. ASSUME Publishes(k)
          PROVE  /\ Told(n) /\ operation'[n].publication = operation[n].publication
                 /\ operation'[n].published = operation[n].published
                 /\ operation[n].completed <= operation'[n].completed
                 /\ Done(n) \subseteq Done(n)' /\ congrats'[n] = congrats[n]
      <4>1. n \in Source /\ operation[n].completed \in Nat /\ Told(n)
        BY <2>2, <3>1, Publisher
      <4>2. CASE n = m
        BY <1>3, <4>1, <4>2
      <4>3. CASE n # m
        <5>1. operation'[n] = operation[n]
          BY <4>1, <4>3 DEF OtherOperations
        <5> QED
          BY <1>3, <4>1, <5>1
      <4> QED
        BY <4>2, <4>3
    <3> QED
      BY <1>0, <2>1, <2>2, <3>1, PublishingKept
  <2> QED
    BY <2>3, <2>4, <2>5
<1>6. ASSUME NEW n \in Source, n # m
      PROVE  Told(n)'
  <2>1. operation'[n] = operation[n] /\ operation[n] \in OperationState
    BY <1>0, <1>6 DEF OtherOperations
  <2>2. operation[n].state = "none" => /\ operation[n].lease = NoHandler
                                       /\ operation[n].publication = NoHandler
    BY DEF Told
  <2> QED
    BY <1>3, <1>6, <2>1, <2>2, ToldKept
<1> QED
  BY <1>1, <1>2, <1>5, <1>6

\* The edit gives the user in hand the role of his pending award, and changes nobody else.
LEMMA EditKeeps ==
  ASSUME IInv, NEW h \in Handler, Edit(h)
  PROVE  IInv'
<1>0. /\ handler[h].step = "edit" /\ Leased(h)
      /\ UNCHANGED <<gateRows, unrecovered, context>>
  BY DEF Edit, Step, Leased
<1>1. PICK m : m = handler[h].of
  OBVIOUS
<1>2. /\ loaded /\ WellFormed(handler[h]) /\ m \in Source /\ Told(m) /\ operation[m].lease = h
      /\ operation \in [Source -> OperationState] /\ granted \in [Source -> [Gated -> RowState]]
  BY <1>0, <1>1, Worker
<1>3. PICK u \in Gated : /\ handler[h].user = {u} /\ (CHOOSE x \in handler[h].user : TRUE) = u
                         /\ granted[m][u].state = "in_progress"
                         /\ u \notin handler[h].todo \cup handler[h].unnamed
  BY <1>0, <1>1, InHand
<1>4. PICK outcome \in {"completed", "failed"} :
        /\ Goto(h, Tried(handler[h], outcome))
        /\ \/ /\ outcome = "completed"
              /\ gates' = [gates EXCEPT ![u] = {granted[m][u].target}]
              /\ badge' = [badge EXCEPT ![u] = u \in handler[h].lines]
              /\ UNCHANGED congrats
           \/ outcome = "failed" /\ UNCHANGED gateDiscord
  <2>1. \/ /\ Goto(h, Tried(handler[h], "completed"))
           /\ gates' = [gates EXCEPT ![u] = {granted[m][u].target}]
           /\ badge' = [badge EXCEPT ![u] = u \in handler[h].lines]
           /\ UNCHANGED congrats
        \/ Goto(h, Tried(handler[h], "failed")) /\ UNCHANGED gateDiscord
    BY <1>1, <1>3 DEF Edit, Tried
  <2> QED
    BY <2>1
<1>5. LET n == Tried(handler[h], outcome) IN
      /\ WellFormed(n) /\ n.step = "mark" /\ SameUsers(n, handler[h]) /\ n.user = {u}
      /\ n.outcome = outcome
  BY <1>0, <1>2, <1>3, Trying
<1>6. HandlersOK' /\ handler'[h] = Tried(handler[h], outcome) /\ OthersStay(h)
  BY <1>4, <1>5, Went DEF IInv
<1>7. /\ handler'[h].step = "mark" /\ handler'[h].of = m /\ handler'[h].user = {u}
      /\ handler'[h].todo = handler[h].todo /\ handler'[h].unnamed = handler[h].unnamed
      /\ handler'[h].outcome = outcome
  BY <1>1, <1>5, <1>6 DEF SameUsers
<1>8. Planned(h)' /\ Publishing(h)'
  BY <1>7 DEF Planned, Publishing, Publishes
<1>9. /\ operation' = operation /\ granted' = granted /\ award' = award /\ bonus' = bonus
      /\ unrecovered' = unrecovered /\ loaded' = loaded /\ moved' = moved /\ congrats' = congrats
  BY <1>0, <1>4 DEF gateRows, context, gateDiscord
<1>10. granted[m][u].target \in 1..MaxTier
  BY <1>2, <1>3 DEF IInv, TargetsFit
<1>11. /\ gates' \in [Gated -> SUBSET (1..MaxTier)] /\ badge' \in [Gated -> BOOLEAN]
       /\ \A v \in Gated \ {u} : gates'[v] = gates[v]
       /\ outcome = "completed" => gates'[u] = {granted[m][u].target}
       /\ outcome = "failed" => gates' = gates
  <2>1. gates \in [Gated -> SUBSET (1..MaxTier)] /\ badge \in [Gated -> BOOLEAN]
    BY TypeParts DEF IInv
  <2>2. CASE /\ outcome = "completed"
             /\ gates' = [gates EXCEPT ![u] = {granted[m][u].target}]
             /\ badge' = [badge EXCEPT ![u] = u \in handler[h].lines]
    <3>1. badge' \in [Gated -> BOOLEAN]
      <4> DEFINE held == u \in handler[h].lines
      <4>1. badge' = [badge EXCEPT ![u] = held] /\ held \in BOOLEAN
        BY <2>2
      <4> HIDE DEF held
      <4> QED
        BY <2>1, <4>1
    <3>2. /\ gates' \in [Gated -> SUBSET (1..MaxTier)]
          /\ \A v \in Gated \ {u} : gates'[v] = gates[v]
          /\ gates'[u] = {granted[m][u].target}
      BY <1>10, <2>1, <2>2
    <3> QED
      BY <2>2, <3>1, <3>2
  <2>3. CASE outcome = "failed" /\ UNCHANGED gateDiscord
    BY <2>1, <2>3 DEF gateDiscord
  <2> QED
    BY <1>4, <2>2, <2>3
<1>12. Worked(h)'
  <2>1. /\ \A x \in handler[h].todo \cup handler[h].unnamed :
             granted[m][x].state \notin {"none", "completed"}
        /\ handler[h].todo \cap handler[h].unnamed = {}
    BY <1>0, <1>1 DEF IInv, Worked
  <2> QED
    BY <1>2, <1>3, <1>4, <1>7, <1>9, <1>11, <2>1 DEF Worked, Leased
<1>13. ASSUME NEW k \in Handler \ {h}, Leased(k)
       PROVE  \A v \in handler[k].user \ moved : gates'[v] = gates[v]
  <2>1. ASSUME NEW v \in handler[k].user \ moved
        PROVE  v \in Gated /\ v # u
    <3>1. v \in Gated /\ handler[k].user = {v} /\ handler[k].step \in {"fetch", "edit", "mark"}
      <4>1. handler[k].step # "run"
        BY <1>13, <2>1 DEF IInv, Worked
      <4>2. handler[k].step \in {"fetch", "edit", "mark"}
        BY <1>13, <4>1 DEF Leased
      <4> QED
        BY <2>1, <4>2, InHand
    <3> QED
      BY <1>0, <1>3, <2>1, <3>1, OneAtWork
  <2> QED
    BY <1>11, <2>1
<1>14. ASSUME NEW v \in Gated \ moved
       PROVE  Progress(v)'
  <2>1. CASE gates'[v] = gates[v]
    BY <1>9, <2>1, ProgressKept DEF IInv
  <2>2. CASE gates'[v] # gates[v]
    <3>1. v = u /\ gates'[u] = {granted[m][u].target}
      BY <1>11, <2>2, <1>4
    <3>2. Progress(u)
      BY <3>1 DEF IInv
    <3>3. award[m][u] \in AwardState
      BY <1>2, TypeParts DEF IInv
    <3>4. m \in PendingIn(u)
      BY <1>2, <1>3, <3>2, <3>3 DEF Progress, RowFits, AwardState, PendingIn
    <3>5. granted[m][u].target = Count(u) + 1
      BY <3>2, <3>4 DEF Progress, OnePending
    <3>6. Count(u)' = Count(u) /\ PendingIn(u)' = PendingIn(u)
      BY <1>9 DEF Count, ActiveIn, PendingIn
    <3>7. RoleFits(u)'
      BY <1>3, <1>9, <3>1, <3>4, <3>5, <3>6 DEF RoleFits
    <3>8. /\ OrdinalsOf(u, {"active"})' = OrdinalsOf(u, {"active"})
          /\ OnePending(u)' /\ \A n \in Source : RowFits(n, u)'
      BY <1>9, <3>2, <3>6 DEF OrdinalsOf, Progress, OnePending, RowFits
    <3> QED
      BY <3>1, <3>2, <3>6, <3>7, <3>8 DEF Progress
  <2> QED
    BY <2>1, <2>2
<1>15. /\ Done(m)' = Done(m) /\ TargetsFit' /\ \A v \in Gated : ActiveIn(v) = ActiveIn(v)'
  BY <1>9 DEF Done, InState, IInv, TargetsFit, ActiveIn
<1>16. Told(m)'
  BY <1>2, <1>9, <1>15 DEF Told
<1>17. /\ OtherOperations(m) /\ operation' \in [Source -> OperationState]
       /\ operation'[m].published = operation[m].published
       /\ operation'[m].publication = operation[m].publication
       /\ operation'[m].lease = operation[m].lease
       /\ operation[m].completed <= operation'[m].completed
  BY <1>2, <1>9 DEF OperationState, OtherOperations
<1>18. award \in [Source -> [Gated -> AwardState]]
       /\ bonus \in [Gated -> BonusState]
  BY TypeParts DEF IInv
<1> QED
  BY <1>2, <1>6, <1>8, <1>9, <1>11, <1>12, <1>13, <1>14, <1>15, <1>16, <1>17, <1>18, RowSteps

\* A row that is begun was unfinished.
LEMMA BeginKeeps ==
  ASSUME IInv, NEW h \in Handler, NEW u \in Gated, Begin(h, u)
  PROVE  IInv'
<1>0. /\ handler[h].step = "run" /\ Leased(h) /\ u \in handler[h].todo \cup handler[h].unnamed
      /\ UNCHANGED <<operation, award, bonus, gateDiscord, unrecovered, context, budget>>
  BY DEF Begin, Step, Leased
<1>1. PICK m : m = handler[h].of
  OBVIOUS
<1>2. /\ loaded /\ WellFormed(handler[h]) /\ m \in Source /\ Told(m) /\ operation[m].lease = h
      /\ operation \in [Source -> OperationState] /\ granted \in [Source -> [Gated -> RowState]]
  BY <1>0, <1>1, Worker
<1>3. granted' = [granted EXCEPT ![m][u].state = "in_progress"]
  BY <1>1 DEF Begin
<1>4. /\ granted' \in [Source -> [Gated -> RowState]] /\ OtherRows(m, u)
      /\ granted'[m][u].state = "in_progress"
      /\ granted'[m][u].known = granted[m][u].known
      /\ granted'[m][u].target = granted[m][u].target
  BY <1>2, <1>3, RowSet DEF MemberState
<1>5. PICK n : /\ Goto(h, n) /\ WellFormed(n) /\ n.of = m /\ n.user = {u}
               /\ n.step = "fetch" \/ (n.step = "mark" /\ n.outcome = "conflict")
               /\ n.todo \subseteq handler[h].todo /\ n.unnamed \subseteq handler[h].unnamed
               /\ u \notin n.todo \cup n.unnamed
  <2>1. handler[h].todo \cap handler[h].unnamed = {}
    BY <1>0 DEF IInv, Worked
  <2>2. CASE u \in handler[h].unnamed
    <3>1. Goto(h, Unnaming(handler[h], u))
      BY <2>2 DEF Begin, Unnaming
    <3>2. LET n == Unnaming(handler[h], u) IN
          /\ WellFormed(n) /\ n.step = "mark" /\ n.of = m /\ n.user = {u}
          /\ n.todo = handler[h].todo /\ n.unnamed = handler[h].unnamed \ {u}
          /\ n.outcome = "conflict"
      BY <1>0, <1>1, <1>2, Working
    <3> QED
      BY <2>1, <2>2, <3>1, <3>2
  <2>3. CASE u \notin handler[h].unnamed
    <3>1. Goto(h, Fetching(handler[h], u))
      BY <2>3 DEF Begin, Fetching
    <3>2. LET n == Fetching(handler[h], u) IN
          /\ WellFormed(n) /\ n.step = "fetch" /\ n.of = m /\ n.user = {u}
          /\ n.todo = handler[h].todo \ {u} /\ n.unnamed = handler[h].unnamed
      BY <1>0, <1>1, <1>2, Working
    <3> QED
      BY <2>3, <3>1, <3>2
  <2> QED
    BY <2>2, <2>3
<1>6. HandlersOK' /\ handler'[h] = n /\ OthersStay(h)
  BY <1>5, Went DEF IInv
<1>7. Planned(h)' /\ Publishing(h)'
  BY <1>5, <1>6 DEF Planned, Publishing, Publishes
<1>8. /\ operation' = operation /\ award' = award /\ bonus' = bonus /\ gates' = gates
      /\ badge' = badge /\ congrats' = congrats
      /\ unrecovered' = unrecovered /\ loaded' = loaded /\ moved' = moved
  BY <1>0 DEF context, gateDiscord
<1>9. /\ \A x \in handler[h].todo \cup handler[h].unnamed :
           granted[m][x].state \notin {"none", "completed"}
      /\ handler[h].todo \cap handler[h].unnamed = {}
  BY <1>0, <1>1 DEF IInv, Worked
<1>10. Worked(h)'
  <2>1. \A x \in n.todo \cup n.unnamed \cup n.user :
          granted'[m][x].state \notin {"none", "completed"}
    <3>1. n.todo \subseteq Gated /\ n.unnamed \subseteq Gated
      BY <1>5 DEF WellFormed, HandlerState
    <3> QED
      BY <1>2, <1>4, <1>5, <1>9, <3>1 DEF OtherRows
  <2> QED
    BY <1>2, <1>4, <1>5, <1>6, <1>8, <1>9, <2>1 DEF Worked, Leased
<1>11. granted[m][u].state \notin {"none", "completed"}
  BY <1>0, <1>9
<1>12. Done(m)' = Done(m)
  BY <1>2, <1>4, <1>11 DEF Done, InState, OtherRows
<1>13. TargetsFit'
  BY <1>2, <1>4, <1>11 DEF IInv, TargetsFit, OtherRows
<1>14. Told(m)'
  BY <1>2, <1>8, <1>12 DEF Told
<1>15. ASSUME NEW v \in Gated \ moved
       PROVE  Progress(v)'
  <2>1. CASE v # u
    BY <1>4, <1>8, <2>1, ProgressKept DEF IInv, OtherRows
  <2>2. CASE v = u
    <3>1. Progress(u)
      BY <2>2 DEF IInv
    <3>2. Count(u)' = Count(u) /\ PendingIn(u)' = PendingIn(u)
          /\ OrdinalsOf(u, {"active"})' = OrdinalsOf(u, {"active"})
      BY <1>8 DEF Count, ActiveIn, PendingIn, OrdinalsOf
    <3>3. \A k \in Source : k # m => granted'[k][u] = granted[k][u]
      BY <1>4 DEF OtherRows
    <3>4. OnePending(u)'
      BY <1>4, <1>8, <3>1, <3>2, <3>3 DEF Progress, OnePending, PendingIn
    <3>5. RoleFits(u)'
      BY <1>4, <1>8, <3>1, <3>2, <3>3 DEF Progress, RoleFits, PendingIn
    <3>6. \A k \in Source : RowFits(k, u)'
      <4>1. ASSUME NEW k \in Source
            PROVE  RowFits(k, u)'
        <5>1. RowFits(k, u)
          BY <3>1 DEF Progress
        <5> QED
          BY <1>4, <1>8, <1>11, <3>3, <5>1 DEF RowFits
      <4> QED
        BY <4>1
    <3> QED
      BY <2>2, <3>1, <3>2, <3>4, <3>5, <3>6 DEF Progress
  <2> QED
    BY <2>1, <2>2
<1>16. /\ award \in [Source -> [Gated -> AwardState]]
       /\ bonus \in [Gated -> BonusState]
       /\ gates \in [Gated -> SUBSET (1..MaxTier)] /\ badge \in [Gated -> BOOLEAN]
  BY TypeParts DEF IInv
<1>17. /\ \A k \in Source \ {m}, v \in Gated : granted'[k][v] = granted[k][v]
       /\ \A v \in Gated : granted[m][v].state = "none" \/ granted[m][v].known
                           => granted'[m][v].state = "none" \/ granted'[m][v].known
  BY <1>2, <1>4, <1>11 DEF OtherRows
<1>18. \A k \in Handler \ {h} : Leased(k) => handler[k].of # m
  BY <1>0, <1>1, OneWorker
<1>19. /\ OtherOperations(m) /\ operation' \in [Source -> OperationState]
       /\ operation'[m].published = operation[m].published
       /\ operation'[m].publication = operation[m].publication
       /\ operation[m].completed <= operation'[m].completed
  BY <1>2, <1>8 DEF OperationState, OtherOperations
<1>20. \A v \in Gated : ActiveIn(v) \subseteq ActiveIn(v)'
  BY <1>8 DEF ActiveIn
<1> HIDE DEF IInv
<1> QED
  BY <1>2, <1>4, <1>6, <1>7, <1>8, <1>10, <1>12, <1>13, <1>14, <1>15, <1>16, <1>17, <1>18,
     <1>19, <1>20, RowSteps

\* A completed row makes the next award active, without a gap.
LEMMA Earned ==
  ASSUME IInv, NEW m \in Source, NEW u \in Gated \ moved,
         granted[m][u].state = "in_progress", gates[u] = {granted[m][u].target},
         gates' = gates, granted' \in [Source -> [Gated -> RowState]],
         award' \in [Source -> [Gated -> AwardState]], OtherRows(m, u), OtherAwards(m, u),
         granted'[m][u].state = "completed", granted'[m][u].known = granted[m][u].known,
         award[m][u].state = "pending" => /\ award'[m][u].state = "active"
                                          /\ award'[m][u].ordinal = award[m][u].ordinal
  PROVE  Progress(u)'
<1>1. Progress(u)
  BY DEF IInv
<1>2. award[m][u] \in AwardState
  BY TypeParts DEF IInv
<1>3. award[m][u].state = "pending" /\ m \in PendingIn(u)
  BY <1>1, <1>2 DEF Progress, RowFits, AwardState, PendingIn
<1>4. /\ award[m][u].ordinal = Count(u) + 1 /\ granted[m][u].target = Count(u) + 1
      /\ PendingIn(u) = {m}
  BY <1>1, <1>3 DEF Progress, OnePending
<1>5. \A n \in Source : n # m => award'[n][u] = award[n][u] /\ granted'[n][u] = granted[n][u]
  BY DEF OtherRows, OtherAwards
<1>6. ActiveIn(u)' = ActiveIn(u) \cup {m} /\ m \notin ActiveIn(u) /\ PendingIn(u)' = {}
  BY <1>3, <1>4, <1>5 DEF ActiveIn, PendingIn
<1>7. IsFiniteSet(ActiveIn(u)) /\ Count(u) \in Nat
  BY CountType
<1>8. Count(u)' = Count(u) + 1
  BY <1>6, <1>7, FS_AddElement DEF Count
<1>9. OrdinalsOf(u, {"active"})' = OrdinalsOf(u, {"active"}) \cup {Count(u) + 1}
  <2>1. ASSUME NEW i
        PROVE  /\ i \in OrdinalsOf(u, {"active"})
                  <=> \E n \in ActiveIn(u) : i = award[n][u].ordinal
               /\ i \in OrdinalsOf(u, {"active"})'
                  <=> \E n \in ActiveIn(u)' : i = award'[n][u].ordinal
    BY DEF OrdinalsOf, ActiveIn
  <2>2. \A n \in ActiveIn(u) : award'[n][u].ordinal = award[n][u].ordinal
    BY <1>5, <1>6 DEF ActiveIn
  <2>3. award'[m][u].ordinal = Count(u) + 1
    BY <1>3, <1>4
  <2>4. ASSUME NEW i
        PROVE  i \in OrdinalsOf(u, {"active"})'
               <=> i \in OrdinalsOf(u, {"active"}) \cup {Count(u) + 1}
    BY <1>6, <2>1, <2>2, <2>3
  <2> QED
    BY <2>4
<1>10. OrdinalsOf(u, {"active"})' = 1..Count(u)'
  <2>1. OrdinalsOf(u, {"active"}) = 1..Count(u)
    BY <1>1 DEF Progress
  <2>2. 1..(Count(u) + 1) = 1..Count(u) \cup {Count(u) + 1}
    BY <1>7, OneMore
  <2> QED
    BY <1>8, <1>9, <2>1, <2>2
<1>11. OnePending(u)' /\ RoleFits(u)'
  <2>1. gates'[u] = {Count(u) + 1} /\ {Count(u) + 1} \ {0} = {Count(u) + 1}
    BY <1>4, <1>7
  <2> QED
    BY <1>6, <1>8, <2>1 DEF OnePending, RoleFits
<1>12. ASSUME NEW n \in Source
       PROVE  RowFits(n, u)'
  <2>1. RowFits(n, u)
    BY <1>1 DEF Progress
  <2> QED
    BY <1>3, <1>5, <2>1 DEF RowFits
<1> QED
  BY <1>10, <1>11, <1>12 DEF Progress

\* The outcome is recorded in the row of the user in hand, and his award becomes active when
\* his role is that of the next tier.
LEMMA MarkKeeps ==
  ASSUME IInv, NEW h \in Handler, Mark(h)
  PROVE  IInv'
<1>0. /\ handler[h].step = "mark" /\ Leased(h)
      /\ UNCHANGED <<operation, gateDiscord, unrecovered, context, budget>>
      /\ Goto(h, GoneOn(handler[h]))
  BY DEF Mark, Step, Leased, GoneOn
<1>1. PICK m : m = handler[h].of
  OBVIOUS
<1>2. /\ loaded /\ WellFormed(handler[h]) /\ m \in Source /\ Told(m) /\ operation[m].lease = h
      /\ operation \in [Source -> OperationState] /\ granted \in [Source -> [Gated -> RowState]]
  BY <1>0, <1>1, Worker
<1>3. PICK u \in Gated : /\ handler[h].user = {u} /\ (CHOOSE x \in handler[h].user : TRUE) = u
                         /\ granted[m][u].state = "in_progress"
                         /\ u \notin handler[h].todo \cup handler[h].unnamed
  BY <1>0, <1>1, InHand
<1>4. PICK outcome \in {"completed", "failed", "conflict"} :
        /\ outcome = handler[h].outcome
        /\ outcome = "completed" /\ u \notin moved => gates[u] = {granted[m][u].target}
  BY <1>0, <1>1, <1>3 DEF IInv, Worked
<1> DEFINE done == outcome = "completed" /\ granted[m][u].known
<1>5. /\ granted' = [granted EXCEPT ![m][u].state = outcome]
      /\ award' = IF done /\ award[m][u].state = "pending"
                  THEN [award EXCEPT ![m][u].state = "active"] ELSE award
      /\ bonus' = IF done /\ bonus[u] = [of |-> m, state |-> "pending"]
                  THEN [bonus EXCEPT ![u].state = "active"] ELSE bonus
  BY <1>1, <1>3, <1>4 DEF Mark
<1>6. /\ granted' \in [Source -> [Gated -> RowState]] /\ OtherRows(m, u)
      /\ granted'[m][u].state = outcome
      /\ granted'[m][u].known = granted[m][u].known
      /\ granted'[m][u].target = granted[m][u].target
  BY <1>2, <1>5, RowSet DEF MemberState
<1>7. /\ award' \in [Source -> [Gated -> AwardState]] /\ OtherAwards(m, u)
      /\ award' = award \/ /\ done /\ award[m][u].state = "pending"
                           /\ award'[m][u].state = "active"
                           /\ award'[m][u].ordinal = award[m][u].ordinal
      /\ done /\ award[m][u].state = "pending" => award'[m][u].state = "active"
                                                  /\ award'[m][u].ordinal = award[m][u].ordinal
  <2>1. award \in [Source -> [Gated -> AwardState]]
    BY TypeParts DEF IInv
  <2>2. CASE done /\ award[m][u].state = "pending"
    BY <1>2, <1>5, <2>1, <2>2, Activated
  <2>3. CASE ~(done /\ award[m][u].state = "pending")
    BY <1>5, <2>1, <2>3 DEF OtherAwards
  <2> QED
    BY <2>2, <2>3
<1>8. bonus' \in [Gated -> BonusState]
  <2>1. bonus \in [Gated -> BonusState]
    BY TypeParts DEF IInv
  <2>2. bonus' = bonus \/ bonus' = [bonus EXCEPT ![u].state = "active"]
    BY <1>5
  <2> QED
    BY <2>1, <2>2 DEF BonusState
<1>9. LET n == GoneOn(handler[h]) IN
      WellFormed(n) /\ n.step = "run" /\ SameUsers(n, handler[h]) /\ n.user = {}
  BY <1>0, <1>2, GoingOn
<1>10. HandlersOK' /\ handler'[h] = GoneOn(handler[h]) /\ OthersStay(h)
  BY <1>0, <1>9, Went DEF IInv
<1>11. /\ handler'[h].step = "run" /\ handler'[h].of = m /\ handler'[h].user = {}
       /\ handler'[h].todo = handler[h].todo /\ handler'[h].unnamed = handler[h].unnamed
  BY <1>1, <1>9, <1>10 DEF SameUsers
<1>12. Planned(h)' /\ Publishing(h)'
  BY <1>11 DEF Planned, Publishing, Publishes
<1>13. /\ operation' = operation /\ gates' = gates /\ badge' = badge /\ congrats' = congrats
       /\ unrecovered' = unrecovered /\ loaded' = loaded /\ moved' = moved
  BY <1>0 DEF context, gateDiscord
<1>14. Worked(h)'
  <2>1. /\ \A x \in handler[h].todo \cup handler[h].unnamed :
             granted[m][x].state \notin {"none", "completed"}
        /\ handler[h].todo \cap handler[h].unnamed = {}
    BY <1>0, <1>1 DEF IInv, Worked
  <2>2. \A x \in handler[h].todo \cup handler[h].unnamed :
          granted'[m][x].state \notin {"none", "completed"}
    <3>1. handler[h].todo \subseteq Gated /\ handler[h].unnamed \subseteq Gated
      BY <1>2 DEF WellFormed, HandlerState
    <3> QED
      BY <1>2, <1>3, <1>6, <2>1, <3>1 DEF OtherRows
  <2> QED
    BY <1>2, <1>11, <1>13, <2>1, <2>2 DEF Worked, Leased
<1>15. Done(m) \subseteq Done(m)'
  BY <1>2, <1>3, <1>6 DEF Done, InState, OtherRows
<1>16. TargetsFit'
  BY <1>2, <1>3, <1>6 DEF IInv, TargetsFit, OtherRows
<1>17. Told(m)'
  <2>1. operation'[m].state = "none" => /\ operation'[m].lease = NoHandler
                                        /\ operation'[m].publication = NoHandler
    BY <1>2, <1>13 DEF Told
  <2>2. operation[m] \in OperationState
    BY <1>2
  <2> QED
    BY <1>2, <1>13, <1>15, <2>1, <2>2, ToldKept
<1> HIDE DEF done
<1>18. ASSUME NEW v \in Gated \ moved
       PROVE  Progress(v)'
  <2>1. CASE v # u
    BY <1>6, <1>7, <1>13, <2>1, ProgressKept DEF IInv, OtherRows, OtherAwards
  <2>2. CASE v = u /\ outcome = "completed"
    <3>1. granted[m][u].known
      BY <1>2, <1>3, <2>2 DEF IInv, Progress, RowFits
    <3>2. done
      BY <2>2, <3>1 DEF done
    <3>3. /\ award' \in [Source -> [Gated -> AwardState]] /\ OtherAwards(m, u)
          /\ award[m][u].state = "pending" => /\ award'[m][u].state = "active"
                                              /\ award'[m][u].ordinal = award[m][u].ordinal
      BY <1>7, <3>2
    <3>4. u \notin moved /\ gates[u] = {granted[m][u].target} /\ gates' = gates
      BY <1>4, <1>13, <2>2
    <3> QED
      BY <1>2, <1>3, <1>6, <2>2, <3>3, <3>4, Earned
  <2>3. CASE v = u /\ outcome # "completed"
    <3>1. Progress(u)
      BY <2>3 DEF IInv
    <3>2. award' = award
      BY <1>7, <2>3 DEF done
    <3>3. Count(u)' = Count(u) /\ PendingIn(u)' = PendingIn(u)
          /\ OrdinalsOf(u, {"active"})' = OrdinalsOf(u, {"active"})
      BY <3>2 DEF Count, ActiveIn, PendingIn, OrdinalsOf
    <3>4. \A k \in Source : k # m => granted'[k][u] = granted[k][u]
      BY <1>6 DEF OtherRows
    <3>5. OnePending(u)'
      BY <1>6, <3>1, <3>2, <3>3, <3>4 DEF Progress, OnePending, PendingIn
    <3>6. RoleFits(u)'
      BY <1>6, <1>13, <3>1, <3>2, <3>3, <3>4 DEF Progress, RoleFits, PendingIn
    <3>7. ASSUME NEW k \in Source
          PROVE  RowFits(k, u)'
      <4>1. RowFits(k, u)
        BY <3>1 DEF Progress
      <4> QED
        BY <1>3, <1>6, <2>3, <3>2, <3>4, <4>1 DEF RowFits
    <3> QED
      BY <2>3, <3>1, <3>3, <3>5, <3>6, <3>7 DEF Progress
  <2> QED
    BY <2>1, <2>2, <2>3
<1>19. gates \in [Gated -> SUBSET (1..MaxTier)] /\ badge \in [Gated -> BOOLEAN]
  BY TypeParts DEF IInv
<1>20. /\ \A k \in Source \ {m}, v \in Gated : granted'[k][v] = granted[k][v]
       /\ \A v \in Gated : granted[m][v].state = "none" \/ granted[m][v].known
                           => granted'[m][v].state = "none" \/ granted'[m][v].known
  BY <1>2, <1>3, <1>6 DEF OtherRows
<1>21. \A k \in Handler \ {h} : Leased(k) => handler[k].of # m
  BY <1>0, <1>1, OneWorker
<1>22. /\ OtherOperations(m) /\ operation' \in [Source -> OperationState]
       /\ operation'[m].published = operation[m].published
       /\ operation'[m].publication = operation[m].publication
       /\ operation[m].completed <= operation'[m].completed
  BY <1>2, <1>13 DEF OperationState, OtherOperations
<1>23. \A v \in Gated : ActiveIn(v) \subseteq ActiveIn(v)'
  BY <1>7 DEF ActiveIn, OtherAwards
<1> QED
  BY <1>2, <1>6, <1>7, <1>8, <1>10, <1>12, <1>13, <1>14, <1>15, <1>16, <1>17, <1>18, <1>19,
     <1>20, <1>21, <1>22, <1>23, RowSteps

\* The rows that are logged keep their state.
LEMMA MarkLoggedKeeps ==
  ASSUME IInv, NEW h \in Handler, MarkLogged(h)
  PROVE  IInv'
<1>0. /\ handler[h].step = "logged" /\ Goto(h, LogDone(handler[h]))
      /\ UNCHANGED <<operation, award, bonus, gateDiscord, unrecovered, context, budget>>
  BY DEF MarkLogged, Step, LogDone
<1>1. loaded /\ WellFormed(handler[h]) /\ handler[h].of \in Source
  BY <1>0, AtWork
<1>2. PICK m \in Source : m = handler[h].of
  BY <1>1
<1>3. /\ operation \in [Source -> OperationState] /\ granted \in [Source -> [Gated -> RowState]]
      /\ award \in [Source -> [Gated -> AwardState]]
      /\ bonus \in [Gated -> BonusState]
      /\ gates \in [Gated -> SUBSET (1..MaxTier)] /\ badge \in [Gated -> BOOLEAN]
  BY TypeParts DEF IInv
<1> DEFINE rows == [u \in Gated |->
                      IF u \in handler[h].unlogged /\ granted[m][u].state = "completed"
                      THEN [granted[m][u] EXCEPT !.logged = TRUE] ELSE granted[m][u]]
<1>4. granted' = [granted EXCEPT ![m] = rows]
  BY <1>2 DEF MarkLogged
<1>5. /\ rows \in [Gated -> RowState]
      /\ \A u \in Gated : /\ rows[u].state = granted[m][u].state
                          /\ rows[u].known = granted[m][u].known
                          /\ rows[u].target = granted[m][u].target
  <2>1. ASSUME NEW u \in Gated
        PROVE  LET row == IF u \in handler[h].unlogged /\ granted[m][u].state = "completed"
                          THEN [granted[m][u] EXCEPT !.logged = TRUE] ELSE granted[m][u] IN
               /\ row \in RowState /\ row.state = granted[m][u].state
               /\ row.known = granted[m][u].known /\ row.target = granted[m][u].target
    <3>1. granted[m][u] \in RowState
      BY <1>3
    <3> QED
      BY <3>1 DEF RowState
  <2> QED
    BY <2>1
<1> HIDE DEF rows
<1>6. /\ granted' \in [Source -> [Gated -> RowState]]
      /\ \A n \in Source \ {m}, u \in Gated : granted'[n][u] = granted[n][u]
      /\ \A n \in Source, u \in Gated : /\ granted'[n][u].state = granted[n][u].state
                                        /\ granted'[n][u].known = granted[n][u].known
                                        /\ granted'[n][u].target = granted[n][u].target
  BY <1>3, <1>4, <1>5
<1>7. WellFormed(LogDone(handler[h])) /\ LogDone(handler[h]).step = "publish"
  BY <1>0, <1>1, Ending
<1>8. HandlersOK' /\ handler'[h] = LogDone(handler[h]) /\ OthersStay(h)
  BY <1>0, <1>7, Went DEF IInv
<1>9. Worked(h)' /\ Planned(h)' /\ Publishing(h)'
  BY <1>7, <1>8, Quiet
<1>10. /\ operation' = operation /\ award' = award /\ bonus' = bonus /\ gates' = gates
       /\ badge' = badge /\ congrats' = congrats
       /\ unrecovered' = unrecovered /\ loaded' = loaded /\ moved' = moved
  BY <1>0 DEF context, gateDiscord
<1>11. /\ Done(m)' = Done(m) /\ TargetsFit' /\ \A u \in Gated : ActiveIn(u) = ActiveIn(u)'
  BY <1>2, <1>6, <1>10 DEF Done, InState, IInv, TargetsFit, ActiveIn
<1>12. Told(m)'
  BY <1>10, <1>11 DEF Told, IInv
<1>13. \A u \in Gated \ moved : Progress(u)'
  BY <1>6, <1>10, ProgressKept DEF IInv
<1>14. /\ OtherOperations(m) /\ operation' \in [Source -> OperationState]
       /\ operation'[m].published = operation[m].published
       /\ operation'[m].publication = operation[m].publication
       /\ operation'[m].lease = operation[m].lease
       /\ operation[m].completed <= operation'[m].completed
  BY <1>3, <1>10 DEF OperationState, OtherOperations
<1>15. \A u \in Gated :
         /\ granted'[m][u].state = granted[m][u].state
         /\ granted'[m][u].target = granted[m][u].target
         /\ granted[m][u].state = "none" \/ granted[m][u].known
            => granted'[m][u].state = "none" \/ granted'[m][u].known
  BY <1>6
<1> QED
  BY <1>1, <1>3, <1>6, <1>8, <1>9, <1>10, <1>11, <1>12, <1>13, <1>14, <1>15, RowSteps

\* The end counts the completed rows and gives the lease back.
LEMMA FinalizeKeeps ==
  ASSUME IInv, NEW h \in Handler, Finalize(h)
  PROVE  IInv'
<1>0. /\ handler[h].step = "run" /\ Leased(h)
      /\ UNCHANGED <<granted, award, bonus, gateDiscord, unrecovered, context, budget>>
  BY DEF Finalize, Step, Leased
<1>1. PICK m : m = handler[h].of
  OBVIOUS
<1>2. /\ loaded /\ WellFormed(handler[h]) /\ m \in Source /\ Told(m) /\ operation[m].lease = h
      /\ operation \in [Source -> OperationState] /\ granted \in [Source -> [Gated -> RowState]]
  BY <1>0, <1>1, Worker
<1> DEFINE count == Cardinality(Done(m))
           state == IF count = Cardinality(Rows(m)) THEN "completed" ELSE "partial"
<1>3. /\ operation' = [operation EXCEPT ![m].state = state, ![m].completed = count,
                                        ![m].lease = NoHandler]
      /\ Goto(h, Through(handler[h], Unlogged(m), operation[m].published < count))
  BY <1>1 DEF Finalize, Through, Done
<1>4. count \in Nat /\ state \in {"completed", "partial"}
  BY <1>2, DoneFinite
<1>5. operation[m].completed <= count /\ operation[m].completed \in Nat
      /\ operation[m].published \in Nat /\ operation[m].published <= operation[m].completed
  BY <1>2 DEF Told, OperationState
<1>6. operation[m].published = count => congrats[m] \ moved = Done(m) \ moved
  BY <1>2 DEF Told
<1>7. Done(m)' = Done(m)
  BY <1>0 DEF Done, InState
<1>8. Unlogged(m) \in SUBSET Gated
  BY DEF Unlogged, InState
<1>9. (operation[m].published < count) \in BOOLEAN
  BY <1>4, <1>5
<1>10. PICK behind \in BOOLEAN : Goto(h, Through(handler[h], Unlogged(m), behind))
  BY <1>3, <1>9
<1>11. PICK n : n = Cardinality(Done(m))
  OBVIOUS
<1>12. n = count
  BY <1>11
<1> HIDE DEF count, state
<1>13. /\ operation' \in [Source -> OperationState] /\ OtherOperations(m)
       /\ operation'[m].state = state /\ operation'[m].completed = count
       /\ operation'[m].published = operation[m].published
       /\ operation'[m].publication = operation[m].publication
  BY <1>2, <1>3, <1>4, Counted
<1>14. /\ WellFormed(Through(handler[h], Unlogged(m), behind))
       /\ Through(handler[h], Unlogged(m), behind).step = "log"
  BY <1>0, <1>2, <1>8, Ending
<1>15. HandlersOK' /\ handler'[h] = Through(handler[h], Unlogged(m), behind) /\ OthersStay(h)
  BY <1>10, <1>14, Went DEF IInv
<1>16. Worked(h)' /\ Planned(h)' /\ Publishing(h)'
  BY <1>14, <1>15, Quiet
<1>17. /\ granted' = granted /\ award' = award /\ bonus' = bonus /\ gates' = gates
       /\ badge' = badge /\ congrats' = congrats
       /\ unrecovered' = unrecovered /\ loaded' = loaded /\ moved' = moved
  BY <1>0 DEF context, gateDiscord
<1>18. TargetsFit' /\ \A u \in Gated : ActiveIn(u) = ActiveIn(u)'
  BY <1>17 DEF IInv, TargetsFit, ActiveIn
<1>19. Told(m)'
  BY <1>4, <1>5, <1>6, <1>7, <1>11, <1>12, <1>13, <1>17 DEF Told
<1>20. \A u \in Gated \ moved : Progress(u)'
  BY <1>17, ProgressKept DEF IInv
<1>21. \A k \in Handler \ {h} : Leased(k) => handler[k].of # m
  BY <1>0, <1>1, OneWorker
<1>22. /\ award \in [Source -> [Gated -> AwardState]]
       /\ bonus \in [Gated -> BonusState]
       /\ gates \in [Gated -> SUBSET (1..MaxTier)] /\ badge \in [Gated -> BOOLEAN]
  BY TypeParts DEF IInv
<1> QED
  BY <1>2, <1>5, <1>7, <1>13, <1>15, <1>16, <1>17, <1>18, <1>19, <1>20, <1>21, <1>22, RowSteps

-----------------------------------------------------------------------------
(* The claim *)

\* The ordinals of a user's awards, with the one that is pending.
LEMMA OrdinalsInUse ==
  ASSUME IInv, NEW u \in Gated \ moved
  PROVE  OrdinalsOf(u, {"pending", "active"})
           = IF PendingIn(u) = {} THEN 1..Count(u) ELSE 1..(Count(u) + 1)
<1>1. Progress(u) /\ Count(u) \in Nat
  BY CountType DEF IInv
<1>2. OrdinalsOf(u, {"active"}) = 1..Count(u)
  BY <1>1 DEF Progress
<1>3. ASSUME NEW i
      PROVE  i \in OrdinalsOf(u, {"pending", "active"})
             <=> i \in OrdinalsOf(u, {"active"}) \/ \E n \in PendingIn(u) : i = award[n][u].ordinal
  BY DEF OrdinalsOf, PendingIn
<1>4. \A n \in PendingIn(u) : award[n][u].ordinal = Count(u) + 1
  BY <1>1 DEF Progress, OnePending
<1>5. CASE PendingIn(u) = {}
  BY <1>2, <1>3, <1>5
<1>6. CASE PendingIn(u) # {}
  <2>1. ASSUME NEW i
        PROVE  i \in OrdinalsOf(u, {"pending", "active"}) <=> i \in 1..Count(u) \cup {Count(u) + 1}
    BY <1>2, <1>3, <1>4, <1>6
  <2>2. OrdinalsOf(u, {"pending", "active"}) = 1..Count(u) \cup {Count(u) + 1}
    BY <2>1
  <2> QED
    BY <1>1, <1>6, <2>2, OneMore
<1> QED
  BY <1>5, <1>6

\* A claim that agrees with the awards finds none pending: its plan is up to date.
LEMMA UpToDate ==
  ASSUME IInv, NEW h \in Handler, handler[h].step = "claim", ProgressAgrees(h),
         NEW u \in Fresh(h) \ moved
  PROVE  /\ PendingIn(u) = {} /\ handler[h].expected[u] = Count(u)
         /\ handler[h].ordinal[u] = Count(u) + 1
<1>1. WellFormed(handler[h]) /\ u \in handler[h].only
  BY DEF IInv, HandlersOK, Fresh
<1>2. u \in Gated
  BY <1>1 DEF WellFormed, HandlerState
<1>3. /\ handler[h].ordinal[u] \in Nat /\ handler[h].expected[u] \in Nat
      /\ handler[h].ordinal[u] = handler[h].expected[u] + 1 /\ handler[h].expected[u] <= Count(u)
  BY <1>1 DEF IInv, Planned, WellFormed
<1>4. handler[h].ordinal[u] = NextOrdinal(OrdinalsOf(u, {"pending", "active"}))
  BY DEF ProgressAgrees
<1>5. Count(u) \in Nat
  BY CountType
<1>6. CASE PendingIn(u) = {}
  <2>1. handler[h].ordinal[u] = Count(u) + 1
    BY <1>2, <1>4, <1>5, <1>6, OrdinalsInUse, NextAfter
  <2> QED
    BY <1>3, <1>5, <1>6, <2>1
<1>7. CASE PendingIn(u) # {}
  <2>1. NextOrdinal(1..(Count(u) + 1)) = Count(u) + 1 + 1
    BY <1>5, NextAfter
  <2>2. handler[h].ordinal[u] = Count(u) + 1 + 1
    BY <1>2, <1>4, <1>7, <2>1, OrdinalsInUse
  <2> QED
    BY <1>3, <1>5, <2>2
<1> QED
  BY <1>6, <1>7

\* A user who is claimed gets the next award, and the role that comes before it.
LEMMA Claimed ==
  ASSUME IInv, NEW m \in Source, NEW u \in Gated \ moved, granted[m][u].state = "none",
         PendingIn(u) = {},
         \A n \in Source : n # m => award'[n][u] = award[n][u] /\ granted'[n][u] = granted[n][u],
         award'[m][u] = [state |-> "pending", ordinal |-> Count(u) + 1],
         granted'[m][u].state = "pending", granted'[m][u].known,
         granted'[m][u].target = Count(u) + 1, gates' = gates
  PROVE  Progress(u)'
<1>1. Progress(u)
  BY DEF IInv
<1>2. award[m][u].state = "none"
  BY <1>1 DEF Progress, RowFits
<1>3. award'[m][u].state = "pending" /\ award'[m][u].ordinal = Count(u) + 1
  OBVIOUS
<1>4. ActiveIn(u)' = ActiveIn(u) /\ PendingIn(u)' = {m} /\ m \notin ActiveIn(u)
  BY <1>2, <1>3 DEF ActiveIn, PendingIn
<1>5. Count(u)' = Count(u)
  BY <1>4 DEF Count
<1>6. OrdinalsOf(u, {"active"})' = 1..Count(u)'
  <2>1. ASSUME NEW i
        PROVE  i \in OrdinalsOf(u, {"active"})' <=> i \in OrdinalsOf(u, {"active"})
    <3>1. /\ i \in OrdinalsOf(u, {"active"}) <=> \E n \in ActiveIn(u) : i = award[n][u].ordinal
          /\ i \in OrdinalsOf(u, {"active"})' <=> \E n \in ActiveIn(u)' : i = award'[n][u].ordinal
      BY DEF OrdinalsOf, ActiveIn
    <3>2. \A n \in ActiveIn(u) : award'[n][u].ordinal = award[n][u].ordinal
      BY <1>4 DEF ActiveIn
    <3> QED
      BY <1>4, <3>1, <3>2
  <2>2. OrdinalsOf(u, {"active"})' = OrdinalsOf(u, {"active"})
    BY <2>1
  <2> QED
    BY <1>1, <1>5, <2>2 DEF Progress
<1>7. OnePending(u)'
  BY <1>3, <1>4, <1>5 DEF OnePending
<1>8. RoleFits(u)'
  BY <1>1, <1>5 DEF Progress, RoleFits
<1>9. ASSUME NEW n \in Source
      PROVE  RowFits(n, u)'
  <2>1. RowFits(n, u)
    BY <1>1 DEF Progress
  <2> QED
    BY <1>3, <2>1 DEF RowFits
<1> QED
  BY <1>6, <1>7, <1>8, <1>9 DEF Progress

\* The claim writes rows and awards only when every plan agrees with the active awards, or
\* nothing at all.
LEMMA ClaimKeeps ==
  ASSUME IInv, NEW h \in Handler, Claim(h)
  PROVE  IInv'
<1>0. handler[h].step = "claim" /\ UNCHANGED <<gateDiscord, unrecovered, context, budget>>
  BY DEF Claim, Step
<1>1. loaded /\ WellFormed(handler[h]) /\ handler[h].of \in Source
  BY <1>0, AtWork
<1>2. PICK m \in Source : m = handler[h].of
  BY <1>1
<1>3. PICK r : r = handler[h]
  OBVIOUS
<1>4. /\ operation \in [Source -> OperationState] /\ granted \in [Source -> [Gated -> RowState]]
      /\ award \in [Source -> [Gated -> AwardState]]
      /\ bonus \in [Gated -> BonusState]
      /\ gates \in [Gated -> SUBSET (1..MaxTier)] /\ badge \in [Gated -> BOOLEAN]
      /\ Told(m)
  BY TypeParts DEF IInv
<1>5. /\ r.only \in SUBSET Gated /\ r.extra \in BOOLEAN
      /\ r.ordinal \in [r.only -> 1..MaxTier] /\ r.expected \in [r.only -> 0..(MaxTier - 1)]
  BY <1>0, <1>1, <1>3 DEF WellFormed, HandlerState
<1>6. CASE Goto(h, Idle) /\ UNCHANGED gateRows
  <2>1. HandlersOK' /\ handler'[h] = Idle /\ OthersStay(h)
    BY <1>6, IdleFields, Went DEF IInv
  <2>2. Worked(h)' /\ Planned(h)' /\ Publishing(h)'
    BY <2>1, IdleFields, Quiet
  <2>3. unrecovered' \subseteq Source
    BY <1>0, TypeParts DEF IInv
  <2> QED
    BY <1>0, <1>1, <1>6, <2>1, <2>2, <2>3, HandlerSteps DEF context
<1> DEFINE fresh == Fresh(h)
           awards == [u \in Gated |-> IF u \in fresh
                        THEN [state |-> "pending", ordinal |-> r.ordinal[u]] ELSE award[m][u]]
           others == [u \in Gated |-> IF u \in fresh /\ r.extra /\ bonus[u].state = "none"
                        THEN [of |-> m, state |-> "pending"] ELSE bonus[u]]
           rows == [u \in Gated |-> IF u \in fresh
                      THEN [state |-> "pending", known |-> TRUE, logged |-> FALSE,
                            expected |-> r.expected[u], target |-> r.expected[u] + 1,
                            extra |-> r.extra]
                      ELSE granted[m][u]]
<1>7. CASE /\ operation[m].state = "none" \/ ~Busy(m)
           /\ ProgressAgrees(h)
           /\ operation' = [operation EXCEPT ![m].state = "applying"]
           /\ award' = [award EXCEPT ![m] = awards]
           /\ bonus' = others
           /\ granted' = [granted EXCEPT ![m] = rows]
           /\ Goto(h, ToLeaseOwn(m, r.only))
  <2>1. \A u \in fresh : u \in r.only /\ u \in Gated /\ granted[m][u].state = "none"
    <3>1. ASSUME NEW u \in fresh
          PROVE  u \in r.only /\ u \in Gated /\ granted[m][u].state = "none"
      <4>1. u \in r.only /\ u \in Gated
        BY <1>3, <1>5 DEF Fresh
      <4>2. ~(granted[m][u].state # "none" /\ granted[m][u].known)
        BY <1>2, <4>1 DEF Fresh, Rows
      <4>3. granted[m][u].state = "none" \/ granted[m][u].known
        BY <1>0, <1>2, <1>3, <4>1 DEF IInv, Planned
      <4> QED
        BY <4>1, <4>2, <4>3
    <3> QED
      BY <3>1
  <2>2. /\ awards \in [Gated -> AwardState]
        /\ \A u \in fresh : awards[u] = [state |-> "pending", ordinal |-> r.ordinal[u]]
        /\ \A u \in Gated \ fresh : awards[u] = award[m][u]
    <3>1. ASSUME NEW u \in fresh
          PROVE  [state |-> "pending", ordinal |-> r.ordinal[u]] \in AwardState
      <4>1. r.ordinal[u] \in 0..MaxTier
        BY <1>5, <2>1, GateAssumption
      <4> QED
        BY <4>1 DEF AwardState, Tiers
    <3>2. \A u \in Gated : award[m][u] \in AwardState
      BY <1>4
    <3> HIDE DEF fresh
    <3> QED
      BY <2>1, <3>1, <3>2
  <2>3. others \in [Gated -> BonusState]
    <3>1. [of |-> m, state |-> "pending"] \in BonusState
      BY DEF BonusState
    <3>2. \A u \in Gated : bonus[u] \in BonusState
      BY <1>4
    <3> HIDE DEF fresh
    <3> QED
      BY <3>1, <3>2
  <2>4. /\ rows \in [Gated -> RowState]
        /\ \A u \in fresh : /\ rows[u].state = "pending" /\ rows[u].known
                            /\ rows[u].target = r.expected[u] + 1
                            /\ rows[u].target \in 1..MaxTier
        /\ \A u \in Gated \ fresh : rows[u] = granted[m][u]
    <3> DEFINE new(u) == [state |-> "pending", known |-> TRUE, logged |-> FALSE,
                          expected |-> r.expected[u], target |-> r.expected[u] + 1,
                          extra |-> r.extra]
    <3>1. ASSUME NEW u \in fresh
          PROVE  /\ new(u) \in RowState /\ new(u).state = "pending" /\ new(u).known
                 /\ new(u).target = r.expected[u] + 1 /\ new(u).target \in 1..MaxTier
      <4>1. r.expected[u] \in 0..(MaxTier - 1) /\ MaxTier \in Nat
        BY <1>5, <2>1, GateAssumption
      <4>2. r.expected[u] \in Tiers /\ r.expected[u] + 1 \in Tiers /\ r.expected[u] + 1 \in 1..MaxTier
        BY <4>1 DEF Tiers
      <4> QED
        BY <1>5, <4>2 DEF RowState, MemberState
    <3>2. \A u \in Gated : granted[m][u] \in RowState
      BY <1>4
    <3>3. rows = [u \in Gated |-> IF u \in fresh THEN new(u) ELSE granted[m][u]]
      OBVIOUS
    <3> HIDE DEF fresh, new
    <3>4. \A u \in Gated : rows[u] = IF u \in fresh THEN new(u) ELSE granted[m][u]
      BY <3>3
    <3> HIDE DEF rows
    <3>5. rows \in [Gated -> RowState]
      BY <3>1, <3>2, <3>3
    <3> QED
      BY <2>1, <3>1, <3>4, <3>5
  <2> HIDE DEF awards, others, rows
  <2>5. /\ award' \in [Source -> [Gated -> AwardState]] /\ award'[m] = awards
        /\ \A n \in Source \ {m} : award'[n] = award[n]
    BY <1>4, <1>7, <2>2
  <2>6. /\ granted' \in [Source -> [Gated -> RowState]] /\ granted'[m] = rows
        /\ \A n \in Source \ {m} : granted'[n] = granted[n]
    BY <1>4, <1>7, <2>4
  <2>7. /\ operation' \in [Source -> OperationState] /\ OtherOperations(m)
        /\ operation'[m].state = "applying"
        /\ operation'[m].completed = operation[m].completed
        /\ operation'[m].published = operation[m].published
        /\ operation'[m].publication = operation[m].publication
        /\ operation'[m].lease = operation[m].lease
        /\ operation[m].completed <= operation'[m].completed
    <3>1. operation[m].completed \in Nat
      BY <1>4 DEF OperationState
    <3>2. operation' = [operation EXCEPT ![m].state = "applying"]
      BY <1>7
    <3>3. /\ operation' \in [Source -> OperationState] /\ OtherOperations(m)
          /\ operation'[m].state = "applying"
          /\ operation'[m].completed = operation[m].completed
          /\ operation'[m].published = operation[m].published
          /\ operation'[m].publication = operation[m].publication
          /\ operation'[m].lease = operation[m].lease
      BY <1>4, <3>2, Applying
    <3> QED
      BY <3>1, <3>3
  <2>8. WellFormed(ToLeaseOwn(m, r.only)) /\ ToLeaseOwn(m, r.only).step = "lease"
    BY <1>5, Leasing
  <2>9. HandlersOK' /\ handler'[h] = ToLeaseOwn(m, r.only) /\ OthersStay(h)
    BY <1>7, <2>8, Went DEF IInv
  <2>10. Worked(h)' /\ Planned(h)' /\ Publishing(h)'
    BY <2>8, <2>9, Quiet
  <2>11. /\ gates' = gates /\ badge' = badge /\ congrats' = congrats
         /\ unrecovered' = unrecovered /\ loaded' = loaded /\ moved' = moved
    BY <1>0 DEF context, gateDiscord
  <2>12. \A k \in Handler \ {h} : Leased(k) => handler[k].of # m
    <3>1. operation[m].lease = NoHandler
      BY <1>4, <1>7 DEF Busy, Told
    <3> QED
      BY <3>1, Worker, GateAssumption
  <2>13. Done(m)' = Done(m)
    <3>1. \A u \in Gated : granted'[m][u].state = "completed" <=> granted[m][u].state = "completed"
      BY <2>1, <2>4, <2>6
    <3> QED
      BY <3>1 DEF Done, InState
  <2>14. Told(m)'
    BY <1>4, <2>7, <2>11, <2>13 DEF Told
  <2>15. TargetsFit'
    <3>1. ASSUME NEW n \in Source, NEW u \in Gated, granted'[n][u].state \notin {"none", "completed"}
          PROVE  granted'[n][u].target \in 1..MaxTier
      <4>1. CASE n = m /\ u \in fresh
        BY <2>4, <2>6, <4>1
      <4>2. CASE ~(n = m /\ u \in fresh)
        <5>1. granted'[n][u] = granted[n][u]
          BY <2>4, <2>6, <4>2
        <5> QED
          BY <3>1, <5>1 DEF IInv, TargetsFit
      <4> QED
        BY <4>1, <4>2
    <3> QED
      BY <3>1 DEF TargetsFit
  <2>16. ASSUME NEW u \in Gated \ moved
         PROVE  Progress(u)' /\ ActiveIn(u) \subseteq ActiveIn(u)'
    <3>1. CASE u \in fresh
      <4>1. /\ PendingIn(u) = {} /\ r.expected[u] = Count(u) /\ r.ordinal[u] = Count(u) + 1
        BY <1>0, <1>3, <1>7, <3>1, UpToDate
      <4>2. award'[m][u] = [state |-> "pending", ordinal |-> Count(u) + 1]
        BY <2>2, <2>5, <3>1, <4>1
      <4>3. /\ granted'[m][u].state = "pending" /\ granted'[m][u].known
            /\ granted'[m][u].target = Count(u) + 1
        BY <2>4, <2>6, <3>1, <4>1
      <4>4. granted[m][u].state = "none"
        BY <2>1, <3>1
      <4>5. Progress(u)'
        BY <2>5, <2>6, <2>11, <4>1, <4>2, <4>3, <4>4, Claimed
      <4>6. award[m][u].state # "active"
        BY <4>4 DEF IInv, Progress, RowFits
      <4>7. ActiveIn(u) \subseteq ActiveIn(u)'
        BY <2>5, <4>6 DEF ActiveIn
      <4> QED
        BY <4>5, <4>7
    <3>2. CASE u \notin fresh
      <4>1. \A n \in Source : award'[n][u] = award[n][u] /\ granted'[n][u] = granted[n][u]
        BY <2>2, <2>4, <2>5, <2>6, <3>2
      <4>2. Progress(u)'
        BY <2>11, <4>1, ProgressKept DEF IInv
      <4> QED
        BY <4>1, <4>2 DEF ActiveIn
    <3> QED
      BY <3>1, <3>2
  <2>17. \A u \in Gated : granted[m][u].state = "none" \/ granted[m][u].known
                          => granted'[m][u].state = "none" \/ granted'[m][u].known
    BY <2>4, <2>6
  <2>18. \A n \in Source \ {m}, u \in Gated : granted'[n][u] = granted[n][u]
    BY <2>6
  <2>19. bonus' \in [Gated -> BonusState]
    BY <1>7, <2>3
  <2> QED
    BY <1>1, <1>4, <2>5, <2>6, <2>7, <2>9, <2>10, <2>11, <2>12, <2>13, <2>14, <2>15, <2>16,
       <2>17, <2>18, <2>19, RowSteps
<1> QED
  BY <1>2, <1>3, <1>6, <1>7 DEF Claim, ToLeaseOwn

-----------------------------------------------------------------------------
(* Moderators, erasures, crashes and starts *)

\* A user whom someone else changes is no longer counted on; his rows stay what they are.
LEMMA MovedSteps ==
  ASSUME IInv, NEW u \in Gated, moved' = moved \cup {u},
         UNCHANGED <<operation, congrats, handler, unrecovered, loaded>>,
         granted' \in [Source -> [Gated -> RowState]],
         award' \in [Source -> [Gated -> AwardState]],
         bonus' \in [Gated -> BonusState],
         gates' \in [Gated -> SUBSET (1..MaxTier)], badge' \in [Gated -> BOOLEAN],
         \A m \in Source : granted'[m][u].state = granted[m][u].state,
         \A m \in Source, v \in Gated \ {u} :
           granted'[m][v] = granted[m][v] /\ award'[m][v] = award[m][v],
         \A v \in Gated \ {u} : gates'[v] = gates[v],
         \A h \in Handler : Step(h, "claim") /\ u \in handler[h].only =>
           \A m \in Source : granted'[m][u].known = granted[m][u].known,
         TargetsFit'
  PROVE  IInv'
<1> USE DEF IInv
<1>0. operation \in [Source -> OperationState]
  BY TypeParts
<1>1. TypeOK'
  BY TypeParts, TypePartsNext
<1>2. AtRest' /\ HandlersOK'
  BY DEF AtRest, HandlersOK
<1>3. \A m \in Source : Done(m)' = Done(m)
  <2>1. ASSUME NEW m \in Source
        PROVE  Done(m)' = Done(m)
    <3>1. \A v \in Gated : granted'[m][v].state = granted[m][v].state
      OBVIOUS
    <3> QED
      BY <3>1 DEF Done, InState
  <2> QED
    BY <2>1
<1>4. ASSUME NEW v \in Gated \ {u}
      PROVE  Count(v)' = Count(v)
  <2>1. \A m \in Source : award'[m][v] = award[m][v]
    OBVIOUS
  <2>2. ActiveIn(v)' = ActiveIn(v)
    BY <2>1 DEF ActiveIn
  <2> QED
    BY <2>2 DEF Count
<1>5. ASSUME NEW k \in Handler
      PROVE  Worked(k)' /\ Planned(k)' /\ Publishing(k)'
  <2>1. handler'[k] = handler[k] /\ WellFormed(handler[k]) /\ moved \subseteq moved'
    BY DEF HandlersOK
  <2>2. PICK n : n = handler[k].of
    OBVIOUS
  <2>3. Worked(k)'
    <3>1. ASSUME Leased(k)
          PROVE  /\ operation'[n].lease = operation[n].lease
                 /\ \A v \in Gated : granted'[n][v].state = granted[n][v].state
                 /\ \A v \in handler[k].user \ moved' :
                      gates'[v] = gates[v] /\ granted'[n][v].target = granted[n][v].target
      <4>1. n \in Source /\ handler[k].user \subseteq Gated
        BY <2>1, <2>2, <3>1 DEF WellFormed, Leased, HandlerState
      <4> QED
        BY <4>1
    <3> QED
      BY <2>1, <2>2, <3>1, WorkedKept
  <2>4. Planned(k)'
    <3>1. ASSUME handler[k].step = "claim", NEW v \in handler[k].only
          PROVE  /\ granted[n][v].state = "none" \/ granted[n][v].known
                    => granted'[n][v].state = "none" \/ granted'[n][v].known
                 /\ v \notin moved'
                    => Count(v) <= Count(v)' /\ Count(v) \in Nat /\ Count(v)' \in Nat
      <4>1. n \in Source /\ v \in Gated
        BY <2>1, <2>2, <3>1 DEF WellFormed, HandlerState
      <4>2. granted'[n][v].state = granted[n][v].state /\ granted'[n][v].known = granted[n][v].known
        BY <3>1, <4>1 DEF Step
      <4>3. v \notin moved' => Count(v)' = Count(v) /\ Count(v) \in Nat
        BY <1>4, <4>1, CountType
      <4> QED
        BY <4>2, <4>3
    <3> QED
      BY <2>1, <2>2, <3>1, PlannedKept
  <2>5. Publishing(k)'
    <3>1. ASSUME Publishes(k)
          PROVE  /\ Told(n) /\ operation'[n].publication = operation[n].publication
                 /\ operation'[n].published = operation[n].published
                 /\ operation[n].completed <= operation'[n].completed
                 /\ Done(n) \subseteq Done(n)' /\ congrats'[n] = congrats[n]
      <4>1. n \in Source /\ operation[n].completed \in Nat /\ Told(n)
        BY <2>2, <3>1, Publisher
      <4> QED
        BY <1>3, <4>1
    <3> QED
      BY <1>0, <2>1, <2>2, <3>1, PublishingKept
  <2> QED
    BY <2>3, <2>4, <2>5
<1>6. ASSUME NEW n \in Source
      PROVE  Told(n)'
  <2>1. operation[n] \in OperationState /\ operation'[n] = operation[n]
    BY <1>0
  <2>2. operation[n].state = "none" => /\ operation[n].lease = NoHandler
                                       /\ operation[n].publication = NoHandler
    BY DEF Told
  <2> QED
    BY <1>3, <2>1, <2>2, ToldKept
<1>7. ASSUME NEW v \in Gated \ moved'
      PROVE  Progress(v)'
  <2>1. v \in Gated \ {u} /\ v \notin moved /\ Progress(v)
    OBVIOUS
  <2>2. gates'[v] = gates[v] /\ \A m \in Source : /\ award'[m][v] = award[m][v]
                                                 /\ granted'[m][v] = granted[m][v]
    BY <2>1
  <2> HIDE DEF IInv
  <2> QED
    BY <2>1, <2>2, ProgressKept
<1> QED
  BY <1>1, <1>2, <1>5, <1>6, <1>7

\* A user whose roles someone else changes is no longer counted on.
LEMMA ChangeRolesKeeps ==
  ASSUME IInv, NEW u \in Gated, NEW tiers \in SUBSET (1..MaxTier), ChangeRoles(u, tiers)
  PROVE  IInv'
<1>1. /\ gates' = [gates EXCEPT ![u] = tiers] /\ moved' = moved \cup {u}
      /\ operation' = operation /\ granted' = granted /\ award' = award /\ bonus' = bonus
      /\ badge' = badge /\ congrats' = congrats /\ handler' = handler
      /\ unrecovered' = unrecovered /\ loaded' = loaded
  BY DEF ChangeRoles, gateRows
<1>2. /\ granted \in [Source -> [Gated -> RowState]] /\ award \in [Source -> [Gated -> AwardState]]
      /\ bonus \in [Gated -> BonusState]
      /\ gates \in [Gated -> SUBSET (1..MaxTier)] /\ badge \in [Gated -> BOOLEAN]
  BY TypeParts DEF IInv
<1>3. gates' \in [Gated -> SUBSET (1..MaxTier)] /\ \A v \in Gated \ {u} : gates'[v] = gates[v]
  BY <1>1, <1>2
<1>4. TargetsFit'
  BY <1>1 DEF IInv, TargetsFit
<1> QED
  BY <1>1, <1>2, <1>3, <1>4, MovedSteps

\* Nor is one who is erased; his rows keep their state.
LEMMA EraseKeeps ==
  ASSUME IInv, NEW u \in Gated, Erase(u)
  PROVE  IInv'
<1>1. /\ moved' = moved \cup {u} /\ operation' = operation /\ gates' = gates
      /\ badge' = badge /\ congrats' = congrats /\ handler' = handler
      /\ unrecovered' = unrecovered /\ loaded' = loaded
      /\ award' = [m \in Source |-> [award[m] EXCEPT ![u] = NoAward]]
      /\ bonus' = [bonus EXCEPT ![u] = NoBonus]
  BY DEF Erase, gateDiscord
<1>2. /\ granted \in [Source -> [Gated -> RowState]] /\ award \in [Source -> [Gated -> AwardState]]
      /\ bonus \in [Gated -> BonusState]
      /\ gates \in [Gated -> SUBSET (1..MaxTier)] /\ badge \in [Gated -> BOOLEAN]
  BY TypeParts DEF IInv
<1>3. /\ award' \in [Source -> [Gated -> AwardState]]
      /\ \A m \in Source, v \in Gated \ {u} : award'[m][v] = award[m][v]
  <2>1. NoAward \in AwardState
    BY GateAssumption DEF NoAward, AwardState, Tiers
  <2>2. ASSUME NEW m \in Source
        PROVE  /\ [award[m] EXCEPT ![u] = NoAward] \in [Gated -> AwardState]
               /\ \A v \in Gated \ {u} : [award[m] EXCEPT ![u] = NoAward][v] = award[m][v]
    <3>1. award[m] \in [Gated -> AwardState]
      BY <1>2
    <3> QED
      BY <2>1, <3>1
  <2> QED
    BY <1>1, <2>2
<1>4. bonus' \in [Gated -> BonusState]
  <2>1. NoBonus \in BonusState
    BY DEF NoBonus, BonusState
  <2> QED
    BY <1>1, <1>2, <2>1
<1> DEFINE redacts(m) == granted[m][u].state = "completed"
                         /\ operation[m].state \in {"completed", "partial"}
                         /\ (operation[m].result \/ operation[m].completed = 0)
           row(m) == IF redacts(m)
                     THEN [granted[m][u] EXCEPT !.known = FALSE, !.expected = 0, !.target = 0]
                     ELSE [granted[m][u] EXCEPT !.known = FALSE]
<1>5. granted' = [m \in Source |-> [granted[m] EXCEPT ![u] = row(m)]]
  BY DEF Erase
<1>6. ASSUME NEW m \in Source
      PROVE  /\ row(m) \in RowState /\ row(m).state = granted[m][u].state
             /\ row(m).target = granted[m][u].target \/ granted[m][u].state = "completed"
  <2>1. granted[m][u] \in RowState
    BY <1>2
  <2>2. CASE redacts(m)
    <3>1. 0 \in Tiers
      BY GateAssumption DEF Tiers
    <3>2. LET new == [granted[m][u] EXCEPT !.known = FALSE, !.expected = 0, !.target = 0] IN
          new \in RowState /\ new.state = granted[m][u].state
      BY <2>1, <3>1 DEF RowState
    <3> QED
      BY <2>2, <3>2
  <2>3. CASE ~redacts(m)
    <3>1. LET new == [granted[m][u] EXCEPT !.known = FALSE] IN
          /\ new \in RowState /\ new.state = granted[m][u].state
          /\ new.target = granted[m][u].target
      BY <2>1 DEF RowState
    <3> QED
      BY <2>3, <3>1
  <2> QED
    BY <2>2, <2>3
<1> HIDE DEF row
<1>7. /\ granted' \in [Source -> [Gated -> RowState]]
      /\ \A m \in Source : granted'[m][u] = row(m)
      /\ \A m \in Source, v \in Gated \ {u} : granted'[m][v] = granted[m][v]
  <2>1. ASSUME NEW m \in Source
        PROVE  /\ [granted[m] EXCEPT ![u] = row(m)] \in [Gated -> RowState]
               /\ [granted[m] EXCEPT ![u] = row(m)][u] = row(m)
               /\ \A v \in Gated \ {u} : [granted[m] EXCEPT ![u] = row(m)][v] = granted[m][v]
    <3>1. granted[m] \in [Gated -> RowState]
      BY <1>2
    <3> QED
      BY <1>6, <3>1
  <2> QED
    BY <1>5, <2>1
<1>8. TargetsFit'
  <2>1. ASSUME NEW m \in Source, NEW v \in Gated, granted'[m][v].state \notin {"none", "completed"}
        PROVE  granted'[m][v].target \in 1..MaxTier
    <3>1. CASE v = u
      <4>1. /\ granted'[m][u].state = granted[m][u].state
            /\ granted'[m][u].target = granted[m][u].target
        BY <1>6, <1>7, <2>1, <3>1
      <4> QED
        BY <2>1, <3>1, <4>1 DEF IInv, TargetsFit
    <3>2. CASE v # u
      BY <1>7, <2>1, <3>2 DEF IInv, TargetsFit
    <3> QED
      BY <3>1, <3>2
  <2> QED
    BY <2>1 DEF TargetsFit
<1>9. \A h \in Handler : ~(Step(h, "claim") /\ u \in handler[h].only)
  BY DEF Erase
<1>10. \A m \in Source : granted'[m][u].state = granted[m][u].state
  BY <1>6, <1>7
<1>11. \A m \in Source, v \in Gated \ {u} :
         granted'[m][v] = granted[m][v] /\ award'[m][v] = award[m][v]
  BY <1>3, <1>7
<1>12. /\ gates' \in [Gated -> SUBSET (1..MaxTier)] /\ badge' \in [Gated -> BOOLEAN]
       /\ \A v \in Gated \ {u} : gates'[v] = gates[v]
  BY <1>1, <1>2
<1>13. \A h \in Handler : Step(h, "claim") /\ u \in handler[h].only =>
         \A m \in Source : granted'[m][u].known = granted[m][u].known
  BY <1>9
<1>14. granted' \in [Source -> [Gated -> RowState]] /\ award' \in [Source -> [Gated -> AwardState]]
  BY <1>3, <1>7
<1> QED
  BY <1>1, <1>4, <1>8, <1>10, <1>11, <1>12, <1>13, <1>14, MovedSteps

\* A crash leaves every handler idle and the rows as they are.
LEMMA CrashKeeps ==
  ASSUME IInv, Crash
  PROVE  IInv'
<1> USE DEF IInv
<1>1. /\ handler' = [h \in Handler |-> Idle] /\ unrecovered' = {} /\ loaded' = FALSE
      /\ operation' = operation /\ granted' = granted /\ award' = award /\ bonus' = bonus
      /\ gates' = gates /\ badge' = badge /\ congrats' = congrats /\ moved' = moved
  BY DEF Crash, gateRows, gateDiscord
<1>2. TypeOK'
  BY <1>1, TypeParts, TypePartsNext
<1>3. HandlersOK' /\ AtRest' /\ TargetsFit'
  BY <1>1, IdleFields DEF HandlersOK, WellFormed, AtRest, TargetsFit
<1>4. \A h \in Handler : Worked(h)' /\ Planned(h)' /\ Publishing(h)'
  BY <1>1, IdleFields, Quiet
<1>5. \A m \in Source : Told(m)'
  <2>1. ASSUME NEW m \in Source
        PROVE  Told(m)'
    <3>1. Told(m) /\ Done(m)' = Done(m)
      BY <1>1 DEF Done, InState
    <3> QED
      BY <1>1, <3>1 DEF Told
  <2> QED
    BY <2>1
<1>6. \A u \in Gated \ moved' : Progress(u)'
  BY <1>1, ProgressKept
<1> QED
  BY <1>2, <1>3, <1>4, <1>5, <1>6

\* The start drops the leases of the handlers that are gone.
LEMMA StartKeeps ==
  ASSUME IInv, Start
  PROVE  IInv'
<1> USE DEF IInv
<1> DEFINE drops(m) == operation[m].state \in {"applying", "partial"}
                       \/ operation[m].publication # NoHandler
           new(m) == IF drops(m)
                     THEN [operation[m] EXCEPT !.lease = NoHandler, !.publication = NoHandler]
                     ELSE operation[m]
<1>1. /\ handler' = handler /\ loaded' = TRUE /\ granted' = granted /\ award' = award
      /\ bonus' = bonus /\ gates' = gates /\ badge' = badge /\ congrats' = congrats
      /\ moved' = moved /\ operation' = [m \in Source |-> new(m)]
  BY DEF Start, gateDiscord
<1>2. unrecovered' \subseteq Source
  BY DEF Start
<1>3. operation \in [Source -> OperationState]
  BY TypeParts
<1>4. ASSUME NEW m \in Source
      PROVE  /\ new(m) \in OperationState /\ new(m).state = operation[m].state
             /\ new(m).completed = operation[m].completed
             /\ new(m).published = operation[m].published
             /\ operation[m].state = "none" => new(m).lease = NoHandler
                                               /\ new(m).publication = NoHandler
  <2>1. operation[m] \in OperationState /\ Told(m)
    BY <1>3
  <2>2. CASE drops(m)
    <3>1. LET n == [operation[m] EXCEPT !.lease = NoHandler, !.publication = NoHandler] IN
          /\ n \in OperationState /\ n.state = operation[m].state
          /\ n.completed = operation[m].completed /\ n.published = operation[m].published
          /\ n.lease = NoHandler /\ n.publication = NoHandler
      BY <2>1 DEF OperationState
    <3> QED
      BY <2>2, <3>1
  <2>3. CASE ~drops(m)
    BY <2>1, <2>3 DEF Told
  <2> QED
    BY <2>2, <2>3
<1> HIDE DEF new
<1>5. operation' \in [Source -> OperationState] /\ \A m \in Source : operation'[m] = new(m)
  BY <1>1, <1>4
<1>6. TypeOK'
  BY <1>1, <1>2, <1>5, TypeParts, TypePartsNext
<1>7. HandlersOK' /\ AtRest' /\ TargetsFit'
  BY <1>1 DEF HandlersOK, AtRest, TargetsFit
<1>8. \A h \in Handler : Worked(h)' /\ Planned(h)' /\ Publishing(h)'
  <2>1. ~loaded
    BY DEF Start
  <2> QED
    BY <1>1, <2>1, IdleFields, Quiet DEF AtRest
<1>9. \A m \in Source : Told(m)'
  <2>1. ASSUME NEW m \in Source
        PROVE  Told(m)'
    <3>1. Done(m)' = Done(m) /\ operation[m] \in OperationState
      BY <1>1, <1>3 DEF Done, InState
    <3> QED
      BY <1>1, <1>4, <1>5, <3>1, ToldKept
  <2> QED
    BY <2>1
<1>10. \A u \in Gated \ moved' : Progress(u)'
  BY <1>1, ProgressKept
<1> QED
  BY <1>6, <1>7, <1>8, <1>9, <1>10

-----------------------------------------------------------------------------
(* The invariant is inductive *)

\* Nothing was awarded at first.
LEMMA InitIInv ==
  ASSUME Init
  PROVE  IInv
<1> USE DEF Init
<1>1. TypeOK
  <2>1. NoMember \in RowState /\ NoAward \in AwardState
    BY GateAssumption DEF NoMember, NoAward, RowState, AwardState, MemberState, Tiers
  <2>2. NoOperation \in OperationState
    BY DEF NoOperation, OperationState
  <2>3. NoBonus \in BonusState
    BY DEF NoBonus, BonusState
  <2> QED
    BY <2>1, <2>2, <2>3, TypeParts
<1>2. HandlersOK /\ TargetsFit /\ AtRest
  BY IdleFields DEF HandlersOK, WellFormed, TargetsFit, NoMember, AtRest
<1>3. \A h \in Handler : Worked(h) /\ Planned(h) /\ Publishing(h)
  BY IdleFields DEF Worked, Leased, Planned, Publishing, Publishes
<1>4. ASSUME NEW m \in Source
      PROVE  Told(m)
  <2>1. Done(m) = {}
    BY DEF Done, InState, NoMember
  <2>2. Cardinality(Done(m)) = 0
    BY <2>1, FS_EmptySet
  <2>3. congrats[m] = {} /\ operation[m] = NoOperation
    OBVIOUS
  <2> QED
    BY <2>1, <2>2, <2>3 DEF Told, NoOperation
<1>5. ASSUME NEW u \in Gated
      PROVE  Progress(u)
  <2>1. ActiveIn(u) = {} /\ PendingIn(u) = {} /\ OrdinalsOf(u, {"active"}) = {}
    BY DEF ActiveIn, PendingIn, OrdinalsOf, NoAward
  <2>2. Count(u) = 0
    BY <2>1, FS_EmptySet DEF Count
  <2>3. \A m \in Source : RowFits(m, u)
    BY DEF RowFits, NoMember, NoAward
  <2>4. 1..0 = {} /\ gates[u] = {} /\ {0} \ {0} = {}
    OBVIOUS
  <2>5. OnePending(u) /\ RoleFits(u)
    BY <2>1, <2>2, <2>4 DEF OnePending, RoleFits
  <2> QED
    BY <2>1, <2>2, <2>3, <2>4, <2>5 DEF Progress
<1> QED
  BY <1>1, <1>2, <1>3, <1>4, <1>5 DEF IInv

\* The steps of a handler at work.
LEMMA AdvanceKeeps ==
  ASSUME IInv, NEW h \in Handler, Advance(h)
  PROVE  IInv'
BY ClaimKeeps, AcquireLeaseKeeps, RefuseKeeps, BeginKeeps, FetchKeeps, EditKeeps, MarkKeeps,
   FinalizeKeeps, LogKeeps, MarkLoggedKeeps, AcquirePublicationKeeps, ReadLinesKeeps,
   DeliverKeeps, RecordKeeps DEF Advance

\* A step that changes nothing.
LEMMA StutterKeeps ==
  ASSUME IInv, UNCHANGED gateVars
  PROVE  IInv'
<1> USE DEF IInv
<1>1. /\ operation' = operation /\ granted' = granted /\ award' = award /\ bonus' = bonus
      /\ gates' = gates /\ badge' = badge /\ congrats' = congrats /\ handler' = handler
      /\ unrecovered' = unrecovered /\ loaded' = loaded /\ moved' = moved
  BY DEF gateVars, gateRows, gateDiscord
<1>2. TypeOK' /\ HandlersOK' /\ TargetsFit' /\ AtRest'
  BY <1>1, TypeParts, TypePartsNext DEF HandlersOK, TargetsFit, AtRest
<1>3. \A h \in Handler : Worked(h)' /\ Planned(h)' /\ Publishing(h)'
  <2>1. ASSUME NEW h \in Handler
        PROVE  Worked(h)'
    BY <1>1 DEF Worked, Leased
  <2>2. ASSUME NEW h \in Handler
        PROVE  Planned(h)'
    BY <1>1 DEF Planned, Count, ActiveIn
  <2>3. ASSUME NEW h \in Handler
        PROVE  Publishing(h)'
    BY <1>1 DEF Publishing, Publishes, Done, InState
  <2> QED
    BY <2>1, <2>2, <2>3
<1>4. \A m \in Source : Told(m)'
  BY <1>1 DEF Told, Done, InState
<1>5. \A u \in Gated \ moved' : Progress(u)'
  BY <1>1, ProgressKept
<1> QED
  BY <1>2, <1>3, <1>4, <1>5

\* Every step keeps the invariant.
LEMMA NextIInv ==
  ASSUME IInv, [Next]_gateVars
  PROVE  IInv'
<1>1. CASE UNCHANGED gateVars
  BY <1>1, StutterKeeps
<1>2. CASE Next
  <2>1. ASSUME NEW h \in Handler \ {Recovery}, NEW m \in Source,
               NEW users \in SUBSET Gated, NEW extra \in Extras, Prepare(h, m, users, extra)
        PROVE  IInv'
    BY <2>1, PrepareKeeps
  <2>2. ASSUME NEW h \in Handler \ {Recovery}, NEW m \in Source, Resume(h, m) \/ Reopen(h, m)
        PROVE  IInv'
    BY <2>2, ResumeKeeps
  <2>3. ASSUME NEW m \in Source, Recover(m)
        PROVE  IInv'
    BY <2>3, ResumeKeeps, GateAssumption
  <2>4. ASSUME NEW h \in Handler, Advance(h)
        PROVE  IInv'
    BY <2>4, AdvanceKeeps
  <2>5. ASSUME NEW u \in Gated,
               Erase(u) \/ \E tiers \in SUBSET (1..MaxTier) : ChangeRoles(u, tiers)
        PROVE  IInv'
    BY <2>5, EraseKeeps, ChangeRolesKeeps
  <2>6. CASE Crash \/ Start
    BY <2>6, CrashKeeps, StartKeeps
  <2> QED
    BY <1>2, <2>1, <2>2, <2>3, <2>4, <2>5, <2>6 DEF Next
<1> QED
  BY <1>1, <1>2

\* The invariant says what was earned and what was told.
LEMMA IInvHonest ==
  ASSUME IInv
  PROVE  IncrementsHonest
<1>1. ASSUME NEW u \in Gated \ moved
      PROVE  LET active == OrdinalsOf(u, {"active"})
                 n == Cardinality({m \in Source : award[m][u].state = "active"})
             IN  /\ active = 1..n
                 /\ \/ gates[u] = {n} \ {0}
                    \/ /\ gates[u] = {n + 1}
                       /\ \E m \in Source : /\ award[m][u] = [state |-> "pending", ordinal |-> n + 1]
                                            /\ granted[m][u].state # "pending"
  <2>1. Progress(u)
    BY DEF IInv
  <2>2. ASSUME NEW m \in PendingIn(u)
        PROVE  award[m][u] = [state |-> "pending", ordinal |-> Count(u) + 1]
    <3>1. m \in Source /\ award[m][u].state = "pending" /\ award[m][u].ordinal = Count(u) + 1
      BY <2>1 DEF Progress, OnePending, PendingIn
    <3>2. award[m][u] \in AwardState
      BY <3>1, TypeParts DEF IInv
    <3> QED
      BY <3>1, <3>2 DEF AwardState
  <2>3. \A m \in PendingIn(u) : m \in Source
    BY DEF PendingIn
  <2>4. Count(u) = Cardinality({m \in Source : award[m][u].state = "active"})
    BY DEF Count, ActiveIn
  <2> QED
    BY <2>1, <2>2, <2>3, <2>4 DEF Progress, RoleFits
<1>2. ASSUME NEW m \in Source
      PROVE  LET done == InState(m, "completed") IN
             /\ operation[m].publication = NoHandler
             /\ operation[m].completed = Cardinality(done)
             /\ operation[m].published = Cardinality(done)
             => congrats[m] \ moved = done \ moved
  BY DEF IInv, Told, Done
<1> QED
  BY <1>1, <1>2 DEF IncrementsHonest, GateEarnedOnce, AnnouncementCurrent

\* Only a delivery congratulates, and only whom the rows of the message name.
LEMMA StepCongratulates ==
  ASSUME IInv, [Next]_gateVars
  PROVE  \A m \in Source : \A u \in (congrats'[m] \ congrats[m]) \ moved' :
           award[m][u].state = "active" /\ granted[m][u].state = "completed"
<1>1. CASE congrats' = congrats
  BY <1>1
<1>2. CASE \E h \in Handler : Deliver(h)
  <2>1. PICK h \in Handler : Deliver(h)
    BY <1>2
  <2>2. Publishes(h) /\ handler[h].step = "deliver" /\ moved' = moved
    BY <2>1 DEF Deliver, Step, Publishes, context
  <2>3. PICK n : n = handler[h].of
    OBVIOUS
  <2>4. n \in Source /\ handler[h].lines \subseteq Done(n)
    BY <2>2, <2>3, Publisher DEF IInv, Publishing
  <2>5. congrats' = congrats \/ congrats' = [congrats EXCEPT ![n] = handler[h].lines]
    BY <2>1, <2>3 DEF Deliver
  <2>6. congrats \in [Source -> SUBSET Gated]
    BY TypeParts DEF IInv
  <2>7. ASSUME NEW m \in Source, NEW u \in (congrats'[m] \ congrats[m]) \ moved'
        PROVE  award[m][u].state = "active" /\ granted[m][u].state = "completed"
    <3>1. m = n /\ u \in Done(m)
      BY <2>4, <2>5, <2>6, <2>7
    <3>2. u \in Gated \ moved /\ granted[m][u].state = "completed"
      BY <2>2, <2>7, <3>1 DEF Done, InState
    <3> QED
      BY <3>2 DEF IInv, Progress, RowFits
  <2> QED
    BY <2>7
<1>3. congrats' = congrats \/ \E h \in Handler : Deliver(h)
  <2> USE DEF gateDiscord
  <2>1. ASSUME NEW h \in Handler, Advance(h), ~Deliver(h)
        PROVE  congrats' = congrats
    BY <2>1 DEF Advance, Claim, AcquireLease, Refuse, Begin, Fetch, Edit, Mark, Finalize, Log,
         MarkLogged, AcquirePublication, ReadLines, Record
  <2>2. CASE UNCHANGED gateVars
    BY <2>2 DEF gateVars
  <2>3. CASE Next
    BY <2>1, <2>3 DEF Next, Prepare, Resume, Reopen, Recover, Erase, ChangeRoles, Crash, Start
  <2> QED
    BY <2>2, <2>3
<1> QED
  BY <1>1, <1>2, <1>3

-----------------------------------------------------------------------------
(* The theorems *)

\* The rows, roles and messages have the types they are declared with.
THEOREM TypeCorrect == Spec => []TypeOK
<1>1. IInv => TypeOK
  BY DEF IInv
<1> QED
  BY <1>1, InitIInv, NextIInv, PTL DEF Spec

\* A Gate is earned once, whatever the handlers' order, the retries and the crashes: the
\* role of a user whom nobody else changed is that of his active awards, or of the pending
\* one whose row was begun; and what was told agrees with the rows (GateIncrementStore).
THEOREM Honest == Spec => []IncrementsHonest
  BY InitIInv, NextIInv, IInvHonest, PTL DEF Spec

\* Nobody is congratulated for a Gate that was not recorded as his.
THEOREM Congratulated == Spec => CongratulationEarned
  BY InitIInv, NextIInv, StepCongratulates, PTL DEF Spec, CongratulationEarned

=============================================================================
