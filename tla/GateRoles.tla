------------------------------ MODULE GateRoles ------------------------------
(***************************************************************************)
(* The Gate role of one user and the Stargates it stands for               *)
(* (NHCogs/nhmisc).  The rows of achievement_store.py are the truth: a     *)
(* listener takes back what others do to the role, a reconciliation runs   *)
(* at the start, every day and an hour after one that left something       *)
(* undone, and `rolesync discord' makes the rows follow the roles instead. *)
(* Moderators revoke Stargates, increments (GateIncrement) add them, and   *)
(* proofs are attached to them.                                            *)
(*                                                                         *)
(* Every step of a handler is what it does between two awaits.  The        *)
(* listeners at work are sets of what they know: two that know the same    *)
(* do the same.                                                            *)
(***************************************************************************)
EXTENDS Naturals, FiniteSets, FiniteSetsExt

CONSTANTS
    TopTier,        \* len(GATE_TIER_ROLE_IDS)
    AwardId,        \* award ids 1..n: how many Stargates may ever be awarded
    Proof, NoProof, \* messages that prove a Stargate
    RoleLimits      \* [changes, faults, crashes, commands], how many of each may happen

GateRolesAssumption ==
    /\ TopTier \in Nat \ {0} /\ AwardId \subseteq Nat /\ NoProof \notin Proof
    /\ RoleLimits \subseteq [{"changes", "faults", "crashes", "commands"} -> Nat]

VARIABLES
    stargates,      \* achievement_awards: id, ordinal, state and proof
    tiers,          \* Discord: the gate roles of the user
    updates,        \* Discord: member updates not handled yet, by the roles before
    seen, restoring,\* listeners: the roles seen, and the count to restore
    increment,      \* the step of a gate increment of the user
    revoke,         \* the revoke under review or at work
    authorized,     \* _authorized_gate_role_edits: the roles a revoke sets, in a set
    review,         \* a proof to attach: the ordinal and what was read of it
    sync,           \* rolesync discord
    reconcile,      \* the reconciliation at work: what it read
    due, retry,     \* a reconciliation is to run; its retry is scheduled
    left            \* what may still happen

roleDb == <<stargates>>
listeners == <<updates, seen, restoring>>
admins == <<increment, revoke, authorized, review, sync>>
runs == <<reconcile, due, retry>>
roleVars == <<roleDb, tiers, listeners, admins, runs, left>>

States == {"pending", "active", "revoked"}
Award == [id : AwardId, ordinal : 1..TopTier, state : States, proof : Proof \cup {NoProof}]
Live == {a \in stargates : a.state # "revoked"}
Active == {a \in stargates : a.state = "active"}
Projection == Cardinality(Live)
RolesOf(count) == IF count \in 1..TopTier THEN {count} ELSE {}
NoRevoke == [step |-> "none", awards |-> {}, id |-> 0, compact |-> FALSE, before |-> {}]
NoReview == [ordinal |-> 0, proof |-> NoProof]
NoSync == [step |-> "none", tier |-> 0, changes |-> FALSE]
NotRunning == [step |-> "none", count |-> 0, retries |-> FALSE]

Left(what) == left[what] > 0 /\ left' = [left EXCEPT ![what] = @ - 1]

\* member.edit, whose member update follows if the roles change.
SetRoles(new) == /\ tiers' = new
                 /\ updates' = IF new = tiers THEN updates ELSE updates \cup {tiers}

Init ==
    /\ \E n \in 0..TopTier :
          /\ stargates = {[id |-> i, ordinal |-> i, state |-> "active", proof |-> NoProof] :
                             i \in 1..n}
          /\ tiers = RolesOf(n)
    /\ updates = {} /\ seen = {} /\ restoring = {}
    /\ increment = "none" /\ revoke = NoRevoke /\ authorized = {}
    /\ review = NoReview /\ sync = NoSync
    /\ reconcile = NotRunning /\ due = FALSE /\ retry = FALSE
    /\ left \in RoleLimits

----------------------------------------------------------------------------
(* A moderator edits the roles by hand; the listener of member updates.      *)

Meddle(new) ==
    /\ new # tiers /\ Left("changes") /\ SetRoles(new)
    /\ UNCHANGED <<roleDb, seen, restoring, admins, runs>>

\* A change that is none by now, or that a revoke has announced, is left alone.
Observe(before) ==
    /\ before \in updates
    /\ updates' = updates \ {before}
    /\ seen' = IF before = tiers \/ tiers \in authorized THEN seen ELSE seen \cup {tiers}
    /\ UNCHANGED <<roleDb, tiers, restoring, admins, runs, left>>

\* The projection is read, and compared with the roles the update came with.
Compare(after) ==
    /\ after \in seen
    /\ seen' = seen \ {after}
    /\ restoring' = IF after = RolesOf(Projection) THEN restoring
                    ELSE restoring \cup {Projection}
    /\ UNCHANGED <<roleDb, tiers, updates, admins, runs, left>>

Restore(count) ==
    /\ count \in restoring
    /\ restoring' = restoring \ {count}
    /\ \/ SetRoles(RolesOf(count)) /\ UNCHANGED left
       \/ Left("faults") /\ UNCHANGED <<tiers, updates>>
    /\ UNCHANGED <<roleDb, seen, admins, runs>>

----------------------------------------------------------------------------
(* A gate increment of the user: its pending award, its edit, its record.    *)

FreeId == AwardId \ {a.id : a \in stargates}
NextFree == CHOOSE i \in 1..(Projection + 1) : i \notin {a.ordinal : a \in Live}
                 /\ \A j \in 1..(i - 1) : j \in {a.ordinal : a \in Live}

ClaimIncrement ==
    /\ increment = "none" /\ FreeId # {} /\ Live = Active /\ Left("commands")
    /\ Projection < TopTier /\ tiers = RolesOf(Projection)
    /\ stargates' = stargates \cup {[id |-> Min(FreeId), ordinal |-> NextFree,
                                     state |-> "pending", proof |-> NoProof]}
    /\ increment' = "claimed"
    /\ UNCHANGED <<tiers, listeners, revoke, authorized, review, sync, runs>>

\* The role is given: from the one before, or again if it is there.
ApplyIncrement ==
    /\ increment = "claimed" /\ Live # Active
    /\ tiers \in {RolesOf(Projection - 1), RolesOf(Projection)}
    /\ SetRoles(RolesOf(Projection))
    /\ increment' = "applied"
    /\ UNCHANGED <<roleDb, seen, restoring, revoke, authorized, review, sync, runs, left>>

RecordIncrement ==
    /\ increment = "applied"
    /\ stargates' = {IF a.state = "pending" THEN [a EXCEPT !.state = "active"] ELSE a :
                        a \in stargates}
    /\ increment' = "none"
    /\ UNCHANGED <<tiers, listeners, revoke, authorized, review, sync, runs, left>>

----------------------------------------------------------------------------
(* The revocation of a Stargate, reviewed and confirmed under the user's     *)
(* lock: role first, then row, then back if the row has changed.             *)

ReviewRevoke(a, compact) ==
    /\ revoke.step = "none" /\ Left("commands")
    /\ a \in Active /\ tiers = RolesOf(Cardinality(Active))
    /\ revoke' = [step |-> "review", awards |-> Active, id |-> a.id, compact |-> compact,
                  before |-> {}]
    /\ UNCHANGED <<roleDb, tiers, listeners, increment, authorized, review, sync, runs>>

ConfirmRevoke ==
    LET count == Cardinality(Active)
        agrees == Active = revoke.awards /\ tiers = RolesOf(count)
    IN  /\ revoke.step = "review"
        /\ revoke' = IF agrees THEN [revoke EXCEPT !.step = "edit", !.before = tiers]
                     ELSE NoRevoke
        /\ authorized' = IF agrees THEN {RolesOf(count - 1)} ELSE {}
        /\ UNCHANGED <<roleDb, tiers, listeners, increment, review, sync, runs, left>>

EditRevoke ==
    /\ revoke.step = "edit"
    /\ \/ /\ SetRoles(RolesOf(Cardinality(revoke.awards) - 1))
          /\ revoke' = [revoke EXCEPT !.step = "delete"]
          /\ UNCHANGED <<authorized, left>>
       \/ /\ Left("faults") /\ revoke' = NoRevoke /\ authorized' = {}
          /\ UNCHANGED <<tiers, updates>>
    /\ UNCHANGED <<roleDb, seen, restoring, increment, review, sync, runs>>

\* revoke_stargate, and the compaction of the ordinals after it.
RankFromZero(a, set) == Cardinality({b \in set : b.ordinal < a.ordinal})
Rank(a, set) == Cardinality({b \in set : b.ordinal <= a.ordinal})
Without(id, compact) ==
    LET rest == {a \in Active : a.id # id} IN
    IF compact THEN {[a EXCEPT !.ordinal = Rank(a, rest)] : a \in rest} ELSE rest

DeleteRevoked ==
    /\ revoke.step = "delete"
    /\ IF Live = Active /\ Active = revoke.awards
       THEN /\ stargates' = Without(revoke.id, revoke.compact) \cup (stargates \ Active)
            /\ revoke' = NoRevoke /\ authorized' = {}
       ELSE /\ revoke' = [revoke EXCEPT !.step = "undo"]
            /\ UNCHANGED <<stargates, authorized>>
    /\ UNCHANGED <<tiers, listeners, increment, review, sync, runs, left>>

UndoRevoke ==
    /\ revoke.step = "undo"
    /\ \/ SetRoles(revoke.before) /\ UNCHANGED left
       \/ Left("faults") /\ UNCHANGED <<tiers, updates>>
    /\ revoke' = NoRevoke /\ authorized' = {}
    /\ UNCHANGED <<roleDb, seen, restoring, increment, review, sync, runs>>

----------------------------------------------------------------------------
(* Proofs: reviewed by ordinal, attached if the row is as it was reviewed.   *)

ReviewProof(a) ==
    /\ review = NoReview /\ a \in Active /\ Left("commands")
    /\ review' = [ordinal |-> a.ordinal, proof |-> a.proof]
    /\ UNCHANGED <<roleDb, tiers, listeners, increment, revoke, authorized, sync, runs>>

AttachProof(p) ==
    LET accepts(a) == a.state = "active" /\ a.ordinal = review.ordinal
                      /\ a.proof = review.proof
    IN  /\ review # NoReview
        /\ stargates' = {IF accepts(a) THEN [a EXCEPT !.proof = p] ELSE a : a \in stargates}
        /\ review' = NoReview
        /\ UNCHANGED <<tiers, listeners, increment, revoke, authorized, sync, runs, left>>

----------------------------------------------------------------------------
(* rolesync discord: a plan, its confirmation, a fresh look, and the rows    *)
(* are made to follow the highest role.                                      *)

Highest == IF tiers = {} THEN 0 ELSE Max(tiers)

PlanSync ==
    /\ sync.step = "none" /\ Left("commands")
    /\ sync' = [step |-> "planned", tier |-> Highest, changes |-> Highest # Projection]
    /\ UNCHANGED <<roleDb, tiers, listeners, increment, revoke, authorized, review, runs>>

ConfirmSync ==
    /\ sync.step = "planned"
    /\ sync' = IF Highest = sync.tier /\ sync.changes = (Highest # Projection)
               THEN [sync EXCEPT !.step = "confirmed"] ELSE NoSync
    /\ UNCHANGED <<roleDb, tiers, listeners, increment, revoke, authorized, review, runs, left>>

\* The rows after apply_discord_snapshot: ordinals 1..tier, an old award where there is one.
Followed(tier) ==
    LET revoked == {IF a \in Live /\ a.ordinal > tier THEN [a EXCEPT !.state = "revoked"]
                    ELSE a : a \in stargates}
        missing == {i \in 1..tier : ~\E a \in revoked : a.ordinal = i /\ a.state # "revoked"}
        latest == {a \in revoked : /\ a.state = "revoked" /\ a.ordinal \in missing
                                   /\ \A b \in revoked : b.ordinal = a.ordinal => b.id <= a.id}
        new == missing \ {a.ordinal : a \in latest}
    IN  [rows |-> (revoked \ latest) \cup {[a EXCEPT !.state = "active"] : a \in latest},
         new  |-> new]

ApplySync ==
    LET result == Followed(sync.tier) IN
    /\ sync.step = "confirmed"
    /\ IF Projection = sync.tier THEN UNCHANGED stargates
       ELSE /\ Cardinality(result.new) <= Cardinality(FreeId)
            /\ \E ids \in [result.new -> FreeId] :
                  /\ \A i, j \in result.new : i < j => ids[i] < ids[j]
                  /\ stargates' = result.rows \cup
                       {[id |-> ids[i], ordinal |-> i, state |-> "active", proof |-> NoProof] :
                           i \in result.new}
    /\ sync' = NoSync
    /\ UNCHANGED <<tiers, listeners, increment, revoke, authorized, review, runs, left>>

----------------------------------------------------------------------------
(* The reconciliation; the process ends and starts.                          *)

Daily ==
    /\ ~due /\ reconcile = NotRunning /\ tiers # RolesOf(Projection)
    /\ due' = TRUE
    /\ UNCHANGED <<roleDb, tiers, listeners, admins, reconcile, retry, left>>

StartByHighest(again) ==
    /\ reconcile = NotRunning /\ (IF again THEN retry ELSE due)
    /\ reconcile' = [step |-> IF Highest = Projection THEN "end" ELSE "restore",
                     count |-> Projection, retries |-> again]
    /\ due' = (due /\ again)
    /\ UNCHANGED <<roleDb, tiers, listeners, admins, retry, left>>

\* A run, or the retry of one; the lock of the guild makes it the only one.
StartReconcile(again) ==
    /\ reconcile = NotRunning /\ (IF again THEN retry ELSE due)
    /\ reconcile' = [step |-> IF tiers = RolesOf(Projection) THEN "end" ELSE "restore",
                     count |-> Projection, retries |-> again]
    /\ due' = (due /\ again)
    /\ UNCHANGED <<roleDb, tiers, listeners, admins, retry, left>>

RestoreProjection ==
    /\ reconcile.step = "restore"
    /\ \/ /\ SetRoles(RolesOf(reconcile.count))
          /\ reconcile' = NotRunning /\ retry' = FALSE
          /\ UNCHANGED left
       \/ /\ Left("faults")
          /\ reconcile' = NotRunning /\ retry' = ~reconcile.retries
          /\ UNCHANGED <<tiers, updates>>
    /\ UNCHANGED <<roleDb, seen, restoring, admins, due>>

EndReconcile ==
    /\ reconcile.step = "end"
    /\ reconcile' = NotRunning /\ retry' = FALSE
    /\ UNCHANGED <<roleDb, tiers, listeners, admins, due, left>>

\* The increment is recovered from its rows; the start reconciles.
Restart ==
    /\ Left("crashes")
    /\ updates' = {} /\ seen' = {} /\ restoring' = {}
    /\ increment' = IF increment = "none" THEN "none" ELSE "claimed"
    /\ revoke' = NoRevoke /\ authorized' = {} /\ review' = NoReview /\ sync' = NoSync
    /\ reconcile' = NotRunning /\ retry' = FALSE /\ due' = TRUE
    /\ UNCHANGED <<roleDb, tiers>>

----------------------------------------------------------------------------
Listener ==
    \/ \E roles \in SUBSET (1..TopTier) : Observe(roles) \/ Compare(roles)
    \/ \E count \in 0..TopTier : Restore(count)
Revoker == ConfirmRevoke \/ EditRevoke \/ DeleteRevoked \/ UndoRevoke
Reconciler == StartReconcile(TRUE) \/ StartReconcile(FALSE) \/ RestoreProjection \/ EndReconcile

Next ==
    \/ \E roles \in SUBSET (1..TopTier) : Meddle(roles)
    \/ Listener
    \/ ClaimIncrement \/ ApplyIncrement \/ RecordIncrement
    \/ \E a \in stargates : ReviewProof(a) \/ \E compact \in BOOLEAN : ReviewRevoke(a, compact)
    \/ \E p \in Proof : AttachProof(p)
    \/ Revoker
    \/ PlanSync \/ ConfirmSync \/ ApplySync
    \/ Daily \/ Reconciler \/ Restart

Spec == Init /\ [][Next]_roleVars

\* Tasks of the event loop go on; the reconciliation runs every day.
Fairness == /\ WF_roleVars(Listener) /\ WF_roleVars(Revoker) /\ WF_roleVars(Reconciler)
            /\ WF_roleVars(Daily) /\ WF_roleVars(ApplyIncrement \/ RecordIncrement)
FairSpec == Spec /\ Fairness

----------------------------------------------------------------------------
TypeOK ==
    /\ stargates \subseteq Award
    /\ tiers \subseteq 1..TopTier
    /\ updates \cup seen \cup authorized \subseteq SUBSET (1..TopTier)
    /\ restoring \subseteq 0..TopTier
    /\ increment \in {"none", "claimed", "applied"}
    /\ revoke.step \in {"none", "review", "edit", "delete", "undo"}
    /\ sync.step \in {"none", "planned", "confirmed"}
    /\ reconcile.step \in {"none", "restore", "end"} /\ due \in BOOLEAN /\ retry \in BOOLEAN

\* The unique indexes of achievement_awards would refuse nothing: the live Stargates of a
\* user have different ordinals, through increments, revocations that close the gap, and
\* synchronisations that revive old awards.
OrdinalsDistinct == \A a, b \in Live : a.ordinal = b.ordinal => a.id = b.id

\* Whatever moderators, failed requests and restarts did to the role, and however revocations
\* and increments interleaved with it, in the end it is the one of the user's Stargates.
RoleConverges == <>[](tiers = RolesOf(Projection))
=============================================================================
