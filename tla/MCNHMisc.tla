------------------------------ MODULE MCNHMisc ------------------------------
(* Small instances of four parts of the NHMisc cog.  They share no state that *)
(* one of the modules does not hold itself, so a behaviour moves one of them, *)
(* the focus, and the states of the run are the sum of theirs.                *)
EXTENDS GateIncrement, Sequences, TLC

CONSTANTS msg1, msg2,                          \* gate increments
          p, NoProof,                          \* gate roles
          a, b, A, B, NoRole, d, e,            \* achievements
          ann, ben                             \* users

VARIABLES focus,
  \* GateRoles
  stargates, tiers, updates, seen, restoring, increment, revoke, authorized, review, sync, reconcile,
  due, retry, left,
  \* Achievements
  catalog, owned, past, worn, feed, cached, gone, dropped, desk, listening, pending, rolesync, audit,
  auditDue, auditRetry, allowance,
  \* RoleAnalytics
  guild, inbox, analytics, mirror, applying, registered, waiting, snapshot, retrying, disabling,
  straggler, requested, missed, chances

-----------------------------------------------------------------------------
(* The bounds: each record lets one or two kinds of trouble happen. *)

User == {ann, ben}

Together == msg1 :> {ann, ben} @@ msg2 :> {}
Twice == msg1 :> {ann} @@ msg2 :> {ann}
Mentioned == {Together, Twice}
Gate(x, f, c, k) == "crashes" :> x @@ "faults" :> f @@ "changes" :> c @@ "erasures" :> k
GateTroubles == {Gate(1,0,0,0), Gate(0,1,0,0), Gate(0,0,1,0), Gate(0,0,0,1)}

Tier(c, f, x, k) == "changes" :> c @@ "faults" :> f @@ "crashes" :> x @@ "commands" :> k
RoleLimits == {Tier(1,0,0,1), Tier(0,1,0,1), Tier(0,0,1,1), Tier(0,0,0,2),
               Tier(1,1,0,0), Tier(1,0,1,0)}

Badge == {"grants", "revocations", "definitions", "bindings", "replacements", "increments",
          "erasures", "syncs", "changes", "faults", "crashes"}
Only(f) == f @@ [k \in Badge |-> 0]
BadgeLimits == {Only("replacements" :> 1), Only("increments" :> 1 @@ "syncs" :> 1 @@ "crashes" :> 1),
                Only("revocations" :> 1 @@ "faults" :> 1), Only("grants" :> 1 @@ "erasures" :> 1),
                Only("grants" :> 1 @@ "faults" :> 1), Only("bindings" :> 1 @@ "changes" :> 1),
                Only("definitions" :> 2 @@ "grants" :> 1)}
Definition(status, role) == [status |-> status, name |-> 0, role |-> role]
Settled == a :> Definition("listed", A) @@ b :> Definition("listed", NoRole)
Young == a :> Definition("listed", A) @@ b :> Definition("future", NoRole)
Catalogs == {Settled, Young}

Chances(c, k, f, x, o) == "changes" :> c @@ "gaps" :> k @@ "faults" :> f @@ "crashes" :> x
                          @@ "toggles" :> o
AnalyticsLimits == {Chances(1,0,1,0,1), Chances(0,1,0,1,1), Chances(2,0,0,0,1),
                    Chances(0,0,2,0,2)}

-----------------------------------------------------------------------------

Roles == INSTANCE GateRoles WITH TopTier <- 2, AwardId <- 1..3, Proof <- {p}
Badges == INSTANCE Achievements WITH Key <- {a, b}, SystemKey <- {a}, Bindable <- {A, B},
                                     Desk <- {d, e}
Counts == INSTANCE RoleAnalytics WITH Tracked <- User, MaxGeneration <- 4, sync <- snapshot

ASSUME Roles!GateRolesAssumption
ASSUME Badges!AchievementsAssumption
ASSUME Counts!AnalyticsAssumption

OneOf(set) == CHOOSE x \in set : TRUE

AllInit ==
  /\ focus \in {"gates", "roles", "badges", "counts"}
  /\ Init /\ (focus # "gates" => budget = OneOf(GateLimits))
     /\ mentions = (IF budget["crashes"] > 0 THEN Together ELSE Twice)
  /\ Roles!Init /\ (focus # "roles" => left = OneOf(RoleLimits) /\ stargates = {})
  /\ Badges!Init /\ (focus # "badges" => /\ allowance = OneOf(BadgeLimits)
                                         /\ \A k \in {a, b} : owned[k] = "none")
     /\ catalog = (IF allowance["definitions"] > 0 THEN Young ELSE Settled)
  /\ Counts!Init /\ (focus # "counts" => chances = OneOf(AnalyticsLimits))

roleVars == <<stargates, tiers, updates, seen, restoring, increment, revoke, authorized, review, sync,
              reconcile, due, retry, left>>
badgeVars == <<catalog, owned, past, worn, feed, cached, gone, dropped, desk, listening, pending,
               rolesync, audit, auditDue, auditRetry, allowance>>
countVars == <<guild, inbox, analytics, mirror, applying, registered, waiting, snapshot, retrying,
               disabling, straggler, requested, missed, chances>>
allVars == <<focus, gateVars, roleVars, badgeVars, countVars>>

AllNext ==
  \/ /\ focus = "gates" /\ Next
     /\ UNCHANGED <<focus, roleVars, badgeVars, countVars>>
  \/ /\ focus = "roles" /\ Roles!Next
     /\ UNCHANGED <<focus, gateVars, badgeVars, countVars>>
  \/ /\ focus = "badges" /\ Badges!Next
     /\ UNCHANGED <<focus, gateVars, roleVars, countVars>>
  \/ /\ focus = "counts" /\ Counts!Next
     /\ UNCHANGED <<focus, gateVars, roleVars, badgeVars>>

\* The fairness of each module, for the part that moves.
GateFairness ==
  /\ \A x \in Handler : WF_gateVars(focus = "gates" /\ Advance(x))
  /\ WF_gateVars(focus = "gates" /\ \E x \in Source : Recover(x))
  /\ WF_gateVars(focus = "gates" /\ Start)
RoleFairness ==
  /\ WF_roleVars(focus = "roles" /\ Roles!Listener)
  /\ WF_roleVars(focus = "roles" /\ Roles!Revoker)
  /\ WF_roleVars(focus = "roles" /\ Roles!Reconciler)
  /\ WF_roleVars(focus = "roles" /\ Roles!Daily)
  /\ WF_roleVars(focus = "roles" /\ (Roles!ApplyIncrement \/ Roles!RecordIncrement))
BadgeFairness ==
  /\ \A x \in {d, e} : WF_badgeVars(focus = "badges" /\ Badges!Moderate(x))
  /\ WF_badgeVars(focus = "badges" /\ Badges!Listener)
  /\ WF_badgeVars(focus = "badges" /\ Badges!Reconciler)
  /\ WF_badgeVars(focus = "badges" /\ Badges!Daily)
  /\ WF_badgeVars(focus = "badges" /\ (Badges!ApplyPending \/ Badges!Activate))
CountFairness ==
  /\ WF_countVars(focus = "counts" /\ Counts!Listening)
  /\ WF_countVars(focus = "counts" /\ Counts!Synchronizing)
  /\ WF_countVars(focus = "counts" /\ Counts!Request)
  /\ WF_countVars(focus = "counts" /\ Counts!Reconcile)
  /\ WF_countVars(focus = "counts" /\ Counts!Retry)
  /\ WF_countVars(focus = "counts" /\ Counts!ClearGuild)
  /\ WF_countVars(focus = "counts" /\ Counts!Straggle)

AllSpec == AllInit /\ [][AllNext]_allVars /\ GateFairness /\ RoleFairness /\ BadgeFairness /\ CountFairness

-----------------------------------------------------------------------------
(* The properties, each stated and explained in the module of its part; *)
(* IncrementsHonest and AnnouncedRightly are GateIncrement's own.        *)

\* Every part keeps its types.
AllTypeOK == /\ TypeOK /\ Roles!TypeOK /\ Badges!TypeOK /\ Counts!TypeOK

\* The gate role of a member becomes the one of his Stargates, whose ordinals differ,
\* and his bound roles become those of his achievements (role reconciliation).
RolesConverge ==
  Roles!RoleConverges /\ []Roles!OrdinalsDistinct /\ Badges!RolesFollowAwards

\* What analytics call ready is the guild, and they become ready again.
AnalyticsConverge == Counts!AnalyticsConverge /\ []Counts!ReadyIsExact
=============================================================================
