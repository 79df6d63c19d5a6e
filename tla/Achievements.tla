----------------------------- MODULE Achievements -----------------------------
(***************************************************************************)
(* The achievements of one user other than Stargates (NHCogs/nhmisc): the  *)
(* catalogue of a guild, the awards in achievement_store.py, and the       *)
(* Discord roles some achievements are bound to.  Every change of a role   *)
(* sends the user's whole set of roles, computed from the member in the    *)
(* cache, which follows Discord one gateway event behind another; so two   *)
(* changes at once can undo each other, and a listener and a               *)
(* reconciliation put right what came out of it.                           *)
(*                                                                         *)
(* A step is what a handler does between two awaits.                       *)
(***************************************************************************)
EXTENDS Naturals, FiniteSets, Sequences

CONSTANTS
    Key, SystemKey,     \* achievements, and those that cannot be deleted
    Bindable, NoRole,   \* Discord roles
    Desk,               \* moderators at work at once
    Catalogs,           \* the catalogues a guild may start with
    BadgeLimits         \* how often what may happen

Definition ==
    [status : {"future", "listed", "deleted"}, name : 0..1, role : Bindable \cup {NoRole}]

Events == {"grants", "revocations", "definitions", "bindings", "replacements", "increments",
           "erasures", "syncs", "changes", "faults", "crashes"}

AchievementsAssumption ==
    /\ SystemKey \subseteq Key /\ NoRole \notin Bindable
    /\ Catalogs \subseteq [Key -> Definition]
    /\ BadgeLimits \subseteq [Events -> Nat]

VARIABLES
    catalog,        \* achievement_definitions
    owned, past,    \* the user's live award, and how many revoked ones, by key
    worn,           \* Discord: the bindable roles of the user
    feed, cached,   \* his member updates on the way, and his roles in the cache
    gone, dropped,  \* deleted roles, and those whose deletion is not handled yet
    desk,           \* what the moderators' commands are doing
    listening,      \* on_achievement_member_update, its runs
    pending,        \* the gate increment that comes with an achievement
    rolesync,       \* rolesync discord
    audit, auditDue, auditRetry,  \* the reconciliation, whether one is to run or to retry
    allowance       \* what may still happen

badgeDb == <<catalog, owned, past>>
badgeDiscord == <<worn, feed, cached, gone, dropped>>
badgeTasks == <<desk, listening, pending, rolesync>>
audits == <<audit, auditDue, auditRetry>>
badgeVars == <<badgeDb, badgeDiscord, badgeTasks, audits, allowance>>

Listed == {k \in Key : catalog[k].status = "listed"}
Bound == {k \in Listed : catalog[k].role # NoRole}
Owner(r) == {k \in Listed : catalog[k].role = r}
Projected(k) == owned[k] \in {"pending", "active"}
Rows(k) == past[k] + (IF owned[k] = "none" THEN 0 ELSE 1)
RolesOf(keys, definitions) == {definitions[k].role : k \in keys} \ {NoRole}
May(what) == allowance[what] > 0 /\ allowance' = [allowance EXCEPT ![what] = @ - 1]

NobodyThere == [step |-> "free", keys |-> {}, seen |-> <<>>, made |-> {}, todo |-> {},
                old |-> NoRole, new |-> NoRole, held |-> {}, drop |-> FALSE, count |-> 0]
NoAudit == [step |-> "none", defs |-> {}, actual |-> {}, work |-> {}, want |-> {},
            failed |-> FALSE, again |-> FALSE]
NoSync == [step |-> "none", snapshot |-> <<>>, differs |-> {}]

\* member.edit(roles=...): Discord takes the set, and tells of a change.  What is computed
\* from the member as known is sent if it differs from that.
Put(roles) == /\ worn' = roles \ gone
              /\ feed' = IF worn' = worn THEN feed ELSE Append(feed, worn')
Edit(known, roles) == IF roles = known THEN UNCHANGED <<worn, feed>> ELSE Put(roles)
Revoked(keys) == /\ owned' = [k \in Key |-> IF k \in keys /\ owned[k] = "active"
                                            THEN "none" ELSE owned[k]]
                 /\ past' = [k \in Key |-> IF k \in keys /\ owned[k] = "active"
                                           THEN past[k] + 1 ELSE past[k]]
Imported(k, holder) == IF holder /\ owned[k] = "none"
                       THEN [owned EXCEPT ![k] = "active"] ELSE owned
Sit(d, r) == desk' = [desk EXCEPT ![d] = r]
Leave(d) == Sit(d, NobodyThere)

Init ==
    /\ catalog \in Catalogs
    /\ owned \in [Key -> {"none", "active"}]
    /\ \A k \in Key \ Listed : owned[k] = "none"
    /\ past = [k \in Key |-> 0]
    /\ worn = RolesOf({k \in Bound : owned[k] = "active"}, catalog)
    /\ feed = <<>> /\ cached = worn /\ gone = {} /\ dropped = {}
    /\ desk = [d \in Desk |-> NobodyThere]
    /\ listening = {} /\ pending = "none" /\ rolesync = NoSync
    /\ audit = NoAudit /\ auditDue = FALSE /\ auditRetry = FALSE
    /\ allowance \in BadgeLimits

----------------------------------------------------------------------------
(* Grants: reviewed definitions, then a row for each, then one edit that     *)
(* adds all their roles; if it fails the rows it made are revoked.           *)

Free(d) == desk[d] = NobodyThere /\ d = CHOOSE x \in Desk : desk[x] = NobodyThere
AsReviewed(d) == \A k \in desk[d].keys : catalog[k] = desk[d].seen[k]
Review(d, step, keys) ==
    [NobodyThere EXCEPT !.step = step, !.keys = keys, !.seen = [k \in keys |-> catalog[k]]]

ReviewGrant(d, keys) ==
    /\ Free(d) /\ May("grants") /\ keys # {} /\ keys \subseteq Listed
    /\ Sit(d, Review(d, "grant", keys))
    /\ UNCHANGED <<badgeDb, badgeDiscord, listening, pending, rolesync, audits>>

ConfirmGrant(d) ==
    /\ desk[d].step = "grant"
    /\ IF AsReviewed(d) /\ RolesOf(desk[d].keys, catalog) \cap gone = {}
       THEN Sit(d, [desk[d] EXCEPT !.step = "granting", !.todo = desk[d].keys])
       ELSE Leave(d)
    /\ UNCHANGED <<badgeDb, badgeDiscord, listening, pending, rolesync, audits, allowance>>

\* A definition that is gone by now ends the command, with the rows made so far.
GrantNext(d, k) ==
    LET r == desk[d]
        roles == RolesOf(r.keys, r.seen)
        rest == r.todo \ {k}
        made == IF owned[k] = "none" THEN r.made \cup {k} ELSE r.made
    IN  /\ r.step = "granting" /\ k \in r.todo
        /\ IF k \notin Listed
           THEN Leave(d) /\ UNCHANGED owned
           ELSE /\ owned' = Imported(k, TRUE)
                /\ IF rest # {} THEN Sit(d, [r EXCEPT !.todo = rest, !.made = made])
                   ELSE IF roles = {} THEN Leave(d)
                   ELSE Sit(d, [r EXCEPT !.step = "give", !.todo = {}, !.made = made])
        /\ UNCHANGED <<catalog, past, badgeDiscord, listening, pending, rolesync, audits,
                       allowance>>

Give(d) ==
    LET roles == RolesOf(desk[d].keys, desk[d].seen) IN
    /\ desk[d].step = "give"
    /\ \/ /\ IF roles \cap gone = {} THEN Edit(cached, cached \cup roles)
             ELSE UNCHANGED <<worn, feed>>
          /\ Leave(d) /\ UNCHANGED allowance
       \/ /\ May("faults") /\ Sit(d, [desk[d] EXCEPT !.step = "ungrant"])
          /\ UNCHANGED <<worn, feed>>
    /\ UNCHANGED <<badgeDb, cached, gone, dropped, listening, pending, rolesync, audits>>

Ungrant(d) ==
    /\ desk[d].step = "ungrant"
    /\ Revoked(desk[d].made) /\ Leave(d)
    /\ UNCHANGED <<catalog, badgeDiscord, listening, pending, rolesync, audits, allowance>>

(* Revocations: the rows first; a role that could not be taken away stays.   *)

ReviewRevocation(d, keys) ==
    /\ Free(d) /\ May("revocations") /\ keys # {}
    /\ keys \subseteq {k \in Listed : owned[k] = "active"}
    /\ Sit(d, Review(d, "revoke", keys))
    /\ UNCHANGED <<badgeDb, badgeDiscord, listening, pending, rolesync, audits>>

ConfirmRevocation(d) ==
    /\ desk[d].step = "revoke"
    /\ IF /\ AsReviewed(d) /\ \A k \in desk[d].keys : owned[k] = "active"
          /\ RolesOf(desk[d].keys, catalog) \cap gone = {}
       THEN Sit(d, [desk[d] EXCEPT !.step = "revoking"])
       ELSE Leave(d)
    /\ UNCHANGED <<badgeDb, badgeDiscord, listening, pending, rolesync, audits, allowance>>

RevokeRows(d) ==
    /\ desk[d].step = "revoking"
    /\ Revoked(desk[d].keys)
    /\ IF RolesOf(desk[d].keys, desk[d].seen) = {} THEN Leave(d)
       ELSE Sit(d, [desk[d] EXCEPT !.step = "take"])
    /\ UNCHANGED <<catalog, badgeDiscord, listening, pending, rolesync, audits, allowance>>

Take(d) ==
    /\ desk[d].step = "take"
    /\ \/ /\ Edit(cached, cached \ RolesOf(desk[d].keys, desk[d].seen))
          /\ UNCHANGED allowance
       \/ May("faults") /\ UNCHANGED <<worn, feed>>
    /\ Leave(d)
    /\ UNCHANGED <<badgeDb, cached, gone, dropped, listening, pending, rolesync, audits>>

----------------------------------------------------------------------------
(* The catalogue: create, rename, delete; bind, replace and unbind roles.    *)

Create(k) ==
    /\ catalog[k].status = "future" /\ May("definitions")
    /\ catalog' = [catalog EXCEPT ![k].status = "listed"]
    /\ UNCHANGED <<owned, past, badgeDiscord, badgeTasks, audits>>

Rename(k) ==
    /\ k \in Listed /\ May("definitions")
    /\ catalog' = [catalog EXCEPT ![k].name = 1 - @]
    /\ UNCHANGED <<owned, past, badgeDiscord, badgeTasks, audits>>

Deletable(k) == k \in Listed \ SystemKey /\ catalog[k].role = NoRole

ReviewDeletion(d, k) ==
    /\ Free(d) /\ May("definitions") /\ Deletable(k)
    /\ Sit(d, [NobodyThere EXCEPT !.step = "delete", !.keys = {k}, !.count = Rows(k)])
    /\ UNCHANGED <<badgeDb, badgeDiscord, listening, pending, rolesync, audits>>

DeleteDefinition(d, k) ==
    /\ desk[d].step = "delete" /\ desk[d].keys = {k}
    /\ IF Deletable(k) /\ Rows(k) = desk[d].count
       THEN /\ catalog' = [catalog EXCEPT ![k].status = "deleted"]
            /\ owned' = [owned EXCEPT ![k] = "none"] /\ past' = [past EXCEPT ![k] = 0]
       ELSE UNCHANGED badgeDb
    /\ Leave(d)
    /\ UNCHANGED <<badgeDiscord, listening, pending, rolesync, audits, allowance>>

Unbind(r) ==
    /\ Owner(r) # {} /\ May("bindings")
    /\ catalog' = [k \in Key |-> IF k \in Owner(r) THEN [catalog[k] EXCEPT !.role = NoRole]
                                 ELSE catalog[k]]
    /\ UNCHANGED <<owned, past, badgeDiscord, badgeTasks, audits>>

ReviewBinding(d, k, r) ==
    /\ Free(d) /\ May("bindings") /\ k \in Listed \ Bound
    /\ r \in Bindable \ gone /\ Owner(r) = {}
    /\ Sit(d, [Review(d, "bind", {k}) EXCEPT !.new = r, !.held = cached \cap {r}])
    /\ UNCHANGED <<badgeDb, badgeDiscord, listening, pending, rolesync, audits>>

\* Bind: the achievement is unbound still, the role free, its holders those reviewed.
ConfirmBinding(d, k) ==
    LET r == desk[d] IN
    /\ r.step = "bind" /\ r.keys = {k}
    /\ IF k \in Listed \ Bound /\ Owner(r.new) = {} /\ cached \cap {r.new} = r.held
       THEN Sit(d, [r EXCEPT !.step = "binding", !.seen = <<>>]) ELSE Leave(d)
    /\ UNCHANGED <<badgeDb, badgeDiscord, listening, pending, rolesync, audits, allowance>>

BindRole(d, k) ==
    LET r == desk[d] IN
    /\ r.step = "binding" /\ r.keys = {k}
    /\ IF k \in Listed \ Bound /\ Owner(r.new) = {}
       THEN /\ catalog' = [catalog EXCEPT ![k].role = r.new]
            /\ owned' = Imported(k, r.held # {})
            /\ auditDue' = TRUE
       ELSE UNCHANGED <<catalog, owned, auditDue>>
    /\ Leave(d)
    /\ UNCHANGED <<past, badgeDiscord, listening, pending, rolesync, audit, auditRetry, allowance>>

ReviewReplacement(d, k, r) ==
    LET old == catalog[k].role IN
    /\ Free(d) /\ May("replacements") /\ k \in Bound
    /\ r \in Bindable \ gone /\ Owner(r) = {}
    /\ Sit(d, [Review(d, "replace", {k}) EXCEPT !.old = old, !.new = r,
                                                !.held = cached \cap {old, r}])
    /\ UNCHANGED <<badgeDb, badgeDiscord, listening, pending, rolesync, audits>>

ConfirmReplacement(d, drop) ==
    LET r == desk[d] IN
    /\ r.step = "replace"
    /\ IF AsReviewed(d) /\ Owner(r.new) = {} /\ cached \cap {r.old, r.new} = r.held
          /\ {r.old, r.new} \cap gone = {}
       THEN Sit(d, [r EXCEPT !.step = "replacing", !.drop = drop, !.seen = <<>>]) ELSE Leave(d)
    /\ UNCHANGED <<badgeDb, badgeDiscord, listening, pending, rolesync, audits, allowance>>

ReplaceRole(d, k) ==
    LET r == desk[d] IN
    /\ r.step = "replacing" /\ r.keys = {k}
    /\ IF k \in Listed /\ catalog[k].role = r.old /\ Owner(r.new) = {}
       THEN /\ catalog' = [catalog EXCEPT ![k].role = r.new]
            /\ owned' = Imported(k, r.held # {})
            /\ Sit(d, [r EXCEPT !.step = "replaced"])
       ELSE UNCHANGED <<catalog, owned>> /\ Leave(d)
    /\ UNCHANGED <<past, badgeDiscord, listening, pending, rolesync, audits, allowance>>

\* Who is projected now gets the new role, unless the review saw him with it.
ReadMembers(d, k) ==
    LET r == desk[d] IN
    /\ r.step = "replaced" /\ r.keys = {k}
    /\ Sit(d, [r EXCEPT !.step = "move",
                        !.held = IF Projected(k) THEN r.held ELSE r.held \cup {r.new}])
    /\ UNCHANGED <<badgeDb, badgeDiscord, listening, pending, rolesync, audits, allowance>>

MoveMember(d) ==
    LET r == desk[d]
        add == {r.new} \ r.held
        remove == IF r.drop THEN {r.old} \cap r.held ELSE {}
    IN  /\ r.step = "move"
        /\ \/ /\ IF add \cap gone = {} THEN Edit(cached, (cached \cup add) \ remove)
                 ELSE UNCHANGED <<worn, feed>>
              /\ UNCHANGED allowance
           \/ May("faults") /\ UNCHANGED <<worn, feed>>
        /\ Leave(d)
        /\ UNCHANGED <<badgeDb, cached, gone, dropped, listening, pending, rolesync, audits>>

----------------------------------------------------------------------------
(* The listener of member updates.                                           *)

NotHeard == [step |-> "heard", before |-> {}, after |-> {}, todo |-> {}]

\* A moderator gives or takes a role by hand.
Meddle(r) ==
    /\ r \notin gone /\ May("changes")
    /\ Put(IF r \in worn THEN worn \ {r} ELSE worn \cup {r})
    /\ UNCHANGED <<badgeDb, cached, gone, dropped, badgeTasks, audits>>

\* A member update arrives: the cached member, which `after' is, takes its roles.
Deliver ==
    /\ feed # <<>>
    /\ cached' = Head(feed) /\ feed' = Tail(feed)
    /\ listening' = IF Head(feed) = cached THEN listening
                    ELSE listening \cup {[NotHeard EXCEPT !.before = cached]}
    /\ UNCHANGED <<badgeDb, worn, gone, dropped, desk, pending, rolesync, audits, allowance>>

\* The roles after, and the bound definitions whose role changed.
Look(t) ==
    LET changed == {k \in Bound : (catalog[k].role \in t.before) # (catalog[k].role \in cached)} IN
    /\ t \in listening /\ t.step = "heard"
    /\ listening' = (listening \ {t}) \cup
         (IF changed = {} THEN {}
          ELSE {[NotHeard EXCEPT !.step = "check", !.after = cached,
                                 !.todo = {<<k, catalog[k].role>> : k \in changed}]})
    /\ UNCHANGED <<badgeDb, badgeDiscord, desk, pending, rolesync, audits, allowance>>

\* The projection of one of them is read, and the role corrected in the cached set.  A
\* request that fails, or a role that is gone, ends the run.
Rest(t, p) == IF t.todo = {p} THEN {} ELSE {[t EXCEPT !.todo = @ \ {p}]}

Correct(t, p) ==
    LET right == IF Projected(p[1]) THEN cached \cup {p[2]} ELSE cached \ {p[2]}
        settled == (p[2] \in t.after) = Projected(p[1])
    IN  /\ t \in listening /\ t.step = "check" /\ p \in t.todo
        /\ \/ /\ settled \/ p[2] \notin gone
              /\ IF settled THEN UNCHANGED <<worn, feed>> ELSE Edit(cached, right)
              /\ listening' = (listening \ {t}) \cup Rest(t, p)
              /\ UNCHANGED allowance
           \/ /\ ~settled /\ (IF p[2] \in gone THEN UNCHANGED allowance ELSE May("faults"))
              /\ listening' = listening \ {t} /\ UNCHANGED <<worn, feed>>
        /\ UNCHANGED <<badgeDb, cached, gone, dropped, desk, pending, rolesync, audits>>

\* A role of the guild is deleted: members lose it without an update of theirs.
RoleDeleted(r) ==
    /\ r \notin gone /\ May("changes")
    /\ gone' = gone \cup {r} /\ dropped' = dropped \cup {r}
    /\ worn' = worn \ {r} /\ cached' = cached \ {r}
    /\ feed' = [i \in 1..Len(feed) |-> feed[i] \ {r}]
    /\ UNCHANGED <<badgeDb, badgeTasks, audits>>

ForgetRole(r) ==
    /\ r \in dropped /\ dropped' = dropped \ {r}
    /\ catalog' = [k \in Key |-> IF k \in Owner(r) THEN [catalog[k] EXCEPT !.role = NoRole]
                                 ELSE catalog[k]]
    /\ UNCHANGED <<owned, past, worn, feed, cached, gone, badgeTasks, audits, allowance>>

----------------------------------------------------------------------------
(* A gate increment with an additional achievement (see GateIncrement);      *)
(* rolesync discord; the erasure of the user.                                *)

Pend(k) ==
    /\ pending = "none" /\ k \in Listed /\ owned[k] = "none" /\ May("increments")
    /\ owned' = [owned EXCEPT ![k] = "pending"] /\ pending' = "claimed"
    /\ UNCHANGED <<catalog, past, badgeDiscord, desk, listening, rolesync, audits>>

PendingKeys == {k \in Key : owned[k] = "pending"}
ApplyPending ==
    /\ pending = "claimed" /\ pending' = "applied"
    /\ Edit(worn, worn \cup RolesOf(PendingKeys, catalog))
    /\ UNCHANGED <<badgeDb, cached, gone, dropped, desk, listening, rolesync, audits, allowance>>

Activate ==
    /\ pending = "applied" /\ pending' = "none"
    /\ owned' = [k \in Key |-> IF k \in PendingKeys THEN "active" ELSE owned[k]]
    /\ UNCHANGED <<catalog, past, badgeDiscord, desk, listening, rolesync, audits, allowance>>

Erase ==
    /\ May("erasures") /\ pending = "none"
    /\ owned' = [k \in Key |-> "none"] /\ past' = [k \in Key |-> 0]
    /\ UNCHANGED <<catalog, badgeDiscord, badgeTasks, audits>>

Snapshot == [k \in Bound |-> catalog[k].role \in cached]
Differs == {k \in Bound : (owned[k] = "active") # (catalog[k].role \in cached)}

PlanSync ==
    /\ rolesync = NoSync /\ May("syncs") /\ cached = worn
    /\ rolesync' = [step |-> "planned", snapshot |-> Snapshot, differs |-> Differs]
    /\ UNCHANGED <<badgeDb, badgeDiscord, desk, listening, pending, audits>>

ConfirmSync ==
    /\ rolesync.step = "planned"
    /\ rolesync' = IF Snapshot = rolesync.snapshot /\ Differs = rolesync.differs
                   THEN [rolesync EXCEPT !.step = "confirmed"] ELSE NoSync
    /\ UNCHANGED <<badgeDb, badgeDiscord, desk, listening, pending, audits, allowance>>

\* One transaction: a pending award in the way of a new one fails all of it.
ApplySync ==
    LET s == rolesync.snapshot
        take == {k \in DOMAIN s : owned[k] = "active" /\ ~s[k]}
        give == {k \in DOMAIN s : owned[k] # "active" /\ s[k]}
    IN  /\ rolesync.step = "confirmed" /\ rolesync' = NoSync
        /\ IF give \cap PendingKeys # {} THEN UNCHANGED <<owned, past>>
           ELSE /\ owned' = [k \in Key |-> IF k \in give THEN "active"
                                           ELSE IF k \in take THEN "none" ELSE owned[k]]
                /\ past' = [k \in Key |-> IF k \in take THEN past[k] + 1 ELSE past[k]]
        /\ UNCHANGED <<catalog, badgeDiscord, desk, listening, pending, audits, allowance>>

----------------------------------------------------------------------------
(* The reconciliation, an hour's retry of one that left something undone;    *)
(* the process ends and starts.                                              *)

Agrees == \A k \in Bound : catalog[k].role \in gone \/ (catalog[k].role \in worn) = Projected(k)

Daily ==
    /\ ~auditDue /\ audit = NoAudit /\ ~Agrees
    /\ auditDue' = TRUE
    /\ UNCHANGED <<badgeDb, badgeDiscord, badgeTasks, audit, auditRetry, allowance>>

StartAudit(again) ==
    /\ audit = NoAudit /\ (IF again THEN auditRetry ELSE auditDue)
    /\ auditDue' = (auditDue /\ again)
    /\ audit' = [NoAudit EXCEPT !.step = "next", !.again = again, !.actual = cached,
                                !.defs = {<<k, catalog[k].role>> : k \in Bound}]
    /\ UNCHANGED <<badgeDb, badgeDiscord, badgeTasks, auditRetry, allowance>>

AuditNext(p) ==
    /\ audit.step = "next" /\ p \in audit.defs
    /\ audit' = [audit EXCEPT !.defs = @ \ {p},
                  !.step = IF (p[2] \in audit.actual) = Projected(p[1]) THEN "next" ELSE "fetch",
                  !.work = IF (p[2] \in audit.actual) = Projected(p[1]) THEN {}
                           ELSE {<<p[2], Projected(p[1])>>}]
    /\ UNCHANGED <<badgeDb, badgeDiscord, badgeTasks, auditDue, auditRetry, allowance>>

\* fetch_member, and the set to send: what Discord answered, corrected.
AuditFetch(w) ==
    LET want == IF w[2] THEN worn \cup {w[1]} ELSE worn \ {w[1]} IN
    /\ audit.step = "fetch" /\ audit.work = {w}
    /\ audit' = IF want = worn THEN [audit EXCEPT !.step = "next", !.work = {}]
                ELSE IF w[1] \in gone THEN [audit EXCEPT !.step = "next", !.work = {}, !.failed = TRUE]
                ELSE [audit EXCEPT !.step = "send", !.work = {}, !.want = want]
    /\ UNCHANGED <<badgeDb, badgeDiscord, badgeTasks, auditDue, auditRetry, allowance>>

AuditSend ==
    /\ audit.step = "send"
    /\ \/ /\ Put(audit.want) /\ audit' = [audit EXCEPT !.step = "next", !.want = {}]
          /\ UNCHANGED allowance
       \/ /\ May("faults")
          /\ audit' = [audit EXCEPT !.step = "next", !.want = {}, !.failed = TRUE]
          /\ UNCHANGED <<worn, feed>>
    /\ UNCHANGED <<badgeDb, cached, gone, dropped, badgeTasks, auditDue, auditRetry>>

EndAudit ==
    /\ audit.step = "next" /\ audit.defs = {}
    /\ auditRetry' = (audit.failed /\ ~audit.again)
    /\ audit' = NoAudit
    /\ UNCHANGED <<badgeDb, badgeDiscord, badgeTasks, auditDue, allowance>>

Restart ==
    /\ May("crashes")
    /\ feed' = <<>> /\ cached' = worn /\ dropped' = {}
    /\ desk' = [d \in Desk |-> NobodyThere] /\ listening' = {} /\ rolesync' = NoSync
    /\ pending' = IF pending = "none" THEN "none" ELSE "claimed"
    /\ audit' = NoAudit /\ auditRetry' = FALSE /\ auditDue' = TRUE
    /\ UNCHANGED <<badgeDb, worn, gone>>

----------------------------------------------------------------------------
Moderate(d) ==
    \/ ConfirmGrant(d) \/ Give(d) \/ Ungrant(d)
    \/ ConfirmRevocation(d) \/ RevokeRows(d) \/ Take(d) \/ MoveMember(d)
    \/ \E drop \in BOOLEAN : ConfirmReplacement(d, drop)
    \/ \E k \in Key : \/ GrantNext(d, k) \/ DeleteDefinition(d, k)
                      \/ ConfirmBinding(d, k) \/ BindRole(d, k)
                      \/ ReplaceRole(d, k) \/ ReadMembers(d, k)
Command(d) ==
    \/ \E keys \in SUBSET Key : ReviewGrant(d, keys) \/ ReviewRevocation(d, keys)
    \/ \E k \in Key : \/ ReviewDeletion(d, k)
                      \/ \E r \in Bindable : ReviewBinding(d, k, r) \/ ReviewReplacement(d, k, r)
Listener ==
    \/ Deliver
    \/ \E t \in listening : Look(t) \/ \E p \in t.todo : Correct(t, p)
    \/ \E r \in Bindable : ForgetRole(r)
Reconciler ==
    \/ \E again \in BOOLEAN : StartAudit(again)
    \/ \E p \in audit.defs : AuditNext(p)
    \/ \E w \in audit.work : AuditFetch(w)
    \/ AuditSend \/ EndAudit

Next ==
    \/ \E d \in Desk : Command(d) \/ Moderate(d)
    \/ \E k \in Key : Create(k) \/ Rename(k) \/ Pend(k)
    \/ \E r \in Bindable : Unbind(r) \/ Meddle(r) \/ RoleDeleted(r)
    \/ Listener
    \/ ApplyPending \/ Activate \/ Erase \/ PlanSync \/ ConfirmSync \/ ApplySync
    \/ Daily \/ Reconciler \/ Restart

Spec == Init /\ [][Next]_badgeVars

\* Commands that were confirmed, listeners and the reconciliation are tasks of the event
\* loop; the reconciliation is started every day.
Fairness ==
    /\ \A d \in Desk : WF_badgeVars(Moderate(d))
    /\ WF_badgeVars(Listener) /\ WF_badgeVars(Reconciler) /\ WF_badgeVars(Daily)
    /\ WF_badgeVars(ApplyPending \/ Activate)
FairSpec == Spec /\ Fairness

----------------------------------------------------------------------------
TypeOK ==
    /\ catalog \in [Key -> Definition]
    /\ owned \in [Key -> {"none", "pending", "active"}] /\ past \in [Key -> Nat]
    /\ worn \cup cached \cup gone \cup dropped \subseteq Bindable
    /\ feed \in Seq(SUBSET Bindable)
    /\ \A d \in Desk : /\ desk[d].keys \cup desk[d].made \cup desk[d].todo \subseteq Key
                       /\ desk[d].held \subseteq Bindable
    /\ \A t \in listening : t.todo \subseteq Key \X Bindable
    /\ pending \in {"none", "claimed", "applied"}
    /\ audit.defs \subseteq Key \X Bindable /\ audit.work \subseteq Bindable \X BOOLEAN
    /\ auditDue \in BOOLEAN /\ auditRetry \in BOOLEAN

\* Whatever grants, revocations, replaced roles, deleted ones, changes by hand, failed
\* requests and restarts did to each other's edits, in the end the user has the role of each
\* bound achievement that is his, and of no other, as far as the role still exists.
RolesFollowAwards == <>[]Agrees
=============================================================================
