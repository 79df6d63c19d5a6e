-------------------------- MODULE ManualPunishment --------------------------
(***************************************************************************)
(* The "Punish" menu (honeypot/manual_punishment.py and its publication    *)
(* module): moderators open panels on ONE message of one member, choose    *)
(* evidence, a member action and Role n't roles, and confirm.  Each panel  *)
(* then runs on its own: settings are read again, a private audit is       *)
(* posted, the source message is deleted, and only then is the member      *)
(* punished, the audit finished and the result announced.                  *)
(*                                                                         *)
(* The roles are shared with two other owners: detection cases, which      *)
(* contain a member with a role they own, and JoinWatch, whose row says    *)
(* which role it will take away.  All three work under one lock per        *)
(* member.  A moderator's role must survive the other two.                 *)
(***************************************************************************)
EXTENDS Naturals, FiniteSets

CONSTANTS Panel,         \* panels opened on the message, each used once
          NoPanel,
          Role, NoRole,  \* the roles that may be offered
          Channel,       \* channels that may offer them or be told
          Here,          \* the channel of the source message
          NoChannel,
          MaxOffer,      \* MAX_MANUAL_PUNISHMENT_ROLES_PER_CHANNEL
          ManualLimits   \* sets of bounds: how often the surroundings interfere

Interference == {"edits", "faults", "crashes", "changes", "commands", "cases", "watches", "lags"}

ASSUME ManualAssumption ==
  /\ Here \in Channel /\ NoChannel \notin Channel
  /\ NoPanel \notin Panel /\ NoRole \notin Role /\ IsFiniteSet(Role)
  /\ MaxOffer \in Nat \ {0}
  /\ ManualLimits \subseteq [Interference -> Nat]

VARIABLES
  setup,    \* what the settings and the surroundings allow
  offers,   \* manual_punishment_roles: the offer of each role, or NoOffer
  writes,   \* whole maps that commands have computed and not yet stored
  message,  \* the source message still stands
  member,   \* where its author is
  held,     \* the author's roles on Discord
  seen,     \* the author's roles in the bot's member cache
  owned,    \* the roles a detection case owns on the author
  watch,    \* JoinWatch's pending_role row: its role, kept for a manual reason
  lock,     \* the panel inside joinwatch_state.member_lock
  panel,    \* the state of each panel
  audit,    \* what the private channel shows of each panel
  granted,  \* history: roles moderators have given, not taken away by hand since
  bound     \* what is left of each bound

manualVars == <<setup, offers, writes, message, member, held, seen, owned, watch, lock, panel,
                audit, granted, bound>>

NoOffer == [sources |-> {}, notify |-> NoChannel]
Offer == [sources : (SUBSET Channel) \ {{}}, notify : Channel \cup {NoChannel}] \cup {NoOffer}

Action == {"none", "mute", "kick", "ban"}
Target == Role \cup {"action"}
Status == {"none", "failed", "planned", "already_applied", "succeeded"}
Step == {"unused", "open", "details", "preparing", "auditing", "attaching", "deleting", "refused",
         "punishing", "locking", "adding", "handing", "muting", "reporting", "publishing",
         "closing", "ended"}

NoResults == [t \in Target |-> "none"]
Unused == [at |-> "unused", evidence |-> TRUE, action |-> "none", roles |-> {},
           marked |-> {}, results |-> NoResults]
NoAudit == [posted |-> FALSE, files |-> FALSE, deletion |-> "Pending", results |-> NoResults,
            told |-> "none"]

NoWatch == [role |-> NoRole, manual |-> FALSE]

ManualTypeOK ==
  /\ setup \in [evidence : BOOLEAN, dryRun : BOOLEAN, protected : BOOLEAN, mutes : BOOLEAN]
  /\ offers \in [Role -> Offer] /\ writes \subseteq [Role -> Offer]
  /\ message \in BOOLEAN /\ member \in {"here", "left", "kicked", "banned"}
  /\ {held, seen, owned, granted} \subseteq SUBSET Role
  /\ watch \in [role : Role \cup {NoRole}, manual : BOOLEAN]
  /\ lock \in Panel \cup {NoPanel}
  /\ panel \in [Panel -> [at : Step, evidence : BOOLEAN, action : Action, roles : SUBSET Role,
                          marked : SUBSET Role, results : [Target -> Status]]]
  /\ audit \in [Panel -> [posted : BOOLEAN, files : BOOLEAN,
                          deletion : {"Pending", "Failed", "Completed"},
                          results : [Target -> Status], told : {"none", "sent", "failed"}]]
  /\ bound \in [Interference -> Nat]

ManualInit ==
  /\ setup = [evidence |-> TRUE, dryRun |-> FALSE, protected |-> FALSE, mutes |-> TRUE]
  /\ \E first \in Role :
       offers = [r \in Role |-> IF r = first THEN [sources |-> {Here}, notify |-> NoChannel]
                                ELSE NoOffer]
  /\ writes = {} /\ message = TRUE /\ member = "here"
  /\ held = {} /\ seen = {} /\ owned = {} /\ granted = {}
  /\ watch = NoWatch /\ lock = NoPanel
  /\ panel = [p \in Panel |-> Unused] /\ audit = [p \in Panel |-> NoAudit]
  /\ bound \in ManualLimits

Spend(kind) == bound[kind] > 0 /\ bound' = [bound EXCEPT ![kind] = @ - 1]

Moves(p, step) == panel' = [panel EXCEPT ![p].at = step]
Ends(p) == panel' = [panel EXCEPT ![p] = [Unused EXCEPT !.at = "ended", !.results = panel[p].results]]
At(p, step) == panel[p].at = step

Punishes(p) == panel[p].action # "none" \/ panel[p].roles # {}
Given(p) == {r \in Role : panel[p].results[r] \in {"succeeded", "already_applied"}}
Succeeded(p) == \E t \in Target : panel[p].results[t] = "succeeded"

Applicable == {r \in Role : Here \in offers[r].sources}

World == <<setup, offers, writes>>
Member == <<member, held, seen, owned, watch, lock, granted>>

-----------------------------------------------------------------------------
(* The panel *)

Open(p) ==
  /\ At(p, "unused") /\ message /\ setup.evidence
  /\ Moves(p, "open")
  /\ UNCHANGED <<World, Member, message, audit, bound>>

ToggleEvidence(p) ==
  /\ At(p, "open") /\ Spend("edits")
  /\ panel' = [panel EXCEPT ![p].evidence = ~@]
  /\ UNCHANGED <<World, Member, message, audit>>

\* A kick or a ban excludes Role n't roles, whichever is chosen last.
SelectMemberAction(p) ==
  /\ At(p, "open") /\ Spend("edits")
  /\ \E a \in Action \ {panel[p].action} :
       panel' = [panel EXCEPT ![p].action = a,
                              ![p].roles = IF a \in {"kick", "ban"} THEN {} ELSE @]
  /\ UNCHANGED <<World, Member, message, audit>>

SelectRoles(p) ==
  /\ At(p, "open") /\ Spend("edits")
  /\ \E chosen \in SUBSET Applicable :
       panel' = [panel EXCEPT ![p].roles = chosen,
                              ![p].action = IF chosen # {} /\ @ \in {"kick", "ban"} THEN "none"
                                            ELSE @]
  /\ UNCHANGED <<World, Member, message, audit>>

\* Cancel, the five-minute timeout, a modal that is dismissed or gets a wrong
\* duration.
GiveUp(p) ==
  /\ panel[p].at \in {"open", "details"}
  /\ Ends(p)
  /\ UNCHANGED <<World, Member, message, audit, bound>>

Confirm(p) ==
  /\ At(p, "open") /\ (panel[p].evidence \/ Punishes(p))
  /\ Moves(p, IF Punishes(p) THEN "details" ELSE "preparing")
  /\ UNCHANGED <<World, Member, message, audit, bound>>

Submit(p) ==
  /\ At(p, "details")
  /\ Moves(p, "preparing")
  /\ UNCHANGED <<World, Member, message, audit, bound>>

-----------------------------------------------------------------------------
(* execute *)

Prepared(p) ==
  /\ setup.evidence
  /\ Punishes(p) => member = "here" /\ ~setup.protected
  /\ panel[p].roles \subseteq Applicable

Prepare(p) ==
  /\ At(p, "preparing")
  /\ IF Prepared(p) THEN Moves(p, "auditing") ELSE Ends(p)
  /\ UNCHANGED <<World, Member, message, audit, bound>>

\* An audit that cannot be posted ends the panel.
AuditFailed(p) == Ends(p)

\* create_private_audit: the text first.
SendAudit(p) ==
  /\ At(p, "auditing")
  /\ \/ /\ Moves(p, IF panel[p].evidence THEN "attaching" ELSE "deleting")
        /\ audit' = [audit EXCEPT ![p].posted = TRUE]
        /\ UNCHANGED bound
     \/ /\ Spend("faults") /\ AuditFailed(p) /\ UNCHANGED audit
  /\ UNCHANGED <<World, Member, message>>

\* Then the files.  When that fails, what was posted is taken back (best
\* effort) and nothing else happens.
AttachFiles(p) ==
  /\ At(p, "attaching")
  /\ \/ /\ Moves(p, "deleting")
        /\ audit' = [audit EXCEPT ![p].files = TRUE]
        /\ UNCHANGED bound
     \/ /\ Spend("faults") /\ AuditFailed(p)
        /\ \E taken \in BOOLEAN : audit' = [audit EXCEPT ![p].posted = ~taken]
  /\ UNCHANGED <<World, Member, message>>

\* What the deletion of the source answers: TRUE when Discord has deleted it
\* now.  A message somebody else has deleted is an error like any other.
AnswersTolerant == {TRUE}
Answers == {message}

\* A failure may have taken effect.
DeleteSource(p) ==
  /\ At(p, "deleting")
  /\ \/ \E deleted \in Answers :
          /\ Moves(p, IF deleted THEN "punishing" ELSE "refused")
          /\ message' = FALSE
          /\ UNCHANGED bound
     \/ /\ message /\ Spend("faults")
        /\ Moves(p, "refused")
        /\ message' \in BOOLEAN
  /\ UNCHANGED <<World, Member, audit>>

Result(p, t, status) == [panel EXCEPT ![p].results[t] = status, ![p].at = "reporting"]

\* _execute_punishments: a kick or a ban through _execute_action.
ActOnMember(p) ==
  /\ At(p, "punishing") /\ panel[p].action \in {"kick", "ban"}
  /\ \/ /\ setup.dryRun
        /\ panel' = Result(p, "action", "planned")
        /\ UNCHANGED <<member, held, seen, granted, bound>>
     \/ /\ ~setup.dryRun
        /\ panel[p].action = "kick" => member = "here"
        /\ panel' = Result(p, "action", "succeeded")
        /\ member' = IF panel[p].action = "kick" THEN "kicked" ELSE "banned"
        /\ held' = {} /\ seen' = {} /\ granted' = {}
        /\ UNCHANGED bound
     \/ /\ ~setup.dryRun
        /\ IF panel[p].action = "kick" /\ member # "here" THEN UNCHANGED bound ELSE Spend("faults")
        /\ panel' = Result(p, "action", "failed")
        /\ UNCHANGED <<member, held, seen, granted>>
  /\ UNCHANGED <<World, message, owned, watch, lock, audit>>

\* The roles and the mute, or nothing at all.
StartRoles(p) ==
  /\ At(p, "punishing") /\ panel[p].action \notin {"kick", "ban"}
  /\ panel' =
       IF ~Punishes(p) THEN [panel EXCEPT ![p].at = "reporting"]
       ELSE IF ~setup.dryRun THEN [panel EXCEPT ![p].at = "locking"]
       ELSE [panel EXCEPT ![p].at = "reporting",
               ![p].results = [t \in Target |->
                  IF t \in panel[p].roles \/ (t = "action" /\ panel[p].action = "mute")
                  THEN "planned" ELSE "none"]]
  /\ UNCHANGED <<World, Member, message, audit, bound>>

\* mark_manual_role_reason: JoinWatch's row is told that the role has another
\* reason, before the role is given.
Marks(roles) == IF watch.role \in roles THEN [watch EXCEPT !.manual = TRUE] ELSE watch

LockRoles(p) ==
  /\ At(p, "locking") /\ lock = NoPanel
  /\ lock' = p
  /\ watch' = Marks(panel[p].roles)
  /\ panel' = [panel EXCEPT ![p].at = IF panel[p].roles \subseteq seen THEN "handing" ELSE "adding",
                            ![p].marked = IF watch.manual THEN {} ELSE {watch.role} \cap panel[p].roles,
                            ![p].results = [t \in Target |-> IF t \in panel[p].roles \cap seen
                                                             THEN "already_applied" ELSE @[t]]]
  /\ granted' = granted \cup (panel[p].roles \cap seen)
  /\ UNCHANGED <<World, message, member, held, seen, owned, audit, bound>>

\* The member cache follows Discord at once, unless updates may be late.
CacheFollows == seen' \in (IF bound["lags"] = 0 THEN {held'} ELSE {seen, held'})

Outcome(p, roles, status) ==
  [panel EXCEPT ![p].at = "handing",
                ![p].results = [t \in Target |-> IF t \in roles THEN status ELSE @[t]]]

\* add_roles; a refusal (400, 403, 404) takes the mark back, any other failure
\* may have taken effect and keeps it.
AddRoles(p) ==
  /\ At(p, "adding")
  /\ LET pending == {r \in panel[p].roles : panel[p].results[r] = "none"} IN
     \/ /\ member = "here"
        /\ panel' = Outcome(p, pending, "succeeded")
        /\ held' = held \cup pending /\ granted' = granted \cup pending /\ CacheFollows
        /\ UNCHANGED <<watch, bound>>
     \/ /\ IF member = "here" THEN Spend("faults") ELSE UNCHANGED bound
        /\ panel' = Outcome(p, pending, "failed")
        /\ watch' = IF watch.role \in pending \cap panel[p].marked
                    THEN [watch EXCEPT !.manual = FALSE] ELSE watch
        /\ UNCHANGED <<held, seen, granted>>
     \/ /\ member = "here" /\ Spend("faults")
        /\ panel' = Outcome(p, pending, "failed")
        /\ held' \in {held, held \cup pending} /\ CacheFollows
        /\ UNCHANGED <<watch, granted>>
  /\ UNCHANGED <<World, message, member, owned, lock, audit>>

\* The case that owns a role just given loses it, and the lock is released.
HandedNever(p) == owned
Handed(p) == owned \ Given(p)

HandOver(p) ==
  /\ At(p, "handing")
  /\ owned' = Handed(p)
  /\ lock' = NoPanel
  /\ Moves(p, IF panel[p].action = "mute" THEN "muting" ELSE "reporting")
  /\ UNCHANGED <<World, message, member, held, seen, watch, granted, audit, bound>>

\* Red's Mutes cog may be missing, unconfigured or refuse.
Mute(p) ==
  /\ At(p, "muting")
  /\ \/ /\ setup.mutes /\ panel' = Result(p, "action", "succeeded") /\ UNCHANGED bound
     \/ /\ IF setup.mutes THEN Spend("faults") ELSE UNCHANGED bound
        /\ panel' = Result(p, "action", "failed")
  /\ UNCHANGED <<World, Member, message, audit>>

\* _finalize_audit edits the audit; a failure is recorded and ignored.
Finalized(p, deletion) ==
  \/ /\ audit' = [audit EXCEPT ![p].deletion = deletion, ![p].results = panel[p].results]
     /\ UNCHANGED bound
  \/ Spend("faults") /\ UNCHANGED audit

ReportRefusal(p) ==
  /\ At(p, "refused") /\ Finalized(p, "Failed") /\ Ends(p)
  /\ UNCHANGED <<World, Member, message>>

Report(p) ==
  /\ At(p, "reporting") /\ Finalized(p, "Completed")
  /\ IF Succeeded(p) THEN Moves(p, "publishing") ELSE Ends(p)
  /\ UNCHANGED <<World, Member, message>>

\* publish_public_result, and the audit finalized with what became of it.
Publish(p) ==
  /\ At(p, "publishing")
  /\ \/ audit' = [audit EXCEPT ![p].told = "sent"] /\ UNCHANGED bound
     \/ audit' = [audit EXCEPT ![p].told = "failed"] /\ Spend("faults")
  /\ Moves(p, "closing")
  /\ UNCHANGED <<World, Member, message>>

Close(p) ==
  /\ At(p, "closing") /\ Finalized(p, "Completed") /\ Ends(p)
  /\ UNCHANGED <<World, Member, message>>

-----------------------------------------------------------------------------
(* The two other owners of roles, under the same lock *)

\* A detection case contains the member.  A role already seen on the member is
\* the case's only when JoinWatch put it there for no manual reason.
CaseContains(r) ==
  /\ lock = NoPanel /\ member = "here" /\ ~setup.dryRun /\ r \notin owned
  /\ Spend("cases")
  /\ IF r \in seen
     THEN /\ owned' = IF watch.role = r /\ ~watch.manual THEN owned \cup {r} ELSE owned
          /\ UNCHANGED <<held, seen>>
     ELSE owned' = owned \cup {r} /\ held' = held \cup {r} /\ CacheFollows
  /\ UNCHANGED <<World, message, member, watch, lock, panel, audit, granted>>

\* role_release: nothing is removed that JoinWatch still wants.
CaseReleases(r) ==
  /\ lock = NoPanel /\ r \in owned
  /\ owned' = owned \ {r}
  /\ IF watch.role # r /\ r \in seen /\ member = "here"
     THEN held' = held \ {r} /\ CacheFollows
     ELSE UNCHANGED <<held, seen>>
  /\ UNCHANGED <<World, message, member, watch, lock, panel, audit, granted, bound>>

\* A scheduled JoinWatch assignment of a member who has not got the role.
WatchAssigns(r) ==
  /\ lock = NoPanel /\ member = "here" /\ ~setup.dryRun /\ watch = NoWatch /\ r \notin seen
  /\ Spend("watches")
  /\ watch' = [role |-> r, manual |-> FALSE]
  /\ held' = held \cup {r} /\ CacheFollows
  /\ UNCHANGED <<World, message, member, owned, lock, panel, audit, granted>>

\* _release_locked: a case whose role_apply is still queued inherits the role;
\* a manual reason or a case keeps it.
WatchReleases ==
  /\ lock = NoPanel /\ watch # NoWatch /\ ~setup.dryRun
  /\ watch' = NoWatch
  /\ \E queued \in BOOLEAN :
       owned' = IF queued /\ ~watch.manual /\ watch.role \in seen /\ member = "here"
                THEN owned \cup {watch.role} ELSE owned
  /\ IF watch.role \in seen /\ member = "here" /\ ~watch.manual /\ watch.role \notin owned'
     THEN held' = held \ {watch.role} /\ CacheFollows
     ELSE UNCHANGED <<held, seen>>
  /\ UNCHANGED <<World, message, member, lock, panel, audit, granted, bound>>

MemberUpdate ==
  /\ seen # held /\ seen' = held
  /\ UNCHANGED <<World, message, member, held, owned, watch, lock, panel, audit, granted, bound>>

-----------------------------------------------------------------------------
(* Role n't commands: each reads the whole map and stores a whole map *)

Exposed(map, channel, r) == Cardinality({o \in Role \ {r} : channel \in map[o].sources})

\* _role_nt_channel_limit_exceeded
Fits(r, channels) == \A c \in channels : Exposed(offers, c, r) < MaxOffer

Computes(map) == /\ Spend("commands") /\ writes' = writes \cup {map}
                 /\ UNCHANGED <<setup, offers, Member, message, panel, audit>>

RoleAdd ==
  \E r \in Role, channels \in (SUBSET Channel) \ {{}} :
    /\ Fits(r, channels)
    /\ Computes([offers EXCEPT ![r].sources = @ \cup channels])

RoleRemoveChannels ==
  \E r \in Role, channels \in (SUBSET Channel) \ {{}} :
    /\ offers[r] # NoOffer /\ offers[r].sources \ channels # {}
    /\ Computes([offers EXCEPT ![r].sources = @ \ channels])

RoleNotification ==
  \E r \in Role, c \in Channel \cup {NoChannel} :
    /\ offers[r] # NoOffer
    /\ Computes([offers EXCEPT ![r].notify = c])

\* The remove command and the deletion of the role.
RoleRemove ==
  \E r \in Role :
    /\ offers[r] # NoOffer
    /\ Computes([offers EXCEPT ![r] = NoOffer])

\* clear_deleted_channel
ChannelDeleted ==
  \E c \in Channel \ {Here} :
    LET cleared(o) == IF o.sources \ {c} = {} THEN NoOffer
                      ELSE [sources |-> o.sources \ {c},
                            notify |-> IF o.notify = c THEN NoChannel ELSE o.notify]
    IN Computes([r \in Role |-> cleared(offers[r])])

StoreOffers ==
  \E map \in writes :
    /\ offers' = map /\ writes' = writes \ {map}
    /\ UNCHANGED <<setup, Member, message, panel, audit, bound>>

-----------------------------------------------------------------------------
(* The surroundings *)

SettingsChange ==
  /\ Spend("changes")
  /\ \E field \in DOMAIN setup : setup' = [setup EXCEPT ![field] = ~@]
  /\ UNCHANGED <<offers, writes, Member, message, panel, audit>>

\* The author, an automatic action or another moderator deletes the message.
MessageGone ==
  /\ message /\ Spend("changes") /\ message' = FALSE
  /\ UNCHANGED <<World, Member, panel, audit>>

MemberLeaves ==
  /\ member = "here" /\ Spend("changes")
  /\ member' = "left" /\ held' = {} /\ seen' = {} /\ granted' = {}
  /\ UNCHANGED <<World, message, owned, watch, lock, panel, audit>>

RoleTakenByHand ==
  /\ Spend("changes")
  /\ \E r \in held : held' = held \ {r} /\ granted' = granted \ {r} /\ CacheFollows
  /\ UNCHANGED <<World, message, member, owned, watch, lock, panel, audit>>

\* Panels and unstored maps are lost; the cache is filled again.  A role whose
\* giving is cut short is not one the moderator has been told of.
Crash ==
  /\ Spend("crashes")
  /\ panel' = [p \in Panel |-> IF At(p, "unused") THEN panel[p]
                               ELSE [Unused EXCEPT !.at = "ended", !.results = panel[p].results]]
  /\ lock' = NoPanel /\ writes' = {} /\ seen' = held
  /\ granted' = IF lock = NoPanel THEN granted ELSE granted \ panel[lock].roles
  /\ UNCHANGED <<setup, offers, message, member, held, owned, watch, audit>>

ManualNext ==
  \/ \E p \in Panel : Open(p)
  \/ \E p \in Panel : ToggleEvidence(p)
  \/ \E p \in Panel : SelectMemberAction(p)
  \/ \E p \in Panel : SelectRoles(p)
  \/ \E p \in Panel : GiveUp(p)
  \/ \E p \in Panel : Confirm(p)
  \/ \E p \in Panel : Submit(p)
  \/ \E p \in Panel : Prepare(p)
  \/ \E p \in Panel : SendAudit(p)
  \/ \E p \in Panel : AttachFiles(p)
  \/ \E p \in Panel : DeleteSource(p)
  \/ \E p \in Panel : ActOnMember(p)
  \/ \E p \in Panel : StartRoles(p)
  \/ \E p \in Panel : LockRoles(p)
  \/ \E p \in Panel : AddRoles(p)
  \/ \E p \in Panel : HandOver(p)
  \/ \E p \in Panel : Mute(p)
  \/ \E p \in Panel : ReportRefusal(p)
  \/ \E p \in Panel : Report(p)
  \/ \E p \in Panel : Publish(p)
  \/ \E p \in Panel : Close(p)
  \/ \E r \in Role : CaseContains(r)
  \/ \E r \in Role : CaseReleases(r)
  \/ \E r \in Role : WatchAssigns(r)
  \/ WatchReleases \/ MemberUpdate
  \/ RoleAdd \/ RoleRemoveChannels \/ RoleNotification \/ RoleRemove \/ ChannelDeleted
  \/ StoreOffers
  \/ SettingsChange \/ MessageGone \/ MemberLeaves \/ RoleTakenByHand \/ Crash

ManualSpec == ManualInit /\ [][ManualNext]_manualVars

-----------------------------------------------------------------------------

\* One message is punished once.  Two moderators may confirm panels on it at
\* the same time; the deletion of the message is what lets only one of them
\* go on (execute returns when it fails, whoever deleted it).
OnePunishment ==
  \A p, q \in Panel : Succeeded(p) /\ Succeeded(q) => p = q

\* README: "A private audit is always created before source deletion."  From
\* the deletion on, the audit of the panel stands in the private channel, with
\* its files when evidence was wanted; and an audit that says that the
\* deletion failed belongs to a panel that has punished nobody.
AuditStands ==
  \A p \in Panel :
    /\ (panel[p].at \in {"punishing", "locking", "adding", "handing", "muting", "reporting",
                         "publishing", "closing"} \/ panel[p].results # NoResults)
         => audit[p].posted /\ (panel[p].evidence /\ ~At(p, "ended") => audit[p].files)
    /\ audit[p].deletion = "Failed" => panel[p].results = NoResults
    /\ audit[p].deletion = "Completed" => ~message

\* A role a moderator has been told the member has stays on the member until
\* a person takes it away: neither the release of a detection case nor the end
\* of a JoinWatch incident removes it, whatever owned it before.
ManualRoleStays == granted \subseteq held

\* No stored map offers more roles in one channel than the menu can show, also
\* when commands overwrite each other's maps.
OffersFit ==
  \A c \in Channel : Cardinality({r \in Role : c \in offers[r].sources}) <= MaxOffer

\* One message is punished once, and by a panel whose audit stands (execute deletes the
\* message between the audit and the punishment).
PunishedOnce == OnePunishment /\ AuditStands

\* A role given by a moderator survives cases and JoinWatch, and a panel offers what the
\* menu can show (release_role_ownership, mark_manual_role_reason, the role commands).
RolesStay == ManualRoleStays /\ OffersFit

=============================================================================
