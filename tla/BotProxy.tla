------------------------------ MODULE BotProxy ------------------------------
(***************************************************************************)
(* Bot Proxy (NHCogs/nhmisc/bot_proxy*.py): a moderator opens a session in *)
(* a thread of the workspace, composes a message, and the bot publishes it *)
(* as itself or, through a webhook whose avatar it sets first, as a        *)
(* character.  One guild, one parent channel and one preset name.          *)
(*                                                                         *)
(* `state' is the lock of the guild, `publishing' the lock of a session    *)
(* (job # "idle") and `hook' the lock of the channel's webhook.            *)
(***************************************************************************)
EXTENDS Naturals, FiniteSets

CONSTANTS
    Proxy,          \* sessions
    NoProxy,        \* also: no character, the bot itself
    Opener,         \* moderators
    NoOpener,       \* also: an erased moderator (DELETED_USER_ID)
    OpenedBy,       \* [Proxy -> Opener]
    ProxyLimits     \* what may happen of drafts, faults, crashes, presets, erasures, toggles

ProxyAssumption ==
    /\ NoProxy \notin Proxy /\ NoOpener \notin Opener
    /\ OpenedBy \in [Proxy -> Opener]
    /\ ProxyLimits \subseteq
         [{"drafts", "faults", "crashes", "presets", "erasures", "toggles"} -> Nat]

VARIABLES
    proxyOn,        \* the guild's setting bot_proxy_enabled
    proxyOff,       \* the guild is in _disabled_guild_ids
    session,        \* the session objects
    thread,         \* Discord: the sessions' threads
    rows,           \* bot_proxy_active_sessions
    posts,          \* Discord and bot_proxy_messages: what was published
    preset,         \* the row of bot_proxy_characters
    state,          \* who holds the state lock of the guild
    hook,           \* the webhook: who holds its lock, and the avatar it wears
    closing,        \* sessions whose finish() waits for the publish lock
    erasing,        \* _deleting_user_ids
    forgotten,      \* moderators erased who opened no session since
    unclosed,       \* the rows the recovery of the start has yet to close
    allowed         \* what may still happen

proxySettings == <<proxyOn, proxyOff>>
proxyLocks == <<state, hook>>
proxyVars == <<proxyOn, proxyOff, session, thread, rows, posts, preset, state, hook,
               closing, erasing, forgotten, unclosed, allowed>>

\* A session: how far its creation is, whether it is terminal, its draft, the draft the
\* preview froze, what the holder of its publish lock does and sends, whether it has set
\* the webhook's avatar, and the revision of the preset a form was opened on.  A draft is
\* the character it is sent as; "empty" lacks content.
Draft == Proxy \cup {NoProxy, "empty"}
NoSession == [step |-> "none", terminal |-> FALSE, erased |-> FALSE, draft |-> "empty",
              frozen |-> "empty", job |-> "idle", sending |-> "empty", worn |-> FALSE,
              form |-> 0]
NoPreset == [owner |-> NoOpener, editor |-> NoOpener, revision |-> 0, avatar |-> NoProxy]

Live == {s \in Proxy : session[s].step = "live"}
Owned(u) == {s \in Proxy : OpenedBy[s] = u}
Afford(what) == allowed[what] > 0 /\ allowed' = [allowed EXCEPT ![what] = @ - 1]
Free(s) == session[s].job = "idle"
Put(s, r) == session' = [session EXCEPT ![s] = r]
Job(s, j) == Put(s, [session[s] EXCEPT !.job = j])

Init ==
    /\ proxyOn = TRUE /\ proxyOff = FALSE
    /\ session = [s \in Proxy |-> NoSession]
    /\ thread = [s \in Proxy |-> "none"]
    /\ rows = {} /\ posts = {} /\ preset = NoPreset
    /\ state = NoProxy
    /\ hook = [holder |-> NoProxy, avatar |-> NoProxy]
    /\ closing = {} /\ erasing = {} /\ forgotten = {} /\ unclosed = {}
    /\ allowed \in ProxyLimits

----------------------------------------------------------------------------
(* create_session: under the state lock from the admission to the end.      *)
Admit(s) ==
    /\ session[s].step = "none" /\ state = NoProxy
    /\ thread[s] = "none" /\ s \notin rows
    /\ OpenedBy[s] \notin erasing
    /\ proxyOff' = ~proxyOn                              \* _enabled_locked
    /\ IF proxyOn
       THEN /\ Put(s, [NoSession EXCEPT !.step = "admitted"])
            /\ state' = s
            /\ forgotten' = forgotten \ {OpenedBy[s]}
       ELSE UNCHANGED <<session, state, forgotten>>
    /\ UNCHANGED <<proxyOn, thread, rows, posts, preset, hook, closing, erasing,
                   unclosed, allowed>>

\* The launcher, the thread and its placeholder; without the placeholder nothing undoes
\* the thread.
MakeThread(s) ==
    /\ session[s].step = "admitted" /\ thread[s] = "none"
    /\ thread' = [thread EXCEPT ![s] = "open"]
    /\ \/ UNCHANGED <<session, state, allowed>>
       \/ Afford("faults") /\ Put(s, NoSession) /\ state' = NoProxy
    /\ UNCHANGED <<proxySettings, rows, posts, preset, hook, closing, erasing, forgotten,
                   unclosed>>

RecordSession(s) ==
    /\ session[s].step = "admitted" /\ thread[s] = "open"
    /\ IF OpenedBy[s] \in erasing
       THEN Put(s, [session[s] EXCEPT !.step = "undo"]) /\ UNCHANGED rows
       ELSE Put(s, [session[s] EXCEPT !.step = "recorded"]) /\ rows' = rows \cup {s}
    /\ UNCHANGED <<proxySettings, thread, posts, preset, proxyLocks, closing, erasing,
                   forgotten, unclosed, allowed>>

\* registry.add, sessions[...] and the first refresh.
Register(s) ==
    /\ session[s].step = "recorded"
    /\ \/ /\ OpenedBy[s] \notin erasing
          /\ Put(s, [session[s] EXCEPT !.step = "live"])
          /\ state' = NoProxy /\ UNCHANGED allowed
       \/ /\ OpenedBy[s] \in erasing
          /\ Put(s, [session[s] EXCEPT !.step = "undo"])
          /\ UNCHANGED <<state, allowed>>
       \/ Afford("faults") /\ Put(s, [session[s] EXCEPT !.step = "undo"]) /\ UNCHANGED state
    /\ UNCHANGED <<proxySettings, thread, rows, posts, preset, hook, closing, erasing,
                   forgotten, unclosed>>

\* The rollback: the row goes only when the thread could be archived.
Undo(s) ==
    /\ session[s].step = "undo"
    /\ \/ /\ thread' = [thread EXCEPT ![s] = "closed"]
          /\ rows' = rows \ {s} /\ UNCHANGED allowed
       \/ Afford("faults") /\ UNCHANGED <<thread, rows>>
    /\ Put(s, NoSession) /\ state' = NoProxy
    /\ closing' = closing \ {s}
    /\ UNCHANGED <<proxySettings, posts, preset, hook, erasing, forgotten, unclosed>>

----------------------------------------------------------------------------
(* Composing.                                                               *)

\* What the session's controls refuse (require_enabled).
RefusedIfErased(s) == session[s].erased

Refused(s) == session[s].erased \/ proxyOff

\* A content for the bot or a one-time character (set_identity, handle_message), also
\* while a preview or a publication of the earlier draft is under way.
Compose(s, d) ==
    /\ s \in Live /\ ~Refused(s) /\ Afford("drafts")
    /\ d \in {NoProxy, s} /\ session[s].draft # d
    /\ Put(s, [session[s] EXCEPT !.draft = d])
    /\ UNCHANGED <<proxySettings, thread, rows, posts, preset, proxyLocks, closing,
                   erasing, forgotten, unclosed>>

\* IdentityPickerView._select of the preset.
Wear(s) ==
    /\ s \in Live /\ ~Refused(s) /\ preset # NoPreset /\ Afford("drafts")
    /\ Put(s, [session[s] EXCEPT !.draft = preset.avatar])
    /\ UNCHANGED <<proxySettings, thread, rows, posts, preset, proxyLocks, closing,
                   erasing, forgotten, unclosed>>

\* The edit form and the confirmation of a deletion hold the preset they were opened on.
OpenForm(s) ==
    /\ s \in Live /\ ~Refused(s) /\ preset # NoPreset
    /\ Put(s, [session[s] EXCEPT !.form = preset.revision])
    /\ UNCHANGED <<proxySettings, thread, rows, posts, preset, proxyLocks, closing,
                   erasing, forgotten, unclosed, allowed>>

SavePreset(s) ==
    /\ s \in Live /\ state = NoProxy /\ ~Refused(s) /\ Afford("presets")
    /\ LET f == session[s].form
           keep == [owner |-> preset.owner, revision |-> preset.revision + 1]
           new == [owner |-> OpenedBy[s], revision |-> 1]
           base == IF f = 0 THEN new ELSE keep
       IN  \/ /\ IF f = 0 THEN preset = NoPreset ELSE preset.revision = f
              /\ preset' = [owner |-> base.owner, revision |-> base.revision,
                            editor |-> OpenedBy[s], avatar |-> s]
              /\ Put(s, [session[s] EXCEPT !.draft = s, !.form = 0])
           \/ /\ IF f = 0 THEN preset # NoPreset ELSE preset.revision # f
              /\ Put(s, [session[s] EXCEPT !.form = 0])
              /\ UNCHANGED preset
    /\ UNCHANGED <<proxySettings, thread, rows, posts, proxyLocks, closing, erasing,
                   forgotten, unclosed>>

DropPreset(s) ==
    /\ s \in Live /\ state = NoProxy /\ ~Refused(s) /\ session[s].form # 0
    /\ IF preset.revision = session[s].form
       THEN preset' = NoPreset /\ Put(s, [session[s] EXCEPT !.draft = NoProxy, !.form = 0])
       ELSE UNCHANGED preset /\ Put(s, [session[s] EXCEPT !.form = 0])
    /\ UNCHANGED <<proxySettings, thread, rows, posts, proxyLocks, closing, erasing,
                   forgotten, unclosed, allowed>>

----------------------------------------------------------------------------
(* Publishing: the publish lock of the session, then the state lock, then   *)
(* for a character the lock of the webhook.                                 *)
Ready(s) == session[s].draft # "empty"

\* prepare_preview: freezes a copy of the draft; a character's is sent by the webhook.
PreparePreview(s) ==
    /\ s \in Live /\ Free(s) /\ ~Refused(s) /\ Ready(s)
    /\ Put(s, [session[s] EXCEPT !.job = "preview", !.sending = session[s].draft])
    /\ UNCHANGED <<proxySettings, thread, rows, posts, preset, proxyLocks, closing,
                   erasing, forgotten, unclosed, allowed>>

\* _send_character, first half: the lock of the webhook and its avatar.
Character(s) == session[s].sending \in Proxy
HookFree == hook.holder = NoProxy

WearHook(s) ==
    /\ session[s].job \in {"preview", "send"} /\ Character(s) /\ ~session[s].worn
    /\ HookFree
    /\ hook' = [holder |-> s, avatar |-> session[s].sending]
    /\ Put(s, [session[s] EXCEPT !.worn = TRUE])
    /\ UNCHANGED <<proxySettings, thread, rows, posts, preset, state, closing,
                   erasing, forgotten, unclosed, allowed>>

Unhook(s) == hook' = IF hook.holder = s THEN [hook EXCEPT !.holder = NoProxy] ELSE hook

ShowPreview(s) ==
    LET r == session[s]
    IN  /\ r.job = "preview" /\ (Character(s) => session[s].worn)
        /\ \/ Put(s, [r EXCEPT !.job = "idle", !.frozen = r.sending,
                             !.sending = "empty", !.worn = FALSE])
              /\ UNCHANGED allowed
           \/ Afford("faults")
              /\ Put(s, [r EXCEPT !.job = "idle", !.sending = "empty", !.worn = FALSE])
        /\ Unhook(s)
        /\ UNCHANGED <<proxySettings, thread, rows, posts, preset, state, closing, erasing,
                       forgotten, unclosed>>

\* confirm_publish of the frozen draft, and publish_immediately of the draft.
Confirm(s, immediate) ==
    LET r == session[s]
        d == IF immediate THEN r.draft ELSE r.frozen
    IN  /\ r.step \in {"live", "gone"} /\ Free(s) /\ ~r.terminal /\ d # "empty"
        /\ Put(s, [r EXCEPT !.job = "publish", !.sending = d])
        /\ UNCHANGED <<proxySettings, thread, rows, posts, preset, proxyLocks, closing,
                       erasing, forgotten, unclosed, allowed>>

\* _publish_frozen: the state lock and what was checked under it.
EnterPublish(s) ==
    /\ session[s].job = "publish" /\ state = NoProxy
    /\ IF Refused(s)
       THEN Put(s, [session[s] EXCEPT !.job = "idle", !.sending = "empty", !.worn = FALSE])
            /\ UNCHANGED state
       ELSE Job(s, "send") /\ state' = s
    /\ UNCHANGED <<proxySettings, thread, rows, posts, preset, hook, closing, erasing,
                   forgotten, unclosed, allowed>>

\* The message goes out; a fault is a refusal, or an answer that never came.
Shown(s) == IF Character(s) THEN hook.avatar ELSE NoProxy
Send(s) ==
    LET r == session[s]
        post == [of |-> s, meant |-> r.sending, shown |-> Shown(s), by |-> NoOpener,
                 tracked |-> FALSE]
        failed == /\ Afford("faults") /\ state' = NoProxy
                  /\ Put(s, [r EXCEPT !.job = "idle", !.sending = "empty", !.worn = FALSE])
    IN  /\ r.job = "send" /\ (Character(s) => session[s].worn)
        /\ \/ posts' = posts \cup {post} /\ Put(s, [r EXCEPT !.job = "track", !.worn = FALSE])
              /\ UNCHANGED <<state, allowed>>
           \/ failed /\ UNCHANGED posts
           \/ failed /\ posts' = posts \cup {post}
        /\ Unhook(s)
        /\ UNCHANGED <<proxySettings, thread, rows, preset, closing, erasing, forgotten,
                       unclosed>>

\* _track_or_compensate, then _complete_publication, which starts a new draft.
Track(s) ==
    LET r == session[s]
        mine == CHOOSE p \in posts : p.of = s /\ ~p.tracked /\ p.meant = r.sending
        rest == posts \ {mine}
        done == [r EXCEPT !.job = "idle", !.sending = "empty", !.worn = FALSE,
                          !.frozen = "empty", !.draft = "empty"]
    IN  /\ r.job = "track"
        /\ \/ /\ posts' = rest \cup {[mine EXCEPT !.by = OpenedBy[s], !.tracked = TRUE]}
              /\ Put(s, done) /\ UNCHANGED allowed
           \/ /\ posts' \in {rest, posts} /\ Afford("faults")
              /\ Put(s, [done EXCEPT !.frozen = r.frozen, !.draft = r.draft])
        /\ state' = NoProxy
        /\ UNCHANGED <<proxySettings, thread, rows, preset, hook, closing, erasing,
                       forgotten, unclosed>>

DiscardPreview(s) ==
    /\ s \in Live /\ Free(s) /\ session[s].frozen # "empty"
    /\ Put(s, [session[s] EXCEPT !.frozen = "empty"])
    /\ UNCHANGED <<proxySettings, thread, rows, posts, preset, proxyLocks, closing,
                   erasing, forgotten, unclosed, allowed>>

----------------------------------------------------------------------------
(* Closing.                                                                 *)

\* The close button, and _expire.
Close(s) ==
    /\ s \in Live \ closing
    /\ closing' = closing \cup {s}
    /\ UNCHANGED <<proxySettings, session, thread, rows, posts, preset, proxyLocks,
                   erasing, forgotten, unclosed, allowed>>

\* BotProxyWorkflowSession.finish: out of sessions, and terminal whatever fails then.
Finish(s) ==
    /\ s \in closing /\ Free(s)
    /\ closing' = closing \ {s}
    /\ Put(s, [NoSession EXCEPT !.step = "gone", !.terminal = TRUE,
                                !.draft = session[s].draft])
    /\ \/ /\ thread' = [thread EXCEPT ![s] = "closed"]
          /\ rows' = rows \ {s} /\ UNCHANGED allowed
       \/ Afford("faults") /\ UNCHANGED <<thread, rows>>
    /\ UNCHANGED <<proxySettings, posts, preset, proxyLocks, erasing, forgotten, unclosed>>

\* manager.set_enabled.
Toggle ==
    /\ state = NoProxy /\ Afford("toggles")
    /\ proxyOn' = ~proxyOn /\ proxyOff' = proxyOn
    /\ closing' = IF proxyOn THEN closing \cup Live ELSE closing
    /\ UNCHANGED <<session, thread, rows, posts, preset, proxyLocks, erasing, forgotten,
                   unclosed>>

\* manager.delete_user_data: the flags at once, the rows when the state lock is free,
\* the sessions then.
BeginErase(u) ==
    /\ erasing = {} /\ Afford("erasures")                \* _user_data_lock
    /\ erasing' = {u}
    /\ session' = [s \in Proxy |-> IF s \in Live \cap Owned(u)
                                   THEN [session[s] EXCEPT !.erased = TRUE] ELSE session[s]]
    /\ UNCHANGED <<proxySettings, thread, rows, posts, preset, proxyLocks, closing,
                   forgotten, unclosed>>

Redact(u, who) == IF who = u THEN NoOpener ELSE who

EraseRows(u) ==
    /\ u \in erasing \ forgotten /\ state = NoProxy
    /\ preset' = IF preset.owner = u THEN NoPreset
                 ELSE [preset EXCEPT !.editor = Redact(u, @)]
    /\ rows' = rows \ Owned(u)
    /\ posts' = {[p EXCEPT !.by = Redact(u, @)] : p \in posts}
    /\ forgotten' = forgotten \cup {u}
    /\ closing' = closing \cup {s \in Live \cap Owned(u) : session[s].erased}
    /\ UNCHANGED <<proxySettings, session, thread, proxyLocks, erasing, unclosed, allowed>>

EndErase(u) ==
    /\ u \in erasing \cap forgotten /\ closing \cap Owned(u) = {}
    /\ erasing' = erasing \ {u}
    /\ UNCHANGED <<proxySettings, session, thread, rows, posts, preset, proxyLocks,
                   closing, forgotten, unclosed, allowed>>

----------------------------------------------------------------------------
(* The process ends; the next one closes the sessions that have a row.      *)
Restart ==
    /\ Afford("crashes")
    /\ session' = [s \in Proxy |-> NoSession]
    /\ proxyOff' = FALSE /\ state' = NoProxy
    /\ hook' = [hook EXCEPT !.holder = NoProxy]
    /\ closing' = {} /\ erasing' = {}
    /\ unclosed' = rows
    /\ UNCHANGED <<proxyOn, thread, rows, posts, preset, forgotten>>

CloseInterrupted(s) ==
    /\ s \in unclosed
    /\ unclosed' = unclosed \ {s}
    /\ \/ /\ thread' = [thread EXCEPT ![s] = "closed"]
          /\ rows' = rows \ {s} /\ UNCHANGED allowed
       \/ Afford("faults") /\ UNCHANGED <<thread, rows>>
    /\ UNCHANGED <<proxySettings, session, posts, preset, proxyLocks, closing, erasing,
                   forgotten>>

Next ==
    \/ \E s \in Proxy :
         \/ Admit(s) \/ MakeThread(s) \/ RecordSession(s) \/ Register(s) \/ Undo(s)
         \/ Wear(s) \/ OpenForm(s) \/ SavePreset(s) \/ DropPreset(s)
         \/ PreparePreview(s) \/ WearHook(s) \/ ShowPreview(s)
         \/ EnterPublish(s) \/ Send(s) \/ Track(s) \/ DiscardPreview(s)
         \/ Close(s) \/ Finish(s) \/ CloseInterrupted(s)
         \/ \E d \in {NoProxy, s} : Compose(s, d)
         \/ \E immediate \in BOOLEAN : Confirm(s, immediate)
    \/ \E u \in Opener : BeginErase(u) \/ EraseRows(u) \/ EndErase(u)
    \/ Toggle \/ Restart

Spec == Init /\ [][Next]_proxyVars

----------------------------------------------------------------------------
Post == [of : Proxy, meant : Proxy \cup {NoProxy}, shown : Proxy \cup {NoProxy},
         by : Opener \cup {NoOpener}, tracked : BOOLEAN]

\* Every variable keeps to the values the code gives it.
TypeOK ==
    /\ proxyOn \in BOOLEAN /\ proxyOff \in BOOLEAN
    /\ session \in [Proxy ->
         [step : {"none", "admitted", "recorded", "undo", "live", "gone"},
          terminal : BOOLEAN, erased : BOOLEAN, draft : Draft, frozen : Draft,
          job : {"idle", "preview", "publish", "send", "track"}, sending : Draft,
          worn : BOOLEAN, form : Nat]]
    /\ thread \in [Proxy -> {"none", "open", "closed"}]
    /\ rows \subseteq Proxy /\ posts \subseteq Post
    /\ preset \in [owner : Opener \cup {NoOpener}, editor : Opener \cup {NoOpener},
                   revision : Nat, avatar : Proxy \cup {NoProxy}]
    /\ state \in Proxy \cup {NoProxy}
    /\ hook \in [holder : Proxy \cup {NoProxy}, avatar : Proxy \cup {NoProxy}]
    /\ closing \subseteq Proxy /\ unclosed \subseteq Proxy
    /\ erasing \subseteq Opener /\ forgotten \subseteq Opener

\* A character's message shows that character's avatar: one webhook serves every session
\* and every preview of a channel, and each sets the avatar in a call of its own before it
\* sends (BotProxyPublisher._send_character).
OwnAvatar == \A p \in posts : p.shown = p.meant

\* Once a moderator's data is erased, nothing in the store names him until he opens a
\* session again: what was admitted before the erasure is drained first, and his old
\* controls write nothing afterwards (BotProxyWorkflowManager.delete_user_data).
ErasedForGood ==
    \A u \in forgotten :
        /\ preset.owner # u /\ preset.editor # u
        /\ rows \cap Owned(u) = {}
        /\ \A p \in posts : p.by # u

\* Nothing is published for a guild that has Bot Proxy off, from a session that is closed
\* or for a moderator whose data is gone, although each of them may happen between the
\* click and the send (enabled_operation, require_enabled, _terminal.status).
SentOnlyWhileOpen ==
    [][\A p \in posts' \ posts :
          ~p.tracked => /\ proxyOn /\ ~session[p.of].terminal
                        /\ OpenedBy[p.of] \notin forgotten]_proxyVars
=============================================================================
