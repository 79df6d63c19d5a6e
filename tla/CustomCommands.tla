--------------------------- MODULE CustomCommands ---------------------------
(***************************************************************************)
(* A custom command and those who change it (custom_commands/): edit        *)
(* threads with their drafts, cooldown commands, delete prompts and         *)
(* requests to erase a user.  Each of them writes with the revision it read *)
(* (CustomCommandCatalog); the erasure also cleans what the retired cog     *)
(* left behind, which purgelegacy removes.                                  *)
(*                                                                         *)
(* One name of one server.  A response is the number it was given; access   *)
(* is told by whether it names the user who is erased.                      *)
(***************************************************************************)
EXTENDS Integers, Sequences, SequencesExt

CONSTANTS
    Session,        \* edit threads
    MaxText,        \* responses that may be written
    PageLength,     \* RESPONSES_PER_PAGE
    CommandLimits   \* what may happen of each of Doings

Doings == {"threads", "texts", "clicks", "cooldowns", "prompts", "erasures", "purges", "faults",
           "reloads"}

ASSUME CommandAssumption ==
    /\ MaxText \in Nat /\ PageLength \in Nat \ {0}
    /\ CommandLimits \subseteq [Doings -> Nat]

VARIABLES
    stored,     \* the command in the catalog
    sessions,   \* WorkflowSession of each thread
    setter,     \* a cooldown command
    prompt,     \* a DeleteConfirmationView
    eraser,     \* redact_custom_command_user_data
    purger,     \* purge_legacy_data
    legacy,     \* what is left of the retired cog
    written,    \* responses that were written
    doings      \* what may still happen

commandVars == <<stored, sessions, setter, prompt, eraser, purger, legacy, written, doings>>

Text == 1..MaxText
NoIndex == 0
Nothing == [exists |-> FALSE, revision |-> 0, texts |-> <<>>, named |-> FALSE,
            life |-> 0, change |-> 0, erased |-> FALSE]
Unread == [revision |-> 0, life |-> 0, change |-> 0]
Idle == [step |-> "none", read |-> Unread]
NoSession == [step |-> "none", read |-> Unread, texts |-> <<>>, named |-> FALSE, page |-> 0,
              selected |-> NoIndex, doomed |-> NoIndex, replacing |-> NoIndex, save |-> "none",
              sent |-> <<>>, sentNamed |-> FALSE, status |-> "none"]

Do(what) == doings[what] > 0 /\ doings' = [doings EXCEPT ![what] = @ - 1]
Becomes(s, d) == sessions' = [sessions EXCEPT ![s] = d]

CommandInit ==
    /\ stored = Nothing /\ sessions = [s \in Session |-> NoSession]
    /\ setter = Idle /\ prompt = Idle /\ eraser = "none" /\ purger = "none"
    /\ legacy = [commands |-> TRUE, named |-> TRUE, files |-> "named"]
    /\ written = 0 /\ doings \in CommandLimits

----------------------------------------------------------------------------
(* CustomCommandCatalog: what a reader takes along and what a writer checks. *)
(* Life, change and erased of a command are history; a command that is made  *)
(* again begins at revision one.                                             *)
Read == [revision |-> stored.revision, life |-> stored.life, change |-> stored.change]

AnyRevision(read) == stored.exists
Current(read) == stored.exists /\ stored.revision = read.revision

Created(texts, named) ==
    stored' = [exists |-> TRUE, revision |-> 1, texts |-> texts, named |-> named,
               life |-> stored.life + 1, change |-> stored.change + 1, erased |-> FALSE]

Edited(command) == stored' = [command EXCEPT !.revision = @ + 1, !.change = @ + 1]

Deleted == stored' = [Nothing EXCEPT !.life = stored.life, !.change = stored.change]

----------------------------------------------------------------------------
(* WorkflowManager.open: cc_create and cc_edit read the command, then the    *)
(* thread and its dashboard are made.                                        *)
Open(s) ==
    /\ sessions[s].step = "none" /\ Do("threads")
    /\ LET d == [sessions[s] EXCEPT !.step = "opening"]
       IN Becomes(s, IF stored.exists
                     THEN [d EXCEPT !.read = Read, !.texts = stored.texts, !.named = stored.named]
                     ELSE d)
    /\ UNCHANGED <<stored, setter, prompt, eraser, purger, legacy, written>>

Opened(s) ==
    /\ sessions[s].step = "opening"
    /\ \/ Becomes(s, [sessions[s] EXCEPT !.step = "open"]) /\ UNCHANGED doings
       \/ Do("faults") /\ Becomes(s, NoSession)
    /\ UNCHANGED <<stored, setter, prompt, eraser, purger, legacy, written>>

----------------------------------------------------------------------------
(* The draft.  Positions count from one; NoIndex is None.                    *)
Editing(s) == sessions[s].step = "open"
PageCountOfNone(n) == (n + PageLength - 1) \div PageLength
PageCount(n) == IF n = 0 THEN 1 ELSE (n + PageLength - 1) \div PageLength
PageOf(i) == (i - 1) \div PageLength
OnPage(i, p, n) == i \in 1..n /\ PageOf(i) = p

\* The draft d with these responses: shown at position i (_show_response), or turned to
\* page p (set_page).
Showing(d, texts, i) == [d EXCEPT !.texts = texts, !.page = PageOf(i), !.selected = i]
PageSet(d, texts, p) ==
    LET last == PageCount(Len(texts)) - 1
        new == IF p > last THEN last ELSE p
    IN [d EXCEPT !.texts = texts, !.page = new,
                 !.selected = IF OnPage(@, new, Len(texts)) THEN @ ELSE NoIndex]

Writes == Do("texts") /\ written < MaxText /\ written' = written + 1
Clicks == Do("clicks") /\ UNCHANGED written
UndraftedUnchanged == UNCHANGED <<stored, setter, prompt, eraser, purger, legacy>>

\* A message in the thread adds a response, or replaces the one that was asked for; a
\* position that is gone is refused and stays asked for (process_message).
Message(s) ==
    /\ Editing(s)
    /\ LET d == sessions[s]
           i == d.replacing
       IN \/ /\ i = NoIndex /\ Writes
             /\ Becomes(s, Showing(d, Append(d.texts, written'), Len(d.texts) + 1))
          \/ /\ i \in 1..Len(d.texts) /\ Writes
             /\ Becomes(s, [Showing(d, [d.texts EXCEPT ![i] = written'], i)
                               EXCEPT !.replacing = NoIndex])
          \/ i > Len(d.texts) /\ Clicks /\ UNCHANGED sessions
    /\ UndraftedUnchanged

\* The words replace, remove and move in a message.
AskReplacement(s, i) ==
    /\ Editing(s) /\ sessions[s].replacing = NoIndex /\ i \in 1..Len(sessions[s].texts)
    /\ Becomes(s, [Showing(sessions[s], sessions[s].texts, i) EXCEPT !.replacing = i])
    /\ Clicks /\ UndraftedUnchanged

RemoveByWord(s, i) ==
    /\ Editing(s) /\ sessions[s].replacing = NoIndex /\ i \in 1..Len(sessions[s].texts)
    /\ Becomes(s, PageSet(sessions[s], RemoveAt(sessions[s].texts, i), sessions[s].page))
    /\ Clicks /\ UndraftedUnchanged

Moved(texts, i, j) == InsertAt(RemoveAt(texts, i), j, texts[i])

MoveByWord(s, i, j) ==
    /\ Editing(s) /\ sessions[s].replacing = NoIndex
    /\ {i, j} \subseteq 1..Len(sessions[s].texts) /\ i # j
    /\ Becomes(s, [sessions[s] EXCEPT !.texts = Moved(@, i, j)])
    /\ Clicks /\ UndraftedUnchanged

\* The selector, the page buttons and the modals, which are about the selected response.
Select(s, i) ==
    /\ Editing(s) /\ OnPage(i, sessions[s].page, Len(sessions[s].texts))
    /\ Becomes(s, [sessions[s] EXCEPT !.selected = i, !.doomed = NoIndex])
    /\ Clicks /\ UndraftedUnchanged

TurnPage(s, p) ==
    /\ Editing(s) /\ p \in 0..(PageCount(Len(sessions[s].texts)) - 1) /\ p # sessions[s].page
    /\ Becomes(s, [PageSet(sessions[s], sessions[s].texts, p) EXCEPT !.doomed = NoIndex])
    /\ Clicks /\ UndraftedUnchanged

AddByModal(s) ==
    /\ Editing(s) /\ Writes
    /\ LET texts == Append(sessions[s].texts, written')
       IN Becomes(s, [Showing(sessions[s], texts, Len(texts)) EXCEPT !.doomed = NoIndex])
    /\ UndraftedUnchanged

EditByModal(s) ==
    /\ Editing(s) /\ sessions[s].selected # NoIndex /\ Writes
    /\ Becomes(s, [sessions[s] EXCEPT !.texts[sessions[s].selected] = written',
                                     !.doomed = NoIndex])
    /\ UndraftedUnchanged

MoveByModal(s, j) ==
    /\ Editing(s) /\ sessions[s].selected # NoIndex /\ j \in 1..Len(sessions[s].texts)
    /\ j # sessions[s].selected
    /\ LET texts == Moved(sessions[s].texts, sessions[s].selected, j)
       IN Becomes(s, [Showing(sessions[s], texts, j) EXCEPT !.doomed = NoIndex])
    /\ Clicks /\ UndraftedUnchanged

AccessByModal(s, named) ==
    /\ Editing(s) /\ named # sessions[s].named /\ (named => eraser = "none")
    /\ Becomes(s, [sessions[s] EXCEPT !.named = named])
    /\ Clicks /\ UndraftedUnchanged

\* The first click asks for confirmation, the second one removes.
DeleteByButton(s) ==
    /\ Editing(s) /\ sessions[s].selected # NoIndex
    /\ LET d == sessions[s]
           texts == RemoveAt(d.texts, d.selected)
           next == IF d.selected > Len(texts) THEN Len(texts) ELSE d.selected
       IN Becomes(s,
            IF d.doomed # d.selected THEN [d EXCEPT !.doomed = d.selected]
            ELSE IF texts = <<>>
            THEN [d EXCEPT !.texts = <<>>, !.page = 0, !.selected = NoIndex, !.doomed = NoIndex]
            ELSE [Showing(d, texts, next) EXCEPT !.doomed = NoIndex])
    /\ Clicks /\ UndraftedUnchanged

----------------------------------------------------------------------------
(* WorkflowSession.save and finish; one save of a session at a time.         *)
Save(s) ==
    /\ Editing(s) /\ sessions[s].save = "none" /\ sessions[s].texts # <<>>
    /\ LET d == sessions[s]
       IN Becomes(s, [d EXCEPT !.save = "called", !.sent = d.texts, !.sentNamed = d.named])
    /\ UNCHANGED <<written, doings>> /\ UndraftedUnchanged

Unsaved(d) == [d EXCEPT !.save = "none", !.sent = <<>>]

\* create refuses a name that is there, edit a revision that is not current.
WriteDraft(s) ==
    /\ sessions[s].save = "called"
    /\ LET d == sessions[s]
           new == d.read.revision = 0
           refused == IF new THEN stored.exists ELSE ~Current(d.read)
       IN IF refused THEN UNCHANGED stored /\ Becomes(s, Unsaved(d))
          ELSE /\ IF new THEN Created(d.sent, d.sentNamed)
                  ELSE Edited([stored EXCEPT !.texts = d.sent, !.named = d.sentNamed])
               /\ Becomes(s, [d EXCEPT !.save = "stored"])
    /\ UNCHANGED <<setter, prompt, eraser, purger, legacy, written, doings>>

\* finish does nothing for a session that is finished.
Finish(s, status) ==
    LET d == sessions[s]
        new == [NoSession EXCEPT !.step = "finished", !.status = status]
    IN Becomes(s, IF d.step = "finished" THEN Unsaved(d)
                  ELSE IF status = "Saved" THEN new
                  ELSE [new EXCEPT !.save = d.save, !.sent = d.sent, !.sentNamed = d.sentNamed,
                                   !.read = d.read])

Saved(s) ==
    /\ sessions[s].save = "stored" /\ Finish(s, "Saved")
    /\ UNCHANGED <<written, doings>> /\ UndraftedUnchanged

\* Cancel, and half an hour without activity; a save that was called goes on.
Cancel(s) ==
    /\ Editing(s) /\ Finish(s, "Cancelled")
    /\ UNCHANGED <<written, doings>> /\ UndraftedUnchanged

\* close_all: the cog is reloaded; transactions that were begun are carried out.
Reload ==
    /\ Do("reloads")
    /\ \A s \in Session : sessions[s].save # "called"
    /\ sessions' = [s \in Session |-> IF sessions[s].step \in {"open", "opening"}
                       THEN [NoSession EXCEPT !.step = "finished", !.status = "Reloaded"]
                       ELSE sessions[s]]
    /\ UNCHANGED written /\ UndraftedUnchanged

----------------------------------------------------------------------------
(* cc_cooldown and the delete prompt.                                        *)
OpenSetter ==
    /\ setter.step = "none" /\ stored.exists /\ Do("cooldowns")
    /\ setter' = [step |-> "read", read |-> Read]
    /\ UNCHANGED <<stored, sessions, prompt, eraser, purger, legacy, written>>

SetCooldown ==
    /\ setter.step = "read" /\ setter' = Idle
    /\ IF Current(setter.read) THEN Edited(stored) ELSE UNCHANGED stored
    /\ UNCHANGED <<sessions, prompt, eraser, purger, legacy, written, doings>>

OpenPrompt ==
    /\ prompt.step = "none" /\ stored.exists /\ Do("prompts")
    /\ prompt' = [step |-> "open", read |-> Read]
    /\ UNCHANGED <<stored, sessions, setter, eraser, purger, legacy, written>>

\* Stale: the prompt stays; confirmed, cancelled or timed out it is gone.
ConfirmDelete ==
    /\ prompt.step = "open"
    /\ IF Current(prompt.read) THEN Deleted /\ prompt' = Idle ELSE UNCHANGED <<stored, prompt>>
    /\ UNCHANGED <<sessions, setter, eraser, purger, legacy, written, doings>>

ClosePrompt ==
    /\ prompt.step = "open" /\ prompt' = Idle
    /\ UNCHANGED <<stored, sessions, setter, eraser, purger, legacy, written, doings>>

----------------------------------------------------------------------------
(* redact_custom_command_user_data for a deleted account: the catalog, whose *)
(* revision it advances, the retired configuration and the migration files.  *)
RedactedOnly == stored' = [stored EXCEPT !.named = FALSE, !.change = @ + 1, !.erased = TRUE]
Redacted == Edited([stored EXCEPT !.named = FALSE, !.erased = TRUE])

EraseInCatalog ==
    /\ eraser \in {"none", "failed"} /\ Do("erasures") /\ eraser' = "config"
    /\ IF stored.exists /\ stored.named THEN Redacted ELSE UNCHANGED stored
    /\ UNCHANGED <<sessions, setter, prompt, purger, legacy, written>>

EraseFails ==
    /\ eraser \in {"config", "copied", "files"} /\ Do("faults") /\ eraser' = "failed"
    /\ UNCHANGED <<stored, sessions, setter, prompt, purger, legacy, written>>

\* redact_legacy_config reads all servers and writes those back that name the user.
CopyConfig ==
    /\ eraser = "config"
    /\ eraser' = IF legacy.commands /\ legacy.named THEN "copied" ELSE "files"
    /\ UNCHANGED <<stored, sessions, setter, prompt, purger, legacy, written, doings>>

EraseInConfig ==
    /\ eraser = "copied" /\ eraser' = "files"
    /\ legacy' = [legacy EXCEPT !.commands = TRUE, !.named = FALSE]
    /\ UNCHANGED <<stored, sessions, setter, prompt, purger, written, doings>>

EraseInFiles ==
    /\ eraser = "files" /\ eraser' = "done"
    /\ legacy' = [legacy EXCEPT !.files = IF @ = "named" THEN "clean" ELSE @]
    /\ UNCHANGED <<stored, sessions, setter, prompt, purger, written, doings>>

\* purge_legacy_data refuses while the catalog is empty and the old configuration is not.
Inspect ==
    /\ purger = "none" /\ Do("purges")
    /\ purger' = IF ~stored.exists /\ legacy.commands THEN "none" ELSE "clear"
    /\ UNCHANGED <<stored, sessions, setter, prompt, eraser, legacy, written>>

ClearConfig ==
    /\ purger = "clear" /\ purger' = "files"
    /\ legacy' = [legacy EXCEPT !.commands = FALSE, !.named = FALSE]
    /\ UNCHANGED <<stored, sessions, setter, prompt, eraser, written, doings>>

DeleteArtifacts ==
    /\ purger = "files" /\ purger' = "check"
    /\ legacy' = [legacy EXCEPT !.files = "none"]
    /\ UNCHANGED <<stored, sessions, setter, prompt, eraser, written, doings>>

CheckPurge ==
    /\ purger = "check" /\ purger' = IF legacy.commands THEN "none" ELSE "done"
    /\ UNCHANGED <<stored, sessions, setter, prompt, eraser, legacy, written, doings>>

PurgeFails ==
    /\ purger \in {"clear", "files"} /\ Do("faults") /\ purger' = "none"
    /\ UNCHANGED <<stored, sessions, setter, prompt, eraser, legacy, written>>

----------------------------------------------------------------------------
Drafting(s) ==
    \/ Message(s) \/ AddByModal(s) \/ EditByModal(s) \/ DeleteByButton(s)
    \/ \E i \in 1..MaxText : \/ AskReplacement(s, i) \/ RemoveByWord(s, i) \/ Select(s, i)
                             \/ MoveByModal(s, i)
    \/ \E i, j \in 1..MaxText : MoveByWord(s, i, j)
    \/ \E p \in 0..MaxText : TurnPage(s, p)
    \/ \E named \in BOOLEAN : AccessByModal(s, named)

CommandNext ==
    \/ \E s \in Session : \/ Open(s) \/ Opened(s) \/ Drafting(s)
                          \/ Save(s) \/ WriteDraft(s) \/ Saved(s) \/ Cancel(s)
    \/ Reload \/ OpenSetter \/ SetCooldown \/ OpenPrompt \/ ConfirmDelete \/ ClosePrompt
    \/ EraseInCatalog \/ EraseFails \/ CopyConfig \/ EraseInConfig \/ EraseInFiles
    \/ Inspect \/ ClearConfig \/ DeleteArtifacts \/ CheckPurge \/ PurgeFails

CommandSpec == CommandInit /\ [][CommandNext]_commandVars

----------------------------------------------------------------------------
\* Every variable keeps to the values the code gives it.
CommandTypeOK ==
    /\ stored.texts \in Seq(Text) /\ stored.revision \in Nat /\ stored.named \in BOOLEAN
    /\ eraser \in {"none", "failed", "config", "copied", "files", "done"}
    /\ purger \in {"none", "clear", "files", "check", "done"}
    /\ \A s \in Session : /\ sessions[s].step \in {"none", "opening", "open", "finished"}
                          /\ sessions[s].texts \in Seq(Text)
                          /\ sessions[s].page \in Nat /\ sessions[s].selected \in Nat

\* The position a button works on is one of the draft and on the page that is shown, however
\* messages and controls take turns (set_page, _show_response).
SelectionExists ==
    \A s \in Session : LET d == sessions[s] IN
        d.selected # NoIndex => OnPage(d.selected, d.page, Len(d.texts))

\* Nobody overwrites or deletes what he has not read: an edit thread, a cooldown command or a
\* delete prompt that was overtaken is refused (expected_revision), unless the command was
\* deleted and made again meanwhile, which begins with revision one once more.
Fresh(read) == stored.change = read.change \/ stored.life # read.life
Stores(s) == sessions[s].save = "called" /\ sessions'[s].save = "stored"

OvertakenRefused ==
    [][ /\ \A s \in Session : Stores(s) =>
              IF sessions[s].read.revision = 0 THEN ~stored.exists ELSE Fresh(sessions[s].read)
        /\ setter.step = "read" /\ setter' = Idle /\ stored' # stored => Fresh(setter.read)
        /\ prompt.step = "open" /\ stored.exists /\ ~stored'.exists => Fresh(prompt.read)
      ]_commandVars

\* What is overtaken is refused, a revision as well as a position.
StaleRefused == OvertakenRefused /\ []SelectionExists

\* An account that was erased from a command does not come back with a draft or a cooldown
\* that was begun before: the erasure advances the revision (_redact_user_sync).  Only a
\* draft that was begun before the command was deleted and made again may bring it back.
ErasedNotRestored ==
    [][ stored.erased /\ ~stored.named /\ stored'.named =>
          \E s \in Session : Stores(s) /\ sessions[s].read.life < stored.life ]_commandVars
=============================================================================
