----------------------------- MODULE MCServers -----------------------------
(* Small instances of what a server keeps beside its cases: its custom        *)
(* commands, its moderation history, its message counters and the sessions of *)
(* the bot proxy.  They share no state; a behaviour moves one of them, the    *)
(* focus.                                                                     *)
EXTENDS CommandPager, CustomCommands, TLC

CONSTANTS one, two, ann, ben, CorrelationWindow, NoProxy, NoOpener

VARIABLES focus,
  \* ModerationHistory
  script, done, clock, events, up, joined, rows, projected, cursors, migration, run, calls, current, lock,
  forgetting, allowed,
  \* BotProxy
  proxyOn, proxyOff, session, thread, opened, posts, preset, state, hook, closing, erasing, forgotten,
  unclosed, luck,
  \* ActivityDays
  today, day, byUser, byPlace, detail, summary, emoji, tracked, retention, serving, task, counted,
  said, closedTo, late, reports, shortest, chance

historyVars == <<script, done, clock, events, up, joined, rows, projected, cursors, migration, run, calls,
                 current, lock, forgetting, allowed>>
proxyVars == <<proxyOn, proxyOff, session, thread, opened, posts, preset, state, hook, closing,
               erasing, forgotten, unclosed, luck>>
countVars == <<today, day, byUser, byPlace, detail, summary, emoji, tracked, retention, serving, task,
               counted, said, closedTo, late, reports, shortest, chance>>
allVars == <<focus, pagerVars, commandVars, historyVars, proxyVars, countVars>>

-----------------------------------------------------------------------------
(* The bounds *)

Does(what) == what @@ [d \in {"threads", "texts", "clicks", "cooldowns", "prompts", "erasures",
                              "purges", "faults", "reloads"} |-> 0]
Busy ==
  {Does([threads |-> 1, texts |-> 3, clicks |-> 3]),
   Does([threads |-> 2, texts |-> 2, cooldowns |-> 1, prompts |-> 1]),
   Does([threads |-> 2, texts |-> 1, clicks |-> 1, erasures |-> 1]),
   Does([threads |-> 1, texts |-> 1, erasures |-> 1, cooldowns |-> 1]),
   Does([threads |-> 2, texts |-> 1, prompts |-> 1, reloads |-> 1, faults |-> 1]),
   Does([threads |-> 1, texts |-> 1, erasures |-> 1, purges |-> 2, faults |-> 1])}

Deed(what, time, red) == [does |-> what, at |-> time, red |-> red]
Banned == <<Deed("ban", 1, TRUE)>>
Lifted == <<Deed("ban", 1, TRUE), Deed("unban", 4, FALSE)>>
Again  == <<Deed("ban", 1, TRUE), Deed("unban", 4, FALSE), Deed("ban", 7, FALSE)>>
Asked(deeds, modes, live, syncs, faults, crashes, erasures, removals) ==
  [deeds |-> deeds, modes |-> modes,
   allowed |-> [live |-> live, calls |-> syncs, faults |-> faults, crashes |-> crashes,
                erasures |-> erasures, removals |-> removals]]
AllModes == {"initial", "incremental", "weekly", "repair"}
HistoryCases ==
  {Asked(Again, {}, 9, 0, 0, 1, 0, 0), Asked(Again, AllModes, 1, 1, 1, 0, 0, 0),
   Asked(Lifted, AllModes, 0, 1, 0, 1, 0, 1), Asked(Banned, {"initial", "repair"}, 0, 3, 0, 0, 0, 0),
   Asked(Banned, AllModes, 1, 1, 0, 0, 1, 0),
   Asked(Banned, {"initial", "incremental", "weekly"}, 0, 2, 0, 0, 0, 1)}

OpenedBy == one :> ann @@ two :> ben
Proxies(k, f, x, c, i, o) == "drafts" :> k @@ "faults" :> f @@ "crashes" :> x @@ "presets" :> c
                             @@ "erasures" :> i @@ "toggles" :> o
ProxyLimits == {Proxies(2,0,0,0,0,1), Proxies(1,0,0,0,1,0), Proxies(1,1,1,0,0,0), Proxies(0,0,0,1,1,0),
                Proxies(1,0,0,1,0,0)}

Counts(f) == f @@ [k \in {"messages", "reactions", "reports", "settings", "erasures", "removals",
                          "faults", "crashes"} |-> 0]
DayLimits ==
  {Counts("messages" :> 2), Counts("messages" :> 1 @@ "settings" :> 1),
   Counts("messages" :> 1 @@ "erasures" :> 1 @@ "reports" :> 1),
   Counts("messages" :> 1 @@ "reactions" :> 1), Counts("reactions" :> 1 @@ "removals" :> 1),
   Counts("messages" :> 1 @@ "faults" :> 1 @@ "crashes" :> 1)}

-----------------------------------------------------------------------------

History == INSTANCE ModerationHistory WITH eraser <- forgetting
Proxy == INSTANCE BotProxy WITH Proxy <- {one, two}, Opener <- {ann, ben}, rows <- opened, allowed <- luck

Days == INSTANCE ActivityDays WITH User <- {ann, ben}, Fond <- {ann}, Place <- {one, two}, LastDay <- 3,
          EmojiDays <- 2, Reader <- {one, two}, open <- day, joined <- serving

ASSUME History!HistoryAssumption /\ History!WindowAssumption
ASSUME Proxy!ProxyAssumption
ASSUME Days!DayAssumption

OneOf(set) == CHOOSE x \in set : TRUE

AllInit ==
  /\ focus \in {"pager", "commands", "history", "proxy", "counts"}
  /\ Init
  /\ CommandInit /\ (focus # "commands" => doings = OneOf(CommandLimits))
  /\ History!Init /\ (focus # "history" =>
       LET case == OneOf(HistoryCases)
       IN script = [deeds |-> case.deeds, modes |-> case.modes] /\ allowed = case.allowed)
  /\ Proxy!Init /\ (focus # "proxy" => luck = OneOf(ProxyLimits))
  /\ Days!DayInit
     /\ (focus # "counts" => chance = OneOf(DayLimits) /\ retention.detail = 1)

AllNext ==
  \/ focus = "pager" /\ Next
     /\ UNCHANGED <<focus, commandVars, historyVars, proxyVars, countVars>>
  \/ focus = "commands" /\ CommandNext
     /\ UNCHANGED <<focus, pagerVars, historyVars, proxyVars, countVars>>
  \/ focus = "history" /\ History!Next
     /\ UNCHANGED <<focus, pagerVars, commandVars, proxyVars, countVars>>
  \/ focus = "proxy" /\ Proxy!Next
     /\ UNCHANGED <<focus, pagerVars, commandVars, historyVars, countVars>>
  \/ focus = "counts" /\ Days!DayNext
     /\ UNCHANGED <<focus, pagerVars, commandVars, historyVars, proxyVars>>

AllSpec == AllInit /\ [][AllNext]_allVars

-----------------------------------------------------------------------------
(* The properties, each stated and explained in the module of its part. *)

\* A part is examined while it is the one that moves.
Of(part, formula) == focus = part => formula

\* Every part keeps its types.
AllTypeOK ==
  /\ Of("pager", TypeOK) /\ Of("commands", CommandTypeOK) /\ Of("history", History!TypeOK)
  /\ Of("proxy", Proxy!TypeOK) /\ Of("counts", Days!DayTypeOK)

\* The chart of bans counts every ban once, nothing that a cursor has passed is missing,
\* and the actions are made of what is stored (project_actions, _run_sync).
HistoryExact ==
  Of("history", History!ChartExact /\ History!NothingMissed /\ History!ActionsCurrent)

\* A closed day keeps what was counted, the tables of the open day agree, and reports show
\* what was written or that it is not known (close_stale_days, verify_open_day_consistency).
CountsExact ==
  Of("counts", Days!ClosedAsCounted /\ Days!OpenDayAgrees /\ Days!ReadingsHonest)

\* A proxied message goes out while the proxy is on and its session is open, with the
\* avatar that was chosen for it, and an erased moderator's name is not kept with it.
SentAsAllowed == Proxy!SentOnlyWhileOpen /\ []Proxy!OwnAvatar /\ []Proxy!ErasedForGood
=============================================================================
