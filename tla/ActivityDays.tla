---------------------------- MODULE ActivityDays ----------------------------
(***************************************************************************)
(* The message counters of one server (nhmisc/activity_storage.py and the   *)
(* handlers around it).  The tables of the open day are collapsed into a    *)
(* summary by whoever comes first on a later day; detailed rows and         *)
(* summaries are pruned by the retention settings.  A handler reads the     *)
(* date, closes what is stale, reports it, prunes, and only then counts.    *)
(*                                                                         *)
(* Hours, the thresholds of users and the top channels are left out, and    *)
(* there is one emoji.                                                      *)
(***************************************************************************)
EXTENDS Integers, FiniteSets, FiniteSetsExt

CONSTANTS
    User, Place,    \* members, and channels or threads
    Fond,           \* the members whose messages contain the emoji
    LastDay,        \* the days that are explored
    EmojiDays,      \* EMOJI_HISTORY_DAYS
    Reader,         \* the tasks of handlers, commands and the midnight loop
    DayLimits       \* how often each of Happenings may happen

Happenings == {"messages", "reactions", "reports", "settings", "erasures", "removals", "faults",
               "crashes"}
DayAssumption ==
    /\ LastDay \in Nat \ {0} /\ EmojiDays \in Nat \ {0}
    /\ IsFiniteSet(User) /\ IsFiniteSet(Place) /\ Fond \subseteq User
    /\ DayLimits \subseteq [Happenings -> Nat]

VARIABLES
    today,      \* the UTC date
    open,       \* activity_open_day of the server, 0 without a row
    byUser,     \* activity_user_day
    byPlace,    \* activity_channel_day
    detail,     \* activity_user_channel_day
    summary,    \* activity_daily_summary with its channel rows and its emoji
    emoji,      \* activity_emoji_day and, for the day 0, activity_emoji_total
    tracked,    \* activity_emoji_tracking, 0 without a row
    retention,  \* the two settings
    joined,     \* the bot is in the server
    task,       \* what each of Reader is at
    counted,    \* history: the messages of each day, without those of erased users
    said,       \* history: the messages of each day in each place
    closedTo,   \* history: the days before it have been closed
    late,       \* history: the days that a message was counted for after that
    reports,    \* history: how often the summary of a day was posted
    shortest,   \* history: the shortest retention of details so far
    chance      \* what may still happen

dayVars == <<today, open, byUser, byPlace, detail, summary, emoji, tracked, retention, joined, task,
             counted, said, closedTo, late, reports, shortest, chance>>
tables == <<open, byUser, byPlace, detail, summary, emoji, tracked>>
history == <<counted, said, closedTo, late, reports, shortest>>

Day == 1..LastDay
Nobody == [u \in User |-> 0]
Nowhere == [p \in Place |-> 0]
NoDetail == [u \in User |-> Nowhere]
NoSummary == [kept |-> FALSE, total |-> 0, places |-> Nowhere, winner |-> FALSE]
Unused == [uses |-> 0, balance |-> 0]
Idle == [kind |-> "none", stage |-> "none", day |-> 0, who |-> 0, where |-> 0, uses |-> 0,
         closed |-> 0, days |-> [detail |-> 0, history |-> 0]]

Total(f) == MapThenSumSet(LAMBDA x : f[x], DOMAIN f)
InPlace(rows, p) == MapThenSumSet(LAMBDA u : rows[u][p], User)
Spend(what) == chance[what] > 0 /\ chance' = [chance EXCEPT ![what] = @ - 1]
Becomes(w, t) == task' = [task EXCEPT ![w] = t]

DayInit ==
    /\ today = 1 /\ open = 0 /\ tracked = 0 /\ joined = TRUE
    /\ byUser = [d \in Day |-> Nobody] /\ byPlace = [d \in Day |-> Nowhere]
    /\ detail = [d \in Day |-> NoDetail] /\ summary = [d \in Day |-> NoSummary]
    /\ emoji = [d \in 0..LastDay |-> Unused]
    /\ retention \in {[detail |-> 1, history |-> 1], [detail |-> 2, history |-> -1]}
    /\ task = [w \in Reader |-> Idle]
    /\ counted = [d \in Day |-> NoDetail] /\ said = [d \in Day |-> Nowhere]
    /\ closedTo = 0 /\ late = {} /\ reports = [d \in Day |-> 0] /\ shortest = retention.detail
    /\ chance \in DayLimits

-----------------------------------------------------------------------------
(* Who closes days.  All of them begin with _close_stale_activity_days_for_guild, *)
(* for which the date is read at once, before the store's lock is waited for.     *)

Begin(w, kind, who, where, uses) ==
    /\ task[w] = Idle /\ joined
    /\ Becomes(w, [Idle EXCEPT !.kind = kind, !.stage = "close", !.day = today, !.who = who,
                               !.where = where, !.uses = uses])

BeginMessage(w) ==
    /\ Spend("messages")
    /\ \E u \in User, p \in Place : Begin(w, "message", u, p, IF u \in Fond THEN 1 ELSE 0)
    /\ UNCHANGED <<today, tables, retention, joined, history>>

BeginReaction(w) ==
    /\ Spend("reactions")
    /\ \E delta \in {-1, 1} : Begin(w, "reaction", 0, 0, delta)
    /\ UNCHANGED <<today, tables, retention, joined, history>>

\* Staff ask for a report; what it shows is read when the days are closed.
BeginReport(w) ==
    /\ Spend("reports") /\ Begin(w, "report", 0, 0, 0)
    /\ UNCHANGED <<today, tables, retention, joined, history>>

Tracking(day) == tracked' = IF tracked = 0 THEN day ELSE tracked

\* _activity_midnight_loop; it is one task, which sleeps until the next day.
BeginMidnight(w) ==
    /\ open # today /\ \A x \in Reader : task[x].kind # "midnight"
    /\ Begin(w, "midnight", 0, 0, 0) /\ Tracking(today)
    /\ UNCHANGED <<today, open, byUser, byPlace, detail, summary, emoji, retention, joined, history,
                   chance>>

\* What comes after the days are closed: a message keeps the date that its handler
\* read first, a reaction reads its own, the loop prunes once more.
After(t) ==
    CASE t.kind = "message" -> [t EXCEPT !.stage = "record"]
      [] t.kind = "reaction" -> [t EXCEPT !.stage = "record", !.day = today]
      [] t.kind = "midnight" -> [t EXCEPT !.stage = "last", !.day = today]
      [] OTHER -> Idle

Winner(day) == emoji[day].uses + (IF emoji[day].balance > 0 THEN emoji[day].balance ELSE 0) > 0
Empty(day) == Total(byUser[day]) = 0 /\ ~Winner(day)
Built(day) == [kept |-> TRUE, total |-> Total(byUser[day]), places |-> byPlace[day],
               winner |-> Winner(day)]

\* close_stale_days: one transaction; it returns the summary that is to be reported.
Stale(day) == open # 0 /\ open < day
CloseDay(w) ==
    LET t == task[w] IN
    /\ t.stage = "close"
    /\ IF Stale(t.day)
       THEN /\ summary' = IF Empty(open) THEN summary
                          ELSE [summary EXCEPT ![open] = Built(open)]
            /\ byUser' = [byUser EXCEPT ![open] = Nobody]
            /\ byPlace' = [byPlace EXCEPT ![open] = Nowhere]
            /\ open' = t.day
            /\ closedTo' = IF t.day > closedTo THEN t.day ELSE closedTo
            /\ Becomes(w, IF Empty(open) THEN After(t)
                          ELSE [t EXCEPT !.stage = "report", !.closed = open])
       ELSE Becomes(w, After(t)) /\ UNCHANGED <<open, byUser, byPlace, summary, closedTo>>
    /\ UNCHANGED <<today, detail, emoji, tracked, retention, joined, counted, said, late, reports,
                   shortest, chance>>

\* The settings are read, and the summary is posted; if Discord refuses, it is not posted again.
Report(w) ==
    LET t == task[w] IN
    /\ t.stage = "report"
    /\ \/ reports' = [reports EXCEPT ![t.closed] = @ + 1] /\ UNCHANGED chance
       \/ Spend("faults") /\ UNCHANGED reports
    /\ Becomes(w, [t EXCEPT !.stage = "history", !.days = retention])
    /\ UNCHANGED <<today, tables, retention, joined, counted, said, closedTo, late, shortest>>

Dropped(f, cutoff, none) == [d \in Day |-> IF d < cutoff THEN none ELSE f[d]]

\* _apply_activity_history_retention, with the setting that was read before the report.
PruneHistory(w) ==
    LET t == task[w] IN
    /\ t.stage = "history"
    /\ summary' = CASE t.days.history = -1 -> summary
                    [] t.days.history = 0 -> [summary EXCEPT ![t.closed] = NoSummary]
                    [] OTHER -> Dropped(summary, today - t.days.history, NoSummary)
    /\ Becomes(w, [t EXCEPT !.stage = "detail"])
    /\ UNCHANGED <<today, open, byUser, byPlace, detail, emoji, tracked, retention, joined, history,
                   chance>>

\* Fault: one day less is kept.
DetailCutoffOneOff(days) == today - (days - 2)

\* _apply_activity_detail_retention: today is one of the days that are kept.
DetailCutoff(days) == today - (days - 1)
PruneDetail(w) ==
    LET t == task[w] IN
    /\ t.stage = "detail"
    /\ detail' = Dropped(detail, DetailCutoff(t.days.detail), NoDetail)
    /\ Becomes(w, [t EXCEPT !.stage = "emoji"])
    /\ UNCHANGED <<today, open, byUser, byPlace, summary, emoji, tracked, retention, joined, history,
                   chance>>

\* prune_emoji_history, at the date of the closing or, at the end of the loop, of now.
PruneEmoji(w) ==
    LET t == task[w] IN
    /\ t.stage \in {"emoji", "last"}
    /\ emoji' = [d \in 0..LastDay |-> IF d # 0 /\ d < t.day - (EmojiDays - 1) THEN Unused
                                      ELSE emoji[d]]
    /\ Becomes(w, IF t.stage = "emoji" THEN After(t) ELSE Idle)
    /\ UNCHANGED <<today, open, byUser, byPlace, detail, summary, tracked, retention, joined, history,
                   chance>>

-----------------------------------------------------------------------------
(* Counting *)

\* A message is counted for the day on which its handler began, which becomes the
\* open day even if it has been closed meanwhile.
RecordMessage(w) ==
    LET t == task[w]  d == t.day IN
    /\ t.stage = "record" /\ t.kind = "message"
    /\ open' = d /\ Tracking(d)
    /\ byUser' = [byUser EXCEPT ![d][t.who] = @ + 1]
    /\ byPlace' = [byPlace EXCEPT ![d][t.where] = @ + 1]
    /\ detail' = [detail EXCEPT ![d][t.who][t.where] = @ + 1]
    /\ emoji' = [emoji EXCEPT ![d].uses = @ + t.uses, ![0].uses = @ + t.uses]
    /\ counted' = [counted EXCEPT ![d][t.who][t.where] = @ + 1]
    /\ said' = [said EXCEPT ![d][t.where] = @ + 1]
    /\ late' = IF d < closedTo THEN late \cup {d} ELSE late
    /\ Becomes(w, Idle)
    /\ UNCHANGED <<today, summary, retention, joined, closedTo, reports, shortest, chance>>

RecordReaction(w) ==
    LET t == task[w]  d == t.day IN
    /\ t.stage = "record" /\ t.kind = "reaction"
    /\ open' = (IF open = 0 THEN d ELSE open) /\ Tracking(d)
    /\ emoji' = [emoji EXCEPT ![d].balance = @ + t.uses, ![0].balance = @ + t.uses]
    /\ Becomes(w, Idle)
    /\ UNCHANGED <<today, byUser, byPlace, detail, summary, retention, joined, history, chance>>

-----------------------------------------------------------------------------
(* Settings, erasure, and the world *)

\* The commands retention and historyretention ask for a confirmation if rows would go.
Cutoff(kind, days) ==
    CASE kind = "detail" -> DetailCutoff(days)
      [] days = -1 -> 0
      [] days = 0 -> today + 1
      [] OTHER -> today - days
Older(kind, cutoff) ==
    \E d \in Day : d < cutoff /\ IF kind = "detail" THEN detail[d] # NoDetail ELSE summary[d].kept
AskRetention(w) ==
    /\ Spend("settings") /\ task[w] = Idle /\ joined
    /\ \E kind \in {"detail", "history"} : \E days \in IF kind = "detail" THEN 1..2 ELSE -1..1 :
        LET cutoff == Cutoff(kind, days) IN
        Becomes(w, [Idle EXCEPT !.kind = kind, !.day = cutoff, !.days[kind] = days,
                      !.stage = IF Older(kind, cutoff) THEN "confirm" ELSE "set"])
    /\ UNCHANGED <<today, tables, retention, joined, history>>

Shorter(days) == IF days < shortest THEN days ELSE shortest

\* The reply came: the rows before the date of the question go, then the setting changes.
ConfirmRetention(w) ==
    LET t == task[w] IN
    /\ t.stage = "confirm"
    /\ IF t.kind = "detail"
       THEN detail' = Dropped(detail, t.day, NoDetail) /\ shortest' = Shorter(t.days.detail)
            /\ UNCHANGED summary
       ELSE summary' = Dropped(summary, t.day, NoSummary) /\ UNCHANGED <<detail, shortest>>
    /\ Becomes(w, [t EXCEPT !.stage = "set"])
    /\ UNCHANGED <<today, open, byUser, byPlace, emoji, tracked, retention, joined, counted, said,
                   closedTo, late, reports, chance>>

RefuseRetention(w) ==
    /\ task[w].stage = "confirm" /\ Becomes(w, Idle)
    /\ UNCHANGED <<today, tables, retention, joined, history, chance>>

SetRetention(w) ==
    LET t == task[w] IN
    /\ t.stage = "set"
    /\ retention' = [retention EXCEPT ![t.kind] = t.days[t.kind]]
    /\ shortest' = IF t.kind = "detail" THEN Shorter(t.days.detail) ELSE shortest
    /\ Becomes(w, Idle)
    /\ UNCHANGED <<today, tables, joined, counted, said, closedTo, late, reports, chance>>

\* delete_user_everywhere; what is summed up without names stays.
Erase(u) ==
    /\ Spend("erasures")
    /\ detail' = [d \in Day |-> [detail[d] EXCEPT ![u] = Nowhere]]
    /\ byUser' = [d \in Day |-> [byUser[d] EXCEPT ![u] = 0]]
    /\ counted' = [d \in Day |-> [counted[d] EXCEPT ![u] = Nowhere]]
    /\ UNCHANGED <<today, open, byPlace, summary, emoji, tracked, retention, joined, task, said,
                   closedTo, late, reports, shortest>>

\* on_guild_remove deletes the emoji only, with the winners of the summaries.
LeaveServer ==
    /\ joined /\ Spend("removals") /\ joined' = FALSE
    /\ emoji' = [d \in 0..LastDay |-> Unused] /\ tracked' = 0
    /\ summary' = [d \in Day |-> [summary[d] EXCEPT !.winner = FALSE]]
    /\ UNCHANGED <<today, open, byUser, byPlace, detail, retention, task, history>>

JoinServer ==
    /\ ~joined /\ joined' = TRUE /\ Tracking(today)
    /\ UNCHANGED <<today, open, byUser, byPlace, detail, summary, emoji, retention, task, history,
                   chance>>

NextDay ==
    /\ today < LastDay /\ today' = today + 1
    /\ UNCHANGED <<tables, retention, joined, task, history, chance>>

Crash ==
    /\ Spend("crashes") /\ task' = [w \in Reader |-> Idle]
    /\ UNCHANGED <<today, tables, retention, joined, history>>

DayNext ==
    \/ \E w \in Reader :
        \/ BeginMessage(w) \/ BeginReaction(w) \/ BeginReport(w) \/ BeginMidnight(w)
        \/ CloseDay(w) \/ Report(w) \/ PruneHistory(w) \/ PruneDetail(w) \/ PruneEmoji(w)
        \/ RecordMessage(w) \/ RecordReaction(w)
        \/ AskRetention(w) \/ ConfirmRetention(w) \/ RefuseRetention(w) \/ SetRetention(w)
    \/ \E u \in User : Erase(u)
    \/ LeaveServer \/ JoinServer \/ NextDay \/ Crash

-----------------------------------------------------------------------------
(* What the reports show: a number, or "n/d" *)

NoData == -1

\* _load_available_detail_days
Available(d) == summary[d].kept \/ open = d \/ detail[d] # NoDetail

\* _get_user_stats_sync, one line of it
UserShown(u, d) ==
    IF Total(detail[d][u]) > 0 THEN Total(detail[d][u]) ELSE IF Available(d) THEN 0 ELSE NoData

\* _get_channel_timeline_sync, one line of it
PlaceShown(p, d) ==
    IF summary[d].kept /\ summary[d].places[p] > 0 THEN summary[d].places[p]
    ELSE IF InPlace(detail[d], p) > 0 THEN InPlace(detail[d], p)
    ELSE IF Available(d) THEN 0 ELSE NoData

-----------------------------------------------------------------------------
(* Properties *)

DayTypeOK ==
    /\ today \in Day /\ open \in 0..LastDay /\ closedTo \in 0..LastDay /\ tracked \in 0..LastDay
    /\ byUser \in [Day -> [User -> Nat]] /\ byPlace \in [Day -> [Place -> Nat]]
    /\ detail \in [Day -> [User -> [Place -> Nat]]] /\ counted \in [Day -> [User -> [Place -> Nat]]]
    /\ summary \in [Day -> [kept : BOOLEAN, total : Nat, places : [Place -> Nat],
                            winner : BOOLEAN]]
    /\ emoji \in [0..LastDay -> [uses : Nat, balance : Int]]
    /\ retention \in [detail : Nat \ {0}, history : Nat \cup {-1}] /\ late \subseteq Day

\* A closed day keeps what was said on it, in all and in each place, unless its members
\* were erased before it was closed, and it is posted once (close_stale_days).  This
\* holds while no message is counted for a day that was closed while it waited.
ClosedAsCounted ==
    late = {} =>
        \A d \in Day :
            /\ summary[d].kept => /\ summary[d].places = said[d]
                                  /\ summary[d].total >= Total([u \in User |-> Total(counted[d][u])])
                                  /\ summary[d].total <= Total(said[d])
            /\ reports[d] <= 1

\* What "activity verify" compares: the tables of today agree with the detailed rows,
\* except where an erasure left the number of a place (verify_open_day_consistency).
OpenDayAgrees ==
    /\ \A u \in User : byUser[today][u] = Total(detail[today][u])
    /\ \A p \in Place :
        InPlace(counted[today], p) = said[today][p] => byPlace[today][p] = InPlace(detail[today], p)

\* Within the shortest retention so far a report shows what a member wrote, and 0 or
\* "n/d" only if that was nothing; of a place it shows what was said there, or "n/d",
\* or less if a member was erased (_get_user_stats_sync, _get_channel_timeline_sync).
ReadingsHonest ==
    /\ \A u \in User, d \in (today - shortest + 1)..today \cap Day :
        LET n == Total(counted[d][u]) IN UserShown(u, d) \in IF n > 0 THEN {n} ELSE {0, NoData}
    /\ (late = {} /\ open \in {0, today}) =>
        \A p \in Place, d \in Day :
            /\ PlaceShown(p, d) <= said[d][p]
            /\ (InPlace(counted[d], p) = said[d][p] /\ PlaceShown(p, d) # NoData) =>
                    PlaceShown(p, d) = said[d][p]
=============================================================================
