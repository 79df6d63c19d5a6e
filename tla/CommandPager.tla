---------------------------- MODULE CommandPager ----------------------------
(***************************************************************************)
(* The pages of a command list or of raw responses (custom_commands/cog.py):*)
(* every click takes a turn, shows its page at once in the view and asks    *)
(* Discord to show it; the answers may come in any order, and a click that  *)
(* came too late changes nothing.                                           *)
(***************************************************************************)
EXTENDS Integers

CONSTANTS
    Pages,      \* pages are numbered 0..Pages - 1
    MaxTurn     \* clicks that are explored

ASSUME PagerAssumption == Pages \in Nat \ {0} /\ MaxTurn \in Nat

VARIABLES
    page,       \* view._page
    accepted,   \* [turn, page]: view._accepted_turn, view._accepted_page
    inflight,   \* [Turn -> page]: the requests of _inflight_turns
    nextTurn,   \* view._next_turn
    buttons,    \* the page for which the buttons of the message were made
    open,       \* the view still answers
    shown       \* the turns that Discord has accepted, with their pages

pagerVars == <<page, accepted, inflight, nextTurn, buttons, open, shown>>

Turn == 1..MaxTurn
Drop(f, t) == [u \in DOMAIN f \ {t} |-> f[u]]

Init ==
    /\ page = 0 /\ accepted = [turn |-> 0, page |-> 0] /\ inflight = [t \in {} |-> 0]
    /\ nextTurn = 0 /\ buttons = 0 /\ open = TRUE /\ shown = {}

\* A button that Discord shows enabled may be pressed again before the first press is served.
Enabled(step) == buttons # IF step = 1 THEN Pages - 1 ELSE 0

\* _previous and _next, up to the request of _turn_pager_page.
Click(step) ==
    /\ open /\ nextTurn < MaxTurn /\ Enabled(step)
    /\ nextTurn' = nextTurn + 1
    /\ page' = page + step
    /\ inflight' = [t \in DOMAIN inflight \cup {nextTurn'} |->
                      IF t = nextTurn' THEN page' ELSE inflight[t]]
    /\ UNCHANGED <<accepted, buttons, open, shown>>

\* The view shows what was accepted unless a newer click is still under way.
Newer(t) == \E u \in DOMAIN inflight : u > t
Settles(t, newest) == page' = IF Newer(t) THEN page ELSE newest

Answered(t) == TRUE
Later(t) == t > accepted.turn

\* Discord shows the page; one below the first is counted from the last (view._pages[page]).
Accept(t) ==
    /\ t \in DOMAIN inflight /\ inflight[t] \in -Pages..(Pages - 1)
    /\ inflight' = Drop(inflight, t)
    /\ accepted' = IF Later(t) THEN [turn |-> t, page |-> inflight[t]] ELSE accepted
    /\ Settles(t, accepted'.page)
    /\ buttons' = inflight[t] /\ shown' = shown \cup {[turn |-> t, page |-> inflight[t]]}
    /\ UNCHANGED <<nextTurn, open>>

\* The interaction has expired, the request failed, or there is no such page.
Fail(t) ==
    /\ t \in DOMAIN inflight
    /\ inflight' = Drop(inflight, t)
    /\ Settles(t, accepted.page)
    /\ UNCHANGED <<accepted, nextTurn, buttons, open, shown>>

\* _close and on_timeout: the controls are removed.
Close ==
    /\ open /\ open' = FALSE
    /\ UNCHANGED <<page, accepted, inflight, nextTurn, buttons, shown>>

Next ==
    \/ \E step \in {-1, 1} : Click(step)
    \/ \E t \in Turn : Accept(t) \/ Fail(t)
    \/ Close

Spec == Init /\ [][Next]_pagerVars

----------------------------------------------------------------------------
\* Every variable keeps to the values the code gives it.
TypeOK ==
    /\ page \in Int /\ nextTurn \in 0..MaxTurn /\ buttons \in Int /\ open \in BOOLEAN
    /\ accepted \in [turn : 0..MaxTurn, page : Int]
    /\ DOMAIN inflight \subseteq Turn /\ shown \subseteq [turn : Turn, page : Int]

\* When every click is served, the next one starts from the page of the newest click that
\* Discord accepted, in whatever order the clicks were served and whichever failed
\* (_turn_pager_page).
NewestPageStays ==
    inflight = [t \in {} |-> 0] =>
        /\ page = accepted.page
        /\ \A s \in shown : s.turn <= accepted.turn
        /\ shown # {} => accepted \in shown
=============================================================================
