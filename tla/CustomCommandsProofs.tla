----------------------- MODULE CustomCommandsProofs -----------------------
(***************************************************************************)
(* Proofs about the custom commands (custom_commands/), for any threads,   *)
(* responses, limits, pages and clicks.                                    *)
(*                                                                         *)
(* The command list settles on the page of the newest click that was       *)
(* accepted.  The rest is about CustomCommands and stands on CommandInv:   *)
(* what anybody has read of the life of a command is as many changes       *)
(* behind as its revision tells, so that the current revision is the last  *)
(* change; and whoever has read the erasure of an account does not name it. *)
(***************************************************************************)
EXTENDS CommandPager, CustomCommands, SequenceTheorems, TLAPS

-----------------------------------------------------------------------------
(* The pager *)

\* Turns are numbers; a request belongs to a turn; the record of what was accepted is the
\* newest of what Discord shows.
PagerInv ==
    /\ nextTurn \in 0..MaxTurn
    /\ DOMAIN inflight \subseteq Turn
    /\ accepted.turn \in 0..MaxTurn
    /\ \A s \in shown : s.turn \in Turn /\ s.turn <= accepted.turn
    /\ shown # {} => accepted \in shown
    /\ shown = {} => accepted.turn = 0
    /\ DOMAIN inflight = {} => page = accepted.page

LEMMA PagerInitInv == Init => PagerInv
  BY PagerAssumption DEF Init, PagerInv, Turn

LEMMA ClickInv == ASSUME PagerInv, NEW step \in {-1, 1}, Click(step) PROVE PagerInv'
<1>1. nextTurn' \in 1..MaxTurn
  BY PagerAssumption DEF Click, PagerInv
<1>2. DOMAIN inflight' = DOMAIN inflight \cup {nextTurn'}
  BY DEF Click
<1>3. UNCHANGED <<accepted, shown>>
  BY DEF Click
<1> QED
  BY <1>1, <1>2, <1>3, PagerAssumption DEF PagerInv, Turn

LEMMA AcceptInv == ASSUME PagerInv, NEW t \in Turn, Accept(t) PROVE PagerInv'
<1> DEFINE new == [turn |-> t, page |-> inflight[t]]
<1>1. DOMAIN inflight' = DOMAIN inflight \ {t}
  BY DEF Accept, Drop
<1>2. shown' = shown \cup {new} /\ UNCHANGED nextTurn
  BY DEF Accept
<1>3. t \in Nat /\ t \in 0..MaxTurn /\ accepted.turn \in Int
  BY PagerAssumption DEF Turn, PagerInv
<1>4. accepted' = IF t > accepted.turn THEN new ELSE accepted
  BY DEF Accept, Later
<1>5. DOMAIN inflight' = {} => page' = accepted'.page
  <2> SUFFICES ASSUME DOMAIN inflight' = {} PROVE page' = accepted'.page
    OBVIOUS
  <2>1. \A u \in DOMAIN inflight : u = t
    BY <1>1
  <2>2. ~Newer(t)
    BY <2>1, <1>3 DEF Newer
  <2> QED
    BY <2>2 DEF Accept, Settles
<1>6. \A s \in shown' : s.turn \in Turn /\ s.turn <= accepted'.turn
  BY <1>2, <1>3, <1>4, PagerAssumption DEF PagerInv, Turn
<1>7. accepted' \in shown'
  <2>1. CASE t > accepted.turn
    BY <2>1, <1>2, <1>4
  <2>2. CASE ~(t > accepted.turn)
    <3>1. shown # {}
      \* The first turn is later than the zero with which the view begins.
      BY <2>2, <1>3 DEF PagerInv, Turn
    <3> QED
      BY <3>1, <2>2, <1>2, <1>4 DEF PagerInv
  <2> QED
    BY <2>1, <2>2
<1> QED
  BY <1>1, <1>2, <1>3, <1>4, <1>5, <1>6, <1>7 DEF PagerInv

LEMMA FailInv == ASSUME PagerInv, NEW t \in Turn, Fail(t) PROVE PagerInv'
<1>1. DOMAIN inflight' = DOMAIN inflight \ {t} /\ UNCHANGED <<accepted, nextTurn, shown>>
  BY DEF Fail, Drop
<1>2. DOMAIN inflight' = {} => page' = accepted.page
  <2> SUFFICES ASSUME DOMAIN inflight' = {} PROVE page' = accepted.page
    OBVIOUS
  <2>1. \A u \in DOMAIN inflight : u = t
    BY <1>1
  <2>2. ~Newer(t)
    BY <2>1, PagerAssumption DEF Newer, Turn
  <2> QED
    BY <2>2 DEF Fail, Settles
<1> QED
  BY <1>1, <1>2 DEF PagerInv

LEMMA PagerStepInv == PagerInv /\ [Next]_pagerVars => PagerInv'
<1> SUFFICES ASSUME PagerInv, [Next]_pagerVars PROVE PagerInv'
  OBVIOUS
<1>1. ASSUME NEW step \in {-1, 1}, Click(step) PROVE PagerInv'
  BY <1>1, ClickInv
<1>2. ASSUME NEW t \in Turn, Accept(t) PROVE PagerInv'
  BY <1>2, AcceptInv
<1>3. ASSUME NEW t \in Turn, Fail(t) PROVE PagerInv'
  BY <1>3, FailInv
<1>4. CASE Close
  BY <1>4 DEF Close, PagerInv
<1>5. CASE UNCHANGED pagerVars
  BY <1>5 DEF pagerVars, PagerInv
<1> QED
  BY <1>1, <1>2, <1>3, <1>4, <1>5 DEF Next

LEMMA PagerInvSettles == PagerInv => NewestPageStays
<1> SUFFICES ASSUME PagerInv PROVE NewestPageStays
  OBVIOUS
<1>1. inflight = [t \in {} |-> 0] => DOMAIN inflight = {}
  OBVIOUS
<1> QED
  BY <1>1 DEF PagerInv, NewestPageStays

\* However many clicks overlap, and in whatever order Discord answers or refuses them, the
\* view ends on the page of the newest click that was accepted (_turn_pager_page).
THEOREM PagerSettles == Spec => []NewestPageStays
<1>1. Spec => []PagerInv
  BY PagerInitInv, PagerStepInv, PTL DEF Spec
<1> QED
  BY <1>1, PagerInvSettles, PTL

-----------------------------------------------------------------------------
(* Sequences and pages *)

\* What RemoveAt and InsertAt return, and how long it is.
LEMMA Removed ==
    ASSUME NEW S, NEW q \in Seq(S), NEW i \in 1..Len(q)
    PROVE  RemoveAt(q, i) \in Seq(S) /\ Len(RemoveAt(q, i)) = Len(q) - 1
<1> DEFINE a == SubSeq(q, 1, i - 1)
           b == SubSeq(q, i + 1, Len(q))
<1>1. Len(q) \in Nat /\ i \in Int
  BY LenProperties
<1>2. a \in Seq(S) /\ Len(a) = i - 1
  <2>1. \A k \in 1..(i - 1) : q[k] \in S
    BY ElementOfSeq
  <2> QED
    BY <2>1, <1>1, SubSeqProperties
<1>3. b \in Seq(S) /\ Len(b) = Len(q) - i
  <2>1. \A k \in (i + 1)..Len(q) : q[k] \in S
    BY ElementOfSeq
  <2> QED
    BY <2>1, <1>1, SubSeqProperties
<1>4. RemoveAt(q, i) = a \o b
  BY DEF RemoveAt
<1>5. a \o b \in Seq(S) /\ Len(a \o b) = Len(a) + Len(b)
  BY <1>2, <1>3, ConcatProperties
<1> HIDE DEF a, b
<1> QED
  BY <1>1, <1>2, <1>3, <1>4, <1>5

LEMMA Inserted ==
    ASSUME NEW S, NEW q \in Seq(S), NEW j \in 1..(Len(q) + 1), NEW e \in S
    PROVE  InsertAt(q, j, e) \in Seq(S) /\ Len(InsertAt(q, j, e)) = Len(q) + 1
<1> DEFINE a == SubSeq(q, 1, j - 1)
           b == SubSeq(q, j, Len(q))
           c == a \o <<e>>
<1>1. Len(q) \in Nat /\ j \in Int
  BY LenProperties
<1>2. a \in Seq(S) /\ Len(a) = j - 1
  <2>1. \A k \in 1..(j - 1) : q[k] \in S
    BY ElementOfSeq
  <2> QED
    BY <2>1, <1>1, SubSeqProperties
<1>3. b \in Seq(S) /\ Len(b) = Len(q) - j + 1
  <2>1. \A k \in j..Len(q) : q[k] \in S
    BY ElementOfSeq
  <2> QED
    BY <2>1, <1>1, SubSeqProperties
<1>4. <<e>> \in Seq(S) /\ Len(<<e>>) = 1
  OBVIOUS
<1>5. c \in Seq(S) /\ Len(c) = Len(a) + 1
  BY <1>2, <1>4, ConcatProperties
<1>6. c \o b \in Seq(S) /\ Len(c \o b) = Len(c) + Len(b)
  BY <1>3, <1>5, ConcatProperties
<1>7. InsertAt(q, j, e) = c \o b
  BY DEF InsertAt
<1> HIDE DEF a, b, c
<1> QED
  BY <1>1, <1>2, <1>3, <1>5, <1>6, <1>7

\* A response that is moved leaves the others and their number.
LEMMA MovedKeeps ==
    ASSUME NEW S, NEW q \in Seq(S), NEW i \in 1..Len(q), NEW j \in 1..Len(q)
    PROVE  Moved(q, i, j) \in Seq(S) /\ Len(Moved(q, i, j)) = Len(q)
<1>1. RemoveAt(q, i) \in Seq(S) /\ Len(RemoveAt(q, i)) = Len(q) - 1
  BY Removed
<1>2. q[i] \in S /\ Len(q) \in Nat
  BY ElementOfSeq, LenProperties
<1> DEFINE r == RemoveAt(q, i)
<1>3. r \in Seq(S) /\ j \in 1..(Len(r) + 1) /\ Len(r) = Len(q) - 1
  BY <1>1, <1>2
<1> HIDE DEF r
<1>4. InsertAt(r, j, q[i]) \in Seq(S) /\ Len(InsertAt(r, j, q[i])) = Len(r) + 1
  BY <1>2, <1>3, Inserted
<1>5. Moved(q, i, j) = InsertAt(r, j, q[i])
  BY DEF Moved, r
<1> QED
  BY <1>2, <1>3, <1>4, <1>5

\* A draft has a page, and each of its responses is on one.
LEMMA PagesFit ==
    /\ \A n \in Nat \ {0} : PageOf(n) \in Nat
    /\ \A n \in Nat : PageCount(n) \in Nat \ {0}
  BY CommandAssumption DEF PageOf, PageCount

-----------------------------------------------------------------------------
(* The invariant *)

Reading == [revision : Nat, life : Nat, change : Nat]
Command == [exists : BOOLEAN, revision : Nat, texts : Seq(Text), named : BOOLEAN,
            life : Nat, change : Nat, erased : BOOLEAN]
Draft == [step : {"none", "opening", "open", "finished"}, read : Reading, texts : Seq(Text),
          named : BOOLEAN, page : Nat, selected : Nat, doomed : Nat, replacing : Nat,
          save : {"none", "called", "stored"}, sent : Seq(Text), sentNamed : BOOLEAN,
          status : {"none", "Saved", "Cancelled", "Reloaded"}]

Types ==
    /\ stored \in Command /\ sessions \in [Session -> Draft]
    /\ setter \in [step : {"none", "read"}, read : Reading]
    /\ prompt \in [step : {"none", "open"}, read : Reading]
    /\ eraser \in {"none", "failed", "config", "copied", "files", "done"}
    /\ purger \in {"none", "clear", "files", "check", "done"}
    /\ written \in 0..MaxText

\* A command that exists has a revision; whoever was erased from it has asked for it.
StoredInv ==
    /\ stored.exists => stored.revision # 0
    /\ stored.erased => stored.exists /\ eraser # "none"

\* What was read was written before, and what is left of that life has had as many changes
\* since then as the revision tells.
Known(read) ==
    read.revision # 0 =>
        /\ read.life <= stored.life /\ read.change <= stored.change
        /\ stored.exists /\ read.life = stored.life =>
              stored.change - read.change = stored.revision - read.revision

\* What has seen the erasure does not name the account.
Forgets(d) ==
    stored.erased /\ ~stored.named /\ d.read.revision # 0
    /\ d.read.life = stored.life /\ d.read.change = stored.change => ~d.named /\ ~d.sentNamed

\* The selection of a draft exists, and a thread that has not begun has sent nothing.
Usable(d) ==
    /\ d.selected # NoIndex => OnPage(d.selected, d.page, Len(d.texts))
    /\ d.step = "none" => ~d.sentNamed /\ d.selected = NoIndex

CommandInv ==
    /\ Types /\ StoredInv /\ Known(setter.read) /\ Known(prompt.read)
    /\ \A s \in Session : Usable(sessions[s]) /\ Known(sessions[s].read) /\ Forgets(sessions[s])

LEMMA CommandInitInv == CommandInit => CommandInv
<1> SUFFICES ASSUME CommandInit PROVE CommandInv
  OBVIOUS
<1>1. <<>> \in Seq(Text)
  BY EmptySeq
<1>2. Unread \in Reading /\ Unread.revision = 0
  BY DEF Unread, Reading
<1>3. NoSession \in Draft
  BY <1>1, <1>2 DEF NoSession, Draft, NoIndex
<1>4. Nothing \in Command /\ ~Nothing.exists /\ ~Nothing.erased
  BY <1>1 DEF Nothing, Command
<1>5. Types
  BY <1>2, <1>3, <1>4, CommandAssumption DEF CommandInit, Types, Idle
<1>6. StoredInv
  BY <1>4 DEF CommandInit, StoredInv
<1>7. Known(setter.read) /\ Known(prompt.read)
  BY <1>2 DEF CommandInit, Idle, Known
<1>8. ASSUME NEW s \in Session
      PROVE  Usable(sessions[s]) /\ Known(sessions[s].read) /\ Forgets(sessions[s])
  BY <1>2 DEF CommandInit, NoSession, Usable, Known, Forgets
<1> QED
  BY <1>5, <1>6, <1>7, <1>8 DEF CommandInv

-----------------------------------------------------------------------------
(* Drafts *)

\* A draft is replaced by one that is in order, and nothing is stored.
LEMMA OneDraft ==
    ASSUME CommandInv, NEW s \in Session, NEW d \in Draft, Becomes(s, d),
           Usable(d), Known(d.read), Forgets(d), written' \in 0..MaxText,
           UNCHANGED <<stored, setter, prompt, eraser, purger>>
    PROVE  CommandInv'
<1>1. Types'
  BY DEF CommandInv, Types, Becomes
<1>2. StoredInv' /\ Known(setter.read)' /\ Known(prompt.read)'
  BY DEF CommandInv, StoredInv, Known
<1>3. ASSUME NEW t \in Session
      PROVE  (Usable(sessions[t]) /\ Known(sessions[t].read) /\ Forgets(sessions[t]))'
  <2>1. sessions'[t] = IF t = s THEN d ELSE sessions[t]
    BY DEF Becomes, CommandInv, Types
  <2> QED
    BY <2>1 DEF CommandInv, Usable, Known, Forgets
<1> QED
  BY <1>1, <1>2, <1>3 DEF CommandInv

\* What changes in a draft is what it says and shows.
Redrafted(d, e) ==
    /\ e \in Draft
    /\ e.selected # NoIndex => OnPage(e.selected, e.page, Len(e.texts))
    /\ e.read = d.read /\ e.step = d.step /\ e.named = d.named
    /\ e.save = d.save /\ e.sentNamed = d.sentNamed

\* Nobody stores a draft.
NobodyStores == \A s \in Session : ~Stores(s)

LEMMA CalmDraft ==
    ASSUME CommandInv, NEW s \in Session, NEW e, Becomes(s, e),
           e.save \in {sessions[s].save, "none", "called"}
    PROVE  NobodyStores
<1>1. \A t \in Session : sessions'[t] = IF t = s THEN e ELSE sessions[t]
  BY DEF Becomes, CommandInv, Types
<1> QED
  BY <1>1 DEF NobodyStores, Stores

LEMMA RedraftedInv ==
    ASSUME CommandInv, NEW s \in Session, Editing(s), NEW e, Becomes(s, e),
           Redrafted(sessions[s], e), written' \in 0..MaxText, UndraftedUnchanged
    PROVE  CommandInv' /\ NobodyStores
<1>1. e \in Draft /\ Known(e.read) /\ Forgets(e)
  BY DEF CommandInv, Redrafted, Forgets
<1>2. Usable(e)
  BY DEF Redrafted, Editing, Usable
<1>3. NobodyStores
  BY CalmDraft DEF Redrafted
<1> QED
  BY <1>1, <1>2, <1>3, OneDraft DEF UndraftedUnchanged

LEMMA ShowingRedrafts ==
    ASSUME NEW d \in Draft, NEW texts \in Seq(Text), NEW i \in 1..Len(texts)
    PROVE  Redrafted(d, Showing(d, texts, i))
<1>1. i \in Nat \ {0}
  BY LenProperties
<1>2. PageOf(i) \in Nat
  BY <1>1, PagesFit
<1> QED
  BY <1>1, <1>2 DEF Redrafted, Showing, Draft, OnPage

LEMMA PageSetRedrafts ==
    ASSUME NEW d \in Draft, NEW texts \in Seq(Text), NEW p \in Nat
    PROVE  Redrafted(d, PageSet(d, texts, p))
<1> DEFINE last == PageCount(Len(texts)) - 1
           new == IF p > last THEN last ELSE p
           chosen == IF OnPage(d.selected, new, Len(texts)) THEN d.selected ELSE NoIndex
<1>0. Len(texts) \in Nat /\ PageCount(Len(texts)) \in Nat \ {0}
  BY LenProperties, PagesFit
<1>1. new \in Nat /\ chosen \in Nat
  BY <1>0 DEF Draft, NoIndex
<1>2. PageSet(d, texts, p) = [d EXCEPT !.texts = texts, !.page = new, !.selected = chosen]
  BY DEF PageSet
<1>3. chosen # NoIndex => OnPage(chosen, new, Len(texts))
  OBVIOUS
<1> HIDE DEF new, chosen
<1> QED
  BY <1>1, <1>2, <1>3 DEF Redrafted, Draft

\* The marks of the controls are beside what is shown.
LEMMA MarkRedrafts ==
    ASSUME NEW d, NEW e, Redrafted(d, e), NEW i \in Nat
    PROVE  Redrafted(d, [e EXCEPT !.doomed = i]) /\ Redrafted(d, [e EXCEPT !.replacing = i])
  BY DEF Redrafted, Draft

\* A response that is written is a text.
LEMMA WritesText == ASSUME CommandInv, Writes PROVE written' \in Text /\ written' \in 0..MaxText
  BY CommandAssumption DEF CommandInv, Types, Writes, Text

LEMMA ClicksKeep == ASSUME CommandInv, Clicks PROVE written' \in 0..MaxText
  BY DEF CommandInv, Types, Clicks

LEMMA DraftFacts ==
    ASSUME CommandInv, NEW s \in Session
    PROVE  /\ sessions[s] \in Draft /\ sessions[s].texts \in Seq(Text)
           /\ sessions[s].page \in Nat /\ sessions[s].selected \in Nat
           /\ sessions[s].selected # NoIndex =>
                 /\ sessions[s].selected \in 1..Len(sessions[s].texts)
                 /\ PageOf(sessions[s].selected) = sessions[s].page
           /\ Len(sessions[s].texts) \in Nat
  BY LenProperties DEF CommandInv, Types, Draft, Usable, OnPage

LEMMA MessageInv ==
    ASSUME CommandInv, NEW s \in Session, Message(s)
    PROVE  CommandInv' /\ NobodyStores
<1> DEFINE d == sessions[s]
           i == d.replacing
<1>1. CASE i = NoIndex /\ Writes
           /\ Becomes(s, Showing(d, Append(d.texts, written'), Len(d.texts) + 1))
  <2>1. written' \in Text /\ written' \in 0..MaxText
    BY <1>1, WritesText
  <2>2. Append(d.texts, written') \in Seq(Text) /\ Len(Append(d.texts, written')) = Len(d.texts) + 1
    BY <2>1, DraftFacts, AppendProperties
  <2> DEFINE texts == Append(d.texts, written')
             last == Len(d.texts) + 1
  <2>3. texts \in Seq(Text) /\ last \in 1..Len(texts)
    BY <2>2, DraftFacts
  <2> HIDE DEF texts, last
  <2>4. Redrafted(d, Showing(d, texts, last))
    BY <2>3, DraftFacts, ShowingRedrafts
  <2> QED
    BY <1>1, <2>1, <2>4, RedraftedInv DEF Message, texts, last
<1>2. CASE i \in 1..Len(d.texts) /\ Writes
           /\ Becomes(s, [Showing(d, [d.texts EXCEPT ![i] = written'], i)
                             EXCEPT !.replacing = NoIndex])
  <2>1. written' \in Text /\ written' \in 0..MaxText
    BY <1>2, WritesText
  <2> DEFINE texts == [d.texts EXCEPT ![i] = written']
  <2>2. texts \in Seq(Text) /\ Len(texts) = Len(d.texts)
    BY <1>2, <2>1, DraftFacts, ExceptSeq
  <2> HIDE DEF texts
  <2>3. Redrafted(d, Showing(d, texts, i))
    BY <1>2, <2>2, DraftFacts, ShowingRedrafts
  <2>4. Redrafted(d, [Showing(d, texts, i) EXCEPT !.replacing = NoIndex])
    BY <2>3, MarkRedrafts DEF NoIndex
  <2> QED
    BY <1>2, <2>1, <2>4, RedraftedInv DEF Message, texts
<1>3. CASE i > Len(d.texts) /\ Clicks /\ UNCHANGED sessions
  <2>1. Redrafted(d, d) /\ Becomes(s, d)
    BY <1>3, DraftFacts DEF Redrafted, Becomes, OnPage, CommandInv, Types
  <2> QED
    BY <1>3, <2>1, ClicksKeep, RedraftedInv DEF Message
<1> QED
  BY <1>1, <1>2, <1>3 DEF Message

LEMMA AskReplacementInv ==
    ASSUME CommandInv, NEW s \in Session, NEW i, AskReplacement(s, i)
    PROVE  CommandInv' /\ NobodyStores
<1> DEFINE d == sessions[s]
<1>1. Redrafted(d, Showing(d, d.texts, i)) /\ i \in Nat
  BY DraftFacts, ShowingRedrafts DEF AskReplacement
<1>2. Redrafted(d, [Showing(d, d.texts, i) EXCEPT !.replacing = i])
  BY <1>1, MarkRedrafts
<1> QED
  BY <1>2, ClicksKeep, RedraftedInv DEF AskReplacement

LEMMA RemoveByWordInv ==
    ASSUME CommandInv, NEW s \in Session, NEW i, RemoveByWord(s, i)
    PROVE  CommandInv' /\ NobodyStores
<1> DEFINE d == sessions[s]
<1>1. RemoveAt(d.texts, i) \in Seq(Text)
  BY DraftFacts, Removed DEF RemoveByWord
<1>2. Redrafted(d, PageSet(d, RemoveAt(d.texts, i), d.page))
  BY <1>1, DraftFacts, PageSetRedrafts
<1> QED
  BY <1>2, ClicksKeep, RedraftedInv DEF RemoveByWord

LEMMA MoveByWordInv ==
    ASSUME CommandInv, NEW s \in Session, NEW i, NEW j, MoveByWord(s, i, j)
    PROVE  CommandInv' /\ NobodyStores
<1> DEFINE d == sessions[s]
           texts == Moved(d.texts, i, j)
<1>1. texts \in Seq(Text) /\ Len(texts) = Len(d.texts)
  BY DraftFacts, MovedKeeps DEF MoveByWord
<1>2. Becomes(s, [d EXCEPT !.texts = texts])
  BY DEF MoveByWord
<1> HIDE DEF texts
<1>3. Redrafted(d, [d EXCEPT !.texts = texts])
  BY <1>1, DraftFacts DEF Redrafted, Draft, OnPage
<1> QED
  BY <1>2, <1>3, ClicksKeep, RedraftedInv DEF MoveByWord

LEMMA SelectInv ==
    ASSUME CommandInv, NEW s \in Session, NEW i, Select(s, i)
    PROVE  CommandInv' /\ NobodyStores
<1> DEFINE d == sessions[s]
           e == [d EXCEPT !.selected = i, !.doomed = NoIndex]
<1>1. i \in Nat /\ OnPage(i, d.page, Len(d.texts))
  BY DraftFacts DEF Select, OnPage
<1>2. Redrafted(d, e)
  BY <1>1, DraftFacts DEF Redrafted, Draft, NoIndex
<1> QED
  BY <1>2, ClicksKeep, RedraftedInv DEF Select

LEMMA TurnPageInv ==
    ASSUME CommandInv, NEW s \in Session, NEW p, TurnPage(s, p)
    PROVE  CommandInv' /\ NobodyStores
<1> DEFINE d == sessions[s]
<1>1. Redrafted(d, PageSet(d, d.texts, p))
  BY DraftFacts, PagesFit, PageSetRedrafts DEF TurnPage
<1>2. Redrafted(d, [PageSet(d, d.texts, p) EXCEPT !.doomed = NoIndex])
  BY <1>1, MarkRedrafts DEF NoIndex
<1> QED
  BY <1>2, ClicksKeep, RedraftedInv DEF TurnPage

LEMMA AddByModalInv ==
    ASSUME CommandInv, NEW s \in Session, AddByModal(s)
    PROVE  CommandInv' /\ NobodyStores
<1> DEFINE d == sessions[s]
           texts == Append(d.texts, written')
<1>1. written' \in Text /\ written' \in 0..MaxText
  BY WritesText DEF AddByModal
<1>2. texts \in Seq(Text) /\ Len(texts) \in 1..Len(texts)
  BY <1>1, DraftFacts, AppendProperties
<1>3. Becomes(s, [Showing(d, texts, Len(texts)) EXCEPT !.doomed = NoIndex])
  BY DEF AddByModal
<1> HIDE DEF texts
<1>4. Redrafted(d, Showing(d, texts, Len(texts)))
  BY <1>2, DraftFacts, ShowingRedrafts
<1>5. Redrafted(d, [Showing(d, texts, Len(texts)) EXCEPT !.doomed = NoIndex])
  BY <1>4, MarkRedrafts DEF NoIndex
<1> QED
  BY <1>1, <1>3, <1>5, RedraftedInv DEF AddByModal

LEMMA EditByModalInv ==
    ASSUME CommandInv, NEW s \in Session, EditByModal(s)
    PROVE  CommandInv' /\ NobodyStores
<1> DEFINE d == sessions[s]
           texts == [d.texts EXCEPT ![d.selected] = written']
<1>1. written' \in Text /\ written' \in 0..MaxText
  BY WritesText DEF EditByModal
<1>2. texts \in Seq(Text) /\ Len(texts) = Len(d.texts)
  BY <1>1, DraftFacts, ExceptSeq DEF EditByModal
<1>3. Becomes(s, [d EXCEPT !.texts = texts, !.doomed = NoIndex])
  BY DraftFacts DEF EditByModal, Draft
<1> HIDE DEF texts
<1>4. Redrafted(d, [d EXCEPT !.texts = texts, !.doomed = NoIndex])
  BY <1>2, DraftFacts DEF Redrafted, Draft, OnPage, NoIndex
<1> QED
  BY <1>1, <1>3, <1>4, RedraftedInv DEF EditByModal

LEMMA MoveByModalInv ==
    ASSUME CommandInv, NEW s \in Session, NEW j, MoveByModal(s, j) PROVE CommandInv' /\ NobodyStores
<1> DEFINE d == sessions[s]
           texts == Moved(d.texts, d.selected, j)
<1>1. texts \in Seq(Text) /\ j \in 1..Len(texts)
  BY DraftFacts, MovedKeeps DEF MoveByModal
<1>2. Becomes(s, [Showing(d, texts, j) EXCEPT !.doomed = NoIndex])
  BY DEF MoveByModal
<1> HIDE DEF texts
<1>3. Redrafted(d, Showing(d, texts, j))
  BY <1>1, DraftFacts, ShowingRedrafts
<1>4. Redrafted(d, [Showing(d, texts, j) EXCEPT !.doomed = NoIndex])
  BY <1>3, MarkRedrafts DEF NoIndex
<1> QED
  BY <1>2, <1>4, ClicksKeep, RedraftedInv DEF MoveByModal

\* Nobody picks an account that is being erased: it is gone.
LEMMA AccessByModalInv ==
    ASSUME CommandInv, NEW s \in Session, NEW named \in BOOLEAN, AccessByModal(s, named)
    PROVE  CommandInv' /\ NobodyStores
<1> DEFINE d == sessions[s]
           e == [d EXCEPT !.named = named]
<1>1. /\ e \in Draft /\ e.read = d.read /\ e.sentNamed = d.sentNamed /\ e.named = named
      /\ e.save = d.save
  BY DraftFacts DEF Draft
<1>2. Usable(e)
  BY DraftFacts DEF Usable, OnPage, Draft, AccessByModal, Editing
<1>3. stored.erased => ~named
  BY DEF AccessByModal, CommandInv, StoredInv
<1>4. Known(e.read) /\ Forgets(e)
  BY <1>1, <1>3 DEF CommandInv, Forgets
<1>5. Becomes(s, e)
  BY DEF AccessByModal
<1> HIDE DEF e
<1>6. NobodyStores
  BY <1>1, <1>5, CalmDraft
<1> QED
  BY <1>1, <1>2, <1>4, <1>5, <1>6, ClicksKeep, OneDraft DEF AccessByModal, UndraftedUnchanged

LEMMA DeleteByButtonInv ==
    ASSUME CommandInv, NEW s \in Session, DeleteByButton(s)
    PROVE  CommandInv' /\ NobodyStores
<1> DEFINE d == sessions[s]
           texts == RemoveAt(d.texts, d.selected)
           next == IF d.selected > Len(texts) THEN Len(texts) ELSE d.selected
<1>1. texts \in Seq(Text) /\ Len(texts) \in Nat /\ d.selected \in Nat \ {0}
  BY DraftFacts, Removed, LenProperties DEF DeleteByButton, NoIndex
<1>2. CASE d.doomed # d.selected
  <2>1. Becomes(s, [d EXCEPT !.doomed = d.selected])
    BY <1>2 DEF DeleteByButton
  <2>2. Redrafted(d, [d EXCEPT !.doomed = d.selected])
    BY DraftFacts DEF Redrafted, Draft, OnPage
  <2> QED
    BY <2>1, <2>2, ClicksKeep, RedraftedInv DEF DeleteByButton
<1>3. CASE d.doomed = d.selected /\ texts = <<>>
  <2> DEFINE e == [d EXCEPT !.texts = <<>>, !.page = 0, !.selected = NoIndex, !.doomed = NoIndex]
  <2>1. Becomes(s, e)
    BY <1>3 DEF DeleteByButton
  <2>2. Redrafted(d, e)
    BY DraftFacts, EmptySeq DEF Redrafted, Draft, NoIndex
  <2> QED
    BY <2>1, <2>2, ClicksKeep, RedraftedInv DEF DeleteByButton
<1>4. CASE d.doomed = d.selected /\ texts # <<>>
  <2>1. next \in 1..Len(texts)
    BY <1>1, <1>4, EmptySeq
  <2>2. Becomes(s, [Showing(d, texts, next) EXCEPT !.doomed = NoIndex])
    BY <1>4 DEF DeleteByButton
  <2> HIDE DEF texts, next
  <2>3. Redrafted(d, Showing(d, texts, next))
    BY <1>1, <2>1, DraftFacts, ShowingRedrafts
  <2>4. Redrafted(d, [Showing(d, texts, next) EXCEPT !.doomed = NoIndex])
    BY <2>3, MarkRedrafts DEF NoIndex
  <2> QED
    BY <2>2, <2>4, ClicksKeep, RedraftedInv DEF DeleteByButton
<1> QED
  BY <1>2, <1>3, <1>4

LEMMA DraftingInv ==
    ASSUME CommandInv, NEW s \in Session, Drafting(s)
    PROVE  CommandInv' /\ NobodyStores
<1>1. CASE Message(s)
  BY <1>1, MessageInv
<1>2. CASE AddByModal(s)
  BY <1>2, AddByModalInv
<1>3. CASE EditByModal(s)
  BY <1>3, EditByModalInv
<1>4. CASE DeleteByButton(s)
  BY <1>4, DeleteByButtonInv
<1>5. ASSUME NEW i \in 1..MaxText,
             AskReplacement(s, i) \/ RemoveByWord(s, i) \/ Select(s, i) \/ MoveByModal(s, i)
      PROVE  CommandInv' /\ NobodyStores
  BY <1>5, AskReplacementInv, RemoveByWordInv, SelectInv, MoveByModalInv
<1>6. ASSUME NEW i \in 1..MaxText, NEW j \in 1..MaxText, MoveByWord(s, i, j)
      PROVE  CommandInv' /\ NobodyStores
  BY <1>6, MoveByWordInv
<1>7. ASSUME NEW p \in 0..MaxText, TurnPage(s, p) PROVE CommandInv' /\ NobodyStores
  BY <1>7, TurnPageInv
<1>8. ASSUME NEW named \in BOOLEAN, AccessByModal(s, named) PROVE CommandInv' /\ NobodyStores
  BY <1>8, AccessByModalInv
<1> QED
  BY <1>1, <1>2, <1>3, <1>4, <1>5, <1>6, <1>7, <1>8 DEF Drafting

-----------------------------------------------------------------------------
(* Threads *)

\* What is read now is known, and it forgets with the command.
LEMMA ReadKnown == ASSUME CommandInv PROVE Read \in Reading /\ Known(Read)
  BY DEF CommandInv, Types, Command, Read, Reading, Known

LEMMA OpenInv == ASSUME CommandInv, NEW s \in Session, Open(s) PROVE CommandInv'
<1> DEFINE d == [sessions[s] EXCEPT !.step = "opening"]
           e == [d EXCEPT !.read = Read, !.texts = stored.texts, !.named = stored.named]
<1>1. sessions[s] \in Draft /\ sessions[s].step = "none" /\ ~sessions[s].sentNamed
  BY DraftFacts DEF Open, CommandInv, Usable
<1>2. written' \in 0..MaxText /\ UNCHANGED <<stored, setter, prompt, eraser, purger>>
  BY DEF Open, CommandInv, Types
<1>3. CASE stored.exists
  <2>1. Becomes(s, e)
    BY <1>3 DEF Open
  <2>2. e \in Draft
    BY <1>1, ReadKnown DEF Draft, CommandInv, Types, Command
  <2>3. e.read = Read /\ e.named = stored.named /\ e.selected = NoIndex /\ e.step = "opening"
    BY <1>1 DEF Draft, CommandInv, Usable
  <2>4. Usable(e) /\ Known(e.read) /\ Forgets(e)
    <3>1. ~e.sentNamed
      BY <1>1 DEF Draft
    <3> QED
      BY <2>3, <3>1, ReadKnown DEF Usable, Forgets
  <2> HIDE DEF e
  <2> QED
    BY <1>2, <2>1, <2>2, <2>4, OneDraft
<1>4. CASE ~stored.exists
  <2>1. Becomes(s, d)
    BY <1>4 DEF Open
  <2>2. d \in Draft /\ d.read = sessions[s].read
    BY <1>1 DEF Draft
  <2>3. Usable(d) /\ Forgets(d)
    BY <1>1, <1>4 DEF Usable, Forgets, CommandInv, StoredInv, Draft
  <2>4. Known(d.read)
    BY <2>2 DEF CommandInv
  <2> HIDE DEF d
  <2> QED
    BY <1>2, <2>1, <2>2, <2>3, <2>4, OneDraft
<1> QED
  BY <1>3, <1>4

\* A session that is left is as it was at first.
LEMMA NoSessionFits ==
    /\ NoSession \in Draft /\ Usable(NoSession) /\ Known(NoSession.read) /\ Forgets(NoSession)
<1>1. <<>> \in Seq(Text)
  BY EmptySeq
<1>2. Unread \in Reading /\ Unread.revision = 0
  BY DEF Unread, Reading
<1> QED
  BY <1>1, <1>2 DEF NoSession, Draft, NoIndex, Usable, Known, Forgets

\* What a draft loses when it is put away, it need not have.
LEMMA Kept ==
    ASSUME CommandInv, NEW s \in Session, NEW e \in Draft, Becomes(s, e), Usable(e),
           e.read = sessions[s].read, e.named => sessions[s].named,
           e.sentNamed => sessions[s].named \/ sessions[s].sentNamed,
           UNCHANGED <<stored, setter, prompt, eraser, purger, written>>
    PROVE  CommandInv'
<1>1. Known(e.read) /\ Forgets(e)
  BY DEF CommandInv, Forgets
<1>2. written' \in 0..MaxText
  BY DEF CommandInv, Types
<1> QED
  BY <1>1, <1>2, OneDraft

LEMMA OpenedInv == ASSUME CommandInv, NEW s \in Session, Opened(s) PROVE CommandInv'
<1> DEFINE d == sessions[s]
<1>1. UNCHANGED <<stored, setter, prompt, eraser, purger, written>> /\ written' \in 0..MaxText
  BY DEF Opened, CommandInv, Types
<1>2. CASE Becomes(s, [d EXCEPT !.step = "open"])
  <2> DEFINE e == [d EXCEPT !.step = "open"]
  <2>1. /\ e \in Draft /\ Usable(e) /\ e.read = d.read
        /\ e.named = d.named /\ e.sentNamed = d.sentNamed
    BY DraftFacts DEF Draft, Usable, OnPage
  <2> HIDE DEF e
  <2> QED
    BY <1>1, <1>2, <2>1, Kept DEF e
<1>3. CASE Becomes(s, NoSession)
  BY <1>1, <1>3, NoSessionFits, OneDraft
<1> QED
  BY <1>2, <1>3 DEF Opened

LEMMA SaveInv == ASSUME CommandInv, NEW s \in Session, Save(s) PROVE CommandInv'
<1> DEFINE d == sessions[s]
           e == [d EXCEPT !.save = "called", !.sent = d.texts, !.sentNamed = d.named]
<1>1. Becomes(s, e)
  BY DEF Save
<1>2. e \in Draft /\ Usable(e) /\ e.read = d.read /\ e.named = d.named /\ e.sentNamed = d.named
  BY DraftFacts DEF Draft, Usable, OnPage, Save, Editing
<1> HIDE DEF e
<1> QED
  BY <1>1, <1>2, Kept DEF Save, UndraftedUnchanged

LEMMA UnsavedFits ==
    ASSUME CommandInv, NEW s \in Session
    PROVE  LET d == sessions[s]
               e == Unsaved(d)
           IN /\ e \in Draft /\ Usable(e) /\ e.read = d.read
              /\ e.named = d.named /\ e.sentNamed = d.sentNamed
  BY DraftFacts, EmptySeq DEF Draft, Unsaved, Usable, OnPage, CommandInv

LEMMA FinishInv ==
    ASSUME CommandInv, NEW s \in Session, NEW status \in {"Saved", "Cancelled"},
           Finish(s, status), UNCHANGED <<stored, setter, prompt, eraser, purger, written>>
    PROVE  CommandInv'
<1> DEFINE d == sessions[s]
           new == [NoSession EXCEPT !.step = "finished", !.status = status]
           e == [new EXCEPT !.save = d.save, !.sent = d.sent, !.sentNamed = d.sentNamed,
                            !.read = d.read]
<1>0. written' \in 0..MaxText
  BY DEF CommandInv, Types
<1>1. CASE Becomes(s, Unsaved(d))
  BY <1>1, UnsavedFits, Kept
<1>2. CASE Becomes(s, new)
  <2>1. new \in Draft /\ Usable(new) /\ new.read = NoSession.read /\ ~new.named /\ ~new.sentNamed
    BY NoSessionFits DEF Draft, Usable, NoSession
  <2>2. Known(new.read) /\ Forgets(new)
    BY <2>1, NoSessionFits DEF Forgets
  <2> HIDE DEF new
  <2> QED
    BY <1>0, <1>2, <2>1, <2>2, OneDraft
<1>3. CASE Becomes(s, e)
  <2>1. e \in Draft /\ Usable(e) /\ e.read = d.read /\ ~e.named /\ e.sentNamed = d.sentNamed
    BY DraftFacts, NoSessionFits DEF Draft, Usable, NoSession
  <2> HIDE DEF e
  <2> QED
    BY <1>3, <2>1, Kept
<1> QED
  BY <1>1, <1>2, <1>3 DEF Finish

LEMMA ReloadInv == ASSUME CommandInv, Reload PROVE CommandInv'
<1> DEFINE gone == [NoSession EXCEPT !.step = "finished", !.status = "Reloaded"]
<1>1. gone \in Draft /\ Usable(gone) /\ Known(gone.read) /\ Forgets(gone)
  BY NoSessionFits DEF Draft, Usable, NoSession, Forgets
<1>2. \A s \in Session : sessions'[s] \in {gone, sessions[s]}
  BY DEF Reload
<1>3. sessions' \in [Session -> Draft]
  <2>1. \A s \in Session : sessions'[s] \in Draft
    BY <1>1, <1>2, DraftFacts
  <2>2. DOMAIN sessions' = Session /\ sessions' = [s \in Session |-> sessions'[s]]
    BY DEF Reload
  <2> QED
    BY <2>1, <2>2
<1>4. Types' /\ StoredInv' /\ Known(setter.read)' /\ Known(prompt.read)'
  BY <1>3 DEF CommandInv, Types, StoredInv, Known, Reload, UndraftedUnchanged
<1>5. ASSUME NEW s \in Session
      PROVE  (Usable(sessions[s]) /\ Known(sessions[s].read) /\ Forgets(sessions[s]))'
  <2>1. UNCHANGED stored
    BY DEF Reload, UndraftedUnchanged
  <2> HIDE DEF gone
  <2>2. CASE sessions'[s] = gone
    BY <1>1, <2>1, <2>2 DEF Usable, Known, Forgets
  <2>3. CASE sessions'[s] = sessions[s]
    BY <2>1, <2>3 DEF CommandInv, Usable, Known, Forgets
  <2> QED
    BY <1>2, <2>2, <2>3
<1> QED
  BY <1>4, <1>5 DEF CommandInv

-----------------------------------------------------------------------------
(* The catalog *)

\* The command goes on, is made, or is deleted.
Advanced ==
    \/ /\ stored.exists /\ stored'.exists /\ stored'.life = stored.life
       /\ stored'.revision = stored.revision + 1 /\ stored'.change = stored.change + 1
    \/ /\ ~stored.exists /\ stored'.exists /\ stored'.life = stored.life + 1
       /\ stored'.revision = 1 /\ stored'.change = stored.change + 1
    \/ /\ ~stored'.exists /\ ~stored'.erased
       /\ stored'.life = stored.life /\ stored'.change = stored.change

\* What was known stays known, and is older than a command that has been written.
LEMMA KnownStays ==
    ASSUME CommandInv, Advanced, stored' \in Command, NEW read \in Reading, Known(read)
    PROVE  /\ Known(read)'
           /\ stored'.exists /\ read.revision # 0 => read.change # stored'.change
<1> SUFFICES ASSUME read.revision # 0
             PROVE  Known(read)' /\ (stored'.exists => read.change # stored'.change)
  BY DEF Known
<1>1. /\ {stored.life, stored.change, stored.revision} \subseteq Nat
      /\ {stored'.life, stored'.change, stored'.revision} \subseteq Nat
      /\ {read.life, read.change, read.revision} \subseteq Nat
      /\ stored.exists \in BOOLEAN /\ stored'.exists \in BOOLEAN
  BY DEF CommandInv, Types, Command, Reading
<1>2. /\ read.life <= stored.life /\ read.change <= stored.change
      /\ stored.exists /\ read.life = stored.life =>
            stored.change - read.change = stored.revision - read.revision
  BY DEF Known
<1>3. CASE ~stored'.exists
  BY <1>1, <1>2, <1>3 DEF Advanced, Known
<1>4. CASE stored'.exists /\ stored.exists
  BY <1>1, <1>2, <1>4 DEF Advanced, Known
<1>5. CASE stored'.exists /\ ~stored.exists
  BY <1>1, <1>2, <1>5 DEF Advanced, Known
<1> QED
  BY <1>1, <1>3, <1>4, <1>5

LEMMA AdvancedInv ==
    ASSUME CommandInv, Advanced, stored' \in Command, sessions' \in [Session -> Draft],
           \A t \in Session : Usable(sessions'[t]) /\ sessions'[t].read = sessions[t].read,
           setter' \in {setter, Idle}, prompt' \in {prompt, Idle},
           eraser' \in {eraser, "config"}, stored'.erased => stored'.exists /\ eraser' # "none",
           UNCHANGED <<purger, written>>
    PROVE  CommandInv'
<1>1. Unread \in Reading /\ Unread.revision = 0
  BY DEF Unread, Reading
<1>2. Types'
  BY <1>1 DEF CommandInv, Types, Idle
<1>3. StoredInv'
  BY DEF CommandInv, Types, StoredInv, Command, Advanced
<1>4. Known(setter.read)' /\ Known(prompt.read)'
  <2>1. \A read \in Reading : Known(read) => Known(read)'
    BY KnownStays
  <2>2. Known(Unread)
    BY <1>1 DEF Known
  <2>3. {setter.read, prompt.read} \subseteq Reading /\ Known(setter.read) /\ Known(prompt.read)
    BY DEF CommandInv, Types
  <2>4. setter'.read \in {setter.read, Unread} /\ prompt'.read \in {prompt.read, Unread}
    BY DEF Idle
  <2> QED
    BY <1>1, <2>1, <2>2, <2>3, <2>4 DEF Known
<1>5. ASSUME NEW t \in Session
      PROVE  (Usable(sessions[t]) /\ Known(sessions[t].read) /\ Forgets(sessions[t]))'
  <2> DEFINE read == sessions[t].read
  <2>1. read \in Reading /\ Known(read) /\ sessions'[t].read = read
    BY DraftFacts DEF Draft, CommandInv
  <2> HIDE DEF read
  <2>2. Known(sessions[t].read)'
    BY <2>1, KnownStays DEF Known
  <2>3. stored'.exists /\ read.revision # 0 => read.change # stored'.change
    BY <2>1, KnownStays
  <2>4. Forgets(sessions[t])'
    BY <2>1, <2>3 DEF Forgets
  <2>5. Usable(sessions[t])'
    BY DEF Usable
  <2> QED
    BY <2>2, <2>4, <2>5
<1> QED
  BY <1>2, <1>3, <1>4, <1>5 DEF CommandInv

\* Who has the current revision of this life has read the last change.
LEMMA CurrentFresh ==
    ASSUME CommandInv, NEW read \in Reading, Known(read), Current(read)
    PROVE  Fresh(read) /\ read.revision # 0 /\ read.life <= stored.life
  BY DEF CommandInv, Types, StoredInv, Command, Reading, Known, Current, Fresh

LEMMA EditedAdvances ==
    ASSUME CommandInv, stored.exists, NEW command \in Command, command.exists,
           command.life = stored.life, command.revision = stored.revision,
           command.change = stored.change, Edited(command)
    PROVE  /\ stored' \in Command /\ Advanced /\ stored'.exists
           /\ stored'.named = command.named /\ stored'.erased = command.erased
<1>1. /\ stored'.exists /\ stored'.life = stored.life /\ stored'.revision = stored.revision + 1
      /\ stored'.change = stored.change + 1 /\ stored'.named = command.named
      /\ stored'.erased = command.erased
  BY DEF Command, Edited
<1>2. stored' \in Command
  <2>1. command.revision + 1 \in Nat /\ command.change + 1 \in Nat
    BY DEF Command
  <2> DEFINE r == command.revision + 1
             c == command.change + 1
  <2>2. stored' = [command EXCEPT !.revision = r, !.change = c]
    BY DEF Edited
  <2> HIDE DEF r, c
  <2>3. r \in Nat /\ c \in Nat
    BY <2>1 DEF r, c
  <2> QED
    BY <2>2, <2>3 DEF Command
<1> QED
  BY <1>1, <1>2 DEF Advanced

\* What a session that saves does to the catalog.
LEMMA WriteDraftInv == ASSUME CommandInv, NEW s \in Session, WriteDraft(s) PROVE CommandInv'
<1> DEFINE d == sessions[s]
           e == [d EXCEPT !.save = "stored"]
<1>1. UNCHANGED <<setter, prompt, eraser, purger, written>>
  BY DEF WriteDraft
<1>2. d \in Draft /\ d.sent \in Seq(Text) /\ d.sentNamed \in BOOLEAN
  BY DraftFacts DEF Draft
<1>3. CASE UNCHANGED stored /\ Becomes(s, Unsaved(d))
  BY <1>1, <1>3, UnsavedFits, Kept
<1>4. e \in Draft /\ Usable(e) /\ e.read = d.read
  BY <1>2 DEF Draft, Usable, CommandInv
<1>5. ASSUME Becomes(s, e)
      PROVE  /\ sessions' \in [Session -> Draft]
             /\ \A t \in Session : Usable(sessions'[t]) /\ sessions'[t].read = sessions[t].read
  <2> HIDE DEF e
  <2> QED
    BY <1>4, <1>5 DEF Becomes, CommandInv, Types
<1>6. CASE ~stored.exists /\ Created(d.sent, d.sentNamed) /\ Becomes(s, e)
  <2>1. stored' \in Command /\ Advanced /\ ~stored'.erased
    BY <1>2, <1>6 DEF Created, Command, Advanced, CommandInv, Types
  <2> QED
    BY <1>1, <1>5, <1>6, <2>1, AdvancedInv
<1>7. CASE /\ Current(d.read) /\ Edited([stored EXCEPT !.texts = d.sent, !.named = d.sentNamed])
           /\ Becomes(s, e)
  <2> DEFINE command == [stored EXCEPT !.texts = d.sent, !.named = d.sentNamed]
  <2>1. /\ command \in Command /\ stored.exists /\ command.exists
        /\ command.life = stored.life /\ command.revision = stored.revision
        /\ command.change = stored.change /\ command.erased = stored.erased
    BY <1>2, <1>7 DEF CommandInv, Types, Command, Current
  <2> HIDE DEF command
  <2>2. stored' \in Command /\ Advanced /\ stored'.erased = stored.erased /\ stored'.exists
    BY <1>7, <2>1, EditedAdvances DEF command
  <2>3. stored.erased => eraser # "none"
    BY DEF CommandInv, StoredInv
  <2> QED
    BY <1>1, <1>5, <1>7, <2>2, <2>3, AdvancedInv
<1> QED
  BY <1>3, <1>6, <1>7 DEF WriteDraft

LEMMA SessionsStay ==
    ASSUME CommandInv, UNCHANGED sessions
    PROVE  /\ sessions' \in [Session -> Draft]
           /\ \A t \in Session : Usable(sessions'[t]) /\ sessions'[t].read = sessions[t].read
  BY DEF CommandInv, Types

\* The command stays as it is, and so do the threads.
LEMMA AsideInv ==
    ASSUME CommandInv, UNCHANGED <<stored, sessions, written>>,
           setter' \in {setter, Idle, [step |-> "read", read |-> Read]},
           prompt' \in {prompt, Idle, [step |-> "open", read |-> Read]},
           eraser' \in {"failed", "config", "copied", "files", "done"} \/ UNCHANGED eraser,
           purger' \in {"none", "clear", "files", "check", "done"}
    PROVE  CommandInv'
<1>1. Unread \in Reading /\ Known(Unread)
  BY DEF Unread, Reading, Known
<1>2. Types'
  BY <1>1, ReadKnown DEF CommandInv, Types, Idle
<1>3. StoredInv'
  BY DEF CommandInv, StoredInv
<1>4. \A read : Known(read) => Known(read)'
  BY DEF Known
<1>5. Known(setter.read)' /\ Known(prompt.read)'
  <2>1. setter'.read \in {setter.read, Unread, Read} /\ prompt'.read \in {prompt.read, Unread, Read}
    BY DEF Idle
  <2> QED
    BY <1>1, <1>4, <2>1, ReadKnown DEF CommandInv, Known
<1>6. \A t \in Session : (Usable(sessions[t]) /\ Known(sessions[t].read) /\ Forgets(sessions[t]))'
  BY DEF CommandInv, Usable, Known, Forgets
<1> QED
  BY <1>2, <1>3, <1>5, <1>6 DEF CommandInv

LEMMA SetCooldownInv == ASSUME CommandInv, SetCooldown PROVE CommandInv'
<1>1. CASE Current(setter.read) /\ Edited(stored)
  <2>1. stored \in Command /\ stored.exists
    BY <1>1 DEF CommandInv, Types, Current
  <2>2. stored' \in Command /\ Advanced /\ stored'.erased = stored.erased /\ stored'.exists
    BY <1>1, <2>1, EditedAdvances
  <2>3. stored.erased => eraser # "none"
    BY DEF CommandInv, StoredInv
  <2> QED
    BY <2>2, <2>3, SessionsStay, AdvancedInv DEF SetCooldown
<1>2. CASE UNCHANGED stored
  <2>1. purger' \in {"none", "clear", "files", "check", "done"}
    BY DEF SetCooldown, CommandInv, Types
  <2> QED
    BY <1>2, <2>1, AsideInv DEF SetCooldown
<1> QED
  BY <1>1, <1>2 DEF SetCooldown

LEMMA ConfirmDeleteInv == ASSUME CommandInv, ConfirmDelete PROVE CommandInv'
<1>1. CASE Current(prompt.read) /\ Deleted /\ prompt' = Idle
  <2>1. stored' \in Command /\ Advanced /\ ~stored'.erased
    BY <1>1, EmptySeq DEF CommandInv, Types, Command, Deleted, Nothing, Advanced
  <2> QED
    BY <1>1, <2>1, SessionsStay, AdvancedInv DEF ConfirmDelete
<1>2. CASE UNCHANGED <<stored, prompt>>
  <2>1. purger' \in {"none", "clear", "files", "check", "done"}
    BY DEF ConfirmDelete, CommandInv, Types
  <2> QED
    BY <1>2, <2>1, AsideInv DEF ConfirmDelete
<1> QED
  BY <1>1, <1>2 DEF ConfirmDelete

LEMMA EraseInCatalogInv == ASSUME CommandInv, EraseInCatalog PROVE CommandInv'
<1>1. CASE stored.exists /\ Redacted
  <2> DEFINE command == [stored EXCEPT !.named = FALSE, !.erased = TRUE]
  <2>1. /\ command \in Command /\ command.exists /\ command.life = stored.life
        /\ command.revision = stored.revision /\ command.change = stored.change
    BY <1>1 DEF CommandInv, Types, Command
  <2> HIDE DEF command
  <2>2. stored' \in Command /\ Advanced /\ stored'.exists
    BY <1>1, <2>1, EditedAdvances DEF Redacted, command
  <2> QED
    BY <2>2, SessionsStay, AdvancedInv DEF EraseInCatalog
<1>2. CASE UNCHANGED stored
  <2>1. purger' \in {"none", "clear", "files", "check", "done"}
    BY DEF EraseInCatalog, CommandInv, Types
  <2> QED
    BY <1>2, <2>1, AsideInv DEF EraseInCatalog
<1> QED
  BY <1>1, <1>2 DEF EraseInCatalog

\* The steps of the cooldown command, of the prompt, of the erasure after the catalog and of
\* the purge.
Beside ==
    \/ OpenSetter \/ OpenPrompt \/ ClosePrompt
    \/ EraseFails \/ CopyConfig \/ EraseInConfig \/ EraseInFiles
    \/ Inspect \/ ClearConfig \/ DeleteArtifacts \/ CheckPurge \/ PurgeFails

LEMMA BesideInv == ASSUME CommandInv, Beside PROVE CommandInv'
<1>1. purger \in {"none", "clear", "files", "check", "done"}
  BY DEF CommandInv, Types
<1>2. CASE OpenSetter \/ OpenPrompt \/ ClosePrompt
  BY <1>1, <1>2, AsideInv DEF OpenSetter, OpenPrompt, ClosePrompt
<1>3. CASE EraseFails \/ CopyConfig \/ EraseInConfig \/ EraseInFiles
  BY <1>1, <1>3, AsideInv DEF EraseFails, CopyConfig, EraseInConfig, EraseInFiles
<1>4. CASE Inspect \/ ClearConfig \/ DeleteArtifacts \/ CheckPurge \/ PurgeFails
  BY <1>4, AsideInv DEF Inspect, ClearConfig, DeleteArtifacts, CheckPurge, PurgeFails
<1> QED
  BY <1>2, <1>3, <1>4 DEF Beside

-----------------------------------------------------------------------------
(* The theorems *)

LEMMA CommandStepInv == CommandInv /\ [CommandNext]_commandVars => CommandInv'
<1> SUFFICES ASSUME CommandInv, [CommandNext]_commandVars PROVE CommandInv'
  OBVIOUS
<1>1. ASSUME NEW s \in Session, Open(s) \/ Opened(s) \/ Drafting(s) \/ Save(s) \/ WriteDraft(s)
      PROVE  CommandInv'
  BY <1>1, OpenInv, OpenedInv, DraftingInv, SaveInv, WriteDraftInv
<1>2. ASSUME NEW s \in Session, Saved(s) \/ Cancel(s) PROVE CommandInv'
  BY <1>2, FinishInv DEF Saved, Cancel, UndraftedUnchanged
<1>3. CASE Reload
  BY <1>3, ReloadInv
<1>4. CASE SetCooldown \/ ConfirmDelete \/ EraseInCatalog
  BY <1>4, SetCooldownInv, ConfirmDeleteInv, EraseInCatalogInv
<1>5. CASE Beside
  BY <1>5, BesideInv
<1>6. CASE UNCHANGED commandVars
  <2>1. purger' \in {"none", "clear", "files", "check", "done"}
    BY <1>6 DEF commandVars, CommandInv, Types
  <2> QED
    BY <1>6, <2>1, AsideInv DEF commandVars
<1> QED
  BY <1>1, <1>2, <1>3, <1>4, <1>5, <1>6 DEF CommandNext, Beside

LEMMA CommandInvHolds == CommandSpec => []CommandInv
  BY CommandInitInv, CommandStepInv, PTL DEF CommandSpec

\* Everything about a custom command keeps to the values the code gives it.
THEOREM CommandTypes == CommandSpec => []CommandTypeOK
<1>1. CommandInv => CommandTypeOK
  <2> SUFFICES ASSUME CommandInv PROVE CommandTypeOK
    OBVIOUS
  <2>1. stored \in Command /\ \A s \in Session : sessions[s] \in Draft
    BY DEF CommandInv, Types
  <2>2. stored.texts \in Seq(Text) /\ stored.revision \in Nat /\ stored.named \in BOOLEAN
    BY <2>1 DEF Command
  <2>3. ASSUME NEW s \in Session
        PROVE  /\ sessions[s].step \in {"none", "opening", "open", "finished"}
               /\ sessions[s].texts \in Seq(Text)
               /\ sessions[s].page \in Nat /\ sessions[s].selected \in Nat
    BY <2>1 DEF Draft
  <2> QED
    BY <2>2, <2>3 DEF CommandInv, Types, CommandTypeOK
<1> QED
  BY <1>1, CommandInvHolds, PTL

\* What others than a writer, a cooldown command, a prompt and the erasure do to the
\* catalog: nothing.
Outside ==
    UNCHANGED stored /\ (UNCHANGED setter \/ OpenSetter) /\ NobodyStores

LEMMA StepKinds ==
    ASSUME CommandInv, [CommandNext]_commandVars
    PROVE  \/ \E s \in Session : WriteDraft(s)
           \/ SetCooldown \/ ConfirmDelete \/ EraseInCatalog \/ Outside
<1>1. ASSUME NEW s \in Session, Drafting(s) PROVE Outside
  <2>1. NobodyStores
    BY <1>1, DraftingInv
  <2>2. UndraftedUnchanged
    BY <1>1 DEF Drafting, Message, AddByModal, EditByModal, DeleteByButton, AskReplacement,
                RemoveByWord, Select, MoveByModal, MoveByWord, TurnPage, AccessByModal
  <2> QED
    BY <2>1, <2>2 DEF Outside, UndraftedUnchanged
<1>2. ASSUME NEW s \in Session, Open(s) PROVE Outside
  <2> DEFINE d == [sessions[s] EXCEPT !.step = "opening"]
             e == [d EXCEPT !.read = Read, !.texts = stored.texts, !.named = stored.named]
  <2>1. Becomes(s, d) \/ Becomes(s, e)
    BY <1>2 DEF Open
  <2>2. d.save = sessions[s].save /\ e.save = sessions[s].save
    BY DraftFacts DEF Draft
  <2> HIDE DEF d, e
  <2> QED
    BY <1>2, <2>1, <2>2, CalmDraft DEF Open, Outside
<1>3. ASSUME NEW s \in Session, Opened(s) PROVE Outside
  <2> DEFINE d == [sessions[s] EXCEPT !.step = "open"]
  <2>1. Becomes(s, d) \/ Becomes(s, NoSession)
    BY <1>3 DEF Opened
  <2>2. d.save = sessions[s].save /\ NoSession.save = "none"
    BY DraftFacts DEF Draft, NoSession
  <2> HIDE DEF d
  <2> QED
    BY <1>3, <2>1, <2>2, CalmDraft DEF Opened, Outside
<1>4. ASSUME NEW s \in Session, Save(s) PROVE Outside
  <2> DEFINE d == sessions[s]
             e == [d EXCEPT !.save = "called", !.sent = d.texts, !.sentNamed = d.named]
  <2>1. Becomes(s, e) /\ e.save = "called"
    BY <1>4, DraftFacts DEF Save, Draft
  <2> HIDE DEF e
  <2> QED
    BY <1>4, <2>1, CalmDraft DEF Save, Outside, UndraftedUnchanged
<1>5. ASSUME NEW s \in Session, Saved(s) \/ Cancel(s) PROVE Outside
  <2>1. PICK status \in {"Saved", "Cancelled"} : Finish(s, status)
    BY <1>5 DEF Saved, Cancel
  <2> DEFINE d == sessions[s]
             new == [NoSession EXCEPT !.step = "finished", !.status = status]
             e == [new EXCEPT !.save = d.save, !.sent = d.sent, !.sentNamed = d.sentNamed,
                              !.read = d.read]
  <2>2. Becomes(s, Unsaved(d)) \/ Becomes(s, new) \/ Becomes(s, e)
    BY <2>1 DEF Finish
  <2>3. Unsaved(d).save = "none" /\ new.save = "none" /\ e.save = d.save
    BY DraftFacts DEF Unsaved, NoSession, Draft
  <2> HIDE DEF new, e
  <2> QED
    BY <1>5, <2>2, <2>3, CalmDraft DEF Saved, Cancel, Outside, UndraftedUnchanged
<1>6. CASE Reload
  <2>1. \A s \in Session :
          sessions'[s] \in {[NoSession EXCEPT !.step = "finished", !.status = "Reloaded"],
                            sessions[s]}
    BY <1>6 DEF Reload
  <2>2. [NoSession EXCEPT !.step = "finished", !.status = "Reloaded"].save = "none"
    BY DEF NoSession
  <2> QED
    BY <1>6, <2>1, <2>2 DEF Reload, Outside, NobodyStores, Stores, UndraftedUnchanged
<1>7. CASE Beside \/ UNCHANGED commandVars
  BY <1>7 DEF Outside, NobodyStores, Stores, Beside, OpenSetter, OpenPrompt, ClosePrompt,
              EraseFails, CopyConfig, EraseInConfig, EraseInFiles, Inspect, ClearConfig,
              DeleteArtifacts, CheckPurge, PurgeFails, commandVars
<1> QED
  BY <1>1, <1>2, <1>3, <1>4, <1>5, <1>6, <1>7 DEF CommandNext, Beside

\* A write that succeeds is one of a draft that is new or holds the current revision.
LEMMA WriterCurrent ==
    ASSUME CommandInv, NEW s \in Session, WriteDraft(s), NEW t \in Session
    PROVE  /\ Stores(t) => t = s
           /\ Stores(s) => IF sessions[s].read.revision = 0 THEN ~stored.exists
                           ELSE Current(sessions[s].read)
           /\ ~Stores(s) => UNCHANGED stored
           /\ UNCHANGED setter
<1> DEFINE d == sessions[s]
           e == [d EXCEPT !.save = "stored"]
           refused == IF d.read.revision = 0 THEN stored.exists ELSE ~Current(d.read)
<1>1. IF refused THEN UNCHANGED stored /\ Becomes(s, Unsaved(d)) ELSE Becomes(s, e)
  BY DEF WriteDraft
<1>2. d.save = "called" /\ UNCHANGED setter
  BY DEF WriteDraft
<1>3. e.save = "stored" /\ Unsaved(d).save = "none"
  BY DraftFacts DEF Draft, Unsaved
<1> HIDE DEF e, refused
<1>4. \A u \in Session : u # s => sessions'[u] = sessions[u]
  BY <1>1 DEF Becomes, CommandInv, Types
<1>5. sessions'[s] = IF refused THEN Unsaved(d) ELSE e
  BY <1>1 DEF Becomes, CommandInv, Types
<1>6. (Stores(s) <=> ~refused) /\ (t # s => ~Stores(t))
  BY <1>2, <1>3, <1>4, <1>5 DEF Stores
<1> QED
  BY <1>1, <1>2, <1>6 DEF refused

\* Who writes has read: the drafts, the cooldown command and the prompt.
Overtaken ==
    /\ \A s \in Session : Stores(s) =>
          IF sessions[s].read.revision = 0 THEN ~stored.exists ELSE Fresh(sessions[s].read)
    /\ setter.step = "read" /\ setter' = Idle /\ stored' # stored => Fresh(setter.read)
    /\ prompt.step = "open" /\ stored.exists /\ ~stored'.exists => Fresh(prompt.read)

LEMMA StepRefuses == CommandInv /\ [CommandNext]_commandVars => Overtaken
<1> SUFFICES ASSUME CommandInv, [CommandNext]_commandVars PROVE Overtaken
  OBVIOUS
<1>0. /\ setter.read \in Reading /\ prompt.read \in Reading
      /\ Known(setter.read) /\ Known(prompt.read)
  BY DEF CommandInv, Types
<1>1. ASSUME NEW s \in Session, WriteDraft(s) PROVE Overtaken
  <2> DEFINE read == sessions[s].read
  <2>1. read \in Reading /\ Known(read)
    BY DraftFacts DEF Draft, CommandInv
  <2>2. Stores(s) => IF read.revision = 0 THEN ~stored.exists ELSE Fresh(read)
    BY <1>1, <2>1, WriterCurrent, CurrentFresh
  <2>3. \A t \in Session : Stores(t) => t = s
    BY <1>1, WriterCurrent
  <2>4. setter' = setter
    BY <1>1, WriterCurrent
  <2>5. stored.exists => stored'.exists
    BY <1>1 DEF WriteDraft, Created, Edited, CommandInv, Types, Command
  <2> QED
    BY <2>2, <2>3, <2>4, <2>5 DEF Overtaken, Idle
<1>2. CASE SetCooldown
  <2>1. NobodyStores /\ (stored.exists => stored'.exists)
    BY <1>2 DEF SetCooldown, NobodyStores, Stores, Edited, CommandInv, Types, Command
  <2>2. stored' # stored => Fresh(setter.read)
    BY <1>0, <1>2, CurrentFresh DEF SetCooldown
  <2> QED
    BY <2>1, <2>2 DEF Overtaken, NobodyStores
<1>3. CASE ConfirmDelete
  <2>1. NobodyStores /\ setter' = setter
    BY <1>3 DEF ConfirmDelete, NobodyStores, Stores
  <2>2. stored' # stored => Fresh(prompt.read)
    BY <1>0, <1>3, CurrentFresh DEF ConfirmDelete
  <2> QED
    BY <2>1, <2>2 DEF Overtaken, NobodyStores, Idle
<1>4. CASE EraseInCatalog
  <2>1. NobodyStores /\ setter' = setter
    BY <1>4 DEF EraseInCatalog, NobodyStores, Stores
  <2>2. stored.exists => stored'.exists
    BY <1>4 DEF EraseInCatalog, Redacted, Edited, CommandInv, Types, Command
  <2> QED
    BY <2>1, <2>2 DEF Overtaken, NobodyStores, Idle
<1>5. CASE Outside
  BY <1>5 DEF Outside, Overtaken, NobodyStores
<1> QED
  BY <1>1, <1>2, <1>3, <1>4, <1>5, StepKinds

\* Nobody overwrites or deletes what he has not read, and no button works on a response
\* that is gone (expected_revision, set_page).
THEOREM StaleOnesRefused == CommandSpec => StaleRefused
<1>1. CommandInv => SelectionExists
  BY DEF CommandInv, SelectionExists, Usable
<1>2. CommandSpec => [][Overtaken]_commandVars
  BY CommandInvHolds, StepRefuses, PTL DEF CommandSpec
<1>3. CommandSpec => OvertakenRefused
  BY <1>2 DEF OvertakenRefused, Overtaken
<1> QED
  BY <1>1, <1>3, CommandInvHolds, PTL DEF StaleRefused

\* Who brings an account back.
Restores(s) == Stores(s) /\ sessions[s].read.life < stored.life

LEMMA StepRestores ==
    ASSUME CommandInv, [CommandNext]_commandVars, stored.erased, ~stored.named, stored'.named
    PROVE  \E s \in Session : Restores(s)
<1>0. stored \in Command /\ stored.exists /\ stored' # stored
  BY DEF CommandInv, Types, StoredInv
<1>1. ASSUME NEW s \in Session, WriteDraft(s) PROVE Restores(s)
  <2> DEFINE d == sessions[s]
  <2>1. d \in Draft /\ d.read \in Reading /\ Known(d.read) /\ Forgets(d)
    BY DraftFacts DEF Draft, CommandInv
  <2>2. Stores(s) /\ Current(d.read) /\ d.read.revision # 0
    BY <1>0, <1>1, WriterCurrent
  <2>3. Fresh(d.read) /\ d.read.life <= stored.life
    BY <2>1, <2>2, CurrentFresh
  <2>4. d.sentNamed
    BY <1>0, <1>1, <2>1, <2>2 DEF WriteDraft, Edited, Command, Draft
  <2>5. d.read.life # stored.life
    BY <2>1, <2>2, <2>3, <2>4 DEF Fresh, Forgets
  <2>6. d.read.life \in Nat /\ stored.life \in Nat
    BY <1>0, <2>1 DEF Reading, Command
  <2> QED
    BY <2>2, <2>3, <2>5, <2>6 DEF Restores
<1>2. CASE SetCooldown \/ ConfirmDelete
  BY <1>0, <1>2 DEF SetCooldown, ConfirmDelete, Edited, Deleted, Nothing, Command
<1>3. CASE EraseInCatalog
  BY <1>0, <1>3 DEF EraseInCatalog, Redacted, Edited, Command
<1>4. CASE Outside
  BY <1>0, <1>4 DEF Outside
<1> QED
  BY <1>1, <1>2, <1>3, <1>4, StepKinds

\* An account that was erased from a command comes back with no draft of that command, nor
\* with a cooldown (_redact_user_sync); only with a draft of one that was deleted since.
THEOREM ErasedForGood == CommandSpec => ErasedNotRestored
<1>1. CommandInv /\ [CommandNext]_commandVars =>
        (stored.erased /\ ~stored.named /\ stored'.named =>
           \E s \in Session : Stores(s) /\ sessions[s].read.life < stored.life)
  BY StepRestores DEF Restores
<1> QED
  BY <1>1, CommandInvHolds, PTL DEF CommandSpec, ErasedNotRestored
=============================================================================
