----------------------------- MODULE MCHoneypot -----------------------------
(* Small instances of six parts of the Honeypot cog.  They share no state    *)
(* that one of the modules does not hold itself, so a behaviour moves one of  *)
(* them, the focus, and the states of the run are the sum of theirs.          *)
EXTENDS MessagePipeline, CasePublication, JoinWatch, LiveState, ManualPunishment, TLC

VARIABLE focus

-----------------------------------------------------------------------------
(* The bounds: each vector lets one or two kinds of trouble happen. *)

Messages == {1, 2}
Sizes == [m \in Messages |-> 1]
Risks(f, x, k, e) == [faults |-> f, crashes |-> x, closings |-> k, deletions |-> e]
Accidents == {Risks(1,0,0,0), Risks(0,1,0,0), Risks(0,0,1,1)}

Luck(g, l, o, r, x) == [changes |-> g, losses |-> l, outages |-> o, refusals |-> r, crashes |-> x]
Losses == {Luck(1,1,1,0,0), Luck(0,0,1,1,0), Luck(1,0,0,0,1)}

Explored == {[delay |-> FALSE, captcha |-> TRUE, action |-> "kick"],
             [delay |-> FALSE, captcha |-> FALSE, action |-> "kick"],
             [delay |-> TRUE, captcha |-> TRUE, action |-> "ban"]}
Visits(v, e, m, f, x) == "visits" :> v @@ "enrolments" :> e @@ "meddlings" :> m @@ "faults" :> f
                         @@ "crashes" :> x @@ "toggles" :> 0
Visited == {Visits(2,0,0,0,1), Visits(2,0,0,1,0), Visits(1,1,0,0,0), Visits(1,0,1,0,0),
          Visits(4,0,0,1,0)}
\* A member who comes back again and again is followed under a ban.
Paired == /\ left["visits"] = 4 => policy.action = "ban"
          /\ policy.action = "ban" => left["visits"] = 4 \/ left["crashes"] = 1
          /\ ~policy.captcha => left["faults"] = 0

Meddle(e, f, x, g, m, k, w, l) ==
  "edits" :> e @@ "faults" :> f @@ "crashes" :> x @@ "changes" :> g @@ "commands" :> m
  @@ "cases" :> k @@ "watches" :> w @@ "lags" :> l
Meddlings == {Meddle(1,1,0,1,0,0,0,0), Meddle(2,0,0,0,0,1,0,0), Meddle(1,0,1,0,0,1,0,0),
              Meddle(1,0,0,0,0,0,1,0), Meddle(0,0,0,0,2,0,0,0), Meddle(1,0,0,0,0,0,0,1)}

Mails == {1, 2, 3}
Fortune(g, f, o, x) == "changes" :> g @@ "faults" :> f @@ "ages" :> o @@ "crashes" :> x
Fortunes == {Fortune(3,0,0,0), Fortune(1,1,0,1), Fortune(1,0,1,0)}

-----------------------------------------------------------------------------

OneOf(set) == CHOOSE x \in set : TRUE
Calm == <<Visits(2,0,0,0,1), OneOf(Policies)>>

Init ==
  /\ focus \in {"evidence", "posts", "joins", "live", "manual", "backlog"}
  /\ EvidenceInit /\ (focus # "evidence" => risks = OneOf(EvidenceLimits))
  /\ PostInit /\ (focus # "posts" => luck = OneOf(PostLimits))
  /\ WatchInit /\ Paired /\ (focus # "joins" => <<left, policy>> = Calm)
  /\ LiveInit
  /\ ManualInit /\ (focus # "manual" => bound = OneOf(ManualLimits) /\ offers[OneOf(Role)] # NoOffer)
  /\ BacklogInit
     /\ (focus # "backlog" => fortune = OneOf(BacklogLimits) /\ unreachable = {})

allVars == <<focus, evidenceVars, postVars, watchVars, liveVars, manualVars, backlogVars>>

Next ==
  \/ /\ focus = "evidence" /\ EvidenceNext
     /\ UNCHANGED <<focus, postVars, watchVars, liveVars, manualVars, backlogVars>>
  \/ /\ focus = "posts" /\ PostNext
     /\ UNCHANGED <<focus, evidenceVars, watchVars, liveVars, manualVars, backlogVars>>
  \/ /\ focus = "joins" /\ WatchNext
     /\ UNCHANGED <<focus, evidenceVars, postVars, liveVars, manualVars, backlogVars>>
  \/ /\ focus = "live" /\ LiveNext
     /\ UNCHANGED <<focus, evidenceVars, postVars, watchVars, manualVars, backlogVars>>
  \/ /\ focus = "manual" /\ ManualNext
     /\ UNCHANGED <<focus, evidenceVars, postVars, watchVars, liveVars, backlogVars>>
  \/ /\ focus = "backlog" /\ BacklogNext
     /\ UNCHANGED <<focus, evidenceVars, postVars, watchVars, liveVars, manualVars>>

\* What has begun goes on, the reconciliation comes again and time passes.
Spec == /\ Init /\ [][Next]_allVars
        /\ WF_postVars(focus = "posts" /\ Publishing)
        /\ WF_postVars(focus = "posts" /\ Removing)
        /\ WF_postVars(focus = "posts" /\ ClaimAges)
        /\ WF_backlogVars(focus = "backlog" /\ Draining)
        /\ \A m \in Mail : WF_backlogVars(focus = "backlog" /\ ComesDue(m))

-----------------------------------------------------------------------------
(* The properties that speak of several parts; the other ones of the cfg are the parts' own. *)

\* A part is examined while it is the one that moves.
Of(part, formula) == focus = part => formula

\* Every part keeps its types.
TypeOK ==
  /\ Of("evidence", EvidenceTypeOK) /\ Of("posts", PostTypeOK) /\ Of("joins", WatchTypeOK)
  /\ Of("live", LiveTypeOK) /\ Of("manual", ManualTypeOK)
  /\ Of("backlog", BacklogTypeOK)

\* The deletion of a case comes to an end, whatever Discord answers, and the messages
\* that wait for their content are replayed, though others fail for ever.
WorkEnds == DeletionEnds /\ BacklogDrains
=============================================================================
