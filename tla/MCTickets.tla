------------------------------ MODULE MCTickets ------------------------------
(* Instances of Tickets: an author "a", and the reviewers "p" and "q". *)
EXTENDS Tickets

Automatic == {[mode |-> "automatic", direct |-> NoUser]}
Direct == {[mode |-> "direct_automatic", direct |-> "p"]}
Waiting == {[mode |-> "direct_wait", direct |-> "p"]}
Unrouted == {[mode |-> "none", direct |-> NoUser]}
Any == Automatic \cup Direct \cup Waiting \cup Unrouted

\* Nothing happens but buttons, deadlines and the passing of time.
Quiet == [faults |-> 0, crashes |-> 0, deletions |-> 0, erasures |-> 0, changes |-> 0,
          overlap |-> FALSE, ambiguous |-> FALSE]
OnlyQuiet == {Quiet}

Failing    == [Quiet EXCEPT !.faults = 1, !.crashes = 1]
Uncertain  == [Quiet EXCEPT !.faults = 1, !.deletions = 1, !.ambiguous = TRUE]
Moderated  == [Quiet EXCEPT !.deletions = 2]
Erased     == [Quiet EXCEPT !.erasures = 2, !.changes = 1]

\* What the safety of a ticket is checked under, and its progress.
Mixed == {Failing, Uncertain, Moderated, Erased}
Slow == {Failing, [Quiet EXCEPT !.faults = 1, !.deletions = 1]}
=============================================================================
