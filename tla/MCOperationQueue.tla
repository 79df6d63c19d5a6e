-------------------------- MODULE MCOperationQueue --------------------------
(* Small instances of OperationQueue for TLC: which rows the case has. *)
EXTENDS OperationQueue, TLC

CONSTANTS k, b, p, g, u, c

\* One kick whose message was dealt with, contended by several executors.
KickRows == {k}
KickKinds == k :> "kick"

\* A ban behind the pipeline row of its message.
BanRows == {b, p}
BanKinds == b :> "ban" @@ p :> "process"

\* Rows without a punishment: a purge, the final projection and the cleanup.
FinalRows == {g, u, c}
FinalKinds == g :> "purge" @@ u :> "update" @@ c :> "cleanup"

\* The tasks are interchangeable.
Tasks == Permutations(Task)
=============================================================================
