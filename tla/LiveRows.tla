------------------------------ MODULE LiveRows ------------------------------
(***************************************************************************)
(* What the store of JoinWatch's live rows promises, whatever backend      *)
(* holds them: there is one table of rows, a row changes only when         *)
(* somebody writes or discards it, and the only other way the table may    *)
(* change is back to the one copy that was saved of it.  In particular     *)
(* moving the rows between Config and SQLite is invisible.                 *)
(***************************************************************************)
CONSTANTS Kinds, Members, Payloads, Missing, NoCopy

VARIABLES live, saved

Table == [Kinds -> [Members -> Payloads \cup {Missing}]]
Nothing == [k \in Kinds |-> [m \in Members |-> Missing]]

Init == live = Nothing /\ saved = NoCopy

Put == \E k \in Kinds, m \in Members, p \in Payloads :
         live' = [live EXCEPT ![k][m] = p] /\ saved' = saved

\* Some rows go; the copy may go with them.
Discard ==
  /\ live' \in Table
  /\ \A k \in Kinds, m \in Members : live'[k][m] \in {live[k][m], Missing}
  /\ saved' \in {saved, NoCopy}

\* The copy is taken once, of the whole table.
Save == saved = NoCopy /\ saved' = live /\ live' = live

GoBack == saved # NoCopy /\ live' = saved /\ saved' \in {saved, NoCopy}

Next == Put \/ Discard \/ Save \/ GoBack

Spec == Init /\ [][Next]_<<live, saved>>
=============================================================================
