------------------------------ MODULE LiveState ------------------------------
(***************************************************************************)
(* The two backends of JoinWatch's live rows for one guild and the move    *)
(* between them (honeypot/joinwatch_state.py over the live-row functions   *)
(* of honeypot/detection_cases.py).                                        *)
(*                                                                         *)
(* A marker in SQLite says which backend is live.  Every reader and writer *)
(* asks for it under the source lock; a load moves Config's rows to        *)
(* SQLite, an export or a restore moves rows back, and a departure from    *)
(* the guild empties both.  Those hold the lock over several awaited       *)
(* writes, and the process may end between any two of them.                *)
(***************************************************************************)
CONSTANTS
  Kinds,       \* _LIVE_KINDS: verified, pending_role, pending_assignment
  Members,     \* the accounts with rows
  Payloads,    \* row contents
  Missing,     \* no row
  NoCopy       \* no backup

ASSUME LiveAssumption == Missing \notin Payloads /\ NoCopy \notin [Kinds -> [Members -> Payloads \cup {Missing}]]

VARIABLES
  marker,   \* joinwatch_cutover holds 'sqlite' for the guild
  sqlite,   \* joinwatch_live_state
  config,   \* the three Config maps
  backup,   \* joinwatch_live_backup
  job       \* the task that holds the source lock over several writes

liveVars == <<marker, sqlite, config, backup, job>>

Table == [Kinds -> [Members -> Payloads \cup {Missing}]]
Nothing == [k \in Kinds |-> [m \in Members |-> Missing]]

Idle == [at |-> "idle", todo |-> {}, maps |-> Nothing]
Job == [at : {"idle", "wipe", "export", "restore", "forget"}, todo : SUBSET Kinds, maps : Table]
Holding(at, maps) == [at |-> at, todo |-> Kinds, maps |-> maps]
Free == job.at = "idle"

LiveInit ==
  /\ marker = FALSE /\ sqlite = Nothing /\ config = Nothing
  /\ backup = NoCopy /\ job = Idle

\* What a reader sees.
Live == IF marker THEN sqlite ELSE config

-----------------------------------------------------------------------------
(* One row *)

\* write_row and delete_row change the live backend under the lock.
WriteRow(k, m, p) ==
  /\ Free
  /\ IF marker THEN sqlite' = [sqlite EXCEPT ![k][m] = p] /\ UNCHANGED config
               ELSE config' = [config EXCEPT ![k][m] = p] /\ UNCHANGED sqlite
  /\ UNCHANGED <<marker, backup, job>>

DeleteRow(k, m) ==
  /\ Free
  /\ IF marker THEN sqlite' = [sqlite EXCEPT ![k][m] = Missing] /\ UNCHANGED config
               ELSE config' = [config EXCEPT ![k][m] = Missing] /\ UNCHANGED sqlite
  /\ UNCHANGED <<marker, backup, job>>

\* delete_config_member and delete_sqlite_member erase a member's copy in a
\* backend whether or not it is live, one kind after the other; a crash may
\* leave the rest.
Without(table, some, m) == [k \in Kinds |-> IF k \in some THEN [table[k] EXCEPT ![m] = Missing] ELSE table[k]]

EraseConfig(some, m) ==
  /\ Free
  /\ config' = Without(config, some, m)
  /\ UNCHANGED <<marker, sqlite, backup, job>>

EraseSqlite(some, m) ==
  /\ Free
  /\ sqlite' = Without(sqlite, some, m)
  /\ UNCHANGED <<marker, config, backup, job>>

-----------------------------------------------------------------------------
(* The move to SQLite, on every load of the cog *)

\* A guild that is marked is not copied again: what an earlier load could not
\* clear is cleared now.
ReloadMarked ==
  /\ Free /\ marker
  /\ job' = Holding("wipe", Nothing)
  /\ UNCHANGED <<marker, sqlite, config, backup>>

\* An empty Config is never copied over SQLite.
LoadEmpty ==
  /\ Free /\ ~marker /\ config = Nothing
  /\ sqlite' = Nothing
  /\ UNCHANGED <<marker, config, backup, job>>

\* replace_from_config: rows, the one backup and the marker in one transaction.
Copy ==
  /\ Free /\ ~marker /\ config # Nothing
  /\ sqlite' = config /\ marker' = TRUE
  /\ backup' = IF backup = NoCopy THEN config ELSE backup
  /\ job' = Holding("wipe", Nothing)
  /\ UNCHANGED config

Emptied(table, k) == [table EXCEPT ![k] = Nothing[k]]
Later(k) == [at |-> job.at, todo |-> job.todo \ {k}, maps |-> job.maps]

Wipe(k) ==
  /\ job.at = "wipe" /\ k \in job.todo
  /\ config' = Emptied(config, k)
  /\ job' = IF job.todo = {k} THEN Idle ELSE Later(k)
  /\ UNCHANGED <<marker, sqlite, backup>>

-----------------------------------------------------------------------------
(* The way back and the departure from the guild *)

StartExport ==
  /\ Free /\ marker
  /\ job' = Holding("export", sqlite)
  /\ UNCHANGED <<marker, sqlite, config, backup>>

StartRestore ==
  /\ Free /\ marker /\ backup # NoCopy
  /\ job' = Holding("restore", backup)
  /\ UNCHANGED <<marker, sqlite, config, backup>>

\* _release_to_config writes Config first ...
WriteBack(k) ==
  /\ job.at \in {"export", "restore"} /\ k \in job.todo
  /\ config' = [config EXCEPT ![k] = job.maps[k]]
  /\ job' = Later(k)
  /\ UNCHANGED <<marker, sqlite, backup>>

ClearFirst ==
  /\ job.at \in {"export", "restore"} /\ job.todo = Kinds
  /\ sqlite' = Nothing /\ marker' = FALSE
  /\ UNCHANGED <<config, backup, job>>

\* ... and drops the SQLite rows with the marker last.
ClearCutover ==
  /\ job.at \in {"export", "restore"} /\ job.todo = {}
  /\ sqlite' = Nothing /\ marker' = FALSE /\ job' = Idle
  /\ UNCHANGED <<config, backup>>

\* delete_guild_data.
StartForget ==
  /\ Free
  /\ job' = Holding("forget", Nothing)
  /\ UNCHANGED <<marker, sqlite, config, backup>>

ForgetKind(k) ==
  /\ job.at = "forget" /\ k \in job.todo
  /\ config' = Emptied(config, k)
  /\ job' = Later(k)
  /\ UNCHANGED <<marker, sqlite, backup>>

ForgetGuild ==
  /\ job.at = "forget" /\ job.todo = {}
  /\ sqlite' = Nothing /\ marker' = FALSE /\ backup' = NoCopy /\ job' = Idle
  /\ UNCHANGED config

\* The backup expires on a load, without the source lock.
ExpireBackup ==
  /\ backup # NoCopy /\ backup' = NoCopy
  /\ UNCHANGED <<marker, sqlite, config, job>>

\* A Config write that raises or the end of the process drops the lock where it is.
Abandon ==
  /\ ~Free /\ job' = Idle
  /\ UNCHANGED <<marker, sqlite, config, backup>>

LiveNext ==
  \/ \E k \in Kinds, m \in Members :
       DeleteRow(k, m) \/ \E p \in Payloads : WriteRow(k, m, p)
  \/ \E some \in SUBSET Kinds, m \in Members : EraseConfig(some, m) \/ EraseSqlite(some, m)
  \/ ReloadMarked \/ LoadEmpty \/ Copy
  \/ \E k \in Kinds : Wipe(k) \/ WriteBack(k) \/ ForgetKind(k)
  \/ StartExport \/ StartRestore \/ ClearCutover
  \/ StartForget \/ ForgetGuild \/ ExpireBackup \/ Abandon

LiveSpec == LiveInit /\ [][LiveNext]_liveVars

-----------------------------------------------------------------------------
LiveTypeOK ==
  /\ marker \in BOOLEAN
  /\ sqlite \in Table /\ config \in Table
  /\ backup \in Table \cup {NoCopy}
  /\ job \in Job

\* A task that moves rows back has written the kinds it no longer lists, and
\* what it moves is what the lock has kept still (_release_to_config).
MovedBack ==
  /\ job.at \in {"export", "restore"} => marker /\ \A k \in Kinds \ job.todo : config[k] = job.maps[k]
  /\ job.at = "export" => job.maps = sqlite
  /\ job.at = "restore" => backup \in {NoCopy, job.maps}
  /\ job.at = "forget" => \A k \in Kinds \ job.todo : config[k] = Nothing[k]

\* The copy a restore reads stays its copy although the backup may expire.
Saved == IF job.at = "restore" THEN job.maps ELSE backup

\* The rows JoinWatch sees are those of one table that no move, crash or
\* failed clear between Config and SQLite loses, repeats or brings back
\* (cutover_live_state, export_live_state, restore_live_backup).
Promise == INSTANCE LiveRows WITH live <- Live, saved <- Saved
MoveInvisible == Promise!Spec
=============================================================================
