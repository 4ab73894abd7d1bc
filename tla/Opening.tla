------------------------------- MODULE Opening -------------------------------
(***************************************************************************)
(* Opening the database (storage.rs, SQLiteWriter::open, SQLiteReader::open; *)
(* lsp.rs, ensure_compatible_database) by several processes that may die, and *)
(* whose calls may fail anywhere.                                           *)
(*                                                                         *)
(* SQLite and the file system are external: the file has a name, that can  *)
(* be removed while others have the file open; a connection to a name that *)
(* is not there creates an empty file; a transaction is committed or not;  *)
(* one writer at a time, the others give up at their busy timeout.         *)
(***************************************************************************)
EXTENDS Naturals, Sequences

CONSTANTS
  Processes,
  VERSION,
  OldVersions,  \* versions of databases that older programs left
  MaxFiles      \* bound on the files that are created under the name

ASSUME OpeningAssumption ==
  /\ VERSION \in Nat /\ OldVersions \subseteq Nat
  /\ MaxFiles \in Nat \ {0}

VARIABLES
  name,         \* the file of the name, or NoFile
  db,           \* the files, with their committed tables
  lock,         \* file -> the process whose transaction writes, if there is one
  proc,         \* process -> where it is
  interrupted   \* history: the files whose process died, failed or was overtaken by a
                \* removal while it was to initialise them

vars == <<name, db, lock, proc, interrupted>>

NoFile == 0
Empty == [tables |-> FALSE, versions |-> <<>>, indexes |-> FALSE]
Database(version) == [tables |-> TRUE, versions |-> <<version>>, indexes |-> TRUE]

Idle == [at |-> "idle", kind |-> "none", new |-> FALSE, file |-> NoFile, again |-> FALSE]

Kinds == {"writer", "reader", "server"}

Init ==
  /\ db \in {<<>>} \cup {<<Database(v)>> : v \in OldVersions \cup {VERSION}}
  /\ name = Len(db)
  /\ lock = [f \in 1..MaxFiles |-> {}]
  /\ proc = [p \in Processes |-> Idle]
  /\ interrupted = {}

Goto(p, at) == proc' = [proc EXCEPT ![p].at = at]

File(p) == proc[p].file

(* The lock is free, or would be: a process that cannot have it gives up. *)
Busy(p) == lock[File(p)] \ {p} # {}

Fail(p) == Goto(p, "failed") /\ UNCHANGED <<name, db, lock, interrupted>>

(* Between the creation of a file and the commit of its tables. *)
Initialising(p) == proc[p].new /\ proc[p].at \in {"pragmas", "create", "commit"}

Interrupt(p) == interrupted' = interrupted \cup (IF Initialising(p) THEN {File(p)} ELSE {})

-----------------------------------------------------------------------------
Open(p, kind) ==
  /\ proc[p].at = "idle"
  /\ proc' = [proc EXCEPT ![p] = [Idle EXCEPT !.at = "exists", !.kind = kind]]
  /\ UNCHANGED <<name, db, lock, interrupted>>

(* Mutated: a reader does not look whether the database exists. *)
MissesDatabaseNever(p) == FALSE

MissesDatabase(p) == proc[p].kind = "reader" /\ name = NoFile

(* path.exists() *)
LookForFile(p) ==
  /\ proc[p].at = "exists"
  /\ IF MissesDatabase(p) THEN Fail(p)
     ELSE /\ proc' = [proc EXCEPT ![p].at = "connect", ![p].new = (name = NoFile)]
          /\ UNCHANGED <<name, db, lock, interrupted>>

(* Connection::open *)
Connect(p) ==
  /\ proc[p].at = "connect"
  /\ IF name # NoFile
     THEN /\ proc' = [proc EXCEPT ![p].at = "pragmas", ![p].file = name]
          /\ UNCHANGED <<name, db, interrupted>>
     ELSE /\ Len(db) < MaxFiles
          /\ db' = Append(db, Empty)
          /\ name' = Len(db')
          /\ proc' = [proc EXCEPT ![p].at = "pragmas", ![p].file = Len(db')]
          /\ interrupted' = interrupted \cup (IF proc[p].new THEN {} ELSE {Len(db')})
  /\ UNCHANGED lock

(* set_pragmas_and_functions: once the file is in WAL mode, no lock is      *)
(* needed for it to stay so.                                                *)
SetPragmas(p) ==
  /\ proc[p].at = "pragmas"
  /\ Goto(p, IF proc[p].new /\ proc[p].kind # "reader" THEN "create" ELSE "check")
  /\ UNCHANGED <<name, db, lock, interrupted>>

(* Mutated: CREATE TABLE IF NOT EXISTS *)
TablesRefusedNever(p) == FALSE

TablesRefused(p) == db[File(p)].tables

(* init: the transaction has the lock from its first statement on. *)
CreateTables(p) ==
  /\ proc[p].at = "create" /\ ~Busy(p)
  /\ IF TablesRefused(p) THEN Fail(p)
     ELSE /\ lock' = [lock EXCEPT ![File(p)] = {p}]
          /\ Goto(p, "commit")
          /\ UNCHANGED <<name, db, interrupted>>

(* The version is inserted, and the transaction committed. *)
CommitTables(p) ==
  /\ proc[p].at = "commit"
  /\ db' = [db EXCEPT ![File(p)] =
              [tables |-> TRUE, versions |-> Append(db[File(p)].versions, VERSION),
               indexes |-> db[File(p)].indexes]]
  /\ lock' = [lock EXCEPT ![File(p)] = {}]
  /\ Goto(p, "indexes")
  /\ UNCHANGED <<name, interrupted>>

(* Mutated: older versions are taken for compatible. *)
IncompatibleIfNewer(version) == version > VERSION

Incompatible(version) == version # VERSION

(* ensure_compatible_database: IncorrectVersion, and not for the second time *)
Recreates(p) ==
  /\ proc[p].kind = "server" /\ ~proc[p].again
  /\ db[File(p)].versions # <<>>

(* check_version: without the table or a row, it fails otherwise.           *)
CheckVersion(p) ==
  /\ proc[p].at = "check"
  /\ IF db[File(p)].versions # <<>> /\ ~Incompatible(Head(db[File(p)].versions))
     THEN Goto(p, "indexes")
     ELSE Goto(p, IF Recreates(p) THEN "remove" ELSE "failed")
  /\ UNCHANGED <<name, db, lock, interrupted>>

(* init_indexes: CREATE INDEX IF NOT EXISTS *)
InitIndexes(p) ==
  /\ proc[p].at = "indexes"
  /\ db[File(p)].indexes \/ ~Busy(p)
  /\ db' = [db EXCEPT ![File(p)].indexes = TRUE]
  /\ Goto(p, "open")
  /\ UNCHANGED <<name, lock, interrupted>>

DatabaseBusy(p) ==
  /\ proc[p].at \in {"pragmas", "create", "indexes"} /\ Busy(p)
  /\ Fail(p)

(* remove_file of the name, whichever file that is now; it is an error if   *)
(* there is none.  Then the server opens the database again.                *)
Remove(p) ==
  /\ proc[p].at = "remove"
  /\ IF name = NoFile THEN Fail(p)
     ELSE /\ name' = NoFile
          /\ proc' = [proc EXCEPT ![p].at = "exists", ![p].again = TRUE]
          /\ UNCHANGED <<db, lock, interrupted>>

(* Any other error, a full disk or failing I/O, is returned through `?`; the *)
(* connection is dropped, and its transaction rolled back.                  *)
Breaks(p) ==
  /\ proc[p].at \in {"connect", "pragmas", "create", "commit", "check", "indexes", "remove"}
  /\ Goto(p, "failed")
  /\ lock' = [f \in DOMAIN lock |-> lock[f] \ {p}]
  /\ Interrupt(p)
  /\ UNCHANGED <<name, db>>

-----------------------------------------------------------------------------
Close(p) ==
  /\ proc[p].at \in {"open", "failed"}
  /\ proc' = [proc EXCEPT ![p] = Idle]
  /\ UNCHANGED <<name, db, lock, interrupted>>

(* clean --delete *)
Delete(p) ==
  /\ proc[p].at = "idle" /\ name # NoFile
  /\ name' = NoFile
  /\ UNCHANGED <<db, lock, proc, interrupted>>

(* The operating system ends a process; its transaction is rolled back. *)
Kill(p) ==
  /\ proc[p].at # "idle"
  /\ proc' = [proc EXCEPT ![p] = Idle]
  /\ lock' = [f \in DOMAIN lock |-> lock[f] \ {p}]
  /\ Interrupt(p)
  /\ UNCHANGED <<name, db>>

Next ==
  \E p \in Processes :
    \/ \E kind \in Kinds : Open(p, kind)
    \/ LookForFile(p) \/ Connect(p) \/ SetPragmas(p)
    \/ CreateTables(p) \/ CommitTables(p) \/ CheckVersion(p) \/ InitIndexes(p)
    \/ DatabaseBusy(p) \/ Remove(p) \/ Breaks(p)
    \/ Close(p) \/ Delete(p) \/ Kill(p)

Spec == Init /\ [][Next]_vars

-----------------------------------------------------------------------------
(* However many processes initialise a file, it gets one version.           *)
OneVersion == \A f \in DOMAIN db : db[f].tables => Len(db[f].versions) = 1

(* What open returns has all tables and indexes, of the supported version,  *)
(* although another process may have been initialising it meanwhile.        *)
OpenedIsReady ==
  \A p \in Processes :
    proc[p].at = "open" =>
      LET d == db[File(p)] IN d.tables /\ d.indexes /\ d.versions = <<VERSION>>

(* A file without tables, which no later call of open can use or repair, is *)
(* being initialised, unless the call of open that was to initialise it died *)
(* or failed in the middle, or the file was created by a call that had seen *)
(* another one.  Losing the race to initialise it, or to lock it, leaves    *)
(* none, and neither does a reader.                                         *)
EmptyOnlyIfInterrupted ==
  /\ name # NoFile /\ ~db[name].tables
  => name \in interrupted \/ \E p \in Processes : File(p) = name /\ Initialising(p)
=============================================================================
