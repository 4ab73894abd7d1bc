------------------------------ MODULE Indexing ------------------------------
(***************************************************************************)
(* Indexers, and clean commands, writing to one SQLite database.           *)
(*                                                                         *)
(* A writer is a process with a connection of its own (SQLiteWriter): the  *)
(* command line tool, or the job thread of the language server.  It runs   *)
(* Indexer::index_all over a list of files, or one of the clean            *)
(* operations.  Every SQL statement of a transaction is a step, so that    *)
(* other writers, crashes and failures come between any two of them.       *)
(* SQLite itself is external: a transaction works on a private copy (tx)   *)
(* which COMMIT publishes; the first statement that writes takes the only  *)
(* write lock of the database, or gives up when it stays busy.             *)
(***************************************************************************)
EXTENDS Naturals, Sequences

CONSTANTS
  Files,          \* source files
  Versions,       \* contents a file can have; tag = sha1(content), injective
  Supported,      \* files that have a language configuration
  Broken,         \* contents for which building the stack graph fails
  Paths,          \* names of partial paths
  PathsOf,        \* content -> its minimal partial path set
  FromRoot,       \* the paths that start at the root node
  Writers,        \* processes that open a SQLiteWriter
  Servers,        \* the writers that are job threads of a language server
  SourceLists,    \* what index_all can be asked to index
  ContinueFroms,  \* values of --continue-from: sets of at most one file
  Scopes,         \* file sets removed by one clean call
  FileTimer,      \* whether a maximum time per file is configured
  QuietEdits      \* whether files change only while no writer is at work

ASSUME IndexingAssumption ==
  /\ Supported \subseteq Files
  /\ Broken \subseteq Versions
  /\ PathsOf \in [Versions -> SUBSET Paths]
  /\ FromRoot \subseteq Paths
  /\ Servers \subseteq Writers
  /\ SourceLists \subseteq Seq(Files)
  /\ ContinueFroms \subseteq SUBSET Files
  /\ Scopes \subseteq SUBSET Files
  /\ FileTimer \in BOOLEAN
  /\ QuietEdits \in BOOLEAN

VARIABLES
  content,    \* file -> its content on disk
  db,         \* the committed tables
  tx,         \* the tables as the transaction that holds the lock sees them
  lock,       \* who holds SQLite's write lock: {} or {w}
  pc,         \* writer -> where it is
  job,        \* writer -> arguments and locals of its call of index_all or clean
  cancelled,  \* writer -> whether the cancellation flag of its call is raised
  outcome,    \* writer -> result of its last call
  status      \* writer -> flags of the CLIFileReporter of the current file

vars == <<content, db, tx, lock, pc, job, cancelled, outcome, status>>

-----------------------------------------------------------------------------
(* The tables.  A row of graphs has the file as PRIMARY KEY; the tables of  *)
(* paths have no key, so they count how often a path is there.  The value   *)
(* of a row is the serialised graph: {v} for the graph of content v, {} for *)
(* the default graph that is stored with an error.                          *)

Messages == {"timed out", "failed"}

Row == [tag : Versions, error : {"null"} \cup Messages, value : SUBSET Versions]

Tables == [graphs     : [Files -> SUBSET Row],
           file_paths : [Files -> [Paths -> Nat]],
           root_paths : [Files -> [Paths -> Nat]]]

NoPaths == [p \in Paths |-> 0]

EmptyTables == [graphs     |-> [f \in Files |-> {}],
                file_paths |-> [f \in Files |-> NoPaths],
                root_paths |-> [f \in Files |-> NoPaths]]

(* status_for_file with a tag: a row with another tag does not count. *)
StatusForFile(f, v) ==
  LET rows == {r \in db.graphs[f] : r.tag = v}
  IN  IF rows = {} THEN "missing"
      ELSE IF \E r \in rows : r.error = "null" THEN "indexed" ELSE "error"

-----------------------------------------------------------------------------
(* CLIFileReporter: the flags path_logged ("path") and status_logged        *)
(* ("status"), and "panic" once one of its methods has panicked.            *)

Flags == {"path", "status", "panic"}

InProgress(s) == "path" \in s /\ "status" \notin s

Processing(s) == s \cup (IF "path" \in s THEN {"panic"} ELSE {"path"})
Report(s)     == s \cup (IF "status" \in s THEN {"panic"} ELSE {"path", "status"})
Skipped(s)    == s \cup (IF s = {} THEN {"status"} ELSE {"panic"})
FailureIfProcessing(s) == IF InProgress(s) THEN Report(s) ELSE s
AssertReported(s)      == IF InProgress(s) THEN s \cup {"panic"} ELSE s

-----------------------------------------------------------------------------
Locations ==
  {"idle", "loop", "load", "query status", "build", "stitch",
   "delete file_paths", "delete root_paths", "delete graphs",
   "insert graph", "insert paths", "insert error", "commit"}

(* Inside a transaction after its first statement. *)
Writing(w) ==
  pc[w] \in {"delete root_paths", "delete graphs", "insert graph",
             "insert paths", "commit"}

Job == [op        : {"none", "index", "clean"},
        list      : Seq(Files),              \* source_paths, walked
        pos       : Nat \ {0},               \* the current file is list[pos]
        resume    : SUBSET Files,            \* continue_from, cleared when met
        force     : BOOLEAN,                 \* Indexer::force
        tag       : SUBSET Versions,         \* {v} once content v has been read
        message   : {"none"} \cup Messages,  \* the error being stored
        scope     : SUBSET Files,            \* what the DELETE statements match
        remaining : SUBSET Paths,            \* paths not inserted yet
        mark      : SUBSET Files]            \* history: continue_from as it was given

(* The locals at the start of a call. *)
Call(o, l, c, b, fs) ==
  [op |-> o, list |-> l, pos |-> 1, resume |-> c, force |-> b, tag |-> {},
   message |-> "none", scope |-> fs, remaining |-> {}, mark |-> c]

NoJob == Call("none", <<>>, {}, FALSE, {})

(* The next turn of the loop of index_all has fresh locals. *)
NextTurn(j) ==
  [op |-> j.op, list |-> j.list, pos |-> j.pos + 1, resume |-> j.resume,
   force |-> j.force, tag |-> {}, message |-> "none", scope |-> {},
   remaining |-> {}, mark |-> j.mark]

TypeOK ==
  /\ content \in [Files -> Versions]
  /\ db \in Tables
  /\ tx \in Tables
  /\ lock \in SUBSET Writers
  /\ pc \in [Writers -> Locations]
  /\ job \in [Writers -> Job]
  /\ cancelled \in [Writers -> BOOLEAN]
  /\ outcome \in [Writers -> {"none", "ok", "cancelled", "error", "killed"}]
  /\ status \in [Writers -> SUBSET Flags]

Init ==
  /\ content \in [Files -> Versions]
  /\ db = EmptyTables
  /\ tx = EmptyTables
  /\ lock = {}
  /\ pc = [w \in Writers |-> "idle"]
  /\ job = [w \in Writers |-> NoJob]
  /\ cancelled = [w \in Writers |-> FALSE]
  /\ outcome = [w \in Writers |-> "none"]
  /\ status = [w \in Writers |-> {}]

-----------------------------------------------------------------------------
(* Building blocks of the actions. *)

file(w) == job[w].list[job[w].pos]

Goto(w, l) == pc' = [pc EXCEPT ![w] = l]

(* The call returns: its locals are gone. *)
Return(w, o) ==
  /\ Goto(w, "idle")
  /\ job' = [job EXCEPT ![w] = NoJob]
  /\ cancelled' = [cancelled EXCEPT ![w] = FALSE]
  /\ outcome' = [outcome EXCEPT ![w] = o]

(* index_file returned Err: the error leaves index_all, later files stay undone. *)
Abort(w) ==
  /\ Return(w, "error")
  /\ status' = [status EXCEPT ![w] = FailureIfProcessing(@)]

(* index_file returned Ok after the reporter calls that led to flags s. *)
NextFile(w, s) ==
  /\ Goto(w, "loop")
  /\ job' = [job EXCEPT ![w] = NextTurn(@)]
  /\ status' = [status EXCEPT ![w] = AssertReported(s)]
  /\ UNCHANGED <<cancelled, outcome>>

Unlocked == UNCHANGED <<db, tx, lock>>

-----------------------------------------------------------------------------
(* Calls. *)

(* IndexArgs::run and Backend::index. *)
StartIndexing(w) ==
  /\ pc[w] = "idle"
  /\ \E l \in SourceLists, c \in ContinueFroms, b \in BOOLEAN :
       /\ w \in Servers => c = {} /\ ~b
       /\ job' = [job EXCEPT ![w] = Call("index", l, c, b, {})]
  /\ Goto(w, "loop")
  /\ outcome' = [outcome EXCEPT ![w] = "none"]
  /\ status' = [status EXCEPT ![w] = {}]
  /\ UNCHANGED <<content, cancelled>>
  /\ Unlocked

(* CleanArgs::clean and Backend::clean, one call of a clean_* operation. *)
StartCleaning(w) ==
  /\ pc[w] = "idle"
  /\ \E fs \in Scopes :
       job' = [job EXCEPT ![w] = Call("clean", <<>>, {}, FALSE, fs)]
  /\ Goto(w, "delete file_paths")
  /\ outcome' = [outcome EXCEPT ![w] = "none"]
  /\ status' = [status EXCEPT ![w] = {}]
  /\ UNCHANGED <<content, cancelled>>
  /\ Unlocked

(* The loop of index_all is done. *)
FinishIndexing(w) ==
  /\ pc[w] = "loop"
  /\ job[w].pos > Len(job[w].list)
  /\ Return(w, "ok")
  /\ UNCHANGED <<content, status>>
  /\ Unlocked

(* Mutated: the mark stays when it has been met. *)
TakeFileKeepingMark(w) ==
  /\ pc[w] = "loop"
  /\ job[w].pos <= Len(job[w].list)
  /\ \/ /\ cancelled[w]
        /\ Return(w, "cancelled")
        /\ status' = [status EXCEPT ![w] = {}]
     \/ /\ ~cancelled[w]
        /\ job[w].resume \notin {{}, {file(w)}}
        /\ NextFile(w, Skipped({}))
     \/ /\ ~cancelled[w]
        /\ job[w].resume \in {{}, {file(w)}}
        /\ Goto(w, "load")
        /\ status' = [status EXCEPT ![w] = {}]
        /\ UNCHANGED <<job, cancelled, outcome>>
  /\ UNCHANGED content
  /\ Unlocked

(* The head of the loop, and should_skip. *)
TakeFile(w) ==
  /\ pc[w] = "loop"
  /\ job[w].pos <= Len(job[w].list)
  /\ \/ /\ cancelled[w]
        /\ Return(w, "cancelled")
        /\ status' = [status EXCEPT ![w] = {}]
     \/ /\ ~cancelled[w]
        /\ job[w].resume \notin {{}, {file(w)}}
        /\ NextFile(w, Skipped({}))
     \/ /\ ~cancelled[w]
        /\ job[w].resume \in {{}, {file(w)}}
        /\ Goto(w, "load")
        /\ job' = [job EXCEPT ![w].resume = {}]
        /\ status' = [status EXCEPT ![w] = {}]
        /\ UNCHANGED <<cancelled, outcome>>
  /\ UNCHANGED content
  /\ Unlocked

(* Find the language of the file and read it; the tag is computed from what *)
(* was read.  A file nobody supports is an error only if it was named.      *)
LoadFile(w) ==
  /\ pc[w] = "load"
  /\ \/ /\ file(w) \notin Supported
        /\ \E named \in BOOLEAN :
             NextFile(w, IF named THEN Report(status[w]) ELSE status[w])
     \/ Abort(w)      \* the language does not load, or the file cannot be read
     \/ /\ file(w) \in Supported
        /\ Goto(w, "query status")
        /\ job' = [job EXCEPT ![w].tag = {content[file(w)]}]
        /\ UNCHANGED <<cancelled, outcome, status>>
  /\ UNCHANGED content
  /\ Unlocked

(* Mutated: processing is reported before the status is known. *)
QueryStatusStarted(w) ==
  /\ pc[w] = "query status"
  /\ \E v \in job[w].tag :
       \/ /\ StatusForFile(file(w), v) # "missing"
          /\ ~job[w].force
          /\ NextFile(w, Skipped(Processing(status[w])))
       \/ /\ StatusForFile(file(w), v) = "missing" \/ job[w].force
          /\ Goto(w, "build")
          /\ status' = [status EXCEPT ![w] = Processing(@)]
          /\ UNCHANGED <<job, cancelled, outcome>>
  /\ UNCHANGED content
  /\ Unlocked

(* A result or an error for the content just read is not computed again. *)
QueryStatus(w) ==
  /\ pc[w] = "query status"
  /\ \E v \in job[w].tag :
       \/ /\ StatusForFile(file(w), v) # "missing"
          /\ ~job[w].force
          /\ NextFile(w, Skipped(status[w]))
       \/ /\ StatusForFile(file(w), v) = "missing" \/ job[w].force
          /\ Goto(w, "build")
          /\ status' = [status EXCEPT ![w] = Processing(@)]
          /\ UNCHANGED <<job, cancelled, outcome>>
  /\ UNCHANGED content
  /\ Unlocked

(* Report a problem, then have store_error_for_file record it. *)
GiveUp(w, m) ==
  /\ Goto(w, "insert error")
  /\ job' = [job EXCEPT ![w].message = m]
  /\ status' = [status EXCEPT ![w] = Report(@)]

MayTimeOut(w) == cancelled[w] \/ FileTimer

(* A parse that is cancelled is a ParseError like any other: it has failed. *)
BuildStackGraph(w) ==
  /\ pc[w] = "build"
  /\ \E v \in job[w].tag :
       \/ MayTimeOut(w) /\ \E m \in Messages : GiveUp(w, m)
       \/ v \in Broken /\ GiveUp(w, "failed")
       \/ v \notin Broken /\ Goto(w, "stitch") /\ UNCHANGED <<job, status>>
  /\ UNCHANGED <<content, cancelled, outcome>>
  /\ Unlocked

FindPartialPaths(w) ==
  /\ pc[w] = "stitch"
  /\ \E v \in job[w].tag :
       \/ MayTimeOut(w) /\ GiveUp(w, "timed out")
       \/ /\ Goto(w, "delete file_paths")
          /\ job' = [job EXCEPT ![w].scope = {file(w)}, ![w].remaining = PathsOf[v]]
          /\ UNCHANGED status
  /\ UNCHANGED <<content, cancelled, outcome>>
  /\ Unlocked

-----------------------------------------------------------------------------
(* Statements.  The transactions are                                        *)
(*   store_result_for_file: three DELETEs, one INSERT for the graph, one    *)
(*                          for each path, COMMIT                           *)
(*   store_error_for_file:  one INSERT, COMMIT                              *)
(*   clean_*:               three DELETEs, COMMIT                           *)

(* A statement inside the transaction of w. *)
Within(w) == UNCHANGED <<content, db, lock, cancelled, outcome, status>>

Without(table, fs, none) ==
  [f \in Files |-> IF f \in fs THEN none ELSE table[f]]

(* Mutated: the transaction starts without regard for other writers. *)
LocksNothing(w) ==
  /\ lock' = lock \cup {w}
  /\ UNCHANGED <<content, db, cancelled, outcome, status>>

(* The first statement of a transaction takes the lock. *)
Locks(w) ==
  /\ lock = {}
  /\ lock' = {w}
  /\ UNCHANGED <<content, db, cancelled, outcome, status>>

DeleteFilePaths(w) ==
  /\ pc[w] = "delete file_paths"
  /\ Locks(w)
  /\ tx' = [db EXCEPT !.file_paths = Without(@, job[w].scope, NoPaths)]
  /\ Goto(w, "delete root_paths")
  /\ UNCHANGED job

(* Mutated: the rows of root_paths stay. *)
DeleteRootPathsForgotten(w) ==
  /\ pc[w] = "delete root_paths"
  /\ Goto(w, "delete graphs")
  /\ UNCHANGED <<tx, job>>
  /\ Within(w)

DeleteRootPaths(w) ==
  /\ pc[w] = "delete root_paths"
  /\ tx' = [tx EXCEPT !.root_paths = Without(@, job[w].scope, NoPaths)]
  /\ Goto(w, "delete graphs")
  /\ UNCHANGED job
  /\ Within(w)

DeleteGraphs(w) ==
  /\ pc[w] = "delete graphs"
  /\ tx' = [tx EXCEPT !.graphs = Without(@, job[w].scope, {})]
  /\ Goto(w, IF job[w].op = "clean" THEN "commit" ELSE "insert graph")
  /\ UNCHANGED job
  /\ Within(w)

InsertGraph(w) ==
  /\ pc[w] = "insert graph"
  /\ tx.graphs[file(w)] = {}
  /\ \E v \in job[w].tag :
       tx' = [tx EXCEPT !.graphs[file(w)] =
                {[tag |-> v, error |-> "null", value |-> {v}]}]
  /\ Goto(w, "insert paths")
  /\ UNCHANGED job
  /\ Within(w)

InsertPath(w) ==
  /\ pc[w] = "insert paths"
  /\ \E p \in job[w].remaining :
       /\ tx' = IF p \in FromRoot
                THEN [tx EXCEPT !.root_paths[file(w)][p] = @ + 1]
                ELSE [tx EXCEPT !.file_paths[file(w)][p] = @ + 1]
       /\ job' = [job EXCEPT ![w].remaining = @ \ {p}]
  /\ UNCHANGED pc
  /\ Within(w)

AllPathsInserted(w) ==
  /\ pc[w] = "insert paths"
  /\ job[w].remaining = {}
  /\ Goto(w, "commit")
  /\ UNCHANGED <<tx, job>>
  /\ Within(w)

(* Mutated: INSERT OR REPLACE, which forgets the paths of the old row. *)
InsertErrorReplacing(w) ==
  /\ pc[w] = "insert error"
  /\ Locks(w)
  /\ \E v \in job[w].tag :
       tx' = [tx EXCEPT !.graphs[file(w)] =
                {[tag |-> v, error |-> job[w].message, value |-> {}]}]
  /\ Goto(w, "commit")
  /\ UNCHANGED job

(* store_error_for_file deletes nothing first.  While nobody holds the lock *)
(* tx equals db.                                                            *)
InsertError(w) ==
  /\ pc[w] = "insert error"
  /\ Locks(w)
  /\ tx.graphs[file(w)] = {}
  /\ \E v \in job[w].tag :
       tx' = [tx EXCEPT !.graphs[file(w)] =
                {[tag |-> v, error |-> job[w].message, value |-> {}]}]
  /\ Goto(w, "commit")
  /\ UNCHANGED job

Commit(w) ==
  /\ pc[w] = "commit"
  /\ db' = tx
  /\ lock' = {}
  /\ \/ /\ job[w].op = "clean"
        /\ Return(w, "ok")
        /\ UNCHANGED status
     \/ /\ job[w].op = "index"
        /\ NextFile(w, IF job[w].message = "none" THEN Report(status[w])
                                                  ELSE status[w])
  /\ UNCHANGED <<content, tx>>

(* A transaction that is dropped without COMMIT is rolled back. *)
Rollback == lock' = {} /\ tx' = db

(* file is the PRIMARY KEY of graphs: a second row for it is refused. *)
PrimaryKeyConflict(w) ==
  /\ pc[w] \in {"insert graph", "insert error"}
  /\ pc[w] = "insert error" => lock = {}
  /\ tx.graphs[file(w)] # {}
  /\ Rollback
  /\ Abort(w)
  /\ UNCHANGED <<content, db>>

(* Mutated: a writer that finds the database busy tries again for ever. *)
DatabaseBusyRetried(w) ==
  /\ pc[w] \in {"delete file_paths", "insert error"}
  /\ lock # {}
  /\ UNCHANGED vars

(* The lock stays with another writer for longer than the busy timeout. *)
DatabaseBusy(w) ==
  /\ pc[w] \in {"delete file_paths", "insert error"}
  /\ lock # {}
  /\ Abort(w)
  /\ UNCHANGED content
  /\ Unlocked

(* A statement, or the encoding of a value for it, fails. *)
StatementFails(w) ==
  /\ Writing(w)
  /\ Rollback
  /\ Abort(w)
  /\ UNCHANGED <<content, db>>

-----------------------------------------------------------------------------
(* The environment. *)

(* The process dies; SQLite discards what it had not committed. *)
Kill(w) ==
  /\ pc[w] # "idle"
  /\ IF lock = {w} THEN Rollback ELSE UNCHANGED <<tx, lock>>
  /\ Return(w, "killed")
  /\ UNCHANGED <<content, db, status>>

(* The time for the folder is up, or the language server shuts down. *)
RaiseFlag(w) ==
  /\ w \in Servers
  /\ job[w].op = "index"
  /\ ~cancelled[w]
  /\ cancelled' = [cancelled EXCEPT ![w] = TRUE]
  /\ UNCHANGED <<content, pc, job, outcome, status>>
  /\ Unlocked

Edit(f) ==
  /\ \E v \in Versions \ {content[f]} : content' = [content EXCEPT ![f] = v]
  /\ QuietEdits => \A w \in Writers : pc[w] = "idle"
  /\ UNCHANGED <<pc, job, cancelled, outcome, status>>
  /\ Unlocked

-----------------------------------------------------------------------------
(* What a writer does when nothing interferes; it never stops by itself     *)
(* inside a call, which is the fairness assumed of it.                      *)
Progress(w) ==
  \/ FinishIndexing(w) \/ TakeFile(w) \/ LoadFile(w) \/ QueryStatus(w)
  \/ BuildStackGraph(w) \/ FindPartialPaths(w)
  \/ DeleteFilePaths(w) \/ DeleteRootPaths(w) \/ DeleteGraphs(w)
  \/ InsertGraph(w) \/ InsertPath(w) \/ AllPathsInserted(w) \/ InsertError(w)
  \/ Commit(w) \/ PrimaryKeyConflict(w) \/ DatabaseBusy(w)

Next ==
  \/ \E w \in Writers :
       \/ StartIndexing(w) \/ StartCleaning(w) \/ Progress(w)
       \/ StatementFails(w) \/ Kill(w) \/ RaiseFlag(w)
  \/ \E f \in Files : Edit(f)

Spec == Init /\ [][Next]_vars

FairSpec == Spec /\ \A w \in Writers : WF_vars(Progress(w))

-----------------------------------------------------------------------------
(* Properties. *)

ResultRow(v)   == [tag |-> v, error |-> "null", value |-> {v}]
ErrorRow(v, m) == [tag |-> v, error |-> m, value |-> {}]

Once(ps) == [p \in Paths |-> IF p \in ps THEN 1 ELSE 0]

(* The rows of f in tables t are those of one complete result. *)
HoldsResult(t, f, v) ==
  /\ t.graphs[f] = {ResultRow(v)}
  /\ t.file_paths[f] = Once(PathsOf[v] \ FromRoot)
  /\ t.root_paths[f] = Once(PathsOf[v] \cap FromRoot)

HoldsNoPaths(t, f) == t.file_paths[f] = NoPaths /\ t.root_paths[f] = NoPaths

HoldsError(t, f) ==
  /\ \E v \in Versions, m \in Messages : t.graphs[f] = {ErrorRow(v, m)}
  /\ HoldsNoPaths(t, f)

Exact(t, f) ==
  \/ t.graphs[f] = {} /\ HoldsNoPaths(t, f)
  \/ \E v \in Versions : HoldsResult(t, f, v)
  \/ HoldsError(t, f)

(* Whatever writers, crashes, failing statements and edits do, what is      *)
(* committed for a file is nothing, an error without paths, or the graph    *)
(* and exactly once each partial path of a single content, the one named    *)
(* by the tag that status_for_file compares.                                *)
StoredExactly == \A f \in Files : Exact(db, f)

(* The index a reader sees is that of FileIndex. *)
Entries(t, f) ==
  {[kind |-> "result", tag |-> v] : v \in {x \in Versions : HoldsResult(t, f, x)}}
  \cup
  {[kind |-> "error", tag |-> r.tag, error |-> r.error] :
      r \in {x \in t.graphs[f] : x.error \in Messages}}

StoredIndex == [f \in Files |-> Entries(db, f)]

Index == INSTANCE FileIndex WITH index <- StoredIndex

(* The statements of SQLiteWriter implement atomic operations per file:     *)
(* no failure or overlap of transactions shows a file half replaced, and a  *)
(* failed indexing never replaces a result.                                 *)
ImplementsFileIndex == Index!Spec

(* The files that a call was asked to index, among the first n of its list: *)
(* those from --continue-from on.                                           *)
Asked(j, n) ==
  {j.list[i] : i \in {x \in DOMAIN j.list :
                        /\ x <= n
                        /\ j.mark = {} \/ \E k \in 1..x : j.mark = {j.list[k]}}}

(* When index_all returns Ok, each supported file that it was asked for is  *)
(* in the database with the content it has now, as a result or as an error: *)
(* neither the mark nor a failure, timeout, crash of an earlier run, cached *)
(* status or forced run makes it pass a file over.  For one writer and no   *)
(* edit during the run.                                                     *)
OkRunCovers ==
  [][\A w \in Writers :
       job[w].op = "index" /\ pc'[w] = "idle" /\ outcome'[w] = "ok" =>
         \A f \in Asked(job[w], Len(job[w].list)) \cap Supported :
           StatusForFile(f, content[f]) # "missing"]_vars

(* The panics of CLIFileReporter ("Already started or finished", "Status    *)
(* already logged", "Skipped after starting", "status not reported") are    *)
(* unreachable from the indexer, on every error path.                       *)
ReporterNeverPanics == \A w \in Writers : "panic" \notin status[w]

(* Every call returns: waiting for the database ends in the lock or in an   *)
(* error, and every error path leads out of the loop or to the next file.   *)
CallsReturn ==
  \A w \in Writers : pc[w] # "idle" ~> pc[w] = "idle"

(* "Store an error, indicating that indexing this file failed": the INSERT  *)
(* of store_error_for_file is not refused.                                  *)
StoreErrorIsAccepted ==
  [][\A w \in Writers :
       pc[w] = "insert error" /\ lock = {} /\ pc'[w] = "idle"
         => outcome'[w] = "killed"]_vars

-----------------------------------------------------------------------------
(* The inductive invariant behind StoredExactly and ImplementsFileIndex.    *)

(* The lock is with the one writer whose transaction has written. *)
LockInv ==
  /\ \A w \in Writers : Writing(w) <=> w \in lock
  /\ \A u, w \in lock : u = w
  /\ lock = {} => tx = db

(* What the locals of a call hold at each location. *)
JobInv(w) ==
  /\ pc[w] = "idle" => job[w].op = "none"
  /\ pc[w] # "idle" => job[w].op \in {"index", "clean"}
  /\ job[w].op = "clean" =>
       /\ job[w].scope \in Scopes
       /\ pc[w] \in {"delete file_paths", "delete root_paths", "delete graphs", "commit"}
  /\ job[w].op = "index" /\ pc[w] # "loop" => job[w].pos \in 1..Len(job[w].list)
  /\ job[w].op = "index" /\ pc[w] \notin {"loop", "load"} =>
       \E v \in Versions : job[w].tag = {v}
  /\ job[w].op = "index" /\ pc[w] \in {"loop", "load", "query status", "build", "stitch"}
       => job[w].message = "none"
  /\ job[w].op = "index" /\ pc[w] \in {"delete file_paths", "delete root_paths",
                                       "delete graphs", "insert graph"} =>
       /\ job[w].message = "none"
       /\ job[w].scope = {file(w)}
       /\ \A v \in job[w].tag : job[w].remaining = PathsOf[v]
  /\ pc[w] = "insert paths" => job[w].message = "none"
  /\ pc[w] = "insert error" => job[w].message \in Messages

SamePaths(t, u, f) ==
  t.file_paths[f] = u.file_paths[f] /\ t.root_paths[f] = u.root_paths[f]

SameRows(t, u, f) == t.graphs[f] = u.graphs[f] /\ SamePaths(t, u, f)

Target(w) == IF job[w].op = "clean" THEN job[w].scope ELSE {file(w)}

(* What the transaction of w has done so far, compared with what is committed. *)
TxInv(w) ==
  /\ Writing(w) => \A f \in Files \ Target(w) : SameRows(tx, db, f)
  /\ pc[w] = "delete root_paths" => \A f \in Target(w) : tx.file_paths[f] = NoPaths
  /\ pc[w] \in {"delete graphs", "insert graph"} =>
       \A f \in Target(w) : HoldsNoPaths(tx, f)
  /\ pc[w] = "insert graph" => tx.graphs[file(w)] = {}
  /\ pc[w] = "insert paths" =>
       \A v \in job[w].tag :
         /\ job[w].remaining \subseteq PathsOf[v]
         /\ tx.graphs[file(w)] = {ResultRow(v)}
         /\ tx.file_paths[file(w)] = Once((PathsOf[v] \ job[w].remaining) \ FromRoot)
         /\ tx.root_paths[file(w)] = Once((PathsOf[v] \ job[w].remaining) \cap FromRoot)
  /\ pc[w] = "commit" /\ job[w].op = "clean" =>
       \A f \in Target(w) : tx.graphs[f] = {} /\ HoldsNoPaths(tx, f)
  /\ pc[w] = "commit" /\ job[w].op = "index" =>
       \A v \in job[w].tag :
         \/ job[w].message = "none" /\ HoldsResult(tx, file(w), v)
         \/ /\ job[w].message \in Messages
            /\ db.graphs[file(w)] = {}
            /\ tx.graphs[file(w)] = {ErrorRow(v, job[w].message)}
            /\ HoldsNoPaths(tx, file(w))

IInv ==
  /\ TypeOK
  /\ StoredExactly
  /\ LockInv
  /\ \A w \in Writers : JobInv(w) /\ TxInv(w)

-----------------------------------------------------------------------------
(* The inductive invariant behind ReporterNeverPanics: the flags the        *)
(* reporter has at each location of index_file.                             *)
FlagsAt(w) ==
  CASE pc[w] \in {"load", "query status"} -> {}
    [] pc[w] = "insert error" -> {"path", "status"}
    [] pc[w] = "commit" /\ job[w].message # "none" -> {"path", "status"}
    [] OTHER -> {"path"}

ReporterInv ==
  \A w \in Writers :
    /\ "panic" \notin status[w]
    /\ job[w].op = "index" /\ pc[w] # "loop" => status[w] = FlagsAt(w)

(* The inductive invariant behind OkRunCovers, for a writer that runs alone *)
(* on files that keep still: the mark is there as long as it has not been   *)
(* met, and the files its call is done with are covered.                    *)
MarkInv(w) ==
  /\ pc[w] # "loop" => job[w].resume = {}
  /\ job[w].resume # {} =>
       /\ job[w].resume = job[w].mark
       /\ Asked(job[w], job[w].pos - 1) = {}

CoverInv ==
  \A w \in Writers :
    job[w].op = "index" =>
      /\ MarkInv(w)
      /\ pc[w] \notin {"loop", "load"} => job[w].tag = {content[file(w)]}
      /\ \A f \in Asked(job[w], job[w].pos - 1) \cap Supported :
           StatusForFile(f, content[f]) # "missing"
=============================================================================
