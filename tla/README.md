# Verification of stack-graphs

TLA+ specifications, TLC model checks and TLAPS proofs for the Rust workspace in
`src/`: the `stack-graphs` library, `tree-sitter-stack-graphs`, its command line
tool and its language server.

The program indexes source files. Per file it builds a *stack graph*, computes a
minimal set of *partial paths* through it, and stores both in a SQLite database
under a hash of the file's content. Queries load from the database only what
they need and stitch partial paths together until they reach definitions. The
database outlives the processes, several processes use it at once, and both
indexing and querying can be cancelled, fail or be killed at any point. That is
where this project starts.

## 1. Inventory

| Component (source) | State | Operations | Interacts with |
|---|---|---|---|
| SQLite writer (`stack-graphs/src/storage.rs`) | tables `metadata`, `graphs` (file is primary key, tag, error, value), `file_paths`, `root_paths` | `open`, `clean_all`, `clean_file`, `clean_file_or_directory`, `store_error_for_file`, `store_result_for_file`, `status_for_file` | called by indexer, clean command, language server; other processes through SQLite's lock |
| SQLite reader (`storage.rs`, `serde/`) | one graph, one path database, `loaded_graphs`, `loaded_node_paths`, `loaded_root_paths` | `load_graph_for_file`, `load_graphs_for_file_or_directory`, `load_partial_path_extensions`, `clear`, `clear_paths` | called by stitcher, query and visualize commands, language server; reads what writers commit meanwhile |
| Path database (`stitching.rs`, `Database`) | paths by start node; root paths by precondition in three tables; local nodes; degrees | `add_partial_path`, `find_candidate_partial_paths`, `find_local_nodes`, `clear` | filled by the reader, asked by the stitcher |
| Indexer (`tree-sitter-stack-graphs/src/cli/index.rs`) | the `continue_from` mark, `force`, time limit, position in the file list | `index_all`, `index` | writer, reporter, cancellation flags, graph construction, stitcher |
| File reporter (`cli/util.rs`, `cli/util/reporter.rs`) | `path_logged`, `status_logged` | `processing`, `success`, `skipped`, `warning`, `failure`, `failure_if_processing`, `assert_reported` | called by the indexer and test runner; panics when called out of order |
| Clean command (`cli/clean.rs`) | none | `clean`, `delete` | writer |
| Query, visualize, status commands (`cli/query.rs`, `cli/visualize.rs`, `cli/status.rs`) | none | | reader, stitcher |
| Language server (`cli/lsp.rs`) | job channel, job thread, shutdown flag | `initialize`, `shutdown`, `did_save`, `did_change_workspace_folders`, `goto_definition` | indexer and clean through jobs, reader for definitions |
| Cancellation flags (`util.rs`, `lib.rs`) | a shared boolean or a start time; for the parser, an atomic and a thread that polls the flag | `check`, `cancel`, `TreeSitterCancellationFlag::from` | everything long-running |
| Stack graph (`graph.rs`) | nodes, edges, symbols, files, deduplicated by identity | `add_*`, `add_from_graph` | built by TSG, loaded by the reader |
| Partial paths (`partial.rs`) | symbol and scope stacks with variables, in arenas | `unify`, `concatenate`, `resolve` | stitcher, database keys |
| Stitcher (`stitching.rs`, `cycles.rs`, `paths.rs`) | the queue of one phase, similar paths per key | `process_next_phase`, `find_all_complete_partial_paths`, `find_minimal_partial_path_set_in_file` | reader or graph for candidates |
| Arenas and lists (`arena.rs`, `utils.rs`) | cells behind handles, deques that are reversed lazily, tables that grow with the highest handle | `add`, `push`, `pop`, `clear` | everything in `stack-graphs` |
| Serialisation (`serde/`) | none | `from_graph_filter`, `load_into`, `from_partial_path`, `to_partial_path` | writer and reader, on behalf of every other component |
| Graph builder (`tree-sitter-stack-graphs/src/lib.rs`) | the graph that the rules construct, injected nodes, remapped ids | `inject_node`, `build` | indexer, test runner; adds to a stack graph |
| Loader, test runner, C API, LSP positions, statistics | | | see `PROJECT.json`, `components` |

What is hard here, and what makes each component correct:

* **Writer and indexer.** A result is some dozens to thousands of SQL statements.
  Processes overlap, die, run into a busy database or a refused statement
  between any two of them, and the source file can change after it was read.
  Correct means: what is committed for a file is always one complete result (or
  error) of one content, named by its tag; a run that says it succeeded left
  no file out; every call ends.
* **Reporter.** It panics when called out of order; the indexer's error paths
  must keep the order.
* **Reader.** A file, node or pattern is marked as loaded *before* it is loaded,
  so that a cancelled call leaves marks behind, and the graph may be older than
  the paths that are loaded for it. Correct means: handles in the path database
  always belong to the loaded graph, no path of a node is loaded twice or from
  two contents, and what is reported as loaded is complete unless an earlier call for
  it has failed (see 6, Observed).
* **Candidate lookup.** The same question is answered twice by different
  approximations (`LIKE` patterns in SQLite, prefix tables in memory); they must
  agree with each other and with unification.
* **Language server.** Jobs queue behind a single thread that must stop on
  shutdown without losing accepted work; folders come, go and nest.
* **Cancellation.** tree-sitter looks at an atomic, not at a flag: a thread per
  parse carries a raised flag over, with a reference whose lifetime was erased.
* **Partial paths.** Pure but intricate: variables on both ends of two stacks, that
  are renamed, unified and substituted whenever paths are joined. Correct means: a
  path accepts the stacks with which its nodes can be visited, and turns them
  into what the visits make of them.
* **Stitcher.** Paths that are alike or cyclic are dropped by heuristics that depend
  on the degrees of nodes, and these on what has been loaded. Correct means: a
  query finds the definitions that walking the graph finds, once, and it ends.
* **Data structures.** Raw pointers into buffers that must not move, cells shared
  between lists that are turned round in place, tables indexed by handles and
  local ids, copies between graphs that give everything a new handle.
* **Opening the database.** Several processes create, check, remove and recreate one
  file; each may die, and its call may fail, between creating the file and creating the tables.

`PROJECT.json` lists the single hazards, with their lines and the properties
that cover them.

## 2. Plan

Done, in this order:

1. `FileIndex`, `Indexing`: store and indexer, with the refinement between them.
2. `Indexing_proofs`: the inductive invariant and what follows from it.
3. `Candidates`, `Reader`: lazy loading over a changing `FileIndex`.
4. `LanguageServer`: the job queue over `FileIndex`.
5. `Cancellation` and `Cancellation_proofs`: flags carried over to the parser.
6. `PartialPaths`, `PathMeaning`, `SavedPaths`, `Stitcher`: partial paths, what
   they mean, how they are stored, and how they are stitched, for files and queries.
7. `Interning`, `Lists` with the abstract `SharedSequences`, `StackGraph`: the
   structures in memory. `GraphBuilder` over `StackGraph`.
8. `Opening` and `Opening_proofs`: creating, checking and recreating the database.

Which module composes which: `Reader` and `LanguageServer` instantiate
`FileIndex`, which `Indexing` implements; `Stitcher` extends `SavedPaths` and
`PathMeaning`, both over `PartialPaths`, and instantiates `Candidates`, as
`Reader` does; `PartialPaths` and `StackGraph` take their loops from `Loops`; `Lists` implements `SharedSequences`; `GraphBuilder` extends
`StackGraph`; `MCStructures` extends `Interning`, `Lists` and these two, side by side.

9. Proofs about the modules that existed: `ReporterNeverPanics` and `OkRunCovers` of
   `Indexing`, `EmptyOnlyIfInterrupted` of `Opening`; `Reader_proofs`,
   `LanguageServer_proofs`, `Structures_proofs` (`Interning`, `Lists`, `StackGraph`).
10. `PathMeaning_proofs`, what appending an edge to a partial path does, and
    `Stitcher_proofs`, what joining two paths, saving one and every step of the
    stitcher does: `PathsMean` and `PathsWellFormed`.
11. In `Structures_proofs`, `CopiesFaithful` and `LoadsWhatWasSaved` of `StackGraph`:
    what a copied and a loaded graph contains.

What is left, all of it proofs:

12. `BuildsBesideNodes` of `GraphBuilder`, from the lemmas about `WithNode` and `WithEdge`.
13. `ConcatenationsMean`: the join of two paths that both have variables. What a
    query joins has variables on one side only, which is what is proved.

## 3. Modules

### `FileIndex`: what the store promises

`index[f]` is the set of entries of a file: none, one result, or one error, each
with the content it is for. `StoreResult`, `StoreError` and `Clean` are atomic.
`StoreError` is possible only for a file without an entry: that is what the
schema lets `store_error_for_file` do.

### `Indexing`: how the store and the indexer keep it

| State | Code |
|---|---|
| `content` | the source files on disk |
| `db` | the committed tables `graphs`, `file_paths`, `root_paths` |
| `tx`, `lock` | the connection that holds SQLite's write lock and what it sees |
| `pc`, `job` | where a call of `index_all` or `clean_*` is; its arguments and locals |
| `cancelled` | the `CancellationFlag` passed to the call |
| `status` | `path_logged`, `status_logged` of the current `CLIFileReporter`, and whether it panicked |
| `outcome` | what the last call returned |

Locations of `pc` follow `index_file_inner` from top to bottom, then the
statements of the three transactions:

    loop -> load -> query status -> build -> stitch
         -> delete file_paths -> delete root_paths -> delete graphs
         -> insert graph -> insert paths -> commit -> loop
    build, stitch -> insert error -> commit -> loop

`Abort` is an error that leaves `index_all` through `?`: it ends the run, not
only the file. `NextFile` is `index_file` returning `Ok`. `TakeFile` contains
the cancellation check at the head of the loop and `should_skip`.

A path is a name; a content determines its paths (`PathsOf`) and whether its
graph can be built (`Broken`). The tag is the content itself, since SHA-1 is
taken to be injective. The path tables have no key in the schema, so they count
rows: storing a path twice would show.

External parts: SQLite (WAL mode, deferred transactions, the single write lock,
rollback when a transaction is dropped, recovery after a crash), its busy timeout
(5 s in rusqlite), the editor (`Edit`) and the operating system (`Kill`).

### `Candidates`: which root paths can extend a path

Pure operators. `Compatible` is the reference: two symbol stacks, each with or
without a variable at its end, unify. `Patterns` and `Like` are the storage key
patterns and SQLite's comparison; `AddedUnder` and `LookedUp` are the keys of
the three in-memory tables. A stack's attached scopes play no part in either
lookup and are left out. `Alike` says which symbols a pattern's text matches:
`LIKE` ignores the case of ASCII letters.

### `Reader`: the lazy reader

`graph`, `loaded_graphs`, `loaded_node_paths`, `loaded_root_paths` and `db` are
the fields of `SQLiteReader`; `graph[f]` is the content the loaded graph of the
file is from. `call`, `snapshot` and `rows` are the call in progress and the
active SQLite statement. `answered`, `cut` and `settled` are history variables for
properties and guard nothing: what was asked for with `Ok`; for which nodes and
patterns a call failed before it got through their rows; whether the index is still
the one that graphs were loaded from. The module instantiates `FileIndex` for the
index, so it composes with `Indexing` through the refinement shown there: the
environment's `StoreChanges` is `FileIndex!Next`.

Every call that the stitcher, the query and visualize commands or the language
server make is an action: they own the reader exclusively (`&mut self`), so
calls do not overlap, but any sequence of calls is allowed and each row of a
statement is a step. A row's step loads the graph of its file first
(`EnsureGraph`, `GraphFails`, `NoSuchFile`), as the code does. A call for a node that
is marked returns `Ok` at once (`StartNode`, `storage.rs:586-590`), a pattern that is
marked is passed over (`NextPattern`), also after the call that marked them has failed.

### `LanguageServer`: the job queue

| State | Code |
|---|---|
| `lsp` | what `tower_lsp` hands over: between `initialize` and `shutdown` (external) |
| `sending` | jobs of the handler that holds the mutex `Backend::jobs`, not sent yet |
| `queue` | the crossbeam channel |
| `flag` | the `AtomicCancellationFlag` of `start_job_handler` |
| `thread` | the job thread: waiting, between a timeout and the flag, or in a job |
| `expected` | history: what the notifications ask of each file |

A handler fills `sending` in one step, since it holds the mutex until its last
send; each `Send` is a step, as the job thread does not take the mutex. A job
goes through its files one by one with the operations of `FileIndex`; between
`TakeFile`, which reads the content, and `Build`, which stores what was computed
from it, the file may change. Every step of a job may fail, and then gives up
the files that the code gives up: the rest of the folder. `Exit` ends the process
in any state, the index stays, and `Initialize` starts the next one.

`expected` is set when a notification is handled, the last one about a file
counting, and forgotten for files whose job failed or that changed unsaved.

### `Cancellation`: flags and the parser

Per call of `Builder::build`: where the builder is (the lifetime of the flag ends
with `returned`), the atomic that the parser reads, who holds a strong reference
to it, and the polling thread. A poll of a flag that no longer exists returns
anything (`Poll`).

### `PartialPaths`: stacks with variables

The operations of `partial.rs` as pure operators: the two kinds of stacks,
`unify`, the bindings of variables, `apply_*_bindings`, appending an edge or a
path to a path, resolving a jump to an attached scope, the cyclicity tests
and `shadows`. An operation that can fail returns a set with the result or the
empty set. A deque is a sequence here: that this is sound is what `Lists` shows.
Loops are those of `Loops`, recursive functions with the step of the loop as a
parameter. `AddScopes` and `AddSymbols`, which in the code call themselves through
`unify`, are recursive functions on additions (a variable, a stack, the bindings so
far). Nothing says how often they call themselves; that their results are
bindings is part of the definition so that the functions are known to exist.

### `SavedPaths`: partial paths in the database

`from_partial_path` and `to_partial_path`: nodes become ids made of a file's
name and a number and are looked up again when a path is loaded. What the
stitcher loads has gone through both.

### `PathMeaning`: what a path has to mean

The reference definition for the two modules: no partial stacks, no
variables. `Walk` visits nodes one by one with concrete stacks, `Means` compares a
partial path with the walk of its nodes, `Resolutions` and
`UnshadowedResolutions` search the whole graph with concrete stacks. What is always
true of the paths that are stitched is here as well: `MadeOfEdges` for the paths of
files, `OfQuery` for those of queries (see 5).

### `Stitcher`: files and queries

| State | Code |
|---|---|
| `graph`, `settings` | the stack graph; `StitcherConfig` and `max_work_per_phase` |
| `queue`, `next`, `initial`, `work` | `ForwardPartialPathStitcher` |
| `similar` | `SimilarPathDetector` |
| `task`, `step` | which file or reference the caller is at, and where in its loop |
| `stored`, `database`, `loaded` | the stored paths; `Database` and what `SQLiteReader` has marked as loaded |
| `found`, `answers` | `reference_paths` and `actual_paths` of `Querier::definitions` |

First `find_minimal_partial_path_set_in_file` for each file, over
`GraphEdgeCandidates`; then `Querier::definitions`, one reference after the other,
over the stored paths: the database and its marks persist from one to the
next. Either the paths are loaded as they are asked for (`SQLiteReader`) or
all are there at first (`cli/test.rs`). `Extend` is a whole call of `extend` for
one path of the queue, so a phase is as many steps as it does work. A degree that
is not in the table and a cycle that cannot be rebuilt are panics in the code;
`Extend` is not enabled then, and since `Over` is possible only at the end, a
panic is a deadlock, which the run looks for.

### `SharedSequences`, `Lists`: deques and keys

`SharedSequences` is what a deque promises: a sequence of its own per name.
`Lists` is the arena of cells that deques share. A deque is a list and whether it
is stored `backwards`; `Directed` turns it round before it is used at the other
end, with the reversal that the first cell of the list remembers, or with new cells
(`EnsureReversalAvailable`, `ReversalAdded`). `ImplementsSharedSequences` maps a
deque to what reading it gives. The keys of the path database are the other part: lists that are interned
cell by cell, so that equal keys are equal handles.

### `Interning`: strings behind raw pointers

The buffers of `InternedStringArena`, with their capacity and what is used of it,
and for each table of a graph (symbols, strings, files) the strings in the order of
their handles. A pointer is a buffer and a position.

### `StackGraph`: graphs, copied, saved and loaded

The arenas of nodes, files and ids, the outgoing edges in the order of their
sinks, the degrees, spans and other notes. `AddFromGraph` is the
whole of `add_from_graph`, with its error for a file that is there already and its
panic. `Save` is `from_graph_filter` and `LoadInto` is `load_into`, which
stops where it fails: at a file that is there already, or at a node whose attached
scope is in a file that is not (`Resolves`; `ScopeFiles` gives the file of a payload's
scope). What is said of a node, its `info`, has a field for what is saved, `span`
(which stands for `span` and `syntax_type`), and one for each thing that is not:
`line`, `name` (the full name) and `definiens`. Filters choose files; the filters of
single nodes and edges that `serde/filter.rs` allows are left out. The loops of the code are `Loop` with the step of the loop and
what is known before it, and filters are `Only`. A graph has the files of one of the
sequences in `Started` at first; a name occurs once in them (`StackGraphAssumption`).

### `GraphBuilder`: from rules to a stack graph

The rules of a language are external: executing them gives a graph of their own
(`Constructions`), whose nodes refer to one another, to the root and the jump
node and to nodes that the caller injected. `builder` is the `Builder` with its
table of remapped ids; the nodes and edges are loaded one per step, any of which
may fail and leaves what was loaded. `BuiltAsConstructed` compares the result with the
construction through some one-to-one map, not through the ids.

### `Opening`: one file, many processes

`name` is the file that has the name of the database at present, `db` the files
that are open anywhere with their committed tables. `proc[p].at` follows
`SQLiteWriter::open` (or the reader's, or the server's `ensure_compatible_database`):

    exists -> connect -> pragmas -> create -> commit -> indexes -> open
                                 -> check -> indexes -> open
                                          -> remove -> exists

SQLite, the file system and death are external. Any other error that the code returns
through `?` is `Breaks`, possible from the connection on, with its transaction rolled
back. `interrupted` is a history variable for `EmptyOnlyIfInterrupted`: the files
whose process died or failed while it was to initialise them, or that were
created by a process that had seen another file (`Connect`).

## 4. Runs

| Run | Instance | States | Shows |
|---|---|---|---|
| `indexing_one` | 1 command-line writer; files `c, a, b`, of which `c` is not supported; a good and a broken content; 1 node path, 1 root path; `--continue-from` absent, `a` or `b`; `--force` or not; a file timer; clean of one file or all | 30 thousand | `ReporterNeverPanics`, `OkRunCovers` |
| `indexing_two` | 2 writers, one a language server job; one file with 3 contents, 2 paths each, edited at any time | 113 thousand | `IInv`, `StoredExactly`, `ImplementsFileIndex`, `CallsReturn` |
| `reader` | one file, 2 contents that share a node; 6 paths, 2 of them from one node; 2 query stacks; 3 symbols of which two differ in case; calls that fail at any row and are repeated | 376 thousand | `IInv`, `NodeLoadedExactly`, `HandlesValid`, `ExtensionsFound`, `AddedPerPattern` |
| `language_server` | folder `outer` with files `a`, `b`, in it folder `inner` with `b`; a good and a broken content; 2 jobs waiting besides the running one; events that remove and add a folder; time limits | 640 thousand | `IInv`, `QuietIndexMatches`, `ThreadStops` |
| `cancellation` | 2 builds, flags raised for one or for both | 900 | `IInv`, `StoppedOnlyIfRaised`, `CancelReachesParser`, `PollersEnd` |
| `stitching` | two files: a call with an attached scope, and the function it calls; every combination of up to 3 of 8 further edges (two ways to the same scope, a cycle, precedence, a dropped scope); paths loaded lazily or all at once, phases of 2 steps or unlimited, similar paths detected or not | 15 thousand | `PathsMean`, `ConcatenationsMean`, `PathsWellFormed`, `FindsResolutions`, `AnswersUnshadowed`, `FindsOnce`, `CyclesCut`, `CyclesRebuilt`, no deadlock |
| `structures` | 2 deques of 2 elements over 3 cells; 2 keys; 3 strings, one empty, one longer than the first buffers; graphs of 2 files, 2 nodes, 2 edges, one kind of node with a scope that may be in another file, copied and loaded into an empty graph and into one that has a file; rules that construct up to 2 nodes and 2 edges in a file that has up to 3 nodes | 336 thousand | `PointersValid`, `ReversalsMutual`, `IdsFindNodes`, `DegreesCountEdges`, `CopiesOfOneFile`, `KeysShared`, `ImplementsSharedSequences`, `CopiesFaithful`, `LoadsWhatWasSaved`, `FailuresKeepGraphs`, `BuildsBesideNodes` |
| `opening` | 3 processes, each a writer, reader or server, that die and fail anywhere; at first no file, or one of the current or of an old version; 2 files | 1.17 million | `OneVersion`, `OpenedIsReady`, `EmptyOnlyIfInterrupted` |
| `indexing_store_error` | as `indexing_one` | | violates `StoreErrorIsAccepted` (finding 1) |
| `reader_directory` | as `reader` | | violates `LoadedFileExists` (finding 2) |
| `cancellation_lifetime` | as `cancellation` | | violates `FlagIsAlive` (finding 3) |
| `stitching_shadowing` | one file, one reference, two ways to one scope, one edge with precedence | | violates `AnswersUnshadowed` (finding 4) |

Why the bounds are enough:

* Files interact only through the list order, the mark and `Abort`: three files
  have one before, one at and one after the mark `a` or the failing file. They do not
  interact in the tables, whose statements touch one file or a clean scope.
* Two writers give every overlap of two transactions; a third could only wait
  for the same lock. Three contents allow an edit between reading and storing
  and another one after it. One path per table would not show a partial insert
  within a table followed by the other; with two contents of two paths each,
  any mixture of them is visible.
* In `reader`, one file is enough because the only thing two files share is a
  statement's snapshot and the pattern marks; two contents are enough to have a
  graph older than its paths. One node has two paths in a content, so that a call for
  it can fail between them. One stack is a prefix of the other, the shorter one has
  a variable, and the symbols in two of the preconditions differ only in case. With two
  files the instance has more than ten million states.

* In `language_server`, two waiting jobs are enough to have a removal and an
  addition of overlapping folders in one event, either order of two
  notifications, and both together with a running job. A third job adds no new
  pair of neighbours. The bound `MaxJobs` is a guard of the notifications.
* Builds share nothing but the flag that `Raise(Builds)` stands for, so two show
  every interaction. `Cancellation` may stop when all builds have returned, so
  its runs do not check deadlock.
* In `stitching`, the fixed edges make every kind of node take part: pushing and
  popping a symbol with and without scopes, a jump, a drop, the root node, another
  file. Two symbols and one scope suffice to tell every two stacks of length 2
  apart (`MCInputs`: all stacks of up to 2 symbols and 1 scope, more than any
  path consumes and leaves a variable for). `MaxSteps` bounds the reference search
  only; no walk that resolves is longer, else `FindsResolutions` would fail.
  There are two settings, for the two kinds of callers. The first is that of
  `find_minimal_partial_path_set_in_file` and `find_all_complete_partial_paths`:
  they check cycles at join nodes only (`stitching.rs:1224`, `1288`), the work of a
  phase is not bounded, and paths are loaded as they are asked for. The second is
  that of a caller with a loop of its own over `process_next_phase`, as the
  functions of the C interface are for (`c.rs:1467-1567`): a database that has all paths,
  `check_only_join_nodes` left at its default, `false` (`stitching.rs:881`), and a
  bound on the work of a phase. No `find_*` function runs with it; the model uses it for
  both parts of a run, the paths of the files and the query.
  `AnswersUnshadowed` holds here because no path that is dropped as similar is
  shadowed differently from the one that is kept; `stitching_shadowing` has
  the graph where it is.
* In `structures`, the structures share no state, so the run explores them one at a
  time (`subject`). Three cells are enough for a list, its tail and a reversal; two
  nodes besides the root and the jump node, and two edges, for a degree that is
  multiple, an edge that is replaced and one out of order. The bounds on cells, nodes
  and edges are where these states end, so deadlock is not checked.
* In `opening`, a third process opens what the first one removes while the second
  one still has it open. The second file is the one created after a removal; a
  third creation is left out. A process waits for ever when the bound on files is
  reached, so deadlock is not checked.

Mutants: for each property of a passing run a mutated definition in the
module (`... Mutated:`), which a bug of that kind would make of the action, breaks it.

### Fairness

`FairSpec` assumes weak fairness of `Progress(w)` per writer: a process inside a
call continues to take steps as long as it can. It does not assume that building
a graph succeeds, that the lock is obtained, or that a killed process is
restarted. Where a writer waits, `DatabaseBusy` is enabled as long as the lock
is held and `Locks` is when it is not, so `Progress` is enabled throughout:
SQLite's busy timeout turns waiting into an error. File lists are finite.
`CallsReturn` holds although another writer may take the lock again and again.

`LanguageServer` assumes weak fairness of the job thread, and of a handler that
is sending or is about to raise the flag: neither waits for anything but the
mutex, which is free between handlers. The editor owes nothing. `ThreadStops`
needs no bound on jobs: nothing is scheduled after `shutdown`. That a build ends
is part of the assumption.

`Cancellation` assumes that the polling thread and the builder run, and that the
parser reads the atomic again and again, but not that a parse ever finishes.

## 5. Proofs

`Indexing_proofs` proves, for every set of files, contents, paths and writers
that `IndexingAssumption` allows (it asks for the constants' types only):

* `Inductive`: `Spec => []IInv`
* `TypeCorrect`: `Spec => []TypeOK`
* `StoresExactly`: `Spec => []StoredExactly`
* `Implements`: `Spec => ImplementsFileIndex`, i.e. `Spec => Index!Spec`

The argument. `StoredExactly` speaks of `db`, which only `Commit` changes, to
`tx`. So `tx` must be exact when a writer stands before `COMMIT`, and that
depends on each statement before it. `IInv` has three parts:

* `LockInv`: a writer is between its first statement and `COMMIT` exactly when
  it holds the lock, at most one does, and with no lock `tx = db`. It makes
  every statement of one writer a stutter for the transaction of any other.
* `JobInv(w)`: what the locals hold at each location; the transaction's scope is
  the current file, the paths to insert are those of the content that the tag names.
* `TxInv(w)`: how far the transaction has come: outside its target it equals
  `db`; which tables are already empty; that rows inserted plus paths remaining
  are the paths of the content; and before `COMMIT` the three possible results.
  For an error it also keeps `db.graphs[f] = {}`, which makes the step a
  `StoreError` of `FileIndex`.

`tx` is compared with `db`, not with a copy from the start of the transaction:
that is right because nobody else can commit while the lock is held.

`ReporterIsSafe` (`Spec => []ReporterNeverPanics`) needs `ReporterInv`: which of the
two flags of the reporter are set is a function of where the call is and of
whether it has failed (`FlagsAt`). `OkCoversFiles` (`Spec => OkRunCovers`) assumes
`Alone`: one writer, on files that are edited only between its calls. Without it the
property is false for a good reason, as another writer may clean what this one
stored. The property compares with what the call was asked for, the files of its list
from the first occurrence of the mark on (`Asked`), and not with what it has taken. Its
invariant `CoverInv` says that the tag a call works with is that of the content,
that each file which was asked for and which the call is done with is covered, and that
none was asked for as long as the mark is still to come (`MarkInv`).

For `Implements`, every action except `Commit` leaves `db` alone and is a
stutter. `Commit` changes the entries of the target only: `Clean` of the scope,
`StoreResult` or `StoreError` of the file, by `TxInv`; rows outside the target
are equal, so their entries are.

`Cancellation_proofs` proves, for any set of builds, `Inductive`
(`Spec => []IInv`) and `NeverStoppedByMistake` (`Spec => []StoppedOnlyIfRaised`).
The atomic may be set by a poll of a dead flag, so "set only by a raised flag" is
not invariant; it is as long as the builder has not returned, which is all a
parser can see.

`Structures_proofs` proves of `Interning` `PointersStayValid`, `Spec => []PointersValid`, for any strings,
sizes and capacities. `PointersValid` is inductive as it stands: what
was placed keeps its place, because a buffer that is full is moved as a whole
and never grows, and a new string begins where the last one ended.

`Opening_proofs` proves, for any processes, versions and number of files,
`Inductive` (`Spec => []IInv`), and from it `VersionsUnique`, `OpensReady`
and `EmptyIfInterrupted`. `IInv` says of each file that it has its tables and one version, or
neither; and of each process what it knows of the file it has open: between
its first statement and `COMMIT` it holds the lock of a file without tables,
before `remove` it has seen another version, once open the version is right.
Whether the file that it then removes is the one it has seen is another
question (see 6, Observed).
What a process knows stays true while others act, because tables and versions
are only ever added, by the process that holds the lock (the lemmas
`...Keeps`).

`EmptyIfInterrupted` (`Spec => []EmptyOnlyIfInterrupted`) needs
more (`EmptyInv`): only a process that saw no file is on its way to `init`, and a lock
on a file is held by a process before its `COMMIT`. A process that gives up because
the database is busy leaves the tables to the one that holds the lock. One that fails
otherwise between creating the file and `COMMIT`, or dies there, leaves an empty
file, which `interrupted` records.

`LanguageServer_proofs` proves, for any folders, files, contents and numbers of
waiting jobs, `Inductive` (`Spec => []IInv`) and `QuietMatches`
(`Spec => []QuietIndexMatches`). The index lags behind the notifications,
so `Tracked(f)` says what each job still to run will do: if something is expected of
`f`, the last job about `f` among the queue and the handler's jobs asks for it
(`LastAsks`), or no job is about `f` and the running one will leave it, or the index
has it already (`IndexedSoon`, `AbsentSoon`). A job is appended, taken or given up;
the lemmas say what each does to "the last job about `f`".

`Reader_proofs` proves, for any files, contents, paths, symbols and stacks
that `ReaderAssumption` allows (the constants' types, and that the nodes of a stored
path are nodes of the graph it is stored with):

* `Inductive`, `Spec => []IInv`, and from it `LoadsExactly` and `HandlesStayValid`;
* `ExtensionsAreFound`, `Spec => []ExtensionsFound`, if `NoEscapes`: `LIKE` finds each
  symbol under its own pattern. It does unless the symbol has a backslash (see 7).

`IInv` relates the marks, the statement in progress and the database:
`HasPaths(n, rows)` says that the paths loaded for a node and the rows to come make
up the paths of one content (or none), each once; `HasPart` says the same of a part of
them, which is what there is for a node in `cut`, of which a call has failed. A mark can
be left by such a call (`storage.rs:586`, `606`), so what the comments at `storage.rs:579`
and `:689` promise ("Ensure ... are loaded") holds only for what is not in `cut`.
`RootsInOrder` says that all patterns of a stack that was answered are marked and none of
them is being read, and `NothingLost` that the rows of a marked node or pattern are in the
database or still to come in this call, unless it is in `cut` or the index is no longer
the one that was read. That the pattern of a stack finds
exactly what is compatible with it, and the tables of `Database` find it again,
are lemmas on `Patterns`, `Like`, `AddedUnder`, `LookedUp` and `Compatible`, for stacks
of any length.

`Structures_proofs` proves of `Lists`, for any names, elements and keys, and arenas of any size:

* `DequesAreSequences`, `ListsSpec => ImplementsSharedSequences`, i.e. `ListsSpec => Abstract!Spec`;
* `ReversalsStayMutual`, `ListsSpec => []ReversalsMutual`;
* `KeysAreShared`, `ListsSpec => KeysShared`.

`Elems` and `SameList` recurse along the tails of cells. As induction theorems with
an operator for a parameter cannot be used here, each fact about them is
proved by the least handle that violates it: a cell comes after its tail
(`Cells`), so its tail is no exception, and then neither is the cell. The existence of
the recursive functions is proved in the same way. The lemmas then follow the code:
`ReversalAddedIs`, `EnsureReversalIs` and `AppendOK` say that a list once made never
changes (`Kept`), `DirectedIs` that turning a deque round keeps what it holds, and
`PushIs`, `PopIs`, `CopyIs`, `IterIs` and `EqualsIs` map each operation to the one
of `SharedSequences`. `KeyInv` says that no two cells of keys are the same, hence that
no two lists are (`DistinctLists`).

`Structures_proofs` proves of `StackGraph`, for any graphs, file names, payloads, local ids and bounds
that `StackGraphAssumption` allows:

* `Inductive`, `GraphsSpec => []IInv`;
* `IdsAlwaysFind`, `GraphsSpec => []IdsFindNodes`;
* `DegreesAlwaysCount`, `GraphsSpec => []DegreesCountEdges`;
* `CopiesOfOneFileNeverPanic`, `GraphsSpec => []CopiesOfOneFile`;
* `FailuresAreSmall`, `GraphsSpec => FailuresKeepGraphs`;
* `SavedStaysContent`, `GraphsSpec => []ContentInv`;
* `CopiesAreFaithful`, `GraphsSpec => CopiesFaithful`;
* `LoadsAreFaithful`, `GraphsSpec => LoadsWhatWasSaved`.

`IInv` is `Intact(g)` for every graph: each field of it is a sequence of the right
length, a node is in the table of its file under its id and nowhere else, the edges of
a node are ordered and end in the graph, and degrees count. Of what was saved it says
that every id names a saved file and every end of an edge a saved node, which is why no
load fails at an edge. It does at a file that exists, and at a node whose attached scope is
in a file that is not there (`ScopeFiles`, `serde/graph.rs:107`). The lemmas follow the
calls: `WithFileIs`, `WithNodeIntact`, `WithEdgeIntact` (inserting at the place that the
binary search finds keeps the order, and adds one source to the sink), and then each
loop with what holds after `i` of its steps. A copy of several files needs that the
files still to come have no nodes in the new graph, and the copy of one file that all
nodes of the other graph are known when its edges are reached. As a proof cannot be
about `Loop` with any step (the step is an operator), each loop has its own lemma (`FilesLoop` to `EdgesLoop`).
`IInv` itself was checked by TLC on the instance of `structures`, where it holds.

The last two and `FailuresAreSmall` need more. `ContentInv` adds to `IInv` that what is said of nodes and edges
is said of those of the graph (`Described`: `load_into` writes to `source_info` at the
node that it has just added), and that what was saved is part of a graph that has not
changed since. Copies and loads then go through the same stages: first the files, which
are new, so that nothing of the graph is taken for a part of the copy (`FilesAddedAre`);
then the nodes, where a map from old to new handles grows (`CopiedNodesAre`) or a saved
id finds the node that it was given to (`LoadedNodesFill`); then the edges, of which each
is there exactly once it has been passed (`CopiedEdgesAre`, `LoadedEdgesJoin`). A
copied file with edges to later files would stop with a panic, so in a copy that ends
every edge has both its ends. What the stages give is that the new graph mirrors the
old one (`Mirrors`): each node of the chosen files has one of the same id there and the
other way round, with the same payload and description, and between two of them lead
the same edges with the same precedence. Two graphs that mirror each other have the
same `Content`; for a load (`LoadShows`) all but lines, full names and the
spans of what definitions define, for a copy
(`CopyShows`) all but full names and the notes on edges. TLC checked `ContentInv` on
the instance of `structures` before the proof.

`PathMeaning_proofs` and `Stitcher_proofs` prove, for any nodes, files, references,
settings and edges:

* `PathsAreRight`, `Spec => []IInv(EveryStack)`;
* `PathsAlwaysMean`, `Spec => []PathsMean`;
* `PathsAlwaysWellFormed`, `Spec => []PathsWellFormed`.

The assumptions are those of the three modules. `NodesAssumption`: a node has the
symbol and scope its kind says; only exported scopes are attached to symbols
(`verify_node` checks both); the attached scope of a reference exists.
`SavedPathsAssumption`: a file and a local id name one node. `StitcherAssumption`:
there is one root node, the order of the arena has each node once, precedences are
natural numbers, `Inputs` are stacks, and no edge leaves the jump node. The last is
an assumption about the rules: the code does not refuse such an edge. A path that
ends at the jump node continues at the scope on top of the stack, and one that left it
by an edge would not mean what its nodes do.

`PathsMean` is not inductive: it tries the paths under construction with the stacks
`Inputs`, but a path is joined to one that other stacks than these reach, and was
stored in an earlier task. `IInv(stacks)` therefore speaks of all paths that are
kept anywhere, and for the theorem `stacks` are all there are (`EveryStack`). TLC
checked `IInv(Inputs)` on the instance of `stitching` before the proof, where it holds.
It says:

* a path of a file, whether under construction, stored or loaded, is `MadeOfEdges`.
  `Open`: its precondition demands symbols only, the rest of both stacks is variable 1,
  each scope stack that it finds attached is a variable of its own, and no other
  variable is in its postcondition. `StartFits`, `EndFits`: its first node shows in
  the precondition, its last one in the postcondition. And it `Means` what its
  nodes do to each stack.
* a path of a query is `OfQuery`: it has no variables, and its postcondition is
  what a walk along its nodes that starts with empty stacks ends with.

The argument follows the calls.

* `append_to_partial_path`: for each kind of node `VisitOpen` says that the change it
  makes to an open path is the one a visit makes to every stack that the path
  accepts, and that the symbol a pop demands, if none is held, is what
  the next symbol of a stack must be; new scope variables are new (`FreshIsNew`).
  `MeaningLonger` and `MeaningJumped` carry this over to `Means`; `EdgeAppended` is
  the whole call with the resolution of the jump.
* `concatenate`: `UnifiedGround` says that unifying known stacks with those an open
  path demands succeeds exactly when the path accepts them, and binds each variable to
  what `Means` takes it for. As `add` calls itself through `unify`, that it has a result at
  all is proved by the least fixed point of a monotone function (`FixedPoint`,
  `AddScopesExists`); with ground stacks it never gets to the second call.
  `ResultSubstituted` says what substitution makes of the postcondition. `JoinFits` is
  about the node that both paths share: `compute_join` takes its effect back on one
  side before it unifies, `HalfOpens` of the one and of the other path say that there is
  something to take back, and each kind of node is a case. `ConcatFollows` and
  `FollowsResolved` are the whole call, `PathAppended` is its result as `OfQuery`.
* `PathRestored`: what is loaded is the path that was saved, so `RowsRestored` and
  `LoadGood` say that a database has paths made of edges only.
* The stitcher: `InitialRight` for the paths that a file or a query starts with,
  `ExtensionsAre` for `extend`, with the filters `FilteredIs` and `KeptLoop`, and a lemma
  for each action.

`PathsMean` and `PathsWellFormed` follow (`RightMeans`): a path without variables
accepts the empty stacks only.

Some definitions have the form they have because of the proofs: `ReversalAdded` gives
all new cells at once instead of one after the other, `SameList` is a function of one
handle that returns the equal ones, `Found` of `Reader` says which stored rows a
stack finds as a set, the loops of `StackGraph`, `PartialPaths` and `Stitcher` are
recursive functions whose steps have names (`UnifyNext`, `Arrive`, `Kept`,
`LoadRequest`). TLC checks the runs with these.

Only model-checked:

* `CallsReturn`, `ThreadStops`, `CancelReachesParser` and `PollersEnd`: liveness under
  fairness is out of the prover's reach.
* `FindsResolutions`, `FindsOnce`, `CyclesCut` and `CyclesRebuilt`: they compare whole
  searches, which heuristics cut off, with a search of the graph; an argument for
  every graph is not known. `AnswersUnshadowed` is false in general: finding 4.
* `AddedPerPattern`: it counts the patterns of calls one after the other.
* `ConcatenationsMean` tries to join any two stored paths, with variables in both.
  That is more than the stitcher does: it joins stored paths to the path of a query.
* `BuildsBesideNodes` of `GraphBuilder`, which searches the one-to-one maps between two
  graphs.

## 6. Findings

1. `store_error_for_file` (`storage.rs:294`) inserts without deleting an older
   row. If a file that is in the database changes and then fails to index or times
   out, or is indexed again with `--force`, the primary key refuses the row.
   The error ends `index_all`; later files are not indexed and the old content's
   result stays. `OkRunCovers` holds because such a run does not return `Ok`.
2. `load_graphs_for_file_or_directory` panics at a file that is stored with an
   error (`storage.rs:557`): its graph is the empty default graph. The visualize
   command loads its paths this way.
3. The thread that polls a cancellation flag may check it after its lifetime
   (`util.rs:70`): the comment at `util.rs:53-64` argues from `self.flag` being
   the only other reference to the atomic, but `upgrade()` makes another one. The
   thread is suspended between `upgrade` and `check`, the builder drops its
   reference and its caller returns.
4. Similar path detection can lose a definition (`stitching.rs:1055`, `cycles.rs`).
   Of two paths with the same ends and the same stacks, neither of which shadows
   the other, one is kept, with its edges. If that one is shadowed by a path to
   another definition while the other would not have been, the definition is
   missing from the answer. In the run, `q -> b -> m -> q2` is kept and shadowed by
   `q -> b -> q1`; `q -> a -> m -> q2`, which nothing shadows, is never found. Which
   of the two is kept depends on the order in which nodes were created.

Observed, without a run of its own:

* A file that is being indexed when the language server shuts down, or when the time
  for its folder is up, is stored as an error for its content and skipped as "cached
  error" from then on. A cancelled parse is stored as "failed", not as "timed
  out" (`lib.rs:634-636`, `index.rs:364`).
* A job sent between the timeout of `recv_timeout` and the check of the flag at
  shutdown is accepted and never run. Removing a workspace folder cleans files that
  an enclosing folder still contains; `expected` follows the code there.
* An unsupported file in a directory passes without a call of the reporter
  (`index.rs:298`, against `reporter.rs:15-17`).
* A root path whose precondition has no symbols but a variable is compatible with
  every stack, but neither loaded (`storage.rs:762`) nor found (`stitching.rs:360`).
  `ExtensionsFound` is the part that holds, for stacks and preconditions that
  are not empty.
* The degrees of a path database are a table that ends at the last node in which a
  loaded path ends (`stitching.rs:538`, `arena.rs:365-370`). Asking for a node
  beyond is a panic: after a jump, if the attached scope was created after every
  node in which a path ends. In `stitching` there is always a later node.
* A node, pattern or file is marked before its rows are read (`storage.rs:586`, `650`,
  `545`), and stays marked if the call is cancelled (line 606) or a row fails. The next
  call for it returns `Ok` with the part that the first one got to, against the comments
  at `storage.rs:579` and `:689`. The commands end a query that failed; any other caller
  has to `clear` the reader. In `Reader`, `cut` says for which calls this is so.
* `load_paths_for_root` remembers patterns, not paths (`storage.rs:650`, `663-681`), so a
  root path is added once for each pattern that finds its row, against "it's your
  responsibility to only add each partial path once" (`stitching.rs:327-328`). Two
  patterns find one row if one is that of a stack with a variable and the other that of
  a longer stack; or, as `LIKE` ignores case and the stacks of queries have no
  variables, those of symbols that differ only in case. `AddedPerPattern` says that it is
  no more often; with such an `Alike`, `FindsOnce` of `Stitcher` fails.
* A backslash in a symbol is not escaped (`storage.rs:753`), so the rows of that
  symbol are not found.
* `SimilarPathDetector::add_path` returns the opposite of what its comment says
  (`cycles.rs:99-101`); its callers agree with the code.
* `add_from_graph` panics for a graph of two or more files with edges from the root
  node into two of them (`graph.rs:1645-1651`); only the built-ins, a graph of one
  file, are copied. For a file that exists its doc says it panics, and the code
  returns an error after it has created the files before. Notes on edges and
  full names are not copied; full names, lines and `definiens_span` are not saved
  (`serde/graph.rs:473-476`, `139-147`).
* An empty database file makes every later `open` fail, and
  `ensure_compatible_database` repairs only an incorrect version. It is left by a
  process that dies, or whose call fails (a full disk, an I/O error), before `init`
  has committed (`storage.rs:167`, `179-182`), or when a file is removed between `exists`
  and `Connection::open`. `EmptyOnlyIfInterrupted` says that nothing else leaves one.
* `ensure_compatible_database` closes the connection through which it has read the
  version and then removes the file by its name (`lsp.rs:167`). Of two servers that both
  see the old version, the second can remove the database that the first one has made
  anew, with what it has indexed since, or fail because there is none.
* The id that replaces one in use is not advanced from one existing node of the file to
  the next (`lib.rs:914-925`): with two existing nodes in the way of the rules' nodes,
  both get the same id, and the second `add_*_node(...).unwrap()` panics. The tests
  `can_support_preexisting_nodes` and `can_support_injected_nodes`
  (`tests/it/builder.rs:18`, `:45`) have one node, where it works; the commands
  build only into new files. `BuildsBesideNodes` says that this is the only panic.
* `SupplementalArena::with_capacity` indexes an empty vector (`arena.rs:299-301`);
  nothing calls it.

## 7. What is not modelled

* SQLite's internals (among them the `-wal` and `-shm` files that stay when a
  database is removed), the file system and process scheduling, beyond the external actions above.
* Executing graph construction rules, parsing and the loader: external languages
  with pure results; the models keep what is constructed, and that it may fail or be
  cancelled. Spans and debug information that the builder copies.
* The characters of symbols: what `LIKE` finds for a symbol is the constant `Alike`.
  A symbol that contains a backslash would be one that is not alike to itself;
  `ExtensionsFound` then fails, as described above. The runs have none.
* Filters of single nodes and edges in `to_serializable_filter`: the program filters by
  file or not at all.
* `find_local_nodes`, the orders between paths (`cmp`, `matches`), handle sets and the
  memory of arenas: used by the C API, by tests or for output only.
* `serde/stitching.rs`, which writes a whole path database as JSON for debugging.
* The lookup of references by position and the conversion of columns (`lsp-positions`).
* Statistics, printing, HTML, the C API's memory management, argument parsing,
  project templates, and the grammars and rules of single languages.
