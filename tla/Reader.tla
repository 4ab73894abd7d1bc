------------------------------- MODULE Reader -------------------------------
(***************************************************************************)
(* SQLiteReader: a stack graph and a database of partial paths, loaded     *)
(* lazily from an index that others keep changing.                         *)
(*                                                                         *)
(* The index is FileIndex, which module Indexing implements.  Each row a    *)
(* query yields is a step, so that the index changes, the call is           *)
(* cancelled or a row fails between any two.  SQLite is external: the rows  *)
(* of a statement, and the statements run while it is active, come from one *)
(* snapshot, taken at its first row.                                        *)
(***************************************************************************)
EXTENDS Candidates, FiniteSets

CONSTANTS
  Files, Versions, Messages, Scopes,  \* as in FileIndex
  LocalIds,    \* local ids of nodes in a file
  NodesOf,     \* content -> the local ids of its graph
  Paths,       \* partial paths; a content's paths are its own
  PathsOf,     \* content -> its minimal partial path set
  StartOf,     \* path -> local id of its start node, or "root"
  NodesIn,     \* path -> the local ids of the nodes it refers to
  PreOf,       \* path from the root -> its symbol stack precondition
  Queries,     \* symbol stacks that paths ending at the root can have
  Directories  \* sets of files that load_graphs_for_file_or_directory covers

ASSUME ReaderAssumption ==
  /\ NodesOf \in [Versions -> SUBSET LocalIds]
  /\ PathsOf \in [Versions -> SUBSET Paths]
  /\ StartOf \in [Paths -> LocalIds \cup {"root"}]
  /\ "root" \notin LocalIds
  /\ NodesIn \in [Paths -> SUBSET LocalIds]
  /\ \A v \in Versions : \A p \in PathsOf[v] :
       NodesIn[p] \cup ({StartOf[p]} \ {"root"}) \subseteq NodesOf[v]
  /\ \A p \in Paths : StartOf[p] = "root" => PreOf[p] \in Stacks
  /\ Queries \subseteq Stacks
  /\ Directories \subseteq SUBSET Files

VARIABLES
  index,          \* file -> what is stored of it
  graph,          \* file -> the content whose graph is loaded, if any
  loaded_graphs,  \* files
  loaded_node_paths, \* nodes
  loaded_root_paths, \* patterns
  db,             \* file, path -> how often the path was added to the database
  call,           \* the call in progress
  snapshot,       \* the index as the active statement sees it
  rows,           \* rows it has not yielded yet
  panicked,
  answered,       \* history: nodes and stacks whose extensions were asked for with Ok
  cut,            \* history: nodes and patterns whose rows a call did not get through
                  \* before it failed, since path data were cleared
  settled         \* history: the index has not changed since graphs were cleared

readerVars == <<graph, loaded_graphs, loaded_node_paths, loaded_root_paths, db,
                call, snapshot, rows, panicked, answered, cut>>
vars == <<index, readerVars, settled>>

Store == INSTANCE FileIndex

-----------------------------------------------------------------------------
Nodes == Files \X LocalIds

AllPatterns == UNION {{Patterns(q)[i] : i \in 1..Len(Patterns(q))} : q \in Queries}

(* kind, what is asked for, the pattern that is read, those still to query. *)
Calls ==
  [kind : {"none"}] \cup
  [kind : {"directory"}] \cup
  [kind : {"node"}, node : Nodes] \cup
  [kind : {"root"}, stack : Queries, current : SUBSET AllPatterns,
   patterns : Seq(AllPatterns)]

Idle == [kind |-> "none"]

(* Extensions that a call has been asked for, and what it marks for them. *)
OfNode(n) == [kind |-> "node", node |-> n]
OfStack(q) == [kind |-> "root", stack |-> q]
OfPattern(pattern) == [kind |-> "root", pattern |-> pattern]

(* What the rows to come are for. *)
Reading ==
  CASE call.kind = "node" -> {OfNode(call.node)}
    [] call.kind = "root" -> {OfPattern(pattern) : pattern \in call.current}
    [] OTHER -> {}

TypeOK ==
  /\ Store!TypeOK
  /\ graph \in [Files -> SUBSET Versions]
  /\ loaded_graphs \subseteq Files
  /\ loaded_node_paths \subseteq Nodes
  /\ loaded_root_paths \subseteq AllPatterns
  /\ db \in [Files \X Paths -> Nat]
  /\ call \in Calls
  /\ snapshot \in [Files -> SUBSET Store!Entry]
  /\ rows \subseteq Files \X (Paths \cup {"graph"})
  /\ panicked \in BOOLEAN
  /\ answered \subseteq {OfNode(n) : n \in Nodes} \cup {OfStack(q) : q \in Queries}
  /\ cut \subseteq {OfNode(n) : n \in Nodes} \cup {OfPattern(p) : p \in AllPatterns}
  /\ settled \in BOOLEAN

NoIndex == [f \in Files |-> {}]

NoPaths == [row \in Files \X Paths |-> 0]

Init ==
  /\ Store!Init
  /\ graph = [f \in Files |-> {}]
  /\ loaded_graphs = {}
  /\ loaded_node_paths = {}
  /\ loaded_root_paths = {}
  /\ db = NoPaths
  /\ call = Idle
  /\ snapshot = NoIndex
  /\ rows = {}
  /\ panicked = FALSE
  /\ answered = {}
  /\ cut = {}
  /\ settled = TRUE

-----------------------------------------------------------------------------
(* The contents whose result is stored for f in an index s. *)
Stored(s, f) == {e.tag : e \in {x \in s[f] : x.kind = "result"}}

(* The rows of file_paths that start at a node, of root_paths under a pattern. *)
NodeRows(s, n) ==
  {<<n[1], p>> : p \in {x \in UNION {PathsOf[v] : v \in Stored(s, n[1])} : StartOf[x] = n[2]}}

RootRows(s, pattern) ==
  UNION {{<<f, p>> : p \in {x \in UNION {PathsOf[v] : v \in Stored(s, f)} :
                              StartOf[x] = "root" /\ Like(PreOf[x], pattern)}} : f \in Files}

(* load_graph_for_file_inner, reading from s: it returns the file ... *)
EnsureGraph(s, f) ==
  \/ f \in loaded_graphs /\ graph[f] # {} /\ UNCHANGED <<graph, loaded_graphs>>
  \/ /\ f \notin loaded_graphs
     /\ Stored(s, f) # {}
     /\ loaded_graphs' = loaded_graphs \cup {f}
     /\ graph' = [graph EXCEPT ![f] = Stored(s, f)]

(* ... or there is no row, or it is damaged, and the file is marked all the same ... *)
GraphFails(s, f) ==
  /\ f \notin loaded_graphs
  /\ Stored(s, f) # {} \/ s[f] = {}
  /\ loaded_graphs' = loaded_graphs \cup {f}
  /\ UNCHANGED graph

(* ... or it panics, as the graph has no such file: an earlier attempt      *)
(* failed, or what is stored is the empty graph of an error.                *)
NoSuchFile(s, f) ==
  IF f \in loaded_graphs THEN graph[f] = {} ELSE s[f] # {} /\ Stored(s, f) = {}

(* The statement is reset. *)
EndCall == call' = Idle /\ rows' = {} /\ snapshot' = NoIndex

Panic ==
  /\ panicked' = TRUE
  /\ EndCall
  /\ cut' = cut \cup Reading
  /\ UNCHANGED <<index, graph, loaded_graphs, loaded_node_paths, loaded_root_paths,
                 db, answered, settled>>

(* The call returns an error: what it has marked stays marked. *)
Fail ==
  /\ EndCall
  /\ cut' = cut \cup Reading
  /\ UNCHANGED <<index, loaded_node_paths, loaded_root_paths, db, panicked, answered, settled>>

Ready == call = Idle /\ ~panicked

-----------------------------------------------------------------------------
(* Calls. *)

(* load_graph_for_file: a query for a single row. *)
LoadGraph(f) ==
  /\ Ready
  /\ \/ /\ EnsureGraph(index, f)
        /\ UNCHANGED <<index, loaded_node_paths, loaded_root_paths, db, call,
                       snapshot, rows, panicked, answered, cut, settled>>
     \/ GraphFails(index, f) /\ Fail
     \/ NoSuchFile(index, f) /\ Panic

(* load_graphs_for_file_or_directory: files with errors are listed too. *)
StartDirectory(fs) ==
  /\ Ready
  /\ call' = [kind |-> "directory"]
  /\ snapshot' = index
  /\ rows' = {<<f, "graph">> : f \in {x \in fs : index[x] # {}}}
  /\ UNCHANGED <<index, graph, loaded_graphs, loaded_node_paths, loaded_root_paths,
                 db, panicked, answered, cut, settled>>

DirectoryRow ==
  /\ call.kind = "directory"
  /\ \E row \in rows :
       \/ /\ EnsureGraph(snapshot, row[1])
          /\ rows' = rows \ {row}
          /\ UNCHANGED <<index, loaded_node_paths, loaded_root_paths, db, call,
                         snapshot, panicked, answered, cut, settled>>
       \/ GraphFails(snapshot, row[1]) /\ Fail
       \/ NoSuchFile(snapshot, row[1]) /\ Panic

(* Mutated: the node is not marked, a second call loads its paths again. *)
StartNodeUnmarked(n) ==
  /\ Ready
  /\ \E v \in graph[n[1]] : n[2] \in NodesOf[v]
  /\ call' = OfNode(n)
  /\ snapshot' = index
  /\ rows' = NodeRows(index, n)
  /\ UNCHANGED <<index, graph, loaded_graphs, loaded_node_paths,
                 loaded_root_paths, db, panicked, answered, cut, settled>>

(* load_paths_for_node, for a node of the loaded graph.  The node is marked *)
(* before anything is read, and once it is marked the call returns Ok, even *)
(* if the call that marked it has failed.                                   *)
StartNode(n) ==
  /\ Ready
  /\ \E v \in graph[n[1]] : n[2] \in NodesOf[v]
  /\ \/ /\ n \in loaded_node_paths
        /\ answered' = answered \cup {OfNode(n)}
        /\ UNCHANGED <<loaded_node_paths, call, snapshot, rows>>
     \/ /\ n \notin loaded_node_paths
        /\ loaded_node_paths' = loaded_node_paths \cup {n}
        /\ call' = OfNode(n)
        /\ snapshot' = index
        /\ rows' = NodeRows(index, n)
        /\ UNCHANGED answered
  /\ UNCHANGED <<index, graph, loaded_graphs, loaded_root_paths, db, panicked, cut, settled>>

(* load_paths_for_root *)
StartRoot(q) ==
  /\ Ready
  /\ call' = [kind |-> "root", stack |-> q, current |-> {}, patterns |-> Patterns(q)]
  /\ UNCHANGED <<index, graph, loaded_graphs, loaded_node_paths, loaded_root_paths,
                 db, snapshot, rows, panicked, answered, cut, settled>>

(* Mutated: patterns that are marked are read again. *)
NextPatternAgain ==
  /\ call.kind = "root"
  /\ rows = {}
  /\ call.patterns # <<>>
  /\ LET pattern == Head(call.patterns)
     IN  /\ loaded_root_paths' = loaded_root_paths \cup {pattern}
         /\ call' = [call EXCEPT !.current = {pattern}, !.patterns = Tail(@)]
         /\ snapshot' = index
         /\ rows' = RootRows(index, pattern)
  /\ UNCHANGED <<index, graph, loaded_graphs, loaded_node_paths, db, panicked,
                 answered, cut, settled>>

(* The next pattern, once the statement for the last one is finished. *)
NextPattern ==
  /\ call.kind = "root"
  /\ rows = {}
  /\ call.patterns # <<>>
  /\ LET pattern == Head(call.patterns)
         Current(ps) == call' = [call EXCEPT !.current = ps, !.patterns = Tail(@)]
     IN  \/ /\ pattern \in loaded_root_paths
            /\ Current({})
            /\ UNCHANGED <<loaded_root_paths, snapshot, rows>>
         \/ /\ pattern \notin loaded_root_paths
            /\ loaded_root_paths' = loaded_root_paths \cup {pattern}
            /\ Current({pattern})
            /\ snapshot' = index
            /\ rows' = RootRows(index, pattern)
  /\ UNCHANGED <<index, graph, loaded_graphs, loaded_node_paths, db, panicked,
                 answered, cut, settled>>

(* to_partial_path finds every node of the path in the graph. *)
Resolves(row) == \E v \in graph'[row[1]] : NodesIn[row[2]] \subseteq NodesOf[v]

(* A row of file_paths or root_paths. *)
PathRow ==
  /\ call.kind \in {"node", "root"}
  /\ \E row \in rows :
       \/ /\ EnsureGraph(snapshot, row[1])
          /\ Resolves(row)
          /\ db' = [db EXCEPT ![row] = @ + 1]
          /\ rows' = rows \ {row}
          /\ UNCHANGED <<index, loaded_node_paths, loaded_root_paths, call,
                         snapshot, panicked, answered, cut, settled>>
       \/ EnsureGraph(snapshot, row[1]) /\ ~Resolves(row) /\ Fail
       \/ GraphFails(snapshot, row[1]) /\ Fail
       \/ NoSuchFile(snapshot, row[1]) /\ Panic

(* Before a row is used, the cancellation flag is checked; then the row may *)
(* turn out to be unreadable.  Preparing a statement may fail as well; a     *)
(* failure that leaves no row unread loses none.                            *)
RowFails ==
  /\ rows # {}
  /\ Fail
  /\ UNCHANGED <<graph, loaded_graphs>>

(* The rows, and patterns, are used up: the call returns Ok. *)
Finish ==
  /\ call # Idle
  /\ rows = {}
  /\ call.kind = "root" => call.patterns = <<>>
  /\ answered' = answered \cup (CASE call.kind = "node" -> {OfNode(call.node)}
                                  [] call.kind = "root" -> {OfStack(call.stack)}
                                  [] OTHER -> {})
  /\ EndCall
  /\ UNCHANGED <<index, graph, loaded_graphs, loaded_node_paths, loaded_root_paths,
                 db, panicked, cut, settled>>

(* Mutated: the database keeps paths of the graph that is gone. *)
ClearKeepingPaths ==
  /\ Ready
  /\ graph' = [f \in Files |-> {}]
  /\ loaded_graphs' = {}
  /\ loaded_node_paths' = {}
  /\ loaded_root_paths' = {}
  /\ answered' = {}
  /\ cut' = {}
  /\ settled' = TRUE
  /\ UNCHANGED <<index, db, call, snapshot, rows, panicked>>

Clear ==
  /\ Ready
  /\ graph' = [f \in Files |-> {}]
  /\ loaded_graphs' = {}
  /\ loaded_node_paths' = {}
  /\ loaded_root_paths' = {}
  /\ db' = NoPaths
  /\ answered' = {}
  /\ cut' = {}
  /\ settled' = TRUE
  /\ UNCHANGED <<index, call, snapshot, rows, panicked>>

(* Mutated: nodes stay marked, although their paths are gone. *)
ClearPathsKeepingMarks ==
  /\ Ready
  /\ loaded_root_paths' = {}
  /\ db' = NoPaths
  /\ answered' = {}
  /\ cut' = {}
  /\ UNCHANGED <<index, graph, loaded_graphs, loaded_node_paths, call, snapshot, rows,
                 panicked, settled>>

(* The graphs stay, and may be older than the index. *)
ClearPaths ==
  /\ Ready
  /\ loaded_node_paths' = {}
  /\ loaded_root_paths' = {}
  /\ db' = NoPaths
  /\ answered' = {}
  /\ cut' = {}
  /\ UNCHANGED <<index, graph, loaded_graphs, call, snapshot, rows, panicked, settled>>

(* Others index and clean. *)
StoreChanges ==
  /\ Store!Next
  /\ index' # index
  /\ settled' = FALSE
  /\ UNCHANGED readerVars

Next ==
  \/ \E f \in Files : LoadGraph(f)
  \/ \E fs \in Directories : StartDirectory(fs)
  \/ DirectoryRow
  \/ \E n \in Nodes : StartNode(n)
  \/ \E q \in Queries : StartRoot(q)
  \/ NextPattern \/ PathRow \/ RowFails \/ Finish
  \/ Clear \/ ClearPaths
  \/ StoreChanges

Spec == Init /\ [][Next]_vars

-----------------------------------------------------------------------------
(* Properties. *)

Times(f, p) == db[<<f, p>>]

(* Whatever happens to the index and to other calls: once a call for the    *)
(* extensions of a node returns Ok, the database has, each once, the paths   *)
(* from that node of one single content of its file, or none at all; a      *)
(* statement never shows a mixture of two indexings.  They are what the     *)
(* index has, while that stays.  If an earlier call for this very node       *)
(* failed on the way, some may be missing, but still none is of another     *)
(* content, and no call adds one a second time.                             *)
NodeLoadedExactly ==
  /\ \A n \in {x \in Nodes : OfNode(x) \in answered} :
       /\ \E ps \in {{}} \cup {PathsOf[v] : v \in Versions} :
            \A p \in Paths : StartOf[p] = n[2] =>
              /\ Times(n[1], p) > 0 => p \in ps
              /\ p \in ps => Times(n[1], p) > 0 \/ OfNode(n) \in cut
       /\ settled /\ OfNode(n) \notin cut => \A row \in NodeRows(index, n) : db[row] > 0
  /\ \A f \in Files, p \in Paths : StartOf[p] # "root" => Times(f, p) <= 1

(* Paths in the database refer to nodes of the loaded graph. *)
HandlesValid ==
  \A f \in Files, p \in Paths :
    Times(f, p) > 0 => \E v \in graph[f] : NodesIn[p] \subseteq NodesOf[v]

(* The candidates that Database finds among the loaded paths. *)
Found(q) ==
  {row \in Files \X Paths :
     StartOf[row[2]] = "root" /\ db[row] > 0 /\ Hits(q, PreOf[row[2]]) > 0}

StoredRootPaths ==
  UNION {{<<f, p>> : p \in {x \in UNION {PathsOf[v] : v \in Stored(index, f)} :
                              StartOf[x] = "root"}} : f \in Files}

(* Candidates are compatible, and found in one of the tables only; and      *)
(* while the index stays, all compatible root paths are found for every     *)
(* stack that was asked for with Ok, whatever was loaded before and whatever *)
(* failed, but for the stacks that share a pattern with a call that failed  *)
(* at its rows: for stacks and preconditions that are not empty.            *)
ExtensionsFound ==
  \A q \in {x \in Queries : OfStack(x) \in answered} :
    /\ \A row \in Found(q) :
         Compatible(q, PreOf[row[2]]) /\ Hits(q, PreOf[row[2]]) = 1
    /\ /\ q.symbols # <<>> /\ settled
       /\ \A i \in DOMAIN Patterns(q) : OfPattern(Patterns(q)[i]) \notin cut
       => \A row \in StoredRootPaths :
            PreOf[row[2]].symbols # <<>> /\ Compatible(q, PreOf[row[2]]) => row \in Found(q)

(* "it's your responsibility to only add each partial path once"            *)
(* (stitching.rs:327-328): the reader marks patterns, not root paths, and   *)
(* adds a path for each pattern that finds its row, but not more often,     *)
(* whichever stacks share patterns, calls fail and rows are stored again.   *)
AddedPerPattern ==
  \A f \in Files, p \in Paths : StartOf[p] = "root" =>
    Times(f, p) <= Cardinality({pattern \in loaded_root_paths : Like(PreOf[p], pattern)})

(* "loaded file to exist": load_graphs_for_file_or_directory finds in the   *)
(* graph the file it has just loaded.                                       *)
LoadedFileExists == [][call.kind = "directory" => ~panicked']_vars

-----------------------------------------------------------------------------
(* The inductive invariant behind these properties.                         *)

OneEntry == \A f \in Files : \A e, d \in index[f] : e = d

(* A file that is not marked has no graph. *)
GraphsMarked == \A f \in Files : f \notin loaded_graphs => graph[f] = {}

(* The paths from n are those of one content, or none, but for rows to come; *)
(* or some of them.                                                         *)
HasPaths(n, coming) ==
  \E ps \in {{}} \cup {PathsOf[v] : v \in Versions} :
    /\ \A row \in coming : row[1] = n[1] /\ row[2] \in ps /\ StartOf[row[2]] = n[2]
    /\ \A p \in Paths : StartOf[p] = n[2] =>
         Times(n[1], p) = IF p \in ps /\ <<n[1], p>> \notin coming THEN 1 ELSE 0

HasPart(n) ==
  \E ps \in {{}} \cup {PathsOf[v] : v \in Versions} :
    \A p \in Paths : StartOf[p] = n[2] /\ Times(n[1], p) > 0 => p \in ps

(* What the call in progress reads, it reads for the first time. *)
NodesInOrder ==
  /\ \A n \in Nodes : OfNode(n) \in answered => n \in loaded_node_paths
  /\ \A n \in loaded_node_paths :
       \/ call = OfNode(n)
       \/ HasPaths(n, {})
       \/ OfNode(n) \in cut /\ HasPart(n)
  /\ \A f \in Files, p \in Paths : StartOf[p] # "root" =>
       /\ Times(f, p) <= 1
       /\ Times(f, p) > 0 => <<f, StartOf[p]>> \in loaded_node_paths
  /\ call.kind = "node" =>
       /\ call.node \in loaded_node_paths
       /\ OfNode(call.node) \notin answered
       /\ HasPaths(call.node, rows)

RootsInOrder ==
  /\ panicked => call.kind = "none"
  /\ call.kind = "none" => rows = {}
  /\ call.kind = "root" =>
       /\ \A row \in rows : row[2] \in Paths /\ StartOf[row[2]] = "root"
       /\ \A i \in DOMAIN Patterns(call.stack) :
            \/ Patterns(call.stack)[i] \in loaded_root_paths
            \/ \E j \in DOMAIN call.patterns : call.patterns[j] = Patterns(call.stack)[i]
  /\ \A q \in Queries : OfStack(q) \in answered =>
       \A i \in DOMAIN Patterns(q) :
         /\ Patterns(q)[i] \in loaded_root_paths
         /\ OfPattern(Patterns(q)[i]) \notin Reading

(* The rows wanted for a node or a pattern are in the database, or the call *)
(* is at them.                                                              *)
Loaded(what, wanted) ==
  \A row \in wanted : db[row] > 0 \/ (what \in Reading /\ row \in rows)

(* While the index stays, only what a call did not get through is missing.  *)
NothingLost ==
  settled =>
    /\ \A n \in loaded_node_paths :
         OfNode(n) \in cut \/ Loaded(OfNode(n), NodeRows(index, n))
    /\ \A pattern \in loaded_root_paths :
         OfPattern(pattern) \in cut \/ Loaded(OfPattern(pattern), RootRows(index, pattern))

IInv ==
  /\ TypeOK
  /\ OneEntry
  /\ GraphsMarked
  /\ HandlesValid
  /\ NodesInOrder
  /\ RootsInOrder
  /\ NothingLost
=============================================================================
