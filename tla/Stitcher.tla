------------------------------ MODULE Stitcher ------------------------------
(***************************************************************************)
(* The stitching of partial paths (stitching.rs, cycles.rs), as it is used: *)
(* for each file, edges of the graph are appended to one another, which    *)
(* gives the partial paths to store; a query then appends stored paths,    *)
(* loaded as they are needed, to its references.                           *)
(***************************************************************************)
EXTENDS PathMeaning, SavedPaths

CONSTANTS
  Files,      \* sequence of files
  NodeOrder,  \* the nodes in the order of the arena; the index is the handle
  Graphs,     \* sets of edges [source, sink, precedence] to choose from
  Settings,   \* the choices of the caller: see below
  Symbols, Alike,  \* symbols, and what LIKE takes for each
  Inputs      \* stacks to try paths with

Lookup == INSTANCE Candidates

(* No edge leaves the jump node: what follows a jump is the scope that it   *)
(* leads to.                                                                *)
ASSUME StitcherAssumption ==
  /\ NodeOrder \in Seq(Nodes) /\ Nodes = ToSet(NodeOrder) /\ IsInjective(NodeOrder)
  /\ \E root \in Nodes : {n \in Nodes : KindOf[n] = "root"} = {root}
  /\ Len(Files) \in Nat \ {0}
  /\ \A g \in Graphs : g \subseteq [source : {n \in Nodes : KindOf[n] # "jump to"},
                                    sink : Nodes, precedence : Nat]
  /\ \A c \in Inputs : IsConcrete(c)

HandleOf(n) == CHOOSE i \in DOMAIN NodeOrder : NodeOrder[i] = n
InOrder(nodes) == Only(NodeOrder, nodes)

Root == The({n \in Nodes : KindOf[n] = "root"})

VARIABLES
  graph,    \* the edges
  settings, \* workPerPhase: max_work_per_phase; similar: whether similar paths are
            \* detected; preloaded: whether the query's database has all paths;
            \* joinNodesOnly: check_only_join_nodes, which find_* set, and a caller
            \* does not that calls process_next_phase in a loop of its own (c.rs)
  task,     \* the number of the file whose paths are sought; after the files, the
            \* references are queried, one by one
  step,     \* "begin", "phase", "extend"; "done", "cancelled"
  queue, next, \* paths of this phase and of the next one, with what they were made of
  initial,  \* initial_paths_in_queue
  work,     \* work_performed
  similar,  \* what the similar path detector has seen
  stored,   \* the paths found in the files, in order
  database, \* the paths that the query has loaded, in order
  loaded,   \* the nodes and the patterns whose paths were loaded
  found,    \* reference_paths: the complete paths of the reference, in order
  answers   \* actual_paths: those that are not shadowed, of all references

vars == <<graph, settings, task, step, queue, next, initial, work, similar,
          stored, database, loaded, found, answers>>

Querying == task > Len(Files)
Reference == InOrder(References)[task - Len(Files)]
LastTask == Len(Files) + Len(InOrder(References))

(* A path under construction: the path, the initial path and what was       *)
(* appended to it (AppendingCycleDetector), and whether it is one of many.  *)
Item(path, elements, split) == [path |-> path, elements |-> elements, split |-> split]

InitialPaths ==
  LET from == IF Querying THEN <<Reference>>
              ELSE InOrder({n \in Nodes : FileOf[n] = Files[task] /\ Endpoint(n)}) \o <<Root>>
  IN  [i \in DOMAIN from |-> IF Querying THEN Eliminate(FromNode(from[i]))
                             ELSE FromNode(from[i])]

AsCompleteAsNecessary(p) ==
  Endpoint(p.start) /\ (Endpoint(p.end) \/ KindOf[p.end] = "jump to")

(* extend_while, and which paths are visited. *)
ExtendWhile(p) == Querying \/ ~AsCompleteAsNecessary(p)
Accepted(p) == IF Querying THEN IsComplete(p) ELSE AsCompleteAsNecessary(p)

-----------------------------------------------------------------------------
(* Candidates. *)

EdgeCandidates(p) ==
  LET edges == {e \in graph : e.source = p.end /\ FileOf[e.sink] \in {"none", Files[task]}}
      sinks == InOrder({e.sink : e \in edges})
  IN  [i \in DOMAIN sinks |-> The({e \in edges : e.sink = sinks[i]})]

PlainStack(st) ==
  Lookup!Stack([i \in DOMAIN st.items |-> st.items[i].symbol], st.variable # 0)

(* The paths of a node, and the root paths of a key. *)
From(n) == Only(database, {q \in ToSet(database) : q.start = n})
Under(key) ==
  Only(From(Root), {q \in ToSet(database) : key \in Lookup!AddedUnder(PlainStack(q.symbolPre))})

(* Mutated: the key of the whole stack is left out. *)
PathCandidatesPrefixes(p) ==
  LET post == PlainStack(p.symbolPost)
      s == post.symbols
  IN  IF p.end # Root THEN From(p.end)
      ELSE Under(<<"without variable", s>>)
           \o Concatenated([i \in 1..Len(s) |-> Under(<<"with variable", SubSeq(s, 1, Len(s) - i)>>)])

(* Database::find_candidate_partial_paths *)
PathCandidates(p) ==
  LET post == PlainStack(p.symbolPost)
      s == post.symbols
  IN  IF p.end # Root THEN From(p.end)
      ELSE Under(<<"without variable", s>>)
           \o (IF post.variable THEN Under(<<"prefix", s>>) ELSE <<>>)
           \o Concatenated([i \in 1..Len(s) + 1 |->
                              Under(<<"with variable", SubSeq(s, 1, Len(s) + 1 - i)>>)])

CandidatesFor(p) == IF Querying THEN PathCandidates(p) ELSE EdgeCandidates(p)

(* The trait Appendable: edges, and partial paths. *)
IsEdge(c) == "sink" \in DOMAIN c
AppendTo(c, p) == IF IsEdge(c) THEN AppendEdgeResolved(c, p) ELSE AppendPath(c, p)
StartNode(c) == IF IsEdge(c) THEN c.source ELSE c.start
EndNode(c) == IF IsEdge(c) THEN c.sink ELSE c.end

(* get_joining_candidate_degree = Degree::Multiple.  The degrees of a       *)
(* database end at the last node in which one of its paths ends.            *)
JoinNode(p) ==
  IF Querying THEN Cardinality({i \in DOMAIN database : database[i].end = p.end}) > 1
  ELSE Cardinality({e \in graph : e.sink = p.end}) > 1

HasDegree(p) ==
  Querying => \E i \in DOMAIN database : HandleOf(p.end) <= HandleOf(database[i].end)

-----------------------------------------------------------------------------
(* AppendingCycleDetector::is_cyclic.  Each suffix of what was appended     *)
(* that starts where the path ends is a cycle; each is built again, from    *)
(* the previous one, starting with nothing but its node.                    *)

(* Mutated: the first element is forgotten. *)
AppendElementsAfter(elements, i, j, path) ==
  Loop(LAMBDA ps, c : UNION {AppendTo(c, p) : p \in ps}, {path}, SubSeq(elements, i + 1, j))

(* The elements from position i up to j, appended to a path. *)
AppendElements(elements, i, j, path) ==
  Loop(LAMBDA ps, c : UNION {AppendTo(c, p) : p \in ps}, {path}, SubSeq(elements, i, j))

(* "cyclic test failed" would be a panic: then "fails" is among the kinds.  *)
Cycles(elements) ==
  LET end == EndNode(elements[Len(elements)])
      starts == [i \in DOMAIN elements |-> StartNode(elements[i])]
      at == Reverse(SelectSeq([i \in DOMAIN starts |-> i], LAMBDA i : starts[i] = end))
      lap(cycle, k) ==
        UNION {AppendPath(l, p) :
                 l \in cycle,
                 p \in AppendElements(elements, at[k],
                                      IF k = 1 THEN Len(starts) ELSE at[k - 1] - 1, FromNode(end))}
      kinds(cycle) ==
        IF cycle = {} THEN {"fails"}
        ELSE UNION {Cyclicity(p) : p \in {q \in cycle : q.edges # <<>>}}
      add(acc, k) ==
        The({[cycle |-> c, kinds |-> acc.kinds \cup kinds(c)] : c \in {lap(acc.cycle, k)}})
  IN  FoldLeftDomain(add, [cycle |-> {FromNode(end)}, kinds |-> {}], at).kinds

(* A path without variables in its precondition may go through cycles that  *)
(* consume the stack.                                                       *)
AllowedCycles(p) ==
  IF HasPreconditionVariable(p) THEN {} ELSE {"strengthens precondition"}

(* Mutated: cycles are only looked for where the path started. *)
ChecksCycleAtStartOnly(p) == p.start = p.end

ChecksCycle(p) == ~settings.joinNodesOnly \/ p.start = p.end \/ JoinNode(p)

-----------------------------------------------------------------------------
(* SimilarPathDetector::add_path.  A bucket holds the best of the paths     *)
(* that are equal.                                                          *)

Similar(seen, p) == \E q \in seen : Equals(q, p) /\ ~Shadows(p, q)
Remember(seen, p) == {q \in seen : ~(Equals(q, p) /\ Shadows(p, q))} \cup {p}

(* The extensions of an item: candidates that cannot be appended are skipped. *)
Extensions(item, candidates) ==
  LET extended == [i \in DOMAIN candidates |->
        {Item(p, Append(item.elements, candidates[i]), FALSE) :
           p \in AppendTo(candidates[i], item.path)}]
      reached == Only(extended, ToSet(extended) \ {{}})
  IN  [i \in DOMAIN reached |-> [The(reached[i]) EXCEPT !.split = item.split \/ Len(reached) > 1]]

(* Whether an extension is compared with similar paths. *)
ChecksSimilar(x) == x.split /\ (settings.joinNodesOnly => JoinNode(x.path))

(* The extensions that are kept, and what the detector has seen afterwards. *)
Kept(acc, x) ==
  IF ~(ChecksSimilar(x) /\ settings.similar)
  THEN [acc EXCEPT !.items = Append(@, x)]
  ELSE IF Similar(acc.seen, x.path) THEN acc
  ELSE [items |-> Append(acc.items, x), seen |-> Remember(acc.seen, x.path)]

Filtered(extensions) == Loop(Kept, [items |-> <<>>, seen |-> similar], extensions)

-----------------------------------------------------------------------------
(* load_forward_candidates of SQLiteReader: the paths of a node, or, for    *)
(* each pattern, the root paths whose key is LIKE it.  What was asked for   *)
(* before is not loaded again.  The graph of a row's file is loaded before  *)
(* the row's path, so that its nodes are found.                             *)

Requests(p) ==
  IF p.end = Root
  THEN LET patterns == Lookup!Patterns(PlainStack(p.symbolPost))
       IN  [i \in DOMAIN patterns |-> [node |-> {}, pattern |-> {patterns[i]}]]
  ELSE IF FileOf[p.end] = "none" THEN <<>>
  ELSE <<[node |-> {p.end}, pattern |-> {}]>>

Rows(request) ==
  LET matches(q) ==
        \/ q.start \in request.node
        \/ /\ q.start = Root
           /\ \E pattern \in request.pattern : Lookup!Like(PlainStack(q.symbolPre), pattern)
      rows == Only(stored, {q \in ToSet(stored) : matches(q)})
  IN  [i \in DOMAIN rows |-> SavedPath(rows[i])]

RestoredRows(rows) == The(AllOf([i \in DOMAIN rows |-> RestoredPath(rows[i])]))

LoadRequest(acc, request) ==
  IF request \in acc.loaded THEN acc
  ELSE [loaded |-> acc.loaded \cup {request},
        database |-> acc.database \o RestoredRows(Rows(request))]

Load(paths) ==
  Loop(LoadRequest, [loaded |-> loaded, database |-> database],
       Concatenated([i \in DOMAIN paths |-> Requests(paths[i])]))

-----------------------------------------------------------------------------
PathsOf(items) == [i \in DOMAIN items |-> items[i].path]

Init ==
  /\ graph \in Graphs /\ settings \in Settings
  /\ task = 1 /\ step = "begin"
  /\ queue = <<>> /\ next = <<>> /\ initial = 0 /\ work = 0 /\ similar = {}
  /\ stored = <<>> /\ database = <<>> /\ loaded = {} /\ found = <<>> /\ answers = <<>>

(* from_partial_paths *)
Begin ==
  /\ step = "begin"
  /\ step' = "phase"
  /\ next' = [i \in DOMAIN InitialPaths |-> Item(InitialPaths[i], <<InitialPaths[i]>>, FALSE)]
  /\ initial' = Len(InitialPaths)
  /\ similar' = {} /\ found' = <<>>
  /\ database' = IF Querying /\ settings.preloaded THEN stored ELSE database
  /\ UNCHANGED <<graph, settings, task, queue, work, stored, loaded, answers>>

Complete == queue = <<>> /\ next = <<>>

(* The loop of find_minimal_partial_path_set_in_file, and of                *)
(* find_all_complete_partial_paths, up to the start of a phase.             *)
StartPhase ==
  /\ step = "phase" /\ ~Complete
  /\ LET l == IF Querying /\ ~settings.preloaded THEN Load(PathsOf(next))
              ELSE [loaded |-> loaded, database |-> database]
     IN  loaded' = l.loaded /\ database' = l.database
  /\ queue' = queue \o next
  /\ next' = <<>>
  /\ work' = 0
  /\ step' = "extend"
  /\ UNCHANGED <<graph, settings, task, initial, similar, stored, found, answers>>

(* cancellation_flag.check, before a phase and for every path that may be   *)
(* shadowed.                                                                *)
Cancel ==
  /\ step = "phase"
  /\ Complete => Querying /\ found # <<>>
  /\ step' = "cancelled"
  /\ UNCHANGED <<graph, settings, task, queue, next, initial, work, similar, stored,
                 database, loaded, found, answers>>

PhaseGoesOn == step = "extend" /\ queue # <<>> /\ work < settings.workPerPhase

TakesFirst ==
  /\ queue' = Tail(queue)
  /\ initial' = IF initial > 0 THEN initial - 1 ELSE 0
  /\ UNCHANGED <<graph, settings, task, stored, database, loaded, found, answers>>

Extends == PhaseGoesOn /\ (initial > 0 \/ ExtendWhile(queue[1].path))

(* A path that is not to be extended. *)
Skip ==
  /\ PhaseGoesOn /\ ~Extends
  /\ TakesFirst
  /\ UNCHANGED <<step, next, work, similar>>

(* The kinds of cycles that are looked for and found. *)
CyclesIn(item) == IF ChecksCycle(item.path) THEN Cycles(item.elements) ELSE {}

(* Degrees are read to choose whether cycles and similar paths matter; an   *)
(* index beyond the end of the table, and a cycle that cannot be built      *)
(* again, are panics: extend does not return and nothing is done any more.  *)
KnowsDegree(p) == settings.joinNodesOnly => HasDegree(p)

(* ForwardPartialPathStitcher::extend: either the path is cyclic and        *)
(* dropped, or the candidates are appended.                                 *)
Extend ==
  LET item == queue[1]
      candidates == CandidatesFor(item.path)
      keep(extensions) ==
        /\ \A i \in DOMAIN extensions :
              extensions[i].split => KnowsDegree(extensions[i].path)
        /\ \E kept \in {Filtered(extensions)} :
              next' = next \o kept.items /\ similar' = kept.seen
        /\ work' = work + Len(candidates)
  IN  /\ Extends
      /\ item.path.start = item.path.end \/ KnowsDegree(item.path)
      /\ TakesFirst
      /\ UNCHANGED step
      /\ \E cycles \in {CyclesIn(item)} :
           \/ /\ "fails" \notin cycles
              /\ ~(cycles \subseteq AllowedCycles(item.path))
              /\ UNCHANGED <<next, work, similar>>
           \/ /\ cycles \subseteq AllowedCycles(item.path)
              /\ keep(Extensions(item, candidates))

(* Mutated: paths that are still in the queue are visited, too. *)
VisitedFromQueue(paths) ==
  LET all == PathsOf(queue) \o paths IN Only(all, {p \in ToSet(all) : Accepted(p)})

(* previous_phase_partial_paths *)
Visited(paths) == Only(paths, {p \in ToSet(paths) : Accepted(p)})

(* The phase is over; its paths are visited. *)
EndPhase ==
  /\ step = "extend" /\ ~PhaseGoesOn
  /\ LET visited == Visited(PathsOf(next))
     IN  /\ stored' = IF Querying THEN stored ELSE stored \o visited
         /\ found' = IF Querying THEN found \o visited ELSE found
  /\ step' = "phase"
  /\ UNCHANGED <<graph, settings, task, queue, next, initial, work, similar, database, loaded,
                 answers>>

(* Mutated: the paths that shadow none are kept. *)
UnshadowedSwapped(paths) ==
  Only(paths, {p \in ToSet(paths) : \A q \in ToSet(paths) : ~Shadows(p, q)})

(* Querier::definitions *)
Unshadowed(paths) ==
  Only(paths, {p \in ToSet(paths) : \A q \in ToSet(paths) : ~Shadows(q, p)})

(* The stitcher returns; the answers of a reference are the paths that none *)
(* shadows, and the next reference is queried.                              *)
Finish ==
  /\ step = "phase" /\ Complete
  /\ answers' = IF Querying THEN answers \o Unshadowed(found) ELSE answers
  /\ task' = IF task = LastTask THEN task ELSE task + 1
  /\ step' = IF task = LastTask THEN "done" ELSE "begin"
  /\ UNCHANGED <<graph, settings, queue, next, initial, work, similar, stored, database,
                 loaded, found>>

(* Nothing is left to do: any other state without a step is a panic. *)
Over == step \in {"done", "cancelled"} /\ UNCHANGED vars

Next == Begin \/ StartPhase \/ Cancel \/ Skip \/ Extend \/ EndPhase \/ Finish \/ Over

Spec == Init /\ [][Next]_vars

-----------------------------------------------------------------------------
(* What the stitcher promises. *)

(* Every path under construction, whether edges or stored paths were        *)
(* appended, means what its nodes do to the stacks (concatenate, append).   *)
(* The paths of a query start with empty stacks.                            *)
PathsMean ==
  step = "phase" =>
    \A i \in DOMAIN next :
      Means(next[i].path, IF Querying THEN {Concrete(<<>>, <<>>)} ELSE Inputs)

(* Two stored paths that share a node concatenate to what their nodes do    *)
(* one after the other, and cannot be concatenated only if no stacks get    *)
(* through both (unify).                                                    *)
ConcatenationsMean ==
  step = "begin" /\ task = Len(Files) + 1 =>
    \A p, q \in ToSet(stored) :
      p.end = q.start =>
        LET nodes == NodesOf(p) \o Tail(NodesOf(q))
            path == AppendPath(q, p)
        IN  IF path = {} THEN \A c \in Inputs : Walk(nodes, c) = {}
            ELSE \A r \in path : Means(r, Inputs)

(* Preconditions stay linear, postconditions have no other variables, and   *)
(* the ends of paths are reflected: what unify, fresh variables and the     *)
(* half-opening of stacks in compute_join rely on.                          *)
PathsWellFormed ==
  step = "phase" => \A i \in DOMAIN next : WellFormed(next[i].path)

(* A query visits complete paths for exactly the definitions that its       *)
(* reference resolves to, although it only loaded what it asked for, and    *)
(* earlier queries had asked for some of it.                                *)
FindsResolutions ==
  step = "phase" /\ Querying /\ Complete =>
    {<<found[i].start, found[i].end>> : i \in DOMAIN found} = Resolutions(graph, {Reference})

(* The answers are the definitions that are reached by an unshadowed walk:  *)
(* leaving out similar and shadowed paths, phase by phase and file by file, *)
(* loses none and adds none.                                                *)
AnswersUnshadowed ==
  step = "done" =>
    {<<answers[i].start, answers[i].end>> : i \in DOMAIN answers}
      = UNION {UnshadowedResolutions(graph, r) : r \in References}

(* No path is visited twice, although several patterns are asked for. *)
FindsOnce == IsInjective(found)

(* Cycles are cut in time: no path passes a node three times.  There are    *)
(* finitely many such paths, so that stitching ends.                        *)
CyclesCut ==
  step = "phase" =>
    \A i \in DOMAIN next : \A n \in Nodes :
      Cardinality({k \in DOMAIN next[i].path.edges : next[i].path.edges[k].source = n}) <= 2

(* If appending succeeded, building the cycles again succeeds (is_cyclic).  *)
CyclesRebuilt == Extends => "fails" \notin CyclesIn(queue[1])

-----------------------------------------------------------------------------
(* The inductive invariant of PathsMean and PathsWellFormed, for paths that *)
(* are tried with some stacks. *)

Right(p, stacks) == IF Querying THEN OfQuery(p) ELSE MadeOfEdges(p, stacks)

IInv(stacks) ==
  /\ graph \in Graphs /\ task \in 1..LastTask
  /\ step = "begin" => queue = <<>> /\ next = <<>>
  /\ IsSequence(queue) /\ IsSequence(next) /\ IsSequence(stored) /\ IsSequence(database)
  /\ \A x \in ToSet(queue) \cup ToSet(next) : Right(x.path, stacks)
  /\ \A p \in ToSet(stored) \cup ToSet(database) : MadeOfEdges(p, stacks)
=============================================================================
