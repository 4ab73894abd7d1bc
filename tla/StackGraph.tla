----------------------------- MODULE StackGraph -----------------------------
(***************************************************************************)
(* Stack graphs (graph.rs): nodes that are found by file and local id,     *)
(* edges kept in order with the degree of their sinks, a graph copied into *)
(* another one, and graphs saved and loaded again (serde/graph.rs).        *)
(* Symbols and strings are their contents here; see Interning.             *)
(***************************************************************************)
EXTENDS Naturals, Sequences, FiniteSets, SequencesExt, Loops

CONSTANTS
  FileNames,
  Graphs,    \* names of graphs
  Payloads,  \* what nodes are: kind, symbol, attached scope
  ScopeFiles,  \* payload -> the file of the scope that it attaches, if it attaches one
  Infos,     \* source information: [span, line, name, definiens]; span stands for all
             \* that is saved
  LocalIds,  \* local ids that callers choose
  Building,  \* graphs that are built node by node and saved; copies and
             \* loads go into the others
  Started,   \* graph -> the sequences of files that it may have at first
  MaxNodes, MaxEdges  \* bounds on what is built

ASSUME StackGraphAssumption ==
  /\ Building \subseteq Graphs
  /\ LocalIds \subseteq Nat
  /\ \A info \in Infos : DOMAIN info = {"span", "line", "name", "definiens"}
  /\ ScopeFiles \in [Payloads -> SUBSET FileNames]
  /\ \E payload \in Payloads : ScopeFiles[payload] = {}
  /\ Started \in [Graphs -> SUBSET Seq(FileNames)]
  /\ \A x \in Graphs : \A names \in Started[x] : IsInjective(names)

VARIABLES
  graphs,   \* name -> graph
  saved,    \* what was saved: a set with [files, nodes, edges], or the empty set
  content,  \* what the graph that was saved contained then
  outcome   \* of the last call: "ok", "failed" or "panicked"

graphVars == <<graphs, saved, content, outcome>>

ROOT == 1
JUMP_TO == 2

(* File 0 is no file: the singletons have none. *)
Node(file, local, payload) == [file |-> file, local |-> local, payload |-> payload]

EmptyGraph ==
  [files |-> <<>>,              \* handle -> name
   nodes |-> <<Node(0, ROOT, "root"), Node(0, JUMP_TO, "jump_to")>>,
   ids |-> <<>>,                \* file -> sequence: handle of local id i at i + 1, or 0
   outgoing |-> <<<<>>, <<>>>>, \* node -> sequence of [sink, precedence]
   incoming |-> <<"zero", "zero">>,
   info |-> <<{}, {}>>,         \* node -> source information, if it has any
   notes |-> {}]                \* edge_debug_info: the edges <<source, sink>> that have some

(* add_file: Err if there is a file of the name. *)
WithFile(g, name) ==
  IF name \in ToSet(g.files) THEN {}
  ELSE {[g EXCEPT !.files = Append(@, name), !.ids = Append(@, <<>>)]}

(* get_file *)
FileHandles(g, name) == {f \in DOMAIN g.files : g.files[f] = name}

(* new_node_id *)
UnusedId(g, file) == Len(g.ids[file])

(* node_for_id: the node, if there is one. *)
NodesForId(g, file, local) ==
  IF file = 0 THEN {local}
  ELSE {n \in DOMAIN g.nodes : local < Len(g.ids[file]) /\ g.ids[file][local + 1] = n}

(* Mutated: the table is extended by one id only. *)
PaddedByOne(ids, local) == IF local < Len(ids) THEN ids ELSE Append(ids, 0)

(* handle_for_id extends the table of a file up to the id. *)
Padded(ids, local) ==
  IF local < Len(ids) THEN ids
  ELSE [i \in 1..local + 1 |-> IF i <= Len(ids) THEN ids[i] ELSE 0]

(* add_node: None if the id is taken. *)
WithNode(g, node) ==
  IF NodesForId(g, node.file, node.local) # {} THEN {}
  ELSE {[g EXCEPT !.nodes = Append(@, node),
                  !.ids[node.file] =
                    [Padded(@, node.local) EXCEPT ![node.local + 1] = Len(g.nodes) + 1],
                  !.outgoing = Append(@, <<>>), !.incoming = Append(@, "zero"),
                  !.info = Append(@, {})]}

HasEdge(g, s, t) == \E i \in DOMAIN g.outgoing[s] : g.outgoing[s][i].sink = t

(* Degree::add *)
More(degree) == IF degree = "zero" THEN "one" ELSE "multiple"

(* binary_search_by_key: where a sink is to be inserted. *)
Position(edges, t) == Cardinality({i \in DOMAIN edges : edges[i].sink < t}) + 1

(* Mutated: adding an edge again counts. *)
WithEdgeCounted(g, s, t, precedence) ==
  IF HasEdge(g, s, t) THEN [g EXCEPT !.incoming[t] = More(@)]
  ELSE [g EXCEPT !.outgoing[s] = InsertAt(@, Position(@, t), [sink |-> t, precedence |-> precedence]),
                 !.incoming[t] = More(@)]

(* add_edge: an edge that is there keeps its precedence. *)
WithEdge(g, s, t, precedence) ==
  IF HasEdge(g, s, t) THEN g
  ELSE [g EXCEPT !.outgoing[s] = InsertAt(@, Position(@, t), [sink |-> t, precedence |-> precedence]),
                 !.incoming[t] = More(@)]

(* set_edge_precedence *)
WithPrecedence(g, s, t, precedence) ==
  [g EXCEPT !.outgoing[s] =
     [i \in DOMAIN @ |-> IF @[i].sink = t THEN [@[i] EXCEPT !.precedence = precedence] ELSE @[i]]]

EdgesFrom(g, s) ==
  [i \in DOMAIN g.outgoing[s] |-> [source |-> s, sink |-> g.outgoing[s][i].sink,
                                   precedence |-> g.outgoing[s][i].precedence]]

(* The edges of some nodes, in order. *)
EdgesOf(g, nodes) ==
  Loop(LAMBDA edges, s : IF s \in nodes THEN edges \o EdgesFrom(g, s) ELSE edges,
       <<>>, [n \in DOMAIN g.nodes |-> n])

Result(graph, how) == [graph |-> graph, outcome |-> how]

Edges(g) == ToSet(EdgesOf(g, DOMAIN g.nodes))

(* The files that a copied or a loaded graph brings; at the first one that  *)
(* is there, both give up.                                                  *)
NextFile(acc, name) ==
  IF acc.outcome = "failed" \/ WithFile(acc.graph, name) = {}
  THEN Result(acc.graph, "failed")
  ELSE Result(CHOOSE h \in WithFile(acc.graph, name) : TRUE, "ok")

WithFiles(g, names) == Loop(NextFile, Result(g, "ok"), names)

-----------------------------------------------------------------------------
(* add_from_graph: file after file, in any order, the nodes and then all    *)
(* edges of the nodes that are known, the root node among them.  Neither    *)
(* full names nor notes on edges are copied.                                *)

(* HashMap::insert *)
With(known, n, copy) ==
  [m \in DOMAIN known \cup {n} |-> IF m = n THEN copy ELSE known[m]]

CopiedNode(acc, h, n) ==
  LET node == h.nodes[n]
      file == CHOOSE f \in FileHandles(acc.graph, h.files[node.file]) : TRUE
      g == CHOOSE g \in WithNode(acc.graph, [node EXCEPT !.file = file]) : TRUE
  IN  [acc EXCEPT
         !.graph = [g EXCEPT !.info[Len(g.nodes)] = {[i EXCEPT !.name = "none"] : i \in h.info[n]}],
         !.known = With(@, n, Len(g.nodes))]

(* Mutated: only the edges of the nodes of the file. *)
EdgesToCopyOfFile(h, f, known) == EdgesOf(h, ToSet(h.ids[f]))

EdgesToCopy(h, f, known) == EdgesOf(h, known)

CopiedEdge(acc, e) ==
  IF acc.outcome = "panicked" \/ e.sink \notin DOMAIN acc.known
  THEN [acc EXCEPT !.outcome = "panicked"]
  ELSE [acc EXCEPT !.graph =
          WithEdge(@, acc.known[e.source], acc.known[e.sink], e.precedence)]

(* nodes_for_file passes over the ids that have no node. *)
CopiedId(acc, h, n) == IF n = 0 THEN acc ELSE CopiedNode(acc, h, n)

CopiedNodes(acc, h, f) == Loop(LAMBDA a, n : CopiedId(a, h, n), acc, h.ids[f])

CopiedFile(acc, h, f) ==
  LET copied == CopiedNodes(acc, h, f)
  IN  Loop(CopiedEdge, copied, EdgesToCopy(h, f, DOMAIN copied.known))

(* Mutated: the singletons are not known. *)
KnownAtFirstNothing(h) == [n \in {} |-> n]

KnownAtFirst(h) == [n \in {ROOT, JUMP_TO} |-> n]

Copied(g, h, order) ==
  LET start == WithFiles(g, h.files)
      copied == Loop(LAMBDA a, f : CopiedFile(a, h, f),
                     [graph |-> start.graph, outcome |-> "ok", known |-> KnownAtFirst(h)], order)
  IN  IF start.outcome = "failed" THEN start ELSE Result(copied.graph, copied.outcome)

-----------------------------------------------------------------------------
(* Saving and loading. *)

(* An id as it is saved: the name of the file instead of its handle. *)
SavedId(g, n) ==
  [file |-> {g.files[f] : f \in {g.nodes[n].file} \ {0}}, local |-> g.nodes[n].local]

IncludesNode(g, names, n) == SavedId(g, n).file \subseteq names

(* Mutated: an edge is saved if its source is. *)
IncludesEdgeOfSource(g, names, e) == IncludesNode(g, names, e.source)

(* ImplicationFilter: only edges between nodes that are saved. *)
IncludesEdge(g, names, e) == IncludesNode(g, names, e.source) /\ IncludesNode(g, names, e.sink)

(* from_graph_filter *)
Saved(g, names) ==
  LET node(n) == [id |-> SavedId(g, n), payload |-> g.nodes[n].payload,
                  spans |-> {i.span : i \in g.info[n]}]
      edge(e) == [source |-> SavedId(g, e.source), sink |-> SavedId(g, e.sink),
                  precedence |-> e.precedence, note |-> <<e.source, e.sink>> \in g.notes]
      nodes == Only([n \in DOMAIN g.nodes |-> n],
                    {n \in DOMAIN g.nodes : IncludesNode(g, names, n)})
      edges == Only(EdgesOf(g, DOMAIN g.nodes), {e \in Edges(g) : IncludesEdge(g, names, e)})
  IN  [files |-> Only(g.files, names),
       nodes |-> [i \in DOMAIN nodes |-> node(nodes[i])],
       edges |-> [i \in DOMAIN edges |-> edge(edges[i])]]

(* NodeID::to_node_id and node_for_id: the nodes of a saved id. *)
Located(g, id) ==
  IF id.file = {} THEN NodesForId(g, 0, id.local)
  ELSE UNION {NodesForId(g, f, id.local) : f \in UNION {FileHandles(g, name) : name \in id.file}}

(* Mutated: nodes get new ids. *)
LoadedIdUnused(g, file, local) == UnusedId(g, file)

LoadedId(g, file, local) == local

(* load_nodes passes over the singletons. *)
LoadedNode(g, node) ==
  IF node.id.file = {} THEN g
  ELSE LET file == CHOOSE f \in UNION {FileHandles(g, name) : name \in node.id.file} : TRUE
           loaded == WithNode(g, Node(file, LoadedId(g, file, node.id.local), node.payload))
       IN  IF loaded = {} THEN g
           ELSE [CHOOSE h \in loaded : TRUE EXCEPT !.info[Len(g.nodes) + 1] =
                   {[span |-> span, line |-> "none", name |-> "none", definiens |-> "none"] :
                      span \in node.spans}]

(* The file of a node and the file of the scope that it attaches are found  *)
(* by their names, before the node is added.                                *)
Resolves(g, node) ==
  node.id.file = {} \/ node.id.file \cup ScopeFiles[node.payload] \subseteq ToSet(g.files)

LoadedEdge(acc, e) ==
  LET sources == Located(acc.graph, e.source)
      sinks == Located(acc.graph, e.sink)
      add(s, t) ==
        LET g == WithEdge(acc.graph, s, t, e.precedence)
        IN  IF e.note THEN [g EXCEPT !.notes = @ \cup {<<s, t>>}] ELSE g
  IN  IF acc.outcome = "failed" \/ sources = {} \/ sinks = {}
      THEN [acc EXCEPT !.outcome = "failed"]
      ELSE [acc EXCEPT !.graph = add(CHOOSE s \in sources : TRUE, CHOOSE t \in sinks : TRUE)]

BeforeFailing(nodes, failing) ==
  SubSeq(nodes, 1, (CHOOSE i \in failing : \A j \in failing : i <= j) - 1)

(* load_into *)
Loaded(g, s) ==
  LET files == WithFiles(g, s.files)
      failing == {i \in DOMAIN s.nodes : ~ Resolves(files.graph, s.nodes[i])}
      loaded(nodes) == Loop(LoadedNode, files.graph, nodes)
  IN  IF files.outcome = "failed" THEN files
      ELSE IF failing # {} THEN Result(loaded(BeforeFailing(s.nodes, failing)), "failed")
      ELSE Loop(LoadedEdge, Result(loaded(s.nodes), "ok"), s.edges)

(* What a graph contains of some files: their nodes, and the edges among    *)
(* them and the singletons.                                                 *)
Content(g, names) ==
  LET here(n) == SavedId(g, n).file \subseteq names
  IN  [nodes |-> {[id |-> SavedId(g, n), payload |-> g.nodes[n].payload, info |-> g.info[n]] :
                    n \in {m \in DOMAIN g.nodes : here(m) /\ g.nodes[m].file # 0}},
       edges |-> {[source |-> SavedId(g, e.source), sink |-> SavedId(g, e.sink),
                   precedence |-> e.precedence, note |-> <<e.source, e.sink>> \in g.notes] :
                    e \in {x \in Edges(g) :
                             /\ here(x.source) /\ here(x.sink)
                             /\ g.nodes[x.source].file + g.nodes[x.sink].file # 0}}]

-----------------------------------------------------------------------------
(* Graphs at first: files of one node, that an edge of the root node leads  *)
(* to.                                                                      *)
NextStarted(g, name) ==
  LET f == CHOOSE h \in WithFile(g, name) : TRUE
      n == CHOOSE h \in WithNode(f, Node(Len(f.files), 0, CHOOSE p \in Payloads : ScopeFiles[p] = {})) : TRUE
  IN  WithEdge(n, ROOT, Len(n.nodes), 0)

StartedGraphs(x) == {Loop(NextStarted, EmptyGraph, names) : names \in Started[x]}

(* Bound: graphs are built first, then one is copied once or saved once. *)
Fresh == saved = {} /\ \A x \in Graphs \ Building : graphs[x] \in StartedGraphs(x)

Change(x, g) ==
  /\ Fresh
  /\ graphs' = [graphs EXCEPT ![x] = g]
  /\ outcome' = "ok"
  /\ UNCHANGED <<saved, content>>

AddFile(x) == \E name \in FileNames : \E g \in WithFile(graphs[x], name) : Change(x, g)

AddNode(x) ==
  /\ Len(graphs[x].nodes) < MaxNodes + 2
  /\ \E f \in DOMAIN graphs[x].files,
        payload \in {p \in Payloads : ScopeFiles[p] \subseteq ToSet(graphs[x].files)} :
       \E local \in LocalIds \cup {UnusedId(graphs[x], f)} :
         \E g \in WithNode(graphs[x], Node(f, local, payload)) : Change(x, g)

(* Bound: edges, and what is said of them and of nodes, count together. *)
Smaller(g) ==
  Cardinality(Edges(g)) + Cardinality(g.notes)
  + Cardinality({e \in Edges(g) : e.precedence # 0})
  + Cardinality({n \in DOMAIN g.nodes : g.info[n] # {}}) < MaxEdges

(* Bound: no edges from the jump-to node, and none from a node to itself. *)
AddEdge(x) ==
  \E s \in DOMAIN graphs[x].nodes \ {JUMP_TO} : \E t \in DOMAIN graphs[x].nodes \ {s} :
    /\ HasEdge(graphs[x], s, t) \/ Smaller(graphs[x])
    /\ Change(x, WithEdge(graphs[x], s, t, 0))

SetEdgePrecedence(x) ==
  /\ Smaller(graphs[x])
  /\ \E e \in Edges(graphs[x]) : Change(x, WithPrecedence(graphs[x], e.source, e.sink, 1))

(* source_info_mut, of the node that was added last, and                    *)
(* edge_debug_info_mut.                                                     *)
Describe(x) ==
  /\ Smaller(graphs[x])
  /\ \/ \E info \in Infos :
          Change(x, [graphs[x] EXCEPT !.info[Len(graphs[x].nodes)] = {info}])
     \/ \E e \in Edges(graphs[x]) :
          Change(x, [graphs[x] EXCEPT !.notes = @ \cup {<<e.source, e.sink>>}])

AddFromGraph(x, y) ==
  LET files == DOMAIN graphs[y].files
  IN  Fresh /\ \E order \in {o \in [files -> files] : IsInjective(o)} :
        LET result == Copied(graphs[x], graphs[y], order)
        IN  /\ graphs' = [graphs EXCEPT ![x] = result.graph]
            /\ outcome' = result.outcome
            /\ UNCHANGED <<saved, content>>

Save(x) ==
  /\ Fresh
  /\ \E names \in SUBSET ToSet(graphs[x].files) :
       /\ saved' = {Saved(graphs[x], names)}
       /\ content' = Content(graphs[x], names)
  /\ outcome' = "ok"
  /\ UNCHANGED graphs

LoadInto(x) ==
  \E s \in saved :
    LET result == Loaded(graphs[x], s)
    IN  /\ graphs' = [graphs EXCEPT ![x] = result.graph]
        /\ outcome' = result.outcome
        /\ UNCHANGED <<saved, content>>

GraphsInit ==
  /\ graphs \in {g \in [Graphs -> UNION {StartedGraphs(x) : x \in Graphs}] :
                   \A x \in Graphs : g[x] \in StartedGraphs(x)}
  /\ saved = {} /\ content = Content(EmptyGraph, {}) /\ outcome = "ok"

Build(x) ==
  AddFile(x) \/ AddNode(x) \/ AddEdge(x) \/ SetEdgePrecedence(x) \/ Describe(x) \/ Save(x)

GraphsNext ==
  /\ outcome # "panicked"
  /\ \/ \E x \in Building : Build(x)
     \/ \E x \in Graphs \ Building : LoadInto(x) \/ \E y \in Building : AddFromGraph(x, y)

GraphsSpec == GraphsInit /\ [][GraphsNext]_graphVars

-----------------------------------------------------------------------------
(* Every node is found by its id, and every entry of the tables of ids is   *)
(* the node of that id.                                                     *)
IdsFindNodes ==
  \A x \in Graphs :
    LET g == graphs[x]
    IN  /\ \A n \in DOMAIN g.nodes : NodesForId(g, g.nodes[n].file, g.nodes[n].local) = {n}
        /\ \A f \in DOMAIN g.ids : \A i \in DOMAIN g.ids[f] :
             g.ids[f][i] # 0 => LET n == g.nodes[g.ids[f][i]] IN n.file = f /\ n.local + 1 = i

Sources(g, t) == {s \in DOMAIN g.nodes : HasEdge(g, s, t)}
DegreeOf(n) == CASE n = 0 -> "zero" [] n = 1 -> "one" [] OTHER -> "multiple"
InOrder(edges) == \A i, j \in DOMAIN edges : i < j => edges[i].sink < edges[j].sink

(* Edges are in the order of their sinks, as the binary search needs it,    *)
(* and the degree of a node, which decides whether a stitcher looks for     *)
(* cycles there, is the number of edges that lead to it.                    *)
DegreesCountEdges ==
  \A x \in Graphs :
    LET g == graphs[x]
    IN  /\ \A s \in DOMAIN g.nodes : InOrder(g.outgoing[s])
        /\ \A t \in DOMAIN g.nodes : g.incoming[t] = DegreeOf(Cardinality(Sources(g, t)))

Forgetting(c, fields) ==
  [c EXCEPT !.nodes =
     {[n EXCEPT !.info = {[f \in DOMAIN i |-> IF f \in fields THEN "none" ELSE i[f]] : i \in @}] :
        n \in @}]
WithoutNotes(c) == [c EXCEPT !.edges = {[e EXCEPT !.note = FALSE] : e \in @}]

(* A graph that was copied contains what the other one does, under new      *)
(* handles, but for full names and notes on edges; what it had is the same. *)
CopiesFaithful ==
  [][\A x \in Graphs \ Building : \A y \in Building :
       graphs'[y] = graphs[y] /\ outcome' = "ok" /\ AddFromGraph(x, y) =>
         /\ LET names == ToSet(graphs[y].files)
            IN  Content(graphs'[x], names) =
                  WithoutNotes(Forgetting(Content(graphs[y], names), {"name"}))
         /\ LET names == ToSet(graphs[x].files)
            IN  Content(graphs'[x], names) = Content(graphs[x], names)]_graphVars

(* Copying a graph of one file, as the built-ins are, never panics.         *)
CopiesOfOneFile ==
  outcome = "panicked" => \E x \in Building : Len(graphs[x].files) > 1

(* The files that were saved, whichever of the graph a filter chose, are    *)
(* loaded as they were, but for the lines, the full names and the spans of  *)
(* what definitions define.                                                 *)
LoadsWhatWasSaved ==
  [][\A x \in Graphs \ Building : \A s \in saved :
       outcome' = "ok" /\ LoadInto(x) =>
         Content(graphs'[x], ToSet(s.files)) = Forgetting(content, {"name", "line", "definiens"})]_graphVars

OnlyNodesAdded(g, h) ==
  /\ \A f \in DOMAIN g.files : h.files[f] = g.files[f]
  /\ \A n \in DOMAIN g.nodes : h.nodes[n] = g.nodes[n] /\ h.info[n] = g.info[n]
  /\ Edges(h) = Edges(g) /\ h.notes = g.notes
  /\ \A n \in DOMAIN h.nodes \ DOMAIN g.nodes :
       h.nodes[n].file \in DOMAIN h.files \ DOMAIN g.files

(* A copy or a load that fails has left files and nodes of these files, but *)
(* no edges, and nothing that was there has changed; and nodes only where   *)
(* the scope of a node that was saved is in a file that is not there.       *)
FailuresKeepGraphs ==
  [][outcome' = "failed" => \A x \in Graphs :
       /\ OnlyNodesAdded(graphs[x], graphs'[x])
       /\ graphs'[x].nodes # graphs[x].nodes =>
            \E s \in saved : \E i \in DOMAIN s.nodes : ~ Resolves(graphs'[x], s.nodes[i])]_graphVars

-----------------------------------------------------------------------------
(* The inductive invariant *)

FilesIntact(g) ==
  /\ IsSequence(g.files) /\ IsInjective(g.files)
  /\ IsSequence(g.ids) /\ Len(g.ids) = Len(g.files)

NodeIntact(g, n) ==
  LET node == g.nodes[n]
  IN  /\ node = Node(node.file, node.local, node.payload)
      /\ node.local \in Nat
      /\ IF n <= JUMP_TO THEN node.file = 0 /\ node.local = n
         ELSE /\ node.file \in DOMAIN g.files
              /\ node.local < Len(g.ids[node.file]) /\ g.ids[node.file][node.local + 1] = n

NodesIntact(g) ==
  IsSequence(g.nodes) /\ Len(g.nodes) >= JUMP_TO /\ \A n \in DOMAIN g.nodes : NodeIntact(g, n)

IdsIntact(g) ==
  \A f \in DOMAIN g.ids :
    /\ IsSequence(g.ids[f])
    /\ \A i \in DOMAIN g.ids[f] :
         LET n == g.ids[f][i]
         IN  n # 0 => n \in DOMAIN g.nodes /\ g.nodes[n].file = f /\ g.nodes[n].local + 1 = i

EdgesIntact(g) ==
  /\ IsSequence(g.outgoing) /\ Len(g.outgoing) = Len(g.nodes)
  /\ \A s \in DOMAIN g.nodes :
       /\ IsSequence(g.outgoing[s]) /\ InOrder(g.outgoing[s])
       /\ \A i \in DOMAIN g.outgoing[s] :
            /\ DOMAIN g.outgoing[s][i] = {"sink", "precedence"}
            /\ g.outgoing[s][i].sink \in DOMAIN g.nodes

DegreesIntact(g) ==
  /\ IsSequence(g.incoming) /\ Len(g.incoming) = Len(g.nodes)
  /\ \A t \in DOMAIN g.nodes : g.incoming[t] = DegreeOf(Cardinality(Sources(g, t)))

Intact(g) ==
  /\ DOMAIN g = DOMAIN EmptyGraph
  /\ FilesIntact(g) /\ NodesIntact(g) /\ IdsIntact(g) /\ EdgesIntact(g) /\ DegreesIntact(g)

(* What was saved can be loaded: its files are named, and so are the ends   *)
(* of its edges.                                                            *)
Singleton(id) == id.file = {} /\ id.local \in {ROOT, JUMP_TO}

SavedIntact(s) ==
  /\ IsSequence(s.files) /\ IsSequence(s.nodes) /\ IsSequence(s.edges)
  /\ \A i \in DOMAIN s.nodes :
       LET id == s.nodes[i].id
       IN  Singleton(id) \/ (id.local \in Nat /\ \E name \in ToSet(s.files) : id.file = {name})
  /\ \A i \in DOMAIN s.edges : \A id \in {s.edges[i].source, s.edges[i].sink} :
       Singleton(id) \/ \E j \in DOMAIN s.nodes : s.nodes[j].id = id

IInv ==
  /\ DOMAIN graphs = Graphs /\ \A x \in Graphs : Intact(graphs[x])
  /\ \A s \in saved : SavedIntact(s)
  /\ CopiesOfOneFile

(* What is said of nodes and of edges is of those of the graph, and what    *)
(* was saved is what a graph that is not changed any more contains.         *)
Described(g) ==
  /\ IsSequence(g.info) /\ Len(g.info) = Len(g.nodes)
  /\ \A n \in DOMAIN g.nodes : \A info \in g.info[n] : DOMAIN info = {"span", "line", "name", "definiens"}
  /\ g.notes \subseteq (DOMAIN g.nodes) \X (DOMAIN g.nodes)

ContentInv ==
  /\ \A x \in Graphs : Described(graphs[x])
  /\ \/ saved = {}
     \/ \E x \in Building : \E names \in SUBSET ToSet(graphs[x].files) :
          saved = {Saved(graphs[x], names)} /\ content = Content(graphs[x], names)
=============================================================================
