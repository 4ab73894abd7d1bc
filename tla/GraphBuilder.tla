---------------------------- MODULE GraphBuilder ----------------------------
(***************************************************************************)
(* From the rules of a language to a stack graph (lib.rs, Builder).  The    *)
(* rules are an external language: what they construct from a source is a   *)
(* graph of their own, whose nodes are then loaded one by one, beside the   *)
(* nodes that the file has already.                                         *)
(***************************************************************************)
EXTENDS StackGraph

CONSTANTS
  ExistingIds,    \* sets of local ids that the nodes of the file may have
  Constructions,  \* what the rules construct: [nodes, edges], two sequences; a node
                  \* is [kind, scope], an edge is [source, sink, precedence]
  MaxInjected     \* bound on the nodes that a caller injects

VARIABLES
  builder  \* the builder, and where it is

builderVars == <<graphs, builder>>

(* A graph node is one of the rules' own, the root node, the jump node, or  *)
(* one that the caller injected.  Own nodes come last.                      *)
Own(i) == <<"own", i>>
Injected(i) == <<"injected", i>>
RootNode == <<"root">>
JumpNode == <<"jump">>

NodeIdOf(n) == LET node == graphs[builder.graph].nodes[n]
               IN  [file |-> node.file, local |-> node.local]

Idle(x) ==
  [graph |-> x, at |-> "injecting", injected |-> <<>>, remapped |-> <<>>,
   construction |-> [nodes |-> <<>>, edges |-> <<>>], position |-> 1,
   before |-> 0]  \* history: the nodes that were there before

Graph == graphs[builder.graph]
File == Len(Graph.files)

Index(ref) ==
  CASE ref[1] = "injected" -> ref[2] - 1
    [] ref = RootNode -> Len(builder.injected) - 2
    [] ref = JumpNode -> Len(builder.injected) - 1
    [] ref[1] = "own" -> Len(builder.injected) + ref[2] - 1

Goto(at) == builder' = [builder EXCEPT !.at = at, !.position = 1] /\ UNCHANGED graphs

-----------------------------------------------------------------------------
(* Builder::inject_node, with a node that exists. *)
InjectNode(n) ==
  /\ builder.at = "injecting" /\ Len(builder.injected) < MaxInjected
  /\ builder' = [builder EXCEPT !.injected = Append(@, NodeIdOf(n))]
  /\ UNCHANGED graphs

(* The first part of load: own nodes have the ids 0, 1, ... of the file,    *)
(* unless there is a node with such an id; then an id beyond is chosen.     *)

(* Mutated: the id beyond may be in use. *)
NextLocalIdUnchecked(next) == next

NextLocalId(next) ==
  CHOOSE i \in next..next + Len(Graph.ids[File]) :
    /\ NodesForId(Graph, File, i) = {}
    /\ \A j \in next..i - 1 : NodesForId(Graph, File, j) # {}

Remapped(own, injected) ==
  LET remap(acc, n) ==
        LET next == NextLocalId(acc.next)
        IN  [next |-> next, ids |-> (Graph.nodes[n].local + injected :> next) @@ acc.ids]
  IN  Loop(remap, [next |-> own, ids |-> <<>>], Only(Graph.ids[File], DOMAIN Graph.nodes)).ids

(* build: the root node and the jump node are injected, then the rules are  *)
(* executed.                                                                *)
ExecuteRules ==
  /\ builder.at = "injecting"
  /\ \E c \in Constructions :
       LET injected == builder.injected \o <<NodeIdOf(ROOT), NodeIdOf(JUMP_TO)>>
           refs == UNION ({c.nodes[i].scope : i \in DOMAIN c.nodes}
                          \cup {{c.edges[i].source, c.edges[i].sink} : i \in DOMAIN c.edges})
       IN  /\ \A ref \in refs : ref[1] = "injected" => ref[2] <= Len(builder.injected)
           /\ builder' = [builder EXCEPT
                            !.at = "nodes", !.injected = injected, !.construction = c,
                            !.remapped = Remapped(Len(c.nodes), Len(injected)),
                            !.before = Len(Graph.nodes)]
  /\ UNCHANGED graphs

(* node_id_for_graph_node *)
NodeIdForGraphNode(ref) ==
  LET i == Index(ref)
  IN  IF i < Len(builder.injected) THEN builder.injected[i + 1]
      ELSE [file |-> File, local |-> IF i \in DOMAIN builder.remapped THEN builder.remapped[i]
                                     ELSE i - Len(builder.injected)]

Handle(ref) ==
  LET id == NodeIdForGraphNode(ref) IN CHOOSE n \in NodesForId(Graph, id.file, id.local) : TRUE

(* load_drop_scopes ... load_scope: what a node is; of its attributes, the   *)
(* scope that it attaches.                                                  *)
Payload(node) == <<node.kind, {NodeIdForGraphNode(ref) : ref \in node.scope}>>

(* A node of the rules is added; add_*_node(...).unwrap() panics if the id  *)
(* is taken.                                                                *)
LoadNode ==
  /\ builder.at = "nodes" /\ builder.position \in DOMAIN builder.construction.nodes
  /\ LET node == builder.construction.nodes[builder.position]
         local == NodeIdForGraphNode(Own(builder.position)).local
         loaded == WithNode(Graph, Node(File, local, Payload(node)))
     IN  \/ loaded = {} /\ Goto("panicked")
         \/ \E g \in loaded :
              /\ graphs' = [graphs EXCEPT ![builder.graph] = g]
              /\ builder' = [builder EXCEPT !.position = @ + 1]

(* verify_node: scopes are attached only if they are exported. *)
Verified(n) ==
  \A scope \in Graph.nodes[n].payload[2] :
    \E s \in NodesForId(Graph, scope.file, scope.local) :
      s \notin {ROOT, JUMP_TO} /\ Graph.nodes[s].payload[1] = "exported scope"

VerifyNodes ==
  /\ builder.at = "nodes" /\ builder.position \notin DOMAIN builder.construction.nodes
  /\ Goto(IF \A n \in DOMAIN Graph.nodes \ {ROOT, JUMP_TO} : Verified(n) THEN "edges" ELSE "failed")

LoadEdge ==
  /\ builder.at = "edges" /\ builder.position \in DOMAIN builder.construction.edges
  /\ LET e == builder.construction.edges[builder.position]
     IN  graphs' = [graphs EXCEPT ![builder.graph] =
                      WithEdge(@, Handle(e.source), Handle(e.sink), e.precedence)]
  /\ builder' = [builder EXCEPT !.position = @ + 1]

Finish ==
  /\ builder.at = "edges" /\ builder.position \notin DOMAIN builder.construction.edges
  /\ Goto("built")

(* The cancellation flag is checked before each node and edge; attributes   *)
(* may be missing or of a wrong type.  What was loaded stays.               *)
Fail == builder.at \in {"nodes", "edges"} /\ Goto("failed")

BuilderInit ==
  /\ outcome = "ok" /\ saved = {} /\ content = Content(EmptyGraph, {})
  /\ \E x \in Graphs \ Building, ids \in ExistingIds, name \in FileNames :
       /\ builder = Idle(x)
       /\ \E g \in WithFile(EmptyGraph, name) :
            graphs = [y \in Graphs |->
              IF y # x THEN EmptyGraph
              ELSE Loop(LAMBDA h, i : CHOOSE k \in WithNode(h, Node(1, i, <<"exported scope", {}>>)) :
                          TRUE, g, ids)]

BuilderNext ==
  /\ \/ \E n \in DOMAIN Graph.nodes \ {ROOT, JUMP_TO} : InjectNode(n)
     \/ ExecuteRules \/ LoadNode \/ VerifyNodes \/ LoadEdge \/ Finish \/ Fail
  /\ UNCHANGED <<saved, content, outcome>>

-----------------------------------------------------------------------------
(* The graph that was built is the one that was there and a copy of what    *)
(* the rules constructed: a new node for each of theirs, with the scope     *)
(* that they attached, and their edges, to the nodes that were injected     *)
(* where they refer to one.                                                 *)
BuiltAsConstructed ==
  builder.at = "built" =>
    LET c == builder.construction
        new == builder.before + 1..Len(Graph.nodes)
    IN  \E image \in {f \in [DOMAIN c.nodes -> new] : IsInjective(f) /\ Range(f) = new} :
          LET node(ref) ==
                CASE ref[1] = "own" -> image[ref[2]]
                  [] ref = RootNode -> ROOT
                  [] ref = JumpNode -> JUMP_TO
                  [] ref[1] = "injected" ->
                       CHOOSE n \in 1..builder.before : NodeIdOf(n) = builder.injected[ref[2]]
          IN  /\ \A i \in DOMAIN c.nodes :
                   Graph.nodes[image[i]].payload
                     = <<c.nodes[i].kind, {NodeIdOf(node(ref)) : ref \in c.nodes[i].scope}>>
              /\ Edges(Graph) = {[source |-> node(c.edges[i].source), sink |-> node(c.edges[i].sink),
                                  precedence |-> c.edges[i].precedence] : i \in DOMAIN c.edges}

(* Two nodes of the file are in the way of nodes of the rules. *)
TwoInTheWay ==
  Cardinality({n \in DOMAIN Graph.nodes :
                 /\ n <= builder.before /\ n \notin {ROOT, JUMP_TO}
                 /\ Graph.nodes[n].local < Len(builder.construction.nodes)}) > 1

(* Loading gives the copy, whatever nodes the file has and whichever are    *)
(* injected, or an error; it panics only if two nodes are in the way.       *)
BuildsBesideNodes == BuiltAsConstructed /\ (builder.at = "panicked" => TwoInTheWay)
=============================================================================
