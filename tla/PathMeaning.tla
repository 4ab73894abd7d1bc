----------------------------- MODULE PathMeaning -----------------------------
(***************************************************************************)
(* What a partial path has to mean, defined without partial stacks: the    *)
(* nodes of a path, visited one by one, change a symbol stack and a scope  *)
(* stack.  A partial path must accept the stacks with which its nodes can  *)
(* be visited, and turn them into what the visits make of them.            *)
(***************************************************************************)
EXTENDS PartialPaths

CONSTANTS
  MaxSteps  \* how many edges the reference search follows

AtMostOne(option) == \A x, y \in option : x = y

(* Concrete stacks: sequences; a symbol has {} or a set with its scopes. *)
Concrete(symbols, scopes) == [symbols |-> symbols, scopes |-> scopes]

IsConcrete(c) ==
  /\ c \in [symbols : Seq([symbol : {SymbolOf[n] : n \in DOMAIN SymbolOf},
                           scopes : SUBSET Seq(ExportedScopes)]),
            scopes : Seq(ExportedScopes)]
  /\ \A i \in DOMAIN c.symbols : AtMostOne(c.symbols[i].scopes)

(* A node is visited and left for the node next; a jump leads to the scope  *)
(* on top of the scope stack.                                               *)
VisitConcretely(n, c) ==
  LET top == c.symbols[1]
      push(scopes) == [c EXCEPT !.symbols = <<ScopedSymbol(SymbolOf[n], scopes)>> \o @]
      matches == c.symbols # <<>> /\ top.symbol = SymbolOf[n]
      popped == IF matches THEN {[c EXCEPT !.symbols = Tail(@)]} ELSE {}
  IN  CASE KindOf[n] = "drop scopes" -> {[c EXCEPT !.scopes = <<>>]}
        [] KindOf[n] = "push symbol" -> {push({})}
        [] KindOf[n] = "push scoped symbol" ->
             IF ScopeOf[n] \in Nodes THEN {push({<<ScopeOf[n]>> \o c.scopes})} ELSE {}
        [] KindOf[n] = "pop symbol" ->
             {d \in popped : top.scopes = {}}
        [] KindOf[n] = "pop scoped symbol" ->
             UNION {{[d EXCEPT !.scopes = s] : s \in top.scopes} : d \in popped}
        [] OTHER -> {c}

LeaveTo(n, next, c) ==
  IF KindOf[n] # "jump to" THEN {c}
  ELSE IF c.scopes # <<>> /\ c.scopes[1] = next THEN {[c EXCEPT !.scopes = Tail(@)]}
  ELSE {}

(* From one node to the next one.  A jump that ends the walk keeps its scope. *)
Arrive(nodes, cs, i) ==
  LET left == IF i = 1 THEN cs ELSE UNION {LeaveTo(nodes[i - 1], nodes[i], d) : d \in cs}
  IN  UNION {VisitConcretely(nodes[i], d) : d \in left}

Walk(nodes, c) == Loop(LAMBDA cs, i : Arrive(nodes, cs, i), {c}, [i \in DOMAIN nodes |-> i])

NodesOf(p) == [i \in DOMAIN p.edges |-> p.edges[i].source] \o <<p.end>>

-----------------------------------------------------------------------------
(* The concrete stacks that a path makes of c.  The variables of its        *)
(* precondition occur once each, so each gets what is left of one stack.    *)

Covers(st, s) == IsPrefix(st.items, s) /\ (st.variable = 0 => Len(st.items) = Len(s))
Left(st, s) == SubSeq(s, Len(st.items) + 1, Len(s))

Accepts(p, c) ==
  LET pre == p.symbolPre.items
  IN  /\ Len(pre) <= Len(c.symbols)
      /\ p.symbolPre.variable = 0 => Len(pre) = Len(c.symbols)
      /\ \A i \in DOMAIN pre :
           /\ pre[i].symbol = c.symbols[i].symbol
           /\ (pre[i].scopes = {}) = (c.symbols[i].scopes = {})
           /\ \A st \in pre[i].scopes, s \in c.symbols[i].scopes : Covers(st, s)
      /\ Covers(p.scopePre, c.scopes)

(* The scopes that a scope stack variable stands for. *)
ScopesFor(p, c, v) ==
  LET pre == p.symbolPre.items
      attached == UNION {{<<i, st>> : st \in {t \in pre[i].scopes : t.variable = v}} :
                           i \in DOMAIN pre}
  IN  IF v = 0 THEN <<>>
      ELSE IF p.scopePre.variable = v THEN Left(p.scopePre, c.scopes)
      ELSE LET a == The(attached) IN Left(a[2], The(c.symbols[a[1]].scopes))

ResultOf(p, c) ==
  LET scopes(st) == st.items \o ScopesFor(p, c, st.variable)
  IN  Concrete([i \in DOMAIN p.symbolPost.items |->
                  [p.symbolPost.items[i] EXCEPT !.scopes = {scopes(st) : st \in @}]]
               \o IF p.symbolPost.variable = 0 THEN <<>>
                  ELSE SubSeq(c.symbols, Len(p.symbolPre.items) + 1, Len(c.symbols)),
               scopes(p.scopePost))

ApplyPath(p, c) == IF Accepts(p, c) THEN {ResultOf(p, c)} ELSE {}

(* A path means what its nodes do to every stack. *)
Means(p, stacks) == \A c \in stacks : ApplyPath(p, c) = Walk(NodesOf(p), c)

(* A precondition is linear, and a postcondition only has its variables:    *)
(* unify and the lookup of the largest variable rely on both.               *)
ScopeVariablesPre(p) ==
  [i \in DOMAIN p.symbolPre.items |-> {st.variable : st \in p.symbolPre.items[i].scopes} \ {0}]
  \o <<{p.scopePre.variable} \ {0}>>

WellFormed(p) ==
  LET pre == ScopeVariablesPre(p)
      post == UNION {{st.variable : st \in p.symbolPost.items[i].scopes} :
                       i \in DOMAIN p.symbolPost.items}
  IN  /\ \A i, j \in DOMAIN pre : i # j => pre[i] \cap pre[j] = {}
      /\ (post \cup {p.scopePost.variable}) \ {0} \subseteq UNION ToSet(pre)
      /\ p.symbolPost.variable \in {0, p.symbolPre.variable}
      /\ HalfOpens(p.symbolPost, p.end, Pushes)
      /\ HalfOpens(p.symbolPre, p.start, Pops)

-----------------------------------------------------------------------------
(* What is always true of the paths that are stitched. *)

OptionsIn(st) == \A i \in DOMAIN st.items : AtMostOne(st.items[i].scopes)
ScopeVariables(st) == UNION {{s.variable : s \in st.items[i].scopes} : i \in DOMAIN st.items}
ScopeVariablesPost(p) == ScopeVariables(p.symbolPost) \cup {p.scopePost.variable}

(* Until it is joined to another one, a path only demands symbols; all      *)
(* scopes that it finds attached are new variables, different from that of  *)
(* the scope stack.                                                         *)
Open(p) ==
  /\ p \in Paths /\ OptionsIn(p.symbolPre) /\ OptionsIn(p.symbolPost)
  /\ p.symbolPre.variable = 1 /\ p.symbolPost.variable = 1 /\ p.scopePre = FromVariable(1)
  /\ \A i, j \in DOMAIN p.symbolPre.items :
       \A s \in p.symbolPre.items[i].scopes, t \in p.symbolPre.items[j].scopes :
         /\ s.items = <<>> /\ s.variable \notin {0, 1}
         /\ s.variable = t.variable => i = j
  /\ ScopeVariablesPost(p) \ {0, 1} \subseteq ScopeVariables(p.symbolPre)

(* The first node is in the precondition if it pops, and then it is not     *)
(* known what scopes there were before.                                     *)
StartFits(p) ==
  /\ KindOf[p.start] # "jump to"
  /\ NodesOf(p)[1] = p.start
  /\ KindOf[p.start] \in Pops =>
       /\ p.symbolPre.items # <<>>
       /\ p.symbolPre.items[1].symbol = SymbolOf[p.start]
       /\ (p.symbolPre.items[1].scopes # {}) = (KindOf[p.start] \in Scoped)
  /\ KindOf[p.start] = "pop scoped symbol" => 1 \notin ScopeVariablesPost(p)

EndFits(p) ==
  /\ HalfOpens(p.symbolPost, p.end, Pushes)
  /\ KindOf[p.end] = "jump to" => p.scopePost.items = <<>>

MadeOfEdges(p, stacks) == Open(p) /\ StartFits(p) /\ EndFits(p) /\ Means(p, stacks)

(* The path of a query has no variables: it ends with stacks that are known. *)
Ground(c) ==
  Concrete(Stack([i \in DOMAIN c.symbols |->
                    [c.symbols[i] EXCEPT !.scopes = {Stack(s, 0) : s \in @}]], 0),
           Stack(c.scopes, 0))

OfQuery(p) ==
  /\ p \in Paths
  /\ KindOf[p.start] \in Pushes /\ KindOf[p.end] # "jump to"
  /\ NodesOf(p)[1] = p.start
  /\ p.symbolPre = EmptyStack /\ p.scopePre = EmptyStack
  /\ \E c \in Walk(NodesOf(p), Concrete(<<>>, <<>>)) :
       /\ Walk(NodesOf(p), Concrete(<<>>, <<>>)) = {c}
       /\ Concrete(p.symbolPost, p.scopePost) = Ground(c)

-----------------------------------------------------------------------------
(* Name resolution without paths: the definitions that a reference reaches  *)
(* by walking the edges with concrete stacks, both empty at the start.      *)

Successors(edges, x) ==
  LET next == IF KindOf[x.node] = "jump to"
              THEN {x.stacks.scopes[i] : i \in DOMAIN x.stacks.scopes \cap {1}}
              ELSE {e.sink : e \in {e \in edges : e.source = x.node}}
  IN  UNION {{[node |-> n, stacks |-> d] :
                d \in UNION {VisitConcretely(n, l) : l \in LeaveTo(x.node, n, x.stacks)}} :
               n \in next}

StartOf(r) == [node |-> r, stacks |-> The(VisitConcretely(r, Concrete(<<>>, <<>>)))]

Reached(edges, from) ==
  LET within[k \in 0..MaxSteps] ==
        IF k = 0 THEN from
        ELSE within[k - 1] \cup UNION {Successors(edges, x) : x \in within[k - 1]}
  IN  within[MaxSteps]

Resolutions(edges, references) ==
  UNION {{<<r, x.node>> : x \in {y \in Reached(edges, {StartOf(r)}) :
                                   y.node \in Definitions /\ y.stacks.symbols = <<>>}} :
           r \in references}

(* A walk shadows another one if it takes an edge of greater precedence     *)
(* where the two part.                                                      *)
WalksFrom(edges, r) ==
  LET via(x, y) ==
        IF KindOf[x.node] = "jump to" THEN {[source |-> x.node, sink |-> y.node, precedence |-> 0]}
        ELSE {e \in edges : e.source = x.node /\ e.sink = y.node}
      longer(w) ==
        UNION {{[at |-> y, edges |-> Append(w.edges, e)] : e \in via(w.at, y)} :
                 y \in Successors(edges, w.at)}
      walks[k \in 0..MaxSteps] ==
        IF k = 0 THEN {[at |-> StartOf(r), edges |-> <<>>]}
        ELSE UNION {longer(w) : w \in walks[k - 1]}
  IN  UNION {walks[k] : k \in 0..MaxSteps}

UnshadowedResolutions(edges, r) ==
  LET complete == {w \in WalksFrom(edges, r) :
                     w.at.node \in Definitions /\ w.at.stacks.symbols = <<>>}
      shadows(v, w) ==
        \E i \in DOMAIN v.edges \cap DOMAIN w.edges :
          /\ SubSeq(v.edges, 1, i - 1) = SubSeq(w.edges, 1, i - 1)
          /\ v.edges[i].precedence > w.edges[i].precedence
  IN  {<<r, w.at.node>> : w \in {x \in complete : \A v \in complete : ~shadows(v, x)}}
=============================================================================
