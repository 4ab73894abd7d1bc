---------------------------- MODULE PartialPaths ----------------------------
(***************************************************************************)
(* Partial paths (partial.rs): what a sequence of edges of a stack graph   *)
(* demands of the symbol stack and the scope stack (its precondition) and  *)
(* turns them into (its postcondition).  An operation that can fail        *)
(* returns a set with its result, or the empty set; an Option is such a    *)
(* set too.                                                                *)
(***************************************************************************)
EXTENDS Naturals, Sequences, FiniteSets, SequencesExt, Loops

CONSTANTS
  Nodes,        \* nodes of the stack graph
  KindOf,       \* node -> "root", "jump to", "scope", "drop scopes", "push symbol",
                \* "push scoped symbol", "pop symbol" or "pop scoped symbol"
  SymbolOf,     \* node that pushes or pops -> its symbol
  ScopeOf,      \* node that pushes a scoped symbol -> the scope it attaches
  References,   \* push nodes that are references
  Definitions,  \* pop nodes that are definitions
  ExportedScopes

Scoped == {"push scoped symbol", "pop scoped symbol"}
Pushes == {"push symbol", "push scoped symbol"}
Pops   == {"pop symbol", "pop scoped symbol"}

(* A node has the symbol and the scope that its kind says; references push, *)
(* definitions pop, only scopes are exported (struct Node), and only these  *)
(* are attached to symbols (verify_node); an attached scope may be missing, *)
(* but not that of a reference, from which paths start.                     *)
ASSUME NodesAssumption ==
  /\ KindOf \in [Nodes -> {"root", "jump to", "scope", "drop scopes"} \cup Pushes \cup Pops]
  /\ {n \in Nodes : KindOf[n] \in Pushes \cup Pops} \subseteq DOMAIN SymbolOf
  /\ References \subseteq {n \in Nodes : KindOf[n] \in Pushes}
  /\ Definitions \subseteq {n \in Nodes : KindOf[n] \in Pops}
  /\ ExportedScopes \subseteq {n \in Nodes : KindOf[n] = "scope"}
  /\ \A n \in Nodes : KindOf[n] = "push scoped symbol" =>
       ScopeOf[n] \in ExportedScopes \/ (ScopeOf[n] \notin Nodes /\ n \notin References)

Endpoint(n) ==
  n \in Definitions \cup ExportedScopes \cup References \/ KindOf[n] = "root"

The(option) == CHOOSE x \in option : TRUE
Smaller(i, j) == IF i <= j THEN i ELSE j
Larger(i, j) == IF i >= j THEN i ELSE j

-----------------------------------------------------------------------------
(* Partial stacks: items, and the number of the variable that stands for    *)
(* the rest, 0 if there is no more.                                         *)

Stack(items, variable) == [items |-> items, variable |-> variable]
EmptyStack == Stack(<<>>, 0)
FromVariable(v) == Stack(<<>>, v)
PushFront(x, st) == [st EXCEPT !.items = <<x>> \o @]
PushBack(st, x) == [st EXCEPT !.items = Append(@, x)]
DropFront(st, n) == [st EXCEPT !.items = SubSeq(@, n + 1, Len(@))]
CanMatchEmpty(st) == st.items = <<>>
WithOffset(st, k) == [st EXCEPT !.variable = IF @ = 0 THEN 0 ELSE @ + k]

ScopedSymbol(symbol, scopes) == [symbol |-> symbol, scopes |-> scopes]

ScopeStacks == [items : Seq(ExportedScopes), variable : Nat]
SymbolStacks ==
  [items : Seq([symbol : {SymbolOf[n] : n \in DOMAIN SymbolOf}, scopes : SUBSET ScopeStacks]),
   variable : Nat]

OffsetSymbols(st, symbolOffset, scopeOffset) ==
  WithOffset(Stack([i \in DOMAIN st.items |->
                      ScopedSymbol(st.items[i].symbol,
                                   {WithOffset(s, scopeOffset) : s \in st.items[i].scopes})],
                   st.variable),
             symbolOffset)

-----------------------------------------------------------------------------
(* Bindings: for each variable, the stack it is bound to, if it is.         *)

NoBindings == <<>>
Bound(b, v) == IF v \in 1..Len(b) THEN b[v] ELSE {}
Bind(b, v, st) ==
  [i \in 1..Larger(Len(b), v) |-> IF i = v THEN {st} ELSE Bound(b, i)]

Bindings(stacks) == Seq(SUBSET stacks)

(* apply_partial_bindings: one substitution, not repeated in its result. *)
Substitute(st, b) ==
  LET rest == IF Bound(b, st.variable) = {} THEN FromVariable(st.variable)
              ELSE The(Bound(b, st.variable))
  IN  [rest EXCEPT !.items = st.items \o @]

SubstituteSymbols(st, b) ==
  Substitute(Stack([i \in DOMAIN st.items |->
                      ScopedSymbol(st.items[i].symbol,
                                   {Substitute(s, b.scopes) : s \in st.items[i].scopes})],
                   st.variable),
             b.symbols)

(* The case analysis of unify, when at most one stack has items left: which *)
(* variable must be bound to what (variable 0: none), and which of the two  *)
(* stacks is the result.                                                    *)
Settle(l, r) ==
  IF r.items = <<>> /\ r.variable # 0 /\ (l.items = <<>> \/ l.variable # r.variable)
  THEN {[variable |-> r.variable, stack |-> l,
         result |-> IF l = EmptyStack THEN r ELSE l]}
  ELSE IF l.items = <<>> /\ l.variable # 0 /\ (r.items = <<>> \/ l.variable # r.variable)
  THEN {[variable |-> l.variable, stack |-> r,
         result |-> IF r = EmptyStack THEN l ELSE r]}
  ELSE IF l = EmptyStack /\ r = EmptyStack
  THEN {[variable |-> 0, stack |-> EmptyStack, result |-> l]}
  ELSE {}

CommonLength(l, r) == Smaller(Len(l.items), Len(r.items))

WithHead(items, settled) == [settled EXCEPT !.result.items = items \o @]

SettleScopes(l, r) ==
  LET n == CommonLength(l, r)
      head == SubSeq(l.items, 1, n)
  IN  {WithHead(head, s) :
         s \in IF head = SubSeq(r.items, 1, n)
               THEN Settle(DropFront(l, n), DropFront(r, n)) ELSE {}}

Addition(v, st, b) == [variable |-> v, stack |-> st, bindings |-> b]
ScopeAdditions == [variable : Nat, stack : ScopeStacks, bindings : Bindings(ScopeStacks)]

(* PartialScopeStackBindings::add: a variable that is bound already gets    *)
(* the unification of both stacks, which may bind another variable first.   *)
(* That the results are bindings restricts nothing; with it, the function   *)
(* is known to exist although nothing says how often it calls itself.       *)
AddScopes[a \in ScopeAdditions] ==
  LET v == a.variable
      b == a.bindings
      added ==
        IF v = 0 THEN {b}
        ELSE IF Bound(b, v) = {} THEN {Bind(b, v, a.stack)}
        ELSE UNION {{Bind(c, v, s.result) : c \in AddScopes[Addition(s.variable, s.stack, b)]} :
                      s \in SettleScopes(a.stack, The(Bound(b, v)))}
  IN  added \cap Bindings(ScopeStacks)

UnifyScopes(l, r, b) ==
  UNION {{[stack |-> s.result, scopes |-> c] : c \in AddScopes[Addition(s.variable, s.stack, b)]} :
           s \in SettleScopes(l, r)}

(* PartialScopedSymbol::unify *)
UnifySymbol(l, r, b) ==
  IF l.symbol # r.symbol \/ (l.scopes = {}) # (r.scopes = {}) THEN {}
  ELSE IF l.scopes = {} THEN {[symbol |-> l, scopes |-> b]}
  ELSE {[symbol |-> [l EXCEPT !.scopes = {u.stack}], scopes |-> u.scopes] :
          u \in UnifyScopes(The(l.scopes), The(r.scopes), b)}

(* The common part of two symbol stacks, symbol by symbol. *)
UnifyNext(l, r, done, i) ==
  UNION {{[items |-> Append(d.items, u.symbol), scopes |-> u.scopes] :
            u \in UnifySymbol(l.items[i], r.items[i], d.scopes)} : d \in done}

UnifyHeads(l, r, b) ==
  Loop(LAMBDA done, i : UnifyNext(l, r, done, i), {[items |-> <<>>, scopes |-> b]},
       [i \in 1..CommonLength(l, r) |-> i])

SettleSymbols(l, r, b) ==
  LET n == CommonLength(l, r)
  IN  UNION {{[settled |-> WithHead(head.items, s), scopes |-> head.scopes] :
                s \in Settle(DropFront(l, n), DropFront(r, n))} :
               head \in UnifyHeads(l, r, b)}

BothBindings == [symbols : Bindings(SymbolStacks), scopes : Bindings(ScopeStacks)]
SymbolAdditions == [variable : Nat, stack : SymbolStacks, bindings : BothBindings]

(* PartialSymbolStackBindings::add *)
AddSymbols[a \in SymbolAdditions] ==
  LET v == a.variable
      b == a.bindings
      added ==
        IF v = 0 THEN {b}
        ELSE IF Bound(b.symbols, v) = {} THEN {[b EXCEPT !.symbols = Bind(@, v, a.stack)]}
        ELSE UNION {{[c EXCEPT !.symbols = Bind(@, v, u.settled.result)] :
                       c \in AddSymbols[Addition(u.settled.variable, u.settled.stack,
                                                 [b EXCEPT !.scopes = u.scopes])]} :
                      u \in SettleSymbols(a.stack, The(Bound(b.symbols, v)), b.scopes)}
  IN  added \cap BothBindings

UnifySymbols(l, r, b) ==
  UNION {AddSymbols[Addition(u.settled.variable, u.settled.stack, [b EXCEPT !.scopes = u.scopes])] :
           u \in SettleSymbols(l, r, b.scopes)}

-----------------------------------------------------------------------------
(* Partial paths.  An edge of a path is its source and its precedence.      *)

PathEdge(source, precedence) == [source |-> source, precedence |-> precedence]

Paths ==
  [start : Nodes, end : Nodes, edges : Seq([source : Nodes, precedence : Nat]),
   symbolPre : SymbolStacks, symbolPost : SymbolStacks,
   scopePre : ScopeStacks, scopePost : ScopeStacks]

(* "We don't have to check the postconditions" *)
LargestSymbolVariable(p) == p.symbolPre.variable

LargestScopeVariable(p) ==
  LET attached == UNION {p.symbolPre.items[i].scopes : i \in DOMAIN p.symbolPre.items}
      used == {p.scopePre.variable} \cup {s.variable : s \in attached}
  IN  CHOOSE v \in used : \A w \in used : w <= v

(* Mutated: the variable is the first one, used or not. *)
FreshScopeVariableFirst(p) == 1

FreshScopeVariable(p) == LargestScopeVariable(p) + 1

(* Node::append_to_partial_stacks.  A symbol that the postcondition does    *)
(* not hold yet is demanded by the precondition; its scopes are then a      *)
(* variable that the precondition has not used.                             *)
Visit(n, p) ==
  LET symbol == SymbolOf[n]
      scoped == KindOf[n] \in Scoped
      attached == FromVariable(FreshScopeVariable(p))
  IN  CASE KindOf[n] = "drop scopes" -> {[p EXCEPT !.scopePost = EmptyStack]}
        [] KindOf[n] \in Pushes ->
             {[p EXCEPT !.symbolPost = PushFront(ScopedSymbol(symbol, scopes), @)] :
                scopes \in IF ~scoped THEN {{}}
                           ELSE IF ScopeOf[n] \in Nodes
                           THEN {{PushFront(ScopeOf[n], p.scopePost)}} ELSE {}}
        [] KindOf[n] \in Pops ->
             IF ~CanMatchEmpty(p.symbolPost)
             THEN {[p EXCEPT !.symbolPost = DropFront(@, 1),
                             !.scopePost = IF scoped THEN The(top.scopes) ELSE @] :
                     top \in {t \in {p.symbolPost.items[1]} :
                                t.symbol = symbol /\ (t.scopes # {}) = scoped}}
             ELSE IF p.symbolPost.variable = 0 THEN {}
             ELSE {[p EXCEPT !.symbolPre = PushBack(@, ScopedSymbol(symbol,
                                             IF scoped THEN {attached} ELSE {})),
                             !.scopePost = IF scoped THEN attached ELSE @]}
        [] OTHER -> {p}

(* PartialPath::from_node, expected never to fail. *)
FromNode(n) ==
  The(Visit(n, [start |-> n, end |-> n, edges |-> <<>>,
                symbolPre |-> FromVariable(1), symbolPost |-> FromVariable(1),
                scopePre |-> FromVariable(1), scopePost |-> FromVariable(1)]))

Shadows(p, q) ==
  \E i \in DOMAIN p.edges \cap DOMAIN q.edges :
    /\ p.edges[i].precedence > q.edges[i].precedence
    /\ \A j \in 1..i : p.edges[j].source = q.edges[j].source
    /\ \A j \in 1..i - 1 : p.edges[j].precedence <= q.edges[j].precedence

(* PartialPath::equals leaves out the edges. *)
Equals(p, q) == [p EXCEPT !.edges = <<>>] = [q EXCEPT !.edges = <<>>]

StartsAtReference(p) ==
  p.start \in References /\ CanMatchEmpty(p.symbolPre) /\ CanMatchEmpty(p.scopePre)
EndsAtDefinition(p) == p.end \in Definitions /\ CanMatchEmpty(p.symbolPost)
IsComplete(p) == StartsAtReference(p) /\ EndsAtDefinition(p)

HasPreconditionVariable(p) == p.symbolPre.variable # 0 \/ p.scopePre.variable # 0

(* Mutated: the variables of attached scopes are not counted. *)
OffsetBeyondStacks(p, q) ==
  LET symbols == LargestSymbolVariable(q)
      scopes == q.scopePre.variable
  IN  [p EXCEPT !.symbolPre = OffsetSymbols(@, symbols, scopes),
                !.symbolPost = OffsetSymbols(@, symbols, scopes),
                !.scopePre = WithOffset(@, scopes),
                !.scopePost = WithOffset(@, scopes)]

(* ensure_no_overlapping_variables *)
OffsetBeyond(p, q) ==
  LET symbols == LargestSymbolVariable(q)
      scopes == LargestScopeVariable(q)
  IN  [p EXCEPT !.symbolPre = OffsetSymbols(@, symbols, scopes),
                !.symbolPost = OffsetSymbols(@, symbols, scopes),
                !.scopePre = WithOffset(@, scopes),
                !.scopePost = WithOffset(@, scopes)]

ApplyBindings(p, b) ==
  [p EXCEPT !.symbolPre = SubstituteSymbols(@, b),
            !.symbolPost = SubstituteSymbols(@, b),
            !.scopePre = Substitute(@, b.scopes),
            !.scopePost = Substitute(@, b.scopes)]

(* eliminate_precondition_stack_variables *)
Eliminate(p) ==
  LET empty(v) == IF v = 0 THEN NoBindings ELSE Bind(NoBindings, v, EmptyStack)
  IN  ApplyBindings(p, [symbols |-> empty(p.symbolPre.variable),
                        scopes |-> empty(p.scopePre.variable)])

-----------------------------------------------------------------------------
(* Jumps. *)

(* Mutated: the scope jumped to stays on the stack. *)
ResolveKeepingScope(p) ==
  IF KindOf[p.end] # "jump to" THEN {p}
  ELSE IF p.scopePost = EmptyStack THEN {}
  ELSE IF CanMatchEmpty(p.scopePost) THEN {p}
  ELSE {[p EXCEPT !.end = p.scopePost.items[1], !.edges = Append(@, PathEdge(p.end, 0))]}

ResolveFromPostcondition(p) ==
  IF KindOf[p.end] # "jump to" THEN {p}
  ELSE IF p.scopePost = EmptyStack THEN {}
  ELSE IF CanMatchEmpty(p.scopePost) THEN {p}
  ELSE {[p EXCEPT !.end = p.scopePost.items[1],
                  !.scopePost = DropFront(@, 1),
                  !.edges = Append(@, PathEdge(p.end, 0))]}

(* Only the precondition is told what the variable begins with.  A jump     *)
(* that is not resolved has no scopes left in its postcondition.            *)
ResolveToNode(n, p) ==
  LET v == p.scopePost.variable
      b == [symbols |-> NoBindings, scopes |-> Bind(NoBindings, v, Stack(<<n>>, v))]
  IN  IF KindOf[p.end] # "jump to" THEN {p}
      ELSE IF v = 0 THEN {}
      ELSE {[p EXCEPT !.symbolPre = SubstituteSymbols(@, b),
                      !.scopePre = Substitute(@, b.scopes),
                      !.end = n]}

-----------------------------------------------------------------------------
(* Extending a path. *)

AppendEdge(e, p) ==
  UNION {ResolveFromPostcondition([q EXCEPT !.end = e.sink,
                                     !.edges = Append(@, PathEdge(e.source, e.precedence))]) :
           q \in IF e.source = p.end THEN Visit(e.sink, p) ELSE {}}

(* What unwrap and unwrap_or_else of compute_join demand: the end node's    *)
(* push is on the postcondition, the start node's pop in the precondition.  *)
HalfOpens(symbols, n, kinds) ==
  KindOf[n] \in kinds =>
    /\ ~CanMatchEmpty(symbols)
    /\ symbols.items[1].symbol = SymbolOf[n]
    /\ KindOf[n] = "pop scoped symbol" => symbols.items[1].scopes # {}

(* halfopen_closed_partial_postcondition and _precondition: the effect of   *)
(* the node that the paths share must count only once.                      *)
HalfOpenPostcondition(p) ==
  IF KindOf[p.end] \in Pushes THEN DropFront(p.symbolPost, 1) ELSE p.symbolPost
HalfOpenPrecondition(p) ==
  IF KindOf[p.start] \in Pops
  THEN [symbols |-> DropFront(p.symbolPre, 1),
        scopes |-> IF KindOf[p.start] \in Scoped THEN The(p.symbolPre.items[1].scopes)
                   ELSE p.scopePre]
  ELSE [symbols |-> p.symbolPre, scopes |-> p.scopePre]

(* compute_join: the bindings that make the postcondition of l satisfy the  *)
(* precondition of r.                                                       *)
Join(l, r) ==
  LET pre == HalfOpenPrecondition(r)
      unified == UnifySymbols(HalfOpenPostcondition(l), pre.symbols,
                              [symbols |-> NoBindings, scopes |-> NoBindings])
  IN  IF l.end # r.start THEN {}
      ELSE UNION {{[b EXCEPT !.scopes = u.scopes] :
                     u \in UnifyScopes(l.scopePost, pre.scopes, b.scopes)} : b \in unified}

Concatenate(l, r) ==
  UNION {ResolveFromPostcondition(
           ApplyBindings([l EXCEPT !.symbolPost = r.symbolPost, !.scopePost = r.scopePost,
                                   !.end = r.end, !.edges = @ \o r.edges], b)) :
           b \in Join(l, r)}

(* Appendable for PartialPath and for Edge. *)
AppendPath(r, p) ==
  UNION {Concatenate(OffsetBeyond(q, r), r) : q \in ResolveToNode(r.start, p)}
AppendEdgeResolved(e, p) == UNION {AppendEdge(e, q) : q \in ResolveToNode(e.source, p)}

(* is_cyclic: whether the path can follow itself, and what that changes. *)
Cyclicity(p) ==
  LET r == OffsetBeyond(p, p)
      kind(b) ==
        IF \/ Bound(b.symbols, p.symbolPre.variable) # {}
           \/ Bound(b.scopes, p.scopePre.variable) # {}
        THEN "strengthens precondition"
        ELSE IF \/ Bound(b.symbols, r.symbolPost.variable) # {}
                \/ Bound(b.scopes, r.scopePost.variable) # {}
        THEN "strengthens postcondition"
        ELSE "free"
  IN  {kind(b) : b \in IF p.start = p.end THEN Join(p, r) ELSE {}}
=============================================================================
