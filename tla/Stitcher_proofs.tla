--------------------------- MODULE Stitcher_proofs ---------------------------
(***************************************************************************)
(* Proofs about Stitcher, for any stack graph, any files and references,   *)
(* and any settings: every path that is stitched means what its nodes do   *)
(* to the stacks, and is well-formed.                                      *)
(*                                                                         *)
(* In a file, edges are appended (PathMeaning_proofs).  A query appends    *)
(* stored paths to a path without variables: what unify gives then is      *)
(* known, so the variables of the stored path get what its nodes would     *)
(* find, and the result is ground again.                                   *)
(***************************************************************************)
EXTENDS Stitcher, PathMeaning_proofs

-----------------------------------------------------------------------------
(* The loops of the stitcher. *)

LEMMA KeptLoop ==
  ASSUME NEW seq, IsSequence(seq)
  PROVE  \E after :
           /\ after[0] = [items |-> <<>>, seen |-> similar] /\ Filtered(seq) = after[Len(seq)]
           /\ \A i \in 1..Len(seq) : after[i] = Kept(after[i - 1], seq[i])
<1> DEFINE Step(a, e) == Kept(a, e)
           First == [items |-> <<>>, seen |-> similar]
<1> DEFINE IsLoop(f, k) == f = [i \in 0..k |-> IF i = 0 THEN First ELSE Step(f[i - 1], seq[i])]
           Defined == {k \in 0..Len(seq) : \E f : IsLoop(f, k)}
           after == CHOOSE f : IsLoop(f, Len(seq))
<1>1. Filtered(seq) = after[Len(seq)]
  BY DEF Loop, Filtered
<1> HIDE DEF Step, First
<1>2. Len(seq) \in Nat
  BY SequenceIs
<1>3. \E f : IsLoop(f, 0)
  <2>1. IsLoop([i \in 0..0 |-> First], 0)
    OBVIOUS
  <2> HIDE DEF IsLoop
  <2> QED BY <2>1
<1>4. ASSUME NEW k \in 1..Len(seq), \E f : IsLoop(f, k - 1) PROVE \E f : IsLoop(f, k)
  <2>1. PICK f : IsLoop(f, k - 1)
    BY <1>4
  <2> DEFINE longer == [i \in 0..k |-> IF i = k THEN Step(f[k - 1], seq[k]) ELSE f[i]]
  <2>2. IsLoop(longer, k)
    BY <1>2, <2>1
  <2> HIDE DEF IsLoop
  <2> QED BY <2>2
<1> HIDE DEF IsLoop
<1>5. Climbs(Len(seq), Defined)
  BY <1>2, <1>3, <1>4 DEF Climbs
<1>6. IsLoop(after, Len(seq))
  <2> HIDE DEF Defined
  <2>1. Len(seq) \in Defined
    BY <1>2, <1>5, UpTo
  <2> QED BY <2>1 DEF Defined
<1> HIDE DEF after
<1>7. /\ after[0] = First
      /\ \A i \in 1..Len(seq) : after[i] = Step(after[i - 1], seq[i])
  BY <1>2, <1>6 DEF IsLoop
<1> QED BY <1>1, <1>7 DEF Step, First

LoadAll(requests) == Loop(LoadRequest, [loaded |-> loaded, database |-> database], requests)

LEMMA LoadLoop ==
  ASSUME NEW seq, IsSequence(seq)
  PROVE  \E after :
           /\ after[0] = [loaded |-> loaded, database |-> database] /\ LoadAll(seq) = after[Len(seq)]
           /\ \A i \in 1..Len(seq) : after[i] = LoadRequest(after[i - 1], seq[i])
<1> DEFINE Step(a, e) == LoadRequest(a, e)
           First == [loaded |-> loaded, database |-> database]
<1> DEFINE IsLoop(f, k) == f = [i \in 0..k |-> IF i = 0 THEN First ELSE Step(f[i - 1], seq[i])]
           Defined == {k \in 0..Len(seq) : \E f : IsLoop(f, k)}
           after == CHOOSE f : IsLoop(f, Len(seq))
<1>1. LoadAll(seq) = after[Len(seq)]
  BY DEF Loop, LoadAll
<1> HIDE DEF Step, First
<1>2. Len(seq) \in Nat
  BY SequenceIs
<1>3. \E f : IsLoop(f, 0)
  <2>1. IsLoop([i \in 0..0 |-> First], 0)
    OBVIOUS
  <2> HIDE DEF IsLoop
  <2> QED BY <2>1
<1>4. ASSUME NEW k \in 1..Len(seq), \E f : IsLoop(f, k - 1) PROVE \E f : IsLoop(f, k)
  <2>1. PICK f : IsLoop(f, k - 1)
    BY <1>4
  <2> DEFINE longer == [i \in 0..k |-> IF i = k THEN Step(f[k - 1], seq[k]) ELSE f[i]]
  <2>2. IsLoop(longer, k)
    BY <1>2, <2>1
  <2> HIDE DEF IsLoop
  <2> QED BY <2>2
<1> HIDE DEF IsLoop
<1>5. Climbs(Len(seq), Defined)
  BY <1>2, <1>3, <1>4 DEF Climbs
<1>6. IsLoop(after, Len(seq))
  <2> HIDE DEF Defined
  <2>1. Len(seq) \in Defined
    BY <1>2, <1>5, UpTo
  <2> QED BY <2>1 DEF Defined
<1> HIDE DEF after
<1>7. /\ after[0] = First
      /\ \A i \in 1..Len(seq) : after[i] = Step(after[i - 1], seq[i])
  BY <1>2, <1>6 DEF IsLoop
<1> QED BY <1>1, <1>7 DEF Step, First

LEMMA FilteredIs ==
  ASSUME NEW S, NEW seq \in Seq(S)
  PROVE  Filtered(seq).items \in Seq(S)
<1>1. Len(seq) \in Nat /\ IsSequence(seq)
  BY SequenceOf, SequenceIs
<1>2. PICK after :
        /\ after[0] = [items |-> <<>>, seen |-> similar] /\ Filtered(seq) = after[Len(seq)]
        /\ \A i \in 1..Len(seq) : after[i] = Kept(after[i - 1], seq[i])
  <2>1. IsSequence(seq)
    BY <1>1
  <2> QED BY ONLY <2>1, KeptLoop
<1> DEFINE T == {k \in 0..Len(seq) : after[k].items \in Seq(S) /\ after[k] = [items |-> after[k].items, seen |-> after[k].seen]}
<1>3. after[0].items \in Seq(S) /\ after[0] = [items |-> after[0].items, seen |-> after[0].seen]
  BY <1>2
<1>4. ASSUME NEW k \in 1..Len(seq), after[k - 1].items \in Seq(S) /\ after[k - 1] = [items |-> after[k - 1].items, seen |-> after[k - 1].seen] PROVE after[k].items \in Seq(S) /\ after[k] = [items |-> after[k].items, seen |-> after[k].seen]
  <2> DEFINE a == after[k - 1]
             x == seq[k]
             b == after[k]
  <2>1. x \in S /\ b = Kept(a, x)
    BY <1>2
  <2>2. a.items \in Seq(S) /\ a = [items |-> a.items, seen |-> a.seen]
    BY <1>4
  <2> SUFFICES b.items \in Seq(S) /\ b = [items |-> b.items, seen |-> b.seen]
    OBVIOUS
  <2> HIDE DEF a, x, b
  <2>3. \/ Kept(a, x) = [items |-> Append(a.items, x), seen |-> a.seen]
        \/ Kept(a, x) = a
        \/ Kept(a, x) = [items |-> Append(a.items, x), seen |-> Remember(a.seen, x.path)]
    BY <2>2 DEF Kept
  <2>4. Append(a.items, x) \in Seq(S)
    BY <2>1, <2>2
  <2>5. CASE b = a
    BY <2>2, <2>5
  <2>6. ASSUME NEW seen, b = [items |-> Append(a.items, x), seen |-> seen]
        PROVE  b.items \in Seq(S) /\ b = [items |-> b.items, seen |-> b.seen]
    <3>1. b.items = Append(a.items, x) /\ b.seen = seen
      BY <2>6
    <3> QED BY <2>4, <2>6, <3>1
  <2> QED BY <2>1, <2>3, <2>5, <2>6
<1>5. Climbs(Len(seq), T)
  BY <1>1, <1>3, <1>4 DEF Climbs
<1>6. after[Len(seq)].items \in Seq(S) /\ after[Len(seq)] = [items |-> after[Len(seq)].items, seen |-> after[Len(seq)].seen]
  <2>1. Len(seq) \in T
    <3> HIDE DEF T
    <3> QED BY <1>1, <1>5, UpTo
  <2> QED BY <2>1
<1> QED BY <1>2, <1>6

LEMMA LoadIs ==
  ASSUME NEW S, NEW seq, IsSequence(seq), database \in Seq(S),
         \A i \in 1..Len(seq) : RestoredRows(Rows(seq[i])) \in Seq(S)
  PROVE  LoadAll(seq).database \in Seq(S)
<1>1. Len(seq) \in Nat /\ IsSequence(seq)
  BY SequenceOf, SequenceIs
<1>2. PICK after :
        /\ after[0] = [loaded |-> loaded, database |-> database] /\ LoadAll(seq) = after[Len(seq)]
        /\ \A i \in 1..Len(seq) : after[i] = LoadRequest(after[i - 1], seq[i])
  <2>1. IsSequence(seq)
    BY <1>1
  <2> QED BY ONLY <2>1, LoadLoop
<1> DEFINE T == {k \in 0..Len(seq) : after[k].database \in Seq(S)}
<1>3. after[0].database \in Seq(S)
  BY <1>2
<1>4. ASSUME NEW k \in 1..Len(seq), after[k - 1].database \in Seq(S) PROVE after[k].database \in Seq(S)
  <2> DEFINE a == after[k - 1]
             rows == RestoredRows(Rows(seq[k]))
             b == after[k]
  <2>1. \/ b = a
        \/ b = [loaded |-> a.loaded \cup {seq[k]}, database |-> a.database \o rows]
    BY <1>2 DEF LoadRequest
  <2>2. a.database \in Seq(S) /\ rows \in Seq(S)
    BY <1>4
  <2> SUFFICES b.database \in Seq(S)
    OBVIOUS
  <2> HIDE DEF a, rows, b
  <2>3. CASE b = a
    BY <2>2, <2>3
  <2>4. CASE b = [loaded |-> a.loaded \cup {seq[k]}, database |-> a.database \o rows]
    <3>1. b.database = a.database \o rows
      BY <2>4
    <3> QED BY <2>2, <3>1
  <2> QED BY <2>1, <2>3, <2>4
<1>5. Climbs(Len(seq), T)
  BY <1>1, <1>3, <1>4 DEF Climbs
<1>6. after[Len(seq)].database \in Seq(S)
  <2>1. Len(seq) \in T
    <3> HIDE DEF T
    <3> QED BY <1>1, <1>5, UpTo
  <2> QED BY <2>1
<1> QED BY <1>2, <1>6

-----------------------------------------------------------------------------
(* Unification, step by step, gives stacks and bindings. *)

StacksOf(I) == [items : Seq(I), variable : Nat]

LEMMA StacksOfIs ==
  /\ ScopeStacks = StacksOf(ExportedScopes) /\ SymbolStacks = StacksOf(StackSymbols)
  /\ \A I : EmptyStack \in StacksOf(I)
  /\ \A I : \A s \in Seq(I), v \in Nat : Stack(s, v) \in StacksOf(I)
  /\ \A I : \A st \in StacksOf(I) :
       st = Stack(st.items, st.variable) /\ st.items \in Seq(I) /\ st.variable \in Nat
<1>1. ScopeStacks = StacksOf(ExportedScopes)
  BY DEF ScopeStacks, StacksOf
<1>2. SymbolStacks = StacksOf(StackSymbols)
  BY DEF SymbolStacks, StacksOf, StackSymbols
<1>3. ASSUME NEW I, NEW s \in Seq(I), NEW v \in Nat PROVE Stack(s, v) \in StacksOf(I)
  BY DEF Stack, StacksOf
<1>4. ASSUME NEW I PROVE EmptyStack \in StacksOf(I)
  <2>1. <<>> \in Seq(I) /\ 0 \in Nat
    BY EmptySeq
  <2> DEFINE e == <<>>
  <2> HIDE DEF e
  <2>2. e \in Seq(I) /\ 0 \in Nat
    BY <2>1 DEF e
  <2>3. Stack(e, 0) \in StacksOf(I)
    BY <1>3, <2>2
  <2> QED BY <2>3 DEF EmptyStack, e
<1>5. ASSUME NEW I, NEW st \in StacksOf(I)
      PROVE  st = Stack(st.items, st.variable) /\ st.items \in Seq(I) /\ st.variable \in Nat
  BY DEF Stack, StacksOf
<1> QED BY <1>1, <1>2, <1>3, <1>4, <1>5

Settled(I, s) ==
  /\ s.variable \in Nat /\ s.stack \in StacksOf(I) /\ s.result \in StacksOf(I)
  /\ s = [variable |-> s.variable, stack |-> s.stack, result |-> s.result]

LEMMA SettleTyped ==
  ASSUME NEW I, NEW l \in StacksOf(I), NEW r \in StacksOf(I), NEW s \in Settle(l, r)
  PROVE  Settled(I, s)
<1>1. EmptyStack \in StacksOf(I) /\ l.variable \in Nat /\ r.variable \in Nat /\ 0 \in Nat
  BY StacksOfIs
<1> DEFINE x == IF l = EmptyStack THEN r ELSE l
           y == IF r = EmptyStack THEN l ELSE r
<1>2. x \in StacksOf(I) /\ y \in StacksOf(I)
  OBVIOUS
<1>3. \/ s = [variable |-> r.variable, stack |-> l, result |-> x]
      \/ s = [variable |-> l.variable, stack |-> r, result |-> y]
      \/ s = [variable |-> 0, stack |-> EmptyStack, result |-> l]
  BY DEF Settle
<1> HIDE DEF x, y
<1>4. CASE s = [variable |-> r.variable, stack |-> l, result |-> x]
  BY <1>1, <1>2, <1>4 DEF Settled
<1>5. CASE s = [variable |-> l.variable, stack |-> r, result |-> y]
  BY <1>1, <1>2, <1>5 DEF Settled
<1>6. CASE s = [variable |-> 0, stack |-> EmptyStack, result |-> l]
  BY <1>1, <1>2, <1>6 DEF Settled
<1> QED BY <1>3, <1>4, <1>5, <1>6

(* The part that both stacks have is put in front again. *)
LEMMA WithHeadIs ==
  ASSUME NEW I, NEW s, Settled(I, s), NEW head \in Seq(I)
  PROVE  /\ Settled(I, WithHead(head, s))
         /\ WithHead(head, s).variable = s.variable /\ WithHead(head, s).stack = s.stack
<1> DEFINE v == s.variable
           st == s.stack
           z == s.result
           items == head \o z.items
           w == [z EXCEPT !.items = items]
           t == WithHead(head, s)
<1>1. s = [variable |-> v, stack |-> st, result |-> z] /\ v \in Nat /\ st \in StacksOf(I) /\ z \in StacksOf(I)
  BY DEF Settled
<1> HIDE DEF v, st, z
<1>2. z.items \in Seq(I) /\ z = Stack(z.items, z.variable) /\ z.variable \in Nat
  BY <1>1, StacksOfIs
<1>3. items \in Seq(I)
  BY <1>2
<1>4. w \in StacksOf(I)
  <2> HIDE DEF items
  <2> QED BY <1>1, <1>3 DEF StacksOf
<1>5. t = [variable |-> v, stack |-> st, result |-> w]
  <2>1. t = [s EXCEPT !.result = w]
    BY <1>1 DEF WithHead
  <2> HIDE DEF w, t
  <2> QED BY <1>1, <2>1
<1> HIDE DEF w, t
<1>6. t.variable = v /\ t.stack = st /\ t.result = w
  BY <1>5
<1>7. Settled(I, t)
  BY <1>1, <1>4, <1>5, <1>6 DEF Settled
<1> QED BY <1>6, <1>7 DEF t, v, st

LEMMA DroppedTyped ==
  ASSUME NEW I, NEW l \in StacksOf(I), NEW n \in Nat, n <= Len(l.items)
  PROVE  /\ DropFront(l, n) \in StacksOf(I) /\ SubSeq(l.items, 1, n) \in Seq(I)
         /\ DropFront(l, n) = Stack(SubSeq(l.items, n + 1, Len(l.items)), l.variable)
<1> DEFINE items == l.items
           v == l.variable
           rest == SubSeq(items, n + 1, Len(items))
           head == SubSeq(items, 1, n)
<1>1. items \in Seq(I) /\ v \in Nat /\ l = Stack(items, v)
  BY StacksOfIs
<1> HIDE DEF items, v
<1>2. rest \in Seq(I) /\ head \in Seq(I)
  BY <1>1 DEF items
<1>3. DropFront(l, n) = Stack(rest, v)
  BY <1>1, StackDropped
<1> HIDE DEF rest, head
<1>4. Stack(rest, v) \in StacksOf(I)
  BY <1>1, <1>2, StacksOfIs
<1> QED BY <1>2, <1>3, <1>4 DEF rest, head, items, v

LEMMA CommonIs ==
  ASSUME NEW I, NEW l \in StacksOf(I), NEW r \in StacksOf(I)
  PROVE  /\ CommonLength(l, r) \in Nat /\ CommonLength(l, r) <= Len(l.items)
         /\ CommonLength(l, r) <= Len(r.items)
         /\ CommonLength(l, r) = Len(l.items) \/ CommonLength(l, r) = Len(r.items)
<1>1. l.items \in Seq(I) /\ r.items \in Seq(I)
  BY StacksOfIs
<1>2. Len(l.items) \in Nat /\ Len(r.items) \in Nat
  BY <1>1
<1> QED BY <1>2 DEF CommonLength, Smaller

LEMMA SettleScopesTyped ==
  ASSUME NEW l \in ScopeStacks, NEW r \in ScopeStacks, NEW s \in SettleScopes(l, r)
  PROVE  /\ s.variable \in Nat /\ s.stack \in ScopeStacks /\ s.result \in ScopeStacks
<1> DEFINE I == ExportedScopes
           n == CommonLength(l, r)
           head == SubSeq(l.items, 1, n)
<1>1. l \in StacksOf(I) /\ r \in StacksOf(I) /\ ScopeStacks = StacksOf(I)
  BY StacksOfIs
<1> HIDE DEF I
<1>2. n \in Nat /\ n <= Len(l.items) /\ n <= Len(r.items)
  BY <1>1, CommonIs
<1>3. PICK z \in Settle(DropFront(l, n), DropFront(r, n)) : s = WithHead(head, z)
  BY DEF SettleScopes
<1> HIDE DEF n
<1>4. DropFront(l, n) \in StacksOf(I) /\ DropFront(r, n) \in StacksOf(I) /\ head \in Seq(I)
  BY <1>1, <1>2, DroppedTyped
<1>5. Settled(I, z)
  BY <1>3, <1>4, SettleTyped
<1>6. Settled(I, s)
  BY <1>3, <1>4, <1>5, WithHeadIs
<1> QED BY <1>1, <1>6 DEF Settled

-----------------------------------------------------------------------------
(* What add gives, though nothing says how often it calls itself: what is   *)
(* monotone has a fixed point.                                              *)

Monotone(A, U, Phi) ==
  \A f, g \in [A -> SUBSET U] :
    (\A a \in A : f[a] \subseteq g[a]) => \A a \in A : Phi[f][a] \subseteq Phi[g][a]

HasFixedPoint(A, U, Phi) == \E f \in [A -> SUBSET U] : Phi[f] = f

LEMMA FixedPoint ==
  ASSUME NEW A, NEW U, NEW Phi, Phi \in [[A -> SUBSET U] -> [A -> SUBSET U]], Monotone(A, U, Phi)
  PROVE  HasFixedPoint(A, U, Phi)
<1> DEFINE F == [A -> SUBSET U]
           Grow == {f \in F : \A a \in A : f[a] \subseteq Phi[f][a]}
           g == [a \in A |-> UNION {f[a] : f \in Grow}]
           h == Phi[g]
<1>1. g \in F
  OBVIOUS
<1>2. \A f \in Grow : \A a \in A : f[a] \subseteq g[a]
  OBVIOUS
<1>3. \A f \in Grow : f \in F /\ \A a \in A : f[a] \subseteq Phi[f][a]
  OBVIOUS
<1>4. ASSUME NEW x \in F, NEW y \in F, \A a \in A : x[a] \subseteq y[a]
      PROVE  \A a \in A : Phi[x][a] \subseteq Phi[y][a]
  BY <1>4 DEF Monotone
<1>5. h \in F
  BY <1>1
<1>6. ASSUME NEW a \in A, NEW e \in g[a] PROVE e \in h[a]
  <2>1. PICK f \in Grow : e \in f[a]
    BY <1>6
  <2> HIDE DEF Grow, g, h
  <2>2. e \in Phi[f][a]
    BY <1>3, <2>1
  <2>3. \A b \in A : Phi[f][b] \subseteq Phi[g][b]
    BY <1>1, <1>2, <1>3, <1>4
  <2> QED BY <2>2, <2>3 DEF h
<1> HIDE DEF g
<1>7. \A a \in A : g[a] \subseteq h[a]
  BY <1>6
<1>8. \A a \in A : Phi[g][a] \subseteq Phi[h][a]
  BY <1>1, <1>4, <1>5, <1>7
<1>9. h \in Grow
  BY <1>5, <1>8
<1> HIDE DEF Grow
<1>10. \A a \in A : h[a] \subseteq g[a]
  BY <1>2, <1>9
<1>11. \A a \in A : h[a] = g[a]
  BY <1>7, <1>10
<1> HIDE DEF h
<1>12. h = g
  BY <1>1, <1>5, <1>11
<1> QED BY <1>1, <1>12 DEF h, HasFixedPoint

(* What is added, if add gives f. *)
ScopesAdded(f, v, st, b) ==
  IF v = 0 THEN {b}
  ELSE IF Bound(b, v) = {} THEN {Bind(b, v, st)}
  ELSE UNION {{Bind(c, v, s.result) : c \in f[Addition(s.variable, s.stack, b)]} :
                s \in SettleScopes(st, The(Bound(b, v)))}

LEMMA BoundTyped ==
  ASSUME NEW S, NEW b \in Bindings(S), NEW v
  PROVE  /\ Bound(b, v) \subseteq S /\ Len(b) \in Nat
         /\ Bound(b, v) # {} => The(Bound(b, v)) \in S
<1>1. b \in Seq(SUBSET S)
  BY DEF Bindings
<1>2. Len(b) \in Nat
  BY <1>1
<1>3. Bound(b, v) \subseteq S
  <2>1. CASE v \in 1..Len(b)
    <3>1. b[v] \in SUBSET S
      BY <1>1, <2>1
    <3> QED BY <2>1, <3>1 DEF Bound
  <2>2. CASE v \notin 1..Len(b)
    BY <2>2 DEF Bound
  <2> QED BY <2>1, <2>2
<1> QED BY <1>2, <1>3 DEF The

LEMMA AddScopesExists ==
  ASSUME NEW v \in Nat, NEW st \in ScopeStacks, NEW b \in Bindings(ScopeStacks)
  PROVE  AddScopes[Addition(v, st, b)] = ScopesAdded(AddScopes, v, st, b) \cap Bindings(ScopeStacks)
<1> DEFINE A == ScopeAdditions
           U == Bindings(ScopeStacks)
           F == [A -> SUBSET U]
           Step(f, a) == ScopesAdded(f, a.variable, a.stack, a.bindings) \cap U
           Phi == [f \in F |-> [a \in A |-> Step(f, a)]]
<1>1. Phi \in [F -> F]
  <2> HIDE DEF A, U
  <2> QED OBVIOUS
<1>2. \A a \in A : a.variable \in Nat /\ a.stack \in ScopeStacks /\ a.bindings \in Bindings(ScopeStacks)
  BY DEF ScopeAdditions
<1>3. ASSUME NEW a \in A, Bound(a.bindings, a.variable) # {},
             NEW s \in SettleScopes(a.stack, The(Bound(a.bindings, a.variable)))
      PROVE  Addition(s.variable, s.stack, a.bindings) \in A
  <2>1. The(Bound(a.bindings, a.variable)) \in ScopeStacks
    BY <1>2, <1>3, BoundTyped
  <2>2. s.variable \in Nat /\ s.stack \in ScopeStacks
    BY <1>2, <2>1, SettleScopesTyped
  <2> QED BY <1>2, <2>2 DEF ScopeAdditions, Addition
<1>4. ASSUME NEW f \in F, NEW g \in F, \A a \in A : f[a] \subseteq g[a],
             NEW a \in A, NEW e \in Step(f, a)
      PROVE  e \in Step(g, a)
  <2> DEFINE w == a.variable
             c == a.bindings
             x == a.stack
  <2>1. CASE w = 0 \/ Bound(c, w) = {}
    BY <1>4, <2>1 DEF ScopesAdded
  <2>2. CASE w # 0 /\ Bound(c, w) # {}
    <3>1. PICK s \in SettleScopes(x, The(Bound(c, w))) :
             \E d \in f[Addition(s.variable, s.stack, c)] : e = Bind(d, w, s.result)
      BY <1>4, <2>2 DEF ScopesAdded
    <3>2. PICK d \in f[Addition(s.variable, s.stack, c)] : e = Bind(d, w, s.result)
      BY <3>1
    <3>3. d \in g[Addition(s.variable, s.stack, c)]
      BY <1>3, <1>4, <2>2, <3>2
    <3>4. e \in U
      BY <1>4
    <3> QED BY <2>2, <3>2, <3>3, <3>4 DEF ScopesAdded
  <2> QED BY <2>1, <2>2
<1>5. Monotone(A, U, Phi)
  <2> SUFFICES ASSUME NEW f \in F, NEW g \in F, \A a \in A : f[a] \subseteq g[a], NEW a \in A
               PROVE  Phi[f][a] \subseteq Phi[g][a]
    BY DEF Monotone
  <2>1. Phi[f][a] = Step(f, a) /\ Phi[g][a] = Step(g, a)
    <3> HIDE DEF A, U, Step
    <3> QED OBVIOUS
  <2> HIDE DEF A, U, Step, F, Phi
  <2> QED BY <1>4, <2>1
<1>6. \E f \in F : Phi[f] = f
  <2>1. HasFixedPoint(A, U, Phi)
    <3> HIDE DEF A, U, Phi
    <3> QED BY <1>1, <1>5, FixedPoint
  <2> HIDE DEF A, U, Phi
  <2> QED BY <2>1 DEF HasFixedPoint
<1>7. \E f : f = [a \in A |-> Step(f, a)]
  <2>1. PICK f \in F : Phi[f] = f
    BY <1>6
  <2>2. Phi[f] = [a \in A |-> Step(f, a)]
    <3> HIDE DEF F, Step
    <3> QED OBVIOUS
  <2> HIDE DEF Step, Phi
  <2> QED BY <2>1, <2>2
<1>8. AddScopes = CHOOSE f : f = [a \in A |-> Step(f, a)]
  BY DEF AddScopes, ScopesAdded, ScopeAdditions
<1>9. AddScopes = [a \in A |-> Step(AddScopes, a)]
  <2> HIDE DEF Step
  <2> QED BY <1>7, <1>8
<1> DEFINE a == Addition(v, st, b)
<1>10. a \in A /\ a.variable = v /\ a.stack = st /\ a.bindings = b
  BY DEF ScopeAdditions, Addition
<1> HIDE DEF A, a
<1>11. AddScopes[a] = Step(AddScopes, a)
  <2> HIDE DEF Step
  <2> QED BY <1>9, <1>10
<1> QED BY <1>10, <1>11 DEF a

-----------------------------------------------------------------------------
LEMMA UnifyScopesTyped ==
  ASSUME NEW l \in ScopeStacks, NEW r \in ScopeStacks, NEW b \in Bindings(ScopeStacks),
         NEW u \in UnifyScopes(l, r, b)
  PROVE  u.stack \in ScopeStacks /\ u.scopes \in Bindings(ScopeStacks)
<1>1. PICK s \in SettleScopes(l, r) :
         u \in {[stack |-> s.result, scopes |-> c] : c \in AddScopes[Addition(s.variable, s.stack, b)]}
  BY DEF UnifyScopes
<1>2. PICK c \in AddScopes[Addition(s.variable, s.stack, b)] : u = [stack |-> s.result, scopes |-> c]
  BY <1>1
<1>3. s.variable \in Nat /\ s.stack \in ScopeStacks /\ s.result \in ScopeStacks
  BY SettleScopesTyped
<1>4. c \in Bindings(ScopeStacks)
  BY <1>2, <1>3, AddScopesExists
<1> QED BY <1>2, <1>3, <1>4

LEMMA UnifySymbolTyped ==
  ASSUME NEW l \in StackSymbols, NEW r \in StackSymbols, NEW b \in Bindings(ScopeStacks),
         NEW u \in UnifySymbol(l, r, b)
  PROVE  u.symbol \in StackSymbols /\ u.scopes \in Bindings(ScopeStacks)
<1>1. CASE l.scopes = {}
  <2>1. u = [symbol |-> l, scopes |-> b]
    BY <1>1 DEF UnifySymbol
  <2> QED BY <2>1
<1>2. CASE l.scopes # {}
  <2>1. r.scopes # {}
    BY <1>2 DEF UnifySymbol
  <2>2. PICK x \in UnifyScopes(The(l.scopes), The(r.scopes), b) :
           u = [symbol |-> [l EXCEPT !.scopes = {x.stack}], scopes |-> x.scopes]
    BY <1>2 DEF UnifySymbol
  <2>3. The(l.scopes) \in ScopeStacks /\ The(r.scopes) \in ScopeStacks
    <3>1. l.scopes \subseteq ScopeStacks /\ r.scopes \subseteq ScopeStacks
      BY DEF StackSymbols
    <3> QED BY <1>2, <2>1, <3>1 DEF The
  <2>4. x.stack \in ScopeStacks /\ x.scopes \in Bindings(ScopeStacks)
    BY <2>3, UnifyScopesTyped
  <2> DEFINE y == [l EXCEPT !.scopes = {x.stack}]
  <2>5. y \in StackSymbols
    BY <2>4 DEF StackSymbols
  <2> HIDE DEF y
  <2>6. u = [symbol |-> y, scopes |-> x.scopes]
    BY <2>2 DEF y
  <2> QED BY <2>4, <2>5, <2>6
<1> QED BY <1>1, <1>2

HeadTyped(d) == d.items \in Seq(StackSymbols) /\ d.scopes \in Bindings(ScopeStacks)

LEMMA UnifyNextTyped ==
  ASSUME NEW l, NEW r, NEW done, \A d \in done : HeadTyped(d), NEW i,
         l.items[i] \in StackSymbols, r.items[i] \in StackSymbols, NEW e \in UnifyNext(l, r, done, i)
  PROVE  HeadTyped(e)
<1>1. PICK d \in done : e \in {[items |-> Append(d.items, u.symbol), scopes |-> u.scopes] :
                                u \in UnifySymbol(l.items[i], r.items[i], d.scopes)}
  BY DEF UnifyNext
<1>2. PICK u \in UnifySymbol(l.items[i], r.items[i], d.scopes) :
         e = [items |-> Append(d.items, u.symbol), scopes |-> u.scopes]
  BY <1>1
<1>3. d.items \in Seq(StackSymbols) /\ d.scopes \in Bindings(ScopeStacks)
  BY <1>1 DEF HeadTyped
<1>4. u.symbol \in StackSymbols /\ u.scopes \in Bindings(ScopeStacks)
  BY <1>2, <1>3, UnifySymbolTyped
<1> DEFINE more == Append(d.items, u.symbol)
<1>5. more \in Seq(StackSymbols)
  BY <1>3, <1>4
<1>6. e = [items |-> more, scopes |-> u.scopes]
  BY <1>2
<1> HIDE DEF more
<1> QED BY <1>4, <1>5, <1>6 DEF HeadTyped

Counted(n) == [i \in 1..n |-> i]

LEMMA CountedIs ==
  ASSUME NEW n \in Nat
  PROVE  IsSequence(Counted(n)) /\ Len(Counted(n)) = n /\ \A i \in 1..n : Counted(n)[i] = i
<1> DEFINE s == Counted(n)
<1>1. s = [i \in 1..n |-> s[i]] /\ \A i \in 1..n : s[i] = i
  BY DEF Counted
<1> HIDE DEF s
<1>2. IsSequence(s) /\ Len(s) = n
  BY <1>1, FunctionIsSequence
<1> QED BY <1>1, <1>2 DEF s

(* The common part, symbol by symbol. *)
HeadsAfter(l, r, b, n, after) ==
  /\ after[0] = {[items |-> <<>>, scopes |-> b]} /\ UnifyHeads(l, r, b) = after[n]
  /\ \A i \in 1..n : after[i] = UnifyNext(l, r, after[i - 1], i)

LEMMA HeadsLoop ==
  ASSUME NEW I, NEW l \in StacksOf(I), NEW r \in StacksOf(I), NEW b
  PROVE  \E after : HeadsAfter(l, r, b, CommonLength(l, r), after)
<1> DEFINE n == CommonLength(l, r)
<1>1. n \in Nat
  BY CommonIs
<1>2. UnifyHeads(l, r, b) = UnifyAlong(l, r, b, Counted(n))
  BY DEF UnifyHeads, UnifyAlong, Counted
<1> HIDE DEF n
<1>3. IsSequence(Counted(n)) /\ Len(Counted(n)) = n /\ \A i \in 1..n : Counted(n)[i] = i
  BY <1>1, CountedIs
<1>4. PICK after :
         /\ after[0] = {[items |-> <<>>, scopes |-> b]}
         /\ UnifyAlong(l, r, b, Counted(n)) = after[Len(Counted(n))]
         /\ \A i \in 1..Len(Counted(n)) : after[i] = UnifyNext(l, r, after[i - 1], Counted(n)[i])
  BY <1>3, UnifyLoop
<1>5. \A i \in 1..n : after[i] = UnifyNext(l, r, after[i - 1], i)
  BY <1>3, <1>4
<1>6. UnifyHeads(l, r, b) = after[n]
  BY <1>2, <1>3, <1>4
<1>7. HeadsAfter(l, r, b, n, after)
  BY <1>4, <1>5, <1>6 DEF HeadsAfter
<1> QED BY <1>7 DEF n

LEMMA UnifyHeadsTyped ==
  ASSUME NEW l \in SymbolStacks, NEW r \in SymbolStacks, NEW b \in Bindings(ScopeStacks),
         NEW d \in UnifyHeads(l, r, b)
  PROVE  HeadTyped(d)
<1> DEFINE n == CommonLength(l, r)
<1>1. l \in StacksOf(StackSymbols) /\ r \in StacksOf(StackSymbols)
  BY StacksOfIs
<1>2. /\ n \in Nat /\ n <= Len(l.items) /\ n <= Len(r.items)
      /\ l.items \in Seq(StackSymbols) /\ r.items \in Seq(StackSymbols)
  BY <1>1, CommonIs, StacksOfIs
<1>3. PICK after : HeadsAfter(l, r, b, n, after)
  BY <1>1, HeadsLoop
<1> HIDE DEF n
<1> DEFINE T == {k \in 0..n : \A x \in after[k] : HeadTyped(x)}
<1>4. 0 \in T
  <2> DEFINE x == [items |-> <<>>, scopes |-> b]
  <2>1. HeadTyped(x)
    BY EmptySeq DEF HeadTyped
  <2> HIDE DEF x
  <2>2. after[0] = {x}
    BY <1>3 DEF HeadsAfter, x
  <2> QED BY <1>2, <2>1, <2>2
<1>5. ASSUME NEW i \in 1..n, i - 1 \in T PROVE i \in T
  <2>1. l.items[i] \in StackSymbols /\ r.items[i] \in StackSymbols
    BY <1>2
  <2>2. after[i] = UnifyNext(l, r, after[i - 1], i)
    BY <1>3 DEF HeadsAfter
  <2>3. \A x \in after[i] : HeadTyped(x)
    BY <1>5, <2>1, <2>2, UnifyNextTyped
  <2> QED BY <1>2, <2>3
<1> HIDE DEF T
<1>6. n \in T
  BY <1>2, <1>4, <1>5, UpTo DEF Climbs
<1> QED BY <1>3, <1>6 DEF T, HeadsAfter

-----------------------------------------------------------------------------
LEMMA SettleSymbolsTyped ==
  ASSUME NEW l \in SymbolStacks, NEW r \in SymbolStacks, NEW b \in Bindings(ScopeStacks),
         NEW u \in SettleSymbols(l, r, b)
  PROVE  /\ u.settled.variable \in Nat /\ u.settled.stack \in SymbolStacks
         /\ u.settled.result \in SymbolStacks /\ u.scopes \in Bindings(ScopeStacks)
<1> DEFINE I == StackSymbols
           n == CommonLength(l, r)
<1>1. l \in StacksOf(I) /\ r \in StacksOf(I) /\ SymbolStacks = StacksOf(I)
  BY StacksOfIs
<1> HIDE DEF I
<1>2. n \in Nat /\ n <= Len(l.items) /\ n <= Len(r.items)
  BY <1>1, CommonIs
<1>3. PICK head \in UnifyHeads(l, r, b) :
         u \in {[settled |-> WithHead(head.items, s), scopes |-> head.scopes] :
                  s \in Settle(DropFront(l, n), DropFront(r, n))}
  BY DEF SettleSymbols
<1>4. PICK s \in Settle(DropFront(l, n), DropFront(r, n)) :
         u = [settled |-> WithHead(head.items, s), scopes |-> head.scopes]
  BY <1>3
<1> HIDE DEF n
<1>5. DropFront(l, n) \in StacksOf(I) /\ DropFront(r, n) \in StacksOf(I)
  BY <1>1, <1>2, DroppedTyped
<1>6. Settled(I, s)
  BY <1>4, <1>5, SettleTyped
<1>7. head.items \in Seq(I) /\ head.scopes \in Bindings(ScopeStacks)
  BY <1>3, UnifyHeadsTyped DEF HeadTyped, I
<1> DEFINE t == WithHead(head.items, s)
<1>8. Settled(I, t)
  BY <1>6, <1>7, WithHeadIs
<1> HIDE DEF t
<1>9. u = [settled |-> t, scopes |-> head.scopes]
  BY <1>4 DEF t
<1>10. u.settled = t /\ u.scopes = head.scopes
  BY <1>9
<1> QED BY <1>1, <1>7, <1>8, <1>10 DEF Settled

SymbolsAdded(f, v, st, b) ==
  IF v = 0 THEN {b}
  ELSE IF Bound(b.symbols, v) = {} THEN {[b EXCEPT !.symbols = Bind(@, v, st)]}
  ELSE UNION {{[c EXCEPT !.symbols = Bind(@, v, u.settled.result)] :
                 c \in f[Addition(u.settled.variable, u.settled.stack, [b EXCEPT !.scopes = u.scopes])]} :
                u \in SettleSymbols(st, The(Bound(b.symbols, v)), b.scopes)}

LEMMA AddSymbolsExists ==
  ASSUME NEW v \in Nat, NEW st \in SymbolStacks, NEW b \in BothBindings
  PROVE  AddSymbols[Addition(v, st, b)] = SymbolsAdded(AddSymbols, v, st, b) \cap BothBindings
<1> DEFINE A == SymbolAdditions
           U == BothBindings
           F == [A -> SUBSET U]
           Step(f, a) == SymbolsAdded(f, a.variable, a.stack, a.bindings) \cap U
           Phi == [f \in F |-> [a \in A |-> Step(f, a)]]
<1>1. Phi \in [F -> F]
  <2> HIDE DEF A, U
  <2> QED OBVIOUS
<1>2. \A a \in A : a.variable \in Nat /\ a.stack \in SymbolStacks /\ a.bindings \in BothBindings
  BY DEF SymbolAdditions
<1>3. ASSUME NEW a \in A, Bound(a.bindings.symbols, a.variable) # {},
             NEW u \in SettleSymbols(a.stack, The(Bound(a.bindings.symbols, a.variable)),
                                     a.bindings.scopes)
      PROVE  Addition(u.settled.variable, u.settled.stack, [a.bindings EXCEPT !.scopes = u.scopes]) \in A
  <2> DEFINE c == a.bindings
             d == [c EXCEPT !.scopes = u.scopes]
  <2>1. c \in BothBindings /\ c.symbols \in Bindings(SymbolStacks) /\ c.scopes \in Bindings(ScopeStacks)
    BY <1>2 DEF BothBindings
  <2>2. The(Bound(c.symbols, a.variable)) \in SymbolStacks
    BY <1>3, <2>1, BoundTyped
  <2>3. u.settled.variable \in Nat /\ u.settled.stack \in SymbolStacks /\ u.scopes \in Bindings(ScopeStacks)
    BY <1>2, <1>3, <2>1, <2>2, SettleSymbolsTyped
  <2>4. d \in BothBindings
    <3> HIDE DEF c
    <3> QED BY <2>1, <2>3 DEF BothBindings
  <2> HIDE DEF d
  <2> QED BY <2>3, <2>4 DEF SymbolAdditions, Addition, d
<1>4. ASSUME NEW f \in F, NEW g \in F, \A a \in A : f[a] \subseteq g[a],
             NEW a \in A, NEW e \in Step(f, a)
      PROVE  e \in Step(g, a)
  <2> DEFINE w == a.variable
             c == a.bindings
             x == a.stack
             More(u) == Addition(u.settled.variable, u.settled.stack, [c EXCEPT !.scopes = u.scopes])
             Changed(d, u) == [d EXCEPT !.symbols = Bind(@, w, u.settled.result)]
  <2>1. CASE w = 0 \/ Bound(c.symbols, w) = {}
    BY <1>4, <2>1 DEF SymbolsAdded
  <2>2. CASE w # 0 /\ Bound(c.symbols, w) # {}
    <3>1. PICK u \in SettleSymbols(x, The(Bound(c.symbols, w)), c.scopes) :
             \E d \in f[More(u)] : e = Changed(d, u)
      BY <1>4, <2>2 DEF SymbolsAdded
    <3>2. PICK d \in f[More(u)] : e = Changed(d, u)
      BY <3>1
    <3>3. d \in g[More(u)]
      BY <1>3, <1>4, <2>2, <3>2
    <3>4. e \in U
      BY <1>4
    <3> DEFINE S == SettleSymbols(x, The(Bound(c.symbols, w)), c.scopes)
    <3>5. SymbolsAdded(g, w, x, c) = UNION {{Changed(k, t) : k \in g[More(t)]} : t \in S}
      BY <2>2 DEF SymbolsAdded
    <3>6. u \in S
      BY <3>1
    <3> HIDE DEF S, More, Changed
    <3>7. e \in UNION {{Changed(k, t) : k \in g[More(t)]} : t \in S}
      BY <3>2, <3>3, <3>6
    <3> QED BY <3>4, <3>5, <3>7
  <2> QED BY <2>1, <2>2
<1>5. Monotone(A, U, Phi)
  <2> SUFFICES ASSUME NEW f \in F, NEW g \in F, \A a \in A : f[a] \subseteq g[a], NEW a \in A
               PROVE  Phi[f][a] \subseteq Phi[g][a]
    BY DEF Monotone
  <2>1. Phi[f][a] = Step(f, a) /\ Phi[g][a] = Step(g, a)
    <3> HIDE DEF A, U, Step
    <3> QED OBVIOUS
  <2> HIDE DEF A, U, Step, F, Phi
  <2> QED BY <1>4, <2>1
<1>6. \E f \in F : Phi[f] = f
  <2>1. HasFixedPoint(A, U, Phi)
    <3> HIDE DEF A, U, Phi
    <3> QED BY <1>1, <1>5, FixedPoint
  <2> HIDE DEF A, U, Phi
  <2> QED BY <2>1 DEF HasFixedPoint
<1>7. \E f : f = [a \in A |-> Step(f, a)]
  <2>1. PICK f \in F : Phi[f] = f
    BY <1>6
  <2>2. Phi[f] = [a \in A |-> Step(f, a)]
    <3> HIDE DEF F, Step
    <3> QED OBVIOUS
  <2> HIDE DEF Step, Phi
  <2> QED BY <2>1, <2>2
<1>8. AddSymbols = CHOOSE f : f = [a \in A |-> Step(f, a)]
  BY DEF AddSymbols, SymbolsAdded, SymbolAdditions
<1>9. AddSymbols = [a \in A |-> Step(AddSymbols, a)]
  <2> HIDE DEF Step
  <2> QED BY <1>7, <1>8
<1> DEFINE a == Addition(v, st, b)
<1>10. a \in A /\ a.variable = v /\ a.stack = st /\ a.bindings = b
  BY DEF SymbolAdditions, Addition
<1> HIDE DEF A, a
<1>11. AddSymbols[a] = Step(AddSymbols, a)
  <2> HIDE DEF Step
  <2> QED BY <1>9, <1>10
<1> QED BY <1>10, <1>11 DEF a

-----------------------------------------------------------------------------
(* The stacks of a query are known. *)

LEMMA BindIs ==
  ASSUME NEW S, NEW b \in Bindings(S), NEW v \in Nat \ {0}, NEW st \in S
  PROVE  /\ Bind(b, v, st) \in Bindings(S)
         /\ Bound(Bind(b, v, st), v) = {st}
         /\ \A w : w # v => Bound(Bind(b, v, st), w) = Bound(b, w)
<1> DEFINE n == Larger(Len(b), v)
           c == Bind(b, v, st)
<1>1. b \in Seq(SUBSET S) /\ Len(b) \in Nat /\ \A w : Bound(b, w) \subseteq S
  BY BoundTyped DEF Bindings
<1>2. n \in Nat /\ n >= v /\ n >= Len(b)
  BY <1>1 DEF Larger
<1>3. c = [i \in 1..n |-> IF i = v THEN {st} ELSE Bound(b, i)]
  BY DEF Bind
<1> HIDE DEF n, c
<1>4. c \in Seq(SUBSET S) /\ Len(c) = n
  <2>1. c \in [1..n -> SUBSET S]
    BY <1>1, <1>3
  <2> QED BY <1>2, <2>1
<1>5. Bound(c, v) = {st}
  BY <1>2, <1>3, <1>4 DEF Bound
<1>6. ASSUME NEW w, w # v PROVE Bound(c, w) = Bound(b, w)
  <2>1. CASE w \in 1..n
    BY <1>3, <1>4, <1>6, <2>1 DEF Bound
  <2>2. CASE w \notin 1..n
    <3>1. w \notin 1..Len(b)
      BY <1>1, <1>2, <2>2
    <3> QED BY <1>4, <2>2, <3>1 DEF Bound
  <2> QED BY <2>1, <2>2
<1> QED BY <1>4, <1>5, <1>6 DEF c, Bindings

LEMMA UnboundIs ==
  ASSUME NEW S
  PROVE  NoBindings \in Bindings(S) /\ \A v : Bound(NoBindings, v) = {}
<1>1. <<>> \in Seq(SUBSET S)
  BY EmptySeq
<1>2. 1..Len(<<>>) = {}
  BY EmptyIs
<1>3. \A v : Bound(NoBindings, v) = {}
  BY <1>2 DEF Bound, NoBindings
<1> QED BY <1>1, <1>3 DEF Bindings, NoBindings

LEMMA VariableIs ==
  ASSUME NEW v \in Nat
  PROVE  /\ FromVariable(v) \in ScopeStacks /\ FromVariable(v).items = <<>>
         /\ FromVariable(v).variable = v /\ FromVariable(v) = Stack(<<>>, v)
<1>1. <<>> \in Seq(ExportedScopes)
  BY EmptySeq
<1> DEFINE e == <<>>
<1>2. e \in Seq(ExportedScopes) /\ FromVariable(v) = Stack(e, v)
  BY <1>1 DEF FromVariable
<1> HIDE DEF e
<1>3. Stack(e, v) \in ScopeStacks
  BY <1>2, StackMade
<1>4. FromVariable(v).items = e /\ FromVariable(v).variable = v
  BY <1>2 DEF Stack
<1> QED BY <1>2, <1>3, <1>4 DEF e

(* What is settled if one side is a variable, the other one known. *)
LEMMA SettleFree ==
  ASSUME NEW l, l.variable = 0, NEW r, r.items = <<>>, r.variable # 0, NEW s \in Settle(l, r)
  PROVE  s.variable = r.variable /\ s.stack = l
<1>1. Settle(l, r) = {[variable |-> r.variable, stack |-> l,
                       result |-> IF l = EmptyStack THEN r ELSE l]}
  BY DEF Settle
<1> QED BY <1>1

LEMMA DropNone ==
  ASSUME NEW I, NEW l \in StacksOf(I)
  PROVE  DropFront(l, 0) = l /\ SubSeq(l.items, 1, 0) = <<>>
<1> DEFINE items == l.items
           v == l.variable
<1>1. items \in Seq(I) /\ v \in Nat /\ l = Stack(items, v)
  BY StacksOfIs
<1> HIDE DEF items, v
<1>2. SubSeq(items, 1, Len(items)) = items
  BY <1>1
<1>3. DropFront(l, 0) = Stack(SubSeq(items, 0 + 1, Len(items)), v)
  BY <1>1, StackDropped
<1>4. SubSeq(items, 0 + 1, Len(items)) = SubSeq(items, 1, Len(items))
  OBVIOUS
<1>5. SubSeq(items, 1, 0) = <<>>
  <2>1. Len(items) \in Nat /\ IsSequence(items)
    BY <1>1, SequenceOf
  <2>2. IsSequence(SubSeq(items, 1, 0)) /\ Len(SubSeq(items, 1, 0)) = 0
    BY <2>1, SubSeqIs
  <2> HIDE DEF items
  <2> QED BY <2>2, EmptyIs, SameSequence
<1> QED BY <1>1, <1>2, <1>3, <1>4, <1>5 DEF items

LEMMA UnifyFree ==
  ASSUME NEW w \in Seq(ExportedScopes), NEW v \in Nat \ {0}, NEW b \in Bindings(ScopeStacks),
         Bound(b, v) = {}, NEW u \in UnifyScopes(Stack(w, 0), FromVariable(v), b)
  PROVE  u.scopes = Bind(b, v, Stack(w, 0))
<1> DEFINE l == Stack(w, 0)
           r == FromVariable(v)
           I == ExportedScopes
<1>1. /\ l \in ScopeStacks /\ r \in ScopeStacks /\ ScopeStacks = StacksOf(I)
      /\ r.items = <<>> /\ r.variable = v /\ l.items = w /\ l.variable = 0
  BY StackMade, StacksOfIs, VariableIs, StackOps
<1> HIDE DEF l, r, I
<1>2. CommonLength(l, r) = 0
  <2>1. Len(l.items) \in Nat /\ Len(r.items) = 0
    BY <1>1, EmptyIs
  <2> QED BY <2>1 DEF CommonLength, Smaller
<1>3. DropFront(l, 0) = l /\ DropFront(r, 0) = r /\ SubSeq(l.items, 1, 0) = <<>>
  BY <1>1, DropNone
<1>4. PICK s \in SettleScopes(l, r) :
         u \in {[stack |-> s.result, scopes |-> c] : c \in AddScopes[Addition(s.variable, s.stack, b)]}
  BY DEF UnifyScopes, l, r
<1>5. PICK z \in Settle(l, r) : s = WithHead(<<>>, z)
  BY <1>2, <1>3, <1>4 DEF SettleScopes
<1>6. z.variable = v /\ z.stack = l /\ Settled(I, z)
  BY <1>1, <1>5, SettleFree, SettleTyped
<1>7. s.variable = v /\ s.stack = l
  <2>1. <<>> \in Seq(I)
    BY EmptySeq
  <2> DEFINE e == <<>>
  <2>2. e \in Seq(I) /\ s = WithHead(e, z)
    BY <1>5, <2>1
  <2> HIDE DEF e
  <2> QED BY <1>6, <2>2, WithHeadIs
<1>8. PICK c \in AddScopes[Addition(v, l, b)] : u = [stack |-> s.result, scopes |-> c]
  BY <1>4, <1>7
<1>9. c \in ScopesAdded(AddScopes, v, l, b)
  BY <1>1, <1>8, AddScopesExists
<1>10. c = Bind(b, v, l)
  BY <1>9 DEF ScopesAdded
<1> QED BY <1>8, <1>10 DEF l

-----------------------------------------------------------------------------
GroundSymbol(x) == [symbol |-> x.symbol, scopes |-> {Stack(s, 0) : s \in x.scopes}]
GroundSymbols(t) == [i \in DOMAIN t |-> GroundSymbol(t[i])]

LEMMA GroundSymbolTyped ==
  ASSUME NEW x \in ConcreteSymbols
  PROVE  /\ GroundSymbol(x) \in StackSymbols /\ GroundSymbol(x).symbol = x.symbol
         /\ GroundSymbol(x).scopes = {Stack(s, 0) : s \in x.scopes}
<1> DEFINE sc == {Stack(s, 0) : s \in x.scopes}
<1>1. x.symbol \in {SymbolOf[n] : n \in DOMAIN SymbolOf} /\ x.scopes \subseteq Seq(ExportedScopes)
  BY DEF ConcreteSymbols
<1>2. \A s \in x.scopes : Stack(s, 0) \in ScopeStacks
  BY <1>1, StackMade
<1>3. sc \subseteq ScopeStacks
  BY <1>2
<1> HIDE DEF sc
<1>4. GroundSymbol(x) = [symbol |-> x.symbol, scopes |-> sc]
  BY DEF GroundSymbol, sc
<1> QED BY <1>1, <1>3, <1>4 DEF StackSymbols, sc

LEMMA GroundSymbolsIs ==
  ASSUME NEW t \in Seq(ConcreteSymbols)
  PROVE  /\ GroundSymbols(t) \in Seq(StackSymbols) /\ Len(GroundSymbols(t)) = Len(t)
         /\ IsSequence(GroundSymbols(t))
         /\ \A i \in 1..Len(t) : GroundSymbols(t)[i] = GroundSymbol(t[i])
<1> DEFINE g == GroundSymbols(t)
<1>1. Len(t) \in Nat /\ DOMAIN t = 1..Len(t) /\ \A i \in 1..Len(t) : t[i] \in ConcreteSymbols
  OBVIOUS
<1>2. \A i \in 1..Len(t) : GroundSymbol(t[i]) \in StackSymbols
  BY <1>1, GroundSymbolTyped
<1>3. g = [i \in 1..Len(t) |-> GroundSymbol(t[i])]
  BY <1>1 DEF GroundSymbols
<1> HIDE DEF g
<1>4. g \in [1..Len(t) -> StackSymbols]
  BY <1>2, <1>3
<1>5. g \in Seq(StackSymbols) /\ Len(g) = Len(t)
  BY <1>1, <1>4
<1>6. IsSequence(g)
  BY <1>5, SequenceOf
<1> QED BY <1>3, <1>5, <1>6 DEF g

LEMMA GroundIs ==
  ASSUME NEW c \in EveryStack
  PROVE  Ground(c) = Concrete(Stack(GroundSymbols(c.symbols), 0), Stack(c.scopes, 0))
<1> DEFINE t == c.symbols
           Changed(x) == [x EXCEPT !.scopes = {Stack(s, 0) : s \in @}]
<1>1. DOMAIN t = 1..Len(t) /\ \A i \in 1..Len(t) : t[i] \in ConcreteSymbols
  BY ConcreteIs
<1>2. \A i \in 1..Len(t) : Changed(t[i]) = GroundSymbol(t[i])
  <2> TAKE i \in 1..Len(t)
  <2> DEFINE x == t[i]
             sc == {Stack(s, 0) : s \in x.scopes}
  <2>1. x \in ConcreteSymbols
    BY <1>1
  <2> HIDE DEF sc
  <2>2. [x EXCEPT !.scopes = sc] = [symbol |-> x.symbol, scopes |-> sc]
    BY <2>1, SymbolExcept
  <2>3. Changed(x) = [x EXCEPT !.scopes = sc]
    BY <2>1 DEF ConcreteSymbols, sc
  <2> QED BY <2>2, <2>3 DEF GroundSymbol, sc
<1>3. [i \in DOMAIN t |-> Changed(t[i])] = GroundSymbols(t)
  <2> HIDE DEF Changed, t
  <2> QED BY <1>1, <1>2 DEF GroundSymbols
<1>4. Ground(c) = Concrete(Stack([i \in DOMAIN t |-> Changed(t[i])], 0), Stack(c.scopes, 0))
  BY DEF Ground
<1> HIDE DEF Changed, t
<1>5. Ground(c) = Concrete(Stack(GroundSymbols(t), 0), Stack(c.scopes, 0))
  BY <1>3, <1>4
<1> QED BY <1>5 DEF t

(* A demanded symbol, and a known one. *)
Matched(x, y, b, c) ==
  /\ c \in Bindings(ScopeStacks)
  /\ y.symbol = x.symbol /\ (y.scopes = {}) = (x.scopes = {})
  /\ \A s \in y.scopes : \A z \in x.scopes : Bound(c, s.variable) = {Stack(z, 0)}
  /\ \A v : v \notin {s.variable : s \in y.scopes} => Bound(c, v) = Bound(b, v)

LEMMA UnifyGroundSymbol ==
  ASSUME NEW x \in ConcreteSymbols, NEW y \in StackSymbols, AtMostOne(y.scopes),
         \A s \in y.scopes : s.items = <<>> /\ s.variable # 0,
         NEW b \in Bindings(ScopeStacks), \A s \in y.scopes : Bound(b, s.variable) = {},
         NEW u \in UnifySymbol(GroundSymbol(x), y, b)
  PROVE  Matched(x, y, b, u.scopes)
<1> DEFINE l == GroundSymbol(x)
<1>1. l.symbol = x.symbol /\ l.scopes = {Stack(s, 0) : s \in x.scopes} /\ l \in StackSymbols
  BY GroundSymbolTyped
<1>2. (l.scopes = {}) <=> (x.scopes = {})
  BY <1>1
<1> HIDE DEF l
<1>3. u \in UnifySymbol(l, y, b)
  BY DEF l
<1>4. l.symbol = y.symbol /\ (l.scopes = {} <=> y.scopes = {})
  BY <1>3 DEF UnifySymbol
<1>5. u.scopes \in Bindings(ScopeStacks)
  BY <1>1, <1>3, UnifySymbolTyped
<1>6. (y.scopes = {}) = (x.scopes = {})
  BY <1>2, <1>4
<1>7. CASE l.scopes = {}
  <2>1. u = [symbol |-> l, scopes |-> b]
    BY <1>3, <1>7 DEF UnifySymbol
  <2>2. u.scopes = b
    BY <2>1
  <2>3. y.scopes = {}
    BY <1>4, <1>7
  <2> QED BY <1>1, <1>4, <1>5, <1>6, <2>2, <2>3 DEF Matched
<1>8. CASE l.scopes # {}
  <2>1. PICK a \in UnifyScopes(The(l.scopes), The(y.scopes), b) :
           u = [symbol |-> [l EXCEPT !.scopes = {a.stack}], scopes |-> a.scopes]
    BY <1>3, <1>8 DEF UnifySymbol
  <2>2. u.scopes = a.scopes
    BY <2>1
  <2>3. PICK z \in x.scopes : TRUE
    BY <1>2, <1>8
  <2>4. AtMostOne(x.scopes) /\ x.scopes \subseteq Seq(ExportedScopes)
    BY DEF ConcreteSymbols
  <2>5. \A w \in x.scopes : w = z
    BY <2>3, <2>4 DEF AtMostOne
  <2>6. l.scopes = {Stack(z, 0)}
    BY <1>1, <2>3, <2>5
  <2>7. PICK s \in y.scopes : TRUE
    BY <1>4, <1>8
  <2>8. \A w \in y.scopes : w = s
    BY <2>7 DEF AtMostOne
  <2>9. y.scopes = {s}
    BY <2>7, <2>8
  <2>10. s \in ScopeStacks
    BY <2>7 DEF StackSymbols
  <2> DEFINE v == s.variable
  <2>11. v \in Nat \ {0} /\ s = FromVariable(v)
    BY <2>7, <2>10, ScopeStackIs, VariableIs
  <2>12. a \in UnifyScopes(Stack(z, 0), FromVariable(v), b)
    <3>1. The(l.scopes) = Stack(z, 0) /\ The(y.scopes) = s
      BY <2>6, <2>9, TheOne
    <3> QED BY <2>1, <2>11, <3>1
  <2>13. z \in Seq(ExportedScopes) /\ Bound(b, v) = {}
    BY <2>3, <2>4, <2>7
  <2> HIDE DEF v
  <2>14. a.scopes = Bind(b, v, Stack(z, 0))
    BY <2>11, <2>12, <2>13, UnifyFree
  <2>15. Stack(z, 0) \in ScopeStacks
    BY <2>13, StackMade
  <2> DEFINE st == Stack(z, 0)
  <2> HIDE DEF st
  <2>16. /\ Bound(Bind(b, v, st), v) = {st}
         /\ \A w : w # v => Bound(Bind(b, v, st), w) = Bound(b, w)
    BY <2>11, <2>15, BindIs DEF st
  <2>17. u.scopes = Bind(b, v, st)
    BY <2>2, <2>14 DEF st
  <2>18. \A k \in y.scopes : \A w \in x.scopes : Bound(u.scopes, k.variable) = {Stack(w, 0)}
    BY <2>5, <2>8, <2>16, <2>17 DEF st, v
  <2>19. \A w : w \notin {k.variable : k \in y.scopes} => Bound(u.scopes, w) = Bound(b, w)
    <3>1. v \in {k.variable : k \in y.scopes}
      BY <2>7 DEF v
    <3> QED BY <2>16, <2>17, <3>1
  <2> QED BY <1>1, <1>4, <1>5, <1>6, <2>18, <2>19 DEF Matched
<1> QED BY <1>7, <1>8

(* Demanded symbols, one after the other. *)
Demands(items) ==
  /\ items \in Seq(StackSymbols)
  /\ \A i \in 1..Len(items) :
       /\ AtMostOne(items[i].scopes)
       /\ \A s \in items[i].scopes :
            /\ s.items = <<>> /\ s.variable \notin {0, 1}
            /\ \A j \in 1..Len(items) : \A t \in items[j].scopes : s.variable = t.variable => i = j

Fits(x, y, c) ==
  /\ y.symbol = x.symbol /\ (y.scopes = {}) = (x.scopes = {})
  /\ \A s \in y.scopes : \A z \in x.scopes : Bound(c, s.variable) = {Stack(z, 0)}

HeadFits(items, t, k, c) ==
  /\ c \in Bindings(ScopeStacks)
  /\ \A i \in 1..k : Fits(t[i], items[i], c)
  /\ \A v : (\A i \in 1..k : \A s \in items[i].scopes : s.variable # v) => Bound(c, v) = {}

LEMMA HeadStep ==
  ASSUME NEW items, Demands(items), NEW t, NEW k \in 1..Len(items), NEW b, HeadFits(items, t, k - 1, b),
         NEW c, Matched(t[k], items[k], b, c)
  PROVE  HeadFits(items, t, k, c)
<1>1. k \in Nat /\ Len(items) \in Nat
  BY DEF Demands
<1>2. c \in Bindings(ScopeStacks)
  BY DEF Matched
<1>3. Fits(t[k], items[k], c)
  BY DEF Matched, Fits
<1>4. ASSUME NEW i \in 1..k - 1 PROVE Fits(t[i], items[i], c)
  <2>1. i \in 1..Len(items) /\ i # k
    BY <1>1
  <2>2. Fits(t[i], items[i], b)
    BY DEF HeadFits
  <2>3. \A s \in items[i].scopes : s.variable \notin {z.variable : z \in items[k].scopes}
    BY <2>1 DEF Demands
  <2>4. \A s \in items[i].scopes : Bound(c, s.variable) = Bound(b, s.variable)
    BY <2>3 DEF Matched
  <2> QED BY <2>2, <2>4 DEF Fits
<1>5. \A i \in 1..k : i = k \/ i \in 1..k - 1
  BY <1>1
<1>6. \A i \in 1..k : Fits(t[i], items[i], c)
  BY <1>3, <1>4, <1>5
<1>7. ASSUME NEW v, \A i \in 1..k : \A s \in items[i].scopes : s.variable # v
      PROVE  Bound(c, v) = {}
  <2>1. \A i \in 1..k - 1 : i \in 1..k
    BY <1>1
  <2>2. Bound(b, v) = {}
    BY <1>7, <2>1 DEF HeadFits
  <2>3. v \notin {z.variable : z \in items[k].scopes}
    BY <1>1, <1>7
  <2> QED BY <2>2, <2>3 DEF Matched
<1> QED BY <1>2, <1>6, <1>7 DEF HeadFits

-----------------------------------------------------------------------------
(* Demanded symbols are matched by the symbols of a query. *)
KnownSymbols(t) == Stack(GroundSymbols(t), 0)
Demanded(items) == Stack(items, 1)

LEMMA KnownIs ==
  ASSUME NEW t \in Seq(ConcreteSymbols), NEW items, Demands(items)
  PROVE  /\ KnownSymbols(t) \in StacksOf(StackSymbols) /\ Demanded(items) \in StacksOf(StackSymbols)
         /\ KnownSymbols(t) \in SymbolStacks /\ Demanded(items) \in SymbolStacks
         /\ KnownSymbols(t).items = GroundSymbols(t) /\ KnownSymbols(t).variable = 0
         /\ Demanded(items).items = items /\ Demanded(items).variable = 1
<1> DEFINE g == GroundSymbols(t)
<1>1. g \in Seq(StackSymbols) /\ items \in Seq(StackSymbols) /\ 0 \in Nat /\ 1 \in Nat
  BY GroundSymbolsIs DEF Demands
<1> HIDE DEF g
<1>2. Stack(g, 0) \in SymbolStacks /\ Stack(items, 1) \in SymbolStacks
  BY <1>1, StackMade
<1>3. SymbolStacks = StacksOf(StackSymbols)
  BY StacksOfIs
<1> QED BY <1>2, <1>3 DEF KnownSymbols, Demanded, Stack, g

LEMMA HeadsGround ==
  ASSUME NEW t \in Seq(ConcreteSymbols), NEW items, Demands(items),
         NEW d \in UnifyHeads(KnownSymbols(t), Demanded(items), NoBindings)
  PROVE  HeadFits(items, t, CommonLength(KnownSymbols(t), Demanded(items)), d.scopes)
<1> DEFINE l == KnownSymbols(t)
           r == Demanded(items)
           n == CommonLength(l, r)
<1>1. /\ l \in StacksOf(StackSymbols) /\ r \in StacksOf(StackSymbols)
      /\ l.items = GroundSymbols(t) /\ r.items = items
  BY KnownIs
<1>2. /\ Len(GroundSymbols(t)) = Len(t) /\ \A i \in 1..Len(t) : GroundSymbols(t)[i] = GroundSymbol(t[i])
      /\ Len(t) \in Nat /\ \A i \in 1..Len(t) : t[i] \in ConcreteSymbols
  BY GroundSymbolsIs
<1>3. /\ Len(items) \in Nat
      /\ \A i \in 1..Len(items) : items[i] \in StackSymbols /\ AtMostOne(items[i].scopes)
  BY DEF Demands
<1>4. n \in Nat /\ n <= Len(t) /\ n <= Len(items)
  BY <1>1, <1>2, CommonIs
<1>5. PICK after : HeadsAfter(l, r, NoBindings, n, after)
  BY <1>1, HeadsLoop
<1> HIDE DEF n, l, r
<1> DEFINE T == {k \in 0..n : \A x \in after[k] : HeadFits(items, t, k, x.scopes)}
<1>6. 0 \in T
  <2> DEFINE x == [items |-> <<>>, scopes |-> NoBindings]
  <2>1. x.scopes = NoBindings
    OBVIOUS
  <2> HIDE DEF x
  <2>2. after[0] = {x}
    BY <1>5 DEF HeadsAfter, x
  <2>3. HeadFits(items, t, 0, NoBindings)
    BY UnboundIs DEF HeadFits
  <2> QED BY <1>4, <2>1, <2>2, <2>3
<1>7. ASSUME NEW i \in 1..n, i - 1 \in T PROVE i \in T
  <2>1. after[i] = UnifyNext(l, r, after[i - 1], i)
    BY <1>5 DEF HeadsAfter
  <2>2. i \in 1..Len(t) /\ i \in 1..Len(items) /\ i \in 0..n /\ i - 1 \in 0..n
    BY <1>2, <1>3, <1>4
  <2>3. ASSUME NEW e \in after[i] PROVE HeadFits(items, t, i, e.scopes)
    <3>1. PICK x \in after[i - 1] : e \in {[items |-> Append(x.items, u.symbol), scopes |-> u.scopes] :
                                             u \in UnifySymbol(l.items[i], r.items[i], x.scopes)}
      BY <2>1, <2>3 DEF UnifyNext
    <3>2. PICK u \in UnifySymbol(l.items[i], r.items[i], x.scopes) :
             e = [items |-> Append(x.items, u.symbol), scopes |-> u.scopes]
      BY <3>1
    <3>3. e.scopes = u.scopes
      BY <3>2
    <3> DEFINE b == x.scopes
               y == items[i]
    <3>4. HeadFits(items, t, i - 1, b)
      BY <1>7, <3>1
    <3>5. t[i] \in ConcreteSymbols /\ y \in StackSymbols /\ AtMostOne(y.scopes)
      BY <1>2, <1>3, <2>2
    <3>6. \A s \in y.scopes : s.items = <<>> /\ s.variable # 0
      BY <2>2 DEF Demands
    <3>7. b \in Bindings(ScopeStacks)
      BY <3>4 DEF HeadFits
    <3>8. \A s \in y.scopes : Bound(b, s.variable) = {}
      <4> TAKE s \in y.scopes
      <4>1. \A j \in 1..i - 1 : j \in 1..Len(items) /\ j # i
        BY <2>2
      <4>2. \A j \in 1..i - 1 : \A z \in items[j].scopes : z.variable # s.variable
        BY <2>2, <4>1 DEF Demands
      <4> QED BY <3>4, <4>2 DEF HeadFits
    <3>9. u \in UnifySymbol(GroundSymbol(t[i]), y, b)
      BY <1>1, <1>2, <2>2, <3>2
    <3> HIDE DEF b, y
    <3>10. Matched(t[i], y, b, u.scopes)
      BY <3>5, <3>6, <3>7, <3>8, <3>9, UnifyGroundSymbol
    <3>11. HeadFits(items, t, i, u.scopes)
      BY <2>2, <3>4, <3>10, HeadStep DEF y
    <3> QED BY <3>3, <3>11
  <2> QED BY <2>2, <2>3
<1> HIDE DEF T
<1>8. n \in T
  BY <1>4, <1>6, <1>7, UpTo DEF Climbs
<1> QED BY <1>5, <1>8 DEF T, HeadsAfter, n, l, r

Rest(t, items) == SubSeq(t, Len(items) + 1, Len(t))

LEMMA RestIs ==
  ASSUME NEW t \in Seq(ConcreteSymbols), NEW n \in Nat, n <= Len(t)
  PROVE  /\ SubSeq(t, n + 1, Len(t)) \in Seq(ConcreteSymbols)
         /\ GroundSymbols(SubSeq(t, n + 1, Len(t))) = SubSeq(GroundSymbols(t), n + 1, Len(t))
<1> DEFINE rest == SubSeq(t, n + 1, Len(t))
           g == GroundSymbols(t)
           left == GroundSymbols(rest)
           right == SubSeq(g, n + 1, Len(t))
           m == Len(t) - n
<1>1. /\ Len(g) = Len(t) /\ IsSequence(g) /\ Len(t) \in Nat
      /\ \A i \in 1..Len(t) : g[i] = GroundSymbol(t[i])
  BY GroundSymbolsIs
<1>2. rest \in Seq(ConcreteSymbols) /\ IsSequence(t)
  BY SequenceOf
<1>3. n + 1 \in Nat /\ 1 <= n + 1 /\ n + 1 <= Len(t) + 1 /\ Len(t) <= Len(t) /\ m \in Nat
      /\ Len(t) - (n + 1) + 1 = m
  BY <1>1
<1>4. /\ Len(rest) = m /\ \A i \in 1..m : rest[i] = t[n + 1 + i - 1]
  BY <1>1, <1>2, <1>3, SubSeqIs
<1>5. /\ IsSequence(right) /\ Len(right) = m /\ \A i \in 1..m : right[i] = g[n + 1 + i - 1]
  <2> HIDE DEF g
  <2> QED BY <1>1, <1>3, SubSeqIs
<1>6. /\ IsSequence(left) /\ Len(left) = Len(rest)
      /\ \A i \in 1..Len(rest) : left[i] = GroundSymbol(rest[i])
  <2> HIDE DEF rest
  <2> QED BY <1>2, GroundSymbolsIs
<1> HIDE DEF rest, g, left, right, m
<1>7. \A i \in 1..m : n + 1 + i - 1 \in 1..Len(t)
  BY <1>1, <1>3 DEF m
<1>8. \A i \in 1..m : left[i] = right[i]
  BY <1>1, <1>4, <1>5, <1>6, <1>7
<1>9. left = right
  BY <1>4, <1>5, <1>6, <1>8, SameSequence
<1> QED BY <1>2, <1>9 DEF rest, left, right, g

SymbolsFit(t, items, u) ==
  /\ Len(items) <= Len(t) /\ HeadFits(items, t, Len(items), u.scopes)
  /\ u.settled.variable = 1 /\ u.settled.stack = KnownSymbols(Rest(t, items))

LEMMA SettleGround ==
  ASSUME NEW t \in Seq(ConcreteSymbols), NEW items, Demands(items),
         NEW u \in SettleSymbols(KnownSymbols(t), Demanded(items), NoBindings)
  PROVE  SymbolsFit(t, items, u)
<1> DEFINE l == KnownSymbols(t)
           r == Demanded(items)
           n == CommonLength(l, r)
           I == StackSymbols
<1>1. /\ l \in StacksOf(I) /\ r \in StacksOf(I) /\ l \in SymbolStacks /\ r \in SymbolStacks
      /\ l.items = GroundSymbols(t) /\ l.variable = 0 /\ r.items = items /\ r.variable = 1
  BY KnownIs
<1>2. Len(GroundSymbols(t)) = Len(t) /\ Len(t) \in Nat
  BY GroundSymbolsIs
<1>3. Len(items) \in Nat /\ items \in Seq(I) /\ IsSequence(items)
  BY SequenceOf DEF Demands
<1>4. n \in Nat /\ n <= Len(t) /\ n <= Len(items)
  BY <1>1, <1>2, CommonIs
<1>5. PICK head \in UnifyHeads(l, r, NoBindings) :
         u \in {[settled |-> WithHead(head.items, s), scopes |-> head.scopes] :
                  s \in Settle(DropFront(l, n), DropFront(r, n))}
  BY DEF SettleSymbols
<1>6. PICK s \in Settle(DropFront(l, n), DropFront(r, n)) :
         u = [settled |-> WithHead(head.items, s), scopes |-> head.scopes]
  BY <1>5
<1>7. HeadFits(items, t, n, head.scopes)
  BY <1>5, HeadsGround
<1>8. head.items \in Seq(I)
  BY <1>1, <1>5, UnboundIs, UnifyHeadsTyped DEF HeadTyped
<1> HIDE DEF l, r, n, I
<1> DEFINE L == DropFront(l, n)
           R == DropFront(r, n)
<1>9. /\ L = Stack(SubSeq(GroundSymbols(t), n + 1, Len(t)), 0) /\ L \in StacksOf(I)
      /\ R = Stack(SubSeq(items, n + 1, Len(items)), 1) /\ R \in StacksOf(I)
  BY <1>1, <1>2, <1>4, DroppedTyped
<1>10. s \in Settle(L, R)
  BY <1>6
<1>11. R.items = SubSeq(items, n + 1, Len(items)) /\ R.variable = 1 /\ L.variable = 0
  <2> DEFINE x == SubSeq(GroundSymbols(t), n + 1, Len(t))
             y == SubSeq(items, n + 1, Len(items))
  <2>1. L = Stack(x, 0) /\ R = Stack(y, 1)
    BY <1>9
  <2> HIDE DEF L, R, x, y
  <2>2. R.items = y /\ R.variable = 1 /\ L.variable = 0
    BY <2>1 DEF Stack
  <2> QED BY <2>2 DEF y
<1>12. IsSequence(R.items) /\ Len(R.items) = Len(items) - n
  <2>1. n + 1 \in Nat /\ 1 <= n + 1 /\ n + 1 <= Len(items) + 1 /\ Len(items) - (n + 1) + 1 = Len(items) - n
    BY <1>3, <1>4
  <2>2. IsSequence(SubSeq(items, n + 1, Len(items)))
        /\ Len(SubSeq(items, n + 1, Len(items))) = Len(items) - (n + 1) + 1
    BY <1>3, <2>1, SubSeqIs
  <2> QED BY <1>11, <2>1, <2>2
<1> HIDE DEF L, R
<1>13. R.items = <<>>
  BY <1>10, <1>11 DEF Settle, EmptyStack, Stack
<1>14. n = Len(items)
  BY <1>3, <1>4, <1>12, <1>13, EmptyIs
<1>15. s.variable = 1 /\ s.stack = L /\ Settled(I, s)
  BY <1>9, <1>10, <1>11, <1>13, SettleFree, SettleTyped
<1> DEFINE z == WithHead(head.items, s)
<1>16. z.variable = 1 /\ z.stack = L
  BY <1>8, <1>15, WithHeadIs
<1> HIDE DEF z
<1>17. u.settled = z /\ u.scopes = head.scopes
  BY <1>6 DEF z
<1>18. L = KnownSymbols(Rest(t, items))
  BY <1>4, <1>9, <1>14, RestIs DEF KnownSymbols, Rest
<1> QED BY <1>4, <1>7, <1>14, <1>16, <1>17, <1>18 DEF SymbolsFit

-----------------------------------------------------------------------------
Unbound == [symbols |-> NoBindings, scopes |-> NoBindings]

SymbolsBound(t, items, b) ==
  /\ b \in BothBindings /\ Len(items) <= Len(t) /\ HeadFits(items, t, Len(items), b.scopes)
  /\ Bound(b.symbols, 1) = {KnownSymbols(Rest(t, items))}

LEMMA UnifiedGround ==
  ASSUME NEW t \in Seq(ConcreteSymbols), NEW items, Demands(items),
         NEW b \in UnifySymbols(KnownSymbols(t), Demanded(items), Unbound)
  PROVE  SymbolsBound(t, items, b)
<1> DEFINE rest == KnownSymbols(Rest(t, items))
<1>1. Unbound.scopes = NoBindings /\ Unbound.symbols = NoBindings
  BY DEF Unbound
<1>2. PICK u \in SettleSymbols(KnownSymbols(t), Demanded(items), NoBindings) :
         b \in AddSymbols[Addition(u.settled.variable, u.settled.stack,
                                   [Unbound EXCEPT !.scopes = u.scopes])]
  BY <1>1 DEF UnifySymbols
<1>3. SymbolsFit(t, items, u)
  BY <1>2, SettleGround
<1>4. /\ Len(items) <= Len(t) /\ HeadFits(items, t, Len(items), u.scopes)
      /\ u.settled.variable = 1 /\ u.settled.stack = rest
  BY <1>3 DEF SymbolsFit
<1>5. rest \in SymbolStacks
  <2>1. Rest(t, items) \in Seq(ConcreteSymbols)
    BY <1>4, RestIs DEF Rest, Demands
  <2> QED BY <2>1, KnownIs
<1> DEFINE c == [Unbound EXCEPT !.scopes = u.scopes]
<1>6. c = [symbols |-> NoBindings, scopes |-> u.scopes]
  BY DEF Unbound
<1>7. u.scopes \in Bindings(ScopeStacks) /\ NoBindings \in Bindings(SymbolStacks)
  BY <1>4, UnboundIs DEF HeadFits
<1> HIDE DEF rest, c
<1>8. c \in BothBindings /\ c.symbols = NoBindings /\ c.scopes = u.scopes
  BY <1>6, <1>7 DEF BothBindings
<1>9. b \in AddSymbols[Addition(1, rest, c)]
  BY <1>2, <1>4 DEF c
<1>10. b \in SymbolsAdded(AddSymbols, 1, rest, c) /\ b \in BothBindings
  BY <1>5, <1>8, <1>9, AddSymbolsExists
<1>11. Bound(c.symbols, 1) = {}
  BY <1>8, UnboundIs
<1>12. b = [c EXCEPT !.symbols = Bind(@, 1, rest)]
  BY <1>10, <1>11 DEF SymbolsAdded
<1> DEFINE d == Bind(NoBindings, 1, rest)
<1>13. Bound(d, 1) = {rest}
  <2>1. 1 \in Nat \ {0}
    OBVIOUS
  <2> QED BY <1>5, <1>7, <2>1, BindIs
<1> HIDE DEF d
<1>14. b = [symbols |-> d, scopes |-> u.scopes]
  BY <1>6, <1>12 DEF d
<1>15. b.symbols = d /\ b.scopes = u.scopes
  BY <1>14
<1> QED BY <1>4, <1>10, <1>13, <1>15 DEF SymbolsBound, rest

Joined(t, items, v, w, b) ==
  /\ b \in BothBindings /\ Len(items) <= Len(t)
  /\ \A i \in 1..Len(items) : Fits(t[i], items[i], b.scopes)
  /\ Bound(b.symbols, 1) = {KnownSymbols(Rest(t, items))}
  /\ Bound(b.scopes, v) = {Stack(w, 0)}

LEMMA JoinGround ==
  ASSUME NEW t \in Seq(ConcreteSymbols), NEW items, Demands(items),
         NEW w \in Seq(ExportedScopes), NEW v \in Nat \ {0},
         \A i \in 1..Len(items) : \A s \in items[i].scopes : s.variable # v,
         NEW b, SymbolsBound(t, items, b),
         NEW u \in UnifyScopes(Stack(w, 0), FromVariable(v), b.scopes)
  PROVE  Joined(t, items, v, w, [b EXCEPT !.scopes = u.scopes])
<1> DEFINE st == Stack(w, 0)
           c == Bind(b.scopes, v, st)
           x == [b EXCEPT !.scopes = u.scopes]
<1>1. b.scopes \in Bindings(ScopeStacks) /\ b.symbols \in Bindings(SymbolStacks)
      /\ b = [symbols |-> b.symbols, scopes |-> b.scopes]
  BY DEF SymbolsBound, BothBindings
<1>2. Bound(b.scopes, v) = {}
  BY DEF SymbolsBound, HeadFits
<1>3. st \in ScopeStacks
  BY StackMade
<1>4. u.scopes = c
  BY <1>1, <1>2, UnifyFree
<1> HIDE DEF st
<1>5. /\ c \in Bindings(ScopeStacks) /\ Bound(c, v) = {st}
      /\ \A k : k # v => Bound(c, k) = Bound(b.scopes, k)
  BY <1>1, <1>3, BindIs
<1>6. x = [symbols |-> b.symbols, scopes |-> c]
  BY <1>1, <1>4
<1> HIDE DEF c, x
<1>7. x.symbols = b.symbols /\ x.scopes = c /\ x \in BothBindings
  BY <1>1, <1>5, <1>6 DEF BothBindings
<1>8. ASSUME NEW i \in 1..Len(items) PROVE Fits(t[i], items[i], c)
  <2>1. Fits(t[i], items[i], b.scopes)
    BY DEF SymbolsBound, HeadFits
  <2>2. \A s \in items[i].scopes : Bound(c, s.variable) = Bound(b.scopes, s.variable)
    BY <1>5
  <2> QED BY <2>1, <2>2 DEF Fits
<1>9. Len(items) <= Len(t) /\ Bound(b.symbols, 1) = {KnownSymbols(Rest(t, items))}
  BY DEF SymbolsBound
<1>10. Joined(t, items, v, w, x)
  BY <1>5, <1>7, <1>8, <1>9 DEF Joined, st
<1> QED BY <1>10 DEF x

-----------------------------------------------------------------------------
(* What a path makes of known stacks, by substitution. *)
BindsAs(r, e, b) ==
  /\ b \in BothBindings
  /\ \A v \in ScopeVariablesPost(r) : v = 0 \/ Bound(b.scopes, v) = {Stack(ScopesFor(r, e, v), 0)}
  /\ Bound(b.symbols, 1) = {KnownSymbols(Below(r, e))}

LEMMA ZeroUnbound ==
  ASSUME NEW S, NEW b \in Bindings(S) PROVE Bound(b, 0) = {}
<1>1. 0 \notin 1..Len(b)
  BY BoundTyped
<1> QED BY <1>1 DEF Bound

LEMMA SubstitutedIs ==
  ASSUME NEW items, NEW v, NEW more, NEW b, Bound(b, v) = {Stack(more, 0)}
  PROVE  Substitute(Stack(items, v), b) = Stack(items \o more, 0)
<1> DEFINE st == Stack(items, v)
           z == Stack(more, 0)
           all == items \o more
<1>1. st.items = items /\ st.variable = v
  BY DEF Stack
<1>2. z.items = more /\ [z EXCEPT !.items = all] = Stack(all, 0)
  <2> HIDE DEF all
  <2> QED BY DEF Stack
<1>3. The(Bound(b, v)) = z /\ Bound(b, v) # {}
  BY TheOne
<1> HIDE DEF st, z
<1>4. Substitute(st, b) = [z EXCEPT !.items = items \o @]
  BY <1>1, <1>3 DEF Substitute
<1>5. [z EXCEPT !.items = items \o @] = [z EXCEPT !.items = all]
  BY <1>2
<1> QED BY <1>2, <1>4, <1>5 DEF st

LEMMA SubstitutedEmpty ==
  ASSUME NEW items, NEW v, NEW b, Bound(b, v) = {}
  PROVE  Substitute(Stack(items, v), b) = Stack(items \o <<>>, v)
<1> DEFINE st == Stack(items, v)
           z == FromVariable(v)
           e == <<>>
           all == items \o e
<1>1. st.items = items /\ st.variable = v
  BY DEF Stack
<1>2. z = Stack(e, v)
  BY DEF FromVariable
<1> HIDE DEF st, z, e
<1>3. z.items = e /\ [z EXCEPT !.items = all] = Stack(all, v)
  <2> HIDE DEF all
  <2> QED BY <1>2 DEF Stack
<1>4. Substitute(st, b) = [z EXCEPT !.items = items \o @]
  BY <1>1 DEF Substitute, z
<1>5. [z EXCEPT !.items = items \o @] = [z EXCEPT !.items = all]
  BY <1>3
<1> QED BY <1>3, <1>4, <1>5 DEF st, e

LEMMA ScopesSubstituted ==
  ASSUME NEW r, NEW e, NEW b, BindsAs(r, e, b), NEW st \in ScopeStacks,
         st.variable \in ScopeVariablesPost(r)
  PROVE  Substitute(st, b.scopes) = Stack(Fill(r, e, st), 0)
<1> DEFINE items == st.items
           v == st.variable
<1>1. st = Stack(items, v)
  BY ScopeStackIs
<1>2. b.scopes \in Bindings(ScopeStacks)
  BY DEF BindsAs, BothBindings
<1>3. CASE v = 0
  <2>1. ScopesFor(r, e, 0) = <<>>
    BY DEF ScopesFor
  <2>2. Bound(b.scopes, 0) = {}
    BY <1>2, ZeroUnbound
  <2> HIDE DEF items, v
  <2>3. Substitute(st, b.scopes) = Stack(items \o <<>>, 0)
    BY <1>1, <1>3, <2>2, SubstitutedEmpty
  <2> QED BY <1>3, <2>1, <2>3 DEF Fill, items, v
<1>4. CASE v # 0
  <2> DEFINE more == ScopesFor(r, e, v)
  <2>1. Bound(b.scopes, v) = {Stack(more, 0)}
    BY <1>4 DEF BindsAs
  <2> HIDE DEF items, v, more
  <2>2. Substitute(st, b.scopes) = Stack(items \o more, 0)
    BY <1>1, <2>1, SubstitutedIs
  <2> QED BY <2>2 DEF Fill, items, v, more
<1> QED BY <1>3, <1>4

LEMMA GroundConcat ==
  ASSUME NEW s \in Seq(ConcreteSymbols), NEW t \in Seq(ConcreteSymbols)
  PROVE  GroundSymbols(s \o t) = GroundSymbols(s) \o GroundSymbols(t)
<1> DEFINE all == s \o t
           left == GroundSymbols(all)
           g == GroundSymbols(s)
           h == GroundSymbols(t)
           right == g \o h
           m == Len(s)
           n == Len(t)
<1>1. all \in Seq(ConcreteSymbols) /\ IsSequence(s) /\ IsSequence(t) /\ m \in Nat /\ n \in Nat
  BY SequenceOf
<1>2. /\ Len(all) = m + n
      /\ \A i \in 1..m : all[i] = s[i]
      /\ \A i \in 1..n : all[m + i] = t[i]
  BY <1>1, ConcatIs
<1> HIDE DEF all
<1>3. /\ IsSequence(left) /\ Len(left) = Len(all) /\ \A i \in 1..Len(all) : left[i] = GroundSymbol(all[i])
  BY <1>1, GroundSymbolsIs
<1>4. /\ IsSequence(g) /\ Len(g) = m /\ \A i \in 1..m : g[i] = GroundSymbol(s[i])
      /\ IsSequence(h) /\ Len(h) = n /\ \A i \in 1..n : h[i] = GroundSymbol(t[i])
  BY GroundSymbolsIs
<1> HIDE DEF g, h, left, m, n
<1>5. /\ IsSequence(right) /\ Len(right) = m + n
      /\ \A i \in 1..m : right[i] = g[i]
      /\ \A i \in 1..n : right[m + i] = h[i]
  <2>1. IsSequence(g) /\ IsSequence(h) /\ Len(g) = m /\ Len(h) = n
    BY <1>4
  <2>2. /\ IsSequence(right) /\ Len(right) = Len(g) + Len(h)
        /\ \A i \in 1..Len(g) : right[i] = g[i]
        /\ \A i \in 1..Len(h) : right[Len(g) + i] = h[i]
    BY ONLY <2>1, ConcatIs
  <2> QED BY <2>1, <2>2
<1> HIDE DEF right
<1>6. \A i \in 1..m + n : i \in 1..m \/ \E k \in 1..n : i = m + k
  <2> TAKE i \in 1..m + n
  <2>1. CASE i <= m
    BY <1>1, <2>1
  <2>2. CASE ~(i <= m)
    <3>1. i - m \in 1..n /\ i = m + (i - m)
      BY <1>1, <2>2
    <3> QED BY <3>1
  <2> QED BY <2>1, <2>2
<1>7. \A i \in 1..m : left[i] = right[i]
  <2>1. \A i \in 1..m : i \in 1..Len(all)
    BY <1>1, <1>2
  <2> QED BY <1>2, <1>3, <1>4, <1>5, <2>1
<1>8. \A i \in 1..n : left[m + i] = right[m + i]
  <2>1. \A i \in 1..n : m + i \in 1..Len(all)
    BY <1>1, <1>2
  <2> QED BY <1>2, <1>3, <1>4, <1>5, <2>1
<1>9. \A i \in 1..m + n : left[i] = right[i]
  BY <1>6, <1>7, <1>8
<1>10. left = right
  BY <1>2, <1>3, <1>5, <1>9, SameSequence
<1> QED BY <1>10 DEF left, right, all, g, h

LEMMA SymbolSubstituted ==
  ASSUME NEW r, NEW e, NEW b, BindsAs(r, e, b), NEW x \in StackSymbols,
         \A s \in x.scopes : s.variable \in ScopeVariablesPost(r)
  PROVE  ScopedSymbol(x.symbol, {Substitute(s, b.scopes) : s \in x.scopes})
           = GroundSymbol(FilledSymbol(r, e, x))
<1> DEFINE left == {Substitute(s, b.scopes) : s \in x.scopes}
           filled == {Fill(r, e, s) : s \in x.scopes}
           right == {Stack(z, 0) : z \in filled}
<1>1. \A s \in x.scopes : Substitute(s, b.scopes) = Stack(Fill(r, e, s), 0)
  BY ScopesSubstituted DEF StackSymbols
<1>2. \A y : y \in left <=> y \in right
  BY <1>1
<1>3. left = right
  <2> HIDE DEF left, right
  <2> QED BY <1>2
<1>4. FilledSymbol(r, e, x) = [symbol |-> x.symbol, scopes |-> filled]
  BY DEF FilledSymbol
<1> HIDE DEF filled
<1>5. FilledSymbol(r, e, x).symbol = x.symbol /\ FilledSymbol(r, e, x).scopes = filled
  BY <1>4
<1>6. GroundSymbol(FilledSymbol(r, e, x)) = [symbol |-> x.symbol, scopes |-> right]
  BY <1>5 DEF GroundSymbol
<1>7. ScopedSymbol(x.symbol, left) = [symbol |-> x.symbol, scopes |-> left]
  BY DEF ScopedSymbol
<1>8. ScopedSymbol(x.symbol, left) = GroundSymbol(FilledSymbol(r, e, x))
  <2> HIDE DEF left, right
  <2> QED BY <1>3, <1>6, <1>7
<1> QED BY <1>8

LEMMA ResultSubstituted ==
  ASSUME NEW r, Open(r), NEW e \in EveryStack, Has(r.symbolPre.items, e.symbols), NEW b, BindsAs(r, e, b)
  PROVE  /\ SubstituteSymbols(r.symbolPost, b) = KnownSymbols(ResultOf(r, e).symbols)
         /\ Substitute(r.scopePost, b.scopes) = Stack(ResultOf(r, e).scopes, 0)
<1> DEFINE post == r.symbolPost
           items == r.symbolPost.items
           Each(i) == ScopedSymbol(items[i].symbol, {Substitute(s, b.scopes) : s \in items[i].scopes})
           mid == [i \in DOMAIN items |-> Each(i)]
           filled == Filled(r, e, items)
           below == Below(r, e)
<1>1. post = Stack(items, 1) /\ items \in Seq(StackSymbols) /\ IsSequence(items) /\ r.scopePost \in ScopeStacks
  BY OpenStacks
<1>2. DOMAIN items = 1..Len(items) /\ \A i \in 1..Len(items) : items[i] \in StackSymbols
  BY <1>1, SequenceIs
<1>3. \A i \in 1..Len(items) : \A s \in items[i].scopes : s.variable \in ScopeVariablesPost(r)
  BY <1>2 DEF ScopeVariablesPost, ScopeVariables
<1>4. ASSUME NEW i \in 1..Len(items) PROVE Each(i) = GroundSymbol(FilledSymbol(r, e, items[i]))
  <2> DEFINE x == items[i]
  <2>1. x \in StackSymbols /\ \A s \in x.scopes : s.variable \in ScopeVariablesPost(r)
    BY <1>2, <1>3
  <2> HIDE DEF x
  <2>2. ScopedSymbol(x.symbol, {Substitute(s, b.scopes) : s \in x.scopes})
          = GroundSymbol(FilledSymbol(r, e, x))
    BY <2>1, SymbolSubstituted
  <2> QED BY <2>2 DEF x
<1>5. IsSequence(filled) /\ Len(filled) = Len(items)
      /\ \A i \in 1..Len(items) : filled[i] = FilledSymbol(r, e, items[i])
  BY <1>1, FilledIs
<1>6. filled \in Seq(ConcreteSymbols) /\ below \in Seq(ConcreteSymbols)
  BY FilledTyped, BelowTyped
<1>7. ResultOf(r, e).symbols = filled \o below /\ ResultOf(r, e).scopes = Fill(r, e, r.scopePost)
  BY ResultFields
<1>8. SubstituteSymbols(post, b) = Substitute(Stack(mid, post.variable), b.symbols)
  BY DEF SubstituteSymbols
<1> HIDE DEF Each, post, items, filled, below
<1>9. mid = GroundSymbols(filled)
  <2>1. DOMAIN filled = 1..Len(items)
    BY <1>5, SequenceIs
  <2>2. \A i \in 1..Len(items) : Each(i) = GroundSymbol(filled[i])
    BY <1>4, <1>5
  <2> QED BY <1>2, <2>1, <2>2 DEF GroundSymbols
<1> HIDE DEF mid
<1>10. post.variable = 1
  BY <1>1 DEF Stack
<1>11. Bound(b.symbols, 1) = {Stack(GroundSymbols(below), 0)}
  BY DEF BindsAs, KnownSymbols, below
<1>12. Substitute(Stack(mid, 1), b.symbols) = Stack(mid \o GroundSymbols(below), 0)
  BY <1>11, SubstitutedIs
<1>13. mid \o GroundSymbols(below) = GroundSymbols(filled \o below)
  BY <1>6, <1>9, GroundConcat
<1>14. SubstituteSymbols(post, b) = KnownSymbols(filled \o below)
  BY <1>8, <1>10, <1>12, <1>13 DEF KnownSymbols
<1>15. r.scopePost.variable \in ScopeVariablesPost(r)
  BY DEF ScopeVariablesPost
<1>16. Substitute(r.scopePost, b.scopes) = Stack(Fill(r, e, r.scopePost), 0)
  BY <1>1, <1>15, ScopesSubstituted
<1> QED BY <1>7, <1>14, <1>16 DEF post

-----------------------------------------------------------------------------
(* A path without variables is not changed by an offset. *)

LEMMA WithOffsetZero ==
  ASSUME NEW items, NEW k
  PROVE  WithOffset(Stack(items, 0), k) = Stack(items, 0)
BY DEF WithOffset, Stack

LEMMA SymbolOffset ==
  ASSUME NEW x \in ConcreteSymbols, NEW k
  PROVE  ScopedSymbol(GroundSymbol(x).symbol, {WithOffset(s, k) : s \in GroundSymbol(x).scopes})
           = GroundSymbol(x)
<1> DEFINE scopes == {Stack(z, 0) : z \in x.scopes}
           left == {WithOffset(s, k) : s \in scopes}
<1>1. GroundSymbol(x).symbol = x.symbol /\ GroundSymbol(x).scopes = scopes
  BY GroundSymbolTyped
<1>2. \A s \in scopes : WithOffset(s, k) = s
  BY WithOffsetZero
<1> HIDE DEF scopes
<1>3. \A y : y \in left <=> y \in scopes
  BY <1>2
<1>4. left = scopes
  <2> HIDE DEF left
  <2> QED BY <1>3
<1>5. {WithOffset(s, k) : s \in GroundSymbol(x).scopes} = left
  BY <1>1
<1> HIDE DEF left
<1>6. GroundSymbol(x) = [symbol |-> x.symbol, scopes |-> scopes]
  BY DEF GroundSymbol, scopes
<1> QED BY <1>1, <1>4, <1>5, <1>6 DEF ScopedSymbol

LEMMA OffsetKnown ==
  ASSUME NEW t \in Seq(ConcreteSymbols), NEW j, NEW k
  PROVE  OffsetSymbols(KnownSymbols(t), j, k) = KnownSymbols(t)
<1> DEFINE g == GroundSymbols(t)
           Each(i) == ScopedSymbol(g[i].symbol, {WithOffset(s, k) : s \in g[i].scopes})
           mid == [i \in DOMAIN g |-> Each(i)]
<1>1. /\ IsSequence(g) /\ Len(g) = Len(t) /\ \A i \in 1..Len(t) : g[i] = GroundSymbol(t[i])
      /\ Len(t) \in Nat /\ \A i \in 1..Len(t) : t[i] \in ConcreteSymbols
  BY GroundSymbolsIs
<1>2. KnownSymbols(t) = Stack(g, 0) /\ KnownSymbols(t).items = g /\ KnownSymbols(t).variable = 0
  BY DEF KnownSymbols, Stack
<1>3. OffsetSymbols(KnownSymbols(t), j, k) = WithOffset(Stack(mid, 0), j)
  BY <1>2 DEF OffsetSymbols
<1> HIDE DEF g
<1>4. ASSUME NEW i \in 1..Len(t) PROVE Each(i) = g[i]
  <2> DEFINE x == t[i]
             y == GroundSymbol(x)
  <2>1. x \in ConcreteSymbols /\ g[i] = y
    BY <1>1
  <2>2. ScopedSymbol(y.symbol, {WithOffset(s, k) : s \in y.scopes}) = y
    <3> HIDE DEF x
    <3> QED BY <2>1, SymbolOffset
  <2> HIDE DEF y
  <2> QED BY <2>1, <2>2
<1>5. DOMAIN g = 1..Len(t) /\ g = [i \in 1..Len(t) |-> g[i]]
  BY <1>1, SequenceIs
<1> HIDE DEF Each
<1>6. mid = g
  BY <1>4, <1>5
<1> HIDE DEF mid
<1> QED BY <1>2, <1>3, <1>6, WithOffsetZero

LEMMA EmptyKnown ==
  EmptyStack = KnownSymbols(<<>>) /\ <<>> \in Seq(ConcreteSymbols)
<1>1. <<>> \in Seq(ConcreteSymbols)
  BY EmptySeq
<1>2. GroundSymbols(<<>>) = <<>>
  <2> DEFINE g == GroundSymbols(<<>>)
  <2>1. IsSequence(g) /\ Len(g) = Len(<<>>)
    BY <1>1, GroundSymbolsIs
  <2> HIDE DEF g
  <2>2. Len(g) = 0
    BY <2>1, EmptyIs
  <2>3. g = <<>>
    BY <2>1, <2>2, EmptyIs, SameSequence
  <2> QED BY <2>3 DEF g
<1> QED BY <1>1, <1>2 DEF EmptyStack, KnownSymbols

(* A path of a query that ends with stacks c. *)
Ends(p, c) ==
  /\ p \in Paths /\ c \in EveryStack
  /\ KindOf[p.start] \in Pushes /\ KindOf[p.end] # "jump to"
  /\ NodesOf(p)[1] = p.start
  /\ p.symbolPre = EmptyStack /\ p.scopePre = EmptyStack
  /\ Walk(NodesOf(p), Concrete(<<>>, <<>>)) = {c}
  /\ p.symbolPost = KnownSymbols(c.symbols) /\ p.scopePost = Stack(c.scopes, 0)

LEMMA NothingIs == Concrete(<<>>, <<>>) \in EveryStack
<1>1. <<>> \in Seq(ConcreteSymbols) /\ <<>> \in Seq(ExportedScopes)
  BY EmptySeq
<1> DEFINE e == <<>>
<1>2. e \in Seq(ConcreteSymbols) /\ e \in Seq(ExportedScopes)
  BY <1>1
<1> HIDE DEF e
<1>3. [symbols |-> e, scopes |-> e] \in EveryStack
  BY <1>2 DEF EveryStack
<1> QED BY <1>3 DEF e, Concrete

LEMMA OfQueryIs ==
  ASSUME NEW p
  PROVE  OfQuery(p) <=> \E c : Ends(p, c)
<1> DEFINE nothing == Concrete(<<>>, <<>>)
           w == Walk(NodesOf(p), nothing)
<1>1. ASSUME NEW c \in EveryStack
      PROVE  (Concrete(p.symbolPost, p.scopePost) = Ground(c))
               <=> (p.symbolPost = KnownSymbols(c.symbols) /\ p.scopePost = Stack(c.scopes, 0))
  <2> DEFINE x == KnownSymbols(c.symbols)
             y == Stack(c.scopes, 0)
             a == p.symbolPost
             b == p.scopePost
  <2>1. Ground(c) = Concrete(x, y)
    BY GroundIs DEF KnownSymbols
  <2> HIDE DEF x, y, a, b
  <2>2. (Concrete(a, b) = Concrete(x, y)) <=> (a = x /\ b = y)
    <3>1. /\ Concrete(a, b).symbols = a /\ Concrete(a, b).scopes = b
          /\ Concrete(x, y).symbols = x /\ Concrete(x, y).scopes = y
      BY DEF Concrete
    <3> QED BY <3>1
  <2> QED BY <2>1, <2>2 DEF x, y, a, b
<1>2. ASSUME OfQuery(p) PROVE \E c : Ends(p, c)
  <2>1. PICK c \in w : w = {c} /\ Concrete(p.symbolPost, p.scopePost) = Ground(c)
    BY <1>2 DEF OfQuery
  <2>2. p \in Paths
    BY <1>2 DEF OfQuery
  <2>3. c \in EveryStack
    BY <2>1, <2>2, NodesOfIs, NothingIs, WalkConcrete
  <2>4. p.symbolPost = KnownSymbols(c.symbols) /\ p.scopePost = Stack(c.scopes, 0)
    BY <1>1, <2>1, <2>3
  <2>5. Ends(p, c)
    BY <1>2, <2>1, <2>3, <2>4 DEF OfQuery, Ends
  <2> QED BY <2>5
<1>3. ASSUME NEW c, Ends(p, c) PROVE OfQuery(p)
  <2>1. Concrete(p.symbolPost, p.scopePost) = Ground(c)
    BY <1>1, <1>3 DEF Ends
  <2>2. c \in w /\ w = {c}
    BY <1>3 DEF Ends
  <2> QED BY <1>3, <2>1, <2>2 DEF OfQuery, Ends
<1> QED BY <1>2, <1>3

LEMMA OffsetNothing ==
  ASSUME NEW p, NEW c, Ends(p, c), NEW r
  PROVE  OffsetBeyond(p, r) = p
<1> DEFINE j == LargestSymbolVariable(r)
           k == LargestScopeVariable(r)
           x == OffsetSymbols(p.symbolPre, j, k)
           y == OffsetSymbols(p.symbolPost, j, k)
           u == WithOffset(p.scopePre, k)
           v == WithOffset(p.scopePost, k)
           q == OffsetBeyond(p, r)
<1>1. p \in Paths /\ c \in EveryStack
  BY DEF Ends
<1>2. x = p.symbolPre
  BY EmptyKnown, OffsetKnown DEF Ends
<1>3. y = p.symbolPost
  BY <1>1, ConcreteIs, OffsetKnown DEF Ends
<1>4. u = p.scopePre
  BY WithOffsetZero DEF Ends, EmptyStack
<1>5. v = p.scopePost
  BY WithOffsetZero DEF Ends
<1>6. q = [p EXCEPT !.symbolPre = x, !.symbolPost = y, !.scopePre = u, !.scopePost = v]
  BY DEF OffsetBeyond
<1> HIDE DEF x, y, u, v, q
<1>7. q = [p EXCEPT !.symbolPre = p.symbolPre, !.symbolPost = p.symbolPost,
                    !.scopePre = p.scopePre, !.scopePost = p.scopePost]
  BY <1>2, <1>3, <1>4, <1>5, <1>6
<1>8. [p EXCEPT !.symbolPre = p.symbolPre, !.symbolPost = p.symbolPost,
                !.scopePre = p.scopePre, !.scopePost = p.scopePost] = p
  BY <1>1 DEF Paths
<1> QED BY <1>7, <1>8 DEF q

-----------------------------------------------------------------------------
(* What is bound when a path is joined to that of a query. *)

LEMMA PushedAt ==
  ASSUME NEW x, NEW s, IsSequence(s)
  PROVE  /\ IsSequence(Pushed(x, s)) /\ Len(Pushed(x, s)) = Len(s) + 1 /\ Pushed(x, s)[1] = x
         /\ \A i \in 1..Len(s) : Pushed(x, s)[i + 1] = s[i]
<1> DEFINE one == <<x>>
           t == one \o s
<1>1. IsSequence(one) /\ Len(one) = 1 /\ one[1] = x
  BY OneIs
<1>2. Len(s) \in Nat
  BY SequenceIs
<1> HIDE DEF one
<1>0. IsSequence(one) /\ IsSequence(s)
  BY <1>1
<1>3. /\ IsSequence(t) /\ Len(t) = Len(one) + Len(s)
      /\ \A i \in 1..Len(one) : t[i] = one[i]
      /\ \A i \in 1..Len(s) : t[Len(one) + i] = s[i]
  BY ONLY <1>0, ConcatIs
<1> HIDE DEF t
<1>4. 1 \in 1..Len(one)
  BY <1>1
<1>5. \A i \in 1..Len(s) : t[i + 1] = s[i]
  BY <1>1, <1>2, <1>3
<1> QED BY <1>1, <1>2, <1>3, <1>4, <1>5 DEF Pushed, t, one

LEMMA RestPushed ==
  ASSUME NEW x, NEW s, IsSequence(s), NEW n \in Nat, n <= Len(s)
  PROVE  SubSeq(Pushed(x, s), n + 2, Len(s) + 1) = SubSeq(s, n + 1, Len(s))
<1> DEFINE all == Pushed(x, s)
           left == SubSeq(all, n + 2, Len(s) + 1)
           right == SubSeq(s, n + 1, Len(s))
           m == Len(s) - n
<1>1. Len(s) \in Nat
  BY SequenceIs
<1>2. /\ IsSequence(all) /\ Len(all) = Len(s) + 1
      /\ \A i \in 1..Len(s) : all[i + 1] = s[i]
  BY PushedAt
<1> HIDE DEF all
<1> DEFINE a == n + 2
           b == Len(s) + 1
           c == n + 1
<1>3. /\ a \in Nat /\ b \in Nat /\ 1 <= a /\ a <= b + 1 /\ b <= Len(all) /\ b - a + 1 = m
      /\ c \in Nat /\ 1 <= c /\ c <= Len(s) + 1 /\ Len(s) <= Len(s) /\ Len(s) - c + 1 = m
  BY <1>1, <1>2
<1>4. IsSequence(left) /\ Len(left) = m /\ \A i \in 1..m : left[i] = all[n + 2 + i - 1]
  <2>1. IsSequence(all)
    BY <1>2
  <2>2. a \in Nat /\ b \in Nat /\ 1 <= a /\ a <= b + 1 /\ b <= Len(all)
    BY <1>3
  <2> HIDE DEF a, b, m
  <2>3. /\ IsSequence(SubSeq(all, a, b)) /\ Len(SubSeq(all, a, b)) = b - a + 1
        /\ \A i \in 1..b - a + 1 : SubSeq(all, a, b)[i] = all[a + i - 1]
    BY ONLY <2>1, <2>2, SubSeqIs
  <2>4. b - a + 1 = m
    BY <1>3
  <2>5. /\ IsSequence(SubSeq(all, a, b)) /\ Len(SubSeq(all, a, b)) = m
        /\ \A i \in 1..m : SubSeq(all, a, b)[i] = all[a + i - 1]
    BY ONLY <2>3, <2>4
  <2> QED BY <2>5 DEF a, b
<1>5. IsSequence(right) /\ Len(right) = m /\ \A i \in 1..m : right[i] = s[n + 1 + i - 1]
  <2>1. IsSequence(s) /\ Len(s) \in Nat /\ c \in Nat /\ 1 <= c /\ c <= Len(s) + 1 /\ Len(s) <= Len(s)
    BY <1>1, <1>3
  <2> HIDE DEF c, m
  <2>3. /\ IsSequence(SubSeq(s, c, Len(s))) /\ Len(SubSeq(s, c, Len(s))) = Len(s) - c + 1
        /\ \A i \in 1..Len(s) - c + 1 : SubSeq(s, c, Len(s))[i] = s[c + i - 1]
    BY ONLY <2>1, SubSeqIs
  <2>4. Len(s) - c + 1 = m
    BY <1>3
  <2>5. /\ IsSequence(SubSeq(s, c, Len(s))) /\ Len(SubSeq(s, c, Len(s))) = m
        /\ \A i \in 1..m : SubSeq(s, c, Len(s))[i] = s[c + i - 1]
    BY ONLY <2>3, <2>4
  <2> QED BY <2>5 DEF c
<1>6. \A i \in 1..m : n + 1 + i - 1 \in 1..Len(s) /\ n + 2 + i - 1 = (n + 1 + i - 1) + 1
  BY <1>1
<1> HIDE DEF left, right, m
<1>7. \A i \in 1..m : left[i] = right[i]
  BY <1>2, <1>4, <1>5, <1>6
<1>8. left = right
  BY <1>4, <1>5, <1>7, SameSequence
<1> QED BY <1>8 DEF left, right, all

LEMMA DemandsIs ==
  ASSUME NEW r, Open(r)
  PROVE  Demands(r.symbolPre.items) /\ r.symbolPre = Demanded(r.symbolPre.items)
<1>1. r.symbolPre = Stack(r.symbolPre.items, 1) /\ r.symbolPre.items \in Seq(StackSymbols)
  BY OpenStacks
<1>2. Demands(r.symbolPre.items)
  BY <1>1, OpenIs DEF Demands
<1> QED BY <1>1, <1>2 DEF Demanded

LEMMA FitsHas ==
  ASSUME NEW t, NEW items, NEW v, NEW w, NEW b, Joined(t, items, v, w, b)
  PROVE  Has(items, t)
BY DEF Joined, Has, Fits

(* The whole precondition was unified. *)
LEMMA BindsWhole ==
  ASSUME NEW r, Open(r), NEW e \in EveryStack, NEW b,
         Joined(e.symbols, r.symbolPre.items, 1, e.scopes, b)
  PROVE  Has(r.symbolPre.items, e.symbols) /\ BindsAs(r, e, b)
<1> DEFINE items == r.symbolPre.items
           t == e.symbols
<1>1. Has(items, t)
  BY FitsHas
<1>2. /\ b \in BothBindings /\ \A i \in 1..Len(items) : Fits(t[i], items[i], b.scopes)
      /\ Bound(b.symbols, 1) = {KnownSymbols(Rest(t, items))} /\ Bound(b.scopes, 1) = {Stack(e.scopes, 0)}
  BY DEF Joined
<1>3. /\ ScopesFor(r, e, 1) = e.scopes
      /\ \A i \in 1..Len(items) : \A st \in items[i].scopes : t[i].scopes = {ScopesFor(r, e, st.variable)}
  BY <1>1, ScopesForIs
<1>4. DOMAIN items = 1..Len(items)
  BY OpenStacks, SequenceIs
<1>5. \A v \in ScopeVariablesPost(r) \ {0, 1} : \E i \in DOMAIN items : \E s \in items[i].scopes : v = s.variable
  BY DEF Open, ScopeVariables
<1>6. Below(r, e) = Rest(t, items)
  BY DEF Below, Rest
<1> HIDE DEF items, t
<1>7. ASSUME NEW v \in ScopeVariablesPost(r), v # 0
      PROVE  Bound(b.scopes, v) = {Stack(ScopesFor(r, e, v), 0)}
  <2>1. CASE v = 1
    BY <1>2, <1>3, <2>1
  <2>2. CASE v # 1
    <3>1. PICK i \in 1..Len(items) : \E s \in items[i].scopes : v = s.variable
      BY <1>4, <1>5, <1>7, <2>2
    <3>2. PICK s \in items[i].scopes : v = s.variable
      BY <3>1
    <3>3. ScopesFor(r, e, v) \in t[i].scopes
      BY <1>3, <3>2
    <3> QED BY <1>2, <3>2, <3>3 DEF Fits
  <2> QED BY <2>1, <2>2
<1>8. BindsAs(r, e, b)
  BY <1>2, <1>6, <1>7 DEF BindsAs
<1> QED BY <1>1, <1>8 DEF items, t

Attaches(x, y, v, w) == \A s \in y.scopes : x.scopes = {w} /\ s.variable = v

(* The first symbol of the precondition was left out. *)
LEMMA BindsPushed ==
  ASSUME NEW r, Open(r), NEW e \in EveryStack, NEW b, NEW y, NEW items, IsSequence(items),
         r.symbolPre.items = Pushed(y, items),
         NEW x, NEW t, IsSequence(t), e.symbols = Pushed(x, t),
         x.symbol = y.symbol, (x.scopes = {}) <=> (y.scopes = {}),
         NEW v, NEW w, Joined(t, items, v, w, b),
         Attaches(x, y, v, w),
         1 \in ScopeVariablesPost(r) => v = 1 /\ w = e.scopes
  PROVE  Has(r.symbolPre.items, e.symbols) /\ BindsAs(r, e, b)
<1> DEFINE pre == r.symbolPre.items
           u == e.symbols
<1>1. /\ b \in BothBindings /\ Len(items) <= Len(t)
      /\ \A i \in 1..Len(items) : Fits(t[i], items[i], b.scopes)
      /\ Bound(b.symbols, 1) = {KnownSymbols(Rest(t, items))} /\ Bound(b.scopes, v) = {Stack(w, 0)}
  BY DEF Joined
<1>2. Len(items) \in Nat /\ Len(t) \in Nat
  BY SequenceIs
<1>3. /\ IsSequence(pre) /\ Len(pre) = Len(items) + 1 /\ pre[1] = y
      /\ \A i \in 1..Len(items) : pre[i + 1] = items[i]
  BY PushedAt
<1>4. /\ IsSequence(u) /\ Len(u) = Len(t) + 1 /\ u[1] = x
      /\ \A i \in 1..Len(t) : u[i + 1] = t[i]
  BY PushedAt
<1>5. \A z \in ScopeVariablesPost(r) \ {0, 1} : \E i \in DOMAIN pre : \E s \in pre[i].scopes : z = s.variable
  BY DEF Open, ScopeVariables
<1>6. Below(r, e) = Rest(t, items)
  <2>1. Below(r, e) = SubSeq(Pushed(x, t), Len(pre) + 1, Len(u))
    BY DEF Below
  <2>2. Len(pre) + 1 = Len(items) + 2
    BY <1>2, <1>3
  <2> HIDE DEF pre, u
  <2>3. Below(r, e) = SubSeq(Pushed(x, t), Len(items) + 2, Len(t) + 1)
    BY <1>4, <2>1, <2>2
  <2>4. SubSeq(Pushed(x, t), Len(items) + 2, Len(t) + 1) = SubSeq(t, Len(items) + 1, Len(t))
    BY <1>1, <1>2, RestPushed
  <2> QED BY <2>3, <2>4 DEF Rest
<1> HIDE DEF pre, u
<1>7. \A i \in 1..Len(pre) : i = 1 \/ \E k \in 1..Len(items) : i = k + 1
  <2> TAKE i \in 1..Len(pre)
  <2>1. CASE i # 1
    <3>1. i - 1 \in 1..Len(items) /\ i = (i - 1) + 1
      BY <1>2, <1>3, <2>1
    <3> QED BY <3>1
  <2> QED BY <2>1
<1>8. \A k \in 1..Len(items) : k \in 1..Len(t)
  BY <1>1, <1>2
<1>9. Has(pre, u)
  <2>1. Len(pre) <= Len(u)
    BY <1>1, <1>2, <1>3, <1>4
  <2>2. pre[1].symbol = u[1].symbol /\ (pre[1].scopes = {}) = (u[1].scopes = {})
    BY <1>3, <1>4
  <2>3. ASSUME NEW k \in 1..Len(items)
        PROVE  pre[k + 1].symbol = u[k + 1].symbol /\ (pre[k + 1].scopes = {}) = (u[k + 1].scopes = {})
    <3>1. Fits(t[k], items[k], b.scopes) /\ pre[k + 1] = items[k] /\ u[k + 1] = t[k]
      BY <1>1, <1>3, <1>4, <1>8
    <3> QED BY <3>1 DEF Fits
  <2> QED BY <1>7, <2>1, <2>2, <2>3 DEF Has
<1>10. /\ ScopesFor(r, e, 1) = e.scopes
       /\ \A i \in 1..Len(pre) : \A st \in pre[i].scopes : u[i].scopes = {ScopesFor(r, e, st.variable)}
  BY <1>9, ScopesForIs DEF pre, u
<1>11. ASSUME NEW z \in ScopeVariablesPost(r), z # 0
       PROVE  Bound(b.scopes, z) = {Stack(ScopesFor(r, e, z), 0)}
  <2>1. CASE z = 1
    BY <1>1, <1>10, <2>1
  <2>2. CASE z # 1
    <3>0. DOMAIN pre = 1..Len(pre)
      BY <1>3, SequenceIs
    <3>1. PICK i \in 1..Len(pre) : \E s \in pre[i].scopes : z = s.variable
      BY <1>5, <1>11, <2>2, <3>0
    <3>2. PICK s \in pre[i].scopes : z = s.variable
      BY <3>1
    <3>3. ScopesFor(r, e, z) \in u[i].scopes
      BY <1>10, <3>2
    <3>4. CASE i = 1
      <4>1. s \in y.scopes /\ u[i] = x
        BY <1>3, <1>4, <3>2, <3>4
      <4>2. x.scopes = {w} /\ z = v
        BY <3>2, <4>1 DEF Attaches
      <4>3. ScopesFor(r, e, z) = w
        BY <3>3, <4>1, <4>2
      <4> QED BY <1>1, <4>2, <4>3
    <3>5. ASSUME NEW k \in 1..Len(items), i = k + 1
          PROVE  Bound(b.scopes, z) = {Stack(ScopesFor(r, e, z), 0)}
      <4>1. Fits(t[k], items[k], b.scopes) /\ pre[i] = items[k] /\ u[i] = t[k]
        BY <1>1, <1>3, <1>4, <1>8, <3>5
      <4> QED BY <3>2, <3>3, <4>1 DEF Fits
    <3> QED BY <1>7, <3>4, <3>5
  <2> QED BY <2>1, <2>2
<1>12. BindsAs(r, e, b)
  BY <1>1, <1>6, <1>11 DEF BindsAs
<1> QED BY <1>9, <1>12 DEF pre, u

-----------------------------------------------------------------------------
(* Both sides of a join, half opened. *)

LEMMA JoinIs ==
  ASSUME NEW l, NEW r, NEW b \in Join(l, r)
  PROVE  \E c \in UnifySymbols(HalfOpenPostcondition(l), HalfOpenPrecondition(r).symbols, Unbound) :
           \E u \in UnifyScopes(l.scopePost, HalfOpenPrecondition(r).scopes, c.scopes) :
             b = [c EXCEPT !.scopes = u.scopes]
BY DEF Join, Unbound

LEMMA JoinAgainst ==
  ASSUME NEW l, NEW r, NEW b \in Join(l, r),
         NEW t \in Seq(ConcreteSymbols), NEW items, Demands(items),
         NEW w \in Seq(ExportedScopes), NEW v \in Nat \ {0},
         \A i \in 1..Len(items) : \A s \in items[i].scopes : s.variable # v,
         HalfOpenPostcondition(l) = KnownSymbols(t), l.scopePost = Stack(w, 0),
         HalfOpenPrecondition(r).symbols = Demanded(items),
         HalfOpenPrecondition(r).scopes = FromVariable(v)
  PROVE  Joined(t, items, v, w, b)
<1>1. PICK c \in UnifySymbols(KnownSymbols(t), Demanded(items), Unbound) :
             \E u \in UnifyScopes(Stack(w, 0), FromVariable(v), c.scopes) :
               b = [c EXCEPT !.scopes = u.scopes]
  BY JoinIs
<1>2. PICK u \in UnifyScopes(Stack(w, 0), FromVariable(v), c.scopes) : b = [c EXCEPT !.scopes = u.scopes]
  BY <1>1
<1>3. SymbolsBound(t, items, c)
  BY UnifiedGround
<1>4. Joined(t, items, v, w, [c EXCEPT !.scopes = u.scopes])
  BY <1>3, JoinGround
<1> QED BY <1>2, <1>4

LEMMA KnownDropped ==
  ASSUME NEW x \in ConcreteSymbols, NEW s \in Seq(ConcreteSymbols)
  PROVE  DropFront(KnownSymbols(Pushed(x, s)), 1) = KnownSymbols(s)
<1> DEFINE t == Pushed(x, s)
<1>1. /\ t \in Seq(ConcreteSymbols) /\ t # <<>> /\ Tail(t) = s /\ Len(t) = Len(s) + 1
  BY PushedTop
<1>2. Len(s) \in Nat /\ IsSequence(s)
  BY SequenceOf, SequenceIs
<1>3. SubSeq(t, 2, Len(t)) = s
  <2>1. t[1] = x /\ t = Pushed(t[1], SubSeq(t, 2, Len(t))) /\ SubSeq(t, 2, Len(t)) \in Seq(ConcreteSymbols)
    BY <1>1, PushedTop, PushedFirst
  <2> DEFINE rest == SubSeq(t, 2, Len(t))
  <2>2. rest \in Seq(ConcreteSymbols) /\ t = Pushed(x, rest)
    BY <2>1
  <2> HIDE DEF rest
  <2>3. Tail(Pushed(x, rest)) = rest
    BY <2>2, PushedTop
  <2>4. rest = s
    BY <1>1, <2>2, <2>3
  <2> QED BY <2>4 DEF rest
<1> HIDE DEF t
<1> DEFINE g == GroundSymbols(t)
<1>4. Len(g) = Len(t)
  BY <1>1, GroundSymbolsIs
<1>5. 1 + 1 = 2 /\ 1 <= Len(t)
  BY <1>1, <1>2
<1>6. GroundSymbols(SubSeq(t, 1 + 1, Len(t))) = SubSeq(GroundSymbols(t), 1 + 1, Len(t))
  BY ONLY <1>1, <1>5, 1 \in Nat, RestIs
<1> HIDE DEF g
<1>7. DropFront(Stack(g, 0), 1) = Stack(SubSeq(g, 1 + 1, Len(g)), 0)
  BY StackDropped
<1>8. SubSeq(g, 1 + 1, Len(g)) = GroundSymbols(s)
  BY <1>3, <1>4, <1>5, <1>6 DEF g
<1> QED BY <1>7, <1>8 DEF KnownSymbols, g, t

Demanding(pre, y, items) ==
  /\ pre = Pushed(y, items) /\ y \in StackSymbols /\ IsSequence(items) /\ Demands(items)
  /\ \A s \in y.scopes :
       /\ y.scopes = {s} /\ s.variable \in Nat \ {0} /\ s = FromVariable(s.variable)
       /\ \A i \in 1..Len(items) : \A t \in items[i].scopes : t.variable # s.variable
  /\ \A i \in 1..Len(items) : \A t \in items[i].scopes : t.variable # 1

LEMMA DemandsRest ==
  ASSUME NEW pre, Demands(pre), pre # <<>>
  PROVE  Demanding(pre, pre[1], SubSeq(pre, 2, Len(pre)))
<1> DEFINE y == pre[1]
           items == SubSeq(pre, 2, Len(pre))
<1>1. pre \in Seq(StackSymbols)
  BY DEF Demands
<1>2. pre = Pushed(y, items) /\ y \in StackSymbols /\ items \in Seq(StackSymbols)
  BY <1>1, PushedFirst
<1>3. IsSequence(items) /\ Len(items) \in Nat
  BY <1>2, SequenceOf, SequenceIs
<1> HIDE DEF items
<1>4. Len(pre) = Len(items) + 1 /\ \A i \in 1..Len(items) : pre[i + 1] = items[i]
  BY <1>2, <1>3, PushedAt
<1>5. \A i \in 1..Len(items) : i + 1 \in 1..Len(pre) /\ 1 \in 1..Len(pre) /\ i + 1 # 1
  BY <1>3, <1>4
<1>6. 1 \in 1..Len(pre)
  BY <1>3, <1>4
<1>7. ASSUME NEW i \in 1..Len(items)
      PROVE  /\ AtMostOne(items[i].scopes)
             /\ \A s \in items[i].scopes :
                  /\ s.items = <<>> /\ s.variable \notin {0, 1}
                  /\ \A j \in 1..Len(items) : \A t \in items[j].scopes : s.variable = t.variable => i = j
  <2>1. items[i] = pre[i + 1] /\ i + 1 \in 1..Len(pre)
    BY <1>4, <1>5
  <2>2. \A s \in items[i].scopes : s.items = <<>> /\ s.variable \notin {0, 1}
    BY <2>1 DEF Demands
  <2>3. ASSUME NEW s \in items[i].scopes, NEW j \in 1..Len(items), NEW t \in items[j].scopes,
               s.variable = t.variable
        PROVE  i = j
    <3>1. items[j] = pre[j + 1] /\ j + 1 \in 1..Len(pre)
      BY <1>4, <1>5
    <3>2. i + 1 = j + 1
      BY <2>1, <2>3, <3>1 DEF Demands
    <3>3. i \in Int /\ j \in Int
      OBVIOUS
    <3> QED BY <3>2, <3>3
  <2>4. AtMostOne(items[i].scopes)
    BY <2>1 DEF Demands
  <2> QED BY <2>2, <2>3, <2>4
<1>8. Demands(items)
  BY <1>2, <1>7 DEF Demands
<1>9. ASSUME NEW s \in y.scopes
      PROVE  /\ y.scopes = {s} /\ s.variable \in Nat \ {0} /\ s = FromVariable(s.variable)
             /\ \A i \in 1..Len(items) : \A t \in items[i].scopes : t.variable # s.variable
  <2>1. AtMostOne(y.scopes) /\ s.items = <<>> /\ s.variable \notin {0, 1}
    BY <1>6 DEF Demands
  <2>2. s \in ScopeStacks
    BY <1>2 DEF StackSymbols
  <2>3. s.variable \in Nat /\ s = FromVariable(s.variable)
    BY <2>1, <2>2, ScopeStackIs DEF FromVariable
  <2>4. ASSUME NEW i \in 1..Len(items), NEW t \in items[i].scopes, t.variable = s.variable PROVE FALSE
    <3>1. items[i] = pre[i + 1] /\ i + 1 \in 1..Len(pre) /\ i + 1 # 1
      BY <1>4, <1>5
    <3>2. 1 = i + 1
      BY <1>6, <2>4, <3>1 DEF Demands
    <3> QED BY <3>1, <3>2
  <2>5. y.scopes = {s}
    BY <2>1 DEF AtMostOne
  <2> QED BY <2>1, <2>3, <2>4, <2>5
<1>10. \A i \in 1..Len(items) : \A t \in items[i].scopes : t.variable # 1
  BY <1>7
<1>11. Demanding(pre, y, items)
  BY <1>2, <1>3, <1>8, <1>9, <1>10 DEF Demanding
<1> QED BY <1>11 DEF items

-----------------------------------------------------------------------------
(* The join of the path of a query with a path made of edges: the second    *)
(* path is tried with the stacks e that its start node turns into those     *)
(* with which the first one ends.                                           *)

JoinsAs(l, d, r, b, e) ==
  /\ e \in EveryStack /\ VisitConcretely(l.end, e) = {d}
  /\ Has(r.symbolPre.items, e.symbols) /\ BindsAs(r, e, b)

LEMMA HalfOpenWhole ==
  ASSUME NEW r, Open(r), KindOf[r.start] \notin Pops
  PROVE  /\ HalfOpenPrecondition(r).symbols = Demanded(r.symbolPre.items)
         /\ HalfOpenPrecondition(r).scopes = FromVariable(1)
         /\ Demands(r.symbolPre.items)
         /\ \A i \in 1..Len(r.symbolPre.items) : \A s \in r.symbolPre.items[i].scopes : s.variable # 1
<1>1. r.scopePre = FromVariable(1)
  BY OpenIs
<1>2. Demands(r.symbolPre.items) /\ r.symbolPre = Demanded(r.symbolPre.items)
  BY DemandsIs
<1>3. HalfOpenPrecondition(r) = [symbols |-> r.symbolPre, scopes |-> r.scopePre]
  BY DEF HalfOpenPrecondition
<1>4. \A i \in 1..Len(r.symbolPre.items) : \A s \in r.symbolPre.items[i].scopes : s.variable # 1
  BY <1>2 DEF Demands
<1> HIDE DEF HalfOpenPrecondition
<1>5. HalfOpenPrecondition(r).symbols = r.symbolPre /\ HalfOpenPrecondition(r).scopes = r.scopePre
  BY <1>3
<1> QED BY <1>1, <1>2, <1>4, <1>5

LEMMA HalfOpenRest ==
  ASSUME NEW r, Open(r), StartFits(r), KindOf[r.start] \in Pops
  PROVE  LET y == r.symbolPre.items[1]
             items == SubSeq(r.symbolPre.items, 2, Len(r.symbolPre.items))
         IN  /\ Demanding(r.symbolPre.items, y, items) /\ y.symbol = SymbolOf[r.start]
             /\ HalfOpenPrecondition(r).symbols = Demanded(items)
             /\ KindOf[r.start] = "pop symbol" =>
                  y.scopes = {} /\ HalfOpenPrecondition(r).scopes = FromVariable(1)
             /\ KindOf[r.start] = "pop scoped symbol" =>
                  /\ y.scopes # {} /\ HalfOpenPrecondition(r).scopes = The(y.scopes)
                  /\ 1 \notin ScopeVariablesPost(r)
<1> DEFINE pre == r.symbolPre.items
           y == pre[1]
           items == SubSeq(pre, 2, Len(pre))
<1>1. r.scopePre = FromVariable(1)
  BY OpenIs
<1>2. Demands(pre) /\ r.symbolPre = Stack(pre, 1)
  BY DemandsIs DEF Demanded
<1>3. pre # <<>> /\ y.symbol = SymbolOf[r.start] /\ (y.scopes # {}) = (KindOf[r.start] \in Scoped)
  BY DEF StartFits
<1>4. Demanding(pre, y, items)
  BY <1>2, <1>3, DemandsRest
<1>5. DropFront(r.symbolPre, 1) = Demanded(items)
  <2> HIDE DEF pre
  <2>1. DropFront(Stack(pre, 1), 1) = Stack(SubSeq(pre, 1 + 1, Len(pre)), 1)
    BY StackDropped
  <2>2. 1 + 1 = 2
    OBVIOUS
  <2> QED BY <1>2, <2>1, <2>2 DEF Demanded
<1>6. CASE KindOf[r.start] = "pop symbol"
  <2>1. KindOf[r.start] \notin Scoped
    BY <1>6 DEF Scoped
  <2>2. y.scopes = {}
    BY <1>3, <2>1
  <2>3. HalfOpenPrecondition(r) = [symbols |-> DropFront(r.symbolPre, 1), scopes |-> r.scopePre]
    BY <2>1 DEF HalfOpenPrecondition
  <2>4. /\ HalfOpenPrecondition(r).symbols = DropFront(r.symbolPre, 1)
        /\ HalfOpenPrecondition(r).scopes = r.scopePre
    BY <2>3
  <2>5. KindOf[r.start] # "pop scoped symbol"
    BY <1>6
  <2> QED BY <1>1, <1>3, <1>4, <1>5, <2>2, <2>4, <2>5
<1>7. CASE KindOf[r.start] = "pop scoped symbol"
  <2>1. KindOf[r.start] \in Scoped
    BY <1>7 DEF Scoped
  <2>2. y.scopes # {}
    BY <1>3, <2>1
  <2>3. HalfOpenPrecondition(r) = [symbols |-> DropFront(r.symbolPre, 1), scopes |-> The(y.scopes)]
    BY <2>1 DEF HalfOpenPrecondition
  <2>4. /\ HalfOpenPrecondition(r).symbols = DropFront(r.symbolPre, 1)
        /\ HalfOpenPrecondition(r).scopes = The(y.scopes)
    BY <2>3
  <2>5. 1 \notin ScopeVariablesPost(r)
    BY <1>7 DEF StartFits
  <2>6. KindOf[r.start] # "pop symbol"
    BY <1>7
  <2> QED BY <1>3, <1>4, <1>5, <2>2, <2>4, <2>5, <2>6
<1> QED BY <1>6, <1>7 DEF Pops

LEMMA EndsAtStack ==
  ASSUME NEW l, NEW d, Ends(l, d)
  PROVE  /\ d \in EveryStack /\ l.end \in Nodes
         /\ l.symbolPost = KnownSymbols(d.symbols) /\ l.scopePost = Stack(d.scopes, 0)
         /\ d.symbols \in Seq(ConcreteSymbols) /\ d.scopes \in Seq(ExportedScopes)
         /\ d = [symbols |-> d.symbols, scopes |-> d.scopes]
         /\ \E e \in EveryStack : VisitConcretely(l.end, e) = {d}
<1>1. l \in Paths /\ d \in EveryStack /\ d \in Walk(NodesOf(l), Concrete(<<>>, <<>>))
  BY DEF Ends
<1>2. /\ NodesOf(l) \in Seq(Nodes) /\ Len(NodesOf(l)) >= 1
      /\ NodesOf(l)[Len(NodesOf(l))] = l.end
  BY <1>1, NodesOfIs
<1>3. \E e \in EveryStack : VisitConcretely(l.end, e) = {d}
  BY <1>1, <1>2, NothingIs, WalkConcrete
<1>4. l.end \in Nodes
  BY <1>1 DEF Paths
<1> QED BY <1>1, <1>3, <1>4, StacksExcept DEF Ends

LEMMA JoinPush ==
  ASSUME NEW l, NEW d, Ends(l, d), NEW r, Open(r), l.end = r.start, NEW b \in Join(l, r),
         KindOf[l.end] \in Pushes
  PROVE  \E e : JoinsAs(l, d, r, b, e)
<1>1. PICK e \in EveryStack : VisitConcretely(l.end, e) = {d}
  BY EndsAtStack
<1>2. /\ l.end \in Nodes /\ d \in EveryStack /\ l.symbolPost = KnownSymbols(d.symbols)
      /\ l.scopePost = Stack(d.scopes, 0) /\ d.symbols \in Seq(ConcreteSymbols)
  BY EndsAtStack
<1>3. e.symbols \in Seq(ConcreteSymbols) /\ e.scopes \in Seq(ExportedScopes)
  BY StacksExcept
<1>4. \E x : d.symbols = Pushed(x, e.symbols) /\ d.scopes = e.scopes
  <2>1. CASE KindOf[l.end] = "push symbol"
    <3>1. d = [symbols |-> Pushed([symbol |-> SymbolOf[l.end], scopes |-> {}], e.symbols), scopes |-> e.scopes]
      BY <1>1, <1>2, <2>1, VisitPushesPlain
    <3> QED BY <3>1
  <2>2. CASE KindOf[l.end] = "push scoped symbol"
    <3>0. ScopeOf[l.end] \in Nodes
      BY <1>1, <1>2, <2>2, VisitCases
    <3>1. d = [symbols |-> Pushed([symbol |-> SymbolOf[l.end],
                                   scopes |-> {Pushed(ScopeOf[l.end], e.scopes)}], e.symbols),
               scopes |-> e.scopes]
      BY <1>1, <1>2, <2>2, <3>0, VisitPushesScoped
    <3> QED BY <3>1
  <2> QED BY <2>1, <2>2 DEF Pushes
<1>5. PICK x : d.symbols = Pushed(x, e.symbols) /\ d.scopes = e.scopes
  BY <1>4
<1>6. x \in ConcreteSymbols
  BY <1>2, <1>3, <1>5, PushedMembers, SequenceOf
<1>7. HalfOpenPostcondition(l) = KnownSymbols(e.symbols)
  BY <1>2, <1>3, <1>5, <1>6, KnownDropped DEF HalfOpenPostcondition
<1>8. KindOf[r.start] \notin Pops
  BY DEF Pushes, Pops
<1> DEFINE items == r.symbolPre.items
<1>9. /\ HalfOpenPrecondition(r).symbols = Demanded(items)
      /\ HalfOpenPrecondition(r).scopes = FromVariable(1) /\ Demands(items)
      /\ \A i \in 1..Len(items) : \A s \in items[i].scopes : s.variable # 1
  BY <1>8, HalfOpenWhole
<1>10. l.scopePost = Stack(e.scopes, 0)
  BY <1>2, <1>5
<1> HIDE DEF items
<1>11. Joined(e.symbols, items, 1, e.scopes, b)
  BY ONLY <1>3, <1>7, <1>9, <1>10, b \in Join(l, r), 1 \in Nat \ {0}, JoinAgainst
<1>12. Has(items, e.symbols) /\ BindsAs(r, e, b)
  BY <1>11, BindsWhole DEF items
<1> QED BY <1>1, <1>12 DEF JoinsAs, items

LEMMA JoinOther ==
  ASSUME NEW l, NEW d, Ends(l, d), NEW r, Open(r), l.end = r.start, NEW b \in Join(l, r),
         KindOf[l.end] \notin Pushes \cup Pops
  PROVE  \E e : JoinsAs(l, d, r, b, e)
<1>1. PICK e \in EveryStack : VisitConcretely(l.end, e) = {d}
  BY EndsAtStack
<1>2. /\ l.end \in Nodes /\ d \in EveryStack /\ l.symbolPost = KnownSymbols(d.symbols)
      /\ l.scopePost = Stack(d.scopes, 0) /\ d.symbols \in Seq(ConcreteSymbols)
      /\ d.scopes \in Seq(ExportedScopes) /\ d = [symbols |-> d.symbols, scopes |-> d.scopes]
  BY EndsAtStack
<1>3. VisitConcretely(l.end, d) = {d}
  <2>1. CASE KindOf[l.end] = "drop scopes"
    <3>0. l.end \in Nodes /\ e \in EveryStack
      BY <1>2
    <3>4. VisitConcretely(l.end, e) = {[symbols |-> e.symbols, scopes |-> <<>>]}
      BY ONLY <2>1, <3>0, VisitCases
    <3>1. d = [symbols |-> e.symbols, scopes |-> <<>>]
      BY <1>1, <3>4
    <3>2. d.scopes = <<>>
      BY <3>1
    <3>3. VisitConcretely(l.end, d) = {[symbols |-> d.symbols, scopes |-> <<>>]}
      BY <1>2, <2>1, VisitCases
    <3> QED BY <1>2, <3>2, <3>3
  <2>2. CASE KindOf[l.end] \in {"root", "jump to", "scope"}
    <3>0. l.end \in Nodes /\ d \in EveryStack
      BY <1>2
    <3> QED BY ONLY <2>2, <3>0, VisitCases
  <2>3. KindOf[l.end] \in Kinds
    BY <1>2, KindIs
  <2> QED BY <2>1, <2>2, <2>3 DEF Kinds
<1>7. HalfOpenPostcondition(l) = KnownSymbols(d.symbols)
  BY <1>2 DEF HalfOpenPostcondition
<1>8. KindOf[r.start] \notin Pops
  OBVIOUS
<1> DEFINE items == r.symbolPre.items
<1>9. /\ HalfOpenPrecondition(r).symbols = Demanded(items)
      /\ HalfOpenPrecondition(r).scopes = FromVariable(1) /\ Demands(items)
      /\ \A i \in 1..Len(items) : \A s \in items[i].scopes : s.variable # 1
  BY <1>8, HalfOpenWhole
<1> HIDE DEF items
<1>11. Joined(d.symbols, items, 1, d.scopes, b)
  BY ONLY <1>2, <1>7, <1>9, b \in Join(l, r), 1 \in Nat \ {0}, JoinAgainst
<1>12. Has(items, d.symbols) /\ BindsAs(r, d, b)
  BY <1>2, <1>11, BindsWhole DEF items
<1> QED BY <1>2, <1>3, <1>12 DEF JoinsAs, items

-----------------------------------------------------------------------------

LEMMA OnePositive == 1 \in Nat \ {0}
OBVIOUS

LEMMA PushConcrete ==
  ASSUME NEW x \in ConcreteSymbols, NEW s \in Seq(ConcreteSymbols), NEW w \in Seq(ExportedScopes)
  PROVE  LET e == [symbols |-> Pushed(x, s), scopes |-> w]
         IN  e \in EveryStack /\ e.symbols = Pushed(x, s) /\ e.scopes = w
<1>1. Pushed(x, s) \in Seq(ConcreteSymbols)
  BY PushedTop
<1> DEFINE t == Pushed(x, s)
<1> HIDE DEF t
<1>2. [symbols |-> t, scopes |-> w] \in EveryStack
  BY <1>1 DEF EveryStack, t
<1> QED BY <1>2 DEF t

LEMMA JoinPopPlain ==
  ASSUME NEW l, NEW d, Ends(l, d), NEW r, Open(r), StartFits(r), l.end = r.start, NEW b \in Join(l, r),
         KindOf[l.end] = "pop symbol"
  PROVE  \E e : JoinsAs(l, d, r, b, e)
<1>2. /\ l.end \in Nodes /\ d \in EveryStack /\ l.symbolPost = KnownSymbols(d.symbols)
      /\ l.scopePost = Stack(d.scopes, 0) /\ d.symbols \in Seq(ConcreteSymbols)
      /\ d.scopes \in Seq(ExportedScopes) /\ d = [symbols |-> d.symbols, scopes |-> d.scopes]
  BY EndsAtStack
<1> DEFINE pre == r.symbolPre.items
           y == pre[1]
           items == SubSeq(pre, 2, Len(pre))
           x == [symbol |-> SymbolOf[l.end], scopes |-> {}]
           e == [symbols |-> Pushed(x, d.symbols), scopes |-> d.scopes]
<1>3. KindOf[r.start] \in Pops
  BY DEF Pops
<1>4. /\ Demanding(pre, y, items) /\ y.symbol = SymbolOf[r.start]
      /\ HalfOpenPrecondition(r).symbols = Demanded(items)
      /\ y.scopes = {} /\ HalfOpenPrecondition(r).scopes = FromVariable(1)
  BY <1>3, HalfOpenRest
<1>5. x \in ConcreteSymbols /\ x.symbol = SymbolOf[l.end] /\ x.scopes = {}
  <2>1. SymbolOf[l.end] \in {SymbolOf[m] : m \in DOMAIN SymbolOf}
    BY <1>2, <1>3, KindIs
  <2> QED BY <2>1 DEF ConcreteSymbols, AtMostOne
<1> HIDE DEF x
<1>6. e \in EveryStack /\ e.symbols = Pushed(x, d.symbols) /\ e.scopes = d.scopes
  BY <1>2, <1>5, PushConcrete
<1> HIDE DEF e, items, y, pre
<1>7. VisitConcretely(l.end, e) = {d}
  <2>1. VisitConcretely(l.end, e) = IF x.symbol = SymbolOf[l.end] /\ x.scopes = {}
                                    THEN {[symbols |-> d.symbols, scopes |-> e.scopes]} ELSE {}
    BY ONLY <1>2, <1>5, <1>6, KindOf[l.end] = "pop symbol", VisitPopsPlain
  <2> QED BY <1>2, <1>5, <1>6, <2>1
<1>8. HalfOpenPostcondition(l) = KnownSymbols(d.symbols)
  BY <1>2 DEF HalfOpenPostcondition, Pushes
<1>9. /\ IsSequence(items) /\ Demands(items) /\ pre = Pushed(y, items)
      /\ \A i \in 1..Len(items) : \A s \in items[i].scopes : s.variable # 1
  BY <1>4 DEF Demanding
<1>0. 1 \in Nat \ {0}
  BY OnePositive
<1>10. Joined(d.symbols, items, 1, d.scopes, b)
  BY ONLY <1>0, <1>2, <1>4, <1>8, <1>9, b \in Join(l, r), JoinAgainst
<1>11. Has(pre, e.symbols) /\ BindsAs(r, e, b)
  <2>1. /\ r.symbolPre.items = Pushed(y, items) /\ IsSequence(d.symbols)
        /\ x.symbol = y.symbol /\ ((x.scopes = {}) <=> (y.scopes = {}))
        /\ Attaches(x, y, 1, d.scopes)
        /\ 1 \in ScopeVariablesPost(r) => 1 = 1 /\ d.scopes = e.scopes
    BY <1>2, <1>4, <1>5, <1>6, <1>9, SequenceOf DEF pre, Attaches
  <2>2. Has(r.symbolPre.items, e.symbols) /\ BindsAs(r, e, b)
    BY ONLY <1>6, <1>9, <1>10, <2>1, Open(r), BindsPushed
  <2> QED BY <2>2 DEF pre
<1> QED BY <1>6, <1>7, <1>11 DEF JoinsAs, pre

LEMMA JoinPopScoped ==
  ASSUME NEW l, NEW d, Ends(l, d), NEW r, Open(r), StartFits(r), l.end = r.start, NEW b \in Join(l, r),
         KindOf[l.end] = "pop scoped symbol"
  PROVE  \E e : JoinsAs(l, d, r, b, e)
<1>2. /\ l.end \in Nodes /\ d \in EveryStack /\ l.symbolPost = KnownSymbols(d.symbols)
      /\ l.scopePost = Stack(d.scopes, 0) /\ d.symbols \in Seq(ConcreteSymbols)
      /\ d.scopes \in Seq(ExportedScopes) /\ d = [symbols |-> d.symbols, scopes |-> d.scopes]
  BY EndsAtStack
<1> DEFINE pre == r.symbolPre.items
           y == pre[1]
           items == SubSeq(pre, 2, Len(pre))
           x == [symbol |-> SymbolOf[l.end], scopes |-> {d.scopes}]
           e == [symbols |-> Pushed(x, d.symbols), scopes |-> <<>>]
<1>3. KindOf[r.start] \in Pops
  BY DEF Pops
<1>4. /\ Demanding(pre, y, items) /\ y.symbol = SymbolOf[r.start]
      /\ HalfOpenPrecondition(r).symbols = Demanded(items)
      /\ y.scopes # {} /\ HalfOpenPrecondition(r).scopes = The(y.scopes)
      /\ 1 \notin ScopeVariablesPost(r)
  BY <1>3, HalfOpenRest
<1>5. x \in ConcreteSymbols /\ x.symbol = SymbolOf[l.end] /\ x.scopes = {d.scopes}
  <2>1. SymbolOf[l.end] \in {SymbolOf[m] : m \in DOMAIN SymbolOf}
    BY <1>2, <1>3, KindIs
  <2> QED BY <1>2, <2>1 DEF ConcreteSymbols, AtMostOne
<1> HIDE DEF x
<1>6. e \in EveryStack /\ e.symbols = Pushed(x, d.symbols)
  <2> DEFINE none == <<>>
  <2>1. none \in Seq(ExportedScopes)
    BY EmptySeq
  <2> HIDE DEF none
  <2>2. /\ [symbols |-> Pushed(x, d.symbols), scopes |-> none] \in EveryStack
        /\ [symbols |-> Pushed(x, d.symbols), scopes |-> none].symbols = Pushed(x, d.symbols)
    BY <1>2, <1>5, <2>1, PushConcrete
  <2> QED BY <2>2 DEF none
<1> HIDE DEF e, items, y, pre
<1>7. VisitConcretely(l.end, e) = {d}
  <2>1. VisitConcretely(l.end, e) = IF x.symbol = SymbolOf[l.end]
                                    THEN {[symbols |-> d.symbols, scopes |-> t] : t \in x.scopes} ELSE {}
    BY ONLY <1>2, <1>5, <1>6, KindOf[l.end] = "pop scoped symbol", VisitPopsScoped
  <2> QED BY <1>2, <1>5, <2>1
<1>8. HalfOpenPostcondition(l) = KnownSymbols(d.symbols)
  BY <1>2 DEF HalfOpenPostcondition, Pushes
<1>9. PICK s \in y.scopes : y.scopes = {s}
  BY <1>4 DEF Demanding
<1> DEFINE v == s.variable
<1>10. /\ IsSequence(items) /\ Demands(items) /\ pre = Pushed(y, items)
       /\ v \in Nat \ {0} /\ s = FromVariable(v)
       /\ \A i \in 1..Len(items) : \A t \in items[i].scopes : t.variable # v
  BY <1>4 DEF Demanding
<1>11. HalfOpenPrecondition(r).scopes = FromVariable(v)
  <2>1. The(y.scopes) = s
    BY <1>9, TheOne
  <2> QED BY <1>4, <1>10, <2>1
<1>12. Joined(d.symbols, items, v, d.scopes, b)
  <2> HIDE DEF v
  <2> QED BY ONLY <1>2, <1>4, <1>8, <1>10, <1>11, b \in Join(l, r), JoinAgainst
<1>13. Has(pre, e.symbols) /\ BindsAs(r, e, b)
  <2>1. /\ r.symbolPre.items = Pushed(y, items) /\ IsSequence(d.symbols)
        /\ x.symbol = y.symbol /\ ((x.scopes = {}) <=> (y.scopes = {}))
        /\ Attaches(x, y, v, d.scopes)
        /\ 1 \in ScopeVariablesPost(r) => v = 1 /\ d.scopes = e.scopes
    BY <1>2, <1>4, <1>5, <1>9, <1>10, SequenceOf DEF pre, Attaches
  <2> HIDE DEF v
  <2>3. e \in EveryStack /\ e.symbols = Pushed(x, d.symbols) /\ IsSequence(items) /\ Open(r)
    BY <1>6, <1>10
  <2>2. Has(r.symbolPre.items, e.symbols) /\ BindsAs(r, e, b)
    BY ONLY <1>12, <2>1, <2>3, BindsPushed
  <2> QED BY <2>2 DEF pre
<1> QED BY <1>6, <1>7, <1>13 DEF JoinsAs, pre

LEMMA JoinFits ==
  ASSUME NEW l, NEW d, Ends(l, d), NEW r, Open(r), StartFits(r), l.end = r.start, NEW b \in Join(l, r)
  PROVE  \E e : JoinsAs(l, d, r, b, e)
BY JoinPush, JoinOther, JoinPopPlain, JoinPopScoped DEF Pops

-----------------------------------------------------------------------------
(* The concatenation of a query's path and a path made of edges. *)

LEMMA NodesJoined ==
  ASSUME NEW l \in Paths, NEW r \in Paths, NEW q \in Paths,
         q.edges = l.edges \o r.edges, q.end = r.end, l.end = NodesOf(r)[1]
  PROVE  NodesOf(q) = NodesOf(l) \o Tail(NodesOf(r)) /\ NodesOf(q)[1] = NodesOf(l)[1]
<1> DEFINE s == NodesOf(l)
           t == NodesOf(r)
           u == NodesOf(q)
           j == s \o Tail(t)
           k == Len(l.edges)
           h == Len(r.edges)
<1>1. /\ IsSequence(s) /\ Len(s) = k + 1 /\ k \in Nat /\ s[k + 1] = l.end
      /\ \A i \in 1..k : s[i] = l.edges[i].source
  BY NodesOfIs
<1>2. /\ IsSequence(t) /\ Len(t) = h + 1 /\ h \in Nat /\ t[h + 1] = r.end
      /\ \A i \in 1..h : t[i] = r.edges[i].source
  BY NodesOfIs
<1>3. IsSequence(l.edges) /\ IsSequence(r.edges)
  BY SequenceOf DEF Paths
<1>4. /\ Len(q.edges) = k + h /\ \A i \in 1..k : q.edges[i] = l.edges[i]
      /\ \A i \in 1..h : q.edges[k + i] = r.edges[i]
  <2> DEFINE a == l.edges
             b == r.edges
  <2>1. IsSequence(a) /\ IsSequence(b)
    BY <1>3
  <2>2. q.edges = a \o b
    OBVIOUS
  <2> HIDE DEF a, b
  <2>3. /\ IsSequence(a \o b) /\ Len(a \o b) = Len(a) + Len(b)
        /\ \A i \in 1..Len(a) : (a \o b)[i] = a[i]
        /\ \A i \in 1..Len(b) : (a \o b)[Len(a) + i] = b[i]
    BY ONLY <2>1, ConcatIs
  <2> QED BY <2>2, <2>3 DEF a, b
<1>5. /\ IsSequence(u) /\ Len(u) = k + h + 1 /\ u[k + h + 1] = r.end
      /\ \A i \in 1..k + h : u[i] = q.edges[i].source
  <2>1. /\ IsSequence(u) /\ Len(u) = Len(q.edges) + 1 /\ u[Len(u)] = q.end
        /\ \A i \in 1..Len(q.edges) : u[i] = q.edges[i].source
    BY NodesOfIs
  <2> HIDE DEF u
  <2> QED BY <1>4, <2>1
<1>6. s[Len(s)] = t[1] /\ Len(s) >= 1 /\ Len(t) >= 1
  BY <1>1, <1>2
<1> HIDE DEF s, t, u
<1>7. PICK m \in Nat :
        /\ Len(s) = m + 1 /\ IsSequence(j) /\ Len(j) = m + Len(t)
        /\ \A i \in 1..Len(s) : j[i] = s[i]
        /\ \A i \in 1..Len(t) : j[m + i] = t[i]
  <2>1. IsSequence(s) /\ IsSequence(t)
    BY <1>1, <1>2
  <2> QED BY ONLY <1>6, <2>1, JoinedIs
<1> HIDE DEF j, k, h
<1>8. /\ Len(j) = k + h + 1 /\ \A i \in 1..k + 1 : j[i] = s[i]
      /\ \A i \in 1..h + 1 : j[k + i] = t[i]
  <2>1. m = k
    BY <1>1, <1>7
  <2>2. Len(t) = h + 1 /\ Len(s) = k + 1 /\ k \in Nat /\ h \in Nat
    BY <1>1, <1>2
  <2> QED BY <1>7, <2>1, <2>2
<1>9. \A i \in 1..k + h + 1 : u[i] = j[i]
  <2> TAKE i \in 1..k + h + 1
  <2>1. CASE i \in 1..k
    <3>1. i \in 1..k + h /\ i \in 1..k + 1
      BY <1>1, <1>2, <2>1
    <3>2. u[i] = q.edges[i].source /\ q.edges[i] = l.edges[i]
      BY <1>4, <1>5, <2>1, <3>1
    <3>3. j[i] = s[i] /\ s[i] = l.edges[i].source
      BY <1>1, <1>8, <2>1, <3>1
    <3> QED BY <3>2, <3>3
  <2>2. CASE i \in k + 1..k + h
    <3>1. i - k \in 1..h /\ i - k \in 1..h + 1 /\ k + (i - k) = i /\ i \in 1..k + h
      BY <1>1, <1>2, <2>2
    <3> DEFINE x == i - k
    <3> HIDE DEF x
    <3>2. x \in 1..h /\ x \in 1..h + 1 /\ k + x = i
      BY <3>1 DEF x
    <3>3. u[i] = q.edges[i].source /\ q.edges[k + x] = r.edges[x]
      BY <1>4, <1>5, <3>1, <3>2
    <3>4. j[k + x] = t[x] /\ t[x] = r.edges[x].source
      BY <1>2, <1>8, <3>2
    <3> QED BY <3>2, <3>3, <3>4
  <2>3. CASE i = k + h + 1
    <3>1. h + 1 \in 1..h + 1 /\ k + (h + 1) = i
      BY <1>1, <1>2, <2>3
    <3>2. j[i] = t[h + 1]
      BY <1>8, <3>1
    <3> QED BY <1>2, <1>5, <2>3, <3>2
  <2> QED BY <1>1, <1>2, <2>1, <2>2, <2>3
<1>10. u = j
  BY <1>5, <1>7, <1>8, <1>9, SameSequence
<1>11. 1 \in 1..k + 1
  BY <1>1
<1>12. j[1] = s[1]
  BY <1>8, <1>11
<1> QED BY <1>10, <1>12 DEF s, t, u, j

PathOf(start, end, edges, symbolPost, scopePost) ==
  [start |-> start, end |-> end, edges |-> edges, symbolPre |-> EmptyStack, symbolPost |-> symbolPost,
   scopePre |-> EmptyStack, scopePost |-> scopePost]

LEMMA EmptySubstituted ==
  ASSUME NEW S, NEW b \in Bindings(S)
  PROVE  Substitute(EmptyStack, b) = EmptyStack
<1>1. Bound(b, 0) = {}
  BY ZeroUnbound
<1>2. Substitute(Stack(<<>>, 0), b) = Stack(<<>> \o <<>>, 0)
  BY <1>1, SubstitutedEmpty
<1>3. <<>> \o <<>> = <<>>
  OBVIOUS
<1> QED BY <1>2, <1>3 DEF EmptyStack

LEMMA NoSymbolsSubstituted ==
  ASSUME NEW v, NEW b
  PROVE  SubstituteSymbols(Stack(<<>>, v), b) = Substitute(Stack(<<>>, v), b.symbols)
<1> DEFINE st == Stack(<<>>, v)
           none == st.items
           F(i) == ScopedSymbol(none[i].symbol, {Substitute(s, b.scopes) : s \in none[i].scopes})
           all == [i \in DOMAIN none |-> F(i)]
<1>1. none = <<>> /\ st.variable = v
  BY DEF Stack
<1>2. SubstituteSymbols(st, b) = Substitute(Stack(all, st.variable), b.symbols)
  BY DEF SubstituteSymbols
<1>3. DOMAIN none = {}
  BY <1>1, EmptyIs
<1>4. all = <<>>
  <2>1. DOMAIN all = {} /\ all = [i \in {} |-> F(i)]
    BY <1>3
  <2> HIDE DEF F, none
  <2>2. Len(<<>>) = 0
    BY EmptyIs
  <2>3. 1..0 = {}
    OBVIOUS
  <2>4. all = [i \in 1..0 |-> all[i]]
    BY <2>1, <2>3
  <2> HIDE DEF all
  <2>5. IsSequence(all) /\ Len(all) = 0
    BY <2>4, FunctionIsSequence
  <2>6. IsSequence(<<>>)
    BY EmptyIs
  <2>7. \A i \in 1..Len(all) : all[i] = <<>>[i]
    BY <2>3, <2>5
  <2> QED BY ONLY <2>2, <2>5, <2>6, <2>7, SameSequence
<1> HIDE DEF all, none
<1>5. SubstituteSymbols(st, b) = Substitute(Stack(<<>>, v), b.symbols)
  BY <1>1, <1>2, <1>4
<1> QED BY <1>5

LEMMA EmptySymbolsSubstituted ==
  ASSUME NEW b \in BothBindings
  PROVE  SubstituteSymbols(EmptyStack, b) = EmptyStack
<1>1. b.symbols \in Bindings(SymbolStacks)
  BY DEF BothBindings
<1>2. Substitute(EmptyStack, b.symbols) = EmptyStack
  BY <1>1, EmptySubstituted
<1>3. SubstituteSymbols(Stack(<<>>, 0), b) = Substitute(Stack(<<>>, 0), b.symbols)
  BY NoSymbolsSubstituted
<1> QED BY <1>2, <1>3 DEF EmptyStack

LEMMA AppliedIs ==
  ASSUME NEW l \in Paths, l.symbolPre = EmptyStack, l.scopePre = EmptyStack, NEW r, NEW b \in BothBindings
  PROVE  ApplyBindings([l EXCEPT !.symbolPost = r.symbolPost, !.scopePost = r.scopePost,
                                 !.end = r.end, !.edges = @ \o r.edges], b)
           = PathOf(l.start, r.end, l.edges \o r.edges, SubstituteSymbols(r.symbolPost, b),
                    Substitute(r.scopePost, b.scopes))
<1> DEFINE long == [l EXCEPT !.symbolPost = r.symbolPost, !.scopePost = r.scopePost,
                             !.end = r.end, !.edges = @ \o r.edges]
           edges == l.edges \o r.edges
           post == r.symbolPost
           scopes == r.scopePost
           end == r.end
<1>1. long = PathOf(l.start, end, edges, post, scopes)
  <2>1. long = [l EXCEPT !.symbolPost = post, !.scopePost = scopes, !.end = end, !.edges = edges]
    OBVIOUS
  <2> HIDE DEF long, edges, post, scopes, end
  <2> QED BY <2>1 DEF Paths, PathOf
<1>2. SubstituteSymbols(EmptyStack, b) = EmptyStack
  BY EmptySymbolsSubstituted
<1>3. Substitute(EmptyStack, b.scopes) = EmptyStack
  BY EmptySubstituted DEF BothBindings
<1> DEFINE x(st) == SubstituteSymbols(st, b)
           y(st) == Substitute(st, b.scopes)
<1>4. x(EmptyStack) = EmptyStack /\ y(EmptyStack) = EmptyStack
  BY <1>2, <1>3
<1>5. ApplyBindings(long, b) =
        [long EXCEPT !.symbolPre = x(@), !.symbolPost = x(@), !.scopePre = y(@), !.scopePost = y(@)]
  BY DEF ApplyBindings
<1>6. ApplyBindings(long, b) =
        [long EXCEPT !.symbolPre = x(long.symbolPre), !.symbolPost = x(long.symbolPost),
                     !.scopePre = y(long.scopePre), !.scopePost = y(long.scopePost)]
  BY <1>5
<1>7. /\ long.symbolPre = EmptyStack /\ long.symbolPost = post /\ long.scopePre = EmptyStack
      /\ long.scopePost = scopes
  <2> HIDE DEF long, edges, post, scopes, end
  <2> QED BY <1>1 DEF PathOf
<1> DEFINE xp == x(post)
           yp == y(scopes)
<1>8. ApplyBindings(long, b) =
        [long EXCEPT !.symbolPre = EmptyStack, !.symbolPost = xp, !.scopePre = EmptyStack, !.scopePost = yp]
  <2> HIDE DEF x, y, long, edges, end
  <2> QED BY <1>4, <1>6, <1>7
<1> HIDE DEF long, edges, post, scopes, end, x, y, xp, yp
<1>9. ApplyBindings(long, b) = PathOf(l.start, end, edges, xp, yp)
  BY ONLY <1>1, <1>8 DEF PathOf
<1> QED BY <1>9 DEF long, edges, post, scopes, end, x, y, xp, yp

-----------------------------------------------------------------------------

(* The path of a query that may still end with a jump. *)
Follows(p, c) ==
  /\ p \in Paths /\ c \in EveryStack
  /\ KindOf[p.start] \in Pushes /\ NodesOf(p)[1] = p.start
  /\ p.symbolPre = EmptyStack /\ p.scopePre = EmptyStack
  /\ Walk(NodesOf(p), Concrete(<<>>, <<>>)) = {c}
  /\ p.symbolPost = KnownSymbols(c.symbols) /\ p.scopePost = Stack(c.scopes, 0)

LEMMA PathOfTyped ==
  ASSUME NEW start \in Nodes, NEW end \in Nodes, NEW edges \in Seq(PathEdges), NEW c \in EveryStack
  PROVE  PathOf(start, end, edges, KnownSymbols(c.symbols), Stack(c.scopes, 0)) \in Paths
<1> DEFINE x == KnownSymbols(c.symbols)
           y == Stack(c.scopes, 0)
<1>1. c.symbols \in Seq(ConcreteSymbols) /\ c.scopes \in Seq(ExportedScopes)
  BY ConcreteIs
<1>2. x \in SymbolStacks
  <2>1. GroundSymbols(c.symbols) \in Seq(StackSymbols)
    BY <1>1, GroundSymbolsIs
  <2> QED BY <2>1, StackMade DEF KnownSymbols
<1>3. y \in ScopeStacks
  BY <1>1, StackMade
<1>4. EmptyStack \in SymbolStacks /\ EmptyStack \in ScopeStacks
  BY StacksOfIs
<1> DEFINE e == EmptyStack
<1> HIDE DEF x, y, e
<1>5. [start |-> start, end |-> end, edges |-> edges, symbolPre |-> e, symbolPost |-> x,
       scopePre |-> e, scopePost |-> y] \in Paths
  BY <1>2, <1>3, <1>4 DEF Paths, PathEdges, e
<1> QED BY <1>5 DEF PathOf, e, x, y

Following(l, r, b) ==
  ApplyBindings([l EXCEPT !.symbolPost = r.symbolPost, !.scopePost = r.scopePost,
                          !.end = r.end, !.edges = @ \o r.edges], b)

LEMMA ConcatFollows ==
  ASSUME NEW l, NEW d, Ends(l, d), NEW r, MadeOfEdges(r, EveryStack), l.end = r.start,
         NEW b, NEW e, JoinsAs(l, d, r, b, e)
  PROVE  Follows(Following(l, r, b), ResultOf(r, e))
<1> DEFINE q == Following(l, r, b)
           c == ResultOf(r, e)
           nothing == Concrete(<<>>, <<>>)
<1>1. /\ l \in Paths /\ l.symbolPre = EmptyStack /\ l.scopePre = EmptyStack
      /\ KindOf[l.start] \in Pushes /\ NodesOf(l)[1] = l.start
      /\ Walk(NodesOf(l), nothing) = {d}
  BY DEF Ends
<1>2. /\ Open(r) /\ r \in Paths /\ NodesOf(r)[1] = r.start /\ Means(r, EveryStack)
  BY OpenIs DEF MadeOfEdges, StartFits
<1>3. /\ e \in EveryStack /\ VisitConcretely(l.end, e) = {d}
      /\ Has(r.symbolPre.items, e.symbols) /\ BindsAs(r, e, b)
  BY DEF JoinsAs
<1>4. /\ SubstituteSymbols(r.symbolPost, b) = KnownSymbols(c.symbols)
      /\ Substitute(r.scopePost, b.scopes) = Stack(c.scopes, 0)
  BY <1>2, <1>3, ResultSubstituted
<1>5. c \in EveryStack
  BY <1>2, <1>3, ResultTyped
<1>6. ApplyPath(r, e) = {c}
  BY <1>2, <1>3, ApplyIs
<1> HIDE DEF c
<1>7. q = PathOf(l.start, r.end, l.edges \o r.edges, KnownSymbols(c.symbols), Stack(c.scopes, 0))
  <2>1. b \in BothBindings
    BY <1>3 DEF BindsAs
  <2>2. q = PathOf(l.start, r.end, l.edges \o r.edges, SubstituteSymbols(r.symbolPost, b),
                   Substitute(r.scopePost, b.scopes))
    BY <1>1, <2>1, AppliedIs DEF Following
  <2> HIDE DEF q
  <2> QED BY <1>4, <2>2
<1> HIDE DEF q
<1> DEFINE edges == l.edges \o r.edges
<1>8. l.start \in Nodes /\ r.end \in Nodes /\ edges \in Seq(PathEdges)
  <2>1. l.edges \in Seq(PathEdges) /\ r.edges \in Seq(PathEdges)
    BY <1>1, <1>2 DEF Paths, PathEdges
  <2>2. l.start \in Nodes /\ r.end \in Nodes
    BY <1>1, <1>2 DEF Paths
  <2> QED BY <2>1, <2>2, ConcatProperties
<1>9. /\ q.start = l.start /\ q.end = r.end /\ q.edges = edges
      /\ q.symbolPre = EmptyStack /\ q.scopePre = EmptyStack
      /\ q.symbolPost = KnownSymbols(c.symbols) /\ q.scopePost = Stack(c.scopes, 0)
  <2> DEFINE y == KnownSymbols(c.symbols)
             z == Stack(c.scopes, 0)
  <2>1. q = PathOf(l.start, r.end, edges, y, z)
    BY <1>7
  <2> HIDE DEF y, z, edges
  <2>2. /\ q.start = l.start /\ q.end = r.end /\ q.edges = edges /\ q.symbolPre = EmptyStack
        /\ q.symbolPost = y /\ q.scopePre = EmptyStack /\ q.scopePost = z
    BY ONLY <2>1 DEF PathOf
  <2> QED BY <2>2 DEF y, z
<1>11. q.edges = l.edges \o r.edges
  BY <1>9
<1> HIDE DEF edges
<1>10. q \in Paths
  BY <1>5, <1>7, <1>8, PathOfTyped DEF edges
<1>12. l.end = NodesOf(r)[1]
  BY <1>2
<1>13. NodesOf(q) = NodesOf(l) \o Tail(NodesOf(r)) /\ NodesOf(q)[1] = NodesOf(l)[1]
  BY ONLY <1>1, <1>2, <1>9, <1>10, <1>11, <1>12, NodesJoined
<1>14. Walk(NodesOf(q), nothing) = {c}
  <2> DEFINE s == NodesOf(l)
             t == NodesOf(r)
  <2>1. IsSequence(s) /\ Len(s) >= 1 /\ IsSequence(t) /\ Len(t) >= 1 /\ s[Len(s)] = t[1]
    BY <1>1, <1>2, <1>12, NodesOfIs
  <2>2. VisitConcretely(t[1], e) = {d} /\ Walk(s, nothing) = {d}
    BY <1>1, <1>3, <1>12
  <2> HIDE DEF s, t, nothing
  <2>3. Walk(s \o Tail(t), nothing) = Walk(t, e)
    BY ONLY <2>1, <2>2, WalkJoined
  <2>4. Walk(t, e) = ApplyPath(r, e)
    BY <1>2, <1>3 DEF Means, t
  <2> QED BY <1>6, <1>13, <2>3, <2>4 DEF s, t
<1> HIDE DEF nothing
<1>15. KindOf[q.start] \in Pushes /\ NodesOf(q)[1] = q.start
  BY <1>1, <1>9, <1>13
<1>16. Follows(q, c)
  BY ONLY <1>5, <1>9, <1>10, <1>14, <1>15 DEF Follows, nothing
<1> QED BY <1>16 DEF q, c

LEMMA FollowsJump ==
  ASSUME NEW q, NEW c, Follows(q, c), KindOf[q.end] = "jump to",
         NEW n \in ExportedScopes, NEW s \in Seq(ExportedScopes), c.scopes = Pushed(n, s),
         NEW x, x = PathOf(q.start, n, Append(q.edges, PathEdge(q.end, 0)), q.symbolPost, Stack(s, 0))
  PROVE  Ends(x, Concrete(c.symbols, s))
<1> DEFINE f == Concrete(c.symbols, s)
           e == PathEdge(q.end, 0)
           edges == Append(q.edges, e)
           nothing == Concrete(<<>>, <<>>)
<1>1. /\ q \in Paths /\ c \in EveryStack /\ KindOf[q.start] \in Pushes /\ NodesOf(q)[1] = q.start
      /\ Walk(NodesOf(q), nothing) = {c} /\ q.symbolPost = KnownSymbols(c.symbols)
  BY DEF Follows
<1>2. n \in Nodes /\ KindOf[n] = "scope"
  BY ExportedIs
<1>3. f \in EveryStack /\ f.symbols = c.symbols /\ f.scopes = s
  <2>1. c.symbols \in Seq(ConcreteSymbols)
    BY <1>1, ConcreteIs
  <2> QED BY <2>1 DEF EveryStack, Concrete
<1>4. q.start \in Nodes /\ q.end \in Nodes /\ q.edges \in Seq(PathEdges) /\ e \in PathEdges /\ e.source = q.end
  BY <1>1 DEF Paths, PathEdges, PathEdge
<1> HIDE DEF f, e
<1>5. edges \in Seq(PathEdges)
  BY <1>4, AppendProperties
<1>6. x = PathOf(q.start, n, edges, KnownSymbols(f.symbols), Stack(f.scopes, 0))
  BY <1>1, <1>3 DEF e
<1> HIDE DEF edges
<1>7. x \in Paths
  BY <1>2, <1>3, <1>4, <1>5, <1>6, PathOfTyped
<1>8. /\ x.start = q.start /\ x.end = n /\ x.edges = edges /\ x.symbolPre = EmptyStack
      /\ x.symbolPost = KnownSymbols(f.symbols) /\ x.scopePre = EmptyStack /\ x.scopePost = Stack(f.scopes, 0)
  <2> DEFINE y == KnownSymbols(f.symbols)
             z == Stack(f.scopes, 0)
  <2>1. x = PathOf(q.start, n, edges, y, z)
    BY <1>6
  <2> HIDE DEF y, z
  <2>2. /\ x.start = q.start /\ x.end = n /\ x.edges = edges /\ x.symbolPre = EmptyStack
        /\ x.symbolPost = y /\ x.scopePre = EmptyStack /\ x.scopePost = z
    BY ONLY <2>1 DEF PathOf
  <2> QED BY <2>2 DEF y, z
<1>9. NodesOf(x) = Append(NodesOf(q), n) /\ NodesOf(x)[1] = NodesOf(q)[1]
  BY <1>1, <1>4, <1>7, <1>8, NodesLonger DEF edges
<1>10. Walk(NodesOf(x), nothing) = {f}
  <2> DEFINE t == NodesOf(q)
  <2>1. IsSequence(t) /\ Len(t) >= 1 /\ t[Len(t)] = q.end
    BY <1>1, NodesOfIs
  <2> HIDE DEF t, nothing
  <2>2. \A y : y \in Walk(Append(t, n), nothing) <=>
                 \E d \in Walk(t, nothing) : \E l \in LeaveTo(t[Len(t)], n, d) : y \in VisitConcretely(n, l)
    BY <2>1, WalkOver
  <2>3. LeaveTo(q.end, n, c) = {f}
    <3>1. LeavesWith(q.end, n, c, s)
      BY <1>1, LeaveToTop
    <3> QED BY <3>1 DEF LeavesWith, f
  <2>4. VisitConcretely(n, f) = {f}
    BY <1>2, <1>3, VisitCases
  <2>5. Walk(t, nothing) = {c}
    BY <1>1 DEF t
  <2>6. \A y : y \in Walk(Append(t, n), nothing) <=> y \in {f}
    BY <2>1, <2>2, <2>3, <2>4, <2>5
  <2>7. Walk(Append(t, n), nothing) = {f}
    <3> DEFINE w == Walk(Append(t, n), nothing)
    <3>1. \A y : y \in w <=> y \in {f}
      BY <2>6
    <3> HIDE DEF w
    <3>2. w = {f}
      BY <3>1
    <3> QED BY <3>2 DEF w
  <2> QED BY <1>9, <2>7 DEF t
<1> HIDE DEF nothing
<1>11. /\ KindOf[x.start] \in Pushes /\ KindOf[x.end] # "jump to" /\ NodesOf(x)[1] = x.start
  BY <1>1, <1>2, <1>8, <1>9
<1>12. Ends(x, f)
  BY ONLY <1>3, <1>7, <1>8, <1>10, <1>11 DEF Ends, nothing
<1> QED BY <1>12 DEF f

-----------------------------------------------------------------------------

LEMMA FollowsResolved ==
  ASSUME NEW q, NEW c, Follows(q, c), NEW x \in ResolveFromPostcondition(q)
  PROVE  \E f : Ends(x, f)
<1>1. /\ q \in Paths /\ c \in EveryStack /\ q.scopePost = Stack(c.scopes, 0)
      /\ q.symbolPre = EmptyStack /\ q.scopePre = EmptyStack
  BY DEF Follows
<1>2. CASE KindOf[q.end] # "jump to"
  <2>1. x = q
    BY <1>2 DEF ResolveFromPostcondition
  <2>2. Ends(x, c)
    BY <1>2, <2>1 DEF Ends, Follows
  <2> QED BY <2>2
<1>3. CASE KindOf[q.end] = "jump to"
  <2> DEFINE items == c.scopes
             n == items[1]
             s == SubSeq(items, 2, Len(items))
             st == Stack(items, 0)
             e == PathEdge(q.end, 0)
             edges == Append(q.edges, e)
  <2>1. items \in Seq(ExportedScopes)
    BY <1>1, ConcreteIs
  <2>2. st # EmptyStack
    BY <1>1, <1>3 DEF ResolveFromPostcondition
  <2>3. items # <<>>
    BY <2>2 DEF EmptyStack
  <2> HIDE DEF items
  <2>4. items = Pushed(n, s) /\ n \in ExportedScopes /\ s \in Seq(ExportedScopes)
    BY <2>1, <2>3, PushedFirst
  <2>5. st.items = items
    BY DEF Stack
  <2>6. DropFront(st, 1) = Stack(s, 0)
    <3>1. DropFront(Stack(items, 0), 1) = Stack(SubSeq(items, 1 + 1, Len(items)), 0)
      BY ONLY StackDropped
    <3>2. 1 + 1 = 2
      OBVIOUS
    <3> QED BY <3>1, <3>2
  <2>7. q.scopePost = st
    BY <1>1 DEF items
  <2> HIDE DEF s, st
  <2>8. x = [q EXCEPT !.end = n, !.scopePost = DropFront(st, 1), !.edges = edges]
    <3>1. x = [q EXCEPT !.end = q.scopePost.items[1], !.scopePost = DropFront(@, 1),
                        !.edges = Append(@, PathEdge(q.end, 0))]
      BY <1>3, <2>2, <2>3, <2>5, <2>7 DEF ResolveFromPostcondition, CanMatchEmpty
    <3> QED BY <2>5, <2>7, <3>1
  <2> DEFINE drop == DropFront(st, 1)
  <2> HIDE DEF n, edges, drop
  <2>9. x = PathOf(q.start, n, edges, q.symbolPost, drop)
    BY <1>1, <2>8 DEF PathOf, Paths, drop
  <2>10. x = PathOf(q.start, n, Append(q.edges, PathEdge(q.end, 0)), q.symbolPost, Stack(s, 0))
    BY <2>6, <2>9 DEF edges, drop
  <2>11. c.scopes = Pushed(n, s)
    BY <2>4 DEF items
  <2>12. Ends(x, Concrete(c.symbols, s))
    BY ONLY <1>3, <2>4, <2>10, <2>11, Follows(q, c), FollowsJump
  <2> QED BY <2>12
<1> QED BY <1>2, <1>3

(* A stored path that is appended to the path of a query. *)
LEMMA PathAppended ==
  ASSUME NEW p, OfQuery(p), NEW r, MadeOfEdges(r, EveryStack), r.start = p.end,
         NEW x \in AppendPath(r, p)
  PROVE  OfQuery(x)
<1>1. PICK d : Ends(p, d)
  BY OfQueryIs
<1>2. ResolveToNode(r.start, p) = {p}
  <2>1. KindOf[p.end] # "jump to"
    BY <1>1 DEF Ends
  <2> QED BY <2>1 DEF ResolveToNode
<1>3. OffsetBeyond(p, r) = p
  BY <1>1, OffsetNothing
<1>4. x \in Concatenate(p, r)
  BY <1>2, <1>3 DEF AppendPath
<1>5. PICK b \in Join(p, r) : x \in ResolveFromPostcondition(Following(p, r, b))
  BY <1>4 DEF Concatenate, Following
<1>6. PICK e : JoinsAs(p, d, r, b, e)
  <2>1. Open(r) /\ StartFits(r) /\ p.end = r.start
    BY DEF MadeOfEdges
  <2> QED BY <1>1, <2>1, JoinFits
<1>7. Follows(Following(p, r, b), ResultOf(r, e))
  BY <1>1, <1>6, ConcatFollows
<1>8. \E f : Ends(x, f)
  BY <1>5, <1>7, FollowsResolved
<1> QED BY <1>8, OfQueryIs

-----------------------------------------------------------------------------
(* The path with which a query starts. *)

NothingBound == Bind(NoBindings, 1, EmptyStack)

LEMMA NothingBoundIs ==
  ASSUME NEW S, EmptyStack \in S
  PROVE  NothingBound \in Bindings(S) /\ Bound(NothingBound, 1) = {EmptyStack}
<1>1. NoBindings \in Bindings(S) /\ 1 \in Nat \ {0}
  BY UnboundIs, OnePositive
<1> QED BY <1>1, BindIs DEF NothingBound

LEMMA FirstSubstituted ==
  ASSUME NEW S, EmptyStack \in S
  PROVE  Substitute(FromVariable(1), NothingBound) = EmptyStack
<1>1. Bound(NothingBound, 1) = {Stack(<<>>, 0)}
  BY NothingBoundIs DEF EmptyStack
<1>2. Substitute(Stack(<<>>, 1), NothingBound) = Stack(<<>> \o <<>>, 0)
  BY <1>1, SubstitutedIs
<1>3. <<>> \o <<>> = <<>>
  OBVIOUS
<1> QED BY <1>2, <1>3 DEF EmptyStack, FromVariable

Eliminated(p) == ApplyBindings(p, [symbols |-> NothingBound, scopes |-> NothingBound])

LEMMA EliminatedIs ==
  ASSUME NEW p \in Paths, p.symbolPre = FromVariable(1), p.scopePre = FromVariable(1)
  PROVE  LET b == [symbols |-> NothingBound, scopes |-> NothingBound]
         IN  /\ Eliminate(p) = Eliminated(p)
             /\ Eliminated(p) = PathOf(p.start, p.end, p.edges, SubstituteSymbols(p.symbolPost, b),
                                       Substitute(p.scopePost, b.scopes))
<1> DEFINE b == [symbols |-> NothingBound, scopes |-> NothingBound]
           one == FromVariable(1)
<1>1. one.variable = 1 /\ one = Stack(<<>>, 1)
  BY DEF FromVariable, Stack
<1>2. Eliminate(p) = Eliminated(p)
  <2>1. p.symbolPre.variable = 1 /\ p.scopePre.variable = 1
    BY <1>1
  <2>2. Eliminate(p) = ApplyBindings(p, b)
    BY <2>1 DEF Eliminate, NothingBound
  <2> QED BY <2>2 DEF Eliminated
<1>3. b.symbols = NothingBound /\ b.scopes = NothingBound
  OBVIOUS
<1> HIDE DEF b
<1>4. Substitute(one, NothingBound) = EmptyStack
  <2>1. EmptyStack \in {EmptyStack}
    OBVIOUS
  <2> QED BY <2>1, FirstSubstituted
<1>5. SubstituteSymbols(one, b) = EmptyStack
  <2>1. SubstituteSymbols(Stack(<<>>, 1), b) = Substitute(Stack(<<>>, 1), b.symbols)
    BY NoSymbolsSubstituted
  <2> QED BY <1>1, <1>3, <1>4, <2>1
<1> DEFINE x(st) == SubstituteSymbols(st, b)
           y(st) == Substitute(st, b.scopes)
           xp == x(p.symbolPost)
           yp == y(p.scopePost)
<1>6. x(one) = EmptyStack /\ y(one) = EmptyStack
  BY <1>3, <1>4, <1>5
<1>7. ApplyBindings(p, b) =
        [p EXCEPT !.symbolPre = x(@), !.symbolPost = x(@), !.scopePre = y(@), !.scopePost = y(@)]
  BY DEF ApplyBindings
<1>8. ApplyBindings(p, b) =
        [p EXCEPT !.symbolPre = x(p.symbolPre), !.symbolPost = x(p.symbolPost),
                  !.scopePre = y(p.scopePre), !.scopePost = y(p.scopePost)]
  BY <1>7
<1>9. ApplyBindings(p, b) =
        [p EXCEPT !.symbolPre = EmptyStack, !.symbolPost = xp, !.scopePre = EmptyStack, !.scopePost = yp]
  <2> HIDE DEF x, y, one
  <2> QED BY <1>6, <1>8 DEF one
<1> HIDE DEF x, y, xp, yp
<1>10. ApplyBindings(p, b) = PathOf(p.start, p.end, p.edges, xp, yp)
  BY <1>9 DEF PathOf, Paths
<1> QED BY <1>2, <1>10 DEF Eliminated, b, x, y, xp, yp

LEMMA ReferenceIs ==
  ASSUME NEW n \in References
  PROVE  /\ n \in Nodes /\ Endpoint(n) /\ KindOf[n] \in Pushes
         /\ FromNode(n).symbolPre = FromVariable(1)
<1>1. n \in Nodes /\ KindOf[n] \in Pushes /\ Endpoint(n)
  BY NodesAssumption DEF Endpoint
<1>2. FromNode(n) \in Visit(n, Alone(n)) /\ Open(Alone(n)) /\ Alone(n).symbolPre = FromVariable(1)
  BY <1>1, AloneVisited, AloneIs
<1> DEFINE q == FromNode(n)
           p == Alone(n)
<1>3. VisitEffects(p, n, q)
  BY <1>1, <1>2, VisitsAre
<1> HIDE DEF p, q
<1>4. q.symbolPre = p.symbolPre
  <2>1. \E post, scopes : q = Made(p, p.symbolPre, post, scopes)
    BY <1>1, <1>3 DEF VisitEffects, Pushes
  <2>2. PICK post, scopes : q = Made(p, p.symbolPre, post, scopes)
    BY <2>1
  <2> QED BY ONLY <2>2, MadeFields
<1> QED BY <1>1, <1>2, <1>4 DEF p, q

LEMMA NothingBindsAs ==
  ASSUME NEW r, Open(r), r.symbolPre = FromVariable(1)
  PROVE  LET b == [symbols |-> NothingBound, scopes |-> NothingBound]
             nothing == Concrete(<<>>, <<>>)
         IN  Has(r.symbolPre.items, nothing.symbols) /\ BindsAs(r, nothing, b)
<1> DEFINE b == [symbols |-> NothingBound, scopes |-> NothingBound]
           nothing == Concrete(<<>>, <<>>)
           pre == r.symbolPre.items
<1>1. nothing.symbols = <<>> /\ nothing.scopes = <<>> /\ nothing \in EveryStack
  BY NothingIs DEF Concrete
<1>2. pre = <<>> /\ Len(pre) = 0 /\ DOMAIN pre = {} /\ 1..0 = {}
  BY EmptyIs DEF FromVariable, Stack
<1> HIDE DEF nothing
<1>3. Has(pre, nothing.symbols)
  BY <1>1, <1>2 DEF Has
<1>4. EmptyStack \in SymbolStacks /\ EmptyStack \in ScopeStacks
  BY StacksOfIs
<1>5. /\ b.symbols = NothingBound /\ b.scopes = NothingBound
      /\ NothingBound \in Bindings(SymbolStacks) /\ NothingBound \in Bindings(ScopeStacks)
      /\ Bound(NothingBound, 1) = {EmptyStack}
  BY <1>4, NothingBoundIs
<1>6. b \in BothBindings
  BY <1>5 DEF BothBindings
<1> HIDE DEF b
<1>7. \A v \in ScopeVariablesPost(r) : v = 0 \/ v = 1
  <2>1. ScopeVariables(r.symbolPre) = {}
    BY <1>2 DEF ScopeVariables
  <2> QED BY <2>1 DEF Open
<1>8. ScopesFor(r, nothing, 1) = <<>>
  BY <1>1, <1>3, ScopesForIs
<1>9. \A v \in ScopeVariablesPost(r) : v = 0 \/ Bound(b.scopes, v) = {Stack(ScopesFor(r, nothing, v), 0)}
  BY <1>5, <1>7, <1>8 DEF EmptyStack
<1>10. Below(r, nothing) = <<>>
  <2>1. Below(r, nothing) = SubSeq(<<>>, 0 + 1, 0)
    BY <1>1, <1>2, EmptyIs DEF Below
  <2> QED BY <2>1
<1>11. Bound(b.symbols, 1) = {KnownSymbols(Below(r, nothing))}
  BY <1>5, <1>10, EmptyKnown
<1>12. BindsAs(r, nothing, b)
  BY <1>6, <1>9, <1>11 DEF BindsAs
<1> QED BY <1>3, <1>12 DEF b, nothing

LEMMA ReferenceStarts ==
  ASSUME NEW n \in References
  PROVE  OfQuery(Eliminate(FromNode(n)))
<1> DEFINE r == FromNode(n)
           b == [symbols |-> NothingBound, scopes |-> NothingBound]
           nothing == Concrete(<<>>, <<>>)
           c == ResultOf(r, nothing)
           q == Eliminate(r)
<1>1. n \in Nodes /\ Endpoint(n) /\ KindOf[n] \in Pushes /\ r.symbolPre = FromVariable(1)
  BY ReferenceIs
<1>2. /\ Open(r) /\ r \in Paths /\ Means(r, EveryStack) /\ r.start = n /\ r.end = n
      /\ NodesOf(r) = <<n>> /\ r.scopePre = FromVariable(1)
  BY <1>1, NodeMade, OpenIs DEF MadeOfEdges
<1> HIDE DEF r
<1>3. Has(r.symbolPre.items, nothing.symbols) /\ BindsAs(r, nothing, b) /\ nothing \in EveryStack
  BY <1>1, <1>2, NothingBindsAs, NothingIs
<1> HIDE DEF nothing, b
<1>4. /\ SubstituteSymbols(r.symbolPost, b) = KnownSymbols(c.symbols)
      /\ Substitute(r.scopePost, b.scopes) = Stack(c.scopes, 0)
  BY <1>2, <1>3, ResultSubstituted
<1>5. c \in EveryStack /\ ApplyPath(r, nothing) = {c}
  BY <1>2, <1>3, ResultTyped, ApplyIs
<1> HIDE DEF c
<1>6. q = PathOf(n, n, r.edges, KnownSymbols(c.symbols), Stack(c.scopes, 0))
  <2>1. q = PathOf(r.start, r.end, r.edges, SubstituteSymbols(r.symbolPost, b),
                   Substitute(r.scopePost, b.scopes))
    BY <1>1, <1>2, EliminatedIs DEF b
  <2> HIDE DEF q
  <2> QED BY <1>2, <1>4, <2>1
<1> HIDE DEF q
<1> DEFINE y == KnownSymbols(c.symbols)
           z == Stack(c.scopes, 0)
<1>7. r.edges \in Seq(PathEdges)
  BY <1>2 DEF Paths, PathEdges
<1>8. q \in Paths
  BY <1>1, <1>5, <1>6, <1>7, PathOfTyped
<1>9. /\ q.start = n /\ q.end = n /\ q.edges = r.edges /\ q.symbolPre = EmptyStack
      /\ q.symbolPost = y /\ q.scopePre = EmptyStack /\ q.scopePost = z
  <2>1. q = PathOf(n, n, r.edges, y, z)
    BY <1>6
  <2> HIDE DEF y, z
  <2> QED BY ONLY <2>1 DEF PathOf
<1>10. NodesOf(q) = <<n>>
  BY <1>2, <1>9 DEF NodesOf
<1>11. Walk(NodesOf(q), nothing) = {c}
  BY <1>2, <1>3, <1>5, <1>10 DEF Means
<1>12. KindOf[q.start] \in Pushes /\ KindOf[q.end] # "jump to" /\ NodesOf(q)[1] = q.start
  BY <1>1, <1>9, <1>10, OneIs, EndpointIs
<1>13. Ends(q, c)
  BY ONLY <1>5, <1>8, <1>9, <1>11, <1>12 DEF Ends, nothing
<1>14. OfQuery(q)
  BY <1>13, OfQueryIs
<1> QED BY <1>14 DEF q, r

-----------------------------------------------------------------------------
(* What is saved of a path is restored. *)

LEMMA AllOfOnes ==
  ASSUME NEW s, IsSequence(s), NEW options, DOMAIN options = DOMAIN s,
         \A i \in DOMAIN s : options[i] = {s[i]}
  PROVE  AllOf(options) = {s}
<1> DEFINE t == [i \in DOMAIN options |-> The(options[i])]
<1>1. AllOf(options) = {t}
  BY DEF AllOf
<1>2. \A i \in DOMAIN s : The(options[i]) = s[i]
  BY TheOne
<1>3. DOMAIN s = 1..Len(s) /\ s = [i \in 1..Len(s) |-> s[i]]
  BY SequenceIs
<1>4. t = s
  BY <1>2, <1>3
<1> QED BY <1>1, <1>4

LEMMA NodeRestored ==
  ASSUME NEW n \in Nodes
  PROVE  NodesWith(NodeIdOf(n)) = {n}
<1>1. ASSUME NEW m \in Nodes, NodeIdOf(m) = NodeIdOf(n) PROVE m = n
  <2>1. NodeIdOf(m).file = FileOf[m] /\ NodeIdOf(m).local = LocalIdOf[m]
    BY DEF NodeIdOf
  <2>2. NodeIdOf(n).file = FileOf[n] /\ NodeIdOf(n).local = LocalIdOf[n]
    BY DEF NodeIdOf
  <2>3. FileOf[m] = FileOf[n] /\ LocalIdOf[m] = LocalIdOf[n]
    BY <1>1, <2>1, <2>2
  <2> QED BY <2>3, SavedPathsAssumption
<1> HIDE DEF NodeIdOf
<1> QED BY <1>1 DEF NodesWith

LEMMA StackRestored ==
  ASSUME NEW s, IsSequence(s), NEW v \in Nat, NEW options, DOMAIN options = DOMAIN s,
         \A i \in DOMAIN s : options[i] = {s[i]}
  PROVE  Restored(options, {v} \ {0}) = {Stack(s, v)}
<1>1. AllOf(options) = {s}
  BY AllOfOnes
<1> DEFINE w == {v} \ {0}
           numbers == IF w = {} THEN {0} ELSE w \ {0}
<1>2. numbers = {v}
  BY Zenon
<1>3. Restored(options, w) = {Stack(items, x) : items \in AllOf(options), x \in numbers}
  BY DEF Restored
<1> HIDE DEF numbers, w
<1>4. Restored(options, w) = {Stack(s, v)}
  BY <1>1, <1>2, <1>3
<1> QED BY <1>4 DEF w

LEMMA ScopesRestored ==
  ASSUME NEW st \in ScopeStacks
  PROVE  RestoredScopes(SavedScopes(st)) = {st}
<1> DEFINE s == st.items
           v == st.variable
           ids == [i \in DOMAIN s |-> NodeIdOf(s[i])]
           saved == SavedScopes(st)
           options == [i \in DOMAIN saved.items |-> NodesWith(saved.items[i])]
<1>1. s \in Seq(ExportedScopes) /\ v \in Nat /\ st = Stack(s, v) /\ IsSequence(s)
  BY ScopeStackIs, SequenceOf
<1>2. saved.items = ids /\ saved.variable = {v} \ {0}
  BY DEF SavedScopes
<1>3. DOMAIN s = 1..Len(s) /\ \A i \in DOMAIN s : s[i] \in Nodes
  BY <1>1, SequenceIs, ExportedIs
<1>4. RestoredScopes(saved) = Restored(options, saved.variable)
  BY DEF RestoredScopes
<1> HIDE DEF saved
<1>5. DOMAIN options = DOMAIN s /\ \A i \in DOMAIN s : options[i] = {s[i]}
  BY <1>2, <1>3, NodeRestored
<1> HIDE DEF options, s, v
<1>6. Restored(options, {v} \ {0}) = {Stack(s, v)}
  BY <1>1, <1>5, StackRestored
<1> QED BY <1>1, <1>2, <1>4, <1>6 DEF saved

LEMMA SymbolRestored ==
  ASSUME NEW x \in StackSymbols, AtMostOne(x.scopes)
  PROVE  RestoredSymbol(SavedSymbol(x)) = {x}
<1> DEFINE y == SavedSymbol(x)
           saved == {SavedScopes(st) : st \in x.scopes}
<1>1. x = [symbol |-> x.symbol, scopes |-> x.scopes] /\ x.scopes \subseteq ScopeStacks
  BY DEF StackSymbols
<1>2. y = [symbol |-> x.symbol, scopes |-> saved]
  <2>1. y = [x EXCEPT !.scopes = saved]
    BY DEF SavedSymbol
  <2> HIDE DEF y, saved
  <2> QED BY <1>1, <2>1
<1> HIDE DEF y
<1>3. CASE x.scopes = {}
  <2>1. saved = {}
    BY <1>3
  <2>2. y = x /\ y.scopes = {}
    BY <1>1, <1>2, <1>3, <2>1
  <2> QED BY <2>2 DEF RestoredSymbol, y
<1>4. CASE x.scopes # {}
  <2>1. PICK st \in ScopeStacks : x.scopes = {st}
    BY <1>1, <1>4 DEF AtMostOne
  <2>2. saved = {SavedScopes(st)}
    BY <2>1
  <2>3. RestoredScopes(SavedScopes(st)) = {st}
    BY ScopesRestored
  <2> DEFINE z == SavedScopes(st)
  <2> HIDE DEF saved, z
  <2>4. y = [symbol |-> x.symbol, scopes |-> {z}]
    BY <1>2, <2>2 DEF z
  <2>5. y.scopes # {} /\ The(y.scopes) = z
    BY <2>4, TheOne
  <2>6. RestoredSymbol(y) = {[y EXCEPT !.scopes = {t}] : t \in RestoredScopes(z)}
    BY <2>5 DEF RestoredSymbol
  <2>7. RestoredSymbol(y) = {[y EXCEPT !.scopes = {st}]}
    BY <2>3, <2>6 DEF z
  <2>8. [y EXCEPT !.scopes = {st}] = [symbol |-> x.symbol, scopes |-> {st}]
    BY <2>4
  <2>9. [symbol |-> x.symbol, scopes |-> {st}] = x
    BY <1>1, <2>1
  <2> QED BY <2>7, <2>8, <2>9 DEF y
<1> QED BY <1>3, <1>4

LEMMA SymbolsRestored ==
  ASSUME NEW st \in SymbolStacks, OptionsIn(st)
  PROVE  RestoredSymbols(SavedSymbols(st)) = {st}
<1> DEFINE s == st.items
           v == st.variable
           ids == [i \in DOMAIN s |-> SavedSymbol(s[i])]
           saved == SavedSymbols(st)
           options == [i \in DOMAIN saved.items |-> RestoredSymbol(saved.items[i])]
<1>1. s \in Seq(StackSymbols) /\ v \in Nat /\ st = Stack(s, v) /\ IsSequence(s)
  BY StacksOfIs, SequenceOf
<1>2. saved.items = ids /\ saved.variable = {v} \ {0}
  BY DEF SavedSymbols
<1>3. DOMAIN s = 1..Len(s) /\ \A i \in DOMAIN s : s[i] \in StackSymbols /\ AtMostOne(s[i].scopes)
  <2>1. DOMAIN s = 1..Len(s)
    BY <1>1, SequenceIs
  <2>2. \A i \in DOMAIN s : s[i] \in StackSymbols
    BY <1>1, <2>1
  <2> QED BY <2>1, <2>2 DEF OptionsIn
<1>4. RestoredSymbols(saved) = Restored(options, saved.variable)
  BY DEF RestoredSymbols
<1> HIDE DEF saved
<1>5. DOMAIN options = DOMAIN s /\ \A i \in DOMAIN s : options[i] = {s[i]}
  BY <1>2, <1>3, SymbolRestored
<1> HIDE DEF options, s, v
<1>6. Restored(options, {v} \ {0}) = {Stack(s, v)}
  BY <1>1, <1>5, StackRestored
<1> QED BY <1>1, <1>2, <1>4, <1>6 DEF saved

LEMMA EdgeRestored ==
  ASSUME NEW e \in PathEdges
  PROVE  RestoredEdge(SavedEdge(e)) = {e}
<1> DEFINE id == NodeIdOf(e.source)
           y == SavedEdge(e)
<1>1. e = [source |-> e.source, precedence |-> e.precedence] /\ e.source \in Nodes
  BY DEF PathEdges
<1>2. NodesWith(id) = {e.source}
  BY <1>1, NodeRestored
<1>3. y = [e EXCEPT !.source = id]
  BY DEF SavedEdge
<1> HIDE DEF id, y
<1>4. y = [source |-> id, precedence |-> e.precedence]
  BY <1>1, <1>3
<1>5. RestoredEdge(y) = {[y EXCEPT !.source = n] : n \in NodesWith(y.source)}
  BY DEF RestoredEdge
<1>6. RestoredEdge(y) = {[y EXCEPT !.source = e.source]}
  BY <1>2, <1>4, <1>5
<1>7. [y EXCEPT !.source = e.source] = e
  BY <1>1, <1>4
<1> QED BY <1>6, <1>7 DEF y

LEMMA PathRestored ==
  ASSUME NEW p \in Paths, OptionsIn(p.symbolPre), OptionsIn(p.symbolPost)
  PROVE  RestoredPath(SavedPath(p)) = {p}
<1> DEFINE s == SavedPath(p)
           saved == [i \in DOMAIN p.edges |-> SavedEdge(p.edges[i])]
           options == [i \in DOMAIN s.edges |-> RestoredEdge(s.edges[i])]
<1>1. /\ s.start = NodeIdOf(p.start) /\ s.end = NodeIdOf(p.end)
      /\ s.symbolPre = SavedSymbols(p.symbolPre) /\ s.symbolPost = SavedSymbols(p.symbolPost)
      /\ s.scopePre = SavedScopes(p.scopePre) /\ s.scopePost = SavedScopes(p.scopePost)
      /\ s.edges = saved
  BY DEF SavedPath
<1>2. /\ p.start \in Nodes /\ p.end \in Nodes /\ p.edges \in Seq(PathEdges)
      /\ p.symbolPre \in SymbolStacks /\ p.symbolPost \in SymbolStacks
      /\ p.scopePre \in ScopeStacks /\ p.scopePost \in ScopeStacks
      /\ p = [start |-> p.start, end |-> p.end, edges |-> p.edges,
              symbolPre |-> p.symbolPre, symbolPost |-> p.symbolPost,
              scopePre |-> p.scopePre, scopePost |-> p.scopePost]
  BY DEF Paths, PathEdges
<1>3. NodesWith(s.start) = {p.start} /\ NodesWith(s.end) = {p.end}
  BY <1>1, <1>2, NodeRestored
<1>4. RestoredSymbols(s.symbolPre) = {p.symbolPre} /\ RestoredSymbols(s.symbolPost) = {p.symbolPost}
  BY <1>1, <1>2, SymbolsRestored
<1>5. RestoredScopes(s.scopePre) = {p.scopePre} /\ RestoredScopes(s.scopePost) = {p.scopePost}
  BY <1>1, <1>2, ScopesRestored
<1>6. AllOf(options) = {p.edges}
  <2> DEFINE edges == p.edges
  <2>1. IsSequence(edges) /\ \A i \in DOMAIN edges : edges[i] \in PathEdges
    <3>1. edges \in Seq(PathEdges)
      BY <1>2
    <3> HIDE DEF edges
    <3>2. IsSequence(edges) /\ DOMAIN edges = 1..Len(edges)
      BY <3>1, SequenceOf, SequenceIs
    <3> QED BY <3>1, <3>2
  <2>2. s.edges = [i \in DOMAIN edges |-> SavedEdge(edges[i])]
    BY <1>1
  <2> HIDE DEF s, edges
  <2>3. DOMAIN options = DOMAIN edges /\ \A i \in DOMAIN edges : options[i] = {edges[i]}
    BY <2>1, <2>2, EdgeRestored
  <2> HIDE DEF options
  <2>4. AllOf(options) = {edges}
    BY <2>1, <2>3, AllOfOnes
  <2> QED BY <2>4 DEF edges
<1> DEFINE Whole(ends, edges, symbols, scopes) ==
             [start |-> ends[1], end |-> ends[2], edges |-> edges,
              symbolPre |-> symbols[1], symbolPost |-> symbols[2],
              scopePre |-> scopes[1], scopePost |-> scopes[2]]
<1>7. RestoredPath(s) =
        {Whole(ends, edges, symbols, scopes) :
           ends \in NodesWith(s.start) \X NodesWith(s.end), edges \in AllOf(options),
           symbols \in RestoredSymbols(s.symbolPre) \X RestoredSymbols(s.symbolPost),
           scopes \in RestoredScopes(s.scopePre) \X RestoredScopes(s.scopePost)}
  BY DEF RestoredPath
<1> DEFINE a == <<p.start, p.end>>
           b == <<p.symbolPre, p.symbolPost>>
           c == <<p.scopePre, p.scopePost>>
<1>8. /\ {p.start} \X {p.end} = {a} /\ {p.symbolPre} \X {p.symbolPost} = {b}
      /\ {p.scopePre} \X {p.scopePost} = {c}
  OBVIOUS
<1>9. Whole(a, p.edges, b, c) = p
  BY <1>2
<1> HIDE DEF s, options, Whole, a, b, c
<1>10. RestoredPath(s) = {Whole(ends, edges, symbols, scopes) :
                            ends \in {a}, edges \in {p.edges}, symbols \in {b}, scopes \in {c}}
  BY <1>3, <1>4, <1>5, <1>6, <1>7, <1>8
<1>11. RestoredPath(s) = {Whole(a, p.edges, b, c)}
  BY <1>10
<1> QED BY <1>9, <1>11 DEF s

-----------------------------------------------------------------------------
(* Rows, and candidates. *)

Good == {p \in Paths : MadeOfEdges(p, EveryStack)}

LEMMA GoodIs ==
  ASSUME NEW p
  PROVE  p \in Good <=> MadeOfEdges(p, EveryStack)
BY OpenIs DEF Good, MadeOfEdges

LEMMA MappedIs ==
  ASSUME NEW s, IsSequence(s), NEW t, DOMAIN t = DOMAIN s, t = [i \in DOMAIN t |-> t[i]]
  PROVE  IsSequence(t) /\ Len(t) = Len(s) /\ DOMAIN t = 1..Len(t)
<1>1. DOMAIN s = 1..Len(s) /\ Len(s) \in Nat
  BY SequenceIs
<1> DEFINE n == Len(s)
<1> HIDE DEF n
<1>2. n \in Nat /\ t = [i \in 1..n |-> t[i]]
  BY <1>1 DEF n
<1>3. IsSequence(t) /\ Len(t) = n /\ DOMAIN t = 1..n
  BY ONLY <1>2, FunctionIsSequence
<1> QED BY <1>3 DEF n

LEMMA RowsRestored ==
  ASSUME stored \in Seq(Good), NEW request
  PROVE  RestoredRows(Rows(request)) \in Seq(Good)
<1> DEFINE Matches(q) ==
             \/ q.start \in request.node
             \/ /\ q.start = Root
                /\ \E pattern \in request.pattern : Lookup!Like(PlainStack(q.symbolPre), pattern)
           U == {q \in ToSet(stored) : Matches(q)}
           rows == Only(stored, U)
           saved == [i \in DOMAIN rows |-> SavedPath(rows[i])]
           options == [i \in DOMAIN saved |-> RestoredPath(saved[i])]
<1>1. Rows(request) = saved
  BY DEF Rows
<1>2. RestoredRows(saved) = The(AllOf(options))
  BY DEF RestoredRows
<1> HIDE DEF U
<1>3. rows \in Seq(Good \cap U)
  BY OnlyIs
<1>4. rows \in Seq(Good)
  <2> DEFINE V == Good \cap U
  <2>1. V \subseteq Good
    OBVIOUS
  <2>2. rows \in Seq(V)
    BY <1>3
  <2> HIDE DEF V, rows
  <2>3. IsSequence(rows) /\ ToSet(rows) \subseteq V
    BY <2>2, MembersIs
  <2> QED BY <2>1, <2>3, MembersIs
<1> HIDE DEF rows
<1>5. IsSequence(rows) /\ DOMAIN rows = 1..Len(rows) /\ \A i \in DOMAIN rows : rows[i] \in Good
  <2>1. IsSequence(rows) /\ DOMAIN rows = 1..Len(rows)
    BY <1>4, SequenceOf, SequenceIs
  <2> QED BY <1>4, <2>1
<1>6. \A i \in DOMAIN rows : RestoredPath(SavedPath(rows[i])) = {rows[i]}
  <2> TAKE i \in DOMAIN rows
  <2>1. rows[i] \in Paths /\ OptionsIn(rows[i].symbolPre) /\ OptionsIn(rows[i].symbolPost)
    BY <1>5 DEF Good, MadeOfEdges, Open
  <2> QED BY <2>1, PathRestored
<1>7. DOMAIN options = DOMAIN rows /\ \A i \in DOMAIN rows : options[i] = {rows[i]}
  BY <1>6
<1> HIDE DEF options
<1>8. AllOf(options) = {rows}
  BY <1>5, <1>7, AllOfOnes
<1> QED BY <1>1, <1>2, <1>4, <1>8, TheOne

LEMMA ConcatenatedSequence ==
  ASSUME NEW seqs, IsSequence(seqs), \A i \in 1..Len(seqs) : IsSequence(seqs[i])
  PROVE  IsSequence(Concatenated(seqs))
<1> DEFINE S == UNION {ToSet(seqs[i]) : i \in 1..Len(seqs)}
<1>1. \A i \in 1..Len(seqs) : ToSet(seqs[i]) \subseteq S
  OBVIOUS
<1> HIDE DEF S
<1>2. \A i \in 1..Len(seqs) : seqs[i] \in Seq(S)
  BY <1>1, MembersIs
<1>3. ToSet(seqs) \subseteq Seq(S)
  BY <1>2, SequenceIs DEF ToSet
<1>4. seqs \in Seq(Seq(S))
  BY <1>3, MembersIs
<1>5. Concatenated(seqs) \in Seq(S)
  BY <1>4, ConcatenatedIs
<1> QED BY <1>5, SequenceOf

LEMMA PlainIs ==
  ASSUME NEW st \in SymbolStacks
  PROVE  IsSequence(PlainStack(st).symbols) /\ Len(PlainStack(st).symbols) \in Nat
<1> DEFINE items == st.items
           t == [i \in DOMAIN items |-> items[i].symbol]
<1>1. PlainStack(st).symbols = t
  BY DEF PlainStack, Lookup!Stack
<1>2. IsSequence(items)
  BY StacksOfIs, SequenceOf
<1> HIDE DEF items
<1>3. DOMAIN t = DOMAIN items /\ t = [i \in DOMAIN t |-> t[i]]
  OBVIOUS
<1> HIDE DEF t
<1>4. IsSequence(t)
  BY <1>2, <1>3, MappedIs
<1> QED BY <1>1, <1>4, SequenceIs

LEMMA RequestsIs ==
  ASSUME NEW p \in Paths
  PROVE  IsSequence(Requests(p))
<1>1. CASE p.end = Root
  <2> DEFINE post == PlainStack(p.symbolPost)
             s == post.symbols
             a == [i \in 1..Len(s) |-> Lookup!Pattern({TRUE}, SubSeq(s, 1, i), FALSE)]
             b == <<Lookup!Pattern({FALSE}, s, FALSE)>>
             c == IF post.variable THEN <<Lookup!Pattern(BOOLEAN, s, TRUE)>> ELSE <<>>
             patterns == a \o b \o c
             requests == [i \in DOMAIN patterns |-> [node |-> {}, pattern |-> {patterns[i]}]]
  <2>1. Len(s) \in Nat
    BY PlainIs DEF Paths
  <2>2. Lookup!Patterns(post) = patterns
    BY DEF Lookup!Patterns
  <2>3. Requests(p) = requests
    BY <1>1, <2>2 DEF Requests
  <2> HIDE DEF post, s
  <2>4. IsSequence(a)
    <3>1. a = [i \in 1..Len(s) |-> a[i]]
      OBVIOUS
    <3> HIDE DEF a
    <3> QED BY <2>1, <3>1, FunctionIsSequence
  <2>5. IsSequence(b) /\ IsSequence(c)
    BY OneIs, EmptyIs
  <2> HIDE DEF a, b, c
  <2>6. IsSequence(a \o b)
    BY <2>4, <2>5, ConcatIs
  <2>7. IsSequence(patterns)
    BY <2>5, <2>6, ConcatIs
  <2> HIDE DEF patterns
  <2>8. DOMAIN requests = DOMAIN patterns /\ requests = [i \in DOMAIN requests |-> requests[i]]
    OBVIOUS
  <2> HIDE DEF requests
  <2>9. IsSequence(requests)
    BY <2>7, <2>8, MappedIs
  <2> QED BY <2>3, <2>9
<1>2. CASE p.end # Root
  BY <1>2, OneIs, EmptyIs DEF Requests
<1> QED BY <1>1, <1>2

LEMMA LoadGood ==
  ASSUME stored \in Seq(Good), database \in Seq(Good),
         NEW paths, IsSequence(paths), \A i \in DOMAIN paths : paths[i] \in Paths
  PROVE  Load(paths).database \in Seq(Good)
<1> DEFINE all == [i \in DOMAIN paths |-> Requests(paths[i])]
           requests == Concatenated(all)
<1>1. DOMAIN all = DOMAIN paths /\ all = [i \in DOMAIN all |-> all[i]]
  OBVIOUS
<1>2. \A i \in DOMAIN paths : IsSequence(all[i])
  BY RequestsIs
<1>3. Load(paths) = LoadAll(requests)
  BY DEF Load, LoadAll
<1> HIDE DEF all
<1>4. IsSequence(all) /\ DOMAIN all = 1..Len(all)
  BY <1>1, MappedIs
<1>5. IsSequence(requests)
  BY <1>1, <1>2, <1>4, ConcatenatedSequence
<1> HIDE DEF requests
<1>6. \A i \in 1..Len(requests) : RestoredRows(Rows(requests[i])) \in Seq(Good)
  BY RowsRestored
<1>7. LoadAll(requests).database \in Seq(Good)
  BY <1>5, <1>6, LoadIs
<1> QED BY <1>3, <1>7

-----------------------------------------------------------------------------

LEMMA SeqWithin ==
  ASSUME NEW S, NEW T, S \subseteq T, NEW s \in Seq(S)
  PROVE  s \in Seq(T)
<1>1. IsSequence(s) /\ ToSet(s) \subseteq S
  BY MembersIs
<1>2. ToSet(s) \subseteq T
  BY <1>1
<1> QED BY <1>1, <1>2, MembersIs

LEMMA OnlyWithin ==
  ASSUME NEW S, NEW seq \in Seq(S), NEW U, NEW T, \A x \in S \cap U : x \in T
  PROVE  Only(seq, U) \in Seq(T)
<1> DEFINE V == S \cap U
<1>1. Only(seq, U) \in Seq(V)
  BY OnlyIs
<1>2. V \subseteq T
  OBVIOUS
<1> HIDE DEF V
<1> QED BY <1>1, <1>2, SeqWithin

LEMMA InOrderIs ==
  ASSUME NEW T
  PROVE  InOrder(T) \in Seq(Nodes \cap T)
BY StitcherAssumption, OnlyIs DEF InOrder

LEMMA RootIs ==
  Root \in Nodes /\ KindOf[Root] = "root" /\ Endpoint(Root)
<1>1. PICK root \in Nodes : {n \in Nodes : KindOf[n] = "root"} = {root}
  BY StitcherAssumption
<1>2. Root = root
  BY <1>1, TheOne DEF Root
<1> QED BY <1>1, <1>2 DEF Endpoint

Leaving(n) == {e \in GraphEdges : e.source = n}
Starting(n) == {q \in Good : q.start = n}

LEMMA EdgeCandidatesIs ==
  ASSUME graph \in Graphs, NEW p
  PROVE  EdgeCandidates(p) \in Seq(Leaving(p.end))
<1> DEFINE edges == {e \in graph : e.source = p.end /\ FileOf[e.sink] \in {"none", Files[task]}}
           targets == {e.sink : e \in edges}
           sinks == InOrder(targets)
           candidates == [i \in DOMAIN sinks |-> The({e \in edges : e.sink = sinks[i]})]
<1>1. EdgeCandidates(p) = candidates
  BY DEF EdgeCandidates
<1>2. edges \subseteq Leaving(p.end)
  BY StitcherAssumption DEF Leaving, GraphEdges
<1>3. sinks \in Seq(Nodes \cap targets)
  BY InOrderIs
<1>4. sinks \in Seq(targets)
  <2> DEFINE V == Nodes \cap targets
  <2>1. V \subseteq targets
    OBVIOUS
  <2>2. sinks \in Seq(V)
    BY <1>3
  <2> HIDE DEF V, targets, sinks
  <2> QED BY <2>1, <2>2, SeqWithin
<1> HIDE DEF sinks
<1>5. IsSequence(sinks) /\ DOMAIN sinks = 1..Len(sinks) /\ \A i \in DOMAIN sinks : sinks[i] \in targets
  <2> HIDE DEF targets
  <2>1. IsSequence(sinks) /\ DOMAIN sinks = 1..Len(sinks)
    BY <1>4, SequenceOf, SequenceIs
  <2> QED BY <1>4, <2>1
<1> HIDE DEF edges
<1>6. ASSUME NEW i \in DOMAIN sinks PROVE candidates[i] \in edges
  <2>1. PICK e \in edges : e.sink = sinks[i]
    BY <1>5
  <2> DEFINE at == {x \in edges : x.sink = sinks[i]}
  <2>2. e \in at
    BY <2>1
  <2>3. The(at) \in at
    BY <2>2 DEF The
  <2> QED BY <2>3
<1>7. DOMAIN candidates = DOMAIN sinks /\ candidates = [i \in DOMAIN candidates |-> candidates[i]]
  OBVIOUS
<1> HIDE DEF candidates
<1>8. IsSequence(candidates) /\ DOMAIN candidates = 1..Len(candidates)
  BY <1>5, <1>7, MappedIs
<1>9. ToSet(candidates) \subseteq Leaving(p.end)
  BY <1>2, <1>6, <1>7 DEF ToSet
<1> QED BY <1>1, <1>8, <1>9, MembersIs

LEMMA FromIs ==
  ASSUME database \in Seq(Good), NEW n
  PROVE  From(n) \in Seq(Starting(n))
<1> DEFINE U == {q \in ToSet(database) : q.start = n}
<1>1. \A x \in Good \cap U : x \in Starting(n)
  BY DEF Starting
<1> HIDE DEF U
<1>2. Only(database, U) \in Seq(Starting(n))
  BY <1>1, OnlyWithin
<1> QED BY <1>2 DEF From, U

LEMMA UnderIs ==
  ASSUME database \in Seq(Good), NEW key
  PROVE  Under(key) \in Seq(Starting(Root))
<1> DEFINE U == {q \in ToSet(database) : key \in Lookup!AddedUnder(PlainStack(q.symbolPre))}
           S == Starting(Root)
<1>1. From(Root) \in Seq(S)
  BY FromIs
<1> HIDE DEF U, S
<1>2. \A x \in S \cap U : x \in S
  OBVIOUS
<1>3. Only(From(Root), U) \in Seq(S)
  BY <1>1, <1>2, OnlyWithin
<1> QED BY <1>3 DEF Under, U, S

LEMMA PathCandidatesIs ==
  ASSUME database \in Seq(Good), NEW p \in Paths
  PROVE  PathCandidates(p) \in Seq(Starting(p.end))
<1>1. CASE p.end # Root
  BY <1>1, FromIs DEF PathCandidates
<1>2. CASE p.end = Root
  <2> DEFINE S == Starting(Root)
             post == PlainStack(p.symbolPost)
             s == post.symbols
             a == Under(<<"without variable", s>>)
             b == IF post.variable THEN Under(<<"prefix", s>>) ELSE <<>>
             F(i) == Under(<<"with variable", SubSeq(s, 1, Len(s) + 1 - i)>>)
             c == [i \in 1..Len(s) + 1 |-> F(i)]
  <2>1. Len(s) \in Nat
    BY PlainIs DEF Paths
  <2>2. PathCandidates(p) = a \o b \o Concatenated(c)
    BY <1>2 DEF PathCandidates
  <2>3. a \in Seq(S) /\ \A i \in 1..Len(s) + 1 : F(i) \in Seq(S)
    BY UnderIs
  <2>4. b \in Seq(S)
    <3> DEFINE u == Under(<<"prefix", s>>)
               e == <<>>
    <3>1. u \in Seq(S)
      BY UnderIs
    <3>2. e \in Seq(S)
      BY EmptySeq
    <3>3. b = u \/ b = e
      OBVIOUS
    <3> HIDE DEF u, e, b, S
    <3> QED BY <3>1, <3>2, <3>3
  <2> HIDE DEF S, post, s, a, b, F
  <2>5. c \in Seq(Seq(S))
    <3> DEFINE n == Len(s) + 1
    <3>1. n \in Nat /\ c = [i \in 1..n |-> c[i]] /\ DOMAIN c = 1..n
      BY <2>1
    <3>2. \A i \in 1..n : c[i] \in Seq(S)
      BY <2>3
    <3> HIDE DEF n, c
    <3>3. IsSequence(c)
      BY <3>1, FunctionIsSequence
    <3>4. ToSet(c) \subseteq Seq(S)
      BY <3>1, <3>2 DEF ToSet
    <3> QED BY <3>3, <3>4, MembersIs
  <2>6. Concatenated(c) \in Seq(S)
    BY <2>5, ConcatenatedIs
  <2> DEFINE d == Concatenated(c)
  <2> HIDE DEF d, c
  <2>7. a \o b \in Seq(S)
    BY <2>3, <2>4, ConcatProperties
  <2>8. a \o b \o d \in Seq(S)
    BY <2>6, <2>7, ConcatProperties DEF d
  <2> QED BY <1>2, <2>2, <2>8 DEF d, S
<1> QED BY <1>1, <1>2

-----------------------------------------------------------------------------
(* The steps of the stitcher. *)

RightPaths == {p \in Paths : Right(p, EveryStack)}

LEMMA RightIs ==
  ASSUME NEW p
  PROVE  /\ p \in RightPaths <=> Right(p, EveryStack)
         /\ p \in RightPaths => p \in Paths
         /\ ~Querying => (p \in RightPaths <=> p \in Good)
         /\ ~Querying => (p \in RightPaths <=> MadeOfEdges(p, EveryStack))
         /\ Querying => (p \in RightPaths <=> OfQuery(p))
<1>1. OfQuery(p) => p \in Paths
  BY DEF OfQuery
<1>2. MadeOfEdges(p, EveryStack) => p \in Paths
  BY OpenIs DEF MadeOfEdges
<1> QED BY <1>1, <1>2 DEF RightPaths, Right, Good

LEMMA ExtensionsAre ==
  ASSUME NEW item, NEW candidates, IsSequence(candidates), NEW G,
         \A i \in DOMAIN candidates : AppendTo(candidates[i], item.path) \subseteq G
  PROVE  /\ IsSequence(Extensions(item, candidates))
         /\ \A x \in ToSet(Extensions(item, candidates)) : x.path \in G
<1> DEFINE options(i) == {Item(p, Append(item.elements, candidates[i]), FALSE) :
                            p \in AppendTo(candidates[i], item.path)}
           extended == [i \in DOMAIN candidates |-> options(i)]
           S == ToSet(extended)
           reached == Only(extended, S \ {{}})
           many == item.split \/ Len(reached) > 1
           extensions == [i \in DOMAIN reached |-> [The(reached[i]) EXCEPT !.split = many]]
<1>1. Extensions(item, candidates) = extensions
  BY DEF Extensions
<1>2. ASSUME NEW i \in DOMAIN candidates, NEW x \in options(i)
      PROVE  /\ x.path \in G /\ \A m : [x EXCEPT !.split = m].path \in G
  BY DEF Item
<1>3. DOMAIN extended = DOMAIN candidates /\ extended = [i \in DOMAIN extended |-> extended[i]]
      /\ \A i \in DOMAIN candidates : extended[i] = options(i)
  OBVIOUS
<1> HIDE DEF options, many
<1>4. ASSUME NEW o \in S, NEW x \in o
      PROVE  \A m : [x EXCEPT !.split = m].path \in G
  BY <1>2, <1>3 DEF ToSet
<1> HIDE DEF extended
<1>5. IsSequence(extended)
  BY <1>3, MappedIs
<1>6. extended \in Seq(S)
  BY <1>5, SequenceIs
<1> HIDE DEF S
<1>7. reached \in Seq(S \cap (S \ {{}}))
  BY <1>6, OnlyIs
<1> HIDE DEF reached
<1>8. /\ IsSequence(reached) /\ DOMAIN reached = 1..Len(reached)
      /\ \A i \in DOMAIN reached : reached[i] \in S /\ reached[i] # {}
  <2> DEFINE V == S \cap (S \ {{}})
  <2>1. reached \in Seq(V)
    BY <1>7
  <2> HIDE DEF V
  <2>2. IsSequence(reached) /\ DOMAIN reached = 1..Len(reached)
    BY <2>1, SequenceOf, SequenceIs
  <2>3. \A i \in DOMAIN reached : reached[i] \in V
    BY <2>1, <2>2
  <2> QED BY <2>2, <2>3 DEF V
<1>9. ASSUME NEW i \in DOMAIN reached
      PROVE  [The(reached[i]) EXCEPT !.split = many].path \in G
  <2>1. The(reached[i]) \in reached[i]
    BY <1>8 DEF The
  <2> QED BY <1>4, <1>8, <2>1
<1>10. DOMAIN extensions = DOMAIN reached /\ extensions = [i \in DOMAIN extensions |-> extensions[i]]
       /\ \A i \in DOMAIN reached : extensions[i].path \in G
  BY <1>9
<1> HIDE DEF extensions
<1>11. IsSequence(extensions)
  BY <1>8, <1>10, MappedIs
<1>12. \A x \in ToSet(extensions) : x.path \in G
  BY <1>10 DEF ToSet
<1> QED BY <1>1, <1>11, <1>12

LEMMA EdgeOrPath ==
  /\ \A e \in GraphEdges : IsEdge(e)
  /\ \A p \in Paths : ~IsEdge(p)
<1>1. ASSUME NEW e \in GraphEdges PROVE DOMAIN e = {"source", "sink", "precedence"}
  BY DEF GraphEdges
<1>2. ASSUME NEW p \in Paths
      PROVE  DOMAIN p = {"start", "end", "edges", "symbolPre", "symbolPost", "scopePre", "scopePost"}
  BY DEF Paths
<1> QED BY <1>1, <1>2 DEF IsEdge

LEMMA CandidatesAppend ==
  ASSUME graph \in Graphs, database \in Seq(Good), NEW p \in RightPaths
  PROVE  /\ IsSequence(CandidatesFor(p))
         /\ \A i \in DOMAIN CandidatesFor(p) : AppendTo(CandidatesFor(p)[i], p) \subseteq RightPaths
<1>1. CASE ~Querying
  <2> DEFINE T == Leaving(p.end)
             candidates == CandidatesFor(p)
  <2>1. candidates \in Seq(T)
    BY <1>1, EdgeCandidatesIs DEF CandidatesFor
  <2>2. ASSUME NEW e \in T PROVE AppendTo(e, p) \subseteq RightPaths
    <3>1. e \in GraphEdges /\ e.source = p.end
      BY DEF Leaving
    <3>2. AppendTo(e, p) = AppendEdgeResolved(e, p)
      BY <3>1, EdgeOrPath DEF AppendTo
    <3>3. MadeOfEdges(p, EveryStack)
      BY <1>1, RightIs
    <3>4. ASSUME NEW x \in AppendEdgeResolved(e, p) PROVE x \in RightPaths
      <4>1. MadeOfEdges(x, EveryStack)
        BY <3>1, <3>3, <3>4, EdgeAppended
      <4> QED BY <1>1, <4>1, RightIs
    <3> QED BY <3>2, <3>4
  <2> HIDE DEF T, candidates
  <2>3. IsSequence(candidates) /\ \A i \in DOMAIN candidates : candidates[i] \in T
    BY <2>1, SequenceOf
  <2> QED BY <2>2, <2>3 DEF candidates
<1>2. CASE Querying
  <2> DEFINE T == Starting(p.end)
             candidates == CandidatesFor(p)
  <2>0. p \in Paths
    BY RightIs
  <2>1. candidates \in Seq(T)
    BY <1>2, <2>0, PathCandidatesIs DEF CandidatesFor
  <2>2. ASSUME NEW r \in T PROVE AppendTo(r, p) \subseteq RightPaths
    <3>1. r \in Paths /\ MadeOfEdges(r, EveryStack) /\ r.start = p.end
      BY DEF Starting, Good
    <3>2. AppendTo(r, p) = AppendPath(r, p)
      BY <3>1, EdgeOrPath DEF AppendTo
    <3>3. OfQuery(p)
      BY <1>2, RightIs
    <3>4. ASSUME NEW x \in AppendPath(r, p) PROVE x \in RightPaths
      <4>1. OfQuery(x)
        BY <3>1, <3>3, <3>4, PathAppended
      <4> QED BY <1>2, <4>1, RightIs
    <3> QED BY <3>2, <3>4
  <2> HIDE DEF T, candidates
  <2>3. IsSequence(candidates) /\ \A i \in DOMAIN candidates : candidates[i] \in T
    BY <2>1, SequenceOf
  <2> QED BY <2>2, <2>3 DEF candidates
<1> QED BY <1>1, <1>2

-----------------------------------------------------------------------------

LEMMA InitialRight ==
  ASSUME task \in 1..LastTask
  PROVE  /\ IsSequence(InitialPaths)
         /\ \A i \in DOMAIN InitialPaths : InitialPaths[i] \in RightPaths
<1>0. Len(Files) \in Nat \ {0}
  BY StitcherAssumption
<1>1. CASE Querying
  <2> DEFINE references == InOrder(References)
             n == Len(references)
             from == <<Reference>>
             paths == [i \in DOMAIN from |-> Eliminate(FromNode(from[i]))]
  <2>1. InitialPaths = paths
    BY <1>1 DEF InitialPaths
  <2>2. references \in Seq(Nodes \cap References)
    BY InOrderIs
  <2>3. Reference = references[task - Len(Files)] /\ LastTask = Len(Files) + n
    BY DEF Reference, LastTask
  <2> HIDE DEF references
  <2>4. IsSequence(references) /\ n \in Nat /\ DOMAIN references = 1..n
    BY <2>2, SequenceOf, SequenceIs
  <2> HIDE DEF n
  <2>5. task - Len(Files) \in 1..n
    BY <1>0, <1>1, <2>3, <2>4 DEF Querying
  <2>6. Reference \in References
    BY <2>2, <2>3, <2>4, <2>5
  <2>7. from[1] = Reference /\ DOMAIN from = {1} /\ IsSequence(from)
    BY OneIs, SequenceIs
  <2> HIDE DEF from
  <2>8. ASSUME NEW i \in DOMAIN from PROVE Eliminate(FromNode(from[i])) \in RightPaths
    <3>1. OfQuery(Eliminate(FromNode(from[i])))
      BY <2>6, <2>7, <2>8, ReferenceStarts
    <3> QED BY <1>1, <3>1, RightIs
  <2>9. DOMAIN paths = DOMAIN from /\ paths = [i \in DOMAIN paths |-> paths[i]]
        /\ \A i \in DOMAIN from : paths[i] \in RightPaths
    BY <2>8
  <2> HIDE DEF paths
  <2>10. IsSequence(paths)
    BY <2>7, <2>9, MappedIs
  <2> QED BY <2>1, <2>9, <2>10
<1>2. CASE ~Querying
  <2> DEFINE U == {n \in Nodes : FileOf[n] = Files[task] /\ Endpoint(n)}
             E == {n \in Nodes : Endpoint(n)}
             inFile == InOrder(U)
             root == <<Root>>
             from == inFile \o root
             paths == [i \in DOMAIN from |-> FromNode(from[i])]
  <2>1. InitialPaths = paths
    BY <1>2 DEF InitialPaths
  <2>2. Nodes \cap U \subseteq E
    OBVIOUS
  <2>3. inFile \in Seq(Nodes \cap U)
    BY InOrderIs
  <2>4. inFile \in Seq(E)
    <3> DEFINE V == Nodes \cap U
    <3>1. inFile \in Seq(V) /\ V \subseteq E
      BY <2>2, <2>3
    <3> HIDE DEF V, E, inFile
    <3> QED BY <3>1, SeqWithin
  <2>5. root \in Seq(E)
    <3>1. Root \in E
      BY RootIs
    <3> HIDE DEF E
    <3>2. IsSequence(root) /\ root[1] = Root /\ DOMAIN root = 1..1
      BY OneIs
    <3>3. ToSet(root) \subseteq E
      BY <3>1 DEF ToSet
    <3> QED BY <3>2, <3>3, MembersIs
  <2> HIDE DEF inFile, root
  <2>6. from \in Seq(E)
    <3> HIDE DEF E
    <3> QED BY <2>4, <2>5, ConcatProperties
  <2> HIDE DEF from
  <2>7. IsSequence(from) /\ \A i \in DOMAIN from : from[i] \in E
    <3> HIDE DEF E
    <3> QED BY <2>6, SequenceOf
  <2>8. ASSUME NEW i \in DOMAIN from PROVE FromNode(from[i]) \in RightPaths
    <3>1. MadeOfEdges(FromNode(from[i]), EveryStack)
      BY <2>7, <2>8, NodeMade
    <3> QED BY <1>2, <3>1, RightIs
  <2>9. DOMAIN paths = DOMAIN from /\ paths = [i \in DOMAIN paths |-> paths[i]]
        /\ \A i \in DOMAIN from : paths[i] \in RightPaths
    BY <2>8
  <2> HIDE DEF paths
  <2>10. IsSequence(paths)
    BY <2>7, <2>9, MappedIs
  <2> QED BY <2>1, <2>9, <2>10
<1> QED BY <1>1, <1>2

-----------------------------------------------------------------------------

(* A sequence of items whose paths are in a set. *)
AllIn(items, R) == IsSequence(items) /\ \A x \in ToSet(items) : x.path \in R

LEMMA IInvIs ==
  IInv(EveryStack) <=>
    /\ graph \in Graphs /\ task \in 1..LastTask
    /\ step = "begin" => queue = <<>> /\ next = <<>>
    /\ AllIn(queue, RightPaths) /\ AllIn(next, RightPaths)
    /\ stored \in Seq(Good) /\ database \in Seq(Good)
<1>1. stored \in Seq(Good) <=>
        IsSequence(stored) /\ \A p \in ToSet(stored) : MadeOfEdges(p, EveryStack)
  BY MembersIs, GoodIs
<1>2. database \in Seq(Good) <=>
        IsSequence(database) /\ \A p \in ToSet(database) : MadeOfEdges(p, EveryStack)
  BY MembersIs, GoodIs
<1>3. AllIn(queue, RightPaths) <=>
        IsSequence(queue) /\ \A x \in ToSet(queue) : Right(x.path, EveryStack)
  BY RightIs DEF AllIn
<1>4. AllIn(next, RightPaths) <=>
        IsSequence(next) /\ \A x \in ToSet(next) : Right(x.path, EveryStack)
  BY RightIs DEF AllIn
<1> QED BY <1>1, <1>2, <1>3, <1>4 DEF IInv

LEMMA RightPathsNext ==
  ASSUME task' = task
  PROVE  RightPaths' = RightPaths
BY DEF RightPaths, Right, Querying

LEMMA IInvNext ==
  ASSUME graph' \in Graphs, task' \in 1..LastTask,
         step' = "begin" => queue' = <<>> /\ next' = <<>>,
         AllIn(queue', RightPaths'), AllIn(next', RightPaths'),
         stored' \in Seq(Good), database' \in Seq(Good)
  PROVE  IInv(EveryStack)'
<1>1. ASSUME NEW p \in RightPaths' PROVE Right(p, EveryStack)'
  BY DEF RightPaths
<1>2. \A x \in ToSet(queue') \cup ToSet(next') : Right(x.path, EveryStack)'
  BY <1>1 DEF AllIn
<1>3. IsSequence(stored') /\ IsSequence(database')
      /\ \A p \in ToSet(stored') \cup ToSet(database') : MadeOfEdges(p, EveryStack)
  BY MembersIs, GoodIs
<1>4. IsSequence(queue') /\ IsSequence(next')
  BY DEF AllIn
<1>5. LastTask' = LastTask
  BY DEF LastTask
<1> QED BY <1>2, <1>3, <1>4, <1>5 DEF IInv

LEMMA AllInEmpty ==
  ASSUME NEW R
  PROVE  AllIn(<<>>, R)
BY EmptyIs DEF AllIn, ToSet

LEMMA AllInConcat ==
  ASSUME NEW R, NEW s, AllIn(s, R), NEW t, AllIn(t, R)
  PROVE  AllIn(s \o t, R)
<1> DEFINE S == {x \in ToSet(s) \cup ToSet(t) : x.path \in R}
<1>1. s \in Seq(S)
  BY MembersIs DEF AllIn
<1>2. t \in Seq(S)
  BY MembersIs DEF AllIn
<1> HIDE DEF S
<1>3. s \o t \in Seq(S)
  BY <1>1, <1>2, ConcatProperties
<1>4. IsSequence(s \o t) /\ ToSet(s \o t) \subseteq S
  BY <1>3, MembersIs
<1> QED BY <1>4 DEF S, AllIn

LEMMA AllInTail ==
  ASSUME NEW R, NEW s, AllIn(s, R), s # <<>>
  PROVE  AllIn(Tail(s), R) /\ s[1].path \in R
<1> DEFINE S == ToSet(s)
<1>1. s \in Seq(S)
  BY SequenceIs DEF AllIn
<1>2. \A x \in S : x.path \in R
  BY DEF AllIn
<1> HIDE DEF S
<1>3. Tail(s) \in Seq(S) /\ s[1] \in S
  BY <1>1
<1>4. IsSequence(Tail(s)) /\ ToSet(Tail(s)) \subseteq S
  BY <1>3, MembersIs
<1> QED BY <1>2, <1>3, <1>4 DEF AllIn

LEMMA AllInPaths ==
  ASSUME NEW R, NEW s, AllIn(s, R)
  PROVE  PathsOf(s) \in Seq(R)
<1> DEFINE t == PathsOf(s)
<1>1. IsSequence(s) /\ \A i \in DOMAIN s : s[i].path \in R
  BY DEF AllIn, ToSet
<1>2. DOMAIN t = DOMAIN s /\ t = [i \in DOMAIN t |-> t[i]] /\ \A i \in DOMAIN s : t[i] = s[i].path
  BY DEF PathsOf
<1> HIDE DEF t
<1>3. IsSequence(t)
  BY <1>1, <1>2, MappedIs
<1>4. ToSet(t) \subseteq R
  BY <1>1, <1>2 DEF ToSet
<1>5. t \in Seq(R)
  BY <1>3, <1>4, MembersIs
<1> QED BY <1>5 DEF t

-----------------------------------------------------------------------------

LEMMA LastTaskIs ==
  LastTask \in Nat /\ LastTask >= 1
<1> DEFINE references == InOrder(References)
<1>1. references \in Seq(Nodes \cap References)
  BY InOrderIs
<1> HIDE DEF references
<1>2. Len(references) \in Nat
  BY <1>1
<1>3. LastTask = Len(Files) + Len(references)
  BY DEF LastTask, references
<1>4. Len(Files) \in Nat \ {0}
  BY StitcherAssumption
<1> QED BY <1>2, <1>3, <1>4

LEMMA InitRight ==
  ASSUME Init PROVE IInv(EveryStack)
<1>1. task \in 1..LastTask
  BY LastTaskIs DEF Init
<1>2. AllIn(<<>>, RightPaths) /\ <<>> \in Seq(Good)
  BY AllInEmpty, EmptySeq
<1> QED BY <1>1, <1>2, IInvIs DEF Init

LEMMA BeginRight ==
  ASSUME IInv(EveryStack), Begin
  PROVE  IInv(EveryStack)'
<1> DEFINE paths == InitialPaths
           items == [i \in DOMAIN paths |-> Item(paths[i], <<paths[i]>>, FALSE)]
           R == RightPaths
<1>1. IsSequence(paths) /\ \A i \in DOMAIN paths : paths[i] \in R
  BY InitialRight, IInvIs
<1>2. next' = items /\ queue' = queue /\ queue = <<>> /\ task' = task /\ step' = "phase" /\ graph' = graph
      /\ stored' = stored /\ (database' = stored \/ database' = database)
  BY IInvIs DEF Begin
<1> HIDE DEF paths, R
<1>3. DOMAIN items = DOMAIN paths /\ items = [i \in DOMAIN items |-> items[i]]
      /\ \A i \in DOMAIN paths : items[i].path = paths[i]
  BY DEF Item
<1> HIDE DEF items
<1>4. AllIn(items, R)
  BY <1>1, <1>3, MappedIs DEF AllIn, ToSet
<1>5. AllIn(queue', R)
  BY <1>2, AllInEmpty
<1>6. R = RightPaths'
  BY <1>2, RightPathsNext DEF R
<1> QED BY <1>2, <1>4, <1>5, <1>6, IInvIs, IInvNext

LEMMA StartPhaseRight ==
  ASSUME IInv(EveryStack), StartPhase
  PROVE  IInv(EveryStack)'
<1> DEFINE R == RightPaths
           paths == PathsOf(next)
<1>1. /\ AllIn(next, R) /\ AllIn(queue, R) /\ stored \in Seq(Good) /\ database \in Seq(Good)
      /\ graph \in Graphs /\ task \in 1..LastTask
  BY IInvIs
<1>2. /\ next' = <<>> /\ queue' = queue \o next /\ task' = task /\ step' = "extend" /\ graph' = graph
      /\ stored' = stored
      /\ database' = Load(paths).database \/ database' = database
  BY DEF StartPhase
<1>3. \A p \in R : p \in Paths
  BY RightIs
<1>4. paths \in Seq(R)
  BY <1>1, AllInPaths
<1>5. R = RightPaths'
  BY <1>2, RightPathsNext
<1> HIDE DEF R, paths
<1>6. IsSequence(paths) /\ \A i \in DOMAIN paths : paths[i] \in Paths
  BY <1>3, <1>4, SequenceOf
<1>7. Load(paths).database \in Seq(Good)
  BY <1>1, <1>6, LoadGood
<1>8. AllIn(queue', R) /\ AllIn(next', R)
  BY <1>1, <1>2, AllInEmpty, AllInConcat
<1> QED BY <1>1, <1>2, <1>5, <1>7, <1>8, IInvNext

LEMMA SkipRight ==
  ASSUME IInv(EveryStack), Skip
  PROVE  IInv(EveryStack)'
<1> DEFINE R == RightPaths
<1>1. /\ AllIn(next, R) /\ AllIn(queue, R) /\ stored \in Seq(Good) /\ database \in Seq(Good)
      /\ graph \in Graphs /\ task \in 1..LastTask
  BY IInvIs
<1>2. /\ queue # <<>> /\ queue' = Tail(queue) /\ next' = next /\ task' = task /\ graph' = graph
      /\ stored' = stored /\ database' = database /\ step' = step /\ step = "extend"
  BY DEF Skip, TakesFirst, PhaseGoesOn
<1>3. R = RightPaths'
  BY <1>2, RightPathsNext
<1> HIDE DEF R
<1>4. AllIn(queue', R)
  BY <1>1, <1>2, AllInTail
<1> QED BY <1>1, <1>2, <1>3, <1>4, IInvNext

LEMMA KeptRight ==
  ASSUME graph \in Graphs, database \in Seq(Good), NEW item, item.path \in RightPaths
  PROVE  AllIn(Filtered(Extensions(item, CandidatesFor(item.path))).items, RightPaths)
<1> DEFINE candidates == CandidatesFor(item.path)
           extensions == Extensions(item, candidates)
           S == ToSet(extensions)
           R == RightPaths
           items == Filtered(extensions).items
<1>1. IsSequence(candidates) /\ \A i \in DOMAIN candidates : AppendTo(candidates[i], item.path) \subseteq R
  BY CandidatesAppend
<1> HIDE DEF candidates, R
<1>2. IsSequence(extensions) /\ \A x \in S : x.path \in R
  BY <1>1, ExtensionsAre
<1>3. extensions \in Seq(S)
  BY <1>2, SequenceIs
<1> HIDE DEF extensions, S
<1>4. items \in Seq(S)
  BY <1>3, FilteredIs
<1> HIDE DEF items
<1>5. AllIn(items, R)
  BY <1>2, <1>4, MembersIs DEF AllIn
<1> QED BY <1>5 DEF items, extensions, candidates, R

LEMMA ExtendRight ==
  ASSUME IInv(EveryStack), Extend
  PROVE  IInv(EveryStack)'
<1> DEFINE R == RightPaths
           item == queue[1]
           items == Filtered(Extensions(item, CandidatesFor(item.path))).items
<1>1. /\ AllIn(next, R) /\ AllIn(queue, R) /\ stored \in Seq(Good) /\ database \in Seq(Good)
      /\ graph \in Graphs /\ task \in 1..LastTask
  BY IInvIs
<1>2. /\ queue # <<>> /\ queue' = Tail(queue) /\ task' = task /\ graph' = graph
      /\ stored' = stored /\ database' = database /\ step' = step /\ step = "extend"
  BY DEF Extend, Extends, TakesFirst, PhaseGoesOn
<1>3. next' = next \/ next' = next \o items
  BY DEF Extend
<1>4. R = RightPaths'
  BY <1>2, RightPathsNext
<1> HIDE DEF item
<1>5. AllIn(queue', R) /\ item.path \in R
  BY <1>1, <1>2, AllInTail DEF item
<1>6. AllIn(items, R)
  BY <1>1, <1>5, KeptRight
<1> HIDE DEF R, items
<1>7. AllIn(next', R)
  BY <1>1, <1>3, <1>6, AllInConcat
<1> QED BY <1>1, <1>2, <1>4, <1>5, <1>7, IInvNext

LEMMA EndPhaseRight ==
  ASSUME IInv(EveryStack), EndPhase
  PROVE  IInv(EveryStack)'
<1> DEFINE R == RightPaths
           paths == PathsOf(next)
           visited == Visited(paths)
<1>1. /\ AllIn(next, R) /\ AllIn(queue, R) /\ stored \in Seq(Good) /\ database \in Seq(Good)
      /\ graph \in Graphs /\ task \in 1..LastTask
  BY IInvIs
<1>2. /\ queue' = queue /\ next' = next /\ task' = task /\ graph' = graph
      /\ stored' = (IF Querying THEN stored ELSE stored \o visited)
      /\ database' = database /\ step' = "phase"
  BY DEF EndPhase
<1>3. R = RightPaths'
  BY <1>2, RightPathsNext
<1>4. paths \in Seq(R)
  BY <1>1, AllInPaths
<1>5. ~Querying => \A p \in R : p \in Good
  BY RightIs
<1> HIDE DEF R, paths
<1>6. CASE Querying
  BY <1>1, <1>2, <1>3, <1>6, IInvNext
<1>7. CASE ~Querying
  <2> DEFINE U == {p \in ToSet(paths) : Accepted(p)}
  <2>1. visited = Only(paths, U)
    BY DEF Visited
  <2> HIDE DEF U
  <2>2. \A x \in R \cap U : x \in Good
    BY <1>5, <1>7
  <2>3. visited \in Seq(Good)
    BY <1>4, <2>1, <2>2, OnlyWithin
  <2> HIDE DEF visited
  <2>4. stored \o visited \in Seq(Good)
    BY <1>1, <2>3, ConcatProperties
  <2> QED BY <1>1, <1>2, <1>3, <1>7, <2>4, IInvNext
<1> QED BY <1>6, <1>7

LEMMA FinishRight ==
  ASSUME IInv(EveryStack), Finish
  PROVE  IInv(EveryStack)'
<1>1. /\ stored \in Seq(Good) /\ database \in Seq(Good)
      /\ graph \in Graphs /\ task \in 1..LastTask
  BY IInvIs
<1>2. /\ queue' = <<>> /\ next' = <<>> /\ graph' = graph /\ stored' = stored /\ database' = database
      /\ task' = (IF task = LastTask THEN task ELSE task + 1)
  BY DEF Finish, Complete
<1>3. task' \in 1..LastTask
  BY <1>1, <1>2, LastTaskIs
<1>4. AllIn(<<>>, RightPaths')
  BY AllInEmpty
<1> QED BY <1>1, <1>2, <1>3, <1>4, IInvNext

LEMMA SameRight ==
  ASSUME IInv(EveryStack), UNCHANGED <<graph, task, queue, next, stored, database>>,
         step' = "begin" => step = "begin"
  PROVE  IInv(EveryStack)'
<1>1. RightPaths' = RightPaths
  BY RightPathsNext
<1> QED BY <1>1, IInvIs, IInvNext

LEMMA StepRight ==
  ASSUME IInv(EveryStack), [Next]_vars
  PROVE  IInv(EveryStack)'
<1>1. CASE Cancel
  BY <1>1, SameRight DEF Cancel
<1>2. CASE UNCHANGED vars
  BY <1>2, SameRight DEF vars
<1> QED BY <1>1, <1>2, BeginRight, StartPhaseRight, SkipRight, ExtendRight, EndPhaseRight, FinishRight
           DEF Next, Over

-----------------------------------------------------------------------------
(* What the invariant implies. *)

ScopesFilled(p, c, scopes) == {st.items \o ScopesFor(p, c, st.variable) : st \in scopes}
SymbolFilled(p, c, x) == [x EXCEPT !.scopes = ScopesFilled(p, c, @)]

LEMMA SymbolUngrounded ==
  ASSUME NEW x \in ConcreteSymbols, NEW p, NEW c
  PROVE  SymbolFilled(p, c, GroundSymbol(x)) = x
<1> DEFINE G == {Stack(s, 0) : s \in x.scopes}
           F == ScopesFilled(p, c, G)
<1>1. x = [symbol |-> x.symbol, scopes |-> x.scopes] /\ x.scopes \subseteq Seq(ExportedScopes)
  BY DEF ConcreteSymbols
<1>2. ASSUME NEW s \in x.scopes
      PROVE  Stack(s, 0).items \o ScopesFor(p, c, Stack(s, 0).variable) = s
  <2>1. s \in Seq(ExportedScopes)
    BY <1>1
  <2>2. s \o <<>> = s
    BY <2>1, ConcatEmptySeq
  <2>3. Stack(s, 0).items = s /\ Stack(s, 0).variable = 0
    BY DEF Stack
  <2>4. ScopesFor(p, c, 0) = <<>>
    BY DEF ScopesFor
  <2> QED BY <2>2, <2>3, <2>4
<1>3. F = x.scopes
  BY <1>2 DEF ScopesFilled
<1>4. GroundSymbol(x) = [symbol |-> x.symbol, scopes |-> G]
  BY DEF GroundSymbol
<1> HIDE DEF G, F
<1>5. SymbolFilled(p, c, GroundSymbol(x)) = [symbol |-> x.symbol, scopes |-> F]
  BY <1>4 DEF SymbolFilled, F
<1> QED BY <1>1, <1>3, <1>5

LEMMA SymbolsUngrounded ==
  ASSUME NEW t \in Seq(ConcreteSymbols), NEW p, NEW c
  PROVE  [i \in DOMAIN GroundSymbols(t) |-> SymbolFilled(p, c, GroundSymbols(t)[i])] = t
<1> DEFINE items == GroundSymbols(t)
<1>1. t = [i \in DOMAIN t |-> t[i]]
  BY SequenceOf, SequenceIs
<1>2. \A i \in DOMAIN t : t[i] \in ConcreteSymbols
  BY SequenceOf, SequenceIs
<1>3. DOMAIN items = DOMAIN t /\ \A i \in DOMAIN t : items[i] = GroundSymbol(t[i])
  BY DEF GroundSymbols
<1> HIDE DEF items
<1>4. ASSUME NEW i \in DOMAIN t PROVE SymbolFilled(p, c, items[i]) = t[i]
  BY <1>2, <1>3, SymbolUngrounded
<1>5. [i \in DOMAIN items |-> SymbolFilled(p, c, items[i])] = t
  BY <1>1, <1>3, <1>4
<1> QED BY <1>5 DEF items

(* The path of a query turns empty stacks into those of its nodes. *)
LEMMA QueryMeans ==
  ASSUME NEW p, OfQuery(p)
  PROVE  Means(p, {Concrete(<<>>, <<>>)})
<1> DEFINE nothing == Concrete(<<>>, <<>>)
<1>1. PICK c : Ends(p, c)
  BY OfQueryIs
<1>2. /\ Walk(NodesOf(p), nothing) = {c}
      /\ p.symbolPre = EmptyStack /\ p.scopePre = EmptyStack
      /\ c.symbols \in Seq(ConcreteSymbols) /\ c.scopes \in Seq(ExportedScopes)
      /\ c = [symbols |-> c.symbols, scopes |-> c.scopes]
      /\ p.symbolPost = Stack(GroundSymbols(c.symbols), 0) /\ p.scopePost = Stack(c.scopes, 0)
  BY <1>1, EndsAtStack DEF Ends, KnownSymbols
<1>3. EmptyStack.items = <<>> /\ EmptyStack.variable = 0
  BY DEF EmptyStack, Stack
<1>4. nothing.symbols = <<>> /\ nothing.scopes = <<>>
  BY DEF Concrete
<1>5. IsPrefix(<<>>, <<>>)
  BY EmptyIs DEF IsPrefix
<1>6. Covers(p.scopePre, nothing.scopes)
  BY <1>2, <1>3, <1>4, <1>5 DEF Covers
<1> HIDE DEF nothing
<1>7. Accepts(p, nothing)
  BY <1>2, <1>3, <1>4, <1>6, EmptyIs DEF Accepts
<1> DEFINE items == p.symbolPost.items
           symbols == [i \in DOMAIN items |->
                         SymbolFilled(p, nothing, items[i])]
<1>8. items = GroundSymbols(c.symbols) /\ p.symbolPost.variable = 0
      /\ p.scopePost.items = c.scopes /\ p.scopePost.variable = 0
  BY <1>2 DEF Stack
<1>9. symbols = c.symbols
  BY <1>2, <1>8, SymbolsUngrounded
<1>10. ScopesFor(p, nothing, 0) = <<>>
  BY DEF ScopesFor
<1>11. ResultOf(p, nothing) = Concrete(symbols \o <<>>, p.scopePost.items \o ScopesFor(p, nothing, 0))
  BY <1>8 DEF ResultOf, SymbolFilled, ScopesFilled
<1> HIDE DEF symbols, items
<1>12. c.symbols \o <<>> = c.symbols /\ c.scopes \o <<>> = c.scopes
  BY <1>2, ConcatEmptySeq
<1>13. ResultOf(p, nothing) = c
  BY <1>2, <1>8, <1>9, <1>10, <1>11, <1>12 DEF Concrete
<1>14. ApplyPath(p, nothing) = Walk(NodesOf(p), nothing)
  BY <1>2, <1>7, <1>13 DEF ApplyPath
<1> QED BY <1>14 DEF Means, nothing

-----------------------------------------------------------------------------

LEMMA PreVariablesAre ==
  ASSUME NEW p \in Paths
  PROVE  LET n == Len(p.symbolPre.items)
             pre == ScopeVariablesPre(p)
         IN  /\ n \in Nat /\ DOMAIN pre = 1..n + 1
             /\ \A i \in 1..n :
                  pre[i] = {st.variable : st \in p.symbolPre.items[i].scopes} \ {0}
             /\ pre[n + 1] = {p.scopePre.variable} \ {0}
<1> DEFINE items == p.symbolPre.items
           n == Len(items)
           V(i) == {st.variable : st \in items[i].scopes} \ {0}
           s == [i \in DOMAIN items |-> V(i)]
           w == {p.scopePre.variable} \ {0}
           t == <<w>>
<1>1. IsSequence(items)
  BY PathTyped, SequenceOf
<1>2. ScopeVariablesPre(p) = s \o t
  BY DEF ScopeVariablesPre
<1> HIDE DEF V, w
<1>3. DOMAIN s = DOMAIN items /\ s = [i \in DOMAIN s |-> s[i]] /\ \A i \in DOMAIN items : s[i] = V(i)
  OBVIOUS
<1>4. DOMAIN items = 1..n /\ n \in Nat
  BY <1>1, SequenceIs
<1>5. IsSequence(t) /\ Len(t) = 1 /\ t[1] = w
  BY OneIs
<1> HIDE DEF s, t, items
<1>6. IsSequence(s) /\ Len(s) = n /\ n \in Nat
  BY <1>1, <1>3, <1>4, MappedIs
<1>7. IsSequence(s \o t) /\ Len(s \o t) = n + 1 /\ (\A i \in 1..n : (s \o t)[i] = s[i])
      /\ (s \o t)[n + 1] = w
  <2>1. /\ IsSequence(s \o t) /\ Len(s \o t) = Len(s) + Len(t)
        /\ \A i \in 1..Len(s) : (s \o t)[i] = s[i]
        /\ \A i \in 1..Len(t) : (s \o t)[Len(s) + i] = t[i]
    <3>1. IsSequence(s) /\ IsSequence(t)
      BY <1>5, <1>6
    <3> QED BY ONLY <3>1, ConcatIs
  <2>2. 1 \in 1..Len(t)
    BY <1>5
  <2>3. (s \o t)[Len(s) + 1] = t[1]
    BY <2>1, <2>2
  <2> HIDE DEF n
  <2> QED BY <1>5, <1>6, <2>1, <2>3
<1>8. DOMAIN (s \o t) = 1..n + 1
  BY <1>7, SequenceIs
<1> HIDE DEF n
<1>9. /\ n \in Nat /\ DOMAIN (s \o t) = 1..n + 1
      /\ \A i \in 1..n : (s \o t)[i] = V(i)
      /\ (s \o t)[n + 1] = w
  BY <1>3, <1>4, <1>6, <1>7, <1>8
<1> QED BY <1>2, <1>9 DEF V, w, n, items

LEMMA EdgesWellFormed ==
  ASSUME NEW p, MadeOfEdges(p, EveryStack)
  PROVE  WellFormed(p)
<1>1. Open(p) /\ StartFits(p) /\ EndFits(p) /\ p \in Paths
  BY OpenIs DEF MadeOfEdges
<1> DEFINE items == p.symbolPre.items
           n == Len(items)
           pre == ScopeVariablesPre(p)
           post == UNION {{st.variable : st \in p.symbolPost.items[i].scopes} :
                            i \in DOMAIN p.symbolPost.items}
<1>2. /\ p.scopePre.variable = 1
      /\ p.symbolPre.variable = 1 /\ p.symbolPost.variable = 1
      /\ \A i, j \in 1..n : \A s \in items[i].scopes : \A t \in items[j].scopes :
           s.variable \notin {0, 1} /\ (s.variable = t.variable => i = j)
  BY <1>1, OpenIs DEF FromVariable, Stack
<1>3. /\ n \in Nat /\ DOMAIN pre = 1..n + 1 /\ pre[n + 1] = {p.scopePre.variable} \ {0}
      /\ \A i \in 1..n : pre[i] = {st.variable : st \in items[i].scopes} \ {0}
  BY <1>1, PreVariablesAre
<1>4. DOMAIN items = 1..n
  BY <1>1, PathTyped, SequenceOf, SequenceIs
<1>5. (post \cup {p.scopePost.variable}) \ {0, 1} \subseteq
        UNION {{s.variable : s \in items[i].scopes} : i \in DOMAIN items}
  BY <1>1 DEF Open, ScopeVariablesPost, ScopeVariables
<1> HIDE DEF items, n, pre, post
<1>6. pre[n + 1] = {1}
  BY <1>2, <1>3
<1>7. ASSUME NEW i \in DOMAIN pre, NEW j \in DOMAIN pre, i # j
      PROVE  pre[i] \cap pre[j] = {}
  <2>1. CASE i \in 1..n /\ j \in 1..n
    BY <1>2, <1>3, <1>7, <2>1
  <2>2. CASE i = n + 1 /\ j \in 1..n
    BY <1>2, <1>3, <1>6, <2>2
  <2>3. CASE j = n + 1 /\ i \in 1..n
    BY <1>2, <1>3, <1>6, <2>3
  <2>4. ~(i = n + 1 /\ j = n + 1)
    BY <1>7
  <2>5. (i \in 1..n \/ i = n + 1) /\ (j \in 1..n \/ j = n + 1)
    BY <1>3
  <2> QED BY <2>1, <2>2, <2>3, <2>4, <2>5
<1>8. ASSUME NEW v \in (post \cup {p.scopePost.variable}) \ {0}
      PROVE  v \in UNION ToSet(pre)
  <2>1. CASE v = 1
    <3>1. n + 1 \in DOMAIN pre
      BY <1>3
    <3> QED BY <1>6, <2>1, <3>1 DEF ToSet
  <2>2. CASE v # 1
    <3>1. PICK i \in DOMAIN items : v \in {s.variable : s \in items[i].scopes}
      BY <1>5, <2>2
    <3>2. i \in DOMAIN pre /\ v \in pre[i]
      BY <1>3, <1>4, <3>1
    <3> QED BY <3>2 DEF ToSet
  <2> QED BY <2>1, <2>2
<1>9. HalfOpens(p.symbolPost, p.end, Pushes)
  BY <1>1 DEF EndFits
<1>10. HalfOpens(p.symbolPre, p.start, Pops)
  BY <1>1 DEF StartFits, HalfOpens, CanMatchEmpty, Scoped
<1>11. (post \cup {p.scopePost.variable}) \ {0} \subseteq UNION ToSet(pre)
  BY <1>8
<1>12. p.symbolPost.variable \in {0, p.symbolPre.variable}
  BY <1>2
<1> QED BY <1>7, <1>9, <1>10, <1>11, <1>12 DEF WellFormed, pre, post

LEMMA QueryEndPushes ==
  ASSUME NEW p, NEW c, Ends(p, c)
  PROVE  HalfOpens(p.symbolPost, p.end, Pushes)
<1> SUFFICES ASSUME KindOf[p.end] \in Pushes
             PROVE  /\ p.symbolPost.items # <<>> /\ p.symbolPost.items[1].symbol = SymbolOf[p.end]
                    /\ KindOf[p.end] # "pop scoped symbol"
  BY DEF HalfOpens, CanMatchEmpty
<1>1. /\ c.symbols \in Seq(ConcreteSymbols) /\ p.end \in Nodes
      /\ p.symbolPost.items = GroundSymbols(c.symbols)
  <2>1. c.symbols \in Seq(ConcreteSymbols) /\ p.end \in Nodes /\ p.symbolPost = KnownSymbols(c.symbols)
    BY EndsAtStack
  <2>2. KnownSymbols(c.symbols).items = GroundSymbols(c.symbols)
    BY DEF KnownSymbols, Stack
  <2> QED BY <2>1, <2>2
<1>2. PICK e \in EveryStack : VisitConcretely(p.end, e) = {c}
  BY EndsAtStack
<1>3. e.symbols \in Seq(ConcreteSymbols)
  BY ConcreteIs
<1>4. \E x : c.symbols = Pushed(x, e.symbols) /\ x.symbol = SymbolOf[p.end]
  <2>1. CASE KindOf[p.end] = "push symbol"
    <3> DEFINE x == [symbol |-> SymbolOf[p.end], scopes |-> {}]
               d == [symbols |-> Pushed(x, e.symbols), scopes |-> e.scopes]
    <3>1. VisitConcretely(p.end, e) = {d}
      BY <1>1, <2>1, VisitPushesPlain
    <3>2. x.symbol = SymbolOf[p.end] /\ d.symbols = Pushed(x, e.symbols)
      OBVIOUS
    <3> HIDE DEF x, d
    <3> QED BY <1>2, <3>1, <3>2
  <2>2. CASE KindOf[p.end] = "push scoped symbol"
    <3> DEFINE x == [symbol |-> SymbolOf[p.end], scopes |-> {Pushed(ScopeOf[p.end], e.scopes)}]
               d == [symbols |-> Pushed(x, e.symbols), scopes |-> e.scopes]
    <3>0. ScopeOf[p.end] \in Nodes
      <4>1. VisitConcretely(p.end, e) # {}
        BY <1>2
      <4> QED BY <1>1, <2>2, <4>1, VisitCases
    <3>1. VisitConcretely(p.end, e) = {d}
      BY <1>1, <2>2, <3>0, VisitPushesScoped
    <3>2. x.symbol = SymbolOf[p.end] /\ d.symbols = Pushed(x, e.symbols)
      OBVIOUS
    <3> HIDE DEF x, d
    <3> QED BY <1>2, <3>1, <3>2
  <2> QED BY <2>1, <2>2 DEF Pushes
<1>5. PICK x : c.symbols = Pushed(x, e.symbols) /\ x.symbol = SymbolOf[p.end]
  BY <1>4
<1>6. /\ IsSequence(c.symbols) /\ c.symbols[1] = x /\ Len(c.symbols) = Len(e.symbols) + 1
      /\ Len(e.symbols) \in Nat
  BY <1>3, <1>5, PushedAt, SequenceOf, SequenceIs
<1>7. /\ Len(GroundSymbols(c.symbols)) = Len(c.symbols)
      /\ \A i \in 1..Len(c.symbols) : GroundSymbols(c.symbols)[i] = GroundSymbol(c.symbols[i])
  BY <1>1, GroundSymbolsIs
<1>8. 1 \in 1..Len(c.symbols) /\ Len(c.symbols) # 0
  BY <1>6
<1>9. GroundSymbols(c.symbols)[1].symbol = SymbolOf[p.end]
  <2>1. GroundSymbols(c.symbols)[1] = GroundSymbol(x)
    BY <1>6, <1>7, <1>8
  <2>2. GroundSymbol(x).symbol = x.symbol
    BY DEF GroundSymbol
  <2> QED BY <1>5, <2>1, <2>2
<1> QED BY <1>1, <1>7, <1>8, <1>9, EmptyIs DEF Pushes

LEMMA QueryWellFormed ==
  ASSUME NEW p, OfQuery(p)
  PROVE  WellFormed(p)
<1>1. PICK c : Ends(p, c)
  BY OfQueryIs
<1>2. /\ p \in Paths /\ KindOf[p.start] \in Pushes
      /\ p.symbolPre.items = <<>> /\ p.symbolPre.variable = 0 /\ p.scopePre.variable = 0
      /\ c.symbols \in Seq(ConcreteSymbols)
      /\ p.symbolPost.items = GroundSymbols(c.symbols) /\ p.symbolPost.variable = 0
      /\ p.scopePost.variable = 0
  <2>1. /\ p \in Paths /\ KindOf[p.start] \in Pushes
        /\ p.symbolPre = EmptyStack /\ p.scopePre = EmptyStack
    BY <1>1 DEF Ends
  <2>2. /\ c.symbols \in Seq(ConcreteSymbols)
        /\ p.symbolPost = KnownSymbols(c.symbols) /\ p.scopePost = Stack(c.scopes, 0)
    BY <1>1, EndsAtStack
  <2>3. EmptyStack.items = <<>> /\ EmptyStack.variable = 0
    BY DEF EmptyStack, Stack
  <2>4. KnownSymbols(c.symbols).items = GroundSymbols(c.symbols) /\ KnownSymbols(c.symbols).variable = 0
    BY DEF KnownSymbols, Stack
  <2>5. Stack(c.scopes, 0).variable = 0
    BY DEF Stack
  <2> QED BY <2>1, <2>2, <2>3, <2>4, <2>5
<1> DEFINE pre == ScopeVariablesPre(p)
           items == p.symbolPost.items
           post == UNION {{st.variable : st \in items[i].scopes} : i \in DOMAIN items}
<1>3. DOMAIN pre = 1..1
  <2>1. DOMAIN pre = 1..Len(p.symbolPre.items) + 1
    BY <1>2, PreVariablesAre
  <2>2. Len(p.symbolPre.items) = 0
    BY <1>2, EmptyIs
  <2> QED BY <2>1, <2>2
<1>4. ASSUME NEW i \in DOMAIN items, NEW st \in items[i].scopes PROVE st.variable = 0
  <2>1. DOMAIN items = DOMAIN c.symbols
    BY <1>2 DEF GroundSymbols
  <2>2. items[i].scopes = {Stack(s, 0) : s \in c.symbols[i].scopes}
    BY <1>2, <2>1 DEF GroundSymbols, GroundSymbol
  <2> QED BY <1>4, <2>2 DEF Stack
<1>5. \A v \in post : v = 0
  BY <1>4
<1> HIDE DEF post, pre
<1>6. (post \cup {p.scopePost.variable}) \ {0} \subseteq UNION ToSet(pre)
  BY <1>2, <1>5
<1>7. \A i, j \in DOMAIN pre : i # j => pre[i] \cap pre[j] = {}
  BY <1>3
<1>8. HalfOpens(p.symbolPost, p.end, Pushes)
  BY <1>1, QueryEndPushes
<1>9. HalfOpens(p.symbolPre, p.start, Pops)
  BY <1>2 DEF HalfOpens, Pushes, Pops
<1> QED BY <1>2, <1>6, <1>7, <1>8, <1>9 DEF WellFormed, pre, post

-----------------------------------------------------------------------------

LEMMA RightMeans ==
  ASSUME IInv(EveryStack)
  PROVE  PathsMean /\ PathsWellFormed
<1>1. AllIn(next, RightPaths)
  BY IInvIs
<1>2. \A c \in Inputs : c \in EveryStack
  BY StitcherAssumption, EveryStackIs
<1>3. ASSUME NEW i \in DOMAIN next
      PROVE  /\ Means(next[i].path, IF Querying THEN {Concrete(<<>>, <<>>)} ELSE Inputs)
             /\ WellFormed(next[i].path)
  <2> DEFINE p == next[i].path
  <2>1. p \in RightPaths
    BY <1>1 DEF AllIn, ToSet
  <2> HIDE DEF p
  <2>2. CASE Querying
    <3>1. OfQuery(p)
      BY <2>1, <2>2, RightIs
    <3>2. Means(p, {Concrete(<<>>, <<>>)}) /\ WellFormed(p)
      BY <3>1, QueryMeans, QueryWellFormed
    <3> QED BY <2>2, <3>2 DEF p
  <2>3. CASE ~Querying
    <3>1. MadeOfEdges(p, EveryStack)
      BY <2>1, <2>3, RightIs
    <3>2. Means(p, EveryStack) /\ WellFormed(p)
      BY <3>1, EdgesWellFormed DEF MadeOfEdges
    <3>3. Means(p, Inputs)
      BY <1>2, <3>2 DEF Means
    <3> QED BY <2>3, <3>2, <3>3 DEF p
  <2> QED BY <2>2, <2>3
<1> QED BY <1>3 DEF PathsMean, PathsWellFormed

(* The invariant holds for every graph of the nodes, whatever the settings. *)
THEOREM PathsAreRight == Spec => []IInv(EveryStack)
<1>1. Init => IInv(EveryStack)
  BY InitRight
<1>2. IInv(EveryStack) /\ [Next]_vars => IInv(EveryStack)'
  BY StepRight
<1> QED BY <1>1, <1>2, PTL DEF Spec

(* Every path that is under construction, in a file or for a query, means   *)
(* what its nodes do to the stacks (append_to_partial_path, concatenate,    *)
(* resolve_to_node, unify): it accepts exactly the stacks that get through. *)
THEOREM PathsAlwaysMean == Spec => []PathsMean
<1>1. IInv(EveryStack) => PathsMean
  BY RightMeans
<1> QED BY <1>1, PathsAreRight, PTL

(* Preconditions stay linear, postconditions have no other variables, and   *)
(* the ends of paths are reflected in them: compute_join can undo the node  *)
(* that two paths share, and unify binds each variable once.                *)
THEOREM PathsAlwaysWellFormed == Spec => []PathsWellFormed
<1>1. IInv(EveryStack) => PathsWellFormed
  BY RightMeans
<1> QED BY <1>1, PathsAreRight, PTL
=============================================================================
