------------------------- MODULE PathMeaning_proofs --------------------------
(***************************************************************************)
(* Proofs about PathMeaning, for any nodes: visiting a node changes what a *)
(* partial path means as it changes concrete stacks, and a path to which   *)
(* an edge is appended still means what its nodes do.                      *)
(***************************************************************************)
EXTENDS PathMeaning, SequenceTheorems, WellFoundedInduction, TLAPS

LEMMA Least ==
  ASSUME NEW T \in SUBSET Nat, T # {}
  PROVE  \E m \in T : \A k \in T : m <= k
<1> DEFINE R == OpToRel(<, Nat)
<1>1. \A x, y \in Nat : x < y => <<x, y>> \in R
  BY DEF OpToRel
<1>2. IsWellFoundedOn(R, Nat)
  BY NatLessThanWellFounded
<1> HIDE DEF R
<1>3. PICK m \in T : \A y \in T : ~ (<<y, m>> \in R)
  BY <1>2, WFMin
<1>4. ASSUME NEW k \in T PROVE m <= k
  <2>1. ~ (<<k, m>> \in R)
    BY <1>3
  <2>2. k \in Nat /\ m \in Nat
    OBVIOUS
  <2>3. ~ (k < m)
    BY <1>1, <2>1, <2>2
  <2> QED BY <2>2, <2>3
<1> QED BY <1>4

(* Induction up to n, of a set of numbers. *)
Climbs(n, T) == 0 \in T /\ \A i \in 1..n : i - 1 \in T => i \in T

LEMMA UpTo ==
  ASSUME NEW n \in Nat, NEW T, Climbs(n, T)
  PROVE  n \in T /\ \A i \in 0..n : i \in T
<1> SUFFICES ASSUME NEW j \in 0..n, j \notin T PROVE FALSE
  OBVIOUS
<1> USE DEF Climbs
<1> DEFINE Missing == {i \in 0..n : i \notin T}
<1>0. Missing \in SUBSET Nat /\ Missing # {}
  OBVIOUS
<1>1. PICK m \in Missing : \A k \in Missing : m <= k
  BY <1>0, Least
<1>2. m \in 1..n /\ m - 1 \in 0..n /\ ~ (m <= m - 1)
  BY <1>1
<1>3. m - 1 \in T
  BY <1>1, <1>2
<1> QED BY <1>1, <1>2, <1>3

-----------------------------------------------------------------------------
(* Sequences *)

LEMMA SequenceIs ==
  ASSUME NEW s, IsSequence(s)
  PROVE  /\ Len(s) \in Nat /\ DOMAIN s = 1..Len(s)
         /\ s = [i \in 1..Len(s) |-> s[i]]
         /\ s \in Seq(ToSet(s))
<1>1. Len(s) \in Nat /\ s = [i \in 1..Len(s) |-> s[i]] /\ DOMAIN s = 1..Len(s)
  BY DEF IsSequence
<1>2. \A i \in 1..Len(s) : s[i] \in ToSet(s)
  BY <1>1 DEF ToSet
<1>3. s \in [1..Len(s) -> ToSet(s)]
  BY <1>1, <1>2
<1> QED BY <1>1, <1>3

LEMMA SequenceOf ==
  ASSUME NEW S, NEW s \in Seq(S) PROVE IsSequence(s)
  BY DEF IsSequence

LEMMA FunctionIsSequence ==
  ASSUME NEW n \in Nat, NEW s, s = [i \in 1..n |-> s[i]]
  PROVE  IsSequence(s) /\ Len(s) = n /\ DOMAIN s = 1..n
<1>1. \A i \in 1..n : s[i] \in {s[j] : j \in 1..n}
  OBVIOUS
<1> DEFINE S == {s[j] : j \in 1..n}
<1>2. s \in [1..n -> S]
  BY <1>1
<1> HIDE DEF S
<1>3. s \in Seq(S) /\ Len(s) = n
  BY <1>2
<1> QED BY <1>2, <1>3, SequenceOf

LEMMA AppendIs ==
  ASSUME NEW s, IsSequence(s), NEW e
  PROVE  /\ IsSequence(Append(s, e)) /\ Len(Append(s, e)) = Len(s) + 1
         /\ DOMAIN Append(s, e) = 1..Len(s) + 1
         /\ \A i \in 1..Len(s) : Append(s, e)[i] = s[i]
         /\ Append(s, e)[Len(s) + 1] = e
<1> DEFINE S == ToSet(s) \cup {e}
<1>1. s \in Seq(S) /\ e \in S
  BY SequenceIs
<1> HIDE DEF S
<1>2. Append(s, e) \in Seq(S) /\ Len(s) \in Nat
  BY <1>1
<1>3. IsSequence(Append(s, e))
  BY <1>2, SequenceOf
<1>4. /\ Len(Append(s, e)) = Len(s) + 1
      /\ \A i \in 1..Len(s) : Append(s, e)[i] = s[i]
      /\ Append(s, e)[Len(s) + 1] = e
  BY <1>1
<1> QED BY <1>3, <1>4, SequenceIs

LEMMA EmptyIs == IsSequence(<<>>) /\ Len(<<>>) = 0 /\ DOMAIN <<>> = {}
<1>1. <<>> \in Seq({}) /\ Len(<<>>) = 0 /\ <<>> = [i \in {} |-> {}]
  OBVIOUS
<1>2. DOMAIN <<>> = {}
  BY <1>1
<1> QED BY <1>1, <1>2, SequenceOf

LEMMA ConcatIs ==
  ASSUME NEW s, IsSequence(s), NEW t, IsSequence(t)
  PROVE  /\ IsSequence(s \o t) /\ Len(s \o t) = Len(s) + Len(t)
         /\ \A i \in 1..Len(s) : (s \o t)[i] = s[i]
         /\ \A i \in 1..Len(t) : (s \o t)[Len(s) + i] = t[i]
<1> DEFINE S == ToSet(s) \cup ToSet(t)
<1>1. s \in Seq(S) /\ t \in Seq(S)
  BY SequenceIs
<1> HIDE DEF S
<1>2. s \o t \in Seq(S) /\ Len(s \o t) = Len(s) + Len(t)
  BY <1>1
<1>3. \A i \in 1..Len(s) : (s \o t)[i] = s[i]
  BY <1>1
<1>4. ASSUME NEW i \in 1..Len(t) PROVE (s \o t)[Len(s) + i] = t[i]
  <2>1. Len(s) + i > Len(s) /\ Len(s) + i <= Len(s) + Len(t) /\ (Len(s) + i) - Len(s) = i
        /\ Len(s) + i \in 1..Len(s) + Len(t)
    BY <1>1
  <2> QED BY <1>1, <2>1
<1> QED BY <1>2, <1>3, <1>4, SequenceOf

LEMMA SubSeqIs ==
  ASSUME NEW s, IsSequence(s), NEW a \in Nat, NEW b \in Nat, 1 <= a, a <= b + 1, b <= Len(s)
  PROVE  /\ IsSequence(SubSeq(s, a, b)) /\ Len(SubSeq(s, a, b)) = b - a + 1
         /\ \A i \in 1..b - a + 1 : SubSeq(s, a, b)[i] = s[a + i - 1]
<1> DEFINE S == ToSet(s)
<1>1. s \in Seq(S) /\ Len(s) \in Nat
  BY SequenceIs
<1> HIDE DEF S
<1>2. \A i \in a..b : s[i] \in S
  BY <1>1
<1>3. SubSeq(s, a, b) \in Seq(S) /\ Len(SubSeq(s, a, b)) = b - a + 1
  BY <1>1, <1>2
<1>4. \A i \in 1..b - a + 1 : SubSeq(s, a, b)[i] = s[a + i - 1]
  BY <1>1
<1> QED BY <1>3, <1>4, SequenceOf

-----------------------------------------------------------------------------
(* Loops: what is known after each element.  A proof cannot be about loops *)
(* with any step, so there is one for each of them.                        *)

LEMMA OnlyLoop ==
  ASSUME NEW T, NEW seq, IsSequence(seq)
  PROVE  \E after :
           /\ after[0] = <<>> /\ Only(seq, T) = after[Len(seq)]
           /\ \A i \in 1..Len(seq) : after[i] = (IF seq[i] \in T THEN Append(after[i - 1], seq[i]) ELSE after[i - 1])
<1> DEFINE Step(a, e) == (IF e \in T THEN Append(a, e) ELSE a)
           First == <<>>
<1> DEFINE IsLoop(f, k) == f = [i \in 0..k |-> IF i = 0 THEN First ELSE Step(f[i - 1], seq[i])]
           Defined == {k \in 0..Len(seq) : \E f : IsLoop(f, k)}
           after == CHOOSE f : IsLoop(f, Len(seq))
<1>1. Only(seq, T) = after[Len(seq)]
  BY DEF Loop, Only
<1> HIDE DEF Step, First
<1>2. Len(seq) \in Nat
  BY SequenceIs
<1>3. \E f : IsLoop(f, 0)
  <2>1. IsLoop([i \in 0..0 |-> First], 0)
    OBVIOUS
  <2> HIDE DEF IsLoop
  <2> QED BY <2>1
<1>4. ASSUME NEW k \in 1..Len(seq), \E f : IsLoop(f, k - 1) PROVE \E f : IsLoop(f, k)
  <2>1. PICK f : IsLoop(f, k - 1)
    BY <1>4
  <2> DEFINE longer == [i \in 0..k |-> IF i = k THEN Step(f[k - 1], seq[k]) ELSE f[i]]
  <2>2. IsLoop(longer, k)
    BY <1>2, <2>1
  <2> HIDE DEF IsLoop
  <2> QED BY <2>2
<1> HIDE DEF IsLoop
<1>5. Climbs(Len(seq), Defined)
  BY <1>2, <1>3, <1>4 DEF Climbs
<1>6. IsLoop(after, Len(seq))
  <2> HIDE DEF Defined
  <2>1. Len(seq) \in Defined
    BY <1>2, <1>5, UpTo
  <2> QED BY <2>1 DEF Defined
<1> HIDE DEF after
<1>7. /\ after[0] = First
      /\ \A i \in 1..Len(seq) : after[i] = Step(after[i - 1], seq[i])
  BY <1>2, <1>6 DEF IsLoop
<1> QED BY <1>1, <1>7 DEF Step, First

LEMMA ConcatenatedLoop ==
  ASSUME NEW seq, IsSequence(seq)
  PROVE  \E after :
           /\ after[0] = <<>> /\ Concatenated(seq) = after[Len(seq)]
           /\ \A i \in 1..Len(seq) : after[i] = after[i - 1] \o seq[i]
<1> DEFINE Step(a, e) == a \o e
           First == <<>>
<1> DEFINE IsLoop(f, k) == f = [i \in 0..k |-> IF i = 0 THEN First ELSE Step(f[i - 1], seq[i])]
           Defined == {k \in 0..Len(seq) : \E f : IsLoop(f, k)}
           after == CHOOSE f : IsLoop(f, Len(seq))
<1>1. Concatenated(seq) = after[Len(seq)]
  BY DEF Loop, Concatenated
<1> HIDE DEF Step, First
<1>2. Len(seq) \in Nat
  BY SequenceIs
<1>3. \E f : IsLoop(f, 0)
  <2>1. IsLoop([i \in 0..0 |-> First], 0)
    OBVIOUS
  <2> HIDE DEF IsLoop
  <2> QED BY <2>1
<1>4. ASSUME NEW k \in 1..Len(seq), \E f : IsLoop(f, k - 1) PROVE \E f : IsLoop(f, k)
  <2>1. PICK f : IsLoop(f, k - 1)
    BY <1>4
  <2> DEFINE longer == [i \in 0..k |-> IF i = k THEN Step(f[k - 1], seq[k]) ELSE f[i]]
  <2>2. IsLoop(longer, k)
    BY <1>2, <2>1
  <2> HIDE DEF IsLoop
  <2> QED BY <2>2
<1> HIDE DEF IsLoop
<1>5. Climbs(Len(seq), Defined)
  BY <1>2, <1>3, <1>4 DEF Climbs
<1>6. IsLoop(after, Len(seq))
  <2> HIDE DEF Defined
  <2>1. Len(seq) \in Defined
    BY <1>2, <1>5, UpTo
  <2> QED BY <2>1 DEF Defined
<1> HIDE DEF after
<1>7. /\ after[0] = First
      /\ \A i \in 1..Len(seq) : after[i] = Step(after[i - 1], seq[i])
  BY <1>2, <1>6 DEF IsLoop
<1> QED BY <1>1, <1>7 DEF Step, First

ArriveAt(nodes, c, seq) == Loop(LAMBDA cs, i : Arrive(nodes, cs, i), {c}, seq)

Arrived(nodes, c, seq, after) ==
  /\ after[0] = {c} /\ ArriveAt(nodes, c, seq) = after[Len(seq)]
  /\ \A i \in 1..Len(seq) : after[i] = Arrive(nodes, after[i - 1], seq[i])

LEMMA WalkLoop ==
  ASSUME NEW nodes, NEW c, NEW seq, IsSequence(seq)
  PROVE  \E after : Arrived(nodes, c, seq, after)
<1> DEFINE Step(a, e) == Arrive(nodes, a, e)
           First == {c}
<1> DEFINE IsLoop(f, k) == f = [i \in 0..k |-> IF i = 0 THEN First ELSE Step(f[i - 1], seq[i])]
           Defined == {k \in 0..Len(seq) : \E f : IsLoop(f, k)}
           after == CHOOSE f : IsLoop(f, Len(seq))
<1>1. ArriveAt(nodes, c, seq) = after[Len(seq)]
  BY DEF Loop, ArriveAt
<1> HIDE DEF Step, First
<1>2. Len(seq) \in Nat
  BY SequenceIs
<1>3. \E f : IsLoop(f, 0)
  <2>1. IsLoop([i \in 0..0 |-> First], 0)
    OBVIOUS
  <2> HIDE DEF IsLoop
  <2> QED BY <2>1
<1>4. ASSUME NEW k \in 1..Len(seq), \E f : IsLoop(f, k - 1) PROVE \E f : IsLoop(f, k)
  <2>1. PICK f : IsLoop(f, k - 1)
    BY <1>4
  <2> DEFINE longer == [i \in 0..k |-> IF i = k THEN Step(f[k - 1], seq[k]) ELSE f[i]]
  <2>2. IsLoop(longer, k)
    BY <1>2, <2>1
  <2> HIDE DEF IsLoop
  <2> QED BY <2>2
<1> HIDE DEF IsLoop
<1>5. Climbs(Len(seq), Defined)
  BY <1>2, <1>3, <1>4 DEF Climbs
<1>6. IsLoop(after, Len(seq))
  <2> HIDE DEF Defined
  <2>1. Len(seq) \in Defined
    BY <1>2, <1>5, UpTo
  <2> QED BY <2>1 DEF Defined
<1> HIDE DEF after
<1>7. /\ after[0] = First
      /\ \A i \in 1..Len(seq) : after[i] = Step(after[i - 1], seq[i])
  BY <1>2, <1>6 DEF IsLoop
<1> QED BY <1>1, <1>7 DEF Step, First, Arrived

UnifyAlong(l, r, b, seq) ==
  Loop(LAMBDA done, i : UnifyNext(l, r, done, i), {[items |-> <<>>, scopes |-> b]}, seq)

LEMMA UnifyLoop ==
  ASSUME NEW l, NEW r, NEW b, NEW seq, IsSequence(seq)
  PROVE  \E after :
           /\ after[0] = {[items |-> <<>>, scopes |-> b]} /\ UnifyAlong(l, r, b, seq) = after[Len(seq)]
           /\ \A i \in 1..Len(seq) : after[i] = UnifyNext(l, r, after[i - 1], seq[i])
<1> DEFINE Step(a, e) == UnifyNext(l, r, a, e)
           First == {[items |-> <<>>, scopes |-> b]}
<1> DEFINE IsLoop(f, k) == f = [i \in 0..k |-> IF i = 0 THEN First ELSE Step(f[i - 1], seq[i])]
           Defined == {k \in 0..Len(seq) : \E f : IsLoop(f, k)}
           after == CHOOSE f : IsLoop(f, Len(seq))
<1>1. UnifyAlong(l, r, b, seq) = after[Len(seq)]
  BY DEF Loop, UnifyAlong
<1> HIDE DEF Step, First
<1>2. Len(seq) \in Nat
  BY SequenceIs
<1>3. \E f : IsLoop(f, 0)
  <2>1. IsLoop([i \in 0..0 |-> First], 0)
    OBVIOUS
  <2> HIDE DEF IsLoop
  <2> QED BY <2>1
<1>4. ASSUME NEW k \in 1..Len(seq), \E f : IsLoop(f, k - 1) PROVE \E f : IsLoop(f, k)
  <2>1. PICK f : IsLoop(f, k - 1)
    BY <1>4
  <2> DEFINE longer == [i \in 0..k |-> IF i = k THEN Step(f[k - 1], seq[k]) ELSE f[i]]
  <2>2. IsLoop(longer, k)
    BY <1>2, <2>1
  <2> HIDE DEF IsLoop
  <2> QED BY <2>2
<1> HIDE DEF IsLoop
<1>5. Climbs(Len(seq), Defined)
  BY <1>2, <1>3, <1>4 DEF Climbs
<1>6. IsLoop(after, Len(seq))
  <2> HIDE DEF Defined
  <2>1. Len(seq) \in Defined
    BY <1>2, <1>5, UpTo
  <2> QED BY <2>1 DEF Defined
<1> HIDE DEF after
<1>7. /\ after[0] = First
      /\ \A i \in 1..Len(seq) : after[i] = Step(after[i - 1], seq[i])
  BY <1>2, <1>6 DEF IsLoop
<1> QED BY <1>1, <1>7 DEF Step, First

-----------------------------------------------------------------------------
(* What the loops give. *)

LEMMA MembersIs ==
  ASSUME NEW S, NEW s
  PROVE  s \in Seq(S) <=> IsSequence(s) /\ ToSet(s) \subseteq S
<1>1. ASSUME s \in Seq(S) PROVE IsSequence(s) /\ ToSet(s) \subseteq S
  <2>1. IsSequence(s) /\ DOMAIN s = 1..Len(s) /\ s \in [1..Len(s) -> S]
    BY <1>1, SequenceOf, SequenceIs
  <2> QED BY <2>1 DEF ToSet
<1>2. ASSUME IsSequence(s), ToSet(s) \subseteq S PROVE s \in Seq(S)
  <2>1. s \in Seq(ToSet(s))
    BY <1>2, SequenceIs
  <2> QED BY <1>2, <2>1
<1> QED BY <1>1, <1>2

LEMMA OnlyIs ==
  ASSUME NEW S, NEW seq \in Seq(S), NEW U
  PROVE  Only(seq, U) \in Seq(S \cap U)
<1>1. Len(seq) \in Nat /\ IsSequence(seq)
  BY SequenceOf, SequenceIs
<1>2. PICK after :
        /\ after[0] = <<>> /\ Only(seq, U) = after[Len(seq)]
        /\ \A i \in 1..Len(seq) :
             after[i] = (IF seq[i] \in U THEN Append(after[i - 1], seq[i]) ELSE after[i - 1])
  <2>1. IsSequence(seq)
    BY <1>1
  <2> QED BY ONLY <2>1, OnlyLoop
<1> DEFINE T == {k \in 0..Len(seq) : after[k] \in Seq(S \cap U)}
<1>3. after[0] \in Seq(S \cap U)
  BY <1>2
<1>4. ASSUME NEW k \in 1..Len(seq), after[k - 1] \in Seq(S \cap U) PROVE after[k] \in Seq(S \cap U)
  <2>1. seq[k] \in S /\ after[k] = IF seq[k] \in U THEN Append(after[k - 1], seq[k]) ELSE after[k - 1]
    BY <1>2
  <2> DEFINE V == S \cap U
  <2>2. seq[k] \in U => seq[k] \in V
    BY <2>1
  <2>3. after[k - 1] \in Seq(V)
    BY <1>4
  <2> HIDE DEF V
  <2>4. after[k] \in Seq(V)
    BY <2>1, <2>2, <2>3
  <2> QED BY <2>4 DEF V
<1>5. Climbs(Len(seq), T)
  BY <1>1, <1>3, <1>4 DEF Climbs
<1>6. after[Len(seq)] \in Seq(S \cap U)
  <2>1. Len(seq) \in T
    <3> HIDE DEF T
    <3> QED BY <1>1, <1>5, UpTo
  <2> QED BY <2>1
<1> QED BY <1>2, <1>6

LEMMA ConcatenatedIs ==
  ASSUME NEW S, NEW seq \in Seq(Seq(S))
  PROVE  Concatenated(seq) \in Seq(S)
<1>1. Len(seq) \in Nat /\ IsSequence(seq)
  BY SequenceOf, SequenceIs
<1>2. PICK after :
        /\ after[0] = <<>> /\ Concatenated(seq) = after[Len(seq)]
        /\ \A i \in 1..Len(seq) : after[i] = after[i - 1] \o seq[i]
  <2>1. IsSequence(seq)
    BY <1>1
  <2> QED BY ONLY <2>1, ConcatenatedLoop
<1> DEFINE T == {k \in 0..Len(seq) : after[k] \in Seq(S)}
<1>3. after[0] \in Seq(S)
  BY <1>2
<1>4. ASSUME NEW k \in 1..Len(seq), after[k - 1] \in Seq(S) PROVE after[k] \in Seq(S)
  <2>0. seq[k] \in Seq(S)
    <3> DEFINE V == Seq(S)
    <3>1. seq \in Seq(V) /\ Len(seq) \in Nat
      BY <1>1
    <3> HIDE DEF V
    <3>2. seq[k] \in V
      BY <3>1
    <3> QED BY <3>2 DEF V
  <2>1. after[k] = after[k - 1] \o seq[k]
    BY <1>2
  <2> QED BY <1>4, <2>0, <2>1
<1>5. Climbs(Len(seq), T)
  BY <1>1, <1>3, <1>4 DEF Climbs
<1>6. after[Len(seq)] \in Seq(S)
  <2>1. Len(seq) \in T
    <3> HIDE DEF T
    <3> QED BY <1>1, <1>5, UpTo
  <2> QED BY <2>1
<1> QED BY <1>2, <1>6

-----------------------------------------------------------------------------
(* Walks *)

(* A walk, step by step. *)
Walking(nodes, c, after) ==
  after[0] = {c} /\ \A i \in 1..Len(nodes) : after[i] = Arrive(nodes, after[i - 1], i)

LEMMA WalkIs ==
  ASSUME NEW nodes, IsSequence(nodes), NEW c
  PROVE  \E after : Walking(nodes, c, after) /\ Walk(nodes, c) = after[Len(nodes)]
<1> DEFINE places == [i \in DOMAIN nodes |-> i]
<1>1. Len(nodes) \in Nat /\ DOMAIN nodes = 1..Len(nodes)
  BY SequenceIs
<1>2. IsSequence(places) /\ Len(places) = Len(nodes) /\ \A i \in 1..Len(nodes) : places[i] = i
  <2>1. places = [i \in 1..Len(nodes) |-> places[i]] /\ \A i \in 1..Len(nodes) : places[i] = i
    BY <1>1
  <2> HIDE DEF places
  <2> QED BY <1>1, <2>1, FunctionIsSequence
<1>3. Walk(nodes, c) = ArriveAt(nodes, c, places)
  BY DEF Walk, ArriveAt
<1> HIDE DEF places
<1>4. PICK after : Arrived(nodes, c, places, after)
  BY <1>2, WalkLoop
<1>5. Walking(nodes, c, after) /\ Walk(nodes, c) = after[Len(nodes)]
  BY <1>2, <1>3, <1>4 DEF Walking, Arrived
<1> QED BY <1>5

LEMMA ArriveSame ==
  ASSUME NEW nodes, NEW others, NEW cs, NEW i, NEW j,
         nodes[i] = others[j], i = 1 <=> j = 1, i # 1 => nodes[i - 1] = others[j - 1]
  PROVE  Arrive(nodes, cs, i) = Arrive(others, cs, j)
<1>1. CASE i = 1
  BY <1>1 DEF Arrive
<1>2. CASE i # 1
  BY <1>2 DEF Arrive
<1> QED BY <1>1, <1>2

(* Walks along the same nodes give the same. *)
LEMMA WalkStart ==
  ASSUME NEW nodes, IsSequence(nodes), NEW longer, IsSequence(longer), NEW c,
         Len(nodes) <= Len(longer), \A i \in 1..Len(nodes) : longer[i] = nodes[i],
         NEW after, Walking(longer, c, after)
  PROVE  after[Len(nodes)] = Walk(nodes, c)
<1>1. Len(nodes) \in Nat /\ Len(longer) \in Nat
  BY SequenceIs
<1>2. PICK short : Walking(nodes, c, short) /\ Walk(nodes, c) = short[Len(nodes)]
  BY WalkIs
<1> DEFINE T == {k \in 0..Len(nodes) : after[k] = short[k]}
<1>3. after[0] = short[0]
  BY <1>2 DEF Walking
<1>4. ASSUME NEW k \in 1..Len(nodes), after[k - 1] = short[k - 1] PROVE after[k] = short[k]
  <2>1. k \in 1..Len(longer) /\ longer[k] = nodes[k]
        /\ (k # 1 => longer[k - 1] = nodes[k - 1])
    BY <1>1
  <2>2. Arrive(longer, after[k - 1], k) = Arrive(nodes, after[k - 1], k)
    BY <2>1, ArriveSame
  <2>3. after[k] = Arrive(longer, after[k - 1], k)
    BY <2>1 DEF Walking
  <2>4. short[k] = Arrive(nodes, short[k - 1], k)
    BY <1>2 DEF Walking
  <2> QED BY <1>4, <2>2, <2>3, <2>4
<1>5. Climbs(Len(nodes), T)
  BY <1>1, <1>3, <1>4 DEF Climbs
<1>6. Len(nodes) \in T
  <2> HIDE DEF T
  <2> QED BY <1>1, <1>5, UpTo
<1> QED BY <1>2, <1>6

LEMMA WalkOne ==
  ASSUME NEW n, NEW c
  PROVE  Walk(<<n>>, c) = VisitConcretely(n, c)
<1> DEFINE nodes == <<n>>
<1>1. IsSequence(nodes) /\ Len(nodes) = 1 /\ nodes[1] = n
  <2>1. nodes \in Seq({n})
    OBVIOUS
  <2>2. IsSequence(nodes)
    BY <2>1, SequenceOf
  <2> QED BY <2>2
<1> HIDE DEF nodes
<1>2. PICK after : Walking(nodes, c, after) /\ Walk(nodes, c) = after[Len(nodes)]
  BY <1>1, WalkIs
<1>3. after[0] = {c} /\ after[1] = Arrive(nodes, after[0], 1)
  BY <1>1, <1>2 DEF Walking
<1>4. Walk(nodes, c) = UNION {VisitConcretely(n, d) : d \in {c}}
  BY <1>1, <1>2, <1>3 DEF Arrive
<1>5. Walk(nodes, c) = VisitConcretely(n, c)
  BY <1>4
<1> QED BY <1>5 DEF nodes

(* A walk, and a node more. *)
LEMMA WalkLonger ==
  ASSUME NEW nodes, IsSequence(nodes), Len(nodes) >= 1, NEW n, NEW c
  PROVE  Walk(Append(nodes, n), c) =
           UNION {VisitConcretely(n, l) :
                    l \in UNION {LeaveTo(nodes[Len(nodes)], n, d) : d \in Walk(nodes, c)}}
<1> DEFINE longer == Append(nodes, n)
           last == Len(nodes)
<1>1. /\ IsSequence(longer) /\ Len(longer) = last + 1 /\ last \in Nat
      /\ longer[last + 1] = n /\ \A i \in 1..last : longer[i] = nodes[i]
  BY AppendIs, SequenceIs
<1> HIDE DEF longer
<1>2. PICK after : Walking(longer, c, after) /\ Walk(longer, c) = after[Len(longer)]
  BY <1>1, WalkIs
<1>3. after[last] = Walk(nodes, c)
  <2>1. Len(nodes) <= Len(longer) /\ \A i \in 1..Len(nodes) : longer[i] = nodes[i]
    BY <1>1
  <2> QED BY <1>1, <1>2, <2>1, WalkStart
<1>4. Walk(longer, c) = Arrive(longer, Walk(nodes, c), last + 1)
  <2>1. last + 1 \in 1..Len(longer) /\ (last + 1) - 1 = last
    BY <1>1
  <2>2. after[last + 1] = Arrive(longer, after[(last + 1) - 1], last + 1)
    BY <1>2, <2>1 DEF Walking
  <2> QED BY <1>1, <1>2, <1>3, <2>1, <2>2
<1>5. last + 1 # 1 /\ longer[last + 1] = n /\ longer[(last + 1) - 1] = nodes[last]
  BY <1>1
<1>6. Walk(longer, c) =
        UNION {VisitConcretely(n, l) :
                 l \in UNION {LeaveTo(nodes[last], n, d) : d \in Walk(nodes, c)}}
  BY <1>4, <1>5 DEF Arrive
<1> QED BY <1>6 DEF longer

(* Sequences that share an element. *)
LEMMA JoinedIs ==
  ASSUME NEW s, IsSequence(s), NEW t, IsSequence(t), Len(t) >= 1,
         Len(s) >= 1, s[Len(s)] = t[1]
  PROVE  \E m \in Nat :
           /\ Len(s) = m + 1 /\ IsSequence(s \o Tail(t)) /\ Len(s \o Tail(t)) = m + Len(t)
           /\ \A i \in 1..Len(s) : (s \o Tail(t))[i] = s[i]
           /\ \A k \in 1..Len(t) : (s \o Tail(t))[m + k] = t[k]
<1> DEFINE rest == Tail(t)
           u == s \o rest
<1>1. PICK m \in Nat, l \in Nat :
        Len(s) = m + 1 /\ Len(t) = l + 1
  <2>1. Len(s) - 1 \in Nat /\ Len(t) - 1 \in Nat /\ Len(s) = (Len(s) - 1) + 1
        /\ Len(t) = (Len(t) - 1) + 1
    BY SequenceIs
  <2> QED BY <2>1
<1>2. IsSequence(rest) /\ Len(rest) = l /\ \A i \in 1..l : rest[i] = t[i + 1]
  <2> DEFINE S == ToSet(t)
  <2>1. t \in Seq(S) /\ t # <<>>
    BY <1>1, SequenceIs
  <2> HIDE DEF S
  <2>2. rest \in Seq(S)
    BY <2>1
  <2>3. Len(rest) = Len(t) - 1
    BY <2>1
  <2>4. Len(rest) = l
    BY <1>1, <2>3
  <2>5. ASSUME NEW i \in 1..Len(rest) PROVE rest[i] = t[i + 1]
    BY <2>1, <2>2
  <2> QED BY <2>2, <2>4, <2>5, SequenceOf
<1> HIDE DEF rest
<1>3. /\ IsSequence(u) /\ Len(u) = Len(s) + Len(rest)
      /\ \A i \in 1..Len(s) : u[i] = s[i]
      /\ \A i \in 1..Len(rest) : u[Len(s) + i] = rest[i]
  <2>1. IsSequence(s) /\ IsSequence(rest)
    BY <1>2
  <2> QED BY ONLY <2>1, ConcatIs
<1> HIDE DEF u
<1>4. ASSUME NEW k \in 1..l + 1 PROVE u[m + k] = t[k]
  <2>1. CASE k = 1
    <3>1. m + k = Len(s) /\ Len(s) \in 1..Len(s)
      BY <1>1, <2>1
    <3>2. u[m + k] = s[Len(s)]
      BY <1>3, <3>1
    <3> QED BY <2>1, <3>2
  <2>2. CASE k # 1
    <3>1. PICK i \in 1..l : k = i + 1
      <4>1. k - 1 \in 1..l /\ k = (k - 1) + 1
        BY ONLY <2>2, k \in 1..l + 1, l \in Nat
      <4> QED BY ONLY <4>1
    <3>2. u[Len(s) + i] = rest[i]
      BY <1>2, <1>3
    <3>3. Len(s) + i = m + k
      BY ONLY <1>1, <3>1, i \in 1..l, l \in Nat, m \in Nat
    <3>4. rest[i] = t[k]
      BY <1>2, <3>1
    <3> QED BY <3>2, <3>3, <3>4
  <2> QED BY <2>1, <2>2
<1>5. Len(u) = m + Len(t)
  <2>1. Len(u) = (m + 1) + l
    BY <1>1, <1>2, <1>3
  <2>2. (m + 1) + l = m + (l + 1)
    OBVIOUS
  <2> QED BY <1>1, <2>1, <2>2
<1>6. /\ Len(s) = m + 1 /\ IsSequence(u) /\ Len(u) = m + Len(t)
      /\ \A i \in 1..Len(s) : u[i] = s[i]
      /\ \A k \in 1..Len(t) : u[m + k] = t[k]
  BY <1>1, <1>3, <1>4, <1>5
<1> QED BY <1>6 DEF u, rest

(* Two walks that share a node. *)
LEMMA WalkJoined ==
  ASSUME NEW s, IsSequence(s), Len(s) >= 1, NEW t, IsSequence(t), Len(t) >= 1,
         s[Len(s)] = t[1],
         NEW c, NEW d, Walk(s, c) = {d}, NEW e, VisitConcretely(t[1], e) = {d}
  PROVE  Walk(s \o Tail(t), c) = Walk(t, e)
<1> DEFINE u == s \o Tail(t)
<1>1. PICK m \in Nat :
        /\ Len(s) = m + 1 /\ IsSequence(u) /\ Len(u) = m + Len(t)
        /\ \A i \in 1..Len(s) : u[i] = s[i]
        /\ \A k \in 1..Len(t) : u[m + k] = t[k]
  BY JoinedIs
<1>2. PICK l \in Nat : Len(t) = l + 1
  <2>1. Len(t) - 1 \in Nat /\ Len(t) = (Len(t) - 1) + 1
    BY SequenceIs
  <2> QED BY <2>1
<1> HIDE DEF u
<1>3. PICK f : Walking(u, c, f) /\ Walk(u, c) = f[Len(u)]
  BY <1>1, WalkIs
<1>4. PICK g : Walking(t, e, g) /\ Walk(t, e) = g[Len(t)]
  BY WalkIs
<1>5. f[m + 1] = {d}
  <2>1. Len(s) <= Len(u)
    BY <1>1, <1>2
  <2>2. /\ IsSequence(s) /\ IsSequence(u) /\ Len(s) <= Len(u) /\ Walking(u, c, f)
        /\ \A i \in 1..Len(s) : u[i] = s[i]
    BY <1>1, <1>3, <2>1
  <2>3. f[Len(s)] = Walk(s, c)
    BY ONLY <2>2, WalkStart
  <2> QED BY <1>1, <2>3
<1>6. g[0 + 1] = {d}
  <2>1. 1 \in 1..Len(t) /\ 1 - 1 = 0
    BY <1>2
  <2>2. g[0] = {e} /\ g[1] = Arrive(t, g[1 - 1], 1)
    BY <1>4, <2>1 DEF Walking
  <2>3. g[1] = UNION {VisitConcretely(t[1], x) : x \in {e}}
    BY <2>1, <2>2 DEF Arrive
  <2> QED BY <2>3
<1> DEFINE T == {k \in 0..l : f[m + (k + 1)] = g[k + 1]}
<1>7. f[m + (0 + 1)] = g[0 + 1]
  BY <1>5, <1>6
<1>8. ASSUME NEW k \in 1..l, f[m + ((k - 1) + 1)] = g[(k - 1) + 1]
      PROVE  f[m + (k + 1)] = g[k + 1]
  <2>1. PICK i, j : i = m + (k + 1) /\ j = k + 1
    OBVIOUS
  <2>2. /\ i \in 1..m + (l + 1) /\ j \in 1..l + 1 /\ i # 1 /\ j # 1
        /\ i - 1 = m + ((k - 1) + 1) /\ j - 1 = (k - 1) + 1 /\ j - 1 \in 1..l + 1
        /\ i - 1 = m + (j - 1) /\ i = m + j
    BY ONLY <2>1, k \in 1..l, l \in Nat, m \in Nat
  <2>3. u[i] = t[j] /\ u[i - 1] = t[j - 1]
    BY <1>1, <1>2, <2>2
  <2>4. Arrive(u, f[i - 1], i) = Arrive(t, f[i - 1], j)
    BY <2>2, <2>3, ArriveSame
  <2>5. f[i] = Arrive(u, f[i - 1], i)
    BY <1>1, <1>2, <1>3, <2>2 DEF Walking
  <2>6. g[j] = Arrive(t, g[j - 1], j)
    BY <1>2, <1>4, <2>2 DEF Walking
  <2> QED BY <1>8, <2>1, <2>2, <2>4, <2>5, <2>6
<1>9. Climbs(l, T)
  <2>1. 0 \in T
    BY <1>7
  <2>2. \A k \in 1..l : k - 1 \in T => k \in T
    BY <1>8
  <2> QED BY <2>1, <2>2 DEF Climbs
<1>10. f[Len(u)] = g[Len(t)]
  <2>1. l \in T
    <3> HIDE DEF T
    <3> QED BY <1>9, UpTo
  <2> QED BY <1>1, <1>2, <2>1
<1> QED BY <1>3, <1>4, <1>10 DEF u

-----------------------------------------------------------------------------
(* Concrete stacks *)

ConcreteSymbols ==
  {s \in [symbol : {SymbolOf[n] : n \in DOMAIN SymbolOf}, scopes : SUBSET Seq(ExportedScopes)] :
     AtMostOne(s.scopes)}

EveryStack == [symbols : Seq(ConcreteSymbols), scopes : Seq(ExportedScopes)]

LEMMA EveryStackIs ==
  ASSUME NEW c
  PROVE  c \in EveryStack <=> IsConcrete(c)
<1> DEFINE Typed == [symbol : {SymbolOf[n] : n \in DOMAIN SymbolOf},
                     scopes : SUBSET Seq(ExportedScopes)]
           Scopes == Seq(ExportedScopes)
<1>1. ConcreteSymbols = {s \in Typed : AtMostOne(s.scopes)}
  BY DEF ConcreteSymbols
<1>2. IsConcrete(c) <=> /\ c \in [symbols : Seq(Typed), scopes : Scopes]
                        /\ \A i \in DOMAIN c.symbols : AtMostOne(c.symbols[i].scopes)
  BY DEF IsConcrete
<1>3. EveryStack = [symbols : Seq(ConcreteSymbols), scopes : Scopes]
  BY DEF EveryStack
<1> HIDE DEF Typed, Scopes
<1>4. ASSUME c \in EveryStack PROVE IsConcrete(c)
  <2>1. c \in [symbols : Seq(ConcreteSymbols), scopes : Scopes]
    BY <1>3, <1>4
  <2>2. c.symbols \in Seq(ConcreteSymbols) /\ c.scopes \in Scopes
        /\ c = [symbols |-> c.symbols, scopes |-> c.scopes]
    BY <2>1
  <2>3. ConcreteSymbols \subseteq Typed
    BY <1>1
  <2>4. c.symbols \in Seq(Typed)
    BY <2>2, <2>3
  <2>5. \A i \in DOMAIN c.symbols : c.symbols[i] \in ConcreteSymbols
    BY <2>2
  <2>6. c \in [symbols : Seq(Typed), scopes : Scopes]
    BY <2>2, <2>4
  <2> QED BY <1>1, <1>2, <2>5, <2>6
<1>5. ASSUME IsConcrete(c) PROVE c \in EveryStack
  <2>1. c.symbols \in Seq(Typed) /\ c.scopes \in Scopes
        /\ c = [symbols |-> c.symbols, scopes |-> c.scopes]
    BY <1>2, <1>5
  <2>2. \A i \in 1..Len(c.symbols) : c.symbols[i] \in ConcreteSymbols
    BY <1>1, <1>2, <1>5, <2>1
  <2>3. c.symbols \in [1..Len(c.symbols) -> ConcreteSymbols] /\ Len(c.symbols) \in Nat
    BY <2>1, <2>2
  <2>4. c.symbols \in Seq(ConcreteSymbols)
    BY <2>3
  <2> QED BY <1>3, <2>1, <2>4
<1> QED BY <1>4, <1>5

(* The kinds of nodes. *)
Kinds == {"root", "jump to", "scope", "drop scopes"} \cup Pushes \cup Pops

LEMMA KindIs ==
  ASSUME NEW n \in Nodes
  PROVE  /\ KindOf[n] \in Kinds
         /\ KindOf[n] \in Pushes \cup Pops =>
              SymbolOf[n] \in {SymbolOf[m] : m \in DOMAIN SymbolOf}
         /\ KindOf[n] = "push scoped symbol" /\ ScopeOf[n] \in Nodes => ScopeOf[n] \in ExportedScopes
<1>1. KindOf \in [Nodes -> Kinds]
  BY NodesAssumption DEF Kinds
<1>2. KindOf[n] \in Pushes \cup Pops => n \in DOMAIN SymbolOf
  BY NodesAssumption
<1>3. KindOf[n] = "push scoped symbol" => ScopeOf[n] \in ExportedScopes \/ ScopeOf[n] \notin Nodes
  BY NodesAssumption
<1> QED BY <1>1, <1>2, <1>3

LEMMA ExportedIs ==
  ASSUME NEW n \in ExportedScopes
  PROVE  n \in Nodes /\ KindOf[n] = "scope"
  BY NodesAssumption

(* The top of the stack, and what is below it. *)
LEMMA PushedIs ==
  ASSUME NEW S, NEW s \in Seq(S), NEW x \in S
  PROVE  /\ <<x>> \o s \in Seq(S) /\ <<x>> \o s # <<>>
         /\ (<<x>> \o s)[1] = x /\ Tail(<<x>> \o s) = s /\ Len(<<x>> \o s) = Len(s) + 1
<1> DEFINE t == <<x>> \o s
<1>1. Len(s) \in Nat /\ t \in Seq(S) /\ Len(t) = 1 + Len(s) /\ t[1] = x
  OBVIOUS
<1>2. \A i \in 1..Len(s) : t[i + 1] = s[i]
  <2>1. ASSUME NEW i \in 1..Len(s) PROVE t[1 + i] = s[i]
    <3>1. IsSequence(<<x>>) /\ IsSequence(s) /\ Len(<<x>>) = 1
      <4>1. <<x>> \in Seq(S)
        OBVIOUS
      <4> QED BY <4>1, SequenceOf
    <3>2. \A j \in 1..Len(s) : (<<x>> \o s)[Len(<<x>>) + j] = s[j]
      BY ONLY <3>1, ConcatIs
    <3> QED BY <3>1, <3>2
  <2>2. \A i \in 1..Len(s) : 1 + i = i + 1
    BY <1>1
  <2> QED BY <2>1, <2>2
<1>3. t # <<>>
  BY <1>1
<1> HIDE DEF t
<1>4. Tail(t) \in Seq(S) /\ Len(Tail(t)) = Len(s)
  BY <1>1, <1>3
<1>5. \A i \in 1..Len(s) : Tail(t)[i] = t[i + 1]
  BY <1>1, <1>3, <1>4
<1>6. Tail(t) = s
  <2> DEFINE u == Tail(t)
  <2>1. u \in Seq(S) /\ Len(u) = Len(s) /\ \A i \in 1..Len(s) : u[i] = s[i]
    BY <1>2, <1>4, <1>5
  <2> HIDE DEF u
  <2>2. u = s
    BY <2>1
  <2> QED BY <2>2 DEF u
<1>7. Len(t) = Len(s) + 1
  BY <1>1
<1> QED BY <1>1, <1>3, <1>6, <1>7 DEF t

LEMMA StacksExcept ==
  ASSUME NEW c \in EveryStack, NEW x
  PROVE  /\ c.symbols \in Seq(ConcreteSymbols) /\ c.scopes \in Seq(ExportedScopes)
         /\ c = [symbols |-> c.symbols, scopes |-> c.scopes]
         /\ [c EXCEPT !.symbols = x] = [symbols |-> x, scopes |-> c.scopes]
         /\ [c EXCEPT !.scopes = x] = [symbols |-> c.symbols, scopes |-> x]
<1> DEFINE S == Seq(ConcreteSymbols)
           T == Seq(ExportedScopes)
<1>1. c \in [symbols : S, scopes : T]
  BY DEF EveryStack
<1> HIDE DEF S, T
<1>2. /\ c.symbols \in S /\ c.scopes \in T
      /\ c = [symbols |-> c.symbols, scopes |-> c.scopes]
      /\ [c EXCEPT !.symbols = x] = [symbols |-> x, scopes |-> c.scopes]
      /\ [c EXCEPT !.scopes = x] = [symbols |-> c.symbols, scopes |-> x]
  BY <1>1
<1> QED BY <1>2 DEF S, T

LEMMA SymbolExcept ==
  ASSUME NEW s \in ConcreteSymbols, NEW x
  PROVE  [s EXCEPT !.scopes = x] = [symbol |-> s.symbol, scopes |-> x]
  BY DEF ConcreteSymbols

(* What a visit does, kind by kind. *)
LEMMA VisitCases ==
  ASSUME NEW n \in Nodes, NEW c \in EveryStack
  PROVE  /\ KindOf[n] = "drop scopes" =>
              VisitConcretely(n, c) = {[symbols |-> c.symbols, scopes |-> <<>>]}
         /\ KindOf[n] = "push symbol" =>
              VisitConcretely(n, c) =
                {[symbols |-> <<[symbol |-> SymbolOf[n], scopes |-> {}]>> \o c.symbols,
                  scopes |-> c.scopes]}
         /\ KindOf[n] = "push scoped symbol" =>
              VisitConcretely(n, c) =
                IF ScopeOf[n] \in Nodes
                THEN {[symbols |-> <<[symbol |-> SymbolOf[n],
                                      scopes |-> {<<ScopeOf[n]>> \o c.scopes}]>> \o c.symbols,
                       scopes |-> c.scopes]}
                ELSE {}
         /\ KindOf[n] = "pop symbol" =>
              VisitConcretely(n, c) =
                IF /\ c.symbols # <<>> /\ c.symbols[1].symbol = SymbolOf[n]
                   /\ c.symbols[1].scopes = {}
                THEN {[symbols |-> Tail(c.symbols), scopes |-> c.scopes]}
                ELSE {}
         /\ KindOf[n] = "pop scoped symbol" =>
              VisitConcretely(n, c) =
                IF c.symbols # <<>> /\ c.symbols[1].symbol = SymbolOf[n]
                THEN {[symbols |-> Tail(c.symbols), scopes |-> s] : s \in c.symbols[1].scopes}
                ELSE {}
         /\ KindOf[n] \in {"root", "jump to", "scope"} => VisitConcretely(n, c) = {c}
<1> DEFINE top == c.symbols[1]
           Push(scopes) == [c EXCEPT !.symbols = <<ScopedSymbol(SymbolOf[n], scopes)>> \o @]
           Matches == c.symbols # <<>> /\ top.symbol = SymbolOf[n]
           Popped == [c EXCEPT !.symbols = Tail(@)]
<1>1. ASSUME NEW scopes
      PROVE  Push(scopes) = [symbols |-> <<[symbol |-> SymbolOf[n], scopes |-> scopes]>> \o c.symbols,
                             scopes |-> c.scopes]
  <2> DEFINE x == <<ScopedSymbol(SymbolOf[n], scopes)>> \o c.symbols
  <2>1. [c EXCEPT !.symbols = x] = [symbols |-> x, scopes |-> c.scopes]
    <3> HIDE DEF x
    <3> QED BY StacksExcept
  <2> QED BY <2>1 DEF ScopedSymbol
<1>2. Popped = [symbols |-> Tail(c.symbols), scopes |-> c.scopes]
  <2> DEFINE x == Tail(c.symbols)
  <2>1. [c EXCEPT !.symbols = x] = [symbols |-> x, scopes |-> c.scopes]
    <3> HIDE DEF x
    <3> QED BY StacksExcept
  <2> QED BY <2>1
<1>3. CASE KindOf[n] = "drop scopes"
  <2>1. VisitConcretely(n, c) = {[c EXCEPT !.scopes = <<>>]}
    BY <1>3 DEF VisitConcretely
  <2> QED BY <1>3, <2>1, StacksExcept
<1>4. CASE KindOf[n] = "push symbol"
  <2>1. VisitConcretely(n, c) = {Push({})}
    BY <1>4 DEF VisitConcretely
  <2> QED BY <1>1, <1>4, <2>1
<1>5. CASE KindOf[n] = "push scoped symbol"
  <2> DEFINE attached == <<ScopeOf[n]>> \o c.scopes
  <2>1. VisitConcretely(n, c) = IF ScopeOf[n] \in Nodes THEN {Push({attached})} ELSE {}
    BY <1>5 DEF VisitConcretely
  <2>2. Push({attached}) =
          [symbols |-> <<[symbol |-> SymbolOf[n], scopes |-> {attached}]>> \o c.symbols,
           scopes |-> c.scopes]
    BY <1>1
  <2> HIDE DEF Push
  <2>3. VisitConcretely(n, c) =
          IF ScopeOf[n] \in Nodes
          THEN {[symbols |-> <<[symbol |-> SymbolOf[n], scopes |-> {attached}]>> \o c.symbols,
                 scopes |-> c.scopes]}
          ELSE {}
    BY <2>1, <2>2
  <2> QED BY <1>5, <2>3
<1>6. CASE KindOf[n] = "pop symbol"
  <2>1. VisitConcretely(n, c) = {e \in IF Matches THEN {Popped} ELSE {} : top.scopes = {}}
    BY <1>6 DEF VisitConcretely
  <2> HIDE DEF Popped
  <2>2. VisitConcretely(n, c) = IF Matches /\ top.scopes = {} THEN {Popped} ELSE {}
    BY <2>1
  <2> QED BY <1>2, <1>6, <2>2
<1>7. CASE KindOf[n] = "pop scoped symbol"
  <2>1. VisitConcretely(n, c) =
          UNION {{[e EXCEPT !.scopes = s] : s \in top.scopes} :
                   e \in IF Matches THEN {Popped} ELSE {}}
    BY <1>7 DEF VisitConcretely
  <2>2. ASSUME NEW s
        PROVE  [Popped EXCEPT !.scopes = s] = [symbols |-> Tail(c.symbols), scopes |-> s]
    <3> DEFINE x == Tail(c.symbols)
    <3>1. Popped = [symbols |-> x, scopes |-> c.scopes]
      BY <1>2
    <3> HIDE DEF Popped, x
    <3>2. [Popped EXCEPT !.scopes = s] = [symbols |-> x, scopes |-> s]
      BY <3>1
    <3> QED BY <3>2 DEF x
  <2> HIDE DEF Popped
  <2>3. CASE Matches
    <3>1. VisitConcretely(n, c) = UNION {{[e EXCEPT !.scopes = s] : s \in top.scopes} : e \in {Popped}}
      BY <2>1, <2>3
    <3>2. VisitConcretely(n, c) = {[Popped EXCEPT !.scopes = s] : s \in top.scopes}
      BY <3>1
    <3>3. VisitConcretely(n, c) = {[symbols |-> Tail(c.symbols), scopes |-> s] : s \in top.scopes}
      <4> DEFINE Given(s) == [Popped EXCEPT !.scopes = s]
                 Made(s) == [symbols |-> Tail(c.symbols), scopes |-> s]
      <4>1. \A s \in top.scopes : Given(s) = Made(s)
        BY <2>2
      <4>2. VisitConcretely(n, c) = {Given(s) : s \in top.scopes}
        BY <3>2
      <4> HIDE DEF Given, Made
      <4>3. VisitConcretely(n, c) = {Made(s) : s \in top.scopes}
        BY <4>1, <4>2
      <4> QED BY <4>3 DEF Made
    <3> QED BY <1>7, <2>3, <3>3
  <2>4. CASE ~Matches
    <3>1. VisitConcretely(n, c) = {}
      BY <2>1, <2>4
    <3> QED BY <1>7, <2>4, <3>1
  <2> QED BY <2>3, <2>4
<1>8. CASE KindOf[n] \in {"root", "jump to", "scope"}
  BY <1>8 DEF VisitConcretely
<1>9. KindOf[n] \in Kinds
  BY KindIs
<1> QED BY <1>3, <1>4, <1>5, <1>6, <1>7, <1>8, <1>9 DEF Kinds, Pushes, Pops

LEMMA VisitPreserves ==
  ASSUME NEW n \in Nodes, NEW c \in EveryStack, NEW d \in VisitConcretely(n, c)
  PROVE  d \in EveryStack /\ VisitConcretely(n, c) = {d}
<1> DEFINE SymbolSeqs == Seq(ConcreteSymbols)
           ScopeSeqs == Seq(ExportedScopes)
<1>1. c.symbols \in Seq(ConcreteSymbols) /\ c.scopes \in Seq(ExportedScopes)
  BY StacksExcept
<1>2. ASSUME NEW s \in SymbolSeqs, NEW t \in ScopeSeqs
      PROVE  [symbols |-> s, scopes |-> t] \in EveryStack
  BY <1>2 DEF EveryStack
<1>3. KindOf[n] \in Kinds
  BY KindIs
<1>4. CASE KindOf[n] = "drop scopes"
  <2>1. VisitConcretely(n, c) = {[symbols |-> c.symbols, scopes |-> <<>>]}
    BY <1>4, VisitCases
  <2>2. <<>> \in ScopeSeqs
    OBVIOUS
  <2> QED BY <1>1, <1>2, <2>1, <2>2
<1>5. ASSUME NEW scopes \in SUBSET ScopeSeqs, AtMostOne(scopes), KindOf[n] \in Pushes
      PROVE  [symbols |-> <<[symbol |-> SymbolOf[n], scopes |-> scopes]>> \o c.symbols,
              scopes |-> c.scopes] \in EveryStack
  <2> DEFINE x == [symbol |-> SymbolOf[n], scopes |-> scopes]
  <2>1. x \in ConcreteSymbols
    BY <1>5, KindIs DEF ConcreteSymbols
  <2> HIDE DEF x
  <2>2. <<x>> \o c.symbols \in Seq(ConcreteSymbols)
    BY <1>1, <2>1, PushedIs
  <2>3. [symbols |-> <<x>> \o c.symbols, scopes |-> c.scopes] \in EveryStack
    BY <1>1, <1>2, <2>2
  <2> QED BY <2>3 DEF x
<1>6. CASE KindOf[n] = "push symbol"
  <2>1. AtMostOne({}) /\ {} \in SUBSET ScopeSeqs
    BY DEF AtMostOne
  <2>2. VisitConcretely(n, c) =
          {[symbols |-> <<[symbol |-> SymbolOf[n], scopes |-> {}]>> \o c.symbols,
            scopes |-> c.scopes]}
    BY <1>6, VisitCases
  <2>3. [symbols |-> <<[symbol |-> SymbolOf[n], scopes |-> {}]>> \o c.symbols,
         scopes |-> c.scopes] \in EveryStack
    BY <1>5, <1>6, <2>1 DEF Pushes
  <2> QED BY <2>2, <2>3
<1>7. CASE KindOf[n] = "push scoped symbol"
  <2> DEFINE attached == <<ScopeOf[n]>> \o c.scopes
             e == [symbols |-> <<[symbol |-> SymbolOf[n], scopes |-> {attached}]>> \o c.symbols,
                   scopes |-> c.scopes]
  <2>1. VisitConcretely(n, c) = IF ScopeOf[n] \in Nodes THEN {e} ELSE {}
    BY <1>7, VisitCases
  <2>2. ScopeOf[n] \in ExportedScopes /\ VisitConcretely(n, c) = {e}
    <3>1. ScopeOf[n] \in Nodes /\ VisitConcretely(n, c) = {e}
      <4> HIDE DEF e
      <4> QED BY <2>1
    <3> QED BY <1>7, <3>1, KindIs
  <2>3. attached \in ScopeSeqs
    BY <1>1, <2>2, PushedIs
  <2>4. AtMostOne({attached}) /\ {attached} \in SUBSET ScopeSeqs
    <3> HIDE DEF attached
    <3> QED BY <2>3 DEF AtMostOne
  <2>5. e \in EveryStack
    <3> HIDE DEF attached
    <3> QED BY <1>5, <1>7, <2>4 DEF Pushes
  <2> HIDE DEF e
  <2> QED BY <2>2, <2>5
<1>8. ASSUME c.symbols # <<>>
      PROVE  c.symbols[1] \in ConcreteSymbols /\ Tail(c.symbols) \in SymbolSeqs
  <2>1. 1 \in 1..Len(c.symbols)
    BY <1>1, <1>8
  <2> QED BY <1>1, <1>8, <2>1
<1>9. CASE KindOf[n] = "pop symbol"
  <2> DEFINE e == [symbols |-> Tail(c.symbols), scopes |-> c.scopes]
  <2>1. c.symbols # <<>> /\ VisitConcretely(n, c) = {e}
    BY <1>9, VisitCases
  <2>2. e \in EveryStack
    BY <1>1, <1>2, <1>8, <2>1
  <2> HIDE DEF e
  <2> QED BY <2>1, <2>2
<1>10. CASE KindOf[n] = "pop scoped symbol"
  <2> DEFINE top == c.symbols[1]
             Popped(s) == [symbols |-> Tail(c.symbols), scopes |-> s]
  <2>1. c.symbols # <<>> /\ VisitConcretely(n, c) = {Popped(s) : s \in top.scopes}
    BY <1>10, VisitCases
  <2>2. top.scopes \subseteq ScopeSeqs /\ AtMostOne(top.scopes)
    BY <1>8, <2>1 DEF ConcreteSymbols
  <2>3. \A s \in top.scopes : Popped(s) \in EveryStack
    BY <1>2, <1>8, <2>1, <2>2
  <2> HIDE DEF top, Popped
  <2>4. PICK s \in top.scopes : d = Popped(s)
    BY <2>1
  <2>5. top.scopes = {s}
    BY <2>2, <2>4 DEF AtMostOne
  <2>6. VisitConcretely(n, c) = {d}
    BY <2>1, <2>4, <2>5
  <2> QED BY <2>3, <2>4, <2>6
<1>11. CASE KindOf[n] \in {"root", "jump to", "scope"}
  <2>1. VisitConcretely(n, c) = {c}
    BY <1>11, VisitCases
  <2> QED BY <2>1
<1> QED BY <1>3, <1>4, <1>6, <1>7, <1>9, <1>10, <1>11 DEF Kinds, Pushes, Pops

LEMMA LeavePreserves ==
  ASSUME NEW n, NEW m, NEW c \in EveryStack, NEW d \in LeaveTo(n, m, c)
  PROVE  d \in EveryStack /\ LeaveTo(n, m, c) = {d}
<1>1. c.symbols \in Seq(ConcreteSymbols) /\ c.scopes \in Seq(ExportedScopes)
      /\ c = [symbols |-> c.symbols, scopes |-> c.scopes]
  BY DEF EveryStack
<1>2. CASE LeaveTo(n, m, c) = {c}
  BY <1>2
<1>3. CASE LeaveTo(n, m, c) = {[c EXCEPT !.scopes = Tail(@)]} /\ c.scopes # <<>>
  <2>1. Tail(c.scopes) \in Seq(ExportedScopes)
    BY <1>1, <1>3
  <2>2. d = [symbols |-> c.symbols, scopes |-> Tail(c.scopes)]
    BY <1>1, <1>3
  <2>3. d \in EveryStack
    BY <1>1, <2>1, <2>2 DEF EveryStack
  <2> QED BY <1>3, <2>3
<1> QED BY <1>2, <1>3 DEF LeaveTo

(* Walks keep stacks concrete; the last node has been visited with some. *)
LEMMA WalkConcrete ==
  ASSUME NEW nodes \in Seq(Nodes), Len(nodes) >= 1, NEW c \in EveryStack, NEW d \in Walk(nodes, c)
  PROVE  d \in EveryStack /\ \E e \in EveryStack : VisitConcretely(nodes[Len(nodes)], e) = {d}
<1>1. IsSequence(nodes) /\ Len(nodes) \in Nat
  BY SequenceOf, SequenceIs
<1>2. PICK after : Walking(nodes, c, after) /\ Walk(nodes, c) = after[Len(nodes)]
  BY <1>1, WalkIs
<1> DEFINE T == {k \in 0..Len(nodes) : after[k] \subseteq EveryStack}
<1>3. after[0] \subseteq EveryStack
  BY <1>2 DEF Walking
<1>4. ASSUME NEW k \in 1..Len(nodes), after[k - 1] \subseteq EveryStack, NEW x \in after[k]
      PROVE  x \in EveryStack /\ \E e \in EveryStack : VisitConcretely(nodes[k], e) = {x}
  <2> DEFINE left == IF k = 1 THEN after[k - 1]
                     ELSE UNION {LeaveTo(nodes[k - 1], nodes[k], y) : y \in after[k - 1]}
  <2>1. after[k] = UNION {VisitConcretely(nodes[k], y) : y \in left}
    BY <1>2 DEF Walking, Arrive
  <2>2. left \subseteq EveryStack
    <3>1. CASE k = 1
      BY <1>4, <3>1
    <3>2. CASE k # 1
      <4>1. \A y \in after[k - 1] : LeaveTo(nodes[k - 1], nodes[k], y) \subseteq EveryStack
        BY <1>4, LeavePreserves
      <4> QED BY <3>2, <4>1
    <3> QED BY <3>1, <3>2
  <2> HIDE DEF left
  <2>3. PICK y \in left : x \in VisitConcretely(nodes[k], y)
    BY <2>1
  <2>4. nodes[k] \in Nodes /\ y \in EveryStack
    BY <2>2
  <2>5. x \in EveryStack /\ VisitConcretely(nodes[k], y) = {x}
    BY <2>3, <2>4, VisitPreserves
  <2> QED BY <2>4, <2>5
<1>5. Climbs(Len(nodes), T)
  <2>1. \A k \in 1..Len(nodes) : after[k - 1] \subseteq EveryStack => after[k] \subseteq EveryStack
    BY <1>4
  <2> QED BY <1>1, <1>3, <2>1 DEF Climbs
<1>6. \A k \in 0..Len(nodes) : k \in T
  <2> HIDE DEF T
  <2> QED BY <1>1, <1>5, UpTo
<1>7. Len(nodes) \in 1..Len(nodes) /\ Len(nodes) - 1 \in 0..Len(nodes)
  BY <1>1
<1>8. after[Len(nodes) - 1] \subseteq EveryStack
  BY <1>6, <1>7
<1> QED BY <1>2, <1>4, <1>7, <1>8

-----------------------------------------------------------------------------
(* Open paths, and what they make of concrete stacks. *)

LEMMA TheOne ==
  ASSUME NEW x PROVE The({x}) = x
  BY DEF The

StackSymbols == [symbol : {SymbolOf[n] : n \in DOMAIN SymbolOf}, scopes : SUBSET ScopeStacks]

LEMMA PathTyped ==
  ASSUME NEW p \in Paths
  PROVE  /\ p.symbolPre = Stack(p.symbolPre.items, p.symbolPre.variable)
         /\ p.symbolPost = Stack(p.symbolPost.items, p.symbolPost.variable)
         /\ p.scopePre = Stack(p.scopePre.items, p.scopePre.variable)
         /\ p.scopePost = Stack(p.scopePost.items, p.scopePost.variable)
         /\ p.symbolPre.items \in Seq(StackSymbols) /\ p.symbolPre.variable \in Nat
         /\ p.symbolPost.items \in Seq(StackSymbols) /\ p.symbolPost.variable \in Nat
         /\ p.scopePre.items \in Seq(ExportedScopes) /\ p.scopePre.variable \in Nat
         /\ p.scopePost.items \in Seq(ExportedScopes) /\ p.scopePost.variable \in Nat
<1> DEFINE S == Seq(StackSymbols)
           T == Seq(ExportedScopes)
<1>1. /\ p.symbolPre \in [items : S, variable : Nat]
      /\ p.symbolPost \in [items : S, variable : Nat]
      /\ p.scopePre \in [items : T, variable : Nat]
      /\ p.scopePost \in [items : T, variable : Nat]
  BY DEF Paths, SymbolStacks, StackSymbols, ScopeStacks
<1> HIDE DEF S, T
<1>2. /\ p.symbolPre = Stack(p.symbolPre.items, p.symbolPre.variable)
      /\ p.symbolPost = Stack(p.symbolPost.items, p.symbolPost.variable)
      /\ p.scopePre = Stack(p.scopePre.items, p.scopePre.variable)
      /\ p.scopePost = Stack(p.scopePost.items, p.scopePost.variable)
      /\ p.symbolPre.items \in S /\ p.symbolPre.variable \in Nat
      /\ p.symbolPost.items \in S /\ p.symbolPost.variable \in Nat
      /\ p.scopePre.items \in T /\ p.scopePre.variable \in Nat
      /\ p.scopePost.items \in T /\ p.scopePost.variable \in Nat
  BY <1>1 DEF Stack
<1> QED BY <1>2 DEF S, T

LEMMA ScopeStackIs ==
  ASSUME NEW st \in ScopeStacks
  PROVE  st.items \in Seq(ExportedScopes) /\ st.variable \in Nat /\ st = Stack(st.items, st.variable)
<1> DEFINE T == Seq(ExportedScopes)
<1>1. st \in [items : T, variable : Nat]
  BY DEF ScopeStacks
<1> HIDE DEF T
<1>2. st.items \in T /\ st.variable \in Nat /\ st = Stack(st.items, st.variable)
  BY <1>1 DEF Stack
<1> QED BY <1>2 DEF T

(* The demanded symbols of an open path. *)
LEMMA OpenIs ==
  ASSUME NEW p, Open(p)
  PROVE  /\ p \in Paths /\ p.symbolPre.variable = 1 /\ p.symbolPost.variable = 1
         /\ p.scopePre = FromVariable(1)
         /\ \A i \in 1..Len(p.symbolPre.items) :
              /\ p.symbolPre.items[i] \in StackSymbols
              /\ AtMostOne(p.symbolPre.items[i].scopes)
              /\ \A s \in p.symbolPre.items[i].scopes :
                   /\ s \in ScopeStacks /\ s.items = <<>> /\ s.variable \notin {0, 1}
                   /\ \A j \in 1..Len(p.symbolPre.items) : \A t \in p.symbolPre.items[j].scopes :
                        s.variable = t.variable => i = j /\ s = t
         /\ \A i \in 1..Len(p.symbolPost.items) :
              /\ p.symbolPost.items[i] \in StackSymbols
              /\ AtMostOne(p.symbolPost.items[i].scopes)
<1>1. p \in Paths /\ OptionsIn(p.symbolPre) /\ OptionsIn(p.symbolPost)
      /\ p.symbolPre.variable = 1 /\ p.symbolPost.variable = 1 /\ p.scopePre = FromVariable(1)
  BY DEF Open
<1> DEFINE pre == p.symbolPre.items
           post == p.symbolPost.items
<1>2. pre \in Seq(StackSymbols) /\ post \in Seq(StackSymbols)
  BY <1>1, PathTyped
<1>3. DOMAIN pre = 1..Len(pre) /\ DOMAIN post = 1..Len(post)
  BY <1>2
<1>4. \A i \in 1..Len(pre) : pre[i] \in StackSymbols /\ AtMostOne(pre[i].scopes)
  BY <1>1, <1>2, <1>3 DEF OptionsIn
<1>5. \A i \in 1..Len(post) : post[i] \in StackSymbols /\ AtMostOne(post[i].scopes)
  BY <1>1, <1>2, <1>3 DEF OptionsIn
<1>6. \A i, j \in 1..Len(pre) : \A s \in pre[i].scopes, t \in pre[j].scopes :
        s.items = <<>> /\ s.variable \notin {0, 1} /\ (s.variable = t.variable => i = j)
  BY <1>3 DEF Open
<1>7. ASSUME NEW i \in 1..Len(pre), NEW s \in pre[i].scopes
      PROVE  /\ s \in ScopeStacks /\ s.items = <<>> /\ s.variable \notin {0, 1}
             /\ \A j \in 1..Len(pre) : \A t \in pre[j].scopes :
                  s.variable = t.variable => i = j /\ s = t
  <2>1. s \in ScopeStacks
    BY <1>4 DEF StackSymbols
  <2>2. s.items = <<>> /\ s.variable \notin {0, 1}
    BY <1>6
  <2>3. ASSUME NEW j \in 1..Len(pre), NEW t \in pre[j].scopes, s.variable = t.variable
        PROVE  i = j /\ s = t
    <3>1. i = j
      BY <1>6, <2>3
    <3>2. AtMostOne(pre[i].scopes)
      BY <1>4
    <3> QED BY <3>1, <3>2 DEF AtMostOne
  <2> QED BY <2>1, <2>2, <2>3
<1> QED BY <1>1, <1>4, <1>5, <1>7

LEMMA CoversAll ==
  ASSUME NEW S, NEW s \in Seq(S), NEW st, st.items = <<>>, st.variable # 0
  PROVE  Covers(st, s) /\ Left(st, s) = s
<1>1. Len(<<>>) = 0 /\ Len(s) \in Nat
  OBVIOUS
<1>2. SubSeq(<<>>, 1, 0) = <<>> /\ SubSeq(s, 1, 0) = <<>>
  BY SubSeqEmpty
<1>3. IsPrefix(<<>>, s)
  BY <1>1, <1>2 DEF IsPrefix
<1>4. SubSeq(s, 1, Len(s)) = s
  BY SubSeqFull
<1> QED BY <1>1, <1>3, <1>4 DEF Covers, Left

(* An open path accepts what has the symbols that it demands. *)
Has(pre, symbols) ==
  /\ Len(pre) <= Len(symbols)
  /\ \A i \in 1..Len(pre) : /\ pre[i].symbol = symbols[i].symbol
                            /\ (pre[i].scopes = {}) = (symbols[i].scopes = {})

LEMMA ConcreteIs ==
  ASSUME NEW c \in EveryStack
  PROVE  /\ c.symbols \in Seq(ConcreteSymbols) /\ c.scopes \in Seq(ExportedScopes)
         /\ Len(c.symbols) \in Nat /\ DOMAIN c.symbols = 1..Len(c.symbols)
         /\ \A i \in 1..Len(c.symbols) :
              /\ c.symbols[i] \in ConcreteSymbols
              /\ c.symbols[i].scopes \subseteq Seq(ExportedScopes) /\ AtMostOne(c.symbols[i].scopes)
<1>1. c.symbols \in Seq(ConcreteSymbols) /\ c.scopes \in Seq(ExportedScopes)
  BY StacksExcept
<1>2. \A i \in 1..Len(c.symbols) : c.symbols[i] \in ConcreteSymbols
  BY <1>1
<1> DEFINE T == Seq(ExportedScopes)
<1>3. \A s \in ConcreteSymbols : s.scopes \subseteq T /\ AtMostOne(s.scopes)
  BY DEF ConcreteSymbols
<1> QED BY <1>1, <1>2, <1>3

LEMMA AcceptsIs ==
  ASSUME NEW p, Open(p), NEW c \in EveryStack
  PROVE  Accepts(p, c) <=> Has(p.symbolPre.items, c.symbols)
<1> DEFINE pre == p.symbolPre.items
<1>1. pre \in Seq(StackSymbols) /\ DOMAIN pre = 1..Len(pre) /\ Len(pre) \in Nat
  BY OpenIs, PathTyped
<1>2. p.symbolPre.variable # 0 /\ Covers(p.scopePre, c.scopes)
  <2>1. p.scopePre.items = <<>> /\ p.scopePre.variable # 0
    BY OpenIs DEF FromVariable, Stack
  <2>2. Covers(p.scopePre, c.scopes)
    BY <2>1, ConcreteIs, CoversAll
  <2> QED BY <2>2, OpenIs
<1>3. ASSUME NEW i \in 1..Len(pre), Len(pre) <= Len(c.symbols),
             NEW st \in pre[i].scopes, NEW s \in c.symbols[i].scopes
      PROVE  Covers(st, s)
  <2>1. st.items = <<>> /\ st.variable # 0
    BY OpenIs
  <2>2. i \in 1..Len(c.symbols)
    BY <1>1, <1>3, ConcreteIs
  <2>3. s \in Seq(ExportedScopes)
    BY <2>2, ConcreteIs
  <2> QED BY <2>1, <2>3, CoversAll
<1>4. Accepts(p, c) <=>
        /\ Len(pre) <= Len(c.symbols)
        /\ \A i \in 1..Len(pre) :
             /\ pre[i].symbol = c.symbols[i].symbol
             /\ (pre[i].scopes = {}) = (c.symbols[i].scopes = {})
             /\ \A st \in pre[i].scopes, s \in c.symbols[i].scopes : Covers(st, s)
  BY <1>1, <1>2 DEF Accepts
<1> HIDE DEF pre
<1>5. Accepts(p, c) <=> Has(pre, c.symbols)
  BY <1>3, <1>4 DEF Has
<1> QED BY <1>5 DEF pre

(* What the variables of an open path stand for. *)
LEMMA ScopesForIs ==
  ASSUME NEW p, Open(p), NEW c \in EveryStack, Has(p.symbolPre.items, c.symbols)
  PROVE  /\ ScopesFor(p, c, 0) = <<>> /\ ScopesFor(p, c, 1) = c.scopes
         /\ \A i \in 1..Len(p.symbolPre.items) : \A st \in p.symbolPre.items[i].scopes :
              c.symbols[i].scopes = {ScopesFor(p, c, st.variable)}
<1> DEFINE pre == p.symbolPre.items
           Attached(v) == UNION {{<<i, st>> : st \in {t \in pre[i].scopes : t.variable = v}} :
                                   i \in DOMAIN pre}
<1>1. pre \in Seq(StackSymbols) /\ DOMAIN pre = 1..Len(pre) /\ Len(pre) \in Nat
  BY OpenIs, PathTyped
<1>2. ScopesFor(p, c, 0) = <<>>
  BY DEF ScopesFor
<1>3. p.scopePre.variable = 1 /\ p.scopePre.items = <<>>
  BY OpenIs DEF FromVariable, Stack
<1>4. ScopesFor(p, c, 1) = c.scopes
  <2>1. ScopesFor(p, c, 1) = Left(p.scopePre, c.scopes)
    BY <1>3 DEF ScopesFor
  <2>2. Left(p.scopePre, c.scopes) = c.scopes
    BY <1>3, ConcreteIs, CoversAll
  <2> QED BY <2>1, <2>2
<1>5. ASSUME NEW i \in 1..Len(pre), NEW st \in pre[i].scopes
      PROVE  c.symbols[i].scopes = {ScopesFor(p, c, st.variable)}
  <2> DEFINE v == st.variable
             scopes == c.symbols[i].scopes
  <2>1. st.items = <<>> /\ v \notin {0, 1}
    BY OpenIs
  <2>2. Attached(v) = {<<i, st>>}
    <3>1. <<i, st>> \in Attached(v)
      BY <1>1
    <3>2. ASSUME NEW a \in Attached(v) PROVE a = <<i, st>>
      <4>0. PICK j \in 1..Len(pre) : \E t \in pre[j].scopes : t.variable = v /\ a = <<j, t>>
        BY <1>1
      <4>1. PICK t \in pre[j].scopes : t.variable = v /\ a = <<j, t>>
        BY <4>0
      <4>2. st.variable = t.variable => i = j /\ st = t
        BY OpenIs
      <4> QED BY <4>1, <4>2
    <3> HIDE DEF Attached
    <3> QED BY <3>1, <3>2
  <2>3. The(Attached(v)) = <<i, st>>
    <3> HIDE DEF Attached
    <3> QED BY <2>2, TheOne
  <2>4. ScopesFor(p, c, v) = Left(st, The(scopes))
    <3>1. ScopesFor(p, c, v) = Left(The(Attached(v))[2], The(c.symbols[The(Attached(v))[1]].scopes))
      <4> HIDE DEF v
      <4> QED BY <1>3, <2>1 DEF ScopesFor
    <3> HIDE DEF Attached
    <3> QED BY <2>3, <3>1
  <2>5. i \in 1..Len(c.symbols) /\ scopes # {}
    <3>1. Len(pre) <= Len(c.symbols) /\ (pre[i].scopes = {}) = (scopes = {})
      BY DEF Has
    <3> QED BY <1>1, <3>1, ConcreteIs
  <2>6. scopes \subseteq Seq(ExportedScopes) /\ AtMostOne(scopes)
    BY <2>5, ConcreteIs
  <2> HIDE DEF scopes
  <2>7. PICK s : scopes = {s}
    BY <2>5, <2>6 DEF AtMostOne
  <2>8. The(scopes) = s /\ s \in Seq(ExportedScopes)
    BY <2>6, <2>7, TheOne
  <2>9. Left(st, s) = s
    BY <2>1, <2>8, CoversAll
  <2>10. scopes = {ScopesFor(p, c, v)}
    BY <2>4, <2>7, <2>8, <2>9
  <2> QED BY <2>10 DEF scopes
<1> QED BY <1>2, <1>4, <1>5

(* A sequence with another first element. *)
Pushed(x, s) == <<x>> \o s

Fill(p, c, st) == st.items \o ScopesFor(p, c, st.variable)
FilledSymbol(p, c, s) == [symbol |-> s.symbol, scopes |-> {Fill(p, c, st) : st \in s.scopes}]
Filled(p, c, items) == [i \in DOMAIN items |-> FilledSymbol(p, c, items[i])]
Below(p, c) == SubSeq(c.symbols, Len(p.symbolPre.items) + 1, Len(c.symbols))

LEMMA ResultIs ==
  ASSUME NEW p, Open(p), NEW c
  PROVE  ResultOf(p, c) = [symbols |-> Filled(p, c, p.symbolPost.items) \o Below(p, c),
                           scopes |-> Fill(p, c, p.scopePost)]
<1> DEFINE post == p.symbolPost.items
           Exchanged == [i \in DOMAIN post |->
                          [post[i] EXCEPT !.scopes = {Fill(p, c, st) : st \in @}]]
<1>1. ResultOf(p, c) = [symbols |-> Exchanged \o Below(p, c), scopes |-> Fill(p, c, p.scopePost)]
  <2>1. ResultOf(p, c) =
          Concrete(Exchanged \o (IF p.symbolPost.variable = 0 THEN <<>> ELSE Below(p, c)),
                   Fill(p, c, p.scopePost))
    BY DEF ResultOf, Below, Fill
  <2>2. p.symbolPost.variable # 0
    BY OpenIs
  <2> HIDE DEF Exchanged
  <2> QED BY <2>1, <2>2 DEF Concrete
<1>2. DOMAIN post = 1..Len(post) /\ \A i \in 1..Len(post) : post[i] \in StackSymbols
  BY OpenIs, PathTyped
<1>3. ASSUME NEW i \in DOMAIN post
      PROVE  [post[i] EXCEPT !.scopes = {Fill(p, c, st) : st \in @}] = FilledSymbol(p, c, post[i])
  <2> DEFINE s == post[i]
             x == {Fill(p, c, st) : st \in s.scopes}
  <2>1. s \in StackSymbols
    BY <1>2
  <2>2. [s EXCEPT !.scopes = x] = [symbol |-> s.symbol, scopes |-> x]
    <3> HIDE DEF s, x
    <3> QED BY <2>1 DEF StackSymbols
  <2> QED BY <2>2 DEF FilledSymbol
<1>4. Exchanged = Filled(p, c, post)
  <2> DEFINE Given(i) == [post[i] EXCEPT !.scopes = {Fill(p, c, st) : st \in @}]
             Made(i) == FilledSymbol(p, c, post[i])
  <2>1. \A i \in DOMAIN post : Given(i) = Made(i)
    BY <1>3
  <2>2. Exchanged = [i \in DOMAIN post |-> Given(i)]
        /\ Filled(p, c, post) = [i \in DOMAIN post |-> Made(i)]
    BY DEF Filled
  <2> HIDE DEF Given, Made, Exchanged
  <2> QED BY <2>1, <2>2
<1> QED BY <1>1, <1>4

LEMMA FilledIs ==
  ASSUME NEW p, NEW c, NEW items, IsSequence(items)
  PROVE  /\ IsSequence(Filled(p, c, items)) /\ Len(Filled(p, c, items)) = Len(items)
         /\ \A i \in 1..Len(items) : Filled(p, c, items)[i] = FilledSymbol(p, c, items[i])
<1> DEFINE f == Filled(p, c, items)
<1>1. Len(items) \in Nat /\ DOMAIN items = 1..Len(items)
  BY SequenceIs
<1>2. f = [i \in 1..Len(items) |-> f[i]]
      /\ \A i \in 1..Len(items) : f[i] = FilledSymbol(p, c, items[i])
  BY <1>1 DEF Filled
<1> HIDE DEF f
<1>3. IsSequence(f) /\ Len(f) = Len(items)
  BY <1>1, <1>2, FunctionIsSequence
<1> QED BY <1>2, <1>3 DEF f

LEMMA SameSequence ==
  ASSUME NEW s, IsSequence(s), NEW t, IsSequence(t), Len(s) = Len(t),
         \A i \in 1..Len(s) : s[i] = t[i]
  PROVE  s = t
<1>1. s = [i \in 1..Len(s) |-> s[i]] /\ t = [i \in 1..Len(t) |-> t[i]]
  BY SequenceIs
<1> QED BY <1>1

LEMMA OneIs ==
  ASSUME NEW x
  PROVE  IsSequence(<<x>>) /\ Len(<<x>>) = 1 /\ <<x>>[1] = x
<1>1. <<x>> \in Seq({x}) /\ Len(<<x>>) = 1 /\ <<x>>[1] = x
  OBVIOUS
<1> QED BY <1>1, SequenceOf

LEMMA FilledPush ==
  ASSUME NEW p, NEW c, NEW x, NEW items, IsSequence(items)
  PROVE  Filled(p, c, Pushed(x, items)) = Pushed(FilledSymbol(p, c, x), Filled(p, c, items))
<1> DEFINE y == FilledSymbol(p, c, x)
           longer == <<x>> \o items
           left == Filled(p, c, longer)
           filled == Filled(p, c, items)
           right == <<y>> \o filled
<1>1. /\ IsSequence(longer) /\ Len(longer) = 1 + Len(items) /\ longer[1] = x
      /\ \A i \in 1..Len(items) : longer[1 + i] = items[i]
  <2>1. IsSequence(<<x>>) /\ Len(<<x>>) = 1 /\ <<x>>[1] = x /\ 1 \in 1..1
    BY OneIs
  <2> QED BY <2>1, ConcatIs
<1>2. /\ IsSequence(filled) /\ Len(filled) = Len(items)
      /\ \A i \in 1..Len(items) : filled[i] = FilledSymbol(p, c, items[i])
  BY FilledIs
<1> HIDE DEF filled
<1>3. /\ IsSequence(right) /\ Len(right) = 1 + Len(items) /\ right[1] = y
      /\ \A i \in 1..Len(items) : right[1 + i] = FilledSymbol(p, c, items[i])
  <2> HIDE DEF y
  <2>1. IsSequence(<<y>>) /\ Len(<<y>>) = 1 /\ <<y>>[1] = y /\ 1 \in 1..1
    BY OneIs
  <2>2. /\ IsSequence(right) /\ Len(right) = 1 + Len(filled) /\ right[1] = y
        /\ \A i \in 1..Len(filled) : right[1 + i] = filled[i]
    BY <1>2, <2>1, ConcatIs
  <2> QED BY <1>2, <2>2
<1> HIDE DEF right, longer
<1>4. /\ IsSequence(left) /\ Len(left) = 1 + Len(items)
      /\ \A i \in 1..Len(longer) : left[i] = FilledSymbol(p, c, longer[i])
  BY <1>1, FilledIs
<1> HIDE DEF left
<1>5. Len(items) \in Nat
  BY SequenceIs
<1>6. ASSUME NEW i \in 1..1 + Len(items) PROVE left[i] = right[i]
  <2>1. CASE i = 1
    BY <1>1, <1>3, <1>4, <2>1 DEF y
  <2>2. CASE i # 1
    <3>1. PICK j \in 1..Len(items) : i = 1 + j
      <4>1. i - 1 \in 1..Len(items) /\ i = 1 + (i - 1)
        BY ONLY <1>5, <2>2, i \in 1..1 + Len(items)
      <4> QED BY ONLY <4>1
    <3> QED BY <1>1, <1>3, <1>4, <3>1
  <2> QED BY <2>1, <2>2
<1>7. left = right
  BY <1>3, <1>4, <1>6, SameSequence
<1>8. Filled(p, c, <<x>> \o items) = <<y>> \o filled
  BY <1>7 DEF left, right, longer
<1> QED BY <1>8 DEF y, filled, Pushed

(* The variables that a postcondition may have. *)
Known(p) == {0, 1} \cup ScopeVariables(p.symbolPre)

LEMMA PostKnown ==
  ASSUME NEW p, Open(p)
  PROVE  /\ p.scopePost \in ScopeStacks /\ p.scopePost.variable \in Known(p)
         /\ \A i \in 1..Len(p.symbolPost.items) : \A st \in p.symbolPost.items[i].scopes :
              st \in ScopeStacks /\ st.variable \in Known(p)
<1> DEFINE post == p.symbolPost.items
<1>1. DOMAIN post = 1..Len(post) /\ \A i \in 1..Len(post) : post[i] \in StackSymbols
  BY OpenIs, PathTyped
<1>2. ScopeVariablesPost(p) \ {0, 1} \subseteq ScopeVariables(p.symbolPre)
  BY DEF Open
<1>3. p.scopePost \in ScopeStacks /\ p.scopePost.variable \in ScopeVariablesPost(p)
  BY OpenIs DEF ScopeVariablesPost, Paths
<1>4. ASSUME NEW i \in 1..Len(post), NEW st \in post[i].scopes
      PROVE  st \in ScopeStacks /\ st.variable \in ScopeVariablesPost(p)
  <2>1. st \in ScopeStacks
    BY <1>1 DEF StackSymbols
  <2>2. st.variable \in ScopeVariablesPost(p)
    BY <1>1 DEF ScopeVariablesPost, ScopeVariables
  <2> QED BY <2>1, <2>2
<1> QED BY <1>2, <1>3, <1>4 DEF Known

LEMMA FillTyped ==
  ASSUME NEW p, Open(p), NEW c \in EveryStack, Has(p.symbolPre.items, c.symbols),
         NEW st \in ScopeStacks, st.variable \in Known(p)
  PROVE  /\ ScopesFor(p, c, st.variable) \in Seq(ExportedScopes)
         /\ Fill(p, c, st) \in Seq(ExportedScopes)
<1> DEFINE v == st.variable
           pre == p.symbolPre.items
<1>1. DOMAIN pre = 1..Len(pre) /\ Len(pre) \in Nat
  BY OpenIs, PathTyped
<1>2. ScopesFor(p, c, v) \in Seq(ExportedScopes)
  <2>1. CASE v = 0
    <3>1. <<>> \in Seq(ExportedScopes)
      OBVIOUS
    <3> QED BY <2>1, <3>1, ScopesForIs
  <2>2. CASE v = 1
    BY <2>2, ScopesForIs, ConcreteIs
  <2>3. CASE v \in ScopeVariables(p.symbolPre)
    <3>1. PICK i \in 1..Len(pre) : \E s \in pre[i].scopes : s.variable = v
      BY <1>1, <2>3 DEF ScopeVariables
    <3>2. PICK s \in pre[i].scopes : s.variable = v
      BY <3>1
    <3>3. c.symbols[i].scopes = {ScopesFor(p, c, v)}
      BY <3>2, ScopesForIs
    <3>4. i \in 1..Len(c.symbols)
      BY <1>1, ConcreteIs DEF Has
    <3>5. c.symbols[i].scopes \subseteq Seq(ExportedScopes)
      BY <3>4, ConcreteIs
    <3> QED BY <3>3, <3>5
  <2> QED BY <2>1, <2>2, <2>3 DEF Known
<1>3. st.items \in Seq(ExportedScopes)
  BY ScopeStackIs
<1>4. Fill(p, c, st) \in Seq(ExportedScopes)
  BY <1>2, <1>3, ConcatProperties DEF Fill
<1> QED BY <1>2, <1>4

LEMMA FilledTyped ==
  ASSUME NEW p, Open(p), NEW c \in EveryStack, Has(p.symbolPre.items, c.symbols)
  PROVE  Filled(p, c, p.symbolPost.items) \in Seq(ConcreteSymbols)
<1> DEFINE post == p.symbolPost.items
           f == Filled(p, c, post)
<1>1. IsSequence(post)
  BY OpenIs, PathTyped, SequenceOf
<1>2. IsSequence(f) /\ Len(f) = Len(post) /\ \A i \in 1..Len(post) : f[i] = FilledSymbol(p, c, post[i])
  BY <1>1, FilledIs
<1>3. ASSUME NEW i \in 1..Len(post) PROVE FilledSymbol(p, c, post[i]) \in ConcreteSymbols
  <2> DEFINE scopes == {Fill(p, c, st) : st \in post[i].scopes}
             symbol == post[i].symbol
  <2>1. \A st \in post[i].scopes : Fill(p, c, st) \in Seq(ExportedScopes)
    BY PostKnown, FillTyped
  <2>2. scopes \in SUBSET Seq(ExportedScopes)
    BY <2>1
  <2>3. AtMostOne(scopes)
    <3>1. AtMostOne(post[i].scopes)
      BY OpenIs
    <3> QED BY <3>1 DEF AtMostOne
  <2>4. symbol \in {SymbolOf[n] : n \in DOMAIN SymbolOf}
    <3>1. post[i] \in StackSymbols
      BY OpenIs
    <3> QED BY <3>1 DEF StackSymbols
  <2>5. FilledSymbol(p, c, post[i]) = [symbol |-> symbol, scopes |-> scopes]
    BY DEF FilledSymbol
  <2> HIDE DEF scopes, symbol
  <2> QED BY <2>2, <2>3, <2>4, <2>5 DEF ConcreteSymbols
<1> HIDE DEF f
<1>4. ToSet(f) \subseteq ConcreteSymbols
  <2>1. DOMAIN f = 1..Len(post)
    BY <1>2, SequenceIs
  <2> QED BY <1>2, <1>3, <2>1 DEF ToSet
<1>5. f \in Seq(ConcreteSymbols)
  BY <1>2, <1>4, MembersIs
<1> QED BY <1>5 DEF f

LEMMA BelowTyped ==
  ASSUME NEW p, Open(p), NEW c \in EveryStack
  PROVE  Below(p, c) \in Seq(ConcreteSymbols)
<1> DEFINE m == Len(p.symbolPre.items) + 1
<1>1. m \in Nat /\ m >= 1
  BY OpenIs, PathTyped
<1>2. Len(c.symbols) \in Nat /\ \A i \in m..Len(c.symbols) : c.symbols[i] \in ConcreteSymbols
  BY <1>1, ConcreteIs
<1> HIDE DEF m
<1>3. SubSeq(c.symbols, m, Len(c.symbols)) \in Seq(ConcreteSymbols)
  BY <1>1, <1>2, SubSeqProperties
<1> QED BY <1>3 DEF Below, m

LEMMA ResultTyped ==
  ASSUME NEW p, Open(p), NEW c \in EveryStack, Has(p.symbolPre.items, c.symbols)
  PROVE  ResultOf(p, c) \in EveryStack
<1> DEFINE a == Filled(p, c, p.symbolPost.items)
           b == Below(p, c)
           s == Fill(p, c, p.scopePost)
<1>1. a \in Seq(ConcreteSymbols) /\ b \in Seq(ConcreteSymbols) /\ s \in Seq(ExportedScopes)
  BY FilledTyped, BelowTyped, PostKnown, FillTyped
<1>2. ResultOf(p, c) = [symbols |-> a \o b, scopes |-> s]
  BY ResultIs
<1> HIDE DEF a, b, s
<1>3. a \o b \in Seq(ConcreteSymbols)
  BY <1>1, ConcatProperties
<1> QED BY <1>1, <1>2, <1>3 DEF EveryStack

-----------------------------------------------------------------------------
(* The variables of a path are finitely many, so that a new one is new. *)

LEMMA FreshIsNew ==
  ASSUME NEW p, Open(p)
  PROVE  /\ FreshScopeVariable(p) \in Nat /\ FreshScopeVariable(p) \notin {0, 1}
         /\ FreshScopeVariable(p) \notin ScopeVariables(p.symbolPre)
<1> DEFINE pre == p.symbolPre.items
           used == {1} \cup {s.variable : s \in UNION {pre[i].scopes : i \in DOMAIN pre}}
<1>1. DOMAIN pre = 1..Len(pre) /\ Len(pre) \in Nat
  BY OpenIs, PathTyped
<1>2. \A v \in used : v \in Nat
  BY <1>1, OpenIs, ScopeStackIs
<1>3. \A i \in 1..Len(pre) : \A s \in pre[i].scopes : s.variable \in used
  BY <1>1
<1>4. \A v \in used : v = 1 \/ \E i \in 1..Len(pre) : \E s \in pre[i].scopes : s.variable = v
  BY <1>1
<1>5. LargestScopeVariable(p) = CHOOSE v \in used : \A w \in used : w <= v
  <2>1. p.scopePre.variable = 1
    BY OpenIs DEF FromVariable, Stack
  <2>2. LargestScopeVariable(p) =
          LET all == {p.scopePre.variable} \cup {s.variable : s \in UNION {pre[i].scopes : i \in DOMAIN pre}}
          IN  CHOOSE v \in all : \A w \in all : w <= v
    BY DEF LargestScopeVariable
  <2> QED BY <2>1, <2>2
<1>6. ScopeVariables(p.symbolPre) \subseteq used
  BY <1>1, <1>3 DEF ScopeVariables
<1>7. 1 \in used
  OBVIOUS
<1> HIDE DEF used
<1> DEFINE Bounds(k) == {b \in Nat : 1 <= b /\ \A i \in 1..k : \A s \in pre[i].scopes : s.variable <= b}
           T == {k \in 0..Len(pre) : Bounds(k) # {}}
<1>8. Bounds(0) # {}
  <2>1. 1 \in Bounds(0)
    OBVIOUS
  <2> QED BY <2>1
<1>9. ASSUME NEW k \in 1..Len(pre), Bounds(k - 1) # {} PROVE Bounds(k) # {}
  <2>1. PICK b \in Nat : 1 <= b /\ \A i \in 1..k - 1 : \A s \in pre[i].scopes : s.variable <= b
    BY <1>9
  <2>2. \A s \in pre[k].scopes : s.variable \in Nat
    BY <1>2, <1>3
  <2>3. \A i \in 1..k : i = k \/ i \in 1..k - 1
    BY <1>1
  <2>4. \A i \in 1..k - 1 : \A s \in pre[i].scopes : s.variable \in Nat
    BY <1>1, <1>2, <1>3
  <2>5. CASE pre[k].scopes = {}
    <3>1. b \in Bounds(k)
      BY <2>1, <2>3, <2>5
    <3> QED BY <3>1
  <2>6. CASE pre[k].scopes # {}
    <3>1. PICK t : pre[k].scopes = {t}
      <4>1. AtMostOne(pre[k].scopes)
        BY OpenIs
      <4> DEFINE scopes == pre[k].scopes
      <4> HIDE DEF scopes
      <4>2. PICK t \in scopes : TRUE
        BY <2>6 DEF scopes
      <4>3. scopes = {t}
        BY <4>1, <4>2 DEF AtMostOne, scopes
      <4> QED BY <4>3 DEF scopes
    <3> DEFINE larger == b + t.variable
    <3>2. t.variable \in Nat
      BY <2>2, <3>1
    <3>3. larger \in Nat /\ 1 <= larger /\ t.variable <= larger /\ b <= larger
      BY <2>1, <3>2
    <3>4. ASSUME NEW i \in 1..k, NEW s \in pre[i].scopes PROVE s.variable <= larger
      <4>1. CASE i = k
        BY <3>1, <3>3, <4>1
      <4>2. CASE i \in 1..k - 1
        <5>1. s.variable <= b /\ s.variable \in Nat
          BY <2>1, <2>4, <4>2
        <5> HIDE DEF larger
        <5> QED BY <3>3, <5>1
      <4> QED BY <2>3, <4>1, <4>2
    <3> HIDE DEF larger
    <3>5. larger \in Bounds(k)
      BY <3>3, <3>4
    <3> QED BY <3>5
  <2> QED BY <2>5, <2>6
<1>10. Climbs(Len(pre), T)
  <2> HIDE DEF Bounds
  <2>1. 0 \in T
    BY <1>1, <1>8
  <2>2. \A k \in 1..Len(pre) : k - 1 \in T => k \in T
    BY <1>9
  <2> QED BY <2>1, <2>2 DEF Climbs
<1>11. Bounds(Len(pre)) # {}
  <2>1. Len(pre) \in T
    <3> HIDE DEF T
    <3> QED BY <1>1, <1>10, UpTo
  <2> QED BY <2>1
<1> DEFINE B == Bounds(Len(pre))
<1>12. B \in SUBSET Nat /\ \A b \in Nat : b \in B <=> \A w \in used : w <= b
  BY <1>3, <1>4, <1>7
<1>13. PICK m \in B : \A b \in B : m <= b
  <2>1. B \in SUBSET Nat /\ B # {}
    BY <1>11, <1>12
  <2> HIDE DEF B
  <2> QED BY <2>1, Least
<1> HIDE DEF B
<1>14. m \in Nat /\ \A w \in used : w <= m
  BY <1>12, <1>13
<1>15. m \in used
  <2> SUFFICES ASSUME m \notin used PROVE FALSE
    OBVIOUS
  <2>1. 1 <= m /\ m # 1
    BY <1>7, <1>14
  <2>2. m - 1 \in Nat
    BY <1>14, <2>1
  <2>3. ASSUME NEW w \in used PROVE w <= m - 1
    <3>1. w \in Nat /\ w <= m /\ w # m
      BY <1>2, <1>14
    <3> QED BY <1>14, <3>1
  <2>4. m - 1 \in B
    BY <1>12, <2>2, <2>3
  <2>5. m <= m - 1
    BY <1>13, <2>4
  <2> QED BY <1>14, <2>5
<1> DEFINE largest == LargestScopeVariable(p)
<1>16. largest \in used /\ \A w \in used : w <= largest
  BY <1>5, <1>14, <1>15
<1> HIDE DEF largest
<1>17. largest \in Nat /\ 1 <= largest
  BY <1>2, <1>7, <1>16
<1>18. largest + 1 \notin used
  <2> SUFFICES ASSUME largest + 1 \in used PROVE FALSE
    OBVIOUS
  <2>1. largest + 1 <= largest
    BY <1>16
  <2> QED BY <1>17, <2>1
<1>19. largest + 1 \in Nat /\ largest + 1 \notin {0, 1}
  BY <1>17
<1> QED BY <1>6, <1>18, <1>19 DEF FreshScopeVariable, largest

(* Paths with the same precondition. *)
LEMMA SamePre ==
  ASSUME NEW p, NEW q, q.symbolPre = p.symbolPre, q.scopePre = p.scopePre, NEW c
  PROVE  /\ \A st : Fill(q, c, st) = Fill(p, c, st)
         /\ \A items : Filled(q, c, items) = Filled(p, c, items)
         /\ Below(q, c) = Below(p, c)
<1>1. \A v : ScopesFor(q, c, v) = ScopesFor(p, c, v)
  BY DEF ScopesFor
<1>2. \A st : Fill(q, c, st) = Fill(p, c, st)
  BY <1>1 DEF Fill
<1>3. \A s : FilledSymbol(q, c, s) = FilledSymbol(p, c, s)
  BY <1>2 DEF FilledSymbol
<1>4. \A items : Filled(q, c, items) = Filled(p, c, items)
  BY <1>3 DEF Filled
<1> QED BY <1>2, <1>4 DEF Below

LEMMA OpenSamePre ==
  ASSUME NEW p, Open(p), NEW q \in Paths, q.symbolPre = p.symbolPre, q.scopePre = p.scopePre,
         q.symbolPost.variable = 1, OptionsIn(q.symbolPost),
         \A v \in ScopeVariablesPost(q) : v \in Known(p)
  PROVE  Open(q)
<1>1. ScopeVariablesPost(q) \ {0, 1} \subseteq ScopeVariables(q.symbolPre)
  BY DEF Known
<1> QED BY <1>1 DEF Open

LEMMA ApplyIs ==
  ASSUME NEW p, Open(p), NEW c \in EveryStack
  PROVE  ApplyPath(p, c) = IF Has(p.symbolPre.items, c.symbols) THEN {ResultOf(p, c)} ELSE {}
  BY AcceptsIs DEF ApplyPath

(* It is enough that the visit turns one result into the other. *)
LEMMA ApplySamePre ==
  ASSUME NEW p, Open(p), NEW q, Open(q), q.symbolPre = p.symbolPre,
         NEW n, NEW c \in EveryStack,
         Has(p.symbolPre.items, c.symbols) =>
           VisitConcretely(n, ResultOf(p, c)) = {ResultOf(q, c)}
  PROVE  ApplyPath(q, c) = UNION {VisitConcretely(n, d) : d \in ApplyPath(p, c)}
<1>1. CASE Has(p.symbolPre.items, c.symbols)
  <2>1. ApplyPath(p, c) = {ResultOf(p, c)} /\ ApplyPath(q, c) = {ResultOf(q, c)}
    BY <1>1, ApplyIs
  <2>2. UNION {VisitConcretely(n, d) : d \in {ResultOf(p, c)}} = VisitConcretely(n, ResultOf(p, c))
    OBVIOUS
  <2> QED BY <1>1, <2>1, <2>2
<1>2. CASE ~Has(p.symbolPre.items, c.symbols)
  <2>1. ApplyPath(p, c) = {} /\ ApplyPath(q, c) = {}
    BY <1>2, ApplyIs
  <2> QED BY <2>1
<1> QED BY <1>1, <1>2

-----------------------------------------------------------------------------
(* Visiting a node, case by case. *)

Made(p, pre, post, scopes) ==
  [start |-> p.start, end |-> p.end, edges |-> p.edges, symbolPre |-> pre, symbolPost |-> post,
   scopePre |-> p.scopePre, scopePost |-> scopes]

PostsExcept(p, x, y) == [p EXCEPT !.symbolPost = x, !.scopePost = y]
PreExcept(p, x, y) == [p EXCEPT !.symbolPre = x, !.scopePost = y]

LEMMA MadeIs ==
  ASSUME NEW p \in Paths, NEW x, NEW y
  PROVE  /\ p = Made(p, p.symbolPre, p.symbolPost, p.scopePost)
         /\ [p EXCEPT !.scopePost = y] = Made(p, p.symbolPre, p.symbolPost, y)
         /\ [p EXCEPT !.symbolPost = x] = Made(p, p.symbolPre, x, p.scopePost)
<1> DEFINE E == Seq([source : Nodes, precedence : Nat])
<1>1. p \in [start : Nodes, end : Nodes, edges : E, symbolPre : SymbolStacks,
             symbolPost : SymbolStacks, scopePre : ScopeStacks, scopePost : ScopeStacks]
  BY DEF Paths
<1> HIDE DEF E
<1>2. p = Made(p, p.symbolPre, p.symbolPost, p.scopePost)
  BY <1>1 DEF Made
<1>3. [p EXCEPT !.scopePost = y] = Made(p, p.symbolPre, p.symbolPost, y)
  BY <1>1 DEF Made
<1>4. [p EXCEPT !.symbolPost = x] = Made(p, p.symbolPre, x, p.scopePost)
  BY <1>1 DEF Made
<1> QED BY <1>2, <1>3, <1>4

LEMMA MadeTwice ==
  ASSUME NEW p \in Paths, NEW x, NEW y
  PROVE  /\ PostsExcept(p, x, y) = Made(p, p.symbolPre, x, y)
         /\ PreExcept(p, x, y) = Made(p, x, p.symbolPost, y)
<1>1. [p EXCEPT !.symbolPost = x, !.scopePost = y] = Made(p, p.symbolPre, x, y)
  <2> DEFINE g == [p EXCEPT !.symbolPost = x]
  <2>1. [p EXCEPT !.symbolPost = x, !.scopePost = y] = [g EXCEPT !.scopePost = y]
    OBVIOUS
  <2> HIDE DEF g
  <2>2. [g EXCEPT !.scopePost = y] = Made(p, p.symbolPre, x, y)
    <3>1. g = Made(p, p.symbolPre, x, p.scopePost)
      BY MadeIs DEF g
    <3> QED BY <3>1 DEF Made
  <2> QED BY <2>1, <2>2
<1>2. [p EXCEPT !.symbolPre = x, !.scopePost = y] = Made(p, x, p.symbolPost, y)
  <2> DEFINE g == [p EXCEPT !.symbolPre = x]
  <2>1. [p EXCEPT !.symbolPre = x, !.scopePost = y] = [g EXCEPT !.scopePost = y]
    OBVIOUS
  <2>2. g = Made(p, x, p.symbolPost, p.scopePost)
    <3> DEFINE E == Seq([source : Nodes, precedence : Nat])
    <3>1. p \in [start : Nodes, end : Nodes, edges : E, symbolPre : SymbolStacks,
                 symbolPost : SymbolStacks, scopePre : ScopeStacks, scopePost : ScopeStacks]
      BY DEF Paths
    <3> HIDE DEF E
    <3> QED BY <3>1 DEF Made
  <2> HIDE DEF g
  <2>3. [g EXCEPT !.scopePost = y] = Made(p, x, p.symbolPost, y)
    BY <2>2 DEF Made
  <2> QED BY <2>1, <2>3
<1>3. PostsExcept(p, x, y) = Made(p, p.symbolPre, x, y)
  BY <1>1 DEF PostsExcept
<1>4. PreExcept(p, x, y) = Made(p, x, p.symbolPost, y)
  BY <1>2 DEF PreExcept
<1> QED BY <1>3, <1>4

LEMMA MadeTyped ==
  ASSUME NEW p \in Paths, NEW pre \in SymbolStacks, NEW post \in SymbolStacks,
         NEW scopes \in ScopeStacks
  PROVE  Made(p, pre, post, scopes) \in Paths
<1> DEFINE E == Seq([source : Nodes, precedence : Nat])
<1>1. p \in [start : Nodes, end : Nodes, edges : E, symbolPre : SymbolStacks,
             symbolPost : SymbolStacks, scopePre : ScopeStacks, scopePost : ScopeStacks]
  BY DEF Paths
<1>2. Paths = [start : Nodes, end : Nodes, edges : E, symbolPre : SymbolStacks,
               symbolPost : SymbolStacks, scopePre : ScopeStacks, scopePost : ScopeStacks]
  BY DEF Paths
<1> HIDE DEF E
<1> QED BY <1>1, <1>2 DEF Made

LEMMA StackMade ==
  /\ \A items \in Seq(StackSymbols), v \in Nat : Stack(items, v) \in SymbolStacks
  /\ \A items \in Seq(ExportedScopes), v \in Nat : Stack(items, v) \in ScopeStacks
<1> DEFINE S == Seq(StackSymbols)
           T == Seq(ExportedScopes)
<1>1. SymbolStacks = [items : S, variable : Nat] /\ ScopeStacks = [items : T, variable : Nat]
  BY DEF SymbolStacks, ScopeStacks, StackSymbols
<1> HIDE DEF S, T
<1>2. /\ \A items \in S, v \in Nat : Stack(items, v) \in SymbolStacks
      /\ \A items \in T, v \in Nat : Stack(items, v) \in ScopeStacks
  BY <1>1 DEF Stack
<1> QED BY <1>2 DEF S, T

LEMMA StackOps ==
  ASSUME NEW items, NEW v, NEW x, NEW k
  PROVE  /\ PushFront(x, Stack(items, v)) = Stack(<<x>> \o items, v)
         /\ PushBack(Stack(items, v), x) = Stack(Append(items, x), v)
         /\ DropFront(Stack(items, v), k) = Stack(SubSeq(items, k + 1, Len(items)), v)
         /\ Stack(items, v).items = items /\ Stack(items, v).variable = v
<1>1. ASSUME NEW others PROVE [Stack(items, v) EXCEPT !.items = others] = Stack(others, v)
  BY DEF Stack
<1>2. Stack(items, v).items = items /\ Stack(items, v).variable = v
  BY DEF Stack
<1> DEFINE st == Stack(items, v)
           front == <<x>> \o items
           back == Append(items, x)
           rest == SubSeq(items, k + 1, Len(items))
<1>3. /\ PushFront(x, st) = [st EXCEPT !.items = <<x>> \o @]
      /\ PushBack(st, x) = [st EXCEPT !.items = Append(@, x)]
      /\ DropFront(st, k) = [st EXCEPT !.items = SubSeq(@, k + 1, Len(@))]
  BY DEF PushFront, PushBack, DropFront
<1>4. /\ [st EXCEPT !.items = <<x>> \o @] = [st EXCEPT !.items = front]
      /\ [st EXCEPT !.items = Append(@, x)] = [st EXCEPT !.items = back]
      /\ [st EXCEPT !.items = SubSeq(@, k + 1, Len(@))] = [st EXCEPT !.items = rest]
  BY <1>2
<1>5. /\ [st EXCEPT !.items = front] = Stack(front, v)
      /\ [st EXCEPT !.items = back] = Stack(back, v)
      /\ [st EXCEPT !.items = rest] = Stack(rest, v)
  <2> HIDE DEF front, back, rest
  <2> QED BY <1>1
<1> QED BY <1>2, <1>3, <1>4, <1>5

VisitEffects(p, n, q) ==
  /\ KindOf[n] = "drop scopes" => q = Made(p, p.symbolPre, p.symbolPost, EmptyStack)
  /\ KindOf[n] = "push symbol" =>
       q = Made(p, p.symbolPre,
                PushFront([symbol |-> SymbolOf[n], scopes |-> {}], p.symbolPost), p.scopePost)
  /\ KindOf[n] = "push scoped symbol" =>
       /\ ScopeOf[n] \in Nodes
       /\ q = Made(p, p.symbolPre,
                   PushFront([symbol |-> SymbolOf[n],
                              scopes |-> {PushFront(ScopeOf[n], p.scopePost)}], p.symbolPost),
                   p.scopePost)
  /\ KindOf[n] = "pop symbol" /\ p.symbolPost.items # <<>> =>
       /\ p.symbolPost.items[1].symbol = SymbolOf[n] /\ p.symbolPost.items[1].scopes = {}
       /\ q = Made(p, p.symbolPre, DropFront(p.symbolPost, 1), p.scopePost)
  /\ KindOf[n] = "pop scoped symbol" /\ p.symbolPost.items # <<>> =>
       /\ p.symbolPost.items[1].symbol = SymbolOf[n] /\ p.symbolPost.items[1].scopes # {}
       /\ q = Made(p, p.symbolPre, DropFront(p.symbolPost, 1), The(p.symbolPost.items[1].scopes))
  /\ KindOf[n] = "pop symbol" /\ p.symbolPost.items = <<>> =>
       q = Made(p, PushBack(p.symbolPre, [symbol |-> SymbolOf[n], scopes |-> {}]),
                p.symbolPost, p.scopePost)
  /\ KindOf[n] = "pop scoped symbol" /\ p.symbolPost.items = <<>> =>
       q = Made(p, PushBack(p.symbolPre, [symbol |-> SymbolOf[n],
                                          scopes |-> {FromVariable(FreshScopeVariable(p))}]),
                p.symbolPost, FromVariable(FreshScopeVariable(p)))
  /\ KindOf[n] \in {"root", "jump to", "scope"} => q = p

LEMMA VisitsAre ==
  ASSUME NEW p, Open(p), NEW n \in Nodes, NEW q \in Visit(n, p)
  PROVE  VisitEffects(p, n, q)
<1>0. p \in Paths /\ p.symbolPost.variable # 0
  BY OpenIs
<1> DEFINE top == p.symbolPost.items[1]
           symbol == SymbolOf[n]
           attached == FromVariable(FreshScopeVariable(p))
<1>1. CASE KindOf[n] = "drop scopes"
  <2>1. Visit(n, p) = {[p EXCEPT !.scopePost = EmptyStack]}
    BY <1>1 DEF Visit, Pushes, Pops
  <2>2. q = Made(p, p.symbolPre, p.symbolPost, EmptyStack)
    BY <1>0, <2>1, MadeIs
  <2> QED BY <1>1, <2>2 DEF VisitEffects
<1>2. CASE KindOf[n] = "push symbol"
  <2> DEFINE x == PushFront(ScopedSymbol(symbol, {}), p.symbolPost)
  <2>1. Visit(n, p) = {[p EXCEPT !.symbolPost = x]}
    BY <1>2 DEF Visit, Pushes, Pops, Scoped
  <2> HIDE DEF x
  <2>2. q = Made(p, p.symbolPre, x, p.scopePost)
    BY <1>0, <2>1, MadeIs
  <2>3. q = Made(p, p.symbolPre, PushFront([symbol |-> symbol, scopes |-> {}], p.symbolPost), p.scopePost)
    BY <2>2 DEF x, ScopedSymbol
  <2> QED BY <1>2, <2>3 DEF VisitEffects
<1>3. CASE KindOf[n] = "push scoped symbol"
  <2> DEFINE x(scopes) == PushFront(ScopedSymbol(symbol, scopes), p.symbolPost)
             under == PushFront(ScopeOf[n], p.scopePost)
  <2>1. Visit(n, p) = {[p EXCEPT !.symbolPost = x(scopes)] :
                         scopes \in IF ScopeOf[n] \in Nodes THEN {{under}} ELSE {}}
    BY <1>3 DEF Visit, Pushes, Pops, Scoped
  <2> HIDE DEF x, under
  <2>2. ScopeOf[n] \in Nodes /\ q = [p EXCEPT !.symbolPost = x({under})]
    BY <2>1
  <2>3. q = Made(p, p.symbolPre, x({under}), p.scopePost)
    BY <1>0, <2>2, MadeIs
  <2>4. q = Made(p, p.symbolPre, PushFront([symbol |-> symbol, scopes |-> {under}], p.symbolPost),
                 p.scopePost)
    BY <2>3 DEF x, ScopedSymbol
  <2> QED BY <1>3, <2>2, <2>4 DEF under, VisitEffects
<1>4. CASE KindOf[n] = "pop symbol" /\ p.symbolPost.items # <<>>
  <2> DEFINE x == DropFront(p.symbolPost, 1)
  <2>1. Visit(n, p) = {[p EXCEPT !.symbolPost = x, !.scopePost = p.scopePost] :
                         t \in {t \in {top} : t.symbol = symbol /\ (t.scopes # {}) = FALSE}}
    BY <1>4 DEF Visit, Pushes, Pops, Scoped, CanMatchEmpty
  <2> HIDE DEF x
  <2>2. top.symbol = symbol /\ top.scopes = {} /\ q = [p EXCEPT !.symbolPost = x, !.scopePost = p.scopePost]
    BY <2>1
  <2>3. q = Made(p, p.symbolPre, x, p.scopePost)
    <3>1. PostsExcept(p, x, p.scopePost) = Made(p, p.symbolPre, x, p.scopePost)
      BY <1>0, MadeTwice
    <3>2. q = PostsExcept(p, x, p.scopePost)
      BY <2>2 DEF PostsExcept
    <3> QED BY <3>1, <3>2
  <2> QED BY <1>4, <2>2, <2>3 DEF x, VisitEffects
<1>5. CASE KindOf[n] = "pop scoped symbol" /\ p.symbolPost.items # <<>>
  <2> DEFINE x == DropFront(p.symbolPost, 1)
  <2>1. Visit(n, p) = {[p EXCEPT !.symbolPost = x, !.scopePost = The(t.scopes)] :
                         t \in {t \in {top} : t.symbol = symbol /\ (t.scopes # {}) = TRUE}}
    BY <1>5 DEF Visit, Pushes, Pops, Scoped, CanMatchEmpty
  <2> HIDE DEF x
  <2>2. /\ top.symbol = symbol /\ top.scopes # {}
        /\ q = [p EXCEPT !.symbolPost = x, !.scopePost = The(top.scopes)]
    BY <2>1
  <2>3. q = Made(p, p.symbolPre, x, The(top.scopes))
    <3> DEFINE y == The(top.scopes)
    <3>1. q = PostsExcept(p, x, y)
      BY <2>2 DEF PostsExcept
    <3> HIDE DEF y
    <3>2. PostsExcept(p, x, y) = Made(p, p.symbolPre, x, y)
      BY <1>0, MadeTwice
    <3>3. q = Made(p, p.symbolPre, x, y)
      BY <3>1, <3>2
    <3> QED BY <3>3 DEF y
  <2> QED BY <1>5, <2>2, <2>3 DEF x, VisitEffects
<1>6. CASE KindOf[n] = "pop symbol" /\ p.symbolPost.items = <<>>
  <2> DEFINE x == PushBack(p.symbolPre, ScopedSymbol(symbol, {}))
  <2>1. Visit(n, p) = {[p EXCEPT !.symbolPre = x, !.scopePost = p.scopePost]}
    BY <1>0, <1>6 DEF Visit, Pushes, Pops, Scoped, CanMatchEmpty
  <2> HIDE DEF x
  <2>2. q = Made(p, x, p.symbolPost, p.scopePost)
    <3>1. PreExcept(p, x, p.scopePost) = Made(p, x, p.symbolPost, p.scopePost)
      BY <1>0, MadeTwice
    <3>2. q = PreExcept(p, x, p.scopePost)
      BY <2>1 DEF PreExcept
    <3> QED BY <3>1, <3>2
  <2>3. q = Made(p, PushBack(p.symbolPre, [symbol |-> symbol, scopes |-> {}]), p.symbolPost, p.scopePost)
    BY <2>2 DEF x, ScopedSymbol
  <2> QED BY <1>6, <2>3 DEF VisitEffects
<1>7. CASE KindOf[n] = "pop scoped symbol" /\ p.symbolPost.items = <<>>
  <2> DEFINE x == PushBack(p.symbolPre, ScopedSymbol(symbol, {attached}))
  <2>1. Visit(n, p) = {[p EXCEPT !.symbolPre = x, !.scopePost = attached]}
    BY <1>0, <1>7 DEF Visit, Pushes, Pops, Scoped, CanMatchEmpty
  <2> HIDE DEF x, attached
  <2>2. q = Made(p, x, p.symbolPost, attached)
    <3>1. PreExcept(p, x, attached) = Made(p, x, p.symbolPost, attached)
      BY <1>0, MadeTwice
    <3>2. q = PreExcept(p, x, attached)
      BY <2>1 DEF PreExcept
    <3> QED BY <3>1, <3>2
  <2>3. q = Made(p, PushBack(p.symbolPre, [symbol |-> symbol, scopes |-> {attached}]), p.symbolPost,
                 attached)
    BY <2>2 DEF x, ScopedSymbol
  <2> QED BY <1>7, <2>3 DEF attached, VisitEffects
<1>8. CASE KindOf[n] \in {"root", "jump to", "scope"}
  <2>1. Visit(n, p) = {p}
    BY <1>8 DEF Visit, Pushes, Pops
  <2>2. q = p
    BY <2>1
  <2> QED BY <1>8, <2>2 DEF VisitEffects
<1>9. KindOf[n] \in Kinds
  BY KindIs
<1> QED BY <1>1, <1>2, <1>3, <1>4, <1>5, <1>6, <1>7, <1>8, <1>9 DEF Kinds, Pushes, Pops

-----------------------------------------------------------------------------
LEMMA PushedTop ==
  ASSUME NEW S, NEW s \in Seq(S), NEW x \in S
  PROVE  /\ Pushed(x, s) \in Seq(S) /\ Pushed(x, s) # <<>>
         /\ Pushed(x, s)[1] = x /\ Tail(Pushed(x, s)) = s /\ Len(Pushed(x, s)) = Len(s) + 1
  BY PushedIs DEF Pushed

LEMMA PushedConcat ==
  ASSUME NEW S, NEW s \in Seq(S), NEW t \in Seq(S), NEW x \in S
  PROVE  Pushed(x, s) \o t = Pushed(x, s \o t)
<1> DEFINE one == <<x>>
<1>1. one \in Seq(S)
  OBVIOUS
<1>2. Pushed(x, s) = one \o s /\ Pushed(x, s \o t) = one \o (s \o t)
  BY DEF Pushed
<1> HIDE DEF one
<1> QED BY <1>1, <1>2, ConcatAssociative

LEMMA PushedFirst ==
  ASSUME NEW S, NEW s \in Seq(S), s # <<>>
  PROVE  /\ s = Pushed(s[1], SubSeq(s, 2, Len(s))) /\ s[1] \in S
         /\ SubSeq(s, 2, Len(s)) \in Seq(S)
<1>1. Len(s) \in Nat /\ 1 \in 1..Len(s) /\ Len(s) \in 1..Len(s)
  BY EmptySeq
<1>2. SubSeq(s, 1, Len(s)) = <<s[1]>> \o SubSeq(s, 1 + 1, Len(s))
  BY <1>1, SubSeqRecursiveFirst
<1>3. s = <<s[1]>> \o SubSeq(s, 2, Len(s))
  BY <1>2, SubSeqFull
<1>4. \A i \in 2..Len(s) : s[i] \in S
  BY <1>1
<1>5. SubSeq(s, 2, Len(s)) \in Seq(S)
  BY <1>1, <1>4, SubSeqProperties
<1> QED BY <1>1, <1>3, <1>5 DEF Pushed

LEMMA StackPushed ==
  ASSUME NEW x, NEW items, NEW v
  PROVE  /\ PushFront(x, Stack(items, v)) = Stack(Pushed(x, items), v)
         /\ Stack(items, v).items = items /\ Stack(items, v).variable = v
<1>1. PushFront(x, Stack(items, v)) = Stack(<<x>> \o items, v)
  BY StackOps
<1>2. Stack(items, v).items = items /\ Stack(items, v).variable = v
  BY StackOps
<1> QED BY <1>1, <1>2 DEF Pushed

(* The symbols of the result, if the postcondition begins with a symbol. *)
LEMMA ResultPushed ==
  ASSUME NEW p, NEW c, NEW x, NEW items, IsSequence(items), IsSequence(Below(p, c))
  PROVE  Filled(p, c, Pushed(x, items)) \o Below(p, c)
           = Pushed(FilledSymbol(p, c, x), Filled(p, c, items) \o Below(p, c))
<1>1. Filled(p, c, Pushed(x, items)) = Pushed(FilledSymbol(p, c, x), Filled(p, c, items))
  BY FilledPush
<1>2. IsSequence(Filled(p, c, items))
  BY FilledIs
<1> DEFINE y == FilledSymbol(p, c, x)
           a == Filled(p, c, items)
           b == Below(p, c)
           S == {y} \cup ToSet(a) \cup ToSet(b)
<1>3. a \in Seq(ToSet(a)) /\ b \in Seq(ToSet(b)) /\ y \in S
  BY <1>2, SequenceIs
<1> HIDE DEF y, a, b
<1>4. a \in Seq(S) /\ b \in Seq(S)
  BY <1>3
<1> HIDE DEF S
<1>5. Pushed(y, a) \o b = Pushed(y, a \o b)
  BY <1>3, <1>4, PushedConcat
<1>6. Filled(p, c, Pushed(x, items)) \o b = Pushed(y, a \o b)
  BY <1>1, <1>5 DEF y, a
<1> QED BY <1>6 DEF y, a, b

(* The visits that change the symbols. *)
LEMMA VisitPushesPlain ==
  ASSUME NEW n \in Nodes, NEW d \in EveryStack, KindOf[n] = "push symbol"
  PROVE  VisitConcretely(n, d) =
           {[symbols |-> Pushed([symbol |-> SymbolOf[n], scopes |-> {}], d.symbols),
             scopes |-> d.scopes]}
<1> DEFINE x == Pushed([symbol |-> SymbolOf[n], scopes |-> {}], d.symbols)
<1>1. VisitConcretely(n, d) = {[d EXCEPT !.symbols = <<ScopedSymbol(SymbolOf[n], {})>> \o @]}
  BY DEF VisitConcretely
<1>2. VisitConcretely(n, d) = {[d EXCEPT !.symbols = x]}
  BY <1>1 DEF Pushed, ScopedSymbol
<1> HIDE DEF x
<1>3. VisitConcretely(n, d) = {[symbols |-> x, scopes |-> d.scopes]}
  BY <1>2, StacksExcept
<1> QED BY <1>3 DEF x

LEMMA VisitPushesScoped ==
  ASSUME NEW n \in Nodes, NEW d \in EveryStack, KindOf[n] = "push scoped symbol", ScopeOf[n] \in Nodes
  PROVE  VisitConcretely(n, d) =
           {[symbols |-> Pushed([symbol |-> SymbolOf[n],
                                 scopes |-> {Pushed(ScopeOf[n], d.scopes)}], d.symbols),
             scopes |-> d.scopes]}
<1> DEFINE x == Pushed([symbol |-> SymbolOf[n], scopes |-> {Pushed(ScopeOf[n], d.scopes)}], d.symbols)
<1>1. VisitConcretely(n, d) =
        {[d EXCEPT !.symbols = <<ScopedSymbol(SymbolOf[n], {<<ScopeOf[n]>> \o d.scopes})>> \o @]}
  BY DEF VisitConcretely
<1>2. VisitConcretely(n, d) = {[d EXCEPT !.symbols = x]}
  BY <1>1 DEF Pushed, ScopedSymbol
<1> HIDE DEF x
<1>3. VisitConcretely(n, d) = {[symbols |-> x, scopes |-> d.scopes]}
  BY <1>2, StacksExcept
<1> QED BY <1>3 DEF x

LEMMA VisitPopsPlain ==
  ASSUME NEW n \in Nodes, NEW d \in EveryStack, NEW y \in ConcreteSymbols, NEW s \in Seq(ConcreteSymbols),
         d.symbols = Pushed(y, s), KindOf[n] = "pop symbol"
  PROVE  VisitConcretely(n, d) = IF y.symbol = SymbolOf[n] /\ y.scopes = {}
                                 THEN {[symbols |-> s, scopes |-> d.scopes]} ELSE {}
<1>1. d.symbols # <<>> /\ d.symbols[1] = y /\ Tail(d.symbols) = s
  BY PushedTop
<1>2. [d EXCEPT !.symbols = s] = [symbols |-> s, scopes |-> d.scopes]
  BY StacksExcept
<1> DEFINE e == [d EXCEPT !.symbols = s]
<1>3. VisitConcretely(n, d) =
        {x \in IF y.symbol = SymbolOf[n] THEN {e} ELSE {} : y.scopes = {}}
  BY <1>1 DEF VisitConcretely
<1> HIDE DEF e
<1>4. VisitConcretely(n, d) = IF y.symbol = SymbolOf[n] /\ y.scopes = {} THEN {e} ELSE {}
  BY <1>3
<1> QED BY <1>2, <1>4 DEF e

LEMMA VisitPopsScoped ==
  ASSUME NEW n \in Nodes, NEW d \in EveryStack, NEW y \in ConcreteSymbols, NEW s \in Seq(ConcreteSymbols),
         d.symbols = Pushed(y, s), KindOf[n] = "pop scoped symbol"
  PROVE  VisitConcretely(n, d) = IF y.symbol = SymbolOf[n]
                                 THEN {[symbols |-> s, scopes |-> t] : t \in y.scopes} ELSE {}
<1>1. d.symbols # <<>> /\ d.symbols[1] = y /\ Tail(d.symbols) = s
  BY PushedTop
<1>2. VisitConcretely(n, d) =
        IF y.symbol = SymbolOf[n] THEN {[symbols |-> Tail(d.symbols), scopes |-> t] : t \in d.symbols[1].scopes} ELSE {}
  <2>1. VisitConcretely(n, d) =
          IF d.symbols # <<>> /\ d.symbols[1].symbol = SymbolOf[n]
          THEN {[symbols |-> Tail(d.symbols), scopes |-> t] : t \in d.symbols[1].scopes}
          ELSE {}
    BY VisitCases
  <2> QED BY <1>1, <2>1
<1> QED BY <1>1, <1>2

-----------------------------------------------------------------------------
(* What a visit does to an open path is what it does to concrete stacks. *)

OpenAfter(p, q, n) ==
  /\ Open(q)
  /\ \A c \in EveryStack :
       ApplyPath(q, c) = UNION {VisitConcretely(n, d) : d \in ApplyPath(p, c)}

LEMMA OpenAfterSame ==
  ASSUME NEW p, Open(p), NEW n \in Nodes, NEW post \in SymbolStacks, NEW scopes \in ScopeStacks,
         post.variable = 1, OptionsIn(post),
         \A v \in ScopeVariables(post) \cup {scopes.variable} : v \in Known(p),
         \A c \in EveryStack : Has(p.symbolPre.items, c.symbols) =>
           VisitConcretely(n, ResultOf(p, c)) =
             {[symbols |-> Filled(p, c, post.items) \o Below(p, c), scopes |-> Fill(p, c, scopes)]}
  PROVE  OpenAfter(p, Made(p, p.symbolPre, post, scopes), n)
<1> DEFINE q == Made(p, p.symbolPre, post, scopes)
<1>1. p \in Paths /\ p.symbolPre \in SymbolStacks
  BY OpenIs DEF Paths
<1>2. q \in Paths
  BY <1>1, MadeTyped
<1>3. /\ q.symbolPre = p.symbolPre /\ q.scopePre = p.scopePre
      /\ q.symbolPost = post /\ q.scopePost = scopes
  BY DEF Made
<1> HIDE DEF q
<1>4. Open(q)
  <2>1. \A v \in ScopeVariablesPost(q) : v \in Known(p)
    BY <1>3 DEF ScopeVariablesPost
  <2> QED BY <1>2, <1>3, <2>1, OpenSamePre
<1>5. ASSUME NEW c \in EveryStack, Has(p.symbolPre.items, c.symbols)
      PROVE  VisitConcretely(n, ResultOf(p, c)) = {ResultOf(q, c)}
  <2>1. ResultOf(q, c) = [symbols |-> Filled(q, c, post.items) \o Below(q, c),
                          scopes |-> Fill(q, c, scopes)]
    BY <1>3, <1>4, ResultIs
  <2>2. /\ Filled(q, c, post.items) = Filled(p, c, post.items) /\ Below(q, c) = Below(p, c)
        /\ Fill(q, c, scopes) = Fill(p, c, scopes)
    BY <1>3, SamePre
  <2> QED BY <1>5, <2>1, <2>2
<1>6. OpenAfter(p, q, n)
  BY <1>3, <1>4, <1>5, ApplySamePre DEF OpenAfter
<1> QED BY <1>6 DEF q

LEMMA PostOf ==
  ASSUME NEW p, Open(p)
  PROVE  /\ p.symbolPost \in SymbolStacks /\ p.scopePost \in ScopeStacks
         /\ p.symbolPost.variable = 1 /\ OptionsIn(p.symbolPost)
         /\ \A v \in ScopeVariables(p.symbolPost) \cup {p.scopePost.variable} : v \in Known(p)
<1>1. p \in Paths /\ p.symbolPost \in SymbolStacks /\ p.scopePost \in ScopeStacks
  BY OpenIs, PathTyped, StackMade
<1>2. ScopeVariablesPost(p) \ {0, 1} \subseteq ScopeVariables(p.symbolPre)
      /\ OptionsIn(p.symbolPost)
  BY DEF Open
<1> QED BY <1>1, <1>2, OpenIs DEF Known, ScopeVariablesPost

LEMMA VisitDrop ==
  ASSUME NEW p, Open(p), NEW n \in Nodes, KindOf[n] = "drop scopes"
  PROVE  OpenAfter(p, Made(p, p.symbolPre, p.symbolPost, EmptyStack), n)
<1>1. EmptyStack \in ScopeStacks /\ EmptyStack.variable = 0 /\ EmptyStack.items = <<>>
  <2>1. <<>> \in Seq(ExportedScopes)
    BY EmptySeq
  <2> QED BY <2>1, StackMade, StackOps DEF EmptyStack
<1>2. ASSUME NEW c \in EveryStack, Has(p.symbolPre.items, c.symbols)
      PROVE  VisitConcretely(n, ResultOf(p, c)) =
               {[symbols |-> Filled(p, c, p.symbolPost.items) \o Below(p, c),
                 scopes |-> Fill(p, c, EmptyStack)]}
  <2> DEFINE d == ResultOf(p, c)
             s == Filled(p, c, p.symbolPost.items) \o Below(p, c)
  <2>1. d \in EveryStack
    BY <1>2, ResultTyped
  <2>2. d.symbols = s
    <3> DEFINE t == Fill(p, c, p.scopePost)
    <3>1. d = [symbols |-> s, scopes |-> t]
      BY ResultIs
    <3> HIDE DEF d, s, t
    <3> QED BY <3>1
  <2>3. Fill(p, c, EmptyStack) = <<>>
    <3>1. ScopesFor(p, c, 0) = <<>>
      BY <1>2, ScopesForIs
    <3>2. <<>> \o <<>> = <<>>
      BY EmptySeq, ConcatEmptySeq
    <3> QED BY <1>1, <3>1, <3>2 DEF Fill
  <2> HIDE DEF d, s
  <2>4. VisitConcretely(n, d) = {[symbols |-> d.symbols, scopes |-> <<>>]}
    BY <2>1, VisitCases
  <2>5. VisitConcretely(n, d) = {[symbols |-> s, scopes |-> Fill(p, c, EmptyStack)]}
    BY <2>2, <2>3, <2>4
  <2> QED BY <2>5 DEF d, s
<1>3. \A v \in ScopeVariables(p.symbolPost) \cup {EmptyStack.variable} : v \in Known(p)
  BY <1>1, PostOf DEF Known
<1> QED BY <1>1, <1>2, <1>3, PostOf, OpenAfterSame

LEMMA PushTyped ==
  ASSUME NEW items \in Seq(StackSymbols), NEW x \in StackSymbols, AtMostOne(x.scopes),
         OptionsIn(Stack(items, 1))
  PROVE  /\ Stack(Pushed(x, items), 1) \in SymbolStacks /\ OptionsIn(Stack(Pushed(x, items), 1))
         /\ ScopeVariables(Stack(Pushed(x, items), 1)) =
              {s.variable : s \in x.scopes} \cup ScopeVariables(Stack(items, 1))
<1> DEFINE longer == Pushed(x, items)
<1>1. longer \in Seq(StackSymbols) /\ Len(items) \in Nat /\ Len(longer) = 1 + Len(items) /\ longer[1] = x
      /\ \A i \in 1..Len(items) : longer[1 + i] = items[i]
  <2>1. IsSequence(<<x>>) /\ Len(<<x>>) = 1 /\ <<x>>[1] = x /\ 1 \in 1..1 /\ IsSequence(items)
    BY OneIs, SequenceOf
  <2>2. /\ Len(longer) = 1 + Len(items) /\ longer[1] = x
        /\ \A i \in 1..Len(items) : longer[1 + i] = items[i]
    BY <2>1, ConcatIs DEF Pushed
  <2>3. longer \in Seq(StackSymbols) /\ Len(items) \in Nat
    BY PushedTop
  <2> QED BY <2>2, <2>3
<1> HIDE DEF longer
<1>2. DOMAIN longer = 1..1 + Len(items) /\ DOMAIN items = 1..Len(items)
  BY <1>1
<1>3. \A i \in DOMAIN longer : i = 1 \/ \E j \in 1..Len(items) : i = 1 + j
  <2>1. \A i \in 1..1 + Len(items) : i = 1 \/ (i - 1 \in 1..Len(items) /\ i = 1 + (i - 1))
    BY <1>1
  <2> QED BY <1>2, <2>1
<1>4. 1 \in DOMAIN longer /\ \A j \in 1..Len(items) : 1 + j \in DOMAIN longer
  BY <1>1, <1>2
<1>5. Stack(longer, 1).items = longer /\ Stack(items, 1).items = items
  BY StackOps
<1>6. OptionsIn(Stack(longer, 1))
  <2>1. \A j \in 1..Len(items) : AtMostOne(items[j].scopes)
    BY <1>2, <1>5 DEF OptionsIn
  <2>2. \A i \in DOMAIN longer : AtMostOne(longer[i].scopes)
    BY <1>1, <1>3, <2>1
  <2> QED BY <1>5, <2>2 DEF OptionsIn
<1>7. ScopeVariables(Stack(longer, 1)) = {s.variable : s \in x.scopes} \cup ScopeVariables(Stack(items, 1))
  <2> DEFINE Of(symbol) == {s.variable : s \in symbol.scopes}
  <2>1. ScopeVariables(Stack(longer, 1)) = UNION {Of(longer[i]) : i \in DOMAIN longer}
        /\ ScopeVariables(Stack(items, 1)) = UNION {Of(items[i]) : i \in DOMAIN items}
    BY <1>5 DEF ScopeVariables
  <2> HIDE DEF Of
  <2>2. UNION {Of(longer[i]) : i \in DOMAIN longer} = Of(x) \cup UNION {Of(items[i]) : i \in DOMAIN items}
    <3>1. ASSUME NEW v \in UNION {Of(longer[i]) : i \in DOMAIN longer}
          PROVE  v \in Of(x) \cup UNION {Of(items[i]) : i \in DOMAIN items}
      BY <1>1, <1>2, <1>3, <3>1
    <3>2. ASSUME NEW v \in Of(x) \cup UNION {Of(items[i]) : i \in DOMAIN items}
          PROVE  v \in UNION {Of(longer[i]) : i \in DOMAIN longer}
      <4>1. CASE v \in Of(x)
        BY <1>1, <1>4, <4>1
      <4>2. CASE v \in UNION {Of(items[i]) : i \in DOMAIN items}
        <5>1. PICK j \in 1..Len(items) : v \in Of(items[j])
          BY <1>2, <4>2
        <5>2. v \in Of(longer[1 + j]) /\ 1 + j \in DOMAIN longer
          BY <1>1, <1>4, <5>1
        <5> QED BY <5>2
      <4> QED BY <4>1, <4>2
    <3> QED BY <3>1, <3>2
  <2> QED BY <2>1, <2>2 DEF Of
<1>8. Stack(longer, 1) \in SymbolStacks
  BY <1>1, StackMade
<1> QED BY <1>6, <1>7, <1>8 DEF longer

LEMMA FilledBare ==
  ASSUME NEW p, NEW c, NEW symbol
  PROVE  FilledSymbol(p, c, [symbol |-> symbol, scopes |-> {}]) = [symbol |-> symbol, scopes |-> {}]
<1> DEFINE x == [symbol |-> symbol, scopes |-> {}]
<1>1. FilledSymbol(p, c, x) = [symbol |-> symbol, scopes |-> {Fill(p, c, st) : st \in {}}]
  BY DEF FilledSymbol
<1>2. {Fill(p, c, st) : st \in {}} = {}
  OBVIOUS
<1> QED BY <1>1, <1>2

LEMMA FilledAttached ==
  ASSUME NEW p, NEW c, NEW symbol, NEW t
  PROVE  FilledSymbol(p, c, [symbol |-> symbol, scopes |-> {t}]) = [symbol |-> symbol, scopes |-> {Fill(p, c, t)}]
<1> DEFINE x == [symbol |-> symbol, scopes |-> {t}]
<1>1. FilledSymbol(p, c, x) = [symbol |-> symbol, scopes |-> {Fill(p, c, st) : st \in {t}}]
  BY DEF FilledSymbol
<1>2. {Fill(p, c, st) : st \in {t}} = {Fill(p, c, t)}
  OBVIOUS
<1> QED BY <1>1, <1>2

LEMMA OpenStacks ==
  ASSUME NEW p, Open(p)
  PROVE  /\ p \in Paths
         /\ p.symbolPre = Stack(p.symbolPre.items, 1) /\ p.symbolPre.items \in Seq(StackSymbols)
         /\ p.symbolPost = Stack(p.symbolPost.items, 1) /\ p.symbolPost.items \in Seq(StackSymbols)
         /\ IsSequence(p.symbolPre.items) /\ IsSequence(p.symbolPost.items)
         /\ p.scopePost \in ScopeStacks
<1>1. p \in Paths /\ p.symbolPre.variable = 1 /\ p.symbolPost.variable = 1
  BY OpenIs
<1>2. p.scopePost \in ScopeStacks
  BY PostOf
<1> QED BY <1>1, <1>2, PathTyped, SequenceOf

LEMMA ResultFields ==
  ASSUME NEW p, Open(p), NEW c
  PROVE  /\ ResultOf(p, c).symbols = Filled(p, c, p.symbolPost.items) \o Below(p, c)
         /\ ResultOf(p, c).scopes = Fill(p, c, p.scopePost)
<1> DEFINE d == ResultOf(p, c)
           s == Filled(p, c, p.symbolPost.items) \o Below(p, c)
           t == Fill(p, c, p.scopePost)
<1>1. d = [symbols |-> s, scopes |-> t]
  BY ResultIs
<1> HIDE DEF d, s, t
<1>2. d.symbols = s /\ d.scopes = t
  BY <1>1
<1> QED BY <1>2 DEF d, s, t

(* A push adds a symbol to the postcondition. *)
LEMMA VisitPush ==
  ASSUME NEW p, Open(p), NEW n \in Nodes, NEW x \in StackSymbols, AtMostOne(x.scopes),
         \A st \in x.scopes : st.variable \in Known(p),
         \A c \in EveryStack : Has(p.symbolPre.items, c.symbols) =>
           VisitConcretely(n, ResultOf(p, c)) =
             {[symbols |-> Pushed(FilledSymbol(p, c, x), ResultOf(p, c).symbols),
               scopes |-> ResultOf(p, c).scopes]}
  PROVE  OpenAfter(p, Made(p, p.symbolPre, PushFront(x, p.symbolPost), p.scopePost), n)
<1> DEFINE items == p.symbolPost.items
           post == PushFront(x, p.symbolPost)
<1>1. /\ p.symbolPost = Stack(items, 1) /\ items \in Seq(StackSymbols) /\ IsSequence(items)
      /\ p.scopePost \in ScopeStacks
  BY OpenStacks
<1>2. OptionsIn(p.symbolPost) /\ \A v \in ScopeVariables(p.symbolPost) \cup {p.scopePost.variable} : v \in Known(p)
  BY PostOf
<1> HIDE DEF items
<1>3. post = Stack(Pushed(x, items), 1)
  BY <1>1, StackPushed
<1>4. /\ post \in SymbolStacks /\ OptionsIn(post)
      /\ ScopeVariables(post) = {s.variable : s \in x.scopes} \cup ScopeVariables(p.symbolPost)
  <2>1. OptionsIn(Stack(items, 1))
    BY <1>1, <1>2
  <2>2. items \in Seq(StackSymbols)
    BY <1>1
  <2>3. /\ Stack(Pushed(x, items), 1) \in SymbolStacks /\ OptionsIn(Stack(Pushed(x, items), 1))
        /\ ScopeVariables(Stack(Pushed(x, items), 1)) =
              {s.variable : s \in x.scopes} \cup ScopeVariables(Stack(items, 1))
    BY <2>1, <2>2, PushTyped
  <2> QED BY <1>1, <1>3, <2>3
<1>5. post.variable = 1 /\ post.items = Pushed(x, items)
  BY <1>3, StackPushed
<1> HIDE DEF post
<1>6. \A v \in ScopeVariables(post) \cup {p.scopePost.variable} : v \in Known(p)
  BY <1>2, <1>4
<1>7. ASSUME NEW c \in EveryStack, Has(p.symbolPre.items, c.symbols)
      PROVE  VisitConcretely(n, ResultOf(p, c)) =
               {[symbols |-> Filled(p, c, post.items) \o Below(p, c), scopes |-> Fill(p, c, p.scopePost)]}
  <2> DEFINE d == ResultOf(p, c)
             y == FilledSymbol(p, c, x)
             rest == Filled(p, c, items)
             below == Below(p, c)
             s == Filled(p, c, post.items) \o below
             t == Fill(p, c, p.scopePost)
  <2>1. d.symbols = rest \o below /\ d.scopes = t
    BY ResultFields DEF items
  <2>2. IsSequence(below)
    BY BelowTyped, SequenceOf
  <2>3. \A u : IsSequence(u) => Filled(p, c, Pushed(x, u)) \o below = Pushed(y, Filled(p, c, u) \o below)
    BY <2>2, ResultPushed
  <2>4. s = Pushed(y, rest \o below)
    BY <1>1, <1>5, <2>3
  <2>5. VisitConcretely(n, d) = {[symbols |-> Pushed(y, d.symbols), scopes |-> d.scopes]}
    BY <1>7
  <2> HIDE DEF d, y, rest, below, s, t
  <2>6. VisitConcretely(n, d) = {[symbols |-> s, scopes |-> t]}
    BY <2>1, <2>4, <2>5
  <2> QED BY <2>6 DEF d, s, t, below
<1>8. OpenAfter(p, Made(p, p.symbolPre, post, p.scopePost), n)
  BY <1>1, <1>4, <1>5, <1>6, <1>7, OpenAfterSame
<1> QED BY <1>8 DEF post

LEMMA VisitPushPlain ==
  ASSUME NEW p, Open(p), NEW n \in Nodes, KindOf[n] = "push symbol"
  PROVE  OpenAfter(p, Made(p, p.symbolPre,
                           PushFront([symbol |-> SymbolOf[n], scopes |-> {}], p.symbolPost), p.scopePost), n)
<1> DEFINE x == [symbol |-> SymbolOf[n], scopes |-> {}]
<1>1. x \in StackSymbols /\ AtMostOne(x.scopes) /\ \A st \in x.scopes : st.variable \in Known(p)
  BY KindIs DEF StackSymbols, AtMostOne, Pushes
<1>2. ASSUME NEW c \in EveryStack, Has(p.symbolPre.items, c.symbols)
      PROVE  VisitConcretely(n, ResultOf(p, c)) =
               {[symbols |-> Pushed(FilledSymbol(p, c, x), ResultOf(p, c).symbols),
                 scopes |-> ResultOf(p, c).scopes]}
  <2> DEFINE d == ResultOf(p, c)
  <2>1. d \in EveryStack
    BY <1>2, ResultTyped
  <2>2. FilledSymbol(p, c, x) = x
    BY FilledBare
  <2> HIDE DEF d
  <2>3. VisitConcretely(n, d) = {[symbols |-> Pushed(x, d.symbols), scopes |-> d.scopes]}
    BY <2>1, VisitPushesPlain
  <2>4. VisitConcretely(n, d) = {[symbols |-> Pushed(FilledSymbol(p, c, x), d.symbols), scopes |-> d.scopes]}
    BY <2>2, <2>3
  <2> QED BY <2>4 DEF d
<1> HIDE DEF x
<1>3. OpenAfter(p, Made(p, p.symbolPre, PushFront(x, p.symbolPost), p.scopePost), n)
  BY <1>1, <1>2, VisitPush
<1> QED BY <1>3 DEF x

LEMMA ScopePushed ==
  ASSUME NEW a \in ExportedScopes, NEW st \in ScopeStacks
  PROVE  /\ PushFront(a, st) \in ScopeStacks
         /\ PushFront(a, st).items = Pushed(a, st.items) /\ PushFront(a, st).variable = st.variable
<1> DEFINE items == st.items
           v == st.variable
           under == PushFront(a, st)
<1>1. st = Stack(items, v) /\ items \in Seq(ExportedScopes) /\ v \in Nat
  BY ScopeStackIs
<1> HIDE DEF items, v
<1>2. under = Stack(Pushed(a, items), v)
  BY <1>1, StackPushed
<1>3. Pushed(a, items) \in Seq(ExportedScopes)
  BY <1>1, PushedTop
<1> HIDE DEF under
<1>4. under.items = Pushed(a, items) /\ under.variable = v
  BY <1>2, StackPushed
<1>5. under \in ScopeStacks
  BY <1>1, <1>2, <1>3, StackMade
<1> QED BY <1>4, <1>5 DEF under, items, v

LEMMA FillPushed ==
  ASSUME NEW p, Open(p), NEW c \in EveryStack, Has(p.symbolPre.items, c.symbols),
         NEW a \in ExportedScopes, NEW st \in ScopeStacks, st.variable \in Known(p)
  PROVE  Fill(p, c, PushFront(a, st)) = Pushed(a, Fill(p, c, st))
<1> DEFINE rest == ScopesFor(p, c, st.variable)
           items == st.items
           under == PushFront(a, st)
<1>1. under.items = Pushed(a, items) /\ under.variable = st.variable
  BY ScopePushed
<1>2. rest \in Seq(ExportedScopes) /\ items \in Seq(ExportedScopes)
  BY FillTyped, ScopeStackIs
<1>3. Fill(p, c, under) = Pushed(a, items) \o rest /\ Fill(p, c, st) = items \o rest
  BY <1>1 DEF Fill
<1> HIDE DEF rest, items, under
<1>4. Fill(p, c, under) = Pushed(a, Fill(p, c, st))
  BY <1>2, <1>3, PushedConcat
<1> QED BY <1>4 DEF under

LEMMA VisitPushScoped ==
  ASSUME NEW p, Open(p), NEW n \in Nodes, KindOf[n] = "push scoped symbol", ScopeOf[n] \in Nodes
  PROVE  OpenAfter(p, Made(p, p.symbolPre,
                           PushFront([symbol |-> SymbolOf[n],
                                      scopes |-> {PushFront(ScopeOf[n], p.scopePost)}], p.symbolPost),
                           p.scopePost), n)
<1>1. PICK a, b : a = ScopeOf[n] /\ b = SymbolOf[n]
  OBVIOUS
<1>2. a \in ExportedScopes /\ b \in {SymbolOf[m] : m \in DOMAIN SymbolOf}
  BY <1>1, KindIs DEF Pushes
<1>3. p.scopePost \in ScopeStacks /\ p.scopePost.variable \in Known(p)
  BY PostKnown
<1> DEFINE under == PushFront(a, p.scopePost)
           x == [symbol |-> b, scopes |-> {under}]
<1>4. under \in ScopeStacks /\ under.variable \in Known(p)
  BY <1>2, <1>3, ScopePushed
<1> HIDE DEF under
<1>5. x \in StackSymbols /\ AtMostOne(x.scopes) /\ \A st \in x.scopes : st.variable \in Known(p)
  BY <1>2, <1>4 DEF StackSymbols, AtMostOne
<1>6. ASSUME NEW c \in EveryStack, Has(p.symbolPre.items, c.symbols)
      PROVE  VisitConcretely(n, ResultOf(p, c)) =
               {[symbols |-> Pushed(FilledSymbol(p, c, x), ResultOf(p, c).symbols),
                 scopes |-> ResultOf(p, c).scopes]}
  <2> DEFINE d == ResultOf(p, c)
             y == [symbol |-> b, scopes |-> {Pushed(a, d.scopes)}]
  <2>1. d \in EveryStack
    BY <1>6, ResultTyped
  <2>2. d.scopes = Fill(p, c, p.scopePost)
    BY ResultFields
  <2>3. Fill(p, c, under) = Pushed(a, d.scopes)
    <3>1. Fill(p, c, PushFront(a, p.scopePost)) = Pushed(a, Fill(p, c, p.scopePost))
      BY <1>2, <1>3, <1>6, FillPushed
    <3> HIDE DEF d
    <3> QED BY <2>2, <3>1 DEF under
  <2> HIDE DEF d
  <2>4. FilledSymbol(p, c, x) = y
    <3>1. FilledSymbol(p, c, x) = [symbol |-> b, scopes |-> {Fill(p, c, under)}]
      BY ONLY FilledAttached
    <3> QED BY <2>3, <3>1
  <2>5. VisitConcretely(n, d) = {[symbols |-> Pushed(y, d.symbols), scopes |-> d.scopes]}
    BY <1>1, <2>1, VisitPushesScoped
  <2> HIDE DEF y, x
  <2>6. VisitConcretely(n, d) = {[symbols |-> Pushed(FilledSymbol(p, c, x), d.symbols), scopes |-> d.scopes]}
    BY <2>4, <2>5
  <2> QED BY <2>6 DEF d
<1> HIDE DEF x
<1>7. OpenAfter(p, Made(p, p.symbolPre, PushFront(x, p.symbolPost), p.scopePost), n)
  BY <1>5, <1>6, VisitPush
<1> QED BY <1>1, <1>7 DEF x, under

LEMMA PushedMembers ==
  ASSUME NEW S, NEW x, NEW s, IsSequence(s), Pushed(x, s) \in Seq(S)
  PROVE  x \in S /\ s \in Seq(S)
<1> DEFINE U == {x} \cup ToSet(s)
           t == Pushed(x, s)
<1>1. x \in U /\ s \in Seq(U)
  <2>1. s \in Seq(ToSet(s))
    BY SequenceIs
  <2> QED BY <2>1
<1> HIDE DEF U
<1>2. t # <<>> /\ t[1] = x /\ Tail(t) = s /\ t \in Seq(S)
  BY <1>1, PushedTop
<1> HIDE DEF t
<1>3. Len(t) \in Nat /\ 1 \in 1..Len(t)
  BY <1>2, EmptySeq
<1>4. t[1] \in S
  BY <1>2, <1>3
<1>5. Tail(t) \in Seq(S)
  BY <1>2, HeadTailProperties
<1> QED BY <1>2, <1>4, <1>5

LEMMA PopTyped ==
  ASSUME NEW items \in Seq(StackSymbols), items # <<>>, OptionsIn(Stack(items, 1))
  PROVE  LET rest == SubSeq(items, 2, Len(items))
             post == DropFront(Stack(items, 1), 1)
         IN  /\ items = Pushed(items[1], rest) /\ rest \in Seq(StackSymbols)
             /\ post = Stack(rest, 1) /\ post \in SymbolStacks /\ OptionsIn(post)
             /\ ScopeVariables(post) \subseteq ScopeVariables(Stack(items, 1))
             /\ items[1] \in StackSymbols /\ AtMostOne(items[1].scopes)
             /\ {s.variable : s \in items[1].scopes} \subseteq ScopeVariables(Stack(items, 1))
<1> DEFINE rest == SubSeq(items, 2, Len(items))
           post == DropFront(Stack(items, 1), 1)
<1>1. items = Pushed(items[1], rest) /\ items[1] \in StackSymbols /\ rest \in Seq(StackSymbols)
  BY PushedFirst
<1>2. post = Stack(rest, 1)
  <2>1. post = Stack(SubSeq(items, 1 + 1, Len(items)), 1)
    BY StackOps
  <2> QED BY <2>1
<1>3. /\ Len(items) \in Nat /\ DOMAIN items = 1..Len(items) /\ 1 \in DOMAIN items
      /\ DOMAIN rest = 1..Len(rest)
  <2>1. Len(items) \in Nat /\ Len(items) # 0
    BY EmptySeq
  <2> QED BY <1>1, <2>1
<1>4. \A i \in DOMAIN rest : i + 1 \in DOMAIN items /\ rest[i] = items[i + 1]
  <2>1. \A i \in 2..Len(items) : items[i] \in StackSymbols
    OBVIOUS
  <2>2. /\ Len(rest) = IF 2 <= Len(items) THEN Len(items) - 2 + 1 ELSE 0
        /\ \A i \in 1..Len(items) - 2 + 1 : rest[i] = items[2 + i - 1]
    BY <1>3, <2>1, SubSeqProperties
  <2>3. \A i \in 1..Len(rest) : i \in 1..Len(items) - 2 + 1 /\ i + 1 \in 1..Len(items) /\ 2 + i - 1 = i + 1
    BY <1>3, <2>2
  <2> QED BY <1>3, <2>2, <2>3
<1> HIDE DEF rest, post
<1>5. Stack(rest, 1).items = rest /\ Stack(items, 1).items = items
  BY StackPushed
<1>6. \A i \in DOMAIN items : AtMostOne(items[i].scopes)
  BY <1>5 DEF OptionsIn
<1>7. OptionsIn(Stack(rest, 1))
  BY <1>4, <1>5, <1>6 DEF OptionsIn
<1>8. ScopeVariables(Stack(rest, 1)) \subseteq ScopeVariables(Stack(items, 1))
      /\ {s.variable : s \in items[1].scopes} \subseteq ScopeVariables(Stack(items, 1))
  <2> DEFINE Of(symbol) == {s.variable : s \in symbol.scopes}
  <2>1. ScopeVariables(Stack(rest, 1)) = UNION {Of(rest[i]) : i \in DOMAIN rest}
        /\ ScopeVariables(Stack(items, 1)) = UNION {Of(items[i]) : i \in DOMAIN items}
    BY <1>5 DEF ScopeVariables
  <2> HIDE DEF Of
  <2>2. /\ UNION {Of(rest[i]) : i \in DOMAIN rest} \subseteq UNION {Of(items[i]) : i \in DOMAIN items}
        /\ Of(items[1]) \subseteq UNION {Of(items[i]) : i \in DOMAIN items}
    BY <1>3, <1>4
  <2> QED BY <2>1, <2>2 DEF Of
<1>9. Stack(rest, 1) \in SymbolStacks
  BY <1>1, StackMade
<1> QED BY <1>1, <1>2, <1>3, <1>6, <1>7, <1>8, <1>9 DEF rest, post

(* A pop of a symbol that the postcondition holds. *)
LEMMA VisitPop ==
  ASSUME NEW p, Open(p), NEW n \in Nodes, p.symbolPost.items # <<>>,
         NEW t \in ScopeStacks, t.variable \in Known(p),
         \A c \in EveryStack : Has(p.symbolPre.items, c.symbols) =>
           VisitConcretely(n, ResultOf(p, c)) =
             {[symbols |-> Filled(p, c, SubSeq(p.symbolPost.items, 2, Len(p.symbolPost.items)))
                             \o Below(p, c),
               scopes |-> Fill(p, c, t)]}
  PROVE  OpenAfter(p, Made(p, p.symbolPre, DropFront(p.symbolPost, 1), t), n)
<1> DEFINE items == p.symbolPost.items
           rest == SubSeq(items, 2, Len(items))
           post == DropFront(p.symbolPost, 1)
<1>1. p.symbolPost = Stack(items, 1) /\ items \in Seq(StackSymbols) /\ items # <<>>
      /\ OptionsIn(p.symbolPost) /\ \A v \in ScopeVariables(p.symbolPost) : v \in Known(p)
  BY OpenStacks, PostOf
<1>2. \A c \in EveryStack : Has(p.symbolPre.items, c.symbols) =>
        VisitConcretely(n, ResultOf(p, c)) =
          {[symbols |-> Filled(p, c, rest) \o Below(p, c), scopes |-> Fill(p, c, t)]}
  OBVIOUS
<1> HIDE DEF items
<1>3. /\ post = Stack(rest, 1) /\ post \in SymbolStacks /\ OptionsIn(post)
      /\ ScopeVariables(post) \subseteq ScopeVariables(p.symbolPost)
  BY <1>1, PopTyped
<1> HIDE DEF post, rest
<1>4. post.variable = 1 /\ post.items = rest
  BY <1>3, StackPushed
<1>5. \A v \in ScopeVariables(post) \cup {t.variable} : v \in Known(p)
  BY <1>1, <1>3
<1>6. \A c \in EveryStack : Has(p.symbolPre.items, c.symbols) =>
        VisitConcretely(n, ResultOf(p, c)) =
          {[symbols |-> Filled(p, c, post.items) \o Below(p, c), scopes |-> Fill(p, c, t)]}
  BY <1>2, <1>4
<1>7. OpenAfter(p, Made(p, p.symbolPre, post, t), n)
  BY <1>3, <1>4, <1>5, <1>6, OpenAfterSame
<1> QED BY <1>7 DEF post

(* What a held symbol and the others become. *)
LEMMA HeldIs ==
  ASSUME NEW p, Open(p), NEW c \in EveryStack, Has(p.symbolPre.items, c.symbols),
         NEW x, NEW rest, IsSequence(rest), p.symbolPost.items = Pushed(x, rest)
  PROVE  LET d == ResultOf(p, c)
             y == FilledSymbol(p, c, x)
             s == Filled(p, c, rest) \o Below(p, c)
         IN  d \in EveryStack /\ d.symbols = Pushed(y, s) /\ y \in ConcreteSymbols /\ s \in Seq(ConcreteSymbols)
<1> DEFINE d == ResultOf(p, c)
           y == FilledSymbol(p, c, x)
           a == Filled(p, c, rest)
           b == Below(p, c)
           s == a \o b
<1>1. d \in EveryStack /\ d.symbols \in Seq(ConcreteSymbols)
  BY ResultTyped, StacksExcept
<1>2. IsSequence(b) /\ IsSequence(a)
  BY BelowTyped, SequenceOf, FilledIs
<1>3. Filled(p, c, Pushed(x, rest)) \o b = Pushed(y, s)
  BY <1>2, ResultPushed
<1>4. d.symbols = Filled(p, c, p.symbolPost.items) \o b
  BY ResultFields
<1>5. d.symbols = Pushed(y, s)
  <2> HIDE DEF d, y, s, b
  <2> QED BY <1>3, <1>4
<1>6. IsSequence(s)
  <2> HIDE DEF a, b
  <2> QED BY <1>2, ConcatIs
<1> HIDE DEF d, y, s
<1>7. y \in ConcreteSymbols /\ s \in Seq(ConcreteSymbols)
  BY <1>1, <1>5, <1>6, PushedMembers
<1> QED BY <1>1, <1>5, <1>7 DEF d, y, s

LEMMA VisitPopHeldPlain ==
  ASSUME NEW p, Open(p), NEW n \in Nodes, KindOf[n] = "pop symbol", p.symbolPost.items # <<>>,
         p.symbolPost.items[1].symbol = SymbolOf[n], p.symbolPost.items[1].scopes = {}
  PROVE  OpenAfter(p, Made(p, p.symbolPre, DropFront(p.symbolPost, 1), p.scopePost), n)
<1> DEFINE items == p.symbolPost.items
           rest == SubSeq(items, 2, Len(items))
           x == items[1]
<1>1. p.scopePost \in ScopeStacks /\ p.scopePost.variable \in Known(p)
  BY PostKnown
<1>2. items \in Seq(StackSymbols)
  BY OpenStacks
<1>3. items = Pushed(x, rest) /\ rest \in Seq(StackSymbols)
  BY <1>2, PushedFirst
<1>4. IsSequence(rest)
  BY <1>3, SequenceOf
<1>5. ASSUME NEW c \in EveryStack, Has(p.symbolPre.items, c.symbols)
      PROVE  VisitConcretely(n, ResultOf(p, c)) =
               {[symbols |-> Filled(p, c, rest) \o Below(p, c), scopes |-> Fill(p, c, p.scopePost)]}
  <2> DEFINE d == ResultOf(p, c)
             y == FilledSymbol(p, c, x)
             s == Filled(p, c, rest) \o Below(p, c)
             t == Fill(p, c, p.scopePost)
  <2>1. d \in EveryStack /\ d.symbols = Pushed(y, s) /\ y \in ConcreteSymbols /\ s \in Seq(ConcreteSymbols)
    <3> HIDE DEF x, rest
    <3> QED BY <1>3, <1>4, <1>5, HeldIs
  <2>2. d.scopes = t
    BY ResultFields
  <2>3. y.symbol = SymbolOf[n] /\ y.scopes = {}
    BY DEF FilledSymbol
  <2> HIDE DEF d, y, s, t
  <2>4. VisitConcretely(n, d) = {[symbols |-> s, scopes |-> t]}
    BY <2>1, <2>2, <2>3, VisitPopsPlain
  <2> QED BY <2>4 DEF d, s, t
<1> QED BY <1>1, <1>5, VisitPop

LEMMA VisitPopHeldScoped ==
  ASSUME NEW p, Open(p), NEW n \in Nodes, KindOf[n] = "pop scoped symbol", p.symbolPost.items # <<>>,
         p.symbolPost.items[1].symbol = SymbolOf[n], p.symbolPost.items[1].scopes # {}
  PROVE  OpenAfter(p, Made(p, p.symbolPre, DropFront(p.symbolPost, 1), The(p.symbolPost.items[1].scopes)), n)
<1> DEFINE items == p.symbolPost.items
           rest == SubSeq(items, 2, Len(items))
           x == items[1]
<1>1. items \in Seq(StackSymbols) /\ 1 \in 1..Len(items)
  <2>1. items \in Seq(StackSymbols)
    BY OpenStacks
  <2>2. Len(items) \in Nat /\ Len(items) # 0
    BY <2>1, EmptySeq
  <2>3. 1 \in 1..Len(items)
    BY ONLY <2>2
  <2> HIDE DEF items
  <2> QED BY <2>1, <2>3
<1>2. items = Pushed(x, rest) /\ rest \in Seq(StackSymbols)
  BY <1>1, PushedFirst
<1>3. IsSequence(rest)
  BY <1>2, SequenceOf
<1>4. PICK t : x.scopes = {t}
  <2>1. AtMostOne(x.scopes) /\ x.scopes # {}
    BY <1>1, OpenIs
  <2> HIDE DEF x
  <2> QED BY <2>1 DEF AtMostOne
<1>5. t \in ScopeStacks /\ t.variable \in Known(p) /\ The(x.scopes) = t
  BY <1>1, <1>4, PostKnown, TheOne
<1>6. ASSUME NEW c \in EveryStack, Has(p.symbolPre.items, c.symbols)
      PROVE  VisitConcretely(n, ResultOf(p, c)) =
               {[symbols |-> Filled(p, c, rest) \o Below(p, c), scopes |-> Fill(p, c, t)]}
  <2> DEFINE d == ResultOf(p, c)
             y == FilledSymbol(p, c, x)
             s == Filled(p, c, rest) \o Below(p, c)
             u == Fill(p, c, t)
  <2>1. d \in EveryStack /\ d.symbols = Pushed(y, s) /\ y \in ConcreteSymbols /\ s \in Seq(ConcreteSymbols)
    <3> HIDE DEF x, rest
    <3> QED BY <1>2, <1>3, <1>6, HeldIs
  <2>2. y.symbol = SymbolOf[n] /\ y.scopes = {u}
    <3> HIDE DEF x
    <3>1. y = [symbol |-> x.symbol, scopes |-> {Fill(p, c, st) : st \in x.scopes}]
      BY DEF FilledSymbol
    <3>2. {Fill(p, c, st) : st \in x.scopes} = {u}
      BY <1>4
    <3>3. x.symbol = SymbolOf[n]
      BY DEF x
    <3> HIDE DEF y, u
    <3> QED BY <3>1, <3>2, <3>3
  <2> HIDE DEF d, y, s, u
  <2>3. VisitConcretely(n, d) = {[symbols |-> s, scopes |-> z] : z \in y.scopes}
    BY <2>1, <2>2, VisitPopsScoped
  <2>4. VisitConcretely(n, d) = {[symbols |-> s, scopes |-> u]}
    BY <2>2, <2>3
  <2> QED BY <2>4 DEF d, s, u
<1>7. OpenAfter(p, Made(p, p.symbolPre, DropFront(p.symbolPost, 1), t), n)
  BY <1>5, <1>6, VisitPop
<1> QED BY <1>5, <1>7

LEMMA StackBack ==
  ASSUME NEW items, NEW v, NEW x
  PROVE  PushBack(Stack(items, v), x) = Stack(Append(items, x), v)
<1> DEFINE st == Stack(items, v)
           back == Append(items, x)
<1>1. PushBack(st, x) = [st EXCEPT !.items = back]
  BY DEF PushBack, Stack
<1> HIDE DEF back
<1>2. [st EXCEPT !.items = back] = Stack(back, v)
  BY DEF Stack
<1> QED BY <1>1, <1>2 DEF back

(* A pop of a symbol that is demanded. *)
LEMMA DemandIs ==
  ASSUME NEW p, Open(p), NEW x \in StackSymbols,
         x.scopes = {} \/ x.scopes = {FromVariable(FreshScopeVariable(p))},
         NEW t \in ScopeStacks, t.variable \in Known(p) \/ x.scopes = {t}
  PROVE  LET q == Made(p, PushBack(p.symbolPre, x), p.symbolPost, t)
         IN  /\ Open(q) /\ q.symbolPre.items = Append(p.symbolPre.items, x)
             /\ q.symbolPost = p.symbolPost /\ q.scopePost = t
<1> DEFINE q == Made(p, PushBack(p.symbolPre, x), p.symbolPost, t)
           pre == p.symbolPre.items
           longer == Append(pre, x)
           m == Len(pre)
           new == FromVariable(FreshScopeVariable(p))
<1>1. /\ p \in Paths /\ p.symbolPre = Stack(pre, 1) /\ pre \in Seq(StackSymbols) /\ IsSequence(pre)
      /\ p.symbolPost = Stack(p.symbolPost.items, 1)
  BY OpenStacks
<1>2. /\ OptionsIn(p.symbolPost) /\ p.symbolPost.variable = 1 /\ p.symbolPost \in SymbolStacks
      /\ \A v \in ScopeVariables(p.symbolPost) : v \in Known(p)
  BY PostOf
<1>3. /\ FreshScopeVariable(p) \notin {0, 1} /\ FreshScopeVariable(p) \notin ScopeVariables(p.symbolPre)
      /\ new.items = <<>> /\ new.variable = FreshScopeVariable(p)
  BY FreshIsNew DEF FromVariable, Stack
<1>4. PushBack(p.symbolPre, x) = Stack(longer, 1)
  <2>1. PushBack(Stack(pre, 1), x) = Stack(Append(pre, x), 1)
    BY ONLY StackBack
  <2> QED BY <1>1, <2>1
<1>5. /\ longer \in Seq(StackSymbols) /\ DOMAIN longer = 1..m + 1 /\ m \in Nat /\ longer[m + 1] = x
      /\ \A i \in 1..m : longer[i] = pre[i]
  BY <1>1, AppendIs, SequenceIs
<1>6. /\ q.start = p.start /\ q.end = p.end /\ q.edges = p.edges /\ q.scopePre = p.scopePre
      /\ q.symbolPre = Stack(longer, 1) /\ q.symbolPost = p.symbolPost /\ q.scopePost = t
  BY <1>4 DEF Made
<1>7. q \in Paths
  <2>1. Stack(longer, 1) \in SymbolStacks
    BY <1>5, StackMade
  <2> HIDE DEF longer
  <2> QED BY <1>1, <1>2, <1>4, <2>1, MadeTyped
<1>8. q.symbolPre.items = longer /\ q.symbolPre.variable = 1
  <2> HIDE DEF longer, q
  <2> QED BY <1>6, StackPushed
<1>9. AtMostOne(x.scopes) /\ \A s \in x.scopes : s = new
  BY DEF AtMostOne
<1>10. /\ p.scopePre = FromVariable(1)
       /\ \A i \in 1..m :
            /\ AtMostOne(pre[i].scopes)
            /\ \A s \in pre[i].scopes :
                 /\ s.items = <<>> /\ s.variable \notin {0, 1}
                 /\ \A j \in 1..m : \A u \in pre[j].scopes : s.variable = u.variable => i = j
  BY OpenIs
<1> DEFINE Of(symbol) == {s.variable : s \in symbol.scopes}
<1>11. ScopeVariables(p.symbolPre) = UNION {Of(pre[i]) : i \in 1..m}
       /\ ScopeVariables(q.symbolPre) = UNION {Of(longer[i]) : i \in 1..m + 1}
  <2>1. DOMAIN pre = 1..m
    BY <1>1
  <2> HIDE DEF q
  <2> QED BY <1>5, <1>8, <2>1 DEF ScopeVariables
<1> HIDE DEF longer, q, new
<1>12. \A i \in 1..m + 1 : i = m + 1 \/ i \in 1..m
  BY ONLY <1>5
<1>13. OptionsIn(q.symbolPre)
  <2>1. \A i \in 1..m + 1 : AtMostOne(longer[i].scopes)
    BY <1>5, <1>9, <1>10, <1>12
  <2> QED BY <1>5, <1>8, <2>1 DEF OptionsIn
<1>14. ASSUME NEW i \in 1..m + 1, NEW s \in longer[i].scopes
       PROVE  /\ s.items = <<>> /\ s.variable \notin {0, 1}
              /\ i = m + 1 => s = new
              /\ i # m + 1 => s.variable \in ScopeVariables(p.symbolPre)
  <2>1. CASE i = m + 1
    BY <1>3, <1>5, <1>9, <2>1
  <2>2. CASE i # m + 1
    <3>1. i \in 1..m /\ s \in pre[i].scopes
      BY <1>5, <1>12, <2>2
    <3>2. s.variable \in Of(pre[i])
      BY <3>1
    <3>3. s.variable \in ScopeVariables(p.symbolPre)
      <4> HIDE DEF Of
      <4> QED BY <1>11, <3>1, <3>2
    <3> QED BY <1>10, <2>2, <3>1, <3>3
  <2> QED BY <2>1, <2>2
<1>15. ASSUME NEW i \in 1..m + 1, NEW j \in 1..m + 1, NEW s \in longer[i].scopes, NEW u \in longer[j].scopes,
              s.variable = u.variable
       PROVE  i = j
  <2>1. CASE i = m + 1 \/ j = m + 1
    BY <1>3, <1>14, <1>15, <2>1
  <2>2. CASE i # m + 1 /\ j # m + 1
    <3>1. i \in 1..m /\ s \in pre[i].scopes /\ j \in 1..m /\ u \in pre[j].scopes
      BY <1>5, <1>12, <2>2
    <3> QED BY <1>10, <1>15, <3>1
  <2> QED BY <2>1, <2>2
<1>16. ScopeVariables(p.symbolPre) \cup Of(x) \subseteq ScopeVariables(q.symbolPre)
  <2> HIDE DEF Of
  <2>1. m + 1 \in 1..m + 1 /\ \A i \in 1..m : i \in 1..m + 1
    BY ONLY <1>5
  <2> QED BY <1>5, <1>11, <2>1
<1>17. ScopeVariablesPost(q) \ {0, 1} \subseteq ScopeVariables(q.symbolPre)
  <2>1. ScopeVariablesPost(q) = ScopeVariables(p.symbolPost) \cup {t.variable}
    BY <1>6 DEF ScopeVariablesPost
  <2>2. t.variable \in Known(p) \/ t.variable \in Of(x)
    OBVIOUS
  <2>3. Known(p) \subseteq {0, 1} \cup ScopeVariables(p.symbolPre)
    BY DEF Known
  <2> HIDE DEF Of
  <2> QED BY <1>2, <1>16, <2>1, <2>2, <2>3
<1>18. Open(q)
  <2>1. \A i, j \in DOMAIN q.symbolPre.items :
          \A s \in q.symbolPre.items[i].scopes, u \in q.symbolPre.items[j].scopes :
            s.items = <<>> /\ s.variable \notin {0, 1} /\ (s.variable = u.variable => i = j)
    BY <1>5, <1>8, <1>14, <1>15
  <2>2. OptionsIn(q.symbolPost) /\ q.symbolPost.variable = 1 /\ q.scopePre = FromVariable(1)
    BY <1>2, <1>6, <1>10
  <2> QED BY <1>7, <1>8, <1>13, <1>17, <2>1, <2>2 DEF Open
<1> QED BY <1>6, <1>8, <1>18 DEF q, longer

LEMMA HasLonger ==
  ASSUME NEW pre, IsSequence(pre), NEW x, NEW symbols, IsSequence(symbols)
  PROVE  Has(Append(pre, x), symbols) <=>
           /\ Has(pre, symbols) /\ Len(pre) + 1 <= Len(symbols)
           /\ x.symbol = symbols[Len(pre) + 1].symbol
           /\ (x.scopes = {}) = (symbols[Len(pre) + 1].scopes = {})
<1> DEFINE m == Len(pre)
           longer == Append(pre, x)
<1>1. m \in Nat /\ Len(symbols) \in Nat /\ Len(longer) = m + 1 /\ longer[m + 1] = x
      /\ \A i \in 1..m : longer[i] = pre[i]
  BY AppendIs, SequenceIs
<1> HIDE DEF m, longer
<1>2. m + 1 \in 1..m + 1 /\ \A i \in 1..m + 1 : i = m + 1 \/ i \in 1..m
  BY ONLY <1>1
<1>3. \A i \in 1..m : i \in 1..m + 1
  BY ONLY <1>1
<1> DEFINE Fits(a, b) == a.symbol = b.symbol /\ (a.scopes = {}) = (b.scopes = {})
<1>4. Has(longer, symbols) <=> m + 1 <= Len(symbols) /\ \A i \in 1..m + 1 : Fits(longer[i], symbols[i])
  BY <1>1 DEF Has
<1>5. Has(pre, symbols) <=> m <= Len(symbols) /\ \A i \in 1..m : Fits(pre[i], symbols[i])
  BY DEF Has, m
<1>6. m + 1 <= Len(symbols) => m <= Len(symbols)
  BY <1>1
<1> HIDE DEF Fits
<1>7. Has(longer, symbols) <=> Has(pre, symbols) /\ m + 1 <= Len(symbols) /\ Fits(x, symbols[m + 1])
  BY <1>1, <1>2, <1>3, <1>4, <1>5, <1>6
<1> QED BY <1>7 DEF Fits, longer, m

LEMMA BelowIs ==
  ASSUME NEW p, Open(p), NEW c \in EveryStack
  PROVE  LET m == Len(p.symbolPre.items)
             k == m + 1
             rest == SubSeq(c.symbols, k + 1, Len(c.symbols))
         IN  /\ m \in Nat
             /\ k <= Len(c.symbols) =>
                  /\ Below(p, c) = Pushed(c.symbols[k], rest) /\ rest \in Seq(ConcreteSymbols)
                  /\ c.symbols[k] \in ConcreteSymbols
             /\ ~(k <= Len(c.symbols)) => Below(p, c) = <<>>
<1> DEFINE m == Len(p.symbolPre.items)
           k == m + 1
           s == c.symbols
           rest == SubSeq(s, k + 1, Len(s))
<1>1. m \in Nat /\ s \in Seq(ConcreteSymbols) /\ Len(s) \in Nat
  <2>1. IsSequence(p.symbolPre.items) /\ s \in Seq(ConcreteSymbols)
    BY OpenStacks, StacksExcept
  <2>2. m \in Nat
    BY <2>1, SequenceIs
  <2> HIDE DEF s
  <2> QED BY <2>1, <2>2
<1>2. Below(p, c) = SubSeq(s, k, Len(s))
  BY DEF Below
<1> HIDE DEF m, s
<1>3. ASSUME k <= Len(s)
      PROVE  Below(p, c) = Pushed(s[k], rest) /\ rest \in Seq(ConcreteSymbols) /\ s[k] \in ConcreteSymbols
  <2>1. k \in 1..Len(s) /\ Len(s) \in k..Len(s)
    BY <1>1, <1>3
  <2>2. SubSeq(s, k, Len(s)) = <<s[k]>> \o rest
    BY <1>1, <2>1, SubSeqRecursiveFirst
  <2>3. \A i \in k + 1..Len(s) : s[i] \in ConcreteSymbols
    BY <1>1
  <2>4. k + 1 \in Int /\ Len(s) \in Int
    BY <1>1
  <2>5. rest \in Seq(ConcreteSymbols)
    BY <2>3, <2>4, SubSeqProperties
  <2> QED BY <1>1, <1>2, <2>1, <2>2, <2>5 DEF Pushed
<1>4. ASSUME ~(k <= Len(s)) PROVE Below(p, c) = <<>>
  BY <1>1, <1>2, <1>4, SubSeqEmpty
<1> QED BY <1>1, <1>3, <1>4 DEF m, s

LEMMA VisitPopsNothing ==
  ASSUME NEW n \in Nodes, NEW d, d.symbols = <<>>, KindOf[n] \in Pops
  PROVE  VisitConcretely(n, d) = {}
<1>1. CASE KindOf[n] = "pop symbol"
  BY <1>1 DEF VisitConcretely
<1>2. CASE KindOf[n] = "pop scoped symbol"
  BY <1>2 DEF VisitConcretely
<1> QED BY <1>1, <1>2 DEF Pops

LEMMA FilledNone ==
  ASSUME NEW p, NEW c, NEW S, NEW b \in Seq(S)
  PROVE  Filled(p, c, <<>>) \o b = b
<1> DEFINE f == Filled(p, c, <<>>)
<1>1. IsSequence(f) /\ Len(f) = 0
  BY EmptyIs, FilledIs
<1> HIDE DEF f
<1>2. f = <<>>
  BY <1>1, EmptyIs, SameSequence
<1> QED BY <1>2, ConcatEmptySeq DEF f

LEMMA ResultBelow ==
  ASSUME NEW p, Open(p), NEW c \in EveryStack, p.symbolPost.items = <<>>
  PROVE  ResultOf(p, c) = [symbols |-> Below(p, c), scopes |-> Fill(p, c, p.scopePost)]
<1>1. Filled(p, c, p.symbolPost.items) \o Below(p, c) = Below(p, c)
  BY BelowTyped, FilledNone
<1> QED BY <1>1, ResultIs

DemandFills(p, q, c, x) ==
  /\ \A st \in ScopeStacks : st.variable \in Known(p) => Fill(q, c, st) = Fill(p, c, st)
  /\ \A st \in x.scopes :
       c.symbols[Len(p.symbolPre.items) + 1].scopes = {ScopesFor(q, c, st.variable)}

LEMMA DemandFill ==
  ASSUME NEW p, Open(p), NEW x, NEW longer, longer = Append(p.symbolPre.items, x),
         NEW q, Open(q), q.symbolPre.items = longer,
         NEW c \in EveryStack, Has(longer, c.symbols)
  PROVE  DemandFills(p, q, c, x)
<1> DEFINE pre == p.symbolPre.items
           m == Len(pre)
<1>1. IsSequence(pre) /\ IsSequence(c.symbols)
  BY OpenStacks, StacksExcept, SequenceOf
<1>2. Has(pre, c.symbols)
  BY <1>1, HasLonger
<1>3. /\ m \in Nat /\ Len(longer) = m + 1 /\ longer[m + 1] = x /\ DOMAIN pre = 1..m
      /\ \A i \in 1..m : longer[i] = pre[i]
  BY <1>1, AppendIs, SequenceIs
<1>4. /\ ScopesFor(p, c, 0) = <<>> /\ ScopesFor(p, c, 1) = c.scopes
      /\ \A i \in 1..m : \A st \in pre[i].scopes : c.symbols[i].scopes = {ScopesFor(p, c, st.variable)}
  BY <1>2, ScopesForIs
<1>5. /\ ScopesFor(q, c, 0) = <<>> /\ ScopesFor(q, c, 1) = c.scopes
      /\ \A i \in 1..m + 1 : \A st \in longer[i].scopes : c.symbols[i].scopes = {ScopesFor(q, c, st.variable)}
  <2>1. Has(q.symbolPre.items, c.symbols)
    OBVIOUS
  <2>2. /\ ScopesFor(q, c, 0) = <<>> /\ ScopesFor(q, c, 1) = c.scopes
        /\ \A i \in 1..Len(q.symbolPre.items) : \A st \in q.symbolPre.items[i].scopes :
             c.symbols[i].scopes = {ScopesFor(q, c, st.variable)}
    BY <2>1, ScopesForIs
  <2>3. q.symbolPre.items = longer
    OBVIOUS
  <2> HIDE DEF m, pre
  <2> QED BY <1>3, <2>2, <2>3
<1>6. ASSUME NEW v \in Known(p) PROVE ScopesFor(q, c, v) = ScopesFor(p, c, v)
  <2>1. CASE v \in {0, 1}
    BY <1>4, <1>5, <2>1
  <2>2. CASE v \in ScopeVariables(p.symbolPre)
    <3>1. PICK i \in 1..m : \E st \in pre[i].scopes : st.variable = v
      BY <1>3, <2>2 DEF ScopeVariables
    <3>2. PICK st \in pre[i].scopes : st.variable = v
      BY <3>1
    <3>3. i \in 1..m + 1 /\ st \in longer[i].scopes
      BY <1>3, <3>1
    <3>4. {ScopesFor(q, c, v)} = {ScopesFor(p, c, v)}
      BY <1>4, <1>5, <3>2, <3>3
    <3> QED BY <3>4
  <2> QED BY <2>1, <2>2 DEF Known
<1>7. \A st \in ScopeStacks : st.variable \in Known(p) => Fill(q, c, st) = Fill(p, c, st)
  BY <1>6 DEF Fill
<1>8. m + 1 \in 1..m + 1
  BY <1>3
<1> QED BY <1>3, <1>5, <1>7, <1>8 DEF DemandFills

(* A visit that demands a symbol. *)
LEMMA VisitDemand ==
  ASSUME NEW p, Open(p), NEW n \in Nodes, KindOf[n] \in Pops, p.symbolPost.items = <<>>,
         NEW x, NEW q, Open(q), q.symbolPre.items = Append(p.symbolPre.items, x),
         q.symbolPost = p.symbolPost,
         \A c \in EveryStack : \A d \in EveryStack : \A y \in ConcreteSymbols : \A s \in Seq(ConcreteSymbols) :
           d = ResultOf(p, c) /\ d.symbols = Pushed(y, s) /\ y = c.symbols[Len(p.symbolPre.items) + 1] =>
             /\ Has(Append(p.symbolPre.items, x), c.symbols) =>
                  VisitConcretely(n, d) = {[symbols |-> s, scopes |-> Fill(q, c, q.scopePost)]}
             /\ x.symbol # y.symbol \/ (x.scopes = {}) # (y.scopes = {}) => VisitConcretely(n, d) = {}
  PROVE  OpenAfter(p, q, n)
<1> DEFINE pre == p.symbolPre.items
           m == Len(pre)
           k == m + 1
<1>1. IsSequence(pre) /\ m \in Nat
  BY OpenStacks, SequenceIs
<1>2. ASSUME NEW c \in EveryStack
      PROVE  ApplyPath(q, c) = UNION {VisitConcretely(n, d) : d \in ApplyPath(p, c)}
  <2> DEFINE d == ResultOf(p, c)
             longer == Append(pre, x)
  <2>1. IsSequence(c.symbols)
    BY StacksExcept, SequenceOf
  <2>2. ApplyPath(p, c) = IF Has(pre, c.symbols) THEN {d} ELSE {}
    BY ApplyIs
  <2>3. ApplyPath(q, c) = IF Has(longer, c.symbols) THEN {ResultOf(q, c)} ELSE {}
    <3>1. ApplyPath(q, c) = IF Has(q.symbolPre.items, c.symbols) THEN {ResultOf(q, c)} ELSE {}
      BY ApplyIs
    <3>2. q.symbolPre.items = longer
      OBVIOUS
    <3> HIDE DEF longer
    <3> QED BY <3>1, <3>2
  <2>4. Has(longer, c.symbols) <=>
          /\ Has(pre, c.symbols) /\ k <= Len(c.symbols)
          /\ x.symbol = c.symbols[k].symbol /\ (x.scopes = {}) = (c.symbols[k].scopes = {})
    BY <1>1, <2>1, HasLonger
  <2>5. CASE ~Has(pre, c.symbols)
    <3> HIDE DEF d, longer, pre
    <3> QED BY <2>2, <2>3, <2>4, <2>5
  <2>6. CASE Has(pre, c.symbols)
    <3> DEFINE t == Fill(p, c, p.scopePost)
               b == Below(p, c)
    <3>1. d = [symbols |-> b, scopes |-> t] /\ d \in EveryStack
      BY <2>6, ResultBelow, ResultTyped
    <3>2. d.symbols = b
      <4> HIDE DEF d, b, t
      <4> QED BY <3>1
    <3>3. UNION {VisitConcretely(n, e) : e \in ApplyPath(p, c)} = VisitConcretely(n, d)
      <4>1. ApplyPath(p, c) = {d}
        BY <2>2, <2>6
      <4> HIDE DEF d
      <4> QED BY <4>1
    <3>4. CASE ~(k <= Len(c.symbols))
      <4>1. b = <<>>
        BY <3>4, BelowIs
      <4>2. VisitConcretely(n, d) = {}
        <5> HIDE DEF d, b
        <5> QED BY <3>2, <4>1, VisitPopsNothing
      <4>3. ApplyPath(q, c) = {}
        <5> HIDE DEF pre, longer
        <5> QED BY <2>3, <2>4, <3>4
      <4> QED BY <3>3, <4>2, <4>3
    <3>5. CASE k <= Len(c.symbols)
      <4> DEFINE y == c.symbols[k]
                 s == SubSeq(c.symbols, k + 1, Len(c.symbols))
      <4>1. b = Pushed(y, s) /\ s \in Seq(ConcreteSymbols) /\ y \in ConcreteSymbols
        BY <3>5, BelowIs
      <4>2. d.symbols = Pushed(y, s) /\ d = ResultOf(p, c) /\ y = c.symbols[m + 1]
        <5>1. d = ResultOf(p, c) /\ y = c.symbols[m + 1]
          OBVIOUS
        <5> HIDE DEF d, b
        <5> QED BY <3>2, <4>1, <5>1
      <4>3. /\ Has(longer, c.symbols) =>
                 VisitConcretely(n, d) = {[symbols |-> s, scopes |-> Fill(q, c, q.scopePost)]}
            /\ x.symbol # y.symbol \/ (x.scopes = {}) # (y.scopes = {}) => VisitConcretely(n, d) = {}
        <5> HIDE DEF d, y, s, b
        <5> QED BY <3>1, <4>1, <4>2
      <4>4. Has(longer, c.symbols) => ResultOf(q, c) = [symbols |-> s, scopes |-> Fill(q, c, q.scopePost)]
        <5>1. Below(q, c) = s
          <6>1. Len(longer) = k
            BY <1>1, AppendIs
          <6>2. Below(q, c) = SubSeq(c.symbols, Len(longer) + 1, Len(c.symbols))
            BY DEF Below
          <6> HIDE DEF longer, k
          <6> QED BY <6>1, <6>2
        <5>2. ResultOf(q, c) = [symbols |-> Below(q, c), scopes |-> Fill(q, c, q.scopePost)]
          BY ResultBelow
        <5> HIDE DEF s
        <5> QED BY <5>1, <5>2
      <4>5. ApplyPath(q, c) = VisitConcretely(n, d)
        <5>1. Has(longer, c.symbols) <=>
                x.symbol = y.symbol /\ (x.scopes = {}) = (y.scopes = {})
          BY <2>4, <2>6, <3>5
        <5> HIDE DEF d, y, s, longer, k
        <5>2. CASE Has(longer, c.symbols)
          BY <2>3, <4>3, <4>4, <5>2
        <5>3. CASE ~Has(longer, c.symbols)
          BY <2>3, <4>3, <5>1, <5>3
        <5> QED BY <5>2, <5>3
      <4> QED BY <3>3, <4>5
    <3> QED BY <3>4, <3>5
  <2> QED BY <2>5, <2>6
<1> QED BY <1>2 DEF OpenAfter

LEMMA VisitDemandPlain ==
  ASSUME NEW p, Open(p), NEW n \in Nodes, KindOf[n] = "pop symbol", p.symbolPost.items = <<>>
  PROVE  OpenAfter(p, Made(p, PushBack(p.symbolPre, [symbol |-> SymbolOf[n], scopes |-> {}]),
                           p.symbolPost, p.scopePost), n)
<1> DEFINE x == [symbol |-> SymbolOf[n], scopes |-> {}]
           q == Made(p, PushBack(p.symbolPre, x), p.symbolPost, p.scopePost)
           pre == p.symbolPre.items
           k == Len(pre) + 1
<1>1. x \in StackSymbols /\ x.scopes = {} /\ x.symbol = SymbolOf[n] /\ KindOf[n] \in Pops
  BY KindIs DEF StackSymbols, Pops
<1>2. p.scopePost \in ScopeStacks /\ p.scopePost.variable \in Known(p)
  BY PostKnown
<1> HIDE DEF x
<1>3. /\ Open(q) /\ q.symbolPre.items = Append(pre, x) /\ q.symbolPost = p.symbolPost
      /\ q.scopePost = p.scopePost
  BY <1>1, <1>2, DemandIs
<1> HIDE DEF q
<1>4. ASSUME NEW c \in EveryStack, NEW d \in EveryStack, NEW y \in ConcreteSymbols,
             NEW s \in Seq(ConcreteSymbols), d = ResultOf(p, c), d.symbols = Pushed(y, s), y = c.symbols[k]
      PROVE  /\ Has(Append(pre, x), c.symbols) =>
                  VisitConcretely(n, d) = {[symbols |-> s, scopes |-> Fill(q, c, q.scopePost)]}
             /\ x.symbol # y.symbol \/ (x.scopes = {}) # (y.scopes = {}) => VisitConcretely(n, d) = {}
  <2>1. VisitConcretely(n, d) = IF y.symbol = SymbolOf[n] /\ y.scopes = {}
                                THEN {[symbols |-> s, scopes |-> d.scopes]} ELSE {}
    BY <1>4, VisitPopsPlain
  <2>2. ASSUME Has(Append(pre, x), c.symbols)
        PROVE  y.symbol = SymbolOf[n] /\ y.scopes = {} /\ d.scopes = Fill(q, c, q.scopePost)
    <3>1. IsSequence(pre) /\ IsSequence(c.symbols)
      BY OpenStacks, StacksExcept, SequenceOf
    <3>2. Has(Append(pre, x), c.symbols) <=>
           /\ Has(pre, c.symbols) /\ Len(pre) + 1 <= Len(c.symbols)
           /\ x.symbol = c.symbols[Len(pre) + 1].symbol
           /\ (x.scopes = {}) = (c.symbols[Len(pre) + 1].scopes = {})
      BY <3>1, HasLonger
    <3> DEFINE z == c.symbols[Len(pre) + 1]
    <3>6. x.symbol = z.symbol /\ (x.scopes = {}) = (z.scopes = {}) /\ y = z
      BY <1>4, <2>2, <3>2
    <3>3. Fill(q, c, p.scopePost) = Fill(p, c, p.scopePost)
      <4>1. Has(q.symbolPre.items, c.symbols)
        BY <1>3, <2>2
      <4> DEFINE longer == q.symbolPre.items
      <4>2. Open(q) /\ longer = Append(p.symbolPre.items, x)
        BY <1>3
      <4>3. DemandFills(p, q, c, x)
        BY <4>1, <4>2, DemandFill
      <4> QED BY <1>2, <4>3 DEF DemandFills
    <3>4. d.scopes = Fill(p, c, p.scopePost)
      BY <1>4, ResultFields
    <3> HIDE DEF z
    <3>5. y.symbol = SymbolOf[n] /\ y.scopes = {}
      BY <1>1, <3>6
    <3> QED BY <1>3, <3>3, <3>4, <3>5
  <2> QED BY <1>1, <2>1, <2>2
<1> HIDE DEF k
<1>5. \A c \in EveryStack : \A d \in EveryStack : \A y \in ConcreteSymbols : \A s \in Seq(ConcreteSymbols) :
        d = ResultOf(p, c) /\ d.symbols = Pushed(y, s) /\ y = c.symbols[k] =>
          /\ Has(Append(pre, x), c.symbols) =>
               VisitConcretely(n, d) = {[symbols |-> s, scopes |-> Fill(q, c, q.scopePost)]}
          /\ x.symbol # y.symbol \/ (x.scopes = {}) # (y.scopes = {}) => VisitConcretely(n, d) = {}
  BY <1>4
<1>6. OpenAfter(p, q, n)
  BY <1>1, <1>3, <1>5, VisitDemand DEF k
<1> QED BY <1>6 DEF q, x

LEMMA VisitDemandScoped ==
  ASSUME NEW p, Open(p), NEW n \in Nodes, KindOf[n] = "pop scoped symbol", p.symbolPost.items = <<>>
  PROVE  OpenAfter(p, Made(p, PushBack(p.symbolPre,
                                       [symbol |-> SymbolOf[n],
                                        scopes |-> {FromVariable(FreshScopeVariable(p))}]),
                           p.symbolPost, FromVariable(FreshScopeVariable(p))), n)
<1> DEFINE new == FromVariable(FreshScopeVariable(p))
           x == [symbol |-> SymbolOf[n], scopes |-> {new}]
           q == Made(p, PushBack(p.symbolPre, x), p.symbolPost, new)
           pre == p.symbolPre.items
           k == Len(pre) + 1
<1>1. new \in ScopeStacks /\ new.items = <<>>
  <2>1. <<>> \in Seq(ExportedScopes) /\ FreshScopeVariable(p) \in Nat
    BY EmptySeq, FreshIsNew
  <2>2. new = Stack(<<>>, FreshScopeVariable(p))
    BY DEF FromVariable
  <2> QED BY <2>1, <2>2, StackMade, StackPushed
<1>2. {new} = {FromVariable(FreshScopeVariable(p))}
  OBVIOUS
<1> HIDE DEF new
<1>3. x \in StackSymbols /\ x.scopes = {new} /\ x.symbol = SymbolOf[n] /\ KindOf[n] \in Pops
  BY <1>1, KindIs DEF StackSymbols, Pops
<1> HIDE DEF x
<1>4. /\ Open(q) /\ q.symbolPre.items = Append(pre, x) /\ q.symbolPost = p.symbolPost
      /\ q.scopePost = new
  <2>1. x.scopes = {} \/ x.scopes = {FromVariable(FreshScopeVariable(p))}
    BY <1>2, <1>3
  <2>2. new.variable \in Known(p) \/ x.scopes = {new}
    BY <1>3
  <2>3. LET r == Made(p, PushBack(p.symbolPre, x), p.symbolPost, new)
        IN  /\ Open(r) /\ r.symbolPre.items = Append(p.symbolPre.items, x)
            /\ r.symbolPost = p.symbolPost /\ r.scopePost = new
    BY ONLY <1>1, <1>3, <2>1, <2>2, DemandIs, Open(p)
  <2> QED BY <2>3
<1> HIDE DEF q
<1>5. ASSUME NEW c \in EveryStack, NEW d \in EveryStack, NEW y \in ConcreteSymbols,
             NEW s \in Seq(ConcreteSymbols), d = ResultOf(p, c), d.symbols = Pushed(y, s), y = c.symbols[k]
      PROVE  /\ Has(Append(pre, x), c.symbols) =>
                  VisitConcretely(n, d) = {[symbols |-> s, scopes |-> Fill(q, c, q.scopePost)]}
             /\ x.symbol # y.symbol \/ (x.scopes = {}) # (y.scopes = {}) => VisitConcretely(n, d) = {}
  <2>1. VisitConcretely(n, d) = IF y.symbol = SymbolOf[n]
                                THEN {[symbols |-> s, scopes |-> t] : t \in y.scopes} ELSE {}
    BY <1>5, VisitPopsScoped
  <2>2. ASSUME Has(Append(pre, x), c.symbols)
        PROVE  y.symbol = SymbolOf[n] /\ y.scopes = {Fill(q, c, q.scopePost)}
    <3>1. IsSequence(pre) /\ IsSequence(c.symbols)
      BY OpenStacks, StacksExcept, SequenceOf
    <3>2. Has(Append(pre, x), c.symbols) <=>
           /\ Has(pre, c.symbols) /\ Len(pre) + 1 <= Len(c.symbols)
           /\ x.symbol = c.symbols[Len(pre) + 1].symbol
           /\ (x.scopes = {}) = (c.symbols[Len(pre) + 1].scopes = {})
      BY <3>1, HasLonger
    <3>3. c.symbols[Len(p.symbolPre.items) + 1].scopes = {ScopesFor(q, c, new.variable)}
      <4>1. Has(q.symbolPre.items, c.symbols)
        BY <1>4, <2>2
      <4>2. new \in x.scopes
        BY <1>3
      <4> DEFINE longer == q.symbolPre.items
      <4>3. Open(q) /\ longer = Append(p.symbolPre.items, x)
        BY <1>4
      <4>4. DemandFills(p, q, c, x)
        BY <4>1, <4>3, DemandFill
      <4> QED BY <4>2, <4>4 DEF DemandFills
    <3> DEFINE z == c.symbols[Len(pre) + 1]
    <3>7. y = z /\ x.symbol = z.symbol /\ z.scopes = {ScopesFor(q, c, new.variable)}
      BY <1>3, <1>5, <2>2, <3>2, <3>3
    <3> HIDE DEF z
    <3>4. y.symbol = SymbolOf[n] /\ y.scopes = {ScopesFor(q, c, new.variable)}
      BY <1>3, <3>7
    <3>5. ScopesFor(q, c, new.variable) \in Seq(ExportedScopes)
      <4>1. y.scopes \subseteq Seq(ExportedScopes)
        BY DEF ConcreteSymbols
      <4> QED BY <3>4, <4>1
    <3>6. Fill(q, c, new) = ScopesFor(q, c, new.variable)
      BY <1>1, <3>5, ConcatEmptySeq DEF Fill
    <3> QED BY <1>4, <3>4, <3>6
  <2>3. y.scopes = {} => VisitConcretely(n, d) = {}
    BY <2>1
  <2>4. x.symbol # y.symbol \/ (x.scopes = {}) # (y.scopes = {}) => VisitConcretely(n, d) = {}
    BY <1>3, <2>1, <2>3
  <2>5. ASSUME Has(Append(pre, x), c.symbols)
        PROVE  VisitConcretely(n, d) = {[symbols |-> s, scopes |-> Fill(q, c, q.scopePost)]}
    <3> DEFINE u == Fill(q, c, q.scopePost)
    <3>1. y.symbol = SymbolOf[n] /\ y.scopes = {u}
      BY <2>2, <2>5
    <3> HIDE DEF u
    <3>2. VisitConcretely(n, d) = {[symbols |-> s, scopes |-> u]}
      BY <2>1, <3>1
    <3> QED BY <3>2 DEF u
  <2> QED BY <2>4, <2>5
<1> HIDE DEF k
<1>6. \A c \in EveryStack : \A d \in EveryStack : \A y \in ConcreteSymbols : \A s \in Seq(ConcreteSymbols) :
        d = ResultOf(p, c) /\ d.symbols = Pushed(y, s) /\ y = c.symbols[k] =>
          /\ Has(Append(pre, x), c.symbols) =>
               VisitConcretely(n, d) = {[symbols |-> s, scopes |-> Fill(q, c, q.scopePost)]}
          /\ x.symbol # y.symbol \/ (x.scopes = {}) # (y.scopes = {}) => VisitConcretely(n, d) = {}
  BY <1>5
<1>7. OpenAfter(p, q, n)
  BY <1>3, <1>4, <1>6, VisitDemand DEF k
<1> QED BY <1>7 DEF q, x, new

LEMMA VisitNothing ==
  ASSUME NEW p, Open(p), NEW n \in Nodes, KindOf[n] \in {"root", "jump to", "scope"}
  PROVE  OpenAfter(p, p, n)
<1>1. ASSUME NEW c \in EveryStack
      PROVE  ApplyPath(p, c) = UNION {VisitConcretely(n, d) : d \in ApplyPath(p, c)}
  <2>1. \A d \in EveryStack : VisitConcretely(n, d) = {d}
    BY VisitCases
  <2>2. ApplyPath(p, c) \subseteq EveryStack
    BY ApplyIs, ResultTyped
  <2>3. \A d \in ApplyPath(p, c) : VisitConcretely(n, d) = {d}
    BY <2>1, <2>2
  <2> DEFINE found == ApplyPath(p, c)
  <2> HIDE DEF found
  <2>4. \A d \in found : VisitConcretely(n, d) = {d}
    BY <2>3 DEF found
  <2>5. \A d : d \in found <=> \E e \in found : d \in VisitConcretely(n, e)
    BY <2>4
  <2>6. found = UNION {VisitConcretely(n, d) : d \in found}
    BY <2>5
  <2> QED BY <2>6 DEF found
<1> QED BY <1>1 DEF OpenAfter

LEMMA MadeSame ==
  ASSUME NEW p, NEW q, NEW x, NEW y, NEW z, q = Made(p, x, y, z)
  PROVE  q = Made(p, q.symbolPre, q.symbolPost, q.scopePost)
  BY DEF Made

(* Whatever is visited, what the path means is followed by the visit. *)
LEMMA VisitOpen ==
  ASSUME NEW p, Open(p), NEW n \in Nodes, NEW q \in Visit(n, p)
  PROVE  /\ OpenAfter(p, q, n) /\ q = Made(p, q.symbolPre, q.symbolPost, q.scopePost)
<1>10. VisitEffects(p, n, q)
  BY VisitsAre
<1>1. CASE KindOf[n] = "drop scopes"
  <2>1. /\ q = Made(p, p.symbolPre, p.symbolPost, EmptyStack)
    BY <1>1, <1>10 DEF VisitEffects
  <2>2. OpenAfter(p, q, n)
    BY <1>1, <2>1, VisitDrop
  <2>3. q = Made(p, q.symbolPre, q.symbolPost, q.scopePost)
    BY <2>1, MadeSame
  <2> QED BY <2>2, <2>3
<1>2. CASE KindOf[n] = "push symbol"
  <2>1. /\ q = Made(p, p.symbolPre,
                   PushFront([symbol |-> SymbolOf[n], scopes |-> {}], p.symbolPost), p.scopePost)
    BY <1>2, <1>10 DEF VisitEffects
  <2>2. OpenAfter(p, q, n)
    BY <1>2, <2>1, VisitPushPlain
  <2>3. q = Made(p, q.symbolPre, q.symbolPost, q.scopePost)
    BY <2>1, MadeSame
  <2> QED BY <2>2, <2>3
<1>3. CASE KindOf[n] = "push scoped symbol"
  <2>1. /\ q = Made(p, p.symbolPre,
                   PushFront([symbol |-> SymbolOf[n],
                              scopes |-> {PushFront(ScopeOf[n], p.scopePost)}], p.symbolPost),
                   p.scopePost)
      /\ ScopeOf[n] \in Nodes
    BY <1>3, <1>10 DEF VisitEffects
  <2>2. OpenAfter(p, q, n)
    BY <1>3, <2>1, VisitPushScoped
  <2>3. q = Made(p, q.symbolPre, q.symbolPost, q.scopePost)
    BY <2>1, MadeSame
  <2> QED BY <2>2, <2>3
<1>4. CASE KindOf[n] = "pop symbol" /\ p.symbolPost.items # <<>>
  <2>1. /\ q = Made(p, p.symbolPre, DropFront(p.symbolPost, 1), p.scopePost)
      /\ p.symbolPost.items[1].symbol = SymbolOf[n] /\ p.symbolPost.items[1].scopes = {}
    BY <1>4, <1>10 DEF VisitEffects
  <2>2. OpenAfter(p, q, n)
    BY <1>4, <2>1, VisitPopHeldPlain
  <2>3. q = Made(p, q.symbolPre, q.symbolPost, q.scopePost)
    BY <2>1, MadeSame
  <2> QED BY <2>2, <2>3
<1>5. CASE KindOf[n] = "pop scoped symbol" /\ p.symbolPost.items # <<>>
  <2>1. /\ q = Made(p, p.symbolPre, DropFront(p.symbolPost, 1), The(p.symbolPost.items[1].scopes))
      /\ p.symbolPost.items[1].symbol = SymbolOf[n] /\ p.symbolPost.items[1].scopes # {}
    BY <1>5, <1>10 DEF VisitEffects
  <2>2. OpenAfter(p, q, n)
    BY <1>5, <2>1, VisitPopHeldScoped
  <2>3. q = Made(p, q.symbolPre, q.symbolPost, q.scopePost)
    BY <2>1, MadeSame
  <2> QED BY <2>2, <2>3
<1>6. CASE KindOf[n] = "pop symbol" /\ p.symbolPost.items = <<>>
  <2>1. /\ q = Made(p, PushBack(p.symbolPre, [symbol |-> SymbolOf[n], scopes |-> {}]),
                   p.symbolPost, p.scopePost)
    BY <1>6, <1>10 DEF VisitEffects
  <2>2. OpenAfter(p, q, n)
    BY <1>6, <2>1, VisitDemandPlain
  <2>3. q = Made(p, q.symbolPre, q.symbolPost, q.scopePost)
    BY <2>1, MadeSame
  <2> QED BY <2>2, <2>3
<1>7. CASE KindOf[n] = "pop scoped symbol" /\ p.symbolPost.items = <<>>
  <2>1. /\ q = Made(p, PushBack(p.symbolPre, [symbol |-> SymbolOf[n],
                                             scopes |-> {FromVariable(FreshScopeVariable(p))}]),
                   p.symbolPost, FromVariable(FreshScopeVariable(p)))
    BY <1>7, <1>10 DEF VisitEffects
  <2>2. OpenAfter(p, q, n)
    BY <1>7, <2>1, VisitDemandScoped
  <2>3. q = Made(p, q.symbolPre, q.symbolPost, q.scopePost)
    BY <2>1, MadeSame
  <2> QED BY <2>2, <2>3
<1>8. CASE KindOf[n] \in {"root", "jump to", "scope"}
  <2>1. /\ q = p
    BY <1>8, <1>10 DEF VisitEffects
  <2>2. OpenAfter(p, q, n)
    BY <1>8, <2>1, VisitNothing
  <2>3. q = Made(p, q.symbolPre, q.symbolPost, q.scopePost)
    BY <2>1, OpenIs, MadeIs
  <2> QED BY <2>2, <2>3
<1>9. KindOf[n] \in Kinds
  BY KindIs
<1> QED BY <1>1, <1>2, <1>3, <1>4, <1>5, <1>6, <1>7, <1>8, <1>9 DEF Kinds, Pushes, Pops

-----------------------------------------------------------------------------
(* Edges: a path that is longer by a node. *)

Longer(q, n, e) == [q EXCEPT !.end = n, !.edges = Append(@, e)]
Jumped(q, n, e) == [q EXCEPT !.end = n, !.scopePost = DropFront(@, 1), !.edges = Append(@, e)]

With(q, n, edges, scopes) ==
  [start |-> q.start, end |-> n, edges |-> edges, symbolPre |-> q.symbolPre,
   symbolPost |-> q.symbolPost, scopePre |-> q.scopePre, scopePost |-> scopes]

LEMMA LongerIs ==
  ASSUME NEW q \in Paths, NEW n, NEW e
  PROVE  /\ Longer(q, n, e) = With(q, n, Append(q.edges, e), q.scopePost)
         /\ Jumped(q, n, e) = With(q, n, Append(q.edges, e), DropFront(q.scopePost, 1))
<1> DEFINE edges == Append(q.edges, e)
           scopes == DropFront(q.scopePost, 1)
<1>1. /\ Longer(q, n, e) = [q EXCEPT !.end = n, !.edges = edges]
      /\ Jumped(q, n, e) = [q EXCEPT !.end = n, !.scopePost = scopes, !.edges = edges]
  BY DEF Longer, Jumped
<1> HIDE DEF edges, scopes
<1> DEFINE g == [q EXCEPT !.end = n]
           h == [g EXCEPT !.scopePost = scopes]
<1>2. /\ [q EXCEPT !.end = n, !.edges = edges] = [g EXCEPT !.edges = edges]
      /\ [q EXCEPT !.end = n, !.scopePost = scopes, !.edges = edges] = [h EXCEPT !.edges = edges]
  OBVIOUS
<1>3. g = With(q, n, q.edges, q.scopePost)
  <2> DEFINE E == Seq([source : Nodes, precedence : Nat])
  <2>1. q \in [start : Nodes, end : Nodes, edges : E, symbolPre : SymbolStacks,
               symbolPost : SymbolStacks, scopePre : ScopeStacks, scopePost : ScopeStacks]
    BY DEF Paths
  <2> HIDE DEF E
  <2> QED BY <2>1 DEF With
<1> HIDE DEF g
<1>4. h = With(q, n, q.edges, scopes)
  BY <1>3 DEF With
<1> HIDE DEF h
<1>5. /\ [g EXCEPT !.edges = edges] = With(q, n, edges, q.scopePost)
      /\ [h EXCEPT !.edges = edges] = With(q, n, edges, scopes)
  BY <1>3, <1>4 DEF With
<1> QED BY <1>1, <1>2, <1>5 DEF edges, scopes

LEMMA WithFields ==
  ASSUME NEW q, NEW n, NEW edges, NEW scopes
  PROVE  /\ With(q, n, edges, scopes).start = q.start /\ With(q, n, edges, scopes).end = n
         /\ With(q, n, edges, scopes).edges = edges
         /\ With(q, n, edges, scopes).symbolPre = q.symbolPre
         /\ With(q, n, edges, scopes).symbolPost = q.symbolPost
         /\ With(q, n, edges, scopes).scopePre = q.scopePre
         /\ With(q, n, edges, scopes).scopePost = scopes
  BY DEF With

PathEdges == [source : Nodes, precedence : Nat]

LEMMA WithTyped ==
  ASSUME NEW q \in Paths, NEW n \in Nodes, NEW e \in PathEdges, NEW scopes \in ScopeStacks
  PROVE  With(q, n, Append(q.edges, e), scopes) \in Paths
<1> DEFINE edges == Append(q.edges, e)
<1>1. q.edges \in Seq(PathEdges)
  BY DEF Paths, PathEdges
<1>2. edges \in Seq(PathEdges)
  BY <1>1, AppendProperties
<1> HIDE DEF edges
<1>3. With(q, n, edges, scopes) \in Paths
  BY <1>2 DEF With, Paths, PathEdges
<1> QED BY <1>3 DEF edges

LEMMA EndedIs ==
  ASSUME NEW s, IsSequence(s), NEW x
  PROVE  /\ IsSequence(s \o <<x>>) /\ Len(s \o <<x>>) = Len(s) + 1
         /\ \A i \in 1..Len(s) : (s \o <<x>>)[i] = s[i]
         /\ (s \o <<x>>)[Len(s) + 1] = x
<1> DEFINE one == <<x>>
<1>1. IsSequence(one) /\ Len(one) = 1 /\ one[1] = x /\ 1 \in 1..1
  BY OneIs
<1> HIDE DEF one
<1>2. /\ IsSequence(s \o one) /\ Len(s \o one) = Len(s) + Len(one)
      /\ \A i \in 1..Len(s) : (s \o one)[i] = s[i]
      /\ \A i \in 1..Len(one) : (s \o one)[Len(s) + i] = one[i]
  <2>1. IsSequence(s) /\ IsSequence(one)
    BY <1>1
  <2> QED BY ONLY <2>1, ConcatIs
<1>3. /\ IsSequence(s \o one) /\ Len(s \o one) = Len(s) + 1
      /\ \A i \in 1..Len(s) : (s \o one)[i] = s[i]
      /\ (s \o one)[Len(s) + 1] = x
  BY <1>1, <1>2
<1> QED BY <1>3 DEF one

(* The nodes of a path. *)
LEMMA NodesOfIs ==
  ASSUME NEW p \in Paths
  PROVE  /\ NodesOf(p) \in Seq(Nodes) /\ Len(NodesOf(p)) = Len(p.edges) + 1
         /\ Len(p.edges) \in Nat /\ DOMAIN p.edges = 1..Len(p.edges)
         /\ IsSequence(NodesOf(p)) /\ Len(NodesOf(p)) >= 1
         /\ NodesOf(p)[Len(NodesOf(p))] = p.end
         /\ \A i \in 1..Len(p.edges) : NodesOf(p)[i] = p.edges[i].source
<1> DEFINE m == Len(p.edges)
           sources == [i \in DOMAIN p.edges |-> p.edges[i].source]
<1>1. p.edges \in Seq(PathEdges) /\ p.end \in Nodes
  BY DEF Paths, PathEdges
<1>2. m \in Nat /\ DOMAIN p.edges = 1..m /\ \A i \in 1..m : p.edges[i].source \in Nodes
  <2>1. Len(p.edges) \in Nat /\ DOMAIN p.edges = 1..Len(p.edges)
    BY <1>1, SequenceOf, SequenceIs
  <2>2. \A i \in 1..Len(p.edges) : p.edges[i] \in PathEdges
    BY <1>1, <2>1, ElementOfSeq
  <2> QED BY <2>1, <2>2 DEF PathEdges
<1>3. sources = [i \in 1..m |-> sources[i]] /\ \A i \in 1..m : sources[i] = p.edges[i].source
  BY <1>2
<1> HIDE DEF sources, m
<1>4. IsSequence(sources) /\ Len(sources) = m
  BY <1>2, <1>3, FunctionIsSequence
<1>6. NodesOf(p) = sources \o <<p.end>>
  BY DEF NodesOf, sources
<1> DEFINE all == sources \o <<p.end>>
<1>7. /\ IsSequence(all) /\ Len(all) = m + 1
      /\ \A i \in 1..m : all[i] = p.edges[i].source
      /\ all[m + 1] = p.end
  BY <1>2, <1>3, <1>4, EndedIs
<1> HIDE DEF all
<1>8. \A i \in 1..m + 1 : all[i] \in Nodes
  <2> TAKE i \in 1..m + 1
  <2>1. CASE i = m + 1
    BY <1>1, <1>7, <2>1
  <2>2. CASE i # m + 1
    BY <1>2, <1>7, <2>2
  <2> QED BY <2>1, <2>2
<1>9. ToSet(all) \subseteq Nodes
  BY <1>7, <1>8, SequenceIs DEF ToSet
<1>10. all \in Seq(Nodes)
  BY <1>7, <1>9, MembersIs
<1>11. NodesOf(p) = all
  BY <1>6 DEF all
<1>12. all[Len(all)] = p.end /\ Len(all) >= 1
  BY <1>2, <1>7
<1> QED BY <1>2, <1>7, <1>10, <1>11, <1>12 DEF m

LEMMA NodesLonger ==
  ASSUME NEW p \in Paths, NEW q \in Paths, NEW e, e.source = p.end, q.edges = Append(p.edges, e)
  PROVE  NodesOf(q) = Append(NodesOf(p), q.end) /\ NodesOf(q)[1] = NodesOf(p)[1]
<1> DEFINE m == Len(p.edges)
           s == NodesOf(p)
           t == NodesOf(q)
<1>1. /\ IsSequence(s) /\ Len(s) = m + 1 /\ m \in Nat /\ s[m + 1] = p.end
      /\ \A i \in 1..m : s[i] = p.edges[i].source
  BY NodesOfIs
<1>2. IsSequence(p.edges)
  BY SequenceOf DEF Paths
<1>3. /\ Len(q.edges) = m + 1 /\ q.edges[m + 1] = e
      /\ \A i \in 1..m : q.edges[i] = p.edges[i]
  BY <1>2, AppendIs
<1>4. /\ IsSequence(t) /\ Len(t) = m + 2 /\ t[m + 2] = q.end
      /\ \A i \in 1..m + 1 : t[i] = q.edges[i].source
  <2>1. /\ IsSequence(t) /\ Len(t) = Len(q.edges) + 1 /\ t[Len(t)] = q.end
        /\ \A i \in 1..Len(q.edges) : t[i] = q.edges[i].source
    BY NodesOfIs
  <2> HIDE DEF t
  <2> QED BY <1>1, <1>3, <2>1
<1> HIDE DEF s, t, m
<1> DEFINE longer == Append(s, q.end)
<1>5. /\ IsSequence(longer) /\ Len(longer) = m + 2 /\ longer[m + 2] = q.end
      /\ \A i \in 1..m + 1 : longer[i] = s[i]
  BY <1>1, AppendIs
<1> HIDE DEF longer
<1>6. \A i \in 1..m + 2 : t[i] = longer[i]
  <2> TAKE i \in 1..m + 2
  <2>1. CASE i = m + 2
    BY <1>4, <1>5, <2>1
  <2>2. CASE i = m + 1
    BY <1>1, <1>3, <1>4, <1>5, <2>2
  <2>3. CASE i \in 1..m
    BY <1>1, <1>3, <1>4, <1>5, <2>3
  <2> QED BY <1>1, <2>1, <2>2, <2>3
<1>7. t = longer
  BY <1>4, <1>5, <1>6, SameSequence
<1>8. 1 \in 1..m + 1 /\ longer[1] = s[1]
  BY <1>1, <1>5
<1> QED BY <1>7, <1>8 DEF s, t, longer

-----------------------------------------------------------------------------
(* What a path means that ends elsewhere. *)

LEMMA SameStacks ==
  ASSUME NEW p, Open(p), NEW q \in Paths, q.symbolPre = p.symbolPre, q.symbolPost = p.symbolPost,
         q.scopePre = p.scopePre, q.scopePost = p.scopePost
  PROVE  Open(q) /\ \A c \in EveryStack : ApplyPath(q, c) = ApplyPath(p, c)
<1>1. Open(q)
  BY DEF Open, ScopeVariablesPost
<1>2. ASSUME NEW c \in EveryStack PROVE ApplyPath(q, c) = ApplyPath(p, c)
  <2>1. ApplyPath(p, c) = IF Has(p.symbolPre.items, c.symbols) THEN {ResultOf(p, c)} ELSE {}
    BY <1>2, ApplyIs
  <2>2. ApplyPath(q, c) = IF Has(p.symbolPre.items, c.symbols) THEN {ResultOf(q, c)} ELSE {}
    BY <1>1, <1>2, ApplyIs
  <2>3. ResultOf(p, c) = [symbols |-> Filled(p, c, p.symbolPost.items) \o Below(p, c),
                          scopes |-> Fill(p, c, p.scopePost)]
    BY ResultIs
  <2>4. ResultOf(q, c) = [symbols |-> Filled(q, c, p.symbolPost.items) \o Below(q, c),
                          scopes |-> Fill(q, c, p.scopePost)]
    BY <1>1, ResultIs
  <2>5. /\ Filled(q, c, p.symbolPost.items) = Filled(p, c, p.symbolPost.items)
        /\ Below(q, c) = Below(p, c) /\ Fill(q, c, p.scopePost) = Fill(p, c, p.scopePost)
    BY SamePre
  <2>6. ResultOf(q, c) = ResultOf(p, c)
    BY ONLY <2>3, <2>4, <2>5
  <2> QED BY <2>1, <2>2, <2>6
<1> QED BY <1>1, <1>2

(* What each path means is what its nodes do. *)
Meaning(p) == Means(p, EveryStack)

LEMMA WalkOver ==
  ASSUME NEW nodes, IsSequence(nodes), Len(nodes) >= 1, NEW n, NEW c
  PROVE  \A x : x \in Walk(Append(nodes, n), c) <=>
                 \E d \in Walk(nodes, c) : \E l \in LeaveTo(nodes[Len(nodes)], n, d) :
                   x \in VisitConcretely(n, l)
<1> DEFINE walked == Walk(nodes, c)
           all == Walk(Append(nodes, n), c)
           left == UNION {LeaveTo(nodes[Len(nodes)], n, d) : d \in walked}
<1>1. all = UNION {VisitConcretely(n, l) : l \in left}
  BY WalkLonger
<1>2. \A l : l \in left <=> \E d \in walked : l \in LeaveTo(nodes[Len(nodes)], n, d)
  OBVIOUS
<1> HIDE DEF all, left, walked
<1>3. \A x : x \in all <=> \E l \in left : x \in VisitConcretely(n, l)
  BY <1>1
<1>4. \A x : x \in all <=> \E d \in walked : \E l \in LeaveTo(nodes[Len(nodes)], n, d) :
                              x \in VisitConcretely(n, l)
  BY <1>2, <1>3
<1> QED BY <1>4 DEF all, walked

LEMMA WalkOn ==
  ASSUME NEW nodes, IsSequence(nodes), Len(nodes) >= 1, NEW n, NEW c,
         KindOf[nodes[Len(nodes)]] # "jump to"
  PROVE  \A x : x \in Walk(Append(nodes, n), c) <=>
                 \E d \in Walk(nodes, c) : x \in VisitConcretely(n, d)
<1> DEFINE walked == Walk(nodes, c)
           all == Walk(Append(nodes, n), c)
           Leaving(d) == LeaveTo(nodes[Len(nodes)], n, d)
<1>1. \A d : Leaving(d) = {d}
  BY DEF LeaveTo
<1>2. \A x : x \in all <=> \E d \in walked : \E l \in Leaving(d) : x \in VisitConcretely(n, l)
  BY WalkOver
<1> HIDE DEF walked, all, Leaving
<1>3. \A x : x \in all <=> \E d \in walked : x \in VisitConcretely(n, d)
  BY <1>1, <1>2
<1> QED BY <1>3 DEF walked, all

LEMMA MeaningLonger ==
  ASSUME NEW p, Open(p), Meaning(p), KindOf[p.end] # "jump to",
         NEW q \in Paths, NEW e, e.source = p.end, q.edges = Append(p.edges, e),
         \A c \in EveryStack :
           ApplyPath(q, c) = UNION {VisitConcretely(q.end, d) : d \in ApplyPath(p, c)}
  PROVE  Meaning(q)
<1>1. p \in Paths
  BY OpenIs
<1>2. ASSUME NEW c \in EveryStack PROVE ApplyPath(q, c) = Walk(NodesOf(q), c)
  <2> DEFINE s == NodesOf(p)
             n == q.end
             walked == Walk(s, c)
  <2>1. IsSequence(s) /\ Len(s) >= 1 /\ s[Len(s)] = p.end
    BY <1>1, NodesOfIs
  <2>2. NodesOf(q) = Append(s, n)
    BY <1>1, NodesLonger
  <2>3. walked = ApplyPath(p, c)
    BY <1>2 DEF Meaning, Means
  <2> HIDE DEF s, n
  <2>4. KindOf[s[Len(s)]] # "jump to"
    BY <2>1
  <2>5. \A x : x \in Walk(Append(s, n), c) <=> \E d \in walked : x \in VisitConcretely(n, d)
    BY <2>1, <2>4, WalkOn
  <2> HIDE DEF walked
  <2>6. ApplyPath(q, c) = UNION {VisitConcretely(n, d) : d \in ApplyPath(p, c)}
    BY <1>2 DEF n
  <2>7. \A x : x \in ApplyPath(q, c) <=> \E d \in walked : x \in VisitConcretely(n, d)
    BY <2>3, <2>6
  <2>8. \A x : x \in ApplyPath(q, c) <=> x \in Walk(NodesOf(q), c)
    BY <2>2, <2>5, <2>7
  <2> DEFINE a == ApplyPath(q, c)
             b == Walk(NodesOf(q), c)
  <2>9. \A x : x \in a <=> x \in b
    BY <2>8
  <2> HIDE DEF a, b
  <2>10. a = b
    BY <2>9
  <2> QED BY <2>10 DEF a, b
<1> QED BY <1>2 DEF Meaning, Means

(* A jump that is resolved takes the scope that is on top. *)
LEMMA FillTail ==
  ASSUME NEW q, Open(q), NEW c \in EveryStack, Has(q.symbolPre.items, c.symbols),
         NEW n \in ExportedScopes, NEW s \in Seq(ExportedScopes),
         q.scopePost = Stack(Pushed(n, s), q.scopePost.variable)
  PROVE  /\ Fill(q, c, q.scopePost) = Pushed(n, Fill(q, c, Stack(s, q.scopePost.variable)))
         /\ Fill(q, c, Stack(s, q.scopePost.variable)) \in Seq(ExportedScopes)
<1> DEFINE v == q.scopePost.variable
           for == ScopesFor(q, c, v)
<1>1. for \in Seq(ExportedScopes)
  BY PostKnown, FillTyped
<1>2. /\ Fill(q, c, q.scopePost) = Pushed(n, s) \o for
      /\ Fill(q, c, Stack(s, v)) = s \o for
  <2>1. Stack(Pushed(n, s), v).items = Pushed(n, s) /\ Stack(s, v).items = s /\ Stack(s, v).variable = v
    BY DEF Stack
  <2>2. q.scopePost.items = Pushed(n, s)
    BY <2>1
  <2>3. Fill(q, c, q.scopePost) = q.scopePost.items \o for /\ Fill(q, c, Stack(s, v)) = Stack(s, v).items \o ScopesFor(q, c, Stack(s, v).variable)
    BY DEF Fill
  <2> HIDE DEF for
  <2> QED BY <2>1, <2>2, <2>3 DEF for
<1> HIDE DEF for, v
<1>3. Pushed(n, s) \o for = Pushed(n, s \o for)
  BY <1>1, PushedConcat
<1>4. s \o for \in Seq(ExportedScopes)
  BY <1>1, ConcatProperties
<1>5. Fill(q, c, q.scopePost) = Pushed(n, Fill(q, c, Stack(s, v)))
  BY <1>2, <1>3
<1>6. Fill(q, c, Stack(s, v)) \in Seq(ExportedScopes)
  BY <1>2, <1>4
<1> QED BY <1>5, <1>6 DEF v

LEMMA FillSame ==
  ASSUME NEW p, NEW q, q.symbolPre = p.symbolPre /\ q.scopePre = p.scopePre, NEW c, NEW st
  PROVE  Fill(q, c, st) = Fill(p, c, st)
  BY SamePre

LEMMA FilledSame ==
  ASSUME NEW p, NEW q, q.symbolPre = p.symbolPre /\ q.scopePre = p.scopePre, NEW c, NEW items
  PROVE  Filled(q, c, items) = Filled(p, c, items)
  BY SamePre

LEMMA BelowSame ==
  ASSUME NEW p, NEW q, q.symbolPre = p.symbolPre /\ q.scopePre = p.scopePre, NEW c
  PROVE  Below(q, c) = Below(p, c)
  BY SamePre

LeavesWith(m, n, d, w) == LeaveTo(m, n, d) = {Concrete(d.symbols, w)}

LEMMA LeaveToTop ==
  ASSUME NEW m, KindOf[m] = "jump to", NEW n \in ExportedScopes,
         NEW d \in EveryStack, NEW w \in Seq(ExportedScopes), d.scopes = Pushed(n, w)
  PROVE  LeavesWith(m, n, d, w)
<1>1. d.scopes # <<>> /\ d.scopes[1] = n /\ Tail(d.scopes) = w
  BY PushedTop
<1>2. LeaveTo(m, n, d) = {[d EXCEPT !.scopes = Tail(d.scopes)]}
  BY <1>1 DEF LeaveTo
<1>3. [d EXCEPT !.scopes = w] = Concrete(d.symbols, w)
  BY StacksExcept DEF Concrete
<1> QED BY <1>1, <1>2, <1>3 DEF LeavesWith

LEMMA StackDropped ==
  ASSUME NEW items, NEW v, NEW k
  PROVE  DropFront(Stack(items, v), k) = Stack(SubSeq(items, k + 1, Len(items)), v)
  BY ONLY StackOps

LEMMA JumpIs ==
  ASSUME NEW q, Open(q), q.scopePost.items # <<>>, NEW e \in PathEdges
  PROVE  \E n \in ExportedScopes : \E s \in Seq(ExportedScopes) :
           /\ q.scopePost.items[1] = n /\ q.scopePost = Stack(Pushed(n, s), q.scopePost.variable)
           /\ Jumped(q, n, e) = With(q, n, Append(q.edges, e), Stack(s, q.scopePost.variable))
           /\ Jumped(q, n, e) \in Paths /\ Open(Jumped(q, n, e))
<1> DEFINE items == q.scopePost.items
           v == q.scopePost.variable
           n == items[1]
           s == SubSeq(items, 2, Len(items))
           r == Jumped(q, n, e)
<1>1. q \in Paths /\ q.scopePost = Stack(items, v) /\ items \in Seq(ExportedScopes) /\ v \in Nat
  BY OpenIs, PathTyped
<1> HIDE DEF items, v
<1>2. items = Pushed(n, s) /\ n \in ExportedScopes /\ s \in Seq(ExportedScopes)
  BY <1>1, PushedFirst DEF items
<1>3. n \in Nodes
  BY <1>2, ExportedIs
<1>4. DropFront(q.scopePost, 1) = Stack(s, v)
  <2>1. DropFront(Stack(items, v), 1) = Stack(SubSeq(items, 1 + 1, Len(items)), v)
    BY ONLY StackDropped
  <2>2. 1 + 1 = 2
    OBVIOUS
  <2> QED BY <1>1, <2>1, <2>2
<1> HIDE DEF n, s
<1>5. r = With(q, n, Append(q.edges, e), Stack(s, v))
  BY <1>1, <1>4, LongerIs
<1>6. Stack(s, v) \in ScopeStacks /\ Stack(s, v).variable = v
  BY <1>1, <1>2, StackMade DEF Stack
<1>7. r \in Paths
  BY <1>1, <1>3, <1>5, <1>6, WithTyped
<1> HIDE DEF r
<1>8. /\ r.symbolPre = q.symbolPre /\ r.symbolPost = q.symbolPost /\ r.scopePre = q.scopePre
      /\ r.scopePost = Stack(s, v)
  BY <1>5, WithFields
<1>9. Open(r)
  <2>1. \A u \in ScopeVariablesPost(r) : u \in Known(q)
    BY <1>6, <1>8, PostOf DEF ScopeVariablesPost, v
  <2> QED BY <1>7, <1>8, <2>1, OpenSamePre, PostOf
<1>10. q.scopePost.items[1] = n
  BY DEF n, items
<1> QED BY <1>1, <1>2, <1>5, <1>7, <1>9, <1>10 DEF r, v

LEMMA MeaningJumped ==
  ASSUME NEW q, Open(q), Meaning(q), KindOf[q.end] = "jump to",
         NEW n \in ExportedScopes, NEW s \in Seq(ExportedScopes),
         q.scopePost = Stack(Pushed(n, s), q.scopePost.variable),
         NEW e, e.source = q.end, NEW r, Open(r),
         r = With(q, n, Append(q.edges, e), Stack(s, q.scopePost.variable))
  PROVE  Meaning(r)
<1> DEFINE v == q.scopePost.variable
<1>1. /\ r.symbolPre = q.symbolPre /\ r.symbolPost = q.symbolPost /\ r.scopePre = q.scopePre
      /\ r.scopePost = Stack(s, v) /\ r.end = n /\ r.edges = Append(q.edges, e)
  <2> DEFINE edges == Append(q.edges, e)
             st == Stack(s, v)
  <2>1. r = With(q, n, edges, st)
    OBVIOUS
  <2> HIDE DEF edges, st, v
  <2>2. /\ r.symbolPre = q.symbolPre /\ r.symbolPost = q.symbolPost /\ r.scopePre = q.scopePre
        /\ r.scopePost = st /\ r.end = n /\ r.edges = edges
    BY ONLY <2>1 DEF With
  <2> QED BY <2>2 DEF edges, st
<1>2. q \in Paths /\ r \in Paths
  BY OpenIs
<1>3. n \in Nodes /\ KindOf[n] = "scope"
  BY ExportedIs
<1>4. ASSUME NEW c \in EveryStack PROVE \A x : x \in ApplyPath(r, c) <=> x \in Walk(NodesOf(r), c)
  <2> DEFINE t == NodesOf(q)
             walked == Walk(t, c)
             Leaving(d) == LeaveTo(q.end, n, d)
             has == Has(q.symbolPre.items, c.symbols)
  <2>1. IsSequence(t) /\ Len(t) >= 1 /\ t[Len(t)] = q.end
    BY <1>2, NodesOfIs
  <2>2. NodesOf(r) = Append(t, n)
    BY <1>1, <1>2, NodesLonger
  <2>3. walked = ApplyPath(q, c)
    BY <1>4 DEF Meaning, Means
  <2>4. \A x : x \in Walk(Append(t, n), c) <=> \E d \in walked : \E l \in Leaving(d) : x \in VisitConcretely(n, l)
    <3> HIDE DEF t
    <3>1. \A x : x \in Walk(Append(t, n), c) <=>
                   \E d \in Walk(t, c) : \E l \in LeaveTo(t[Len(t)], n, d) : x \in VisitConcretely(n, l)
      BY <2>1, WalkOver
    <3> QED BY <2>1, <3>1
  <2>5. CASE ~has
    <3>1. ApplyPath(q, c) = {} /\ ApplyPath(r, c) = {}
      BY <1>1, <1>4, <2>5, ApplyIs
    <3> QED BY <2>2, <2>3, <2>4, <3>1
  <2>6. CASE has
    <3> DEFINE d == ResultOf(q, c)
               f == ResultOf(r, c)
               w == Fill(q, c, Stack(s, v))
    <3>1. ApplyPath(q, c) = {d} /\ ApplyPath(r, c) = {f}
      BY <1>1, <1>4, <2>6, ApplyIs
    <3>2. d \in EveryStack /\ f \in EveryStack
      BY <1>1, <1>4, <2>6, ResultTyped
    <3>3. Fill(q, c, q.scopePost) = Pushed(n, w) /\ w \in Seq(ExportedScopes)
      BY <1>4, <2>6, FillTail
    <3>4. d = [symbols |-> Filled(q, c, q.symbolPost.items) \o Below(q, c),
               scopes |-> Fill(q, c, q.scopePost)]
      BY ResultIs
    <3>5. f = [symbols |-> Filled(r, c, q.symbolPost.items) \o Below(r, c),
               scopes |-> Fill(r, c, Stack(s, v))]
      BY <1>1, ResultIs
    <3>6. /\ Filled(r, c, q.symbolPost.items) = Filled(q, c, q.symbolPost.items)
          /\ Below(r, c) = Below(q, c) /\ Fill(r, c, Stack(s, v)) = w
      <4>1. r.symbolPre = q.symbolPre /\ r.scopePre = q.scopePre
        BY <1>1
      <4>2. Fill(r, c, Stack(s, v)) = Fill(q, c, Stack(s, v))
        BY ONLY <4>1, FillSame
      <4>3. Filled(r, c, q.symbolPost.items) = Filled(q, c, q.symbolPost.items)
        BY ONLY <4>1, FilledSame
      <4>4. Below(r, c) = Below(q, c)
        BY ONLY <4>1, BelowSame
      <4> QED BY <4>2, <4>3, <4>4
    <3> HIDE DEF w
    <3>7. d.scopes = Pushed(n, w) /\ f = [symbols |-> d.symbols, scopes |-> w]
      <4> DEFINE symbols == Filled(q, c, q.symbolPost.items) \o Below(q, c)
      <4>1. d = [symbols |-> symbols, scopes |-> Pushed(n, w)] /\ f = [symbols |-> symbols, scopes |-> w]
        BY <3>3, <3>4, <3>5, <3>6
      <4> HIDE DEF symbols, d, f
      <4> QED BY <4>1
    <3> HIDE DEF d, f
    <3>8. Leaving(d) = {f}
      <4>1. /\ d \in EveryStack /\ w \in Seq(ExportedScopes) /\ d.scopes = Pushed(n, w)
            /\ f = Concrete(d.symbols, w)
        BY <3>2, <3>3, <3>7 DEF Concrete
      <4>2. LeavesWith(q.end, n, d, w)
        BY <4>1, LeaveToTop
      <4> QED BY <4>1, <4>2 DEF LeavesWith
    <3>9. VisitConcretely(n, f) = {f}
      BY <1>3, <3>2, VisitCases
    <3>10. walked = {d} /\ ApplyPath(r, c) = {f}
      BY <2>3, <3>1
    <3> HIDE DEF Leaving, walked
    <3>11. \A x : x \in Walk(Append(t, n), c) <=> x \in VisitConcretely(n, f)
      BY <2>4, <3>8, <3>10
    <3>12. \A x : x \in Walk(NodesOf(r), c) <=> x \in {f}
      BY <2>2, <3>9, <3>11
    <3> QED BY <3>10, <3>12
  <2> QED BY <2>5, <2>6
<1>5. ASSUME NEW c \in EveryStack PROVE ApplyPath(r, c) = Walk(NodesOf(r), c)
  <2> DEFINE a == ApplyPath(r, c)
             b == Walk(NodesOf(r), c)
  <2>1. \A x : x \in a <=> x \in b
    BY <1>4, <1>5
  <2> HIDE DEF a, b
  <2>2. a = b
    BY <2>1
  <2> QED BY <2>2 DEF a, b
<1> QED BY <1>5 DEF Meaning, Means

-----------------------------------------------------------------------------
(* What the ends of a path show of its first and its last node. *)

FitsAfter(p, n, q) ==
  /\ q.symbolPre = p.symbolPre \/ \E x : q.symbolPre = PushBack(p.symbolPre, x)
  /\ 1 \in ScopeVariablesPost(q) => 1 \in ScopeVariablesPost(p)
  /\ KindOf[n] \in Pushes => q.symbolPost.items # <<>> /\ q.symbolPost.items[1].symbol = SymbolOf[n]

LEMMA MadeFields ==
  ASSUME NEW p, NEW pre, NEW post, NEW scopes, NEW q, q = Made(p, pre, post, scopes)
  PROVE  /\ q.symbolPre = pre /\ q.symbolPost = post /\ q.scopePost = scopes
         /\ ScopeVariablesPost(q) = ScopeVariables(post) \cup {scopes.variable}
  BY DEF Made, ScopeVariablesPost

LEMMA FitsPush ==
  ASSUME NEW p, Open(p), NEW n, NEW x \in StackSymbols, AtMostOne(x.scopes), x.symbol = SymbolOf[n],
         \A s \in x.scopes : s.variable = p.scopePost.variable,
         NEW q, q = Made(p, p.symbolPre, PushFront(x, p.symbolPost), p.scopePost)
  PROVE  FitsAfter(p, n, q)
<1> DEFINE items == p.symbolPost.items
           post == PushFront(x, p.symbolPost)
<1>1. p.symbolPost = Stack(items, 1) /\ items \in Seq(StackSymbols) /\ OptionsIn(p.symbolPost)
  BY OpenStacks, PostOf
<1> HIDE DEF items
<1>2. post = Stack(Pushed(x, items), 1)
  BY <1>1, StackPushed
<1> HIDE DEF post
<1>3. ScopeVariables(post) = {s.variable : s \in x.scopes} \cup ScopeVariables(p.symbolPost)
  BY <1>1, <1>2, PushTyped
<1>4. Pushed(x, items) # <<>> /\ Pushed(x, items)[1] = x
  BY <1>1, PushedTop
<1>5. post.items = Pushed(x, items)
  BY <1>2 DEF Stack
<1>6. /\ q.symbolPre = p.symbolPre /\ q.symbolPost = post /\ q.scopePost = p.scopePost
      /\ ScopeVariablesPost(q) = ScopeVariables(post) \cup {p.scopePost.variable}
  BY MadeFields DEF post
<1>7. 1 \in ScopeVariablesPost(q) => 1 \in ScopeVariablesPost(p)
  BY <1>3, <1>6 DEF ScopeVariablesPost
<1> QED BY <1>4, <1>5, <1>6, <1>7 DEF FitsAfter

LEMMA FitsPop ==
  ASSUME NEW p, Open(p), NEW n, KindOf[n] \notin Pushes, p.symbolPost.items # <<>>,
         NEW t, t.variable = p.scopePost.variable \/ t \in p.symbolPost.items[1].scopes,
         NEW q, q = Made(p, p.symbolPre, DropFront(p.symbolPost, 1), t)
  PROVE  FitsAfter(p, n, q)
<1> DEFINE items == p.symbolPost.items
           post == DropFront(p.symbolPost, 1)
<1>1. p.symbolPost = Stack(items, 1) /\ items \in Seq(StackSymbols) /\ OptionsIn(p.symbolPost)
  BY OpenStacks, PostOf
<1>2. t.variable = p.scopePost.variable \/ t \in items[1].scopes
  OBVIOUS
<1>3. items # <<>>
  OBVIOUS
<1>4. post = DropFront(Stack(items, 1), 1)
  BY <1>1
<1> HIDE DEF items, post
<1>5. /\ ScopeVariables(post) \subseteq ScopeVariables(p.symbolPost)
      /\ {s.variable : s \in items[1].scopes} \subseteq ScopeVariables(p.symbolPost)
  BY <1>1, <1>3, <1>4, PopTyped
<1>6. /\ q.symbolPre = p.symbolPre
      /\ ScopeVariablesPost(q) = ScopeVariables(post) \cup {t.variable}
  BY MadeFields DEF post
<1>7. 1 \in ScopeVariablesPost(q) => 1 \in ScopeVariablesPost(p)
  BY <1>2, <1>5, <1>6 DEF ScopeVariablesPost
<1> QED BY <1>6, <1>7 DEF FitsAfter

LEMMA VisitFits ==
  ASSUME NEW p, Open(p), NEW n \in Nodes, NEW q \in Visit(n, p)
  PROVE  FitsAfter(p, n, q)
<1>0. VisitEffects(p, n, q)
  BY VisitsAre
<1>1. CASE KindOf[n] = "drop scopes"
  <2>1. q = Made(p, p.symbolPre, p.symbolPost, EmptyStack)
    BY <1>0, <1>1 DEF VisitEffects
  <2>2. EmptyStack.variable = 0 /\ KindOf[n] \notin Pushes
    BY <1>1 DEF EmptyStack, Stack, Pushes
  <2> QED BY <2>1, <2>2, MadeFields DEF FitsAfter, ScopeVariablesPost
<1>2. CASE KindOf[n] = "push symbol"
  <2> DEFINE x == [symbol |-> SymbolOf[n], scopes |-> {}]
  <2>1. q = Made(p, p.symbolPre, PushFront(x, p.symbolPost), p.scopePost)
    BY <1>0, <1>2 DEF VisitEffects
  <2>2. x \in StackSymbols /\ x.symbol = SymbolOf[n] /\ x.scopes = {} /\ AtMostOne(x.scopes)
    BY <1>2, KindIs DEF StackSymbols, Pushes, AtMostOne
  <2> HIDE DEF x
  <2> QED BY <2>1, <2>2, FitsPush
<1>3. CASE KindOf[n] = "push scoped symbol"
  <2> DEFINE st == PushFront(ScopeOf[n], p.scopePost)
             x == [symbol |-> SymbolOf[n], scopes |-> {st}]
  <2>1. ScopeOf[n] \in Nodes /\ q = Made(p, p.symbolPre, PushFront(x, p.symbolPost), p.scopePost)
    BY <1>0, <1>3 DEF VisitEffects
  <2>2. ScopeOf[n] \in ExportedScopes
    BY <1>3, <2>1, KindIs
  <2>3. st \in ScopeStacks /\ st.variable = p.scopePost.variable
    <3>1. p.scopePost \in ScopeStacks
      BY PostKnown
    <3> DEFINE a == ScopeOf[n]
               scopes == p.scopePost
    <3>2. a \in ExportedScopes /\ scopes \in ScopeStacks
      BY <2>2, <3>1
    <3> HIDE DEF a, scopes
    <3>3. PushFront(a, scopes) \in ScopeStacks /\ PushFront(a, scopes).variable = scopes.variable
      BY <3>2, ScopePushed
    <3> QED BY <3>3 DEF a, scopes
  <2> HIDE DEF st
  <2>4. x \in StackSymbols /\ x.symbol = SymbolOf[n] /\ x.scopes = {st} /\ AtMostOne(x.scopes)
    BY <1>3, <2>3, KindIs DEF StackSymbols, Pushes, AtMostOne
  <2>5. \A s \in x.scopes : s.variable = p.scopePost.variable
    BY <2>3, <2>4
  <2>6. q = Made(p, p.symbolPre, PushFront(x, p.symbolPost), p.scopePost)
    BY <2>1
  <2> HIDE DEF x
  <2> QED BY <2>4, <2>5, <2>6, FitsPush
<1>4. CASE KindOf[n] = "pop symbol" /\ p.symbolPost.items # <<>>
  <2>1. q = Made(p, p.symbolPre, DropFront(p.symbolPost, 1), p.scopePost)
    BY <1>0, <1>4 DEF VisitEffects
  <2>2. KindOf[n] \notin Pushes
    BY <1>4 DEF Pushes
  <2> QED BY <1>4, <2>1, <2>2, FitsPop
<1>5. CASE KindOf[n] = "pop scoped symbol" /\ p.symbolPost.items # <<>>
  <2> DEFINE scopes == p.symbolPost.items[1].scopes
             t == The(scopes)
  <2>1. q = Made(p, p.symbolPre, DropFront(p.symbolPost, 1), t) /\ scopes # {}
    BY <1>0, <1>5 DEF VisitEffects
  <2>2. KindOf[n] \notin Pushes
    BY <1>5 DEF Pushes
  <2>3. t \in scopes
    <3> HIDE DEF scopes
    <3> QED BY <2>1 DEF The
  <2>4. t \in p.symbolPost.items[1].scopes
    BY <2>3
  <2> HIDE DEF t
  <2> QED BY <1>5, <2>1, <2>2, <2>4, FitsPop
<1>6. CASE KindOf[n] = "pop symbol" /\ p.symbolPost.items = <<>>
  <2> DEFINE x == [symbol |-> SymbolOf[n], scopes |-> {}]
             pre == PushBack(p.symbolPre, x)
  <2>1. q = Made(p, pre, p.symbolPost, p.scopePost)
    BY <1>0, <1>6 DEF VisitEffects
  <2>2. KindOf[n] \notin Pushes
    BY <1>6 DEF Pushes
  <2> HIDE DEF x
  <2>3. q.symbolPre = pre /\ ScopeVariablesPost(q) = ScopeVariables(p.symbolPost) \cup {p.scopePost.variable}
    BY <2>1, MadeFields
  <2> QED BY <2>2, <2>3 DEF FitsAfter, ScopeVariablesPost
<1>7. CASE KindOf[n] = "pop scoped symbol" /\ p.symbolPost.items = <<>>
  <2> DEFINE new == FromVariable(FreshScopeVariable(p))
             x == [symbol |-> SymbolOf[n], scopes |-> {new}]
             pre == PushBack(p.symbolPre, x)
  <2>1. q = Made(p, pre, p.symbolPost, new)
    BY <1>0, <1>7 DEF VisitEffects
  <2>2. KindOf[n] \notin Pushes
    BY <1>7 DEF Pushes
  <2>3. new.variable # 1
    BY FreshIsNew DEF FromVariable, Stack
  <2> HIDE DEF x, new
  <2>4. q.symbolPre = pre /\ ScopeVariablesPost(q) = ScopeVariables(p.symbolPost) \cup {new.variable}
    BY <2>1, MadeFields
  <2> QED BY <2>2, <2>3, <2>4 DEF FitsAfter, ScopeVariablesPost
<1>8. CASE KindOf[n] \in {"root", "jump to", "scope"}
  BY <1>0, <1>8 DEF VisitEffects, FitsAfter, Pushes
<1>9. KindOf[n] \in Kinds
  BY KindIs
<1> QED BY <1>1, <1>2, <1>3, <1>4, <1>5, <1>6, <1>7, <1>8, <1>9 DEF Kinds, Pushes, Pops

LEMMA StartKept ==
  ASSUME NEW p, Open(p), StartFits(p), NEW r, r.start = p.start, NodesOf(r)[1] = NodesOf(p)[1],
         r.symbolPre = p.symbolPre \/ \E x : r.symbolPre = PushBack(p.symbolPre, x),
         1 \in ScopeVariablesPost(r) => 1 \in ScopeVariablesPost(p)
  PROVE  StartFits(r)
<1> DEFINE items == p.symbolPre.items
           left == r.symbolPre.items
<1>1. IsSequence(items) /\ p.symbolPre = Stack(items, 1)
  BY OpenStacks
<1>2. items # <<>> => left # <<>> /\ left[1] = items[1]
  <2>1. CASE r.symbolPre = p.symbolPre
    BY <2>1
  <2>2. ASSUME NEW x, r.symbolPre = PushBack(p.symbolPre, x), items # <<>>
        PROVE  left # <<>> /\ left[1] = items[1]
    <3> DEFINE more == Append(items, x)
    <3>1. r.symbolPre = Stack(more, 1)
      <4> HIDE DEF items
      <4> QED BY <1>1, <2>2, StackBack
    <3>2. left = more
      BY <3>1 DEF Stack
    <3>3. /\ Len(more) = Len(items) + 1
          /\ \A i \in 1..Len(items) : more[i] = items[i]
      BY <1>1, AppendIs
    <3>4. Len(items) \in Nat /\ Len(items) # 0
      <4>1. Len(items) \in Nat /\ items \in Seq(ToSet(items))
        BY <1>1, SequenceIs
      <4> HIDE DEF items
      <4> QED BY <2>2, <4>1, EmptySeq
    <3>5. more # <<>>
      <4> HIDE DEF more
      <4> QED BY <3>3, <3>4, EmptyIs
    <3>6. 1 \in 1..Len(items)
      BY ONLY <3>4
    <3> HIDE DEF more, left, items
    <3> QED BY <3>2, <3>3, <3>5, <3>6
  <2> QED BY <2>1, <2>2
<1>3. KindOf[p.start] \in Pops =>
         /\ items # <<>> /\ items[1].symbol = SymbolOf[p.start]
         /\ (items[1].scopes # {}) = (KindOf[p.start] \in Scoped)
  BY DEF StartFits
<1>4. KindOf[p.start] \in Pops =>
         /\ left # <<>> /\ left[1].symbol = SymbolOf[p.start]
         /\ (left[1].scopes # {}) = (KindOf[p.start] \in Scoped)
  <2> HIDE DEF left, items
  <2> QED BY <1>2, <1>3
<1> QED BY <1>4 DEF StartFits

(* A path to which a node was added, before a jump is resolved. *)
LEMMA EdgeVisited ==
  ASSUME NEW p, Open(p), StartFits(p), Meaning(p), KindOf[p.end] # "jump to",
         NEW n \in Nodes, NEW q \in Visit(n, p), NEW e \in PathEdges, e.source = p.end
  PROVE  LET r == Longer(q, n, e)
         IN  /\ r \in Paths /\ Open(r) /\ StartFits(r) /\ Meaning(r)
             /\ HalfOpens(r.symbolPost, n, Pushes) /\ r.end = n /\ r.start = p.start
<1> DEFINE r == Longer(q, n, e)
           edges == Append(q.edges, e)
<1>1. OpenAfter(p, q, n) /\ q = Made(p, q.symbolPre, q.symbolPost, q.scopePost)
  BY VisitOpen
<1>2. /\ Open(q)
      /\ \A c \in EveryStack : ApplyPath(q, c) = UNION {VisitConcretely(n, d) : d \in ApplyPath(p, c)}
  BY <1>1 DEF OpenAfter
<1>3. q \in Paths /\ p \in Paths
  BY <1>2, OpenIs
<1>4. q.start = p.start /\ q.edges = p.edges
  <2> DEFINE x == q.symbolPre
             y == q.symbolPost
             z == q.scopePost
  <2>1. q = Made(p, x, y, z)
    BY <1>1
  <2> HIDE DEF x, y, z
  <2> QED BY ONLY <2>1 DEF Made
<1>5. r = With(q, n, edges, q.scopePost)
  BY <1>3, LongerIs
<1>6. r \in Paths
  BY <1>2, <1>3, <1>5, PostKnown, WithTyped
<1> HIDE DEF r, edges
<1>7. /\ r.start = q.start /\ r.end = n /\ r.edges = edges /\ r.symbolPre = q.symbolPre
      /\ r.symbolPost = q.symbolPost /\ r.scopePre = q.scopePre /\ r.scopePost = q.scopePost
  BY ONLY <1>5 DEF With
<1>8. Open(r) /\ \A c \in EveryStack : ApplyPath(r, c) = ApplyPath(q, c)
  BY <1>2, <1>6, <1>7, SameStacks
<1>9. r.edges = Append(p.edges, e)
  BY <1>4, <1>7 DEF edges
<1>10. \A c \in EveryStack : ApplyPath(r, c) = UNION {VisitConcretely(r.end, d) : d \in ApplyPath(p, c)}
  <2> DEFINE U(c, m) == UNION {VisitConcretely(m, d) : d \in ApplyPath(p, c)}
  <2>1. \A c \in EveryStack : ApplyPath(q, c) = U(c, n)
    BY <1>2
  <2> HIDE DEF U
  <2>2. \A c \in EveryStack : ApplyPath(r, c) = U(c, r.end)
    BY <1>7, <1>8, <2>1
  <2> QED BY <2>2 DEF U
<1>11. Meaning(r)
  BY <1>6, <1>9, <1>10, MeaningLonger
<1>12. NodesOf(r)[1] = NodesOf(p)[1]
  BY <1>3, <1>6, <1>9, NodesLonger
<1>13. FitsAfter(p, n, q)
  BY VisitFits
<1>14. StartFits(r)
  <2>1. r.symbolPre = p.symbolPre \/ \E x : r.symbolPre = PushBack(p.symbolPre, x)
    BY <1>7, <1>13 DEF FitsAfter
  <2>2. 1 \in ScopeVariablesPost(r) => 1 \in ScopeVariablesPost(p)
    BY <1>7, <1>13 DEF FitsAfter, ScopeVariablesPost
  <2> QED BY <1>4, <1>7, <1>12, <2>1, <2>2, StartKept
<1>15. HalfOpens(r.symbolPost, n, Pushes)
  BY <1>7, <1>13 DEF FitsAfter, HalfOpens, Pushes, CanMatchEmpty
<1> QED BY <1>4, <1>6, <1>7, <1>8, <1>11, <1>14, <1>15 DEF r

LEMMA ResolvedIs ==
  ASSUME NEW r, NEW x \in ResolveFromPostcondition(r)
  PROVE  \/ KindOf[r.end] # "jump to" /\ x = r
         \/ KindOf[r.end] = "jump to" /\ r.scopePost.items = <<>> /\ x = r
         \/ /\ KindOf[r.end] = "jump to" /\ r.scopePost.items # <<>>
            /\ x = Jumped(r, r.scopePost.items[1], PathEdge(r.end, 0))
  BY DEF ResolveFromPostcondition, CanMatchEmpty, Jumped

LEMMA ResolvedMade ==
  ASSUME NEW r, Open(r), StartFits(r), Meaning(r), HalfOpens(r.symbolPost, r.end, Pushes),
         NEW x \in ResolveFromPostcondition(r)
  PROVE  MadeOfEdges(x, EveryStack)
<1>1. CASE KindOf[r.end] # "jump to" /\ x = r
  BY <1>1 DEF MadeOfEdges, EndFits, Meaning
<1>2. CASE KindOf[r.end] = "jump to" /\ r.scopePost.items = <<>> /\ x = r
  BY <1>2 DEF MadeOfEdges, EndFits, Meaning
<1>3. CASE /\ KindOf[r.end] = "jump to" /\ r.scopePost.items # <<>>
           /\ x = Jumped(r, r.scopePost.items[1], PathEdge(r.end, 0))
  <2> DEFINE e == PathEdge(r.end, 0)
             v == r.scopePost.variable
  <2>1. r \in Paths /\ r.end \in Nodes
    <3>1. r \in Paths
      BY OpenIs
    <3> QED BY <3>1 DEF Paths
  <2>2. e \in PathEdges /\ e.source = r.end
    BY <2>1 DEF PathEdges, PathEdge
  <2>3. x = Jumped(r, r.scopePost.items[1], e)
    BY <1>3
  <2> HIDE DEF e
  <2>4. \E n \in ExportedScopes : \E s \in Seq(ExportedScopes) :
           /\ r.scopePost.items[1] = n /\ r.scopePost = Stack(Pushed(n, s), r.scopePost.variable)
           /\ Jumped(r, n, e) = With(r, n, Append(r.edges, e), Stack(s, r.scopePost.variable))
           /\ Jumped(r, n, e) \in Paths /\ Open(Jumped(r, n, e))
    BY <1>3, <2>2, JumpIs
  <2>5. PICK n \in ExportedScopes : \E s \in Seq(ExportedScopes) :
           /\ r.scopePost.items[1] = n /\ r.scopePost = Stack(Pushed(n, s), v)
           /\ Jumped(r, n, e) = With(r, n, Append(r.edges, e), Stack(s, v))
           /\ Jumped(r, n, e) \in Paths /\ Open(Jumped(r, n, e))
    BY <2>4
  <2>6. PICK s \in Seq(ExportedScopes) :
           /\ r.scopePost.items[1] = n /\ r.scopePost = Stack(Pushed(n, s), v)
           /\ Jumped(r, n, e) = With(r, n, Append(r.edges, e), Stack(s, v))
           /\ Jumped(r, n, e) \in Paths /\ Open(Jumped(r, n, e))
    BY <2>5
  <2> DEFINE edges == Append(r.edges, e)
             st == Stack(s, v)
  <2>7. x = With(r, n, edges, st) /\ x \in Paths /\ Open(x)
    BY <2>3, <2>6
  <2>8. Meaning(x)
    BY <1>3, <2>2, <2>6, <2>7, MeaningJumped
  <2> HIDE DEF edges, st
  <2>9. /\ x.start = r.start /\ x.end = n /\ x.edges = edges /\ x.symbolPre = r.symbolPre
        /\ x.symbolPost = r.symbolPost /\ x.scopePost = st
    BY ONLY <2>7 DEF With
  <2>10. NodesOf(x)[1] = NodesOf(r)[1]
    BY <2>1, <2>2, <2>7, <2>9, NodesLonger DEF edges
  <2>11. st.variable = r.scopePost.variable
    BY DEF st, Stack
  <2>12. StartFits(x)
    <3>1. 1 \in ScopeVariablesPost(x) => 1 \in ScopeVariablesPost(r)
      BY <2>9, <2>11 DEF ScopeVariablesPost
    <3> QED BY <2>9, <2>10, <3>1, StartKept
  <2>13. KindOf[n] = "scope"
    BY ExportedIs
  <2>14. EndFits(x)
    BY <2>9, <2>13 DEF EndFits, HalfOpens, Pushes
  <2> QED BY <2>7, <2>8, <2>12, <2>14 DEF MadeOfEdges, Meaning
<1> QED BY <1>1, <1>2, <1>3, ResolvedIs

GraphEdges == [source : {n \in Nodes : KindOf[n] # "jump to"}, sink : Nodes, precedence : Nat]

(* An edge that is appended to what it leaves. *)
LEMMA EdgeAppended ==
  ASSUME NEW p, MadeOfEdges(p, EveryStack), NEW e \in GraphEdges, e.source = p.end,
         NEW r \in AppendEdgeResolved(e, p)
  PROVE  MadeOfEdges(r, EveryStack)
<1>1. KindOf[p.end] # "jump to" /\ e.sink \in Nodes /\ e.source \in Nodes /\ e.precedence \in Nat
  BY DEF GraphEdges
<1>2. ResolveToNode(e.source, p) = {p}
  BY <1>1 DEF ResolveToNode
<1>3. r \in AppendEdge(e, p)
  BY <1>2 DEF AppendEdgeResolved
<1> DEFINE n == e.sink
           edge == PathEdge(e.source, e.precedence)
<1>4. edge \in PathEdges /\ edge.source = p.end
  BY <1>1 DEF PathEdges, PathEdge
<1>5. PICK q \in Visit(n, p) : r \in ResolveFromPostcondition(Longer(q, n, edge))
  BY <1>3 DEF AppendEdge, Longer
<1>6. n \in Nodes
  BY <1>1
<1>7. Open(p) /\ StartFits(p) /\ Meaning(p)
  BY DEF MadeOfEdges, Meaning
<1> HIDE DEF n, edge
<1> DEFINE x == Longer(q, n, edge)
<1>8. /\ x \in Paths /\ Open(x) /\ StartFits(x) /\ Meaning(x)
      /\ HalfOpens(x.symbolPost, n, Pushes) /\ x.end = n /\ x.start = p.start
  BY <1>1, <1>4, <1>6, <1>7, EdgeVisited
<1>9. r \in ResolveFromPostcondition(x)
  BY <1>5
<1> HIDE DEF x
<1> QED BY <1>8, <1>9, ResolvedMade

-----------------------------------------------------------------------------
(* Paths from a node. *)

Alone(n) ==
  [start |-> n, end |-> n, edges |-> <<>>,
   symbolPre |-> FromVariable(1), symbolPost |-> FromVariable(1),
   scopePre |-> FromVariable(1), scopePost |-> FromVariable(1)]

LEMMA AloneIs ==
  ASSUME NEW n \in Nodes
  PROVE  /\ Open(Alone(n)) /\ Alone(n) \in Paths
         /\ Alone(n).symbolPre = FromVariable(1) /\ Alone(n).symbolPost = FromVariable(1)
         /\ Alone(n).scopePre = FromVariable(1) /\ Alone(n).scopePost = FromVariable(1)
         /\ Alone(n).start = n /\ Alone(n).end = n /\ Alone(n).edges = <<>>
         /\ FromVariable(1).items = <<>> /\ FromVariable(1).variable = 1
         /\ ScopeVariablesPost(Alone(n)) = {1}
<1> DEFINE p == Alone(n)
           st == FromVariable(1)
<1>1. st = Stack(<<>>, 1) /\ st.items = <<>> /\ st.variable = 1
  BY DEF FromVariable, Stack
<1>2. st \in ScopeStacks /\ st \in SymbolStacks
  <2>1. <<>> \in Seq(ExportedScopes) /\ <<>> \in Seq(StackSymbols)
    BY EmptySeq
  <2>2. 1 \in Nat
    OBVIOUS
  <2> QED BY <1>1, <2>1, <2>2, StackMade
<1> HIDE DEF st
<1>3. /\ p.symbolPre = st /\ p.symbolPost = st /\ p.scopePre = st /\ p.scopePost = st
      /\ p.start = n /\ p.end = n /\ p.edges = <<>>
  BY DEF Alone, st
<1>4. p \in Paths
  <2>1. <<>> \in Seq(PathEdges)
    BY EmptySeq
  <2> DEFINE E == Seq([source : Nodes, precedence : Nat])
             none == <<>>
  <2>2. none \in E
    BY <2>1 DEF PathEdges
  <2>3. p = [start |-> n, end |-> n, edges |-> none, symbolPre |-> st, symbolPost |-> st,
             scopePre |-> st, scopePost |-> st]
    BY DEF Alone, st
  <2> HIDE DEF E, none
  <2>4. p \in [start : Nodes, end : Nodes, edges : E, symbolPre : SymbolStacks,
               symbolPost : SymbolStacks, scopePre : ScopeStacks, scopePost : ScopeStacks]
    BY <1>2, <2>2, <2>3
  <2> QED BY <2>4 DEF Paths, E
<1> HIDE DEF p
<1>5. DOMAIN <<>> = {}
  BY EmptyIs
<1>6. DOMAIN st.items = {}
  BY <1>1, <1>5
<1>7. ScopeVariables(st) = {}
  BY <1>6 DEF ScopeVariables
<1>8. ScopeVariablesPost(p) = {1}
  BY <1>1, <1>3, <1>7 DEF ScopeVariablesPost
<1>9. Open(p)
  <2>1. OptionsIn(p.symbolPre) /\ OptionsIn(p.symbolPost)
    BY <1>3, <1>6 DEF OptionsIn
  <2>2. p.scopePre = FromVariable(1)
    BY <1>3 DEF st
  <2>3. ScopeVariablesPost(p) \ {0, 1} = {}
    BY <1>8
  <2> QED BY <1>1, <1>3, <1>4, <1>6, <2>1, <2>2, <2>3 DEF Open
<1> QED BY <1>1, <1>3, <1>4, <1>8, <1>9 DEF p, st

LEMMA AloneMeans ==
  ASSUME NEW n \in Nodes, NEW c \in EveryStack
  PROVE  ApplyPath(Alone(n), c) = {c}
<1> DEFINE p == Alone(n)
           pre == p.symbolPre.items
<1>1. Open(p) /\ pre = <<>> /\ p.symbolPost.items = <<>> /\ p.scopePost = FromVariable(1)
  BY AloneIs
<1>2. FromVariable(1).items = <<>> /\ FromVariable(1).variable = 1
  BY AloneIs
<1>3. Len(pre) = 0 /\ IsSequence(pre)
  BY <1>1, EmptyIs
<1>4. c.symbols \in Seq(ConcreteSymbols) /\ c.scopes \in Seq(ExportedScopes) /\ Len(c.symbols) \in Nat
      /\ c = [symbols |-> c.symbols, scopes |-> c.scopes]
  BY ConcreteIs, StacksExcept
<1> HIDE DEF p, pre
<1>5. Has(pre, c.symbols)
  BY <1>3, <1>4 DEF Has
<1>6. ApplyPath(p, c) = {ResultOf(p, c)}
  BY <1>1, <1>5, ApplyIs DEF pre
<1>7. Below(p, c) = c.symbols
  <2>1. Below(p, c) = SubSeq(c.symbols, 1, Len(c.symbols))
    BY <1>3 DEF Below, pre
  <2> DEFINE s == c.symbols
  <2>2. s \in Seq(ConcreteSymbols)
    BY <1>4
  <2> HIDE DEF s
  <2>3. SubSeq(s, 1, Len(s)) = s
    BY <2>2
  <2> QED BY <2>1, <2>3 DEF s
<1>8. ResultOf(p, c) = [symbols |-> Below(p, c), scopes |-> Fill(p, c, p.scopePost)]
  BY <1>1, ResultBelow
<1>9. ScopesFor(p, c, 1) = c.scopes
  BY <1>1, <1>5, ScopesForIs DEF pre
<1>10. Fill(p, c, p.scopePost) = c.scopes
  <2>1. Fill(p, c, p.scopePost) = <<>> \o c.scopes
    BY <1>1, <1>2, <1>9 DEF Fill
  <2> QED BY <1>4, <2>1, ConcatEmptySeq
<1> QED BY <1>4, <1>6, <1>7, <1>8, <1>10 DEF p

(* A visit of what is alone cannot fail, if paths may start there. *)
LEMMA AloneVisited ==
  ASSUME NEW n \in Nodes, Endpoint(n)
  PROVE  FromNode(n) \in Visit(n, Alone(n))
<1> DEFINE p == Alone(n)
<1>1. FromNode(n) = The(Visit(n, p))
  BY DEF FromNode, Alone
<1>2. p.symbolPost.items = <<>> /\ p.symbolPost.variable = 1
  BY AloneIs
<1> HIDE DEF p
<1>3. KindOf[n] = "push scoped symbol" => ScopeOf[n] \in Nodes
  BY NodesAssumption DEF Endpoint, Pops, Pushes
<1>4. Visit(n, p) # {}
  <2>1. CASE KindOf[n] = "push symbol"
    BY <2>1 DEF Visit, Pushes, Pops, Scoped
  <2>2. CASE KindOf[n] = "push scoped symbol"
    BY <1>3, <2>2 DEF Visit, Pushes, Pops, Scoped
  <2>3. CASE KindOf[n] \in Pops
    <3> DEFINE attached == FromVariable(FreshScopeVariable(p))
               x == [p EXCEPT !.symbolPre = PushBack(@, ScopedSymbol(SymbolOf[n],
                                                IF KindOf[n] \in Scoped THEN {attached} ELSE {})),
                              !.scopePost = IF KindOf[n] \in Scoped THEN attached ELSE @]
               result == Visit(n, p)
    <3>1. CanMatchEmpty(p.symbolPost) /\ p.symbolPost.variable # 0
      BY <1>2 DEF CanMatchEmpty
    <3>2. KindOf[n] # "drop scopes" /\ KindOf[n] \notin Pushes
      BY <2>3 DEF Pops, Pushes
    <3>3. result = {x}
      BY <2>3, <3>1, <3>2 DEF Visit
    <3> HIDE DEF result, x
    <3>4. result # {}
      BY <3>3
    <3> QED BY <3>4 DEF result
  <2>4. CASE KindOf[n] \notin Pushes \cup Pops
    BY <2>4 DEF Visit, Pushes, Pops
  <2> QED BY <2>1, <2>2, <2>3, <2>4 DEF Pushes
<1> QED BY <1>1, <1>4 DEF The, p

-----------------------------------------------------------------------------
LEMMA EndpointIs ==
  ASSUME NEW n \in Nodes, Endpoint(n)
  PROVE  KindOf[n] # "jump to"
BY NodesAssumption DEF Endpoint, Pushes, Pops

(* The first node of a path is in the precondition if it pops. *)
LEMMA AloneFits ==
  ASSUME NEW n \in Nodes, Endpoint(n), NEW q, q \in Visit(n, Alone(n)),
         q.start = n, NodesOf(q)[1] = n
  PROVE  StartFits(q)
<1> DEFINE p == Alone(n)
           attached == FromVariable(FreshScopeVariable(p))
           x == [symbol |-> SymbolOf[n], scopes |-> {}]
           y == [symbol |-> SymbolOf[n], scopes |-> {attached}]
<1>1. Open(p) /\ p.symbolPost.items = <<>> /\ p.symbolPre.items = <<>> /\ p.symbolPost = FromVariable(1)
      /\ p.symbolPre = Stack(<<>>, 1)
  BY AloneIs, OpenStacks
<1>2. VisitEffects(p, n, q)
  BY <1>1, VisitsAre
<1>3. KindOf[n] # "jump to"
  BY EndpointIs
<1>4. FreshScopeVariable(p) \in Nat /\ FreshScopeVariable(p) \notin {0, 1}
  BY <1>1, FreshIsNew
<1>5. ScopeVariables(p.symbolPost) = {}
  <2>1. DOMAIN p.symbolPost.items = {}
    BY <1>1, EmptyIs
  <2> QED BY <2>1 DEF ScopeVariables
<1> HIDE DEF p
<1>6. \A z : PushBack(p.symbolPre, z) = Stack(<<z>>, 1)
  <2> TAKE z
  <2>1. PushBack(p.symbolPre, z) = Stack(Append(<<>>, z), 1)
    <3> DEFINE e == <<>>
               st == p.symbolPre
    <3>1. st = Stack(e, 1)
      BY <1>1
    <3> HIDE DEF e, st
    <3>2. PushBack(Stack(e, 1), z) = Stack(Append(e, z), 1)
      BY StackBack
    <3>3. PushBack(st, z) = Stack(Append(e, z), 1)
      BY <3>1, <3>2
    <3> QED BY <3>3 DEF e, st
  <2> QED BY <2>1
<1>7. \A z : <<z>> # <<>> /\ <<z>>[1] = z /\ PushBack(p.symbolPre, z).items = <<z>>
  <2> TAKE z
  <2> DEFINE w == <<z>>
             st == PushBack(p.symbolPre, z)
  <2>3. st = Stack(w, 1)
    BY <1>6
  <2> HIDE DEF w, st
  <2>4. st.items = w
    BY <2>3 DEF Stack
  <2>1. PushBack(p.symbolPre, z).items = <<z>>
    BY <2>4 DEF w, st
  <2>2. <<z>> # <<>> /\ <<z>>[1] = z
    BY OneIs, EmptyIs
  <2> QED BY <2>1, <2>2
<1>8. CASE KindOf[n] = "pop symbol"
  <2>1. q = Made(p, PushBack(p.symbolPre, x), p.symbolPost, p.scopePost)
    BY <1>1, <1>2, <1>8 DEF VisitEffects
  <2> HIDE DEF x
  <2>2. q.symbolPre = PushBack(p.symbolPre, x)
    BY <2>1, MadeFields
  <2>3. q.symbolPre.items # <<>> /\ q.symbolPre.items[1] = x
    BY <1>7, <2>2
  <2>4. x.symbol = SymbolOf[n] /\ x.scopes = {}
    BY DEF x
  <2>5. KindOf[n] \notin Scoped
    BY <1>8 DEF Scoped
  <2>6. ~(q.symbolPre.items[1].scopes # {}) /\ ~(KindOf[q.start] \in Scoped)
    BY <2>3, <2>4, <2>5
  <2>7. (q.symbolPre.items[1].scopes # {}) = (KindOf[q.start] \in Scoped)
    BY <2>6
  <2>8. q.symbolPre.items[1].symbol = SymbolOf[q.start]
    BY <2>3, <2>4
  <2>9. KindOf[q.start] # "jump to" /\ KindOf[q.start] # "pop scoped symbol"
    BY <1>8
  <2> QED BY <2>3, <2>7, <2>8, <2>9 DEF StartFits
<1>9. CASE KindOf[n] = "pop scoped symbol"
  <2>1. q = Made(p, PushBack(p.symbolPre, y), p.symbolPost, attached)
    BY <1>1, <1>2, <1>9 DEF VisitEffects
  <2>2. attached.variable = FreshScopeVariable(p)
    BY DEF FromVariable, Stack
  <2>3. y.symbol = SymbolOf[n] /\ y.scopes # {}
    OBVIOUS
  <2> HIDE DEF y, attached
  <2>4. q.symbolPre = PushBack(p.symbolPre, y)
        /\ ScopeVariablesPost(q) = ScopeVariables(p.symbolPost) \cup {attached.variable}
    BY <2>1, MadeFields
  <2>5. q.symbolPre.items # <<>> /\ q.symbolPre.items[1] = y
    BY <1>7, <2>4
  <2>6. 1 \notin ScopeVariablesPost(q)
    BY <1>4, <1>5, <2>2, <2>4
  <2> QED BY <1>9, <2>3, <2>5, <2>6 DEF StartFits, Scoped
<1>10. CASE KindOf[n] \notin Pops
  BY <1>3, <1>10 DEF StartFits, Pops
<1> QED BY <1>8, <1>9, <1>10 DEF Pops

(* from_node gives a path that means what its node does. *)
LEMMA NodeMade ==
  ASSUME NEW n \in Nodes, Endpoint(n)
  PROVE  /\ MadeOfEdges(FromNode(n), EveryStack)
         /\ FromNode(n).start = n /\ FromNode(n).end = n /\ NodesOf(FromNode(n)) = <<n>>
         /\ FromNode(n).symbolPre.variable = 1 /\ FromNode(n).scopePre = FromVariable(1)
<1> DEFINE p == Alone(n)
           q == FromNode(n)
<1>1. q \in Visit(n, p)
  BY AloneVisited
<1>2. Open(p) /\ p.start = n /\ p.end = n /\ p.edges = <<>>
  BY AloneIs
<1>3. \A c \in EveryStack : ApplyPath(p, c) = {c}
  BY AloneMeans
<1> HIDE DEF p, q
<1>4. OpenAfter(p, q, n) /\ q = Made(p, q.symbolPre, q.symbolPost, q.scopePost)
  BY <1>1, <1>2, VisitOpen
<1>5. FitsAfter(p, n, q)
  BY <1>1, <1>2, VisitFits
<1>6. q.start = n /\ q.end = n /\ q.edges = <<>>
  <2> DEFINE x == q.symbolPre
             y == q.symbolPost
             z == q.scopePost
  <2>1. q = Made(p, x, y, z)
    BY <1>4
  <2> HIDE DEF x, y, z
  <2>2. q.start = p.start /\ q.end = p.end /\ q.edges = p.edges
    BY ONLY <2>1 DEF Made
  <2> QED BY <1>2, <2>2
<1>7. Open(q) /\ q \in Paths /\ q.symbolPre.variable = 1 /\ q.scopePre = FromVariable(1)
  BY <1>4, OpenIs DEF OpenAfter
<1>8. NodesOf(q) = <<n>>
  <2>1. /\ IsSequence(NodesOf(q)) /\ Len(NodesOf(q)) = Len(q.edges) + 1
        /\ NodesOf(q)[Len(NodesOf(q))] = n
    BY <1>6, <1>7, NodesOfIs
  <2>2. Len(NodesOf(q)) = 1
    BY <1>6, <2>1, EmptyIs
  <2>3. NodesOf(q)[1] = n
    BY <2>1, <2>2
  <2> DEFINE s == NodesOf(q)
             t == <<n>>
  <2>4. IsSequence(t) /\ Len(t) = 1 /\ t[1] = n
    BY OneIs
  <2>5. IsSequence(s) /\ Len(s) = 1 /\ s[1] = n
    BY <2>1, <2>2, <2>3
  <2> HIDE DEF s, t
  <2>6. \A i \in 1..Len(s) : s[i] = t[i]
    BY <2>4, <2>5
  <2>7. s = t
    BY <2>4, <2>5, <2>6, SameSequence
  <2> QED BY <2>7 DEF s, t
<1>9. NodesOf(q)[1] = n
  BY <1>8, OneIs
<1>10. \A c \in EveryStack : ApplyPath(q, c) = Walk(NodesOf(q), c)
  <2> TAKE c \in EveryStack
  <2>1. ApplyPath(q, c) = UNION {VisitConcretely(n, d) : d \in ApplyPath(p, c)}
    BY <1>4 DEF OpenAfter
  <2>2. UNION {VisitConcretely(n, d) : d \in {c}} = VisitConcretely(n, c)
    OBVIOUS
  <2>3. ApplyPath(q, c) = VisitConcretely(n, c)
    BY <1>3, <2>1, <2>2
  <2>4. Walk(<<n>>, c) = VisitConcretely(n, c)
    BY WalkOne
  <2> QED BY <1>8, <2>3, <2>4
<1>11. Means(q, EveryStack)
  BY <1>10 DEF Means
<1>12. StartFits(q)
  BY <1>1, <1>6, <1>9, AloneFits DEF p
<1>13. EndFits(q)
  BY <1>5, <1>6, EndpointIs DEF FitsAfter, EndFits, HalfOpens, Pushes, CanMatchEmpty
<1>14. MadeOfEdges(q, EveryStack)
  BY <1>7, <1>11, <1>12, <1>13 DEF MadeOfEdges
<1> QED BY <1>6, <1>7, <1>8, <1>14 DEF q
=============================================================================
