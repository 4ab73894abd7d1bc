---------------------------- MODULE Reader_proofs ----------------------------
(***************************************************************************)
(* What the reader loads for a node is what was stored of one content of a *)
(* file, each path once, and for a stack all that it asks for, but for     *)
(* what a failed call left: for any files, contents, paths and stacks, and *)
(* however others change the index meanwhile.                              *)
(***************************************************************************)
EXTENDS Reader, SequenceTheorems, FiniteSetTheorems, TLAPS

-----------------------------------------------------------------------------
(* Lookups by symbol stacks.                                                *)

LEMMA PrefixesAre ==
  ASSUME NEW s \in Seq(Symbols), NEW t \in Seq(Symbols)
  PROVE  /\ t # <<>> => (t \in NonemptyPrefixes(s) <=> IsPrefix(t, s))
         /\ t \in NonemptyPrefixes(s) => t # <<>>
         /\ IsPrefix(t, s) <=> Len(t) <= Len(s) /\ \A i \in 1..Len(t) : t[i] = s[i]
         /\ IsPrefix(t, s) /\ Len(t) = Len(s) => t = s
<1>1. /\ Len(s) \in Nat /\ Len(t) \in Nat
      /\ \A i \in 1..Len(s) : s[i] \in Symbols
      /\ t = <<>> <=> Len(t) = 0
  BY LenProperties, EmptySeq
<1>2. SubSeq(t, 1, Len(t)) = t
  BY SubSeqFull
<1>3. \A k \in 0..Len(s) :
        /\ SubSeq(s, 1, k) \in Seq(Symbols) /\ Len(SubSeq(s, 1, k)) = k
        /\ \A i \in 1..k : SubSeq(s, 1, k)[i] = s[i]
  <2> SUFFICES ASSUME NEW k \in 0..Len(s)
               PROVE  /\ SubSeq(s, 1, k) \in Seq(Symbols) /\ Len(SubSeq(s, 1, k)) = k
                      /\ \A i \in 1..k : SubSeq(s, 1, k)[i] = s[i]
    OBVIOUS
  <2>1. k \in Int /\ 1 \in Int /\ \A i \in 1..k : s[i] \in Symbols
    BY <1>1
  <2>2. /\ SubSeq(s, 1, k) \in Seq(Symbols)
        /\ Len(SubSeq(s, 1, k)) = IF 1 <= k THEN k - 1 + 1 ELSE 0
        /\ \A i \in 1..k - 1 + 1 : SubSeq(s, 1, k)[i] = s[1 + i - 1]
    BY <2>1, SubSeqProperties
  <2> QED BY <1>1, <2>2
<1>4. IsPrefix(t, s) <=> Len(t) <= Len(s) /\ t = SubSeq(s, 1, Len(t))
  BY <1>2 DEF IsPrefix
<1>5. Len(t) <= Len(s) =>
        (t = SubSeq(s, 1, Len(t)) <=> \A i \in 1..Len(t) : t[i] = s[i])
  <2> SUFFICES ASSUME Len(t) <= Len(s)
               PROVE  t = SubSeq(s, 1, Len(t)) <=> \A i \in 1..Len(t) : t[i] = s[i]
    OBVIOUS
  <2> DEFINE u == SubSeq(s, 1, Len(t))
  <2>1. u \in Seq(Symbols) /\ Len(u) = Len(t) /\ \A i \in 1..Len(t) : u[i] = s[i]
    BY <1>1, <1>3
  <2> HIDE DEF u
  <2>2. (\A i \in 1..Len(t) : t[i] = s[i]) => t = u
    BY <2>1, SeqEqual
  <2>3. t = u => \A i \in 1..Len(t) : t[i] = s[i]
    BY <2>1
  <2> QED BY <2>2, <2>3 DEF u
<1>6. t \in NonemptyPrefixes(s) <=> \E k \in 1..Len(s) : t = SubSeq(s, 1, k)
  BY DEF NonemptyPrefixes
<1>7. t \in NonemptyPrefixes(s) => Len(t) \in 1..Len(s) /\ t = SubSeq(s, 1, Len(t))
  BY <1>1, <1>3, <1>6
<1>8. t # <<>> => (t \in NonemptyPrefixes(s) <=> IsPrefix(t, s))
  BY <1>1, <1>4, <1>6, <1>7
<1>9. IsPrefix(t, s) /\ Len(t) = Len(s) => t = s
  BY <1>4, SubSeqFull
<1> QED BY <1>1, <1>4, <1>5, <1>7, <1>8, <1>9

(* Database finds a path in one of its tables at most, and only a           *)
(* compatible one, and all compatible ones with symbols.                    *)
LEMMA HitsAre ==
  ASSUME NEW post \in Stacks, NEW pre \in Stacks
  PROVE  /\ Hits(post, pre) > 0 => Hits(post, pre) = 1 /\ Compatible(post, pre)
         /\ /\ post.symbols # <<>> /\ pre.symbols # <<>>
            /\ Compatible(post, pre)
            => Hits(post, pre) > 0
<1> DEFINE s == post.symbols
           t == pre.symbols
           both == LookedUp(post) \cap AddedUnder(pre)
           Both(w, r) == <<w, r>> \in both
           Common(w, r) ==
             \/ w = "without variable" /\ r = t /\ t = s /\ t # <<>> /\ ~pre.variable
             \/ w = "with variable" /\ r = t /\ t # <<>> /\ pre.variable /\ IsPrefix(t, s)
             \/ w = "prefix" /\ r = s /\ post.variable /\ s # <<>> /\ s # t /\ IsPrefix(s, t)
<1>1. /\ s \in Seq(Symbols) /\ t \in Seq(Symbols)
      /\ post.variable \in BOOLEAN /\ pre.variable \in BOOLEAN
      /\ Len(s) \in Nat /\ Len(t) \in Nat
  BY LenProperties DEF Stacks
<1> HIDE DEF s, t
<1>2. /\ t # <<>> => (t \in NonemptyPrefixes(s) <=> IsPrefix(t, s))
      /\ s # <<>> => (s \in NonemptyPrefixes(t) <=> IsPrefix(s, t))
      /\ s \in NonemptyPrefixes(t) => s # <<>>
      /\ IsPrefix(t, s) => Len(t) <= Len(s)
      /\ IsPrefix(s, t) /\ Len(t) <= Len(s) => s = t
      /\ IsPrefix(s, s)
  <2>1. /\ t # <<>> => (t \in NonemptyPrefixes(s) <=> IsPrefix(t, s))
        /\ IsPrefix(t, s) <=> Len(t) <= Len(s) /\ \A i \in 1..Len(t) : t[i] = s[i]
    BY <1>1, PrefixesAre
  <2>2. /\ s # <<>> => (s \in NonemptyPrefixes(t) <=> IsPrefix(s, t))
        /\ s \in NonemptyPrefixes(t) => s # <<>>
        /\ IsPrefix(s, t) <=> Len(s) <= Len(t) /\ \A i \in 1..Len(s) : s[i] = t[i]
        /\ IsPrefix(s, t) /\ Len(s) = Len(t) => s = t
    BY <1>1, PrefixesAre
  <2>3. IsPrefix(s, s) <=> Len(s) <= Len(s) /\ \A i \in 1..Len(s) : s[i] = s[i]
    BY <1>1, PrefixesAre
  <2> QED BY <1>1, <2>1, <2>2, <2>3
<1>3. \A w, r : Both(w, r) <=> Common(w, r)
  <2> SUFFICES ASSUME NEW w, NEW r PROVE Both(w, r) <=> Common(w, r)
    OBVIOUS
  <2>1. <<w, r>> \in LookedUp(post) <=>
          \/ w = "without variable" /\ r = s
          \/ w = "prefix" /\ r = s /\ post.variable
          \/ w = "with variable" /\ (r \in NonemptyPrefixes(s) \/ r = <<>>)
    BY <1>1 DEF LookedUp, s
  <2>2. <<w, r>> \in AddedUnder(pre) <=>
          \/ w = "with variable" /\ r = t /\ pre.variable /\ t # <<>>
          \/ w = "without variable" /\ r = t /\ ~pre.variable /\ t # <<>>
          \/ w = "prefix" /\ r \in NonemptyPrefixes(t) /\ r # t
    BY <1>1 DEF AddedUnder, t
  <2>3. <<w, r>> \in both <=> <<w, r>> \in LookedUp(post) /\ <<w, r>> \in AddedUnder(pre)
    OBVIOUS
  <2> HIDE DEF both
  <2> QED BY <1>2, <2>1, <2>2, <2>3
<1>4. \A x \in both : \E w, r : x = <<w, r>> /\ Both(w, r)
  BY DEF AddedUnder
<1>11. (\E w, r : Both(w, r)) => both # {}
  OBVIOUS
<1> HIDE DEF both, Both
<1>5. both = {} \/ \E x : both = {x}
  <2> SUFFICES ASSUME NEW x \in both, NEW y \in both PROVE x = y
    OBVIOUS
  <2>1. PICK w, r : x = <<w, r>> /\ Both(w, r)
    BY <1>4
  <2>2. PICK u, q : y = <<u, q>> /\ Both(u, q)
    BY <1>4
  <2>4. IsPrefix(s, t) /\ s # t => ~IsPrefix(t, s)
    BY <1>1, <1>2
  <2>5. \/ w = "without variable" /\ r = t /\ t = s /\ ~pre.variable
        \/ w = "with variable" /\ r = t /\ pre.variable /\ IsPrefix(t, s)
        \/ w = "prefix" /\ r = s /\ s # t /\ IsPrefix(s, t)
    BY <1>3, <2>1
  <2>6. \/ u = "without variable" /\ q = t /\ t = s /\ ~pre.variable
        \/ u = "with variable" /\ q = t /\ pre.variable /\ IsPrefix(t, s)
        \/ u = "prefix" /\ q = s /\ s # t /\ IsPrefix(s, t)
    BY <1>3, <2>2
  <2>7. w = u /\ r = q
    BY <1>1, <2>4, <2>5, <2>6
  <2> QED BY <2>1, <2>2, <2>7
<1>6. /\ Hits(post, pre) = Cardinality(both) /\ Cardinality({}) = 0
      /\ \A x : Cardinality({x}) = 1
  BY FS_EmptySet, FS_Singleton DEF Hits, both
<1>7. Hits(post, pre) > 0 <=> both # {}
  <2>1. CASE both = {}
    BY <2>1, <1>6
  <2>2. CASE both # {}
    <3> PICK x : both = {x}
      BY <1>5, <2>2
    <3> QED BY <1>6, <2>2
  <2> QED BY <2>1, <2>2
<1>8. both # {} => Hits(post, pre) = 1
  BY <1>5, <1>6
<1>9. both # {} => Compatible(post, pre)
  <2> SUFFICES ASSUME both # {} PROVE Compatible(post, pre)
    OBVIOUS
  <2> PICK w, r : Both(w, r)
    BY <1>4
  <2> QED BY <1>3 DEF Compatible, s, t
<1>10. s # <<>> /\ t # <<>> /\ Compatible(post, pre) => \E w, r : Both(w, r)
  <2> SUFFICES ASSUME s # <<>>, t # <<>>, Compatible(post, pre)
               PROVE  \E w, r : Both(w, r)
    OBVIOUS
  <2>1. \/ s = t
        \/ pre.variable /\ IsPrefix(t, s)
        \/ post.variable /\ IsPrefix(s, t)
    BY DEF Compatible, s, t
  <2>2. CASE s = t
    BY <1>1, <1>2, <1>3, <2>2
  <2>3. CASE pre.variable /\ IsPrefix(t, s)
    BY <1>3, <2>3
  <2>4. CASE post.variable /\ IsPrefix(s, t) /\ s # t
    BY <1>3, <2>4
  <2> QED BY <2>1, <2>2, <2>3, <2>4
<1> QED BY <1>7, <1>8, <1>9, <1>10, <1>11 DEF s, t

-----------------------------------------------------------------------------
(* Patterns.                                                                *)

LEMMA AppendOne ==
  ASSUME NEW S, NEW a \in Seq(S), NEW x \in S
  PROVE  /\ a \o <<x>> \in Seq(S) /\ Len(a \o <<x>>) = Len(a) + 1
         /\ \A i \in 1..Len(a) : (a \o <<x>>)[i] = a[i]
         /\ (a \o <<x>>)[Len(a) + 1] = x
<1> DEFINE b == <<x>>
<1>1. b \in Seq(S) /\ Len(b) = 1 /\ b[1] = x /\ Len(a) \in Nat
  BY LenProperties
<1> HIDE DEF b
<1>2. /\ a \o b \in Seq(S) /\ Len(a \o b) = Len(a) + Len(b)
      /\ \A i \in 1..Len(a) + Len(b) :
           (a \o b)[i] = IF i <= Len(a) THEN a[i] ELSE b[i - Len(a)]
  BY <1>1, ConcatProperties
<1>3. (a \o b)[Len(a) + 1] = b[1]
  <2>1. /\ Len(a) + 1 \in 1..Len(a) + Len(b) /\ ~(Len(a) + 1 <= Len(a))
        /\ Len(a) + 1 - Len(a) = 1
    BY <1>1
  <2> QED BY <1>2, <2>1
<1> QED BY <1>1, <1>2, <1>3 DEF b

LEMMA PatternsAre ==
  ASSUME NEW q \in Stacks
  PROVE  LET s == q.symbols
             n == Len(s)
         IN  /\ n \in Nat /\ Len(Patterns(q)) \in Nat
             /\ DOMAIN Patterns(q) = 1..Len(Patterns(q))
             /\ n + 1 \in DOMAIN Patterns(q)
             /\ \A i \in 1..n : /\ i \in DOMAIN Patterns(q)
                               /\ Patterns(q)[i] = Pattern({TRUE}, SubSeq(s, 1, i), FALSE)
             /\ Patterns(q)[n + 1] = Pattern({FALSE}, s, FALSE)
             /\ q.variable => /\ n + 2 \in DOMAIN Patterns(q)
                              /\ Patterns(q)[n + 2] = Pattern(BOOLEAN, s, TRUE)
             /\ Patterns(q) \in Seq({Patterns(q)[i] : i \in 1..Len(Patterns(q))})
<1> DEFINE s == q.symbols
           n == Len(s)
           As == [i \in 1..n |-> Pattern({TRUE}, SubSeq(s, 1, i), FALSE)]
           x == Pattern({FALSE}, s, FALSE)
           y == Pattern(BOOLEAN, s, TRUE)
           All == {As[i] : i \in 1..n} \cup {x, y}
           AB == As \o <<x>>
           ps == Patterns(q)
<1>1. /\ n \in Nat /\ x \in All /\ y \in All
      /\ q.variable => ps = AB \o <<y>>
      /\ ~q.variable => ps = AB \o <<>>
  BY LenProperties DEF Stacks, Patterns
<1>2. As \in Seq(All) /\ Len(As) = n /\ \A i \in 1..n : As[i] = Pattern({TRUE}, SubSeq(s, 1, i), FALSE)
  <2>1. \A i \in 1..n : As[i] \in All
    OBVIOUS
  <2>2. As = [i \in 1..n |-> As[i]]
    OBVIOUS
  <2> HIDE DEF n
  <2>3. \A i \in 1..n : As[i] = Pattern({TRUE}, SubSeq(s, 1, i), FALSE)
    OBVIOUS
  <2> HIDE DEF As, All
  <2>4. [i \in 1..n |-> As[i]] \in Seq(All) /\ Len([i \in 1..n |-> As[i]]) = n
    BY <1>1, <2>1, IsASeq
  <2> QED BY <2>2, <2>3, <2>4
<1> HIDE DEF As, All, n, ps, x, y
<1>3. /\ AB \in Seq(All) /\ Len(AB) = n + 1
      /\ (\A i \in 1..n : AB[i] = As[i]) /\ AB[n + 1] = x
  <2>1. /\ AB \in Seq(All) /\ Len(AB) = Len(As) + 1
        /\ \A i \in 1..Len(As) : AB[i] = As[i]
        /\ AB[Len(As) + 1] = x
    BY <1>1, <1>2, AppendOne
  <2> HIDE DEF AB
  <2> QED BY <1>2, <2>1
<1> HIDE DEF AB
<1>4. /\ ps \in Seq(All) /\ Len(ps) \in Nat /\ Len(ps) >= n + 1
      /\ \A i \in 1..n + 1 : ps[i] = AB[i]
      /\ q.variable => Len(ps) = n + 2 /\ ps[n + 2] = y
  <2>1. CASE q.variable
    <3>1. /\ ps \in Seq(All) /\ Len(ps) = n + 1 + 1
          /\ \A i \in 1..n + 1 : ps[i] = AB[i]
          /\ ps[n + 1 + 1] = y
      BY <1>1, <1>3, <2>1, AppendOne
    <3>2. n + 1 + 1 = n + 2 /\ n + 2 >= n + 1 /\ n + 2 \in Nat
      BY <1>1
    <3> QED BY <3>1, <3>2
  <2>2. CASE ~q.variable
    <3>1. ps = AB
      BY <1>1, <1>3, <2>2, ConcatEmptySeq
    <3> QED BY <1>1, <1>3, <2>2, <3>1
  <2> QED BY <2>1, <2>2
<1>7. DOMAIN ps = 1..Len(ps)
  BY <1>4, LenProperties
<1>8. /\ n + 1 \in DOMAIN ps
      /\ \A i \in 1..n : i \in DOMAIN ps /\ ps[i] = Pattern({TRUE}, SubSeq(s, 1, i), FALSE)
      /\ ps[n + 1] = x
      /\ q.variable => n + 2 \in DOMAIN ps /\ ps[n + 2] = y
  <2> DEFINE m == Len(ps)
  <2>5. n \in Nat /\ m \in Nat /\ m >= n + 1 /\ (q.variable => m = n + 2) /\ DOMAIN ps = 1..m
    BY <1>1, <1>4, <1>7
  <2> HIDE DEF m
  <2>6. /\ n + 1 \in 1..n + 1 /\ n + 1 \in 1..m /\ (q.variable => n + 2 \in 1..m)
        /\ \A i \in 1..n : i \in 1..n + 1 /\ i \in 1..m
    BY <2>5
  <2>1. \A i \in 1..n : i \in 1..n + 1 /\ i \in DOMAIN ps
    BY <2>5, <2>6
  <2>2. n + 1 \in 1..n + 1 /\ n + 1 \in DOMAIN ps /\ (q.variable => n + 2 \in DOMAIN ps)
    BY <2>5, <2>6
  <2>3. \A i \in 1..n : ps[i] = Pattern({TRUE}, SubSeq(s, 1, i), FALSE)
    BY <1>2, <1>3, <1>4, <2>1
  <2>4. ps[n + 1] = x
    BY <1>3, <1>4, <2>2
  <2> QED BY <1>4, <2>1, <2>2, <2>3, <2>4
<1>9. ps \in Seq({ps[i] : i \in 1..Len(ps)})
  BY <1>4, LenProperties, IsASeq
<1> QED BY <1>1, <1>4, <1>7, <1>8, <1>9 DEF n, ps, x, y

(* No symbol has a backslash in it: each is LIKE itself. *)
NoEscapes == \A s \in Symbols : s \in Alike[s]

(* Every compatible precondition is LIKE one of the patterns. *)
LEMMA OnePatternMatches ==
  ASSUME NoEscapes, NEW q \in Stacks, NEW pre \in Stacks,
         q.symbols # <<>>, pre.symbols # <<>>, Compatible(q, pre)
  PROVE  \E i \in DOMAIN Patterns(q) : Like(pre, Patterns(q)[i])
<1> DEFINE s == q.symbols
           t == pre.symbols
           n == Len(s)
<1>1. /\ s \in Seq(Symbols) /\ t \in Seq(Symbols)
      /\ q.variable \in BOOLEAN /\ pre.variable \in BOOLEAN
      /\ n \in Nat /\ Len(t) \in Nat /\ n # 0 /\ Len(t) # 0
      /\ \A i \in 1..n : s[i] \in Symbols
      /\ \A i \in 1..Len(t) : t[i] \in Symbols
  BY LenProperties, EmptySeq DEF Stacks
<1>2. /\ \A i \in 1..n : /\ i \in DOMAIN Patterns(q)
                        /\ Patterns(q)[i] = Pattern({TRUE}, SubSeq(s, 1, i), FALSE)
      /\ n + 1 \in DOMAIN Patterns(q)
      /\ Patterns(q)[n + 1] = Pattern({FALSE}, s, FALSE)
      /\ q.variable => /\ n + 2 \in DOMAIN Patterns(q)
                       /\ Patterns(q)[n + 2] = Pattern(BOOLEAN, s, TRUE)
  BY PatternsAre
<1>4. IsPrefix(t, s) /\ pre.variable =>
        Len(t) \in 1..n /\ Like(pre, Pattern({TRUE}, SubSeq(s, 1, Len(t)), FALSE))
  <2> SUFFICES ASSUME IsPrefix(t, s), pre.variable
               PROVE  Len(t) \in 1..n /\ Like(pre, Pattern({TRUE}, SubSeq(s, 1, Len(t)), FALSE))
    OBVIOUS
  <2>1. Len(t) <= n /\ SubSeq(t, 1, Len(t)) = SubSeq(s, 1, Len(t)) /\ SubSeq(t, 1, Len(t)) = t
    BY <1>1, SubSeqFull DEF IsPrefix
  <2>2. Like(pre, Pattern({TRUE}, t, FALSE))
    BY <1>1 DEF Like, Pattern, NoEscapes
  <2>3. SubSeq(s, 1, Len(t)) = t
    BY <2>1
  <2>4. Len(t) \in 1..n
    BY <1>1, <2>1
  <2> QED BY <2>2, <2>3, <2>4
<1>5. s = t => IsPrefix(t, s)
  BY <1>1, PrefixesAre
<1>6. s = t /\ ~pre.variable => Like(pre, Pattern({FALSE}, s, FALSE))
  BY <1>1 DEF Like, Pattern, NoEscapes
<1>7. IsPrefix(s, t) /\ s # t => Like(pre, Pattern(BOOLEAN, s, TRUE))
  <2> SUFFICES ASSUME IsPrefix(s, t), s # t PROVE Like(pre, Pattern(BOOLEAN, s, TRUE))
    OBVIOUS
  <2>1. n < Len(t) /\ \A i \in 1..n : s[i] = t[i]
    BY <1>1, PrefixesAre
  <2> QED BY <1>1, <2>1 DEF Like, Pattern, NoEscapes
<1>8. \/ s = t
      \/ pre.variable /\ IsPrefix(t, s)
      \/ q.variable /\ IsPrefix(s, t)
  BY DEF Compatible
<1> HIDE DEF s, t, n
<1> QED BY <1>1, <1>2, <1>4, <1>5, <1>6, <1>7, <1>8

-----------------------------------------------------------------------------
(* Types.                                                                   *)

LEMMA CallTypes ==
  /\ Idle \in Calls /\ Idle.kind = "none"
  /\ [kind |-> "directory"] \in Calls
  /\ \A n \in Nodes : OfNode(n) \in Calls /\ OfNode(n).kind = "node" /\ OfNode(n).node = n
  /\ \A c \in Calls :
       /\ c.kind \in {"none", "directory", "node", "root"}
       /\ c.kind = "none" <=> c = Idle
       /\ c.kind = "node" => c.node \in Nodes /\ c = OfNode(c.node)
       /\ c.kind = "root" => /\ c.stack \in Queries /\ c.current \subseteq AllPatterns
                             /\ c.patterns \in Seq(AllPatterns)
BY DEF Calls, Idle, OfNode

LEMMA RootCall ==
  ASSUME NEW q \in Queries, NEW ps \in Seq(AllPatterns)
  PROVE  LET c == [kind |-> "root", stack |-> q, current |-> {}, patterns |-> ps]
         IN  c \in Calls /\ c.kind = "root" /\ c.stack = q /\ c.current = {} /\ c.patterns = ps
BY DEF Calls

LEMMA TailCall ==
  ASSUME NEW c \in Calls, c.kind = "root", NEW cs \in SUBSET AllPatterns,
         NEW ps \in Seq(AllPatterns)
  PROVE  LET d == [c EXCEPT !.current = cs, !.patterns = ps]
         IN  /\ d \in Calls /\ d.kind = "root" /\ d.stack = c.stack
             /\ d.current = cs /\ d.patterns = ps
<1>1. c \in [kind : {"root"}, stack : Queries, current : SUBSET AllPatterns,
            patterns : Seq(AllPatterns)]
  BY DEF Calls
<1> QED BY <1>1 DEF Calls

(* What a call marks is told apart by its kind. *)
LEMMA MarksDiffer ==
  \A m, n, p, q : /\ OfNode(m) = OfNode(n) => m = n
                  /\ OfPattern(p) = OfPattern(q) => p = q
                  /\ OfStack(p) = OfStack(q) => p = q
                  /\ OfNode(n) # OfStack(q) /\ OfNode(n) # OfPattern(p)
<1> SUFFICES ASSUME NEW m, NEW n, NEW p, NEW q
             PROVE  /\ OfNode(m) = OfNode(n) => m = n
                    /\ OfPattern(p) = OfPattern(q) => p = q
                    /\ OfStack(p) = OfStack(q) => p = q
                    /\ OfNode(n) # OfStack(q) /\ OfNode(n) # OfPattern(p)
  OBVIOUS
<1>1. /\ OfNode(m).node = m /\ OfNode(n).node = n /\ OfNode(n).kind = "node"
      /\ OfPattern(p).pattern = p /\ OfPattern(q).pattern = q /\ OfPattern(p).kind = "root"
      /\ OfStack(p).stack = p /\ OfStack(q).stack = q /\ OfStack(q).kind = "root"
  BY DEF OfNode, OfPattern, OfStack
<1> QED BY <1>1

LEMMA ReadingIs ==
  ASSUME call \in Calls
  PROVE  /\ call.kind = "node" => Reading = {OfNode(call.node)}
         /\ call.kind = "root" => Reading = {OfPattern(p) : p \in call.current}
         /\ call.kind \notin {"node", "root"} => Reading = {}
         /\ Reading \subseteq {OfNode(n) : n \in Nodes} \cup {OfPattern(p) : p \in AllPatterns}
<1>1. /\ call.kind = "node" => Reading = {OfNode(call.node)}
      /\ call.kind = "root" => Reading = {OfPattern(p) : p \in call.current}
      /\ call.kind \notin {"node", "root"} => Reading = {}
  BY DEF Reading
<1>2. /\ call.kind = "node" => call.node \in Nodes
      /\ call.kind = "root" => call.current \subseteq AllPatterns
  BY CallTypes
<1>3. CASE call.kind = "node"
  BY <1>1, <1>2, <1>3
<1>4. CASE call.kind = "root"
  BY <1>1, <1>2, <1>4
<1>5. CASE call.kind \notin {"node", "root"}
  BY <1>1, <1>5
<1> QED BY <1>1, <1>3, <1>4, <1>5

LEMMA QueryPatterns ==
  ASSUME NEW q \in Queries
  PROVE  /\ q \in Stacks
         /\ Patterns(q) \in Seq(AllPatterns)
         /\ DOMAIN Patterns(q) = 1..Len(Patterns(q))
<1>1. q \in Stacks
  BY ReaderAssumption
<1>2. {Patterns(q)[i] : i \in 1..Len(Patterns(q))} \subseteq AllPatterns
  BY DEF AllPatterns
<1>3. /\ Patterns(q) \in Seq({Patterns(q)[i] : i \in 1..Len(Patterns(q))})
      /\ DOMAIN Patterns(q) = 1..Len(Patterns(q))
  BY <1>1, PatternsAre
<1> QED BY <1>1, <1>2, <1>3, SeqMonotonic

(* Rows are pairs of a file and a path; so are the rows a call still reads. *)
LEMMA StoredTypes ==
  ASSUME NEW s \in [Files -> SUBSET Store!Entry], NEW f \in Files
  PROVE  /\ Stored(s, f) \subseteq Versions
         /\ UNION {PathsOf[v] : v \in Stored(s, f)} \subseteq Paths
<1>1. \A e \in s[f] : e.tag \in Versions
  BY DEF Store!Entry
<1>2. Stored(s, f) \subseteq Versions
  BY <1>1 DEF Stored
<1> QED BY <1>2, ReaderAssumption

LEMMA RowTypes ==
  ASSUME NEW s \in [Files -> SUBSET Store!Entry]
  PROVE  /\ \A n \in Nodes : NodeRows(s, n) \subseteq Files \X Paths
         /\ \A pattern : RootRows(s, pattern) \subseteq Files \X Paths
<1>1. \A f \in Files : UNION {PathsOf[v] : v \in Stored(s, f)} \subseteq Paths
  BY StoredTypes
<1>2. \A n \in Nodes : n[1] \in Files
  BY DEF Nodes
<1>3. ASSUME NEW n \in Nodes PROVE NodeRows(s, n) \subseteq Files \X Paths
  BY <1>1, <1>2 DEF NodeRows
<1>4. ASSUME NEW pattern PROVE RootRows(s, pattern) \subseteq Files \X Paths
  <2> SUFFICES ASSUME NEW row \in RootRows(s, pattern) PROVE row \in Files \X Paths
    OBVIOUS
  <2> PICK f \in Files : row \in {<<f, p>> : p \in {x \in UNION {PathsOf[v] : v \in Stored(s, f)} :
                              StartOf[x] = "root" /\ Like(PreOf[x], pattern)}}
    BY DEF RootRows
  <2> QED BY <1>1
<1> QED BY <1>3, <1>4

LEMMA RowsArePaths ==
  ASSUME IInv, call.kind \in {"node", "root"}, NEW row \in rows
  PROVE  row \in Files \X Paths /\ row = <<row[1], row[2]>>
<1>1. row \in Files \X (Paths \cup {"graph"})
  BY DEF IInv, TypeOK
<1>2. row[2] \in Paths
  <2>1. CASE call.kind = "root"
    BY <2>1 DEF IInv, RootsInOrder
  <2>2. CASE call.kind = "node"
    <3> PICK ps \in {{}} \cup {PathsOf[v] : v \in Versions} : row[2] \in ps
      BY <2>2 DEF IInv, NodesInOrder, HasPaths
    <3> QED BY ReaderAssumption
  <2> QED BY <2>1, <2>2
<1> QED BY <1>1, <1>2

-----------------------------------------------------------------------------
(* Loading a graph: graphs are only added.                                  *)

GraphsGrow ==
  /\ graph' \in [Files -> SUBSET Versions] /\ loaded_graphs' \subseteq Files
  /\ GraphsMarked'
  /\ \A f \in Files : graph[f] \subseteq graph'[f]

LEMMA Growing ==
  ASSUME IInv, NEW s \in [Files -> SUBSET Store!Entry], NEW f \in Files
  PROVE  /\ EnsureGraph(s, f) => GraphsGrow
         /\ GraphFails(s, f) => GraphsGrow
         /\ UNCHANGED <<graph, loaded_graphs>> => GraphsGrow
<1>1. /\ graph \in [Files -> SUBSET Versions] /\ loaded_graphs \subseteq Files
      /\ Stored(s, f) \subseteq Versions
      /\ \A g \in Files : g \notin loaded_graphs => graph[g] = {}
  BY StoredTypes DEF IInv, TypeOK, GraphsMarked
<1>2. UNCHANGED <<graph, loaded_graphs>> => GraphsGrow
  BY <1>1 DEF GraphsGrow, GraphsMarked
<1>3. GraphFails(s, f) => GraphsGrow
  BY <1>1 DEF GraphFails, GraphsGrow, GraphsMarked
<1>4. EnsureGraph(s, f) => GraphsGrow
  BY <1>1 DEF EnsureGraph, GraphsGrow, GraphsMarked
<1> QED BY <1>2, <1>3, <1>4

LEMMA GraphsStep ==
  ASSUME IInv, [Next]_vars
  PROVE  GraphsGrow \/ Clear
<1> USE DEF readerVars
<1>1. /\ index \in [Files -> SUBSET Store!Entry] /\ snapshot \in [Files -> SUBSET Store!Entry]
      /\ \A row \in rows : row[1] \in Files
  BY DEF IInv, TypeOK, Store!TypeOK
<1>2. UNCHANGED <<graph, loaded_graphs>> => GraphsGrow
  BY DEF GraphsGrow, IInv, TypeOK, GraphsMarked
<1>3. CASE \E f \in Files : LoadGraph(f)
  BY <1>1, <1>2, <1>3, Growing DEF LoadGraph, Panic
<1>4. CASE DirectoryRow
  BY <1>1, <1>2, <1>4, Growing DEF DirectoryRow, Panic
<1>5. CASE PathRow
  BY <1>1, <1>2, <1>5, Growing DEF PathRow, Panic
<1>6. CASE UNCHANGED vars
  BY <1>2, <1>6 DEF vars
<1> QED
  BY <1>2, <1>3, <1>4, <1>5, <1>6
  DEF Next, StartDirectory, StartNode, StartRoot, NextPattern, RowFails, Finish,
      ClearPaths, StoreChanges

(* Types of what is not a graph, action by action. *)
Types ==
  /\ Store!TypeOK
  /\ loaded_node_paths \subseteq Nodes
  /\ loaded_root_paths \subseteq AllPatterns
  /\ db \in [Files \X Paths -> Nat]
  /\ call \in Calls
  /\ snapshot \in [Files -> SUBSET Store!Entry]
  /\ rows \subseteq Files \X (Paths \cup {"graph"})
  /\ panicked \in BOOLEAN
  /\ answered \subseteq {OfNode(n) : n \in Nodes} \cup {OfStack(q) : q \in Queries}
  /\ cut \subseteq {OfNode(n) : n \in Nodes} \cup {OfPattern(p) : p \in AllPatterns}
  /\ settled \in BOOLEAN

LEMMA EndTypes ==
  ASSUME Types PROVE (Fail \/ Panic) => Types'
<1>1. NoIndex \in [Files -> SUBSET Store!Entry]
  BY DEF NoIndex
<1>4. cut \cup Reading \subseteq {OfNode(n) : n \in Nodes} \cup {OfPattern(p) : p \in AllPatterns}
  BY ReadingIs DEF Types
<1>2. Fail => Types'
  BY <1>1, <1>4, CallTypes DEF Fail, EndCall, Types, Store!TypeOK
<1>3. Panic => Types'
  BY <1>1, <1>4, CallTypes DEF Panic, EndCall, Types, Store!TypeOK
<1> QED BY <1>2, <1>3

LEMMA StartTypes ==
  ASSUME Types,
         \/ \E fs \in Directories : StartDirectory(fs)
         \/ \E n \in Nodes : StartNode(n)
         \/ \E q \in Queries : StartRoot(q)
  PROVE  Types'
<1>1. index \in [Files -> SUBSET Store!Entry]
  BY DEF Types, Store!TypeOK
<1>2. CASE \E fs \in Directories : StartDirectory(fs)
  <2> PICK fs \in Directories : StartDirectory(fs)
    BY <1>2
  <2>1. fs \subseteq Files
    BY ReaderAssumption
  <2> QED BY <1>1, <2>1, CallTypes DEF StartDirectory, Types, Store!TypeOK
<1>3. CASE \E n \in Nodes : StartNode(n)
  <2> PICK n \in Nodes : StartNode(n)
    BY <1>3
  <2>1. NodeRows(index, n) \subseteq Files \X Paths
    BY <1>1, RowTypes
  <2>2. CASE n \in loaded_node_paths
    BY <2>2 DEF StartNode, Types, Store!TypeOK
  <2>3. CASE n \notin loaded_node_paths
    BY <1>1, <2>1, <2>3, CallTypes DEF StartNode, Types, Store!TypeOK
  <2> QED BY <2>2, <2>3
<1>4. CASE \E q \in Queries : StartRoot(q)
  <2> PICK q \in Queries : StartRoot(q)
    BY <1>4
  <2>1. call' \in Calls
    BY QueryPatterns, RootCall DEF StartRoot
  <2> QED BY <2>1 DEF StartRoot, Types, Store!TypeOK
<1> QED BY <1>2, <1>3, <1>4

LEMMA RowStepTypes ==
  ASSUME IInv, Types, DirectoryRow \/ PathRow \/ RowFails PROVE Types'
<1>1. CASE DirectoryRow
  BY <1>1, EndTypes DEF DirectoryRow, Types, Store!TypeOK
<1>2. CASE PathRow
  <2> PICK row \in rows :
       \/ /\ db' = [db EXCEPT ![row] = @ + 1]
          /\ rows' = rows \ {row}
          /\ UNCHANGED <<index, loaded_node_paths, loaded_root_paths, call,
                         snapshot, panicked, answered, cut, settled>>
       \/ Fail \/ Panic
    BY <1>2 DEF PathRow
  <2>1. CASE Fail \/ Panic
    BY <2>1, EndTypes
  <2>2. CASE /\ db' = [db EXCEPT ![row] = @ + 1]
             /\ rows' = rows \ {row}
             /\ UNCHANGED <<index, loaded_node_paths, loaded_root_paths, call,
                            snapshot, panicked, answered, cut, settled>>
    <3>1. row \in Files \X Paths
      BY <1>2, RowsArePaths DEF PathRow
    <3> QED BY <2>2, <3>1 DEF Types, Store!TypeOK
  <2> QED BY <2>1, <2>2
<1>3. CASE RowFails
  BY <1>3, EndTypes DEF RowFails
<1> QED BY <1>1, <1>2, <1>3

LEMMA PatternTypes ==
  ASSUME Types, NextPattern PROVE Types'
<1>1. index \in [Files -> SUBSET Store!Entry]
  BY DEF Types, Store!TypeOK
<1>2. call \in Calls /\ call.kind = "root" /\ call.patterns # <<>>
  BY DEF Types, NextPattern
<1>3. /\ Head(call.patterns) \in AllPatterns
      /\ Tail(call.patterns) \in Seq(AllPatterns)
  BY <1>2, CallTypes, HeadTailProperties
<1>4. call' \in Calls
  <2>1. PICK cs \in SUBSET AllPatterns :
          call' = [call EXCEPT !.current = cs, !.patterns = Tail(call.patterns)]
    BY <1>3 DEF NextPattern
  <2> QED BY <1>2, <1>3, <2>1, TailCall
<1>5. RootRows(index, Head(call.patterns)) \subseteq Files \X Paths
  BY <1>1, RowTypes
<1> QED BY <1>1, <1>3, <1>4, <1>5 DEF NextPattern, Types, Store!TypeOK

LEMMA FinishTypes ==
  ASSUME Types, Finish PROVE Types'
<1>1. NoIndex \in [Files -> SUBSET Store!Entry]
  BY DEF NoIndex
<1>2. answered' \subseteq {OfNode(n) : n \in Nodes} \cup {OfStack(q) : q \in Queries}
  <2>1. CASE call.kind = "node"
    <3>1. call.node \in Nodes /\ answered' = answered \cup {OfNode(call.node)}
      BY <2>1, CallTypes DEF Finish, Types
    <3> QED BY <3>1 DEF Types
  <2>2. CASE call.kind = "root"
    <3>1. call.stack \in Queries /\ answered' = answered \cup {OfStack(call.stack)}
      BY <2>2, CallTypes DEF Finish, Types
    <3> QED BY <3>1 DEF Types
  <2>3. CASE call.kind \notin {"node", "root"}
    <3>1. answered' = answered
      BY <2>3 DEF Finish
    <3> QED BY <3>1 DEF Types
  <2> QED BY <2>1, <2>2, <2>3
<1> QED BY <1>1, <1>2, CallTypes DEF Finish, EndCall, Types, Store!TypeOK

LEMMA StoreKeepsType ==
  ASSUME Store!TypeOK, OneEntry, Store!Next
  PROVE  Store!TypeOK' /\ OneEntry'
<1>1. ASSUME NEW f \in Files, NEW v \in Versions, Store!StoreResult(f, v)
      PROVE  Store!TypeOK' /\ OneEntry'
  BY <1>1 DEF Store!StoreResult, Store!TypeOK, Store!Entry, OneEntry
<1>2. ASSUME NEW f \in Files, NEW v \in Versions, NEW m \in Messages, Store!StoreError(f, v, m)
      PROVE  Store!TypeOK' /\ OneEntry'
  BY <1>2 DEF Store!StoreError, Store!TypeOK, Store!Entry, OneEntry
<1>3. ASSUME NEW fs, Store!Clean(fs)
      PROVE  Store!TypeOK' /\ OneEntry'
  BY <1>3 DEF Store!Clean, Store!TypeOK, Store!Entry, OneEntry
<1> QED BY <1>1, <1>2, <1>3 DEF Store!Next

LEMMA TypeStep ==
  ASSUME IInv, [Next]_vars
  PROVE  TypeOK' /\ OneEntry'
<1> USE DEF readerVars
<1>1. Types /\ OneEntry
  BY DEF IInv, TypeOK, Types
<1>8. Types' /\ OneEntry'
  <2>2. CASE \E f \in Files : LoadGraph(f)
    <3>1. Types'
      BY <1>1, <2>2, EndTypes DEF LoadGraph, Types, Store!TypeOK
    <3>2. OneEntry'
      BY <1>1, <2>2 DEF LoadGraph, Fail, Panic, OneEntry
    <3> QED BY <3>1, <3>2
  <2>3. CASE StoreChanges
    <3>1. Store!TypeOK' /\ OneEntry'
      BY <1>1, <2>3, StoreKeepsType DEF StoreChanges, Types
    <3>2. Types'
      BY <1>1, <2>3, <3>1 DEF StoreChanges, Types
    <3> QED BY <3>1, <3>2
  <2>4. CASE Clear \/ ClearPaths \/ UNCHANGED vars
    <3>1. NoPaths \in [Files \X Paths -> Nat]
      BY DEF NoPaths
    <3>2. Types'
      BY <1>1, <2>4, <3>1 DEF Clear, ClearPaths, vars, Types, Store!TypeOK
    <3>3. OneEntry'
      BY <1>1, <2>4 DEF Clear, ClearPaths, vars, OneEntry
    <3> QED BY <3>2, <3>3
  <2>5. CASE \/ \E fs \in Directories : StartDirectory(fs)
             \/ \E n \in Nodes : StartNode(n)
             \/ \E q \in Queries : StartRoot(q)
    <3>1. OneEntry'
      BY <1>1, <2>5 DEF StartDirectory, StartNode, StartRoot, OneEntry
    <3> QED BY <1>1, <2>5, <3>1, StartTypes
  <2>6. CASE DirectoryRow \/ PathRow \/ RowFails
    <3>1. OneEntry'
      BY <1>1, <2>6 DEF DirectoryRow, PathRow, RowFails, Fail, Panic, OneEntry
    <3> QED BY <1>1, <2>6, <3>1, RowStepTypes
  <2>7. CASE NextPattern \/ Finish
    <3>1. OneEntry'
      BY <1>1, <2>7 DEF NextPattern, Finish, OneEntry
    <3> QED BY <1>1, <2>7, <3>1, PatternTypes, FinishTypes
  <2> QED BY <2>2, <2>3, <2>4, <2>5, <2>6, <2>7 DEF Next
<1>9. (graph \in [Files -> SUBSET Versions])' /\ (loaded_graphs \subseteq Files)'
  <2>1. CASE Clear
    BY <2>1 DEF Clear
  <2>2. CASE GraphsGrow
    BY <2>2 DEF GraphsGrow
  <2> QED BY <2>1, <2>2, GraphsStep
<1> QED BY <1>8, <1>9 DEF Types, TypeOK

-----------------------------------------------------------------------------
(* Handles.                                                                 *)

(* A path is added to the database for the row that is read, once all its   *)
(* nodes are found; any other step leaves the database, or empties it.      *)
RowAdded(row) ==
  /\ call.kind \in {"node", "root"}
  /\ row \in rows
  /\ Resolves(row)
  /\ db' = [db EXCEPT ![row] = @ + 1]
  /\ rows' = rows \ {row}
  /\ UNCHANGED <<index, loaded_node_paths, loaded_root_paths, call,
                 snapshot, panicked, answered, cut, settled>>

LEMMA DatabaseStep ==
  ASSUME [Next]_vars
  PROVE  \/ UNCHANGED db
         \/ db' = NoPaths
         \/ \E row \in rows : RowAdded(row)
<1> USE DEF readerVars
<1>1. CASE PathRow
  BY <1>1 DEF PathRow, RowAdded, Fail, Panic
<1>2. CASE UNCHANGED vars
  BY <1>2 DEF vars
<1> QED
  BY <1>1, <1>2
  DEF Next, LoadGraph, DirectoryRow, StartDirectory, StartNode, StartRoot, NextPattern,
      RowFails, Finish, Clear, ClearPaths, StoreChanges, Fail, Panic

LEMMA AddedTimes ==
  ASSUME IInv, NEW row, RowAdded(row)
  PROVE  /\ row \in Files \X Paths /\ row = <<row[1], row[2]>>
         /\ row[1] \in Files /\ row[2] \in Paths
         /\ \A f \in Files, p \in Paths :
              Times(f, p)' = IF f = row[1] /\ p = row[2] THEN Times(f, p) + 1 ELSE Times(f, p)
<1>1. row \in Files \X Paths /\ row = <<row[1], row[2]>>
  BY RowsArePaths DEF RowAdded
<1>2. db \in [Files \X Paths -> Nat] /\ db' = [db EXCEPT ![row] = db[row] + 1]
  BY DEF RowAdded, IInv, TypeOK
<1>3. ASSUME NEW f \in Files, NEW p \in Paths
      PROVE  Times(f, p)' = IF f = row[1] /\ p = row[2] THEN Times(f, p) + 1 ELSE Times(f, p)
  <2>1. <<f, p>> \in Files \X Paths
    OBVIOUS
  <2>2. CASE f = row[1] /\ p = row[2]
    BY <1>1, <1>2, <2>2 DEF Times
  <2>3. CASE ~(f = row[1] /\ p = row[2])
    <3>1. <<f, p>> # row
      BY <1>1, <2>3
    <3> QED BY <1>2, <2>1, <2>3, <3>1 DEF Times
  <2> QED BY <2>2, <2>3
<1> QED BY <1>1, <1>3

LEMMA HandlesStep ==
  ASSUME IInv, [Next]_vars
  PROVE  GraphsMarked' /\ HandlesValid'
<1> USE DEF readerVars
<1>1. CASE Clear
  <2>1. \A f \in Files, p \in Paths : Times(f, p)' = 0
    BY <1>1 DEF Clear, NoPaths, Times
  <2> QED BY <1>1, <2>1 DEF Clear, GraphsMarked, HandlesValid
<1>2. CASE GraphsGrow
  <2>1. GraphsMarked' /\ \A f \in Files : graph[f] \subseteq graph'[f]
    BY <1>2 DEF GraphsGrow
  <2>2. CASE UNCHANGED db
    <3>1. \A f \in Files, p \in Paths : Times(f, p)' = Times(f, p)
      BY <2>2 DEF Times
    <3> QED BY <2>1, <3>1 DEF HandlesValid, IInv
  <2>3. CASE db' = NoPaths
    <3>1. \A f \in Files, p \in Paths : Times(f, p)' = 0
      BY <2>3 DEF NoPaths, Times
    <3> QED BY <2>1, <3>1 DEF HandlesValid
  <2>4. CASE \E row \in rows : RowAdded(row)
    <3> PICK row \in rows : RowAdded(row)
      BY <2>4
    <3>1. \A f \in Files, p \in Paths :
            Times(f, p)' = IF f = row[1] /\ p = row[2] THEN Times(f, p) + 1 ELSE Times(f, p)
      BY AddedTimes
    <3>2. \E v \in graph'[row[1]] : NodesIn[row[2]] \subseteq NodesOf[v]
      BY DEF RowAdded, Resolves
    <3> QED BY <2>1, <3>1, <3>2 DEF HandlesValid, IInv
  <2> QED BY <2>1, <2>2, <2>3, <2>4, DatabaseStep
<1> QED BY <1>1, <1>2, GraphsStep

-----------------------------------------------------------------------------
(* The paths of nodes.                                                      *)

LEMMA NodeFacts ==
  ASSUME NEW n \in Nodes
  PROVE  n[1] \in Files /\ n[2] \in LocalIds /\ n = <<n[1], n[2]>> /\ n[2] # "root"
BY ReaderAssumption DEF Nodes

(* All paths, but for rows to come, are some of the paths.                  *)
LEMMA SomePaths ==
  ASSUME NEW n, NEW coming, HasPaths(n, coming)
  PROVE  HasPart(n)
<1> PICK ps \in {{}} \cup {PathsOf[v] : v \in Versions} :
      \A p \in Paths : StartOf[p] = n[2] =>
         Times(n[1], p) = IF p \in ps /\ <<n[1], p>> \notin coming THEN 1 ELSE 0
  BY DEF HasPaths
<1>1. ASSUME NEW p \in Paths, StartOf[p] = n[2], p \notin ps
      PROVE  ~(Times(n[1], p) > 0)
  <2>1. Times(n[1], p) = 0
    BY <1>1
  <2> QED BY <2>1
<1> QED BY <1>1 DEF HasPart

(* They depend on how often the paths of the node are in the database.      *)
LEMMA SamePaths ==
  ASSUME NEW n, NEW coming,
         \A p \in Paths : StartOf[p] = n[2] => Times(n[1], p)' = Times(n[1], p)
  PROVE  /\ HasPaths(n, coming) => HasPaths(n, coming)'
         /\ HasPart(n) => HasPart(n)'
BY DEF HasPaths, HasPart

(* One content is stored, and the rows are its paths; or none is.           *)
LEMMA StoredOnce ==
  ASSUME OneEntry, Store!TypeOK, NEW f \in Files
  PROVE  Stored(index, f) = {} \/ \E v \in Versions : Stored(index, f) = {v}
<1>1. \A x, y \in Stored(index, f) : x = y
  BY DEF Stored, OneEntry
<1>2. Stored(index, f) \subseteq Versions
  BY StoredTypes DEF Store!TypeOK
<1> QED BY <1>1, <1>2

LEMMA NodeRowsAre ==
  ASSUME OneEntry, Store!TypeOK, NEW n \in Nodes
  PROVE  \E ps \in {{}} \cup {PathsOf[v] : v \in Versions} :
           NodeRows(index, n) = {<<n[1], p>> : p \in {x \in ps : StartOf[x] = n[2]}}
<1> DEFINE S == Stored(index, n[1])
           all == UNION {PathsOf[v] : v \in S}
<1>1. S = {} \/ \E v \in Versions : S = {v}
  BY StoredOnce, NodeFacts
<1>2. NodeRows(index, n) = {<<n[1], p>> : p \in {x \in all : StartOf[x] = n[2]}}
  BY DEF NodeRows
<1>3. all \in {{}} \cup {PathsOf[v] : v \in Versions}
  <2> HIDE DEF S
  <2>1. CASE S = {}
    BY <2>1
  <2>2. CASE \E v \in Versions : S = {v}
    <3> PICK v \in Versions : S = {v}
      BY <2>2
    <3>1. all = PathsOf[v]
      OBVIOUS
    <3> QED BY <3>1
  <2> QED BY <1>1, <2>1, <2>2
<1> QED BY <1>2, <1>3

LEMMA StartNodeOrder ==
  ASSUME IInv, NEW n \in Nodes, StartNode(n)
  PROVE  NodesInOrder'
<1>1. /\ NodesInOrder /\ OneEntry /\ Store!TypeOK /\ db \in [Files \X Paths -> Nat]
      /\ loaded_node_paths \subseteq Nodes
  BY DEF IInv, TypeOK
<1>2. /\ UNCHANGED <<db, cut>> /\ call = Idle /\ call.kind = "none"
      /\ loaded_node_paths \subseteq loaded_node_paths'
  BY CallTypes DEF StartNode, Ready
<1>3. \A f \in Files, p \in Paths : Times(f, p)' = Times(f, p) /\ Times(f, p) \in Nat
  BY <1>1, <1>2 DEF Times
<1>4. \A m \in loaded_node_paths : HasPaths(m, {})' \/ (OfNode(m) \in cut' /\ HasPart(m)')
  <2> SUFFICES ASSUME NEW m \in loaded_node_paths
               PROVE  HasPaths(m, {})' \/ (OfNode(m) \in cut' /\ HasPart(m)')
    OBVIOUS
  <2>1. call # OfNode(m)
    BY <1>1, <1>2, CallTypes
  <2>2. HasPaths(m, {}) \/ (OfNode(m) \in cut /\ HasPart(m))
    BY <1>1, <2>1 DEF NodesInOrder
  <2>3. \A p \in Paths : StartOf[p] = m[2] => Times(m[1], p)' = Times(m[1], p)
    BY <1>1, <1>3, NodeFacts
  <2> QED BY <1>2, <2>2, <2>3, SamePaths
<1>5. \A f \in Files, p \in Paths : StartOf[p] # "root" =>
        /\ Times(f, p)' <= 1
        /\ Times(f, p)' > 0 => <<f, StartOf[p]>> \in loaded_node_paths'
  BY <1>1, <1>2, <1>3 DEF NodesInOrder
<1>6. CASE n \in loaded_node_paths
  <2>1. /\ UNCHANGED <<loaded_node_paths, call, rows>>
        /\ answered' = answered \cup {OfNode(n)}
    BY <1>6 DEF StartNode
  <2>2. \A m \in Nodes : OfNode(m) \in answered' => m \in loaded_node_paths
    BY <1>1, <1>6, <2>1, MarksDiffer DEF NodesInOrder
  <2> QED BY <1>2, <1>4, <1>5, <2>1, <2>2 DEF NodesInOrder
<1>7. CASE n \notin loaded_node_paths
  <2>1. /\ UNCHANGED answered /\ loaded_node_paths' = loaded_node_paths \cup {n}
        /\ call' = OfNode(n) /\ rows' = NodeRows(index, n)
    BY <1>7 DEF StartNode
  <2>2. \A p \in Paths : StartOf[p] = n[2] => Times(n[1], p) = 0
    <3> SUFFICES ASSUME NEW p \in Paths, StartOf[p] = n[2] PROVE Times(n[1], p) = 0
      OBVIOUS
    <3>1. Times(n[1], p) > 0 => <<n[1], StartOf[p]>> \in loaded_node_paths
      BY <1>1, NodeFacts DEF NodesInOrder
    <3>2. ~(Times(n[1], p) > 0)
      BY <1>7, <3>1, NodeFacts
    <3> QED BY <1>3, <3>2, NodeFacts
  <2>3. HasPaths(n, rows)'
    <3> PICK ps \in {{}} \cup {PathsOf[v] : v \in Versions} :
               NodeRows(index, n) = {<<n[1], p>> : p \in {x \in ps : StartOf[x] = n[2]}}
      BY <1>1, NodeRowsAre
    <3>1. \A row \in rows' : row[1] = n[1] /\ row[2] \in ps /\ StartOf[row[2]] = n[2]
      BY <2>1
    <3>2. ASSUME NEW p \in Paths, StartOf[p] = n[2]
          PROVE  Times(n[1], p)' = IF p \in ps /\ <<n[1], p>> \notin rows' THEN 1 ELSE 0
      <4>1. Times(n[1], p)' = 0
        BY <1>3, <2>2, <3>2, NodeFacts
      <4>2. p \in ps => <<n[1], p>> \in rows'
        BY <2>1, <3>2
      <4> QED BY <4>1, <4>2
    <3> QED BY <3>1, <3>2 DEF HasPaths
  <2>4. OfNode(n) \notin answered /\ call'.node = n
    BY <1>1, <1>7, <2>1, CallTypes DEF NodesInOrder
  <2>5. call'.kind = "node" =>
           /\ call'.node \in loaded_node_paths'
           /\ OfNode(call'.node) \notin answered'
           /\ HasPaths(call.node, rows)'
    BY <2>1, <2>3, <2>4 DEF HasPaths, Times
  <2>6. \A m \in Nodes : OfNode(m) \in answered' => m \in loaded_node_paths'
    BY <1>1, <2>1 DEF NodesInOrder
  <2>7. \A m \in loaded_node_paths' :
          \/ call' = OfNode(m)
          \/ HasPaths(m, {})'
          \/ OfNode(m) \in cut' /\ HasPart(m)'
    BY <1>4, <2>1
  <2> QED BY <1>5, <2>5, <2>6, <2>7 DEF NodesInOrder
<1> QED BY <1>6, <1>7

LEMMA RowNodesOrder ==
  ASSUME IInv, NEW row, RowAdded(row)
  PROVE  NodesInOrder'
<1>1. /\ UNCHANGED <<loaded_node_paths, call, answered, cut>>
      /\ row \in rows /\ rows' = rows \ {row}
      /\ call.kind \in {"node", "root"}
  BY DEF RowAdded
<1>2. /\ NodesInOrder /\ RootsInOrder /\ db \in [Files \X Paths -> Nat]
      /\ call \in Calls /\ loaded_node_paths \subseteq Nodes
  BY DEF IInv, TypeOK
<1>3. /\ row = <<row[1], row[2]>> /\ row[1] \in Files /\ row[2] \in Paths
      /\ \A f \in Files, p \in Paths :
           Times(f, p)' = IF f = row[1] /\ p = row[2] THEN Times(f, p) + 1 ELSE Times(f, p)
  BY AddedTimes
<1>4. ASSUME NEW m \in loaded_node_paths,
             \A p \in Paths : StartOf[p] = m[2] => Times(m[1], p)' = Times(m[1], p)
      PROVE  \/ call' = OfNode(m)
             \/ HasPaths(m, {})'
             \/ OfNode(m) \in cut' /\ HasPart(m)'
  <2>1. call = OfNode(m) \/ HasPaths(m, {}) \/ (OfNode(m) \in cut /\ HasPart(m))
    BY <1>2 DEF NodesInOrder
  <2> QED BY <1>1, <1>4, <2>1, SamePaths
<1>5. CASE call.kind = "root"
  <2>1. StartOf[row[2]] = "root"
    BY <1>1, <1>2, <1>5 DEF RootsInOrder
  <2>2. \A f \in Files, p \in Paths : StartOf[p] # "root" => Times(f, p)' = Times(f, p)
    BY <1>3, <2>1
  <2>3. \A m \in loaded_node_paths :
          \A p \in Paths : StartOf[p] = m[2] => Times(m[1], p)' = Times(m[1], p)
    BY <1>2, <2>2, NodeFacts
  <2>4. \A m \in loaded_node_paths :
          \/ call' = OfNode(m)
          \/ HasPaths(m, {})'
          \/ OfNode(m) \in cut' /\ HasPart(m)'
    BY <1>4, <2>3
  <2>5. \A f \in Files, p \in Paths : StartOf[p] # "root" =>
          /\ Times(f, p)' <= 1
          /\ Times(f, p)' > 0 => <<f, StartOf[p]>> \in loaded_node_paths
    BY <1>2, <2>2 DEF NodesInOrder
  <2> QED BY <1>1, <1>2, <1>5, <2>4, <2>5 DEF NodesInOrder
<1>6. CASE call.kind = "node"
  <2> PICK n \in Nodes : n = call.node
    BY <1>2, <1>6, CallTypes
  <2>9. call = OfNode(n)
    BY <1>2, <1>6, CallTypes
  <2>1. /\ n \in loaded_node_paths /\ OfNode(n) \notin answered
        /\ HasPaths(n, rows)
    BY <1>2, <1>6 DEF NodesInOrder
  <2>2. n[1] \in Files /\ n[2] # "root" /\ n = <<n[1], n[2]>>
    BY <2>1, NodeFacts
  <2> PICK ps \in {{}} \cup {PathsOf[v] : v \in Versions} :
        /\ \A r \in rows : r[1] = n[1] /\ r[2] \in ps /\ StartOf[r[2]] = n[2]
        /\ \A p \in Paths : StartOf[p] = n[2] =>
             Times(n[1], p) = IF p \in ps /\ <<n[1], p>> \notin rows THEN 1 ELSE 0
    BY <2>1 DEF HasPaths
  <2>3. /\ row[1] = n[1] /\ row[2] \in ps /\ StartOf[row[2]] = n[2]
        /\ Times(n[1], row[2]) = 0
    BY <1>1, <1>3
  <2>4. HasPaths(n, rows)'
    <3>1. \A r \in rows' : r[1] = n[1] /\ r[2] \in ps /\ StartOf[r[2]] = n[2]
      BY <1>1
    <3>2. ASSUME NEW p \in Paths, StartOf[p] = n[2]
          PROVE  Times(n[1], p)' = IF p \in ps /\ <<n[1], p>> \notin rows' THEN 1 ELSE 0
      <4>1. CASE p = row[2]
        <5>1. Times(n[1], p)' = 1
          BY <1>3, <2>2, <2>3, <4>1
        <5>2. p \in ps /\ <<n[1], p>> \notin rows'
          BY <1>1, <1>3, <2>3, <4>1
        <5> QED BY <5>1, <5>2
      <4>2. CASE p # row[2]
        <5>1. Times(n[1], p)' = Times(n[1], p)
          BY <1>3, <2>2, <4>2
        <5>2. <<n[1], p>> # row
          BY <1>3, <4>2
        <5>3. <<n[1], p>> \in rows' <=> <<n[1], p>> \in rows
          BY <1>1, <5>2
        <5> QED BY <3>2, <5>1, <5>3
      <4> QED BY <4>1, <4>2
    <3> QED BY <3>1, <3>2 DEF HasPaths
  <2>5. \A m \in loaded_node_paths :
          \/ call' = OfNode(m)
          \/ HasPaths(m, {})'
          \/ OfNode(m) \in cut' /\ HasPart(m)'
    <3> SUFFICES ASSUME NEW m \in loaded_node_paths, m # n
                 PROVE  \/ call' = OfNode(m)
                        \/ HasPaths(m, {})'
                        \/ OfNode(m) \in cut' /\ HasPart(m)'
      BY <1>1, <2>9
    <3>1. \A p \in Paths : StartOf[p] = m[2] => Times(m[1], p)' = Times(m[1], p)
      BY <1>2, <1>3, <2>2, <2>3, NodeFacts
    <3> QED BY <1>4, <3>1
  <2>6. \A f \in Files, p \in Paths : StartOf[p] # "root" =>
          /\ Times(f, p)' <= 1
          /\ Times(f, p)' > 0 => <<f, StartOf[p]>> \in loaded_node_paths
    BY <1>2, <1>3, <2>1, <2>2, <2>3 DEF NodesInOrder
  <2>7. HasPaths(call.node, rows)'
    <3>1. call'.node = n
      BY <1>1
    <3> QED BY <2>4, <3>1 DEF HasPaths, Times
  <2>8. \A m \in Nodes : OfNode(m) \in answered => m \in loaded_node_paths
    BY <1>2 DEF NodesInOrder
  <2> QED BY <1>1, <2>1, <2>5, <2>6, <2>7, <2>8 DEF NodesInOrder
<1> QED BY <1>1, <1>5, <1>6

(* A step that leaves the database, and leaves the call and its rows, or    *)
(* ends it short of them, or begins one of another kind.                    *)
LEMMA KeptNodesOrder ==
  ASSUME IInv, UNCHANGED <<db, answered, loaded_node_paths>>, cut \subseteq cut',
         \/ UNCHANGED <<call, rows>>
         \/ /\ call'.kind # "node"
            /\ call.kind = "node" => OfNode(call.node) \in cut'
  PROVE  NodesInOrder'
<1>1. NodesInOrder
  BY DEF IInv
<1>2. \A f \in Files, p \in Paths : StartOf[p] # "root" =>
        /\ Times(f, p)' <= 1
        /\ Times(f, p)' > 0 => <<f, StartOf[p]>> \in loaded_node_paths
  BY <1>1 DEF NodesInOrder, Times
<1>3. \A m \in loaded_node_paths :
        \/ call' = OfNode(m)
        \/ HasPaths(m, {})'
        \/ OfNode(m) \in cut' /\ HasPart(m)'
  <2> SUFFICES ASSUME NEW m \in loaded_node_paths
               PROVE  \/ call' = OfNode(m)
                      \/ HasPaths(m, {})'
                      \/ OfNode(m) \in cut' /\ HasPart(m)'
    OBVIOUS
  <2>1. /\ HasPaths(m, {}) => HasPaths(m, {})'
        /\ HasPart(m) => HasPart(m)'
    BY DEF HasPaths, HasPart, Times
  <2>2. CASE call # OfNode(m)
    BY <1>1, <2>1, <2>2 DEF NodesInOrder
  <2>3. CASE call = OfNode(m) /\ UNCHANGED call
    BY <2>3
  <2>4. CASE call = OfNode(m) /\ OfNode(call.node) \in cut'
    <3>1. call.kind = "node" /\ call.node = m
      BY <2>4 DEF OfNode
    <3>2. HasPaths(m, rows)
      BY <1>1, <3>1 DEF NodesInOrder
    <3>3. HasPart(m)
      BY <3>2, SomePaths
    <3> QED BY <2>1, <2>4, <3>1, <3>3
  <2>5. call = OfNode(m) => call.kind = "node"
    BY DEF OfNode
  <2> QED BY <2>2, <2>3, <2>4, <2>5
<1>4. CASE call'.kind # "node"
  BY <1>1, <1>2, <1>3, <1>4 DEF NodesInOrder
<1>5. CASE UNCHANGED <<call, rows>>
  <2>1. call.kind = "node" => HasPaths(call.node, rows)'
    BY <1>1, <1>5 DEF NodesInOrder, HasPaths, Times
  <2> QED BY <1>1, <1>2, <1>3, <1>5, <2>1 DEF NodesInOrder
<1> QED BY <1>4, <1>5

LEMMA FinishNodesOrder ==
  ASSUME IInv, Finish
  PROVE  NodesInOrder'
<1>1. /\ UNCHANGED <<db, loaded_node_paths, cut>> /\ rows = {} /\ call' = Idle
  BY DEF Finish, EndCall
<1>2. NodesInOrder /\ call \in Calls
  BY DEF IInv, TypeOK
<1>3. \A n \in Nodes : OfNode(n) \in answered' =>
        OfNode(n) \in answered \/ (call.kind = "node" /\ n = call.node)
  BY <1>2, MarksDiffer DEF Finish
<1>4. \A n \in Nodes : OfNode(n) \in answered' => n \in loaded_node_paths
  BY <1>2, <1>3 DEF NodesInOrder
<1>5. \A m \in loaded_node_paths : HasPaths(m, {})' \/ (OfNode(m) \in cut' /\ HasPart(m)')
  <2> SUFFICES ASSUME NEW m \in loaded_node_paths
               PROVE  HasPaths(m, {})' \/ (OfNode(m) \in cut' /\ HasPart(m)')
    OBVIOUS
  <2>1. call = OfNode(m) => HasPaths(m, rows)
    <3>1. call = OfNode(m) => call.kind = "node" /\ call.node = m
      BY DEF OfNode
    <3> QED BY <1>2, <3>1 DEF NodesInOrder
  <2>2. HasPaths(m, {}) \/ (OfNode(m) \in cut /\ HasPart(m))
    BY <1>1, <1>2, <2>1 DEF NodesInOrder
  <2> QED BY <1>1, <2>2 DEF HasPaths, HasPart, Times
<1>6. \A f \in Files, p \in Paths : StartOf[p] # "root" =>
        /\ Times(f, p)' <= 1
        /\ Times(f, p)' > 0 => <<f, StartOf[p]>> \in loaded_node_paths
  BY <1>1, <1>2 DEF NodesInOrder, Times
<1>7. call'.kind # "node"
  BY <1>1, CallTypes
<1> QED BY <1>1, <1>4, <1>5, <1>6, <1>7 DEF NodesInOrder

LEMMA ClearNodesOrder ==
  ASSUME IInv, Clear \/ ClearPaths
  PROVE  NodesInOrder'
<1>1. /\ db' = NoPaths /\ answered' = {} /\ loaded_node_paths' = {} /\ call' = Idle
  BY DEF Clear, ClearPaths, Ready
<1>2. \A f \in Files, p \in Paths : Times(f, p)' = 0
  BY <1>1 DEF NoPaths, Times
<1>3. call'.kind # "node"
  BY <1>1, CallTypes
<1> QED BY <1>1, <1>2, <1>3 DEF NodesInOrder

LEMMA EndNodesOrder ==
  ASSUME IInv, Fail \/ Panic
  PROVE  NodesInOrder'
<1>1. /\ UNCHANGED <<db, answered, loaded_node_paths>> /\ cut' = cut \cup Reading
      /\ call' = Idle
  BY DEF Fail, Panic, EndCall
<1>2. call'.kind # "node"
  BY <1>1, CallTypes
<1>3. call.kind = "node" => OfNode(call.node) \in cut'
  BY <1>1, ReadingIs DEF IInv, TypeOK
<1> QED BY <1>1, <1>2, <1>3, KeptNodesOrder

LEMMA NodesStep ==
  ASSUME IInv, [Next]_vars
  PROVE  NodesInOrder'
<1> USE DEF readerVars
<1>1. Ready => call.kind # "node"
  BY CallTypes DEF Ready
<1>2. CASE \E f \in Files : LoadGraph(f)
  BY <1>2, EndNodesOrder, KeptNodesOrder DEF LoadGraph
<1>3. CASE \E n \in Nodes : StartNode(n)
  BY <1>3, StartNodeOrder
<1>4. CASE PathRow
  <2> PICK row \in rows : RowAdded(row) \/ Fail \/ Panic
    BY <1>4 DEF PathRow, RowAdded
  <2> QED BY EndNodesOrder, RowNodesOrder
<1>5. CASE DirectoryRow
  <2>1. \/ Fail \/ Panic
        \/ /\ call.kind = "directory" /\ call'.kind = "directory"
           /\ UNCHANGED <<db, answered, loaded_node_paths, cut>>
    BY <1>5 DEF DirectoryRow
  <2> QED BY <2>1, EndNodesOrder, KeptNodesOrder
<1>6. CASE \/ \E fs \in Directories : StartDirectory(fs)
           \/ \E q \in Queries : StartRoot(q)
  <2>1. /\ call.kind # "node" /\ call'.kind # "node"
        /\ UNCHANGED <<db, answered, loaded_node_paths, cut>>
    BY <1>1, <1>6 DEF StartDirectory, StartRoot
  <2> QED BY <2>1, KeptNodesOrder
<1>7. CASE NextPattern
  <2>1. PICK cs : call' = [call EXCEPT !.current = cs, !.patterns = Tail(call.patterns)]
    BY <1>7 DEF NextPattern
  <2>2. call.kind = "root" /\ call'.kind = "root"
    <3>1. call \in [kind : {"root"}, stack : Queries, current : SUBSET AllPatterns,
                    patterns : Seq(AllPatterns)]
      BY <1>7 DEF NextPattern, IInv, TypeOK, Calls
    <3> QED BY <2>1, <3>1
  <2>3. UNCHANGED <<db, answered, loaded_node_paths, cut>>
    BY <1>7 DEF NextPattern
  <2> QED BY <2>2, <2>3, KeptNodesOrder
<1>8. CASE RowFails
  BY <1>8, EndNodesOrder DEF RowFails
<1>9. CASE Finish \/ Clear \/ ClearPaths
  BY <1>9, FinishNodesOrder, ClearNodesOrder
<1>10. CASE StoreChanges \/ UNCHANGED vars
  BY <1>10, KeptNodesOrder DEF StoreChanges, vars
<1> QED
  BY <1>2, <1>3, <1>4, <1>5, <1>6, <1>7, <1>8, <1>9, <1>10 DEF Next

-----------------------------------------------------------------------------
(* The paths from the root.                                                 *)

LEMMA RootRowsAre ==
  ASSUME Store!TypeOK, NEW pattern, NEW row \in RootRows(index, pattern)
  PROVE  row \in Files \X Paths /\ row[2] \in Paths /\ StartOf[row[2]] = "root"
<1>1. row \in Files \X Paths
  BY RowTypes DEF Store!TypeOK
<1>2. PICK f \in Files : row \in {<<f, p>> : p \in {x \in UNION {PathsOf[v] : v \in Stored(index, f)} :
                              StartOf[x] = "root" /\ Like(PreOf[x], pattern)}}
  BY DEF RootRows
<1> QED BY <1>1, <1>2

(* Only a call for the root reads a pattern. *)
LEMMA PatternsRead ==
  /\ \A p : OfPattern(p) \in Reading => call.kind = "root" /\ p \in call.current
  /\ \A p : OfPattern(p) \in Reading' => call'.kind = "root" /\ p \in call'.current
BY MarksDiffer DEF Reading

(* The pattern that is read was not marked before. *)
LEMMA NextRead ==
  ASSUME IInv, NextPattern
  PROVE  /\ call.kind = "root" /\ rows = {} /\ ~panicked
         /\ call'.kind = "root" /\ call'.stack = call.stack
         /\ call.patterns \in Seq(AllPatterns) /\ call.patterns # <<>>
         /\ call'.patterns = Tail(call.patterns)
         /\ LET pattern == Head(call.patterns)
            IN  \/ /\ pattern \in loaded_root_paths /\ call'.current = {}
                   /\ UNCHANGED <<loaded_root_paths, rows>>
                \/ /\ pattern \notin loaded_root_paths /\ call'.current = {pattern}
                   /\ loaded_root_paths' = loaded_root_paths \cup {pattern}
                   /\ rows' = RootRows(index, pattern)
<1>1. /\ call \in Calls /\ call.kind = "root" /\ rows = {} /\ ~panicked
      /\ call.patterns # <<>> /\ call.patterns \in Seq(AllPatterns)
  BY CallTypes DEF NextPattern, IInv, TypeOK, RootsInOrder
<1>2. Head(call.patterns) \in AllPatterns /\ Tail(call.patterns) \in Seq(AllPatterns)
  BY <1>1, HeadTailProperties
<1>3. ASSUME NEW cs \in SUBSET AllPatterns,
             call' = [call EXCEPT !.current = cs, !.patterns = Tail(call.patterns)]
      PROVE  /\ call'.kind = "root" /\ call'.stack = call.stack
             /\ call'.current = cs /\ call'.patterns = Tail(call.patterns)
  <2>1. call \in [kind : {"root"}, stack : Queries, current : SUBSET AllPatterns,
                  patterns : Seq(AllPatterns)]
    BY <1>1 DEF Calls
  <2> QED BY <1>3, <2>1
<1> QED BY <1>1, <1>2, <1>3 DEF NextPattern

(* A step that marks no pattern and answers no stack, and leaves the call,  *)
(* ends it, or begins one of another kind.                                  *)
LEMMA KeptRootsOrder ==
  ASSUME IInv,
         UNCHANGED loaded_root_paths,
         \A q \in Queries : OfStack(q) \in answered' => OfStack(q) \in answered,
         \/ UNCHANGED <<call, panicked>> /\ rows' \subseteq rows
         \/ call'.kind \in {"directory", "node"} /\ ~panicked'
         \/ call'.kind = "none" /\ rows' = {}
  PROVE  RootsInOrder'
<1>1. RootsInOrder
  BY DEF IInv
<1>2. CASE UNCHANGED <<call, panicked>> /\ rows' \subseteq rows
  <2>1. Reading' = Reading
    BY <1>2 DEF Reading
  <2> QED BY <1>1, <1>2, <2>1 DEF RootsInOrder
<1>3. CASE \/ call'.kind \in {"directory", "node"} /\ ~panicked'
           \/ call'.kind = "none" /\ rows' = {}
  <2>1. \A p : OfPattern(p) \notin Reading'
    BY <1>3, PatternsRead
  <2> QED BY <1>1, <1>3, <2>1 DEF RootsInOrder
<1> QED BY <1>2, <1>3

LEMMA EndRootsOrder ==
  ASSUME IInv, Fail \/ Panic PROVE RootsInOrder'
<1>1. call'.kind = "none" /\ rows' = {} /\ UNCHANGED <<loaded_root_paths, answered>>
  BY CallTypes DEF Fail, Panic, EndCall
<1> QED BY <1>1, KeptRootsOrder

LEMMA StartRootOrder ==
  ASSUME IInv, NEW q \in Queries, StartRoot(q)
  PROVE  RootsInOrder'
<1>1. /\ RootsInOrder /\ call.kind = "none" /\ ~panicked /\ rows = {}
  BY CallTypes DEF IInv, StartRoot, Ready, RootsInOrder
<1>2. UNCHANGED <<rows, answered, loaded_root_paths, panicked>>
  BY DEF StartRoot
<1>3. /\ call'.kind = "root" /\ call'.stack = q /\ call'.current = {}
      /\ call'.patterns = Patterns(q)
  BY DEF StartRoot
<1>4. \A p : OfPattern(p) \notin Reading'
  BY <1>3, PatternsRead
<1>5. call'.kind = "root" =>
        /\ \A row \in rows' : row[2] \in Paths /\ StartOf[row[2]] = "root"
        /\ \A i \in DOMAIN Patterns(call'.stack) :
             \/ Patterns(call'.stack)[i] \in loaded_root_paths'
             \/ \E j \in DOMAIN call'.patterns : call'.patterns[j] = Patterns(call'.stack)[i]
  BY <1>1, <1>2, <1>3
<1> QED BY <1>1, <1>2, <1>3, <1>4, <1>5 DEF RootsInOrder

LEMMA PatternRootsOrder ==
  ASSUME IInv, NextPattern
  PROVE  RootsInOrder'
<1> PICK pattern : pattern = Head(call.patterns)
  OBVIOUS
<1>1. RootsInOrder /\ Store!TypeOK
  BY DEF IInv, TypeOK
<1>2. /\ call.kind = "root" /\ rows = {} /\ ~panicked
      /\ call'.kind = "root" /\ call'.stack = call.stack
      /\ call.patterns \in Seq(AllPatterns) /\ call.patterns # <<>>
      /\ call'.patterns = Tail(call.patterns)
  BY NextRead
<1>3. /\ UNCHANGED <<answered, panicked>>
      /\ \/ /\ pattern \in loaded_root_paths /\ call'.current = {}
            /\ UNCHANGED <<loaded_root_paths, rows>>
         \/ /\ pattern \notin loaded_root_paths /\ call'.current = {pattern}
            /\ loaded_root_paths' = loaded_root_paths \cup {pattern}
            /\ rows' = RootRows(index, pattern)
  BY NextRead DEF NextPattern
<1>5. /\ Tail(call.patterns) \in Seq(AllPatterns)
      /\ Len(Tail(call.patterns)) = Len(call.patterns) - 1
      /\ \A i \in 1..Len(Tail(call.patterns)) : Tail(call.patterns)[i] = call.patterns[i + 1]
  BY <1>2, HeadTailProperties
<1>7. \A j \in DOMAIN call.patterns :
        \/ call.patterns[j] = pattern
        \/ \E k \in DOMAIN Tail(call.patterns) : Tail(call.patterns)[k] = call.patterns[j]
  <2> SUFFICES ASSUME NEW j \in DOMAIN call.patterns, j # 1
               PROVE  \E k \in DOMAIN Tail(call.patterns) :
                        Tail(call.patterns)[k] = call.patterns[j]
    OBVIOUS
  <2> DEFINE s == call.patterns
             t == Tail(call.patterns)
             m == Len(s)
  <2>1. DOMAIN s = 1..m /\ m \in Nat /\ DOMAIN t = 1..Len(t)
    BY <1>2, <1>5, LenProperties
  <2>2. Len(t) = m - 1 /\ \A i \in 1..Len(t) : t[i] = s[i + 1]
    BY <1>5
  <2> HIDE DEF s, t, m
  <2>3. j \in 1..m
    BY <2>1 DEF s
  <2>4. j - 1 \in 1..m - 1 /\ j - 1 + 1 = j
    BY <2>1, <2>3
  <2>5. t[j - 1] = s[j]
    BY <2>2, <2>4
  <2> QED BY <2>1, <2>2, <2>4, <2>5 DEF s, t
<1>8. pattern \in loaded_root_paths' /\ loaded_root_paths \subseteq loaded_root_paths'
  BY <1>3
<1>9. \A i \in DOMAIN Patterns(call.stack) :
        \/ Patterns(call.stack)[i] \in loaded_root_paths'
        \/ \E j \in DOMAIN Tail(call.patterns) :
              Tail(call.patterns)[j] = Patterns(call.stack)[i]
  <2> SUFFICES ASSUME NEW i \in DOMAIN Patterns(call.stack),
                      Patterns(call.stack)[i] \notin loaded_root_paths
               PROVE  \/ Patterns(call.stack)[i] = pattern
                      \/ \E j \in DOMAIN Tail(call.patterns) :
                            Tail(call.patterns)[j] = Patterns(call.stack)[i]
    BY <1>8
  <2> PICK j \in DOMAIN call.patterns : call.patterns[j] = Patterns(call.stack)[i]
    BY <1>1, <1>2 DEF RootsInOrder
  <2> QED BY <1>7
<1>10. \A row \in rows' : row[2] \in Paths /\ StartOf[row[2]] = "root"
  BY <1>1, <1>2, <1>3, RootRowsAre
<1>11. \A q \in Queries : OfStack(q) \in answered' =>
         \A i \in DOMAIN Patterns(q) :
           /\ Patterns(q)[i] \in loaded_root_paths'
           /\ OfPattern(Patterns(q)[i]) \notin Reading'
  <2> SUFFICES ASSUME NEW q \in Queries, OfStack(q) \in answered,
                      NEW i \in DOMAIN Patterns(q)
               PROVE  /\ Patterns(q)[i] \in loaded_root_paths'
                      /\ OfPattern(Patterns(q)[i]) \notin Reading'
    BY <1>3
  <2>1. Patterns(q)[i] \in loaded_root_paths
    BY <1>1 DEF RootsInOrder
  <2>2. Patterns(q)[i] \notin call'.current
    BY <1>3, <2>1
  <2> QED BY <1>8, <2>1, <2>2, PatternsRead
<1>14. call'.kind = "root" =>
        /\ \A row \in rows' : row[2] \in Paths /\ StartOf[row[2]] = "root"
        /\ \A i \in DOMAIN Patterns(call'.stack) :
             \/ Patterns(call'.stack)[i] \in loaded_root_paths'
             \/ \E j \in DOMAIN call'.patterns : call'.patterns[j] = Patterns(call'.stack)[i]
  BY <1>2, <1>9, <1>10
<1> QED BY <1>2, <1>3, <1>11, <1>14 DEF RootsInOrder

LEMMA FinishRootsOrder ==
  ASSUME IInv, Finish
  PROVE  RootsInOrder'
<1>1. /\ RootsInOrder /\ call'.kind = "none" /\ rows' = {} /\ rows = {}
      /\ UNCHANGED loaded_root_paths
  BY CallTypes DEF IInv, Finish, EndCall
<1>3. \A q : OfStack(q) \in answered' =>
        OfStack(q) \in answered \/ (call.kind = "root" /\ q = call.stack)
  BY MarksDiffer DEF Finish
<1>4. call.kind = "root" =>
        \A i \in DOMAIN Patterns(call.stack) : Patterns(call.stack)[i] \in loaded_root_paths
  BY <1>1 DEF Finish, RootsInOrder
<1>5. \A p : OfPattern(p) \notin Reading'
  BY <1>1, PatternsRead
<1>6. \A q \in Queries : OfStack(q) \in answered' =>
        \A i \in DOMAIN Patterns(q) : Patterns(q)[i] \in loaded_root_paths
  BY <1>1, <1>3, <1>4 DEF RootsInOrder
<1> QED BY <1>1, <1>5, <1>6 DEF RootsInOrder

LEMMA RootsStep ==
  ASSUME IInv, [Next]_vars
  PROVE  RootsInOrder'
<1> USE DEF readerVars
<1>1. Ready => call.kind = "none" /\ rows = {} /\ ~panicked
  BY CallTypes DEF Ready, IInv, RootsInOrder
<1>2. CASE \E f \in Files : LoadGraph(f)
  BY <1>2, EndRootsOrder, KeptRootsOrder DEF LoadGraph
<1>3. CASE \E n \in Nodes : StartNode(n)
  <2> PICK n \in Nodes : StartNode(n)
    BY <1>3
  <2>1. UNCHANGED <<loaded_root_paths, panicked>> /\ ~panicked
    BY <1>1 DEF StartNode
  <2>2. \A q \in Queries : OfStack(q) \in answered' => OfStack(q) \in answered
    BY MarksDiffer DEF StartNode
  <2>3. UNCHANGED <<call, rows>> \/ call'.kind = "node"
    BY CallTypes DEF StartNode
  <2> QED BY <2>1, <2>2, <2>3, KeptRootsOrder
<1>4. CASE PathRow
  <2> PICK row \in rows : RowAdded(row) \/ Fail \/ Panic
    BY <1>4 DEF PathRow, RowAdded
  <2>1. RowAdded(row) =>
          UNCHANGED <<call, panicked, loaded_root_paths, answered>> /\ rows' \subseteq rows
    BY DEF RowAdded
  <2> QED BY <2>1, EndRootsOrder, KeptRootsOrder
<1>5. CASE DirectoryRow
  <2>1. \/ Fail \/ Panic
        \/ UNCHANGED <<call, panicked, loaded_root_paths, answered>> /\ rows' \subseteq rows
    BY <1>5 DEF DirectoryRow
  <2> QED BY <2>1, EndRootsOrder, KeptRootsOrder
<1>6. CASE \E fs \in Directories : StartDirectory(fs)
  <2>1. /\ call'.kind = "directory" /\ ~panicked'
        /\ UNCHANGED <<answered, loaded_root_paths>>
    BY <1>1, <1>6 DEF StartDirectory
  <2> QED BY <2>1, KeptRootsOrder
<1>7. CASE \E q \in Queries : StartRoot(q)
  BY <1>7, StartRootOrder
<1>8. CASE NextPattern
  BY <1>8, PatternRootsOrder
<1>9. CASE RowFails
  BY <1>9, EndRootsOrder DEF RowFails
<1>10. CASE Finish
  BY <1>10, FinishRootsOrder
<1>11. CASE Clear \/ ClearPaths
  <2>1. /\ answered' = {} /\ call' = call /\ rows' = rows /\ panicked' = panicked
        /\ call.kind = "none" /\ rows = {} /\ ~panicked
    BY <1>1, <1>11 DEF Clear, ClearPaths
  <2> QED BY <2>1 DEF RootsInOrder
<1>12. CASE StoreChanges \/ UNCHANGED vars
  BY <1>12, KeptRootsOrder DEF StoreChanges, vars
<1> QED
  BY <1>2, <1>3, <1>4, <1>5, <1>6, <1>7, <1>8, <1>9, <1>10, <1>11, <1>12 DEF Next

-----------------------------------------------------------------------------
(* What is marked is loaded, or was cut off.                                *)


(* A step that keeps what is in the database, and the rows to come of what  *)
(* it does not cut off; what it marks, it reads.                            *)
LEMMA KeptLoaded ==
  ASSUME IInv, UNCHANGED <<index, settled>>, cut \subseteq cut',
         \A row \in Files \X Paths : db[row] > 0 => db'[row] > 0,
         \A what \in Reading : what \in cut' \/
           \A row \in rows \cap (Files \X Paths) :
             db'[row] > 0 \/ (what \in Reading' /\ row \in rows'),
         \A n \in loaded_node_paths' \ loaded_node_paths :
           OfNode(n) \in Reading' /\ rows' = NodeRows(index, n),
         \A p \in loaded_root_paths' \ loaded_root_paths :
           OfPattern(p) \in Reading' /\ rows' = RootRows(index, p)
  PROVE  NothingLost'
<1>1. /\ loaded_node_paths \subseteq Nodes /\ index \in [Files -> SUBSET Store!Entry]
      /\ NothingLost
  BY DEF IInv, TypeOK, Store!TypeOK
<1>2. ASSUME settled, NEW n \in loaded_node_paths'
      PROVE  OfNode(n) \in cut' \/ Loaded(OfNode(n), NodeRows(index, n))'
  <2>1. CASE n \notin loaded_node_paths
    <3>1. OfNode(n) \in Reading' /\ rows' = NodeRows(index', n)
      BY <2>1
    <3> QED BY <3>1 DEF Loaded
  <2>2. CASE n \in loaded_node_paths /\ OfNode(n) \notin cut'
    <3>1. NodeRows(index, n) \in SUBSET (Files \X Paths)
      BY <1>1, <2>2, RowTypes
    <3>2. Loaded(OfNode(n), NodeRows(index, n))
      BY <1>1, <1>2, <2>2 DEF NothingLost
    <3>3. OfNode(n) \in Reading =>
            \A row \in rows \cap (Files \X Paths) :
              db'[row] > 0 \/ (OfNode(n) \in Reading' /\ row \in rows')
      BY <2>2
    <3>4. \A row \in NodeRows(index, n) :
            db'[row] > 0 \/ (OfNode(n) \in Reading' /\ row \in rows')
      BY <3>1, <3>2, <3>3 DEF Loaded
    <3>5. NodeRows(index', n) = NodeRows(index, n)
      OBVIOUS
    <3> QED BY <3>4, <3>5 DEF Loaded
  <2> QED BY <2>1, <2>2
<1>3. ASSUME settled, NEW p \in loaded_root_paths'
      PROVE  OfPattern(p) \in cut' \/ Loaded(OfPattern(p), RootRows(index, p))'
  <2>1. CASE p \notin loaded_root_paths
    <3>1. OfPattern(p) \in Reading' /\ rows' = RootRows(index', p)
      BY <2>1
    <3> QED BY <3>1 DEF Loaded
  <2>2. CASE p \in loaded_root_paths /\ OfPattern(p) \notin cut'
    <3>1. RootRows(index, p) \in SUBSET (Files \X Paths)
      BY <1>1, RowTypes
    <3>2. Loaded(OfPattern(p), RootRows(index, p))
      BY <1>1, <1>3, <2>2 DEF NothingLost
    <3>3. OfPattern(p) \in Reading =>
            \A row \in rows \cap (Files \X Paths) :
              db'[row] > 0 \/ (OfPattern(p) \in Reading' /\ row \in rows')
      BY <2>2
    <3>4. \A row \in RootRows(index, p) :
            db'[row] > 0 \/ (OfPattern(p) \in Reading' /\ row \in rows')
      BY <3>1, <3>2, <3>3 DEF Loaded
    <3>5. RootRows(index', p) = RootRows(index, p)
      OBVIOUS
    <3> QED BY <3>4, <3>5 DEF Loaded
  <2> QED BY <2>1, <2>2
<1> QED BY <1>2, <1>3 DEF NothingLost

LEMMA LoadedStep ==
  ASSUME IInv, [Next]_vars
  PROVE  NothingLost'
<1> USE DEF readerVars
<1> DEFINE Goes == \A what \in Reading : what \in cut' \/
                     \A row \in rows \cap (Files \X Paths) :
                       db'[row] > 0 \/ (what \in Reading' /\ row \in rows')
<1>1. /\ call \in Calls /\ Store!TypeOK
      /\ call' = call => Reading' = Reading
      /\ call.kind \notin {"node", "root"} => Reading = {}
      /\ Ready => call.kind = "none"
  BY CallTypes, ReadingIs DEF IInv, TypeOK, Reading, Ready
<1>2. ASSUME UNCHANGED <<index, settled, db, loaded_node_paths, loaded_root_paths>>,
             cut \subseteq cut', Goes
      PROVE  NothingLost'
  BY <1>2, KeptLoaded
<1>3. ASSUME Fail \/ Panic PROVE NothingLost'
  <2>1. /\ UNCHANGED <<index, settled, db, loaded_node_paths, loaded_root_paths>>
        /\ cut' = cut \cup Reading
    BY <1>3 DEF Fail, Panic
  <2> QED BY <1>2, <2>1
<1>4. CASE (\E f \in Files : LoadGraph(f)) \/ RowFails
  <2>1. \/ Fail \/ Panic
        \/ /\ UNCHANGED <<index, settled, db, loaded_node_paths, loaded_root_paths, cut>>
           /\ Reading = {}
    BY <1>1, <1>4 DEF LoadGraph, RowFails
  <2> QED BY <1>2, <1>3, <2>1
<1>5. CASE DirectoryRow
  <2>1. \/ Fail \/ Panic
        \/ /\ UNCHANGED <<index, settled, db, loaded_node_paths, loaded_root_paths, cut>>
           /\ Reading = {}
    BY <1>1, <1>5 DEF DirectoryRow
  <2> QED BY <1>2, <1>3, <2>1
<1>6. CASE \/ \E fs \in Directories : StartDirectory(fs)
           \/ \E q \in Queries : StartRoot(q)
  <2>1. /\ UNCHANGED <<index, settled, db, loaded_node_paths, loaded_root_paths, cut>>
        /\ Reading = {}
    BY <1>1, <1>6 DEF StartDirectory, StartRoot
  <2> QED BY <1>2, <2>1
<1>7. CASE \E n \in Nodes : StartNode(n)
  <2> PICK n \in Nodes : StartNode(n)
    BY <1>7
  <2>1. UNCHANGED <<index, settled, db, loaded_root_paths, cut>> /\ Reading = {}
    BY <1>1 DEF StartNode
  <2>2. CASE n \in loaded_node_paths
    <3>1. UNCHANGED loaded_node_paths
      BY <2>2 DEF StartNode
    <3> QED BY <1>2, <2>1, <3>1
  <2>3. CASE n \notin loaded_node_paths
    <3>1. /\ loaded_node_paths' = loaded_node_paths \cup {n} /\ call' = OfNode(n)
          /\ rows' = NodeRows(index, n)
      BY <2>3 DEF StartNode
    <3>2. OfNode(n) \in Reading'
      BY <3>1, CallTypes DEF Reading
    <3> QED BY <2>1, <3>1, <3>2, KeptLoaded
  <2> QED BY <2>2, <2>3
<1>8. CASE NextPattern
  <2> PICK pattern : pattern = Head(call.patterns)
    OBVIOUS
  <2>1. UNCHANGED <<index, settled, db, loaded_node_paths, cut>> /\ rows = {}
    BY <1>8 DEF NextPattern
  <2>2. CASE UNCHANGED loaded_root_paths
    BY <1>2, <2>1, <2>2
  <2>3. CASE loaded_root_paths' # loaded_root_paths
    <3>1. /\ call'.kind = "root" /\ call'.current = {pattern}
          /\ loaded_root_paths' = loaded_root_paths \cup {pattern}
          /\ rows' = RootRows(index, pattern)
      BY <1>8, <2>3, NextRead
    <3>2. OfPattern(pattern) \in Reading'
      BY <3>1 DEF Reading
    <3> QED BY <2>1, <3>1, <3>2, KeptLoaded
  <2> QED BY <2>2, <2>3
<1>9. CASE PathRow
  <2> PICK added \in rows : RowAdded(added) \/ Fail \/ Panic
    BY <1>9 DEF PathRow, RowAdded
  <2>1. CASE RowAdded(added)
    <3>1. /\ UNCHANGED <<index, settled, loaded_node_paths, loaded_root_paths, cut, call>>
          /\ rows' = rows \ {added} /\ db' = [db EXCEPT ![added] = db[added] + 1]
      BY <2>1 DEF RowAdded
    <3>2. db \in [Files \X Paths -> Nat] /\ added \in Files \X Paths
      BY <2>1, AddedTimes DEF IInv, TypeOK
    <3>3. db'[added] > 0 /\ \A row \in Files \X Paths : db[row] > 0 => db'[row] > 0
      BY <3>1, <3>2
    <3>4. Goes
      BY <1>1, <3>1, <3>3
    <3> QED BY <3>1, <3>3, <3>4, KeptLoaded
  <2> QED BY <1>3, <2>1
<1>10. CASE Finish
  <2>1. /\ UNCHANGED <<index, settled, db, loaded_node_paths, loaded_root_paths, cut>>
        /\ rows = {}
    BY <1>10 DEF Finish
  <2> QED BY <1>2, <2>1
<1>11. CASE Clear \/ ClearPaths
  BY <1>11 DEF Clear, ClearPaths, NothingLost
<1>12. CASE StoreChanges
  BY <1>12 DEF StoreChanges, NothingLost
<1>13. CASE UNCHANGED vars
  <2>1. /\ UNCHANGED <<index, settled, db, loaded_node_paths, loaded_root_paths, cut, rows>>
        /\ Reading' = Reading
    BY <1>1, <1>13 DEF vars
  <2> QED BY <1>2, <2>1
<1> QED
  BY <1>4, <1>5, <1>6, <1>7, <1>8, <1>9, <1>10, <1>11, <1>12, <1>13 DEF Next

-----------------------------------------------------------------------------
(* Theorems.                                                                *)

LEMMA InitInv == Init => IInv
<1> SUFFICES ASSUME Init PROVE IInv
  OBVIOUS
<1>1. TypeOK /\ OneEntry
  BY CallTypes DEF Init, TypeOK, Store!Init, Store!TypeOK, NoIndex, NoPaths, OneEntry
<1>2. GraphsMarked /\ HandlesValid
  BY DEF Init, GraphsMarked, HandlesValid, Times, NoPaths
<1>3. NodesInOrder
  BY CallTypes DEF Init, NodesInOrder, Times, NoPaths
<1>4. RootsInOrder /\ NothingLost
  BY CallTypes DEF Init, RootsInOrder, NothingLost
<1> QED BY <1>1, <1>2, <1>3, <1>4 DEF IInv

LEMMA StepInv == IInv /\ [Next]_vars => IInv'
BY TypeStep, HandlesStep, NodesStep, RootsStep, LoadedStep DEF IInv

(* The inductive invariant: what is marked, what the call in progress has   *)
(* yet to read, what a failed call did not get through, and what is in the  *)
(* database fit together at every row.                                      *)
THEOREM Inductive == Spec => []IInv
BY InitInv, StepInv, PTL DEF Spec

(* However the index changes between two rows: the paths of a node whose    *)
(* extensions are reported as loaded are each added once, are of one content *)
(* of its file, and are all of them, and all that the index has while it    *)
(* stays, unless a call for that node failed at its rows since path data    *)
(* were cleared; then some may be missing.                                  *)
THEOREM LoadsExactly == Spec => []NodeLoadedExactly
<1>1. IInv => NodeLoadedExactly
  <2> SUFFICES ASSUME IInv PROVE NodeLoadedExactly
    OBVIOUS
  <2>1. ASSUME NEW n \in Nodes, OfNode(n) \in answered
        PROVE  n \in loaded_node_paths /\ call # OfNode(n)
    <3>1. n \in loaded_node_paths
      BY <2>1 DEF IInv, NodesInOrder
    <3>2. call = OfNode(n) => call.kind = "node" /\ call.node = n
      BY DEF OfNode
    <3> QED BY <2>1, <3>1, <3>2 DEF IInv, NodesInOrder
  <2>2. ASSUME NEW n \in Nodes, OfNode(n) \in answered
        PROVE  \E ps \in {{}} \cup {PathsOf[v] : v \in Versions} :
                 \A p \in Paths : StartOf[p] = n[2] =>
                   /\ Times(n[1], p) > 0 => p \in ps
                   /\ p \in ps => Times(n[1], p) > 0 \/ OfNode(n) \in cut
    <3>1. HasPaths(n, {}) \/ (OfNode(n) \in cut /\ HasPart(n))
      BY <2>1, <2>2 DEF IInv, NodesInOrder
    <3>2. CASE HasPaths(n, {})
      <4> PICK ps \in {{}} \cup {PathsOf[v] : v \in Versions} :
            \A p \in Paths : StartOf[p] = n[2] =>
               Times(n[1], p) = IF p \in ps /\ <<n[1], p>> \notin {} THEN 1 ELSE 0
        BY <3>2 DEF HasPaths
      <4>1. \A p \in Paths : StartOf[p] = n[2] => (Times(n[1], p) > 0 <=> p \in ps)
        OBVIOUS
      <4> QED BY <4>1
    <3>3. CASE OfNode(n) \in cut /\ HasPart(n)
      BY <3>3 DEF HasPart
    <3> QED BY <3>1, <3>2, <3>3
  <2>3. ASSUME NEW n \in Nodes, OfNode(n) \in answered, settled, OfNode(n) \notin cut
        PROVE  \A row \in NodeRows(index, n) : db[row] > 0
    <3>1. Loaded(OfNode(n), NodeRows(index, n))
      BY <2>1, <2>3 DEF IInv, NothingLost
    <3>2. call \in Calls
      BY DEF IInv, TypeOK
    <3>3. OfNode(n) \notin Reading
      BY <2>1, <2>3, <3>2, CallTypes, ReadingIs, MarksDiffer
    <3> QED BY <3>1, <3>3 DEF Loaded
  <2>4. \A f \in Files, p \in Paths : StartOf[p] # "root" => Times(f, p) <= 1
    BY DEF IInv, NodesInOrder
  <2> QED BY <2>2, <2>3, <2>4 DEF NodeLoadedExactly
<1> QED BY Inductive, <1>1, PTL

(* Every path in the database finds its nodes in the graph that is loaded.  *)
THEOREM HandlesStayValid == Spec => []HandlesValid
<1>1. IInv => HandlesValid
  BY DEF IInv
<1> QED BY Inductive, <1>1, PTL

(* The two lookups agree on every stack and precondition with symbols, if   *)
(* no symbol has a backslash in it, which LIKE would take for an escape,    *)
(* and as long as no call failed at the rows of one of the stack's patterns. *)
THEOREM ExtensionsAreFound ==
  ASSUME NoEscapes PROVE Spec => []ExtensionsFound
<1>1. IInv => ExtensionsFound
  <2> SUFFICES ASSUME IInv, NEW q \in Queries, OfStack(q) \in answered
               PROVE  /\ \A row \in Found(q) :
                           Compatible(q, PreOf[row[2]]) /\ Hits(q, PreOf[row[2]]) = 1
                      /\ /\ q.symbols # <<>> /\ settled
                         /\ \A i \in DOMAIN Patterns(q) : OfPattern(Patterns(q)[i]) \notin cut
                         => \A row \in StoredRootPaths :
                              PreOf[row[2]].symbols # <<>> /\ Compatible(q, PreOf[row[2]])
                              => row \in Found(q)
    BY DEF ExtensionsFound
  <2>1. q \in Stacks
    BY QueryPatterns
  <2>2. \A row \in Found(q) :
          Compatible(q, PreOf[row[2]]) /\ Hits(q, PreOf[row[2]]) = 1
    <3> SUFFICES ASSUME NEW row \in Found(q)
                 PROVE  Compatible(q, PreOf[row[2]]) /\ Hits(q, PreOf[row[2]]) = 1
      OBVIOUS
    <3>1. row[2] \in Paths /\ StartOf[row[2]] = "root" /\ Hits(q, PreOf[row[2]]) > 0
      BY DEF Found
    <3>2. PreOf[row[2]] \in Stacks
      BY <3>1, ReaderAssumption
    <3> QED BY <2>1, <3>1, <3>2, HitsAre
  <2>3. ASSUME q.symbols # <<>>, settled,
               \A i \in DOMAIN Patterns(q) : OfPattern(Patterns(q)[i]) \notin cut,
               NEW row \in StoredRootPaths,
               PreOf[row[2]].symbols # <<>>, Compatible(q, PreOf[row[2]])
        PROVE  row \in Found(q)
    <3> PICK f \in Files : row \in {<<f, p>> : p \in {x \in UNION {PathsOf[v] : v \in Stored(index, f)} :
                                              StartOf[x] = "root"}}
      BY <2>3 DEF StoredRootPaths
    <3>1. UNION {PathsOf[v] : v \in Stored(index, f)} \subseteq Paths
      BY StoredTypes DEF IInv, TypeOK, Store!TypeOK
    <3>2. row \in Files \X Paths /\ row[2] \in Paths /\ StartOf[row[2]] = "root"
      BY <3>1
    <3>3. PreOf[row[2]] \in Stacks
      BY <3>2, ReaderAssumption
    <3> PICK i \in DOMAIN Patterns(q) : Like(PreOf[row[2]], Patterns(q)[i])
      BY <2>1, <2>3, <3>3, OnePatternMatches
    <3>4. row \in RootRows(index, Patterns(q)[i])
      BY DEF RootRows
    <3>5. /\ Patterns(q)[i] \in loaded_root_paths
          /\ OfPattern(Patterns(q)[i]) \notin Reading
      BY DEF IInv, RootsInOrder
    <3>6. db[row] > 0
      BY <2>3, <3>4, <3>5 DEF IInv, NothingLost, Loaded
    <3>7. Hits(q, PreOf[row[2]]) > 0
      BY <2>1, <2>3, <3>3, HitsAre
    <3> QED BY <3>2, <3>6, <3>7 DEF Found
  <2> QED BY <2>2, <2>3
<1> QED BY Inductive, <1>1, PTL
=============================================================================
