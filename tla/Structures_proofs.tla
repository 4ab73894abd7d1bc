-------------------------- MODULE Structures_proofs --------------------------
(***************************************************************************)
(* Proofs about the structures that graphs are kept in: Interning, Lists    *)
(* and StackGraph.                                                         *)
(*                                                                         *)
(* PointersValid is inductive: the pointers that Interning hands out stay  *)
(* valid for all strings, capacities and tables.  Lists, for any names,    *)
(* elements and keys, and arenas of any size: induction over handles is by *)
(* the least handle that is an exception, as a cell comes after its tail.  *)
(* StackGraph, for any files, payloads, bounds and graphs to begin with:   *)
(* what a loop gives is proved by induction over the elements that it has  *)
(* passed.  A copy or a load mirrors the graph that it was made from, and  *)
(* two graphs that mirror each other have the same content.                *)
(***************************************************************************)
EXTENDS Interning, Lists, StackGraph, FiniteSetTheorems, WellFoundedInduction, TLAPS

-----------------------------------------------------------------------------
(* Interning *)

(* The effect of an addition on what was placed and on the tables, in       *)
(* either buffer.                                                           *)
LEMMA PlaceKeepsHandles ==
  ASSUME PointersValid, NEW t \in Tables, NEW s \in Strings, NEW b \in Nat, NEW start \in Nat,
         Handles(t, s) = {}, Place(t, s, b, start)
  PROVE  /\ placed' \in Seq(Placement)
         /\ Len(placed') = Len(placed) + 1
         /\ placed'[Len(placed) + 1] = [string |-> s, buffer |-> b, start |-> start]
         /\ \A i \in DOMAIN placed : placed'[i] = placed[i]
         /\ table' \in [Tables -> Seq(Nat)]
         /\ HandlesUnique'
<1> DEFINE n == Len(placed) + 1
           new == [string |-> s, buffer |-> b, start |-> start]
<1>1. /\ placed \in Seq(Placement) /\ table \in [Tables -> Seq(Nat)] /\ HandlesUnique
  BY DEF PointersValid, TypeOK
<1>2. new \in Placement /\ n \in Nat
  BY <1>1 DEF Placement
<1>3. /\ placed' = Append(placed, new)
      /\ table' = [table EXCEPT ![t] = Append(@, n)]
  BY DEF Place
<1>4. /\ placed' \in Seq(Placement) /\ Len(placed') = n /\ placed'[n] = new
      /\ \A i \in DOMAIN placed : placed'[i] = placed[i]
  BY <1>1, <1>2, <1>3
<1>5. table' \in [Tables -> Seq(Nat)]
  BY <1>1, <1>2, <1>3
<1>6. \A u \in Tables \ {t} : table'[u] = table[u]
  BY <1>1, <1>3
<1>7. /\ Len(table'[t]) = Len(table[t]) + 1 /\ table'[t][Len(table[t]) + 1] = n
      /\ \A h \in DOMAIN table[t] : table'[t][h] = table[t][h]
  BY <1>1, <1>2, <1>3
<1>8. \A u \in Tables : \A h \in DOMAIN table[u] :
        table[u][h] \in DOMAIN placed /\ placed'[table[u][h]] = placed[table[u][h]]
  BY <1>1, <1>4 DEF HandlesUnique
<1>9. \A h \in DOMAIN table[t] : placed[table[t][h]].string # s
  BY DEF Handles
<1>10. ASSUME NEW u \in Tables
       PROVE  /\ \A h \in DOMAIN table'[u] : table'[u][h] \in DOMAIN placed'
              /\ \A h, k \in DOMAIN table'[u] :
                   placed'[table'[u][h]].string = placed'[table'[u][k]].string => h = k
  <2>1. CASE u # t
    <3>1. table'[u] = table[u] /\ table[u] \in Seq(Nat)
      BY <2>1, <1>1, <1>6
    <3>2. \A h \in DOMAIN table[u] :
            table[u][h] \in DOMAIN placed' /\ placed'[table[u][h]] = placed[table[u][h]]
      <4>1. DOMAIN placed \subseteq DOMAIN placed'
        BY <1>1, <1>4
      <4> QED BY <4>1, <1>8
    <3>3. \A h, k \in DOMAIN table[u] :
            placed[table[u][h]].string = placed[table[u][k]].string => h = k
      BY <1>1 DEF HandlesUnique
    <3> QED BY <3>1, <3>2, <3>3
  <2>2. CASE u = t
    <3>1. table[t] \in Seq(Nat) /\ table'[t] \in Seq(Nat)
      BY <1>1, <1>5
    <3>2. \A h \in DOMAIN table'[t] : h \in DOMAIN table[t] \/ h = Len(table[t]) + 1
      BY <3>1, <1>7
    <3>3. \A h \in DOMAIN table'[t] : table'[t][h] \in DOMAIN placed'
      <4>1. DOMAIN placed \subseteq DOMAIN placed' /\ n \in DOMAIN placed'
        BY <1>1, <1>4
      <4>2. \A h \in DOMAIN table[t] : table'[t][h] \in DOMAIN placed
        BY <1>7, <1>8
      <4> QED BY <4>1, <4>2, <3>2, <1>7
    <3>4. \A h \in DOMAIN table[t] :
            placed'[table'[t][h]].string = placed[table[t][h]].string
      BY <1>7, <1>8
    <3>5. placed'[table'[t][Len(table[t]) + 1]].string = s
      BY <1>4, <1>7
    <3>6. ASSUME NEW h \in DOMAIN table'[t], NEW k \in DOMAIN table'[t],
                 placed'[table'[t][h]].string = placed'[table'[t][k]].string
          PROVE  h = k
      <4>1. CASE h \in DOMAIN table[t] /\ k \in DOMAIN table[t]
        BY <4>1, <3>4, <3>6, <1>1 DEF HandlesUnique
      <4>2. CASE h = Len(table[t]) + 1 /\ k \in DOMAIN table[t]
        BY <4>2, <3>4, <3>5, <3>6, <1>9
      <4>3. CASE h \in DOMAIN table[t] /\ k = Len(table[t]) + 1
        BY <4>3, <3>4, <3>5, <3>6, <1>9
      <4>4. CASE h = Len(table[t]) + 1 /\ k = Len(table[t]) + 1
        BY <4>4
      <4> QED BY <4>1, <4>2, <4>3, <4>4, <3>2
    <3> QED BY <2>2, <3>3, <3>6
  <2> QED BY <2>1, <2>2
<1> QED BY <1>4, <1>5, <1>10 DEF HandlesUnique

(* Init establishes the invariant. *)
LEMMA InitPointers == Init => PointersValid
<1> SUFFICES ASSUME Init PROVE PointersValid
  OBVIOUS
<1> USE DEF Init
<1>1. TypeOK
  BY InterningAssumption DEF TypeOK, Buffer
<1>2. BuffersStay
  BY InterningAssumption DEF BuffersStay
<1>3. Inside /\ Disjoint /\ HandlesUnique
  BY DEF Inside, Disjoint, HandlesUnique
<1> QED BY <1>1, <1>2, <1>3 DEF PointersValid

(* A string that fits is put after all strings of the current buffer.       *)
LEMMA CurrentKeepsPointers ==
  ASSUME PointersValid, NEW t \in Tables, NEW s \in Strings, AddToCurrent(t, s)
  PROVE  PointersValid'
<1> DEFINE last == Len(buffers)
           n == Len(placed) + 1
<1>1. /\ buffers \in Seq(Buffer) /\ last \in DOMAIN buffers /\ placed \in Seq(Placement)
      /\ BuffersStay /\ Inside /\ Disjoint
  BY DEF PointersValid, TypeOK
<1>2. /\ Size[s] \in Nat
      /\ \A i \in DOMAIN placed :
           placed[i].string \in Strings /\ placed[i].start \in Nat
           /\ Size[placed[i].string] \in Nat
  <2>1. \A i \in DOMAIN placed : placed[i] \in Placement
    BY <1>1
  <2> QED BY <2>1, InterningAssumption DEF Placement
<1>3. /\ Current \in Buffer /\ Current = buffers[last]
  BY <1>1 DEF Current
<1>4. /\ Current.used \in Nat /\ Current.capacity \in Nat /\ last \in Nat
  BY <1>1, <1>3 DEF Buffer
<1>5. /\ Handles(t, s) = {} /\ Size[s] <= Current.capacity - Current.used
      /\ buffers' = [buffers EXCEPT ![last].used = @ + Size[s]]
      /\ Place(t, s, last, Current.used)
  BY DEF AddToCurrent, Fits
<1>6. /\ placed' \in Seq(Placement) /\ Len(placed') = n
      /\ placed'[n] = [string |-> s, buffer |-> last, start |-> Current.used]
      /\ \A i \in DOMAIN placed : placed'[i] = placed[i]
      /\ table' \in [Tables -> Seq(Nat)] /\ HandlesUnique'
  BY <1>4, <1>5, PlaceKeepsHandles
<1>7. /\ buffers' \in Seq(Buffer) /\ Len(buffers') = last
      /\ buffers'[last].used = Current.used + Size[s]
      /\ buffers'[last].capacity = Current.capacity
      /\ \A b \in DOMAIN buffers \ {last} : buffers'[b] = buffers[b]
  <2>1. [buffers[last] EXCEPT !.used = @ + Size[s]] \in Buffer
    BY <1>2, <1>3, <1>4 DEF Buffer
  <2> QED BY <2>1, <1>1, <1>3, <1>5 DEF Buffer
<1>8. TypeOK'
  BY <1>1, <1>6, <1>7 DEF TypeOK
<1>14. /\ DOMAIN buffers' = DOMAIN buffers
       /\ \A b \in DOMAIN buffers : buffers[b].used \in Nat /\ buffers'[b].used \in Nat
  <2>1. \A b \in DOMAIN buffers : buffers[b] \in Buffer
    BY <1>1
  <2>2. DOMAIN buffers' = DOMAIN buffers
    BY <1>1, <1>7
  <2>3. \A b \in DOMAIN buffers' : buffers'[b] \in Buffer
    BY <1>7
  <2> QED BY <2>1, <2>2, <2>3 DEF Buffer
<1>9. BuffersStay'
  <2> SUFFICES ASSUME NEW b \in DOMAIN buffers
               PROVE  buffers'[b].used <= buffers'[b].capacity
    BY <1>14 DEF BuffersStay
  <2>1. CASE b = last
    BY <2>1, <1>2, <1>4, <1>5, <1>7
  <2>2. CASE b # last
    BY <2>2, <1>1, <1>7 DEF BuffersStay
  <2> QED BY <2>1, <2>2
<1>10. \A i \in DOMAIN placed' : i \in DOMAIN placed \/ i = n
  BY <1>1, <1>6
<1>11. \A b \in DOMAIN buffers : buffers[b].used <= buffers'[b].used
  <2> SUFFICES ASSUME NEW b \in DOMAIN buffers PROVE buffers[b].used <= buffers'[b].used
    OBVIOUS
  <2>1. CASE b = last
    BY <2>1, <1>2, <1>3, <1>4, <1>7
  <2>2. CASE b # last
    BY <2>2, <1>7, <1>14
  <2> QED BY <2>1, <2>2
<1>12. Inside'
  <2> SUFFICES ASSUME NEW i \in DOMAIN placed'
               PROVE  /\ placed'[i].buffer \in DOMAIN buffers'
                      /\ placed'[i].start + Size[placed'[i].string]
                           <= buffers'[placed'[i].buffer].used
    BY DEF Inside
  <2>1. CASE i \in DOMAIN placed
    <3>1. /\ placed[i].start \in Nat /\ placed[i].buffer \in DOMAIN buffers
          /\ placed[i].start + Size[placed[i].string] <= buffers[placed[i].buffer].used
      BY <2>1, <1>1, <1>2 DEF Inside
    <3>2. /\ buffers[placed[i].buffer].used \in Nat /\ buffers'[placed[i].buffer].used \in Nat
          /\ buffers[placed[i].buffer].used <= buffers'[placed[i].buffer].used
      BY <3>1, <1>11, <1>14
    <3>3. placed'[i] = placed[i]
      BY <2>1, <1>6
    <3>4. Size[placed[i].string] \in Nat
      BY <2>1, <1>2
    <3>5. placed[i].start + Size[placed[i].string] <= buffers'[placed[i].buffer].used
      <4> HIDE DEF last, n
      <4> QED BY <3>1, <3>2, <3>4
    <3> QED BY <3>1, <3>3, <3>5, <1>14
  <2>2. CASE i = n
    BY <2>2, <1>1, <1>2, <1>4, <1>6, <1>7
  <2> QED BY <2>1, <2>2, <1>10
<1>13. Disjoint'
  <2> SUFFICES ASSUME NEW i \in DOMAIN placed', NEW j \in DOMAIN placed',
                      i < j, placed'[i].buffer = placed'[j].buffer
               PROVE  placed'[i].start + Size[placed'[i].string] <= placed'[j].start
    BY DEF Disjoint
  <2>1. i \in DOMAIN placed
    BY <1>1, <1>6
  <2>2. CASE j \in DOMAIN placed
    BY <2>1, <2>2, <1>1, <1>6 DEF Disjoint
  <2>3. CASE j = n
    BY <2>1, <2>3, <1>1, <1>3, <1>6 DEF Inside
  <2> QED BY <2>2, <2>3, <1>10
<1> QED BY <1>6, <1>8, <1>9, <1>12, <1>13 DEF PointersValid

(* One that does not gets a buffer of its own, which is larger than it is.  *)
LEMMA NewKeepsPointers ==
  ASSUME PointersValid, NEW t \in Tables, NEW s \in Strings, AddToNew(t, s)
  PROVE  PointersValid'
<1> DEFINE last == Len(buffers) + 1
           n == Len(placed) + 1
<1>1. /\ buffers \in Seq(Buffer) /\ Len(buffers) > 0 /\ placed \in Seq(Placement)
      /\ BuffersStay /\ Inside /\ Disjoint
  BY DEF PointersValid, TypeOK
<1>2. Size[s] \in Nat /\ last \in Nat
  BY <1>1, InterningAssumption
<1>3. PICK c \in NextCapacities(Current.capacity, Size[s]) :
        buffers' = Append(buffers, [capacity |-> c, used |-> Size[s]])
  BY DEF AddToNew
<1>4. c \in Nat /\ Size[s] <= c
  BY <1>2, <1>3, InterningAssumption DEF NextCapacities
<1>5. Handles(t, s) = {} /\ Place(t, s, last, 0)
  BY DEF AddToNew
<1>6. /\ placed' \in Seq(Placement) /\ Len(placed') = n
      /\ placed'[n] = [string |-> s, buffer |-> last, start |-> 0]
      /\ \A i \in DOMAIN placed : placed'[i] = placed[i]
      /\ table' \in [Tables -> Seq(Nat)] /\ HandlesUnique'
  BY <1>2, <1>5, PlaceKeepsHandles
<1>7. /\ buffers' \in Seq(Buffer) /\ Len(buffers') = last
      /\ buffers'[last] = [capacity |-> c, used |-> Size[s]]
      /\ \A b \in DOMAIN buffers : buffers'[b] = buffers[b]
  <2>1. [capacity |-> c, used |-> Size[s]] \in Buffer
    BY <1>2, <1>4 DEF Buffer
  <2> QED BY <2>1, <1>1, <1>3
<1>8. TypeOK'
  BY <1>1, <1>6, <1>7 DEF TypeOK
<1>9. \A b \in DOMAIN buffers' : b \in DOMAIN buffers \/ b = last
  BY <1>1, <1>7
<1>10. BuffersStay'
  BY <1>1, <1>4, <1>7, <1>9 DEF BuffersStay
<1>11. \A i \in DOMAIN placed' : i \in DOMAIN placed \/ i = n
  BY <1>1, <1>6
<1>12. Inside'
  <2> SUFFICES ASSUME NEW i \in DOMAIN placed'
               PROVE  /\ placed'[i].buffer \in DOMAIN buffers'
                      /\ placed'[i].start + Size[placed'[i].string]
                           <= buffers'[placed'[i].buffer].used
    BY DEF Inside
  <2>1. CASE i \in DOMAIN placed
    <3>1. /\ placed[i].buffer \in DOMAIN buffers /\ placed'[i] = placed[i]
          /\ placed[i].start + Size[placed[i].string] <= buffers[placed[i].buffer].used
      BY <2>1, <1>1, <1>6 DEF Inside
    <3>2. DOMAIN buffers \subseteq DOMAIN buffers'
      BY <1>1, <1>7
    <3> QED BY <3>1, <3>2, <1>7
  <2>2. CASE i = n
    BY <2>2, <1>1, <1>2, <1>6, <1>7
  <2> QED BY <2>1, <2>2, <1>11
<1>13. Disjoint'
  <2> SUFFICES ASSUME NEW i \in DOMAIN placed', NEW j \in DOMAIN placed',
                      i < j, placed'[i].buffer = placed'[j].buffer
               PROVE  placed'[i].start + Size[placed'[i].string] <= placed'[j].start
    BY DEF Disjoint
  <2>1. i \in DOMAIN placed
    BY <1>1, <1>6
  <2>2. CASE j \in DOMAIN placed
    BY <2>1, <2>2, <1>1, <1>6 DEF Disjoint
  <2>3. CASE j = n
    <3>1. placed[i].buffer \in DOMAIN buffers
      BY <2>1, <1>1 DEF Inside
    <3> QED BY <2>1, <2>3, <3>1, <1>1, <1>6
  <2> QED BY <2>2, <2>3, <1>11
<1> QED BY <1>6, <1>8, <1>10, <1>12, <1>13 DEF PointersValid

(* Pointers into the buffers stay valid, and no two strings share bytes or  *)
(* a handle: InternedStringArena::add and the tables of StackGraph.         *)
THEOREM PointersStayValid == Spec => []PointersValid
<1>1. Init => PointersValid
  BY InitPointers
<1>2. PointersValid /\ [Next]_vars => PointersValid'
  <2> SUFFICES ASSUME PointersValid, [Next]_vars PROVE PointersValid'
    OBVIOUS
  <2>1. CASE Next
    <3>1. PICK t \in Tables, s \in Strings : AddToCurrent(t, s) \/ AddToNew(t, s)
      BY <2>1 DEF Next
    <3> QED BY <3>1, CurrentKeepsPointers, NewKeepsPointers
  <2>2. CASE UNCHANGED vars
    BY <2>2 DEF vars, PointersValid, TypeOK, BuffersStay, Inside, Disjoint, HandlesUnique
  <2> QED BY <2>1, <2>2
<1> QED BY <1>1, <1>2, PTL DEF Spec

-----------------------------------------------------------------------------
(* Lists *)

LEMMA Least ==
  ASSUME NEW T \in SUBSET Nat, T # {}
  PROVE  \E m \in T : \A k \in T : m <= k
<1> DEFINE R == OpToRel(<, Nat)
<1>1. \A x, y \in Nat : x < y => <<x, y>> \in R
  BY DEF OpToRel
<1>2. IsWellFoundedOn(R, Nat)
  BY NatLessThanWellFounded
<1> HIDE DEF R
<1>3. PICK m \in T : \A y \in T : ~ (<<y, m>> \in R)
  BY <1>2, WFMin
<1>4. ASSUME NEW k \in T PROVE m <= k
  <2>1. ~ (<<k, m>> \in R)
    BY <1>3
  <2>2. k \in Nat /\ m \in Nat
    OBVIOUS
  <2>3. ~ (k < m)
    BY <1>1, <2>1, <2>2
  <2> QED BY <2>2, <2>3
<1> QED BY <1>4

-----------------------------------------------------------------------------
(* Sequences *)

LEMMA SameSequence ==
  ASSUME NEW S, NEW s \in Seq(S), NEW t \in Seq(S), Len(s) = Len(t),
         \A i \in 1..Len(s) : s[i] = t[i]
  PROVE  s = t
  OBVIOUS

LEMMA ReverseIs ==
  ASSUME NEW S, NEW s \in Seq(S)
  PROVE  /\ Reverse(s) \in Seq(S)
         /\ Len(Reverse(s)) = Len(s)
         /\ \A i \in 1..Len(s) : Reverse(s)[i] = s[Len(s) - i + 1]
<1>1. DEFINE n == Len(s)
<1>2. n \in Nat
  OBVIOUS
<1>3. \A i \in 1..n : s[n - i + 1] \in S
  OBVIOUS
<1>4. Reverse(s) = [i \in 1..n |-> s[n - i + 1]]
  BY DEF Reverse
<1> HIDE DEF n
<1>5. Reverse(s) \in Seq(S) /\ Len(Reverse(s)) = n
  BY <1>2, <1>3, <1>4
<1> QED BY <1>4, <1>5 DEF n

LEMMA ConcatenationIs ==
  ASSUME NEW S, NEW s \in Seq(S), NEW t \in Seq(S)
  PROVE  /\ s \o t \in Seq(S) /\ Len(s \o t) = Len(s) + Len(t)
         /\ \A i \in 1..Len(s) : (s \o t)[i] = s[i]
         /\ \A i \in 1..Len(t) : (s \o t)[Len(s) + i] = t[i]
<1>1. \A i \in 1..Len(t) : (s \o t)[Len(s) + i] = t[i]
  <2> TAKE i \in 1..Len(t)
  <2>1. Len(s) + i > Len(s) /\ Len(s) + i <= Len(s) + Len(t) /\ (Len(s) + i) - Len(s) = i
    OBVIOUS
  <2> QED BY <2>1
<1>2. s \o t \in Seq(S) /\ Len(s \o t) = Len(s) + Len(t)
  OBVIOUS
<1>3. \A i \in 1..Len(s) : (s \o t)[i] = s[i]
  OBVIOUS
<1> QED BY <1>1, <1>2, <1>3

LEMMA ConsIs ==
  ASSUME NEW S, NEW e \in S, NEW s \in Seq(S)
  PROVE  /\ <<e>> \o s \in Seq(S)
         /\ Len(<<e>> \o s) = Len(s) + 1
         /\ (<<e>> \o s)[1] = e
         /\ \A i \in 1..Len(s) : (<<e>> \o s)[i + 1] = s[i]
         /\ Head(<<e>> \o s) = e
         /\ Tail(<<e>> \o s) = s
         /\ <<e>> \o s # <<>>
<1>1. /\ <<e>> \o s \in Seq(S)
      /\ Len(<<e>> \o s) = Len(s) + 1
      /\ (<<e>> \o s)[1] = e
      /\ \A i \in 1..Len(s) : (<<e>> \o s)[i + 1] = s[i]
  OBVIOUS
<1> DEFINE t == <<e>> \o s
<1>2. t \in Seq(S) /\ Len(t) = Len(s) + 1 /\ t[1] = e /\ \A i \in 1..Len(s) : t[i + 1] = s[i]
  BY <1>1
<1> HIDE DEF t
<1>3. t # <<>> /\ Head(t) = e
  BY <1>2
<1>4. Tail(t) = s
  <2>1. Tail(t) \in Seq(S) /\ Len(Tail(t)) = Len(s)
    BY <1>2, <1>3
  <2>2. \A i \in 1..Len(s) : Tail(t)[i] = s[i]
    BY <1>2, <1>3
  <2> QED BY <2>1, <2>2, SameSequence
<1> QED BY <1>1, <1>3, <1>4 DEF t

LEMMA ConsInjective ==
  ASSUME NEW S, NEW d \in S, NEW e \in S, NEW s \in Seq(S), NEW t \in Seq(S)
  PROVE  <<d>> \o s = <<e>> \o t <=> d = e /\ s = t
<1>1. Head(<<d>> \o s) = d /\ Tail(<<d>> \o s) = s
  BY ConsIs
<1>2. Head(<<e>> \o t) = e /\ Tail(<<e>> \o t) = t
  BY ConsIs
<1> QED BY <1>1, <1>2

LEMMA ReverseTwice ==
  ASSUME NEW S, NEW s \in Seq(S) PROVE Reverse(Reverse(s)) = s
<1> DEFINE r == Reverse(s)
<1>1. r \in Seq(S) /\ Len(r) = Len(s) /\ \A i \in 1..Len(s) : r[i] = s[Len(s) - i + 1]
  BY ReverseIs
<1>2. Reverse(r) \in Seq(S) /\ Len(Reverse(r)) = Len(r)
      /\ \A i \in 1..Len(r) : Reverse(r)[i] = r[Len(r) - i + 1]
  BY <1>1, ReverseIs
<1> HIDE DEF r
<1>3. \A i \in 1..Len(s) : Reverse(r)[i] = s[i]
  BY <1>1, <1>2
<1>4. Reverse(r) = s
  BY <1>1, <1>2, <1>3, SameSequence
<1> QED BY <1>4 DEF r

LEMMA ReverseCons ==
  ASSUME NEW S, NEW e \in S, NEW s \in Seq(S)
  PROVE  Reverse(<<e>> \o s) = Append(Reverse(s), e)
<1> DEFINE t == <<e>> \o s
           r == Reverse(s)
           l == Append(r, e)
           n == Len(s)
<1>1. t \in Seq(S) /\ Len(t) = n + 1 /\ t[1] = e /\ \A i \in 1..n : t[i + 1] = s[i]
  BY ConsIs
<1>2. r \in Seq(S) /\ Len(r) = n /\ \A i \in 1..n : r[i] = s[n - i + 1]
  BY ReverseIs
<1>3. n \in Nat
  OBVIOUS
<1>4. Reverse(t) \in Seq(S) /\ Len(Reverse(t)) = n + 1
      /\ \A i \in 1..n + 1 : Reverse(t)[i] = t[(n + 1) - i + 1]
  <2> HIDE DEF t, n
  <2>1. Reverse(t) \in Seq(S) /\ Len(Reverse(t)) = Len(t)
      /\ \A i \in 1..Len(t) : Reverse(t)[i] = t[Len(t) - i + 1]
    BY <1>1, ReverseIs
  <2> QED BY <1>1, <2>1
<1> HIDE DEF t, r, n
<1>5. l \in Seq(S) /\ Len(l) = n + 1 /\ l[n + 1] = e /\ \A i \in 1..n : l[i] = r[i]
  BY <1>2, <1>3
<1> HIDE DEF l
<1>6. ASSUME NEW i \in 1..n + 1 PROVE Reverse(t)[i] = l[i]
  <2>1. CASE i = n + 1
    <3>1. Reverse(t)[i] = t[1]
      <4>1. i \in 1..n + 1 /\ (n + 1) - i + 1 = 1
        BY <1>3, <2>1
      <4> QED BY <1>4, <4>1
    <3> QED BY <1>1, <1>5, <2>1, <3>1
  <2>2. CASE i # n + 1
    <3>1. i \in 1..n /\ n - i + 1 \in 1..n /\ (n + 1) - i + 1 = (n - i + 1) + 1
      BY <1>3, <2>2
    <3>2. l[i] = s[n - i + 1]
      BY <1>2, <1>5, <3>1
    <3>3. t[(n - i + 1) + 1] = s[n - i + 1]
      BY <1>1, <3>1
    <3>4. Reverse(t)[i] = t[(n + 1) - i + 1]
      BY <1>4
    <3> QED BY <3>1, <3>2, <3>3, <3>4
  <2> QED BY <2>1, <2>2
<1>7. Reverse(t) = l
  BY <1>3, <1>4, <1>5, <1>6, SameSequence
<1> QED BY <1>7 DEF t, r, l

LEMMA ReverseEmpty == Reverse(<<>>) = <<>>
  BY DEF Reverse

-----------------------------------------------------------------------------
(* The elements of a list *)

CellType == [head : Elements, tail : Nat, reversed : Nat]

(* Cells come after their tails; reversals are cells, too. *)
Cells(cells) ==
  /\ cells \in Seq(CellType)
  /\ \A h \in 1..Len(cells) : cells[h].tail \in 0..h - 1 /\ cells[h].reversed \in 0..Len(cells)

(* What Elems chooses a function for. *)
Unfolds(cells, f) ==
  f = [h \in 0..Len(cells) |-> IF h = EMPTY THEN <<>> ELSE <<cells[h].head>> \o f[cells[h].tail]]

LEMMA ElemsChosen ==
  ASSUME NEW cells, NEW handle
  PROVE  Elems(cells, handle) = (CHOOSE f : Unfolds(cells, f))[handle]
  BY DEF Elems, Unfolds

LEMMA CellIs ==
  ASSUME NEW cells, Cells(cells), NEW h \in 1..Len(cells)
  PROVE  /\ h \in Nat \ {0} /\ cells[h] \in CellType
         /\ cells[h].head \in Elements
         /\ cells[h].tail \in 0..h - 1 /\ cells[h].tail \in 0..Len(cells)
         /\ cells[h].reversed \in 0..Len(cells)
<1>1. cells \in Seq(CellType) /\ Len(cells) \in Nat
  BY DEF Cells
<1>2. cells[h] \in CellType
  BY <1>1
<1>3. cells[h].tail \in 0..h - 1 /\ cells[h].reversed \in 0..Len(cells)
  BY DEF Cells
<1> QED BY <1>1, <1>2, <1>3 DEF CellType

LEMMA UnfoldsExists ==
  ASSUME NEW cells, Cells(cells)
  PROVE  \E f : Unfolds(cells, f)
<1> DEFINE N == Len(cells)
           Upto(n, g) == /\ g \in [0..n -> Seq(Elements)]
                         /\ \A h \in 0..n :
                              g[h] = IF h = 0 THEN <<>> ELSE <<cells[h].head>> \o g[cells[h].tail]
           T == {n \in 0..N : ~ \E g : Upto(n, g)}
<1>1. N \in Nat
  BY DEF Cells
<1>2. T = {}
  <2>1. SUFFICES ASSUME T # {} PROVE FALSE
    OBVIOUS
  <2>2. PICK m \in T : \A k \in T : m <= k
    <3> HIDE DEF Upto
    <3>1. T \in SUBSET Nat
      BY <1>1
    <3> QED BY <2>1, <3>1, Least
  <2>3. m \in 0..N /\ m \in Nat
    BY <1>1
  <2>4. CASE m = 0
    <3>1. Upto(0, [h \in 0..0 |-> <<>>])
      OBVIOUS
    <3> QED BY <2>4, <3>1
  <2>5. CASE m # 0
    <3>1. m - 1 \in 0..N /\ m - 1 \in Nat /\ m \in 1..N
      BY <1>1, <2>3, <2>5
    <3>2. PICK g : Upto(m - 1, g)
      <4> HIDE DEF Upto
      <4>1. m - 1 \notin T
        BY <2>2, <2>3, <3>1
      <4> QED BY <3>1, <4>1
    <3>3. cells[m].head \in Elements /\ cells[m].tail \in 0..m - 1
      BY <3>1, CellIs
    <3>4. g[cells[m].tail] \in Seq(Elements)
      BY <3>2, <3>3
    <3>5. PICK g2 : g2 = [h \in 0..m |-> IF h = m THEN <<cells[m].head>> \o g[cells[m].tail] ELSE g[h]]
      OBVIOUS
    <3>6. <<cells[m].head>> \o g[cells[m].tail] \in Seq(Elements)
      BY <3>3, <3>4, ConsIs
    <3>7. g2 \in [0..m -> Seq(Elements)]
      <4>1. \A h \in 0..m : h # m => h \in 0..m - 1
        BY <2>3
      <4>2. \A h \in 0..m - 1 : g[h] \in Seq(Elements)
        BY <3>2
      <4> HIDE DEF Upto
      <4> QED BY <3>5, <3>6, <4>1, <4>2
    <3>8. ASSUME NEW h \in 0..m
          PROVE  g2[h] = IF h = 0 THEN <<>> ELSE <<cells[h].head>> \o g2[cells[h].tail]
      <4>1. CASE h = m
        <5>1. g2[h] = <<cells[m].head>> \o g[cells[m].tail]
          BY <3>5, <4>1
        <5>2. g2[cells[m].tail] = g[cells[m].tail]
          <6>1. cells[m].tail \in 0..m /\ cells[m].tail # m
            BY <2>3, <3>3
          <6> QED BY <3>5, <6>1
        <5> QED BY <2>5, <4>1, <5>1, <5>2
      <4>2. CASE h # m
        <5>1. h \in 0..m - 1
          BY <2>3, <4>2
        <5>2. g2[h] = g[h]
          BY <3>5, <4>2
        <5>3. g[h] = IF h = 0 THEN <<>> ELSE <<cells[h].head>> \o g[cells[h].tail]
          BY <3>2, <5>1
        <5>4. CASE h = 0
          BY <5>2, <5>3, <5>4
        <5>5. CASE h # 0
          <6>1. h \in 1..N
            BY <1>1, <2>3, <5>1, <5>5
          <6>2. cells[h].tail \in 0..h - 1
            BY <6>1, CellIs
          <6>3. cells[h].tail \in 0..m /\ cells[h].tail # m
            BY <2>3, <5>1, <6>2
          <6>4. g2[cells[h].tail] = g[cells[h].tail]
            BY <3>5, <6>3
          <6> QED BY <5>2, <5>3, <5>5, <6>4
        <5> QED BY <5>4, <5>5
      <4> QED BY <4>1, <4>2
    <3>9. Upto(m, g2)
      BY <3>7, <3>8
    <3> QED BY <3>9
  <2> QED BY <2>4, <2>5
<1>3. PICK g : Upto(N, g)
  <2> HIDE DEF Upto
  <2>1. N \in 0..N
    BY <1>1
  <2> QED BY <1>2, <2>1
<1>4. g = [h \in 0..N |-> IF h = EMPTY THEN <<>> ELSE <<cells[h].head>> \o g[cells[h].tail]]
  BY <1>3 DEF EMPTY
<1> QED BY <1>4 DEF Unfolds

LEMMA ElemsUnfold ==
  ASSUME NEW cells, Cells(cells)
  PROVE  /\ Elems(cells, 0) = <<>>
         /\ \A h \in 1..Len(cells) :
              Elems(cells, h) = <<cells[h].head>> \o Elems(cells, cells[h].tail)
<1> DEFINE f == CHOOSE g : Unfolds(cells, g)
<1>1. Unfolds(cells, f)
  BY UnfoldsExists, Zenon
<1>2. \A h : Elems(cells, h) = f[h]
  BY ElemsChosen, Zenon
<1> HIDE DEF f
<1>3. \A h \in 0..Len(cells) :
        f[h] = IF h = EMPTY THEN <<>> ELSE <<cells[h].head>> \o f[cells[h].tail]
  BY <1>1 DEF Unfolds
<1>4. Len(cells) \in Nat
  BY DEF Cells
<1>5. \A h \in 1..Len(cells) : h \in 0..Len(cells) /\ h # EMPTY
  BY <1>4 DEF EMPTY
<1>6. f[0] = <<>>
  <2>1. 0 \in 0..Len(cells) /\ 0 = EMPTY
    BY <1>4 DEF EMPTY
  <2> QED BY <1>3, <2>1, Zenon
<1>7. \A h \in 1..Len(cells) : f[h] = <<cells[h].head>> \o f[cells[h].tail]
  BY <1>3, <1>5
<1> QED BY <1>2, <1>6, <1>7, Zenon

LEMMA ElemsType ==
  ASSUME NEW cells, Cells(cells)
  PROVE  \A h \in 0..Len(cells) : Elems(cells, h) \in Seq(Elements)
<1> DEFINE T == {h \in 0..Len(cells) : Elems(cells, h) \notin Seq(Elements)}
<1>1. SUFFICES ASSUME T # {} PROVE FALSE
  OBVIOUS
<1>2. Len(cells) \in Nat
  BY DEF Cells
<1>3. PICK m \in T : \A k \in T : m <= k
  <2>1. T \in SUBSET Nat
    BY <1>2
  <2> QED BY <1>1, <2>1, Least
<1>4. CASE m = 0
  <2>1. Elems(cells, m) = <<>>
    BY <1>4, ElemsUnfold
  <2>2. <<>> \in Seq(Elements)
    OBVIOUS
  <2>3. Elems(cells, m) \notin Seq(Elements)
    BY Zenon
  <2> QED BY <2>1, <2>2, <2>3, Zenon
<1>5. CASE m # 0
  <2>1. m \in 1..Len(cells)
    BY <1>2, <1>5
  <2>2. PICK t : t = cells[m].tail
    OBVIOUS
  <2>3. t \in 0..m - 1 /\ t \in 0..Len(cells) /\ cells[m].head \in Elements
    BY <2>1, <2>2, CellIs
  <2>4. Elems(cells, t) \in Seq(Elements)
    <3>1. t \notin T
      BY <1>2, <1>3, <2>1, <2>3
    <3> QED BY <2>3, <3>1
  <2>5. Elems(cells, m) = <<cells[m].head>> \o Elems(cells, t)
    BY <2>1, <2>2, ElemsUnfold
  <2>6. Elems(cells, m) \in Seq(Elements)
    BY <2>3, <2>4, <2>5, ConsIs
  <2> QED BY <2>6
<1> QED BY <1>4, <1>5

(* Only the heads and tails of cells matter for the elements. *)
LEMMA ElemsSame ==
  ASSUME NEW c, Cells(c), NEW d, Cells(d), NEW N \in Nat, N <= Len(c), N <= Len(d),
         \A h \in 1..N : c[h].head = d[h].head /\ c[h].tail = d[h].tail
  PROVE  \A h \in 0..N : Elems(c, h) = Elems(d, h)
<1> DEFINE T == {h \in 0..N : Elems(c, h) # Elems(d, h)}
<1>1. SUFFICES ASSUME T # {} PROVE FALSE
  OBVIOUS
<1>2. Len(c) \in Nat /\ Len(d) \in Nat
  BY DEF Cells
<1>3. PICK m \in T : \A k \in T : m <= k
  <2>1. T \in SUBSET Nat
    OBVIOUS
  <2> QED BY <1>1, <2>1, Least
<1>4. m \in 0..N /\ Elems(c, m) # Elems(d, m)
  OBVIOUS
<1>5. CASE m = 0
  BY <1>4, <1>5, ElemsUnfold
<1>6. CASE m # 0
  <2>1. m \in 1..N /\ m \in 1..Len(c) /\ m \in 1..Len(d)
    BY <1>2, <1>4, <1>6
  <2>2. PICK t : t = c[m].tail
    OBVIOUS
  <2>3. t \in 0..m - 1
    BY <2>1, <2>2, CellIs
  <2>4. Elems(c, t) = Elems(d, t)
    <3>1. t \notin T /\ t \in 0..N
      BY <1>3, <2>1, <2>3
    <3> QED BY <3>1
  <2>5. Elems(c, m) = <<c[m].head>> \o Elems(c, t)
    BY <2>1, <2>2, ElemsUnfold
  <2>6. Elems(d, m) = <<d[m].head>> \o Elems(d, d[m].tail)
    BY <2>1, ElemsUnfold
  <2>7. c[m].head = d[m].head /\ d[m].tail = t
    BY <2>1, <2>2
  <2> QED BY <1>4, <2>4, <2>5, <2>6, <2>7
<1> QED BY <1>5, <1>6

LEMMA ElemsEmpty ==
  ASSUME NEW c, Cells(c), NEW h \in 0..Len(c)
  PROVE  Elems(c, h) = <<>> <=> h = 0
<1>1. Len(c) \in Nat
  BY DEF Cells
<1>2. CASE h = 0
  BY <1>2, ElemsUnfold
<1>3. CASE h # 0
  <2>1. h \in 1..Len(c)
    BY <1>1, <1>3
  <2>2. PICK t : t = c[h].tail
    OBVIOUS
  <2>3. c[h].head \in Elements /\ t \in 0..Len(c)
    BY <2>1, <2>2, CellIs
  <2>4. Elems(c, t) \in Seq(Elements)
    BY <2>3, ElemsType
  <2>5. Elems(c, h) = <<c[h].head>> \o Elems(c, t)
    BY <2>1, <2>2, ElemsUnfold
  <2>6. Elems(c, h) # <<>>
    BY <2>3, <2>4, <2>5, ConsIs
  <2> QED BY <1>3, <2>6
<1> QED BY <1>2, <1>3

-----------------------------------------------------------------------------
(* Adding cells *)

LEMMA AppendCell ==
  ASSUME NEW c, Cells(c), NEW e \in Elements, NEW t \in 0..Len(c)
  PROVE  LET d == Append(c, Cell(e, t, EMPTY))
         IN  /\ Cells(d) /\ Len(d) = Len(c) + 1
             /\ \A h \in 1..Len(c) : d[h] = c[h]
             /\ d[Len(d)] = Cell(e, t, EMPTY)
             /\ \A h \in 0..Len(c) : Elems(d, h) = Elems(c, h)
             /\ Elems(d, Len(d)) = <<e>> \o Elems(c, t)
<1>1. PICK x : x = Cell(e, t, EMPTY)
  OBVIOUS
<1>2. PICK d : d = Append(c, x)
  OBVIOUS
<1>3. c \in Seq(CellType) /\ Len(c) \in Nat
  BY DEF Cells
<1>4. x \in CellType /\ x.head = e /\ x.tail = t /\ x.reversed = 0
  BY <1>1, <1>3 DEF Cell, CellType, EMPTY
<1>5. d \in Seq(CellType) /\ Len(d) = Len(c) + 1
  BY <1>2, <1>3, <1>4
<1>6. \A h \in 1..Len(c) : d[h] = c[h]
  BY <1>2, <1>3
<1>7. d[Len(c) + 1] = x
  BY <1>2, <1>3
<1>8. Cells(d)
  <2>1. ASSUME NEW h \in 1..Len(d) PROVE d[h].tail \in 0..h - 1 /\ d[h].reversed \in 0..Len(d)
    <3>1. CASE h = Len(c) + 1
      BY <1>3, <1>4, <1>5, <1>7, <3>1
    <3>2. CASE h # Len(c) + 1
      <4>1. h \in 1..Len(c)
        BY <1>3, <1>5, <3>2
      <4>2. c[h].tail \in 0..h - 1 /\ c[h].reversed \in 0..Len(c)
        BY <4>1, CellIs
      <4>3. \A r \in 0..Len(c) : r \in 0..Len(d)
        BY <1>3, <1>5
      <4> QED BY <1>6, <4>1, <4>2, <4>3
    <3> QED BY <3>1, <3>2
  <2> QED BY <1>5, <2>1 DEF Cells
<1>9. \A h \in 0..Len(c) : Elems(d, h) = Elems(c, h)
  <2>1. Len(c) <= Len(d) /\ Len(c) <= Len(c)
    BY <1>3, <1>5
  <2>2. \A h \in 1..Len(c) : d[h].head = c[h].head /\ d[h].tail = c[h].tail
    BY <1>6
  <2> QED BY <1>3, <1>8, <2>1, <2>2, ElemsSame
<1>10. Elems(d, Len(d)) = <<e>> \o Elems(c, t)
  <2>1. Len(d) \in 1..Len(d)
    BY <1>3, <1>5
  <2>2. Elems(d, Len(d)) = <<d[Len(d)].head>> \o Elems(d, d[Len(d)].tail)
    BY <1>8, <2>1, ElemsUnfold
  <2>3. d[Len(d)].head = e /\ d[Len(d)].tail = t
    BY <1>4, <1>5, <1>7
  <2> QED BY <1>9, <2>2, <2>3
<1>11. d[Len(d)] = x
  BY <1>5, <1>7
<1> QED BY <1>1, <1>2, <1>5, <1>6, <1>8, <1>9, <1>10, <1>11

(* d is c and n cells more, the last of which begins the reversal of h and  *)
(* remembers h.                                                             *)
AddsReversal(c, h, d, n) ==
  /\ n \in Nat \ {0} /\ Cells(d) /\ Len(d) = Len(c) + n
  /\ \A k \in 1..Len(c) : d[k] = c[k]
  /\ \A i \in 1..n : d[Len(c) + i].reversed = IF i = n THEN h ELSE 0
  /\ Elems(d, Len(d)) = Reverse(Elems(c, h))

(* The cells that a reversal adds are lists of the elements so far, from    *)
(* the last one.                                                            *)
LEMMA ReversalAddedIs ==
  ASSUME NEW c, Cells(c), NEW h \in 1..Len(c),
         NEW d, d = ReversalAdded(c, h), NEW n, n = Len(Elems(c, h))
  PROVE  AddsReversal(c, h, d, n)
<1>1. PICK L : L = Len(c)
  OBVIOUS
<1>2. PICK E : E = Elems(c, h)
  OBVIOUS
<1>3. n = Len(E)
  BY <1>2
<1>4. c \in Seq(CellType) /\ L \in Nat /\ h \in 1..L
  BY <1>1 DEF Cells
<1>5. E \in Seq(Elements)
  <2>1. h \in 0..Len(c)
    BY <1>1, <1>4
  <2> QED BY <1>2, <2>1, ElemsType
<1>6. n \in Nat \ {0}
  <2>1. E # <<>>
    <3>1. h \in 0..Len(c) /\ h # 0
      BY <1>1, <1>4
    <3> QED BY <1>2, <3>1, ElemsEmpty
  <2> QED BY <1>3, <1>5, <2>1
<1>7. PICK x : x = [i \in 1..n |-> Cell(E[i], IF i = 1 THEN EMPTY ELSE L + i - 1,
                                        IF i = n THEN h ELSE EMPTY)]
  OBVIOUS
<1>8. ReversalAdded(c, h) = c \o x
  BY <1>1, <1>2, <1>3, <1>7, Zenon DEF ReversalAdded
<1>9. d = c \o x
  BY <1>8
<1>10. \A i \in 1..n : /\ x[i].head = E[i] /\ x[i].tail = (IF i = 1 THEN 0 ELSE L + i - 1)
                       /\ x[i].reversed = (IF i = n THEN h ELSE 0)
                       /\ x[i] = Cell(x[i].head, x[i].tail, x[i].reversed)
  BY <1>7 DEF Cell, EMPTY
<1>11. x \in Seq(CellType) /\ Len(x) = n
  <2>1. ASSUME NEW i \in 1..n PROVE x[i] \in CellType
    <3>1. E[i] \in Elements
      BY <1>3, <1>5
    <3>2. (IF i = 1 THEN 0 ELSE L + i - 1) \in Nat /\ (IF i = n THEN h ELSE 0) \in Nat
      BY <1>4, <1>6
    <3>3. x[i].head \in Elements /\ x[i].tail \in Nat /\ x[i].reversed \in Nat
      BY <1>10, <3>1, <3>2
    <3>4. x[i] = Cell(x[i].head, x[i].tail, x[i].reversed)
      BY <1>10
    <3> QED BY <3>3, <3>4 DEF Cell, CellType
  <2>2. DOMAIN x = 1..n /\ x = [i \in 1..n |-> x[i]]
    BY <1>7
  <2> QED BY <1>6, <2>1, <2>2
<1>12. /\ d \in Seq(CellType) /\ Len(d) = L + n
       /\ \A k \in 1..L : d[k] = c[k]
       /\ \A i \in 1..n : d[L + i] = x[i]
  <2>1. /\ c \o x \in Seq(CellType) /\ Len(c \o x) = Len(c) + Len(x)
        /\ \A i \in 1..Len(c) : (c \o x)[i] = c[i]
        /\ \A i \in 1..Len(x) : (c \o x)[Len(c) + i] = x[i]
    <3>1. c \in Seq(CellType) /\ x \in Seq(CellType)
      BY <1>4, <1>11
    <3> QED BY ONLY <3>1, ConcatenationIs
  <2> QED BY <1>1, <1>9, <1>11, <2>1, Zenon
<1>13. Cells(d)
  <2>1. ASSUME NEW k \in 1..Len(d) PROVE d[k].tail \in 0..k - 1 /\ d[k].reversed \in 0..Len(d)
    <3>1. CASE k \in 1..L
      <4>1. c[k].tail \in 0..k - 1 /\ c[k].reversed \in 0..L
        BY <1>1, <3>1, CellIs
      <4>2. \A r \in 0..L : r \in 0..Len(d)
        BY <1>4, <1>6, <1>12
      <4> QED BY <1>12, <3>1, <4>1, <4>2
    <3>2. CASE k \notin 1..L
      <4>1. PICK i \in 1..n : k = L + i
        <5>1. k - L \in 1..n /\ k = L + (k - L)
          BY <1>4, <1>6, <1>12, <3>2
        <5> QED BY <5>1
      <4>2. d[k].tail = (IF i = 1 THEN 0 ELSE L + i - 1) /\ d[k].reversed = (IF i = n THEN h ELSE 0)
        BY <1>10, <1>12, <4>1
      <4>3. (IF i = 1 THEN 0 ELSE L + i - 1) \in 0..k - 1
        BY <1>4, <1>6, <4>1
      <4>4. (IF i = n THEN h ELSE 0) \in 0..Len(d)
        BY <1>4, <1>6, <1>12
      <4> QED BY <4>2, <4>3, <4>4
    <3> QED BY <3>1, <3>2
  <2> QED BY <1>12, <2>1 DEF Cells
<1> DEFINE Upto(i) == [j \in 1..i |-> E[i - j + 1]]
           At(i) == IF i = 0 THEN 0 ELSE L + i
           T == {i \in 0..n : Elems(d, At(i)) # Upto(i)}
<1>14. T = {}
  <2>1. SUFFICES ASSUME T # {} PROVE FALSE
    OBVIOUS
  <2>2. PICK m \in T : \A k \in T : m <= k
    <3>1. T \in SUBSET Nat
      BY <1>6
    <3> HIDE DEF T
    <3> QED BY <2>1, <3>1, Least
  <2>3. m \in 0..n /\ m \in Nat /\ Elems(d, At(m)) # Upto(m)
    BY <1>6
  <2>4. CASE m = 0
    <3>1. Elems(d, 0) = <<>>
      BY <1>13, ElemsUnfold
    <3>2. Upto(0) = <<>>
      OBVIOUS
    <3>3. At(0) = 0
      OBVIOUS
    <3> HIDE DEF Upto, At
    <3> QED BY <2>3, <2>4, <3>1, <3>2, <3>3
  <2>5. CASE m # 0
    <3>1. m \in 1..n /\ m - 1 \in 0..n /\ m - 1 \in Nat /\ ~ (m <= m - 1)
      BY <1>6, <2>3, <2>5
    <3>2. Elems(d, At(m - 1)) = Upto(m - 1)
      <4>1. m - 1 \notin T
        BY <2>2, <3>1
      <4> HIDE DEF Upto, At
      <4> QED BY <3>1, <4>1
    <3>3. L + m \in 1..Len(d)
      BY <1>4, <1>6, <1>12, <3>1
    <3>4. d[L + m].head = E[m] /\ d[L + m].tail = At(m - 1)
      <4>1. (IF m = 1 THEN 0 ELSE L + m - 1) = At(m - 1)
        BY <1>4, <3>1
      <4> QED BY <1>10, <1>12, <3>1, <4>1
    <3>5. At(m) = L + m
      BY <2>5
    <3>6. Elems(d, L + m) = <<E[m]>> \o Upto(m - 1)
      <4> HIDE DEF Upto, At
      <4> QED BY <1>13, <3>2, <3>3, <3>4, ElemsUnfold
    <3>7. <<E[m]>> \o Upto(m - 1) = Upto(m)
      <4>1. E[m] \in Elements
        BY <1>3, <1>5, <3>1
      <4>2. PICK p : p = Upto(m - 1)
        OBVIOUS
      <4>3. PICK q : q = Upto(m)
        OBVIOUS
      <4>4. \A j \in 1..m - 1 : E[(m - 1) - j + 1] \in Elements
        <5>1. \A j \in 1..m - 1 : (m - 1) - j + 1 \in 1..Len(E)
          BY <1>3, <3>1
        <5>2. \A i \in 1..Len(E) : E[i] \in Elements
          BY <1>5
        <5> QED BY <5>1, <5>2, Zenon
      <4>5. \A j \in 1..m : E[m - j + 1] \in Elements
        <5>1. \A j \in 1..m : m - j + 1 \in 1..Len(E)
          BY <1>3, <3>1
        <5>2. \A i \in 1..Len(E) : E[i] \in Elements
          BY <1>5
        <5> QED BY <5>1, <5>2, Zenon
      <4>6. p \in Seq(Elements) /\ Len(p) = m - 1 /\ \A j \in 1..m - 1 : p[j] = E[(m - 1) - j + 1]
        BY <3>1, <4>2, <4>4
      <4>7. q \in Seq(Elements) /\ Len(q) = m /\ \A j \in 1..m : q[j] = E[m - j + 1]
        BY <3>1, <4>3, <4>5
      <4>8. PICK s : s = <<E[m]>> \o p
        OBVIOUS
      <4>9. s \in Seq(Elements) /\ Len(s) = Len(p) + 1 /\ s[1] = E[m]
            /\ \A j \in 1..Len(p) : s[j + 1] = p[j]
        BY <4>1, <4>6, <4>8, ConsIs
      <4>10. ASSUME NEW j \in 1..m PROVE s[j] = q[j]
        <5>1. CASE j = 1
          <6>1. q[1] = E[m - 1 + 1] /\ m - 1 + 1 = m
            BY <3>1, <4>7, <5>1
          <6> QED BY <4>9, <5>1, <6>1
        <5>2. CASE j # 1
          <6>1. j - 1 \in 1..m - 1 /\ j = (j - 1) + 1 /\ (m - 1) - (j - 1) + 1 = m - j + 1
            BY <3>1, <5>2
          <6>2. s[j] = p[j - 1]
            BY <4>6, <4>9, <6>1
          <6>3. p[j - 1] = E[(m - 1) - (j - 1) + 1]
            BY <4>6, <6>1
          <6> QED BY <4>7, <6>1, <6>2, <6>3
        <5> QED BY <5>1, <5>2
      <4>11. s = q
        <5>1. Len(s) = m
          BY <3>1, <4>6, <4>9
        <5> QED BY <4>7, <4>9, <4>10, <5>1, SameSequence
      <4> HIDE DEF Upto
      <4> QED BY <4>2, <4>3, <4>8, <4>11
    <3> HIDE DEF Upto, At
    <3> QED BY <2>3, <3>5, <3>6, <3>7
  <2> QED BY <2>4, <2>5
<1>15. Elems(d, Len(d)) = Reverse(E)
  <2>1. n \in 0..n /\ At(n) = Len(d)
    BY <1>6, <1>12
  <2>2. Reverse(E) = Upto(n)
    BY <1>3 DEF Reverse
  <2>3. Elems(d, At(n)) = Upto(n)
    <3> HIDE DEF Upto, At
    <3> QED BY <1>14, <2>1
  <2> HIDE DEF Upto, At
  <2> QED BY <2>1, <2>2, <2>3
<1>16. \A i \in 1..n : d[L + i].reversed = IF i = n THEN h ELSE 0
  BY <1>10, <1>12
<1> HIDE DEF Upto, At, T
<1> QED BY <1>1, <1>2, <1>6, <1>12, <1>13, <1>15, <1>16 DEF AddsReversal

-----------------------------------------------------------------------------
(* Remembered reversals *)

Mutual(c) ==
  \A h \in 1..Len(c) :
    c[h].reversed # 0 => /\ c[c[h].reversed].reversed = h
                         /\ Elems(c, c[h].reversed) = Reverse(Elems(c, h))

ArenaOK(c) == Cells(c) /\ Mutual(c)

(* What pushing relies on: a new cell disturbs no list. *)
LEMMA AppendOK ==
  ASSUME NEW c, ArenaOK(c), NEW e \in Elements, NEW t \in 0..Len(c)
  PROVE  ArenaOK(Append(c, Cell(e, t, EMPTY)))
<1>1. Cells(c)
  BY DEF ArenaOK
<1>2. PICK d : d = Append(c, Cell(e, t, EMPTY))
  OBVIOUS
<1>3. /\ Cells(d) /\ Len(d) = Len(c) + 1
      /\ \A h \in 1..Len(c) : d[h] = c[h]
      /\ d[Len(d)] = Cell(e, t, EMPTY)
      /\ \A h \in 0..Len(c) : Elems(d, h) = Elems(c, h)
  BY <1>1, <1>2, AppendCell
<1>4. Len(c) \in Nat
  BY <1>1 DEF Cells
<1>5. ASSUME NEW h \in 1..Len(d), d[h].reversed # 0
      PROVE  /\ d[d[h].reversed].reversed = h
             /\ Elems(d, d[h].reversed) = Reverse(Elems(d, h))
  <2>1. h # Len(d)
    BY <1>3, <1>5 DEF Cell, EMPTY
  <2>2. h \in 1..Len(c)
    BY <1>3, <1>4, <2>1
  <2>3. PICK r : r = c[h].reversed
    OBVIOUS
  <2>4. d[h].reversed = r /\ r # 0 /\ r \in 0..Len(c) /\ h \in 0..Len(c)
    BY <1>1, <1>3, <1>4, <1>5, <2>2, <2>3, CellIs
  <2>5. r \in 1..Len(c)
    BY <1>4, <2>4
  <2>6. c[r].reversed = h /\ Elems(c, r) = Reverse(Elems(c, h))
    BY <2>2, <2>3, <2>4 DEF ArenaOK, Mutual
  <2>7. d[r] = c[r] /\ Elems(d, r) = Elems(c, r) /\ Elems(d, h) = Elems(c, h)
    BY <1>3, <2>4, <2>5
  <2> QED BY <2>4, <2>6, <2>7
<1> QED BY <1>2, <1>3, <1>5 DEF ArenaOK, Mutual

(* Once the reversal of a list is available it is the one that is           *)
(* remembered, and no list has changed.                                     *)
LEMMA EnsureReversalIs ==
  ASSUME NEW c, ArenaOK(c), NEW h \in 0..Len(c)
  PROVE  LET d == EnsureReversalAvailable(c, h)
         IN  /\ ArenaOK(d) /\ Len(c) <= Len(d)
             /\ \A k \in 0..Len(c) : Elems(d, k) = Elems(c, k)
             /\ Reversed(d, h) \in 0..Len(d)
             /\ Elems(d, Reversed(d, h)) = Reverse(Elems(c, h))
<1>1. Cells(c) /\ Mutual(c) /\ Len(c) \in Nat
  BY DEF ArenaOK, Cells
<1>2. PICK E : E = Elems(c, h)
  OBVIOUS
<1>3. E \in Seq(Elements)
  BY <1>1, <1>2, ElemsType
<1>4. PICK d : d = EnsureReversalAvailable(c, h)
  OBVIOUS
<1> SUFFICES /\ ArenaOK(d) /\ Len(c) <= Len(d)
             /\ \A k \in 0..Len(c) : Elems(d, k) = Elems(c, k)
             /\ Reversed(d, h) \in 0..Len(d)
             /\ Elems(d, Reversed(d, h)) = Reverse(E)
  BY <1>2, <1>4
<1>5. CASE h = 0
  <2>1. d = c
    BY <1>4, <1>5 DEF EnsureReversalAvailable, HaveReversal, EMPTY
  <2>2. Reversed(d, h) = 0
    BY <1>5 DEF Reversed, EMPTY
  <2>3. Elems(c, 0) = <<>> /\ E = <<>>
    BY <1>1, <1>2, <1>5, ElemsUnfold
  <2> QED BY <1>1, <2>1, <2>2, <2>3, ReverseEmpty
<1>6. CASE h # 0 /\ c[h].reversed # 0
  <2>1. d = c
    BY <1>4, <1>6 DEF EnsureReversalAvailable, HaveReversal, EMPTY
  <2>2. Reversed(d, h) = c[h].reversed
    BY <1>6, <2>1 DEF Reversed, EMPTY
  <2>3. h \in 1..Len(c)
    BY <1>1, <1>6
  <2>4. c[h].reversed \in 0..Len(c)
    BY <1>1, <2>3, CellIs
  <2>5. Elems(c, c[h].reversed) = Reverse(E)
    BY <1>1, <1>2, <1>6, <2>3 DEF Mutual
  <2> QED BY <1>1, <2>1, <2>2, <2>4, <2>5
<1>7. CASE h # 0 /\ c[h].reversed = 0
  <2>1. h \in 1..Len(c)
    BY <1>1, <1>7
  <2>2. PICK a : a = ReversalAdded(c, h)
    OBVIOUS
  <2>3. PICK n : n = Len(E)
    OBVIOUS
  <2>4. /\ n \in Nat \ {0} /\ Cells(a) /\ Len(a) = Len(c) + n
        /\ \A k \in 1..Len(c) : a[k] = c[k]
        /\ \A i \in 1..n : a[Len(c) + i].reversed = IF i = n THEN h ELSE 0
        /\ Elems(a, Len(a)) = Reverse(E)
    <3>1. Cells(c) /\ h \in 1..Len(c)
      BY <1>1, <2>1
    <3>2. n = Len(Elems(c, h))
      BY <1>2, <2>3
    <3>3. AddsReversal(c, h, a, n)
      BY <2>2, <3>1, <3>2, ReversalAddedIs
    <3> QED BY <1>2, <3>3 DEF AddsReversal
  <2>5. PICK m : m = Len(a)
    OBVIOUS
  <2>6. m \in Nat /\ m > Len(c) /\ m \in 1..m /\ h \in 1..m /\ h # m /\ m # 0
    BY <1>1, <2>1, <2>4, <2>5
  <2>7. d = [a EXCEPT ![h].reversed = m]
    BY <1>4, <1>7, <2>2, <2>5 DEF EnsureReversalAvailable, HaveReversal, EMPTY
  <2>8. a \in Seq(CellType) /\ a[h] \in CellType
    <3>1. a \in Seq(CellType)
      BY <2>4 DEF Cells
    <3> QED BY <2>5, <2>6, <3>1
  <2>9. PICK x : x = [a[h] EXCEPT !.reversed = m]
    OBVIOUS
  <2>10. x \in CellType /\ x.head = a[h].head /\ x.tail = a[h].tail /\ x.reversed = m
    BY <2>6, <2>8, <2>9 DEF CellType
  <2>11. d = [a EXCEPT ![h] = x]
    BY <2>7, <2>9, Zenon
  <2>12. /\ d \in Seq(CellType) /\ Len(d) = m /\ d[h] = x
         /\ \A k \in 1..m : k # h => d[k] = a[k]
    BY <2>5, <2>6, <2>8, <2>10, <2>11
  <2>13. \A k \in 1..m : d[k].head = a[k].head /\ d[k].tail = a[k].tail
    BY <2>10, <2>12
  <2>14. Cells(d)
    <3>1. ASSUME NEW k \in 1..Len(d) PROVE d[k].tail \in 0..k - 1 /\ d[k].reversed \in 0..Len(d)
      <4>1. a[k].tail \in 0..k - 1 /\ a[k].reversed \in 0..m
        BY <2>4, <2>5, <2>12, CellIs
      <4>2. d[k].reversed \in 0..m
        BY <2>6, <2>10, <2>12, <4>1
      <4> QED BY <2>12, <2>13, <4>1, <4>2
    <3> QED BY <2>12, <3>1 DEF Cells
  <2>15. \A k \in 0..m : Elems(d, k) = Elems(a, k)
    <3>1. m <= Len(d) /\ m <= Len(a)
      BY <2>5, <2>6, <2>12
    <3>2. Cells(a) /\ m \in Nat
      BY <2>4, <2>6
    <3> QED BY ONLY <2>13, <2>14, <3>1, <3>2, ElemsSame
  <2>16. \A k \in 0..Len(c) : Elems(a, k) = Elems(c, k)
    <3>1. Len(c) <= Len(c) /\ Len(c) <= Len(a)
      BY <1>1, <2>5, <2>6
    <3>2. \A k \in 1..Len(c) : a[k].head = c[k].head /\ a[k].tail = c[k].tail
      BY <2>4
    <3> QED BY <1>1, <2>4, <3>1, <3>2, ElemsSame
  <2>17. \A k \in 0..Len(c) : Elems(d, k) = Elems(c, k)
    <3>1. \A k \in 0..Len(c) : k \in 0..m
      BY <1>1, <2>6
    <3> QED BY <2>15, <2>16, <3>1
  <2>18. Elems(d, h) = E /\ Elems(d, m) = Reverse(E)
    <3>1. m \in 0..m
      BY <2>6
    <3> QED BY <1>2, <2>4, <2>5, <2>15, <2>17, <3>1
  <2>19. d[h].reversed = m /\ d[m].reversed = h
    <3>1. a[Len(c) + n].reversed = h
      BY <2>4
    <3>2. d[m] = a[m]
      BY <2>6, <2>12
    <3> QED BY <2>4, <2>5, <2>10, <2>12, <3>1, <3>2
  <2>20. ASSUME NEW k \in 1..Len(d), d[k].reversed # 0
         PROVE  /\ d[d[k].reversed].reversed = k
                /\ Elems(d, d[k].reversed) = Reverse(Elems(d, k))
    <3>1. CASE k = h
      BY <2>18, <2>19, <3>1
    <3>2. CASE k = m
      <4>1. Reverse(Reverse(E)) = E
        BY <1>3, ReverseTwice
      <4> QED BY <2>18, <2>19, <3>2, <4>1
    <3>3. CASE k # h /\ k # m
      <4>1. d[k] = a[k] /\ k \in 1..m
        BY <2>12, <3>3
      <4>2. k \in 1..Len(c)
        <5>1. SUFFICES ASSUME k \notin 1..Len(c) PROVE FALSE
          OBVIOUS
        <5>2. PICK i \in 1..n : k = Len(c) + i /\ i # n
          <6>1. k - Len(c) \in 1..n /\ k = Len(c) + (k - Len(c)) /\ k - Len(c) # n
            BY <1>1, <2>4, <2>5, <3>3, <4>1, <5>1
          <6> QED BY <6>1
        <5> QED BY <2>4, <2>20, <4>1, <5>2
      <4>3. PICK r : r = c[k].reversed
        OBVIOUS
      <4>4. d[k].reversed = r /\ r # 0 /\ r \in 0..Len(c)
        BY <1>1, <2>4, <2>20, <4>1, <4>2, <4>3, CellIs
      <4>5. c[r].reversed = k /\ Elems(c, r) = Reverse(Elems(c, k))
        BY <1>1, <4>2, <4>3, <4>4 DEF Mutual
      <4>6. r # h /\ r \in 1..Len(c) /\ r \in 1..m /\ k \in 0..Len(c)
        BY <1>1, <1>7, <2>6, <4>2, <4>4, <4>5
      <4>7. d[r] = c[r]
        BY <2>4, <2>12, <4>6
      <4>8. Elems(d, r) = Elems(c, r) /\ Elems(d, k) = Elems(c, k)
        BY <2>17, <4>4, <4>6
      <4> QED BY <4>4, <4>5, <4>7, <4>8
    <3> QED BY <3>1, <3>2, <3>3
  <2>21. Reversed(d, h) = m
    BY <1>7, <2>19 DEF Reversed, EMPTY
  <2>22. ArenaOK(d)
    BY <2>14, <2>20 DEF ArenaOK, Mutual
  <2>23. Len(c) <= Len(d) /\ m \in 0..Len(d)
    BY <1>1, <2>6, <2>12
  <2> QED BY <2>17, <2>18, <2>21, <2>22, <2>23
<1> QED BY <1>5, <1>6, <1>7

-----------------------------------------------------------------------------
(* Deques in an arena *)

Deques(a) == [cells : 0..Len(a), backwards : BOOLEAN]

(* What a deque holds in an arena. *)
Held(a, q) == IF q.backwards THEN Reverse(Elems(a, q.cells)) ELSE Elems(a, q.cells)

(* b is what a may become: lists stay what they are. *)
Kept(a, b) == ArenaOK(b) /\ Len(a) <= Len(b) /\ \A k \in 0..Len(a) : Elems(b, k) = Elems(a, k)

LEMMA KeptSame == ASSUME NEW a, ArenaOK(a) PROVE Kept(a, a)
<1>1. Len(a) \in Nat
  BY DEF ArenaOK, Cells
<1> QED BY <1>1 DEF Kept

LEMMA KeptTransitive ==
  ASSUME NEW a, NEW b, NEW c, ArenaOK(a), Kept(a, b), Kept(b, c)
  PROVE  Kept(a, c)
<1>1. Len(a) \in Nat /\ Len(b) \in Nat /\ Len(c) \in Nat
  BY DEF ArenaOK, Cells, Kept
<1>2. Len(a) <= Len(b) /\ Len(b) <= Len(c) /\ ArenaOK(c)
  BY DEF Kept
<1>3. \A k \in 0..Len(a) : k \in 0..Len(b)
  BY <1>1, <1>2
<1>4. \A k \in 0..Len(a) : Elems(c, k) = Elems(a, k)
  BY <1>3 DEF Kept
<1> QED BY <1>1, <1>2, <1>4 DEF Kept

LEMMA HeldIs ==
  ASSUME NEW a, ArenaOK(a), NEW b, Kept(a, b), NEW q \in Deques(a)
  PROVE  /\ Held(a, q) \in Seq(Elements)
         /\ Held(a, q) = <<>> <=> q.cells = 0
         /\ q \in Deques(b) /\ Held(b, q) = Held(a, q)
<1>1. PICK h : h = q.cells
  OBVIOUS
<1>2. Cells(a) /\ Len(a) \in Nat /\ Len(b) \in Nat
  BY DEF ArenaOK, Cells, Kept
<1>3. h \in 0..Len(a)
  BY <1>1 DEF Deques
<1>4. PICK e : e = Elems(a, h)
  OBVIOUS
<1>5. e \in Seq(Elements) /\ (e = <<>> <=> h = 0) /\ Elems(b, h) = e
  BY <1>2, <1>3, <1>4, ElemsType, ElemsEmpty DEF Kept
<1>6. Reverse(e) \in Seq(Elements) /\ Len(Reverse(e)) = Len(e)
  BY <1>5, ReverseIs
<1>7. Reverse(e) = <<>> <=> e = <<>>
  BY <1>5, <1>6
<1>8. q \in Deques(b)
  BY <1>2 DEF Deques, Kept
<1>9. Held(a, q) = (IF q.backwards THEN Reverse(e) ELSE e) /\ Held(b, q) = Held(a, q)
  BY <1>1, <1>4, <1>5 DEF Held
<1> QED BY <1>1, <1>5, <1>6, <1>7, <1>8, <1>9

(* Turning a deque round keeps what it holds, and every list. *)
LEMMA DirectedIs ==
  ASSUME ArenaOK(arena), NEW q \in Deques(arena), NEW way \in BOOLEAN
  PROVE  LET turned == Directed(q, way)
         IN  /\ Kept(arena, turned.arena)
             /\ turned.deque \in Deques(turned.arena) /\ turned.deque.backwards = way
             /\ Held(turned.arena, turned.deque) = Held(arena, q)
<1>1. q = Deque(q.cells, q.backwards) /\ q.cells \in 0..Len(arena) /\ q.backwards \in BOOLEAN
  BY DEF Deques, Deque
<1>2. PICK turned : turned = Directed(q, way)
  OBVIOUS
<1>3. CASE q.backwards = way
  <2>1. turned = [arena |-> arena, deque |-> q]
    BY <1>2, <1>3 DEF Directed
  <2>2. turned.arena = arena /\ turned.deque = q
    BY <2>1
  <2> QED BY <1>2, <1>3, <2>2, KeptSame
<1>4. CASE q.backwards # way
  <2>1. PICK a : a = EnsureReversalAvailable(arena, q.cells)
    OBVIOUS
  <2>2. PICK r : r = Reversed(a, q.cells)
    OBVIOUS
  <2>3. turned = [arena |-> a, deque |-> Deque(r, way)]
    BY <1>2, <1>4, <2>1, <2>2 DEF Directed
  <2>4. turned.arena = a /\ turned.deque = Deque(r, way)
    BY <2>3
  <2>5. /\ ArenaOK(a) /\ Len(arena) <= Len(a)
        /\ \A k \in 0..Len(arena) : Elems(a, k) = Elems(arena, k)
        /\ r \in 0..Len(a)
        /\ Elems(a, r) = Reverse(Elems(arena, q.cells))
    BY <1>1, <2>1, <2>2, EnsureReversalIs
  <2>6. PICK e : e = Elems(arena, q.cells)
    OBVIOUS
  <2>7. e \in Seq(Elements)
    BY <1>1, <2>6, ElemsType DEF ArenaOK
  <2>8. Reverse(Reverse(e)) = e
    BY <2>7, ReverseTwice
  <2>9. Deque(r, way) \in Deques(a) /\ Deque(r, way).backwards = way /\ Deque(r, way).cells = r
    BY <2>5 DEF Deque, Deques
  <2>10. Held(a, Deque(r, way)) = IF way THEN Reverse(Reverse(e)) ELSE Reverse(e)
    BY <2>5, <2>6, <2>9 DEF Held
  <2>11. Held(arena, q) = IF q.backwards THEN Reverse(e) ELSE e
    BY <2>6 DEF Held
  <2>12. Held(a, Deque(r, way)) = Held(arena, q)
    <3>1. CASE way
      BY <1>1, <1>4, <2>8, <2>10, <2>11, <3>1
    <3>2. CASE ~ way
      BY <1>1, <1>4, <2>8, <2>10, <2>11, <3>2
    <3> QED BY <3>1, <3>2
  <2>13. Kept(arena, a)
    BY <2>5 DEF Kept
  <2> QED BY <1>2, <2>4, <2>9, <2>12, <2>13
<1> QED BY <1>3, <1>4

-----------------------------------------------------------------------------
(* The arena and the deques are always in order. *)

Inv == ArenaOK(arena) /\ deque \in [Names -> Deques(arena)]

AllContents == [d \in Names |-> Contents(deque[d])]

LEMMA AllContentsIs ==
  /\ AllContents = [d \in Names |-> Held(arena, deque[d])]
  /\ AllContents' = [d \in Names |-> Held(arena', deque'[d])]
<1>1. AllContents = [d \in Names |-> Held(arena, deque[d])]
  BY Zenon DEF AllContents, Contents, Held
<1>2. AllContents' = [d \in Names |-> Held(arena', deque'[d])]
  BY Zenon DEF AllContents, Contents, Held
<1> QED BY <1>1, <1>2

(* What a deque is given it holds, and the others hold what they held. *)
LEMMA Given ==
  ASSUME Inv, NEW d \in Names, Kept(arena, arena'), NEW q \in Deques(arena'),
         deque' = [deque EXCEPT ![d] = q]
  PROVE  Inv' /\ AllContents' = [AllContents EXCEPT ![d] = Held(arena', q)]
<1>1. PICK a : a = arena'
  OBVIOUS
<1>2. PICK now : now = deque'
  OBVIOUS
<1>3. ArenaOK(arena) /\ deque \in [Names -> Deques(arena)] /\ ArenaOK(a) /\ Kept(arena, a)
  BY <1>1 DEF Inv, Kept
<1>4. \A c \in Names : deque[c] \in Deques(a) /\ Held(a, deque[c]) = Held(arena, deque[c])
  <2>1. ASSUME NEW c \in Names
        PROVE  deque[c] \in Deques(a) /\ Held(a, deque[c]) = Held(arena, deque[c])
    <3>1. deque[c] \in Deques(arena)
      BY <1>3
    <3> QED BY <1>3, <3>1, HeldIs
  <2> QED BY <2>1
<1>5. now = [c \in Names |-> IF c = d THEN q ELSE deque[c]]
  BY <1>2, <1>3
<1>6. now \in [Names -> Deques(a)]
  BY <1>1, <1>4, <1>5
<1>7. Inv'
  BY <1>1, <1>2, <1>3, <1>6 DEF Inv
<1>8. AllContents = [c \in Names |-> Held(arena, deque[c])]
  BY AllContentsIs
<1>9. AllContents' = [c \in Names |-> Held(a, now[c])]
  BY <1>1, <1>2, AllContentsIs
<1>10. \A c \in Names : Held(a, now[c]) = IF c = d THEN Held(a, q) ELSE Held(arena, deque[c])
  BY <1>4, <1>5
<1>11. AllContents' = [AllContents EXCEPT ![d] = Held(a, q)]
  BY <1>8, <1>9, <1>10
<1> QED BY <1>1, <1>7, <1>11

-----------------------------------------------------------------------------
(* The operations of deques, each as the operation on sequences that it is  *)

LEMMA PushIs ==
  ASSUME Inv, NEW d \in Names, NEW e \in Elements, NEW way \in BOOLEAN, Push(d, e, way)
  PROVE  /\ Inv' /\ answer' = <<>>
         /\ AllContents' = [AllContents EXCEPT ![d] =
                              IF way THEN Append(AllContents[d], e) ELSE <<e>> \o AllContents[d]]
<1>1. PICK turned : turned = Directed(deque[d], way)
  OBVIOUS
<1>2. PICK a : a = turned.arena
  OBVIOUS
<1>3. PICK h : h = turned.deque.cells
  OBVIOUS
<1>4. PICK s : s = Held(arena, deque[d])
  OBVIOUS
<1>5. ArenaOK(arena) /\ deque[d] \in Deques(arena)
  BY DEF Inv
<1>6. Kept(arena, a) /\ turned.deque \in Deques(a) /\ turned.deque.backwards = way
      /\ Held(a, turned.deque) = s
  BY <1>1, <1>2, <1>4, <1>5, DirectedIs
<1>7. s \in Seq(Elements)
  BY <1>4, <1>5, <1>6, HeldIs
<1>8. ArenaOK(a) /\ Cells(a) /\ Len(a) \in Nat /\ h \in 0..Len(a)
  BY <1>3, <1>6 DEF Kept, ArenaOK, Cells, Deques
<1>9. PICK b : b = Append(a, Cell(e, h, EMPTY))
  OBVIOUS
<1>10. ArenaOK(b)
  BY <1>8, <1>9, AppendOK
<1>11. /\ Len(b) = Len(a) + 1
       /\ \A k \in 0..Len(a) : Elems(b, k) = Elems(a, k)
       /\ Elems(b, Len(b)) = <<e>> \o Elems(a, h)
  BY <1>8, <1>9, AppendCell
<1>12. Kept(a, b)
  BY <1>8, <1>10, <1>11 DEF Kept
<1>13. Kept(arena, b)
  BY <1>5, <1>6, <1>12, KeptTransitive
<1>14. PICK q : q = Deque(Len(b), way)
  OBVIOUS
<1>15. q \in Deques(b) /\ q.cells = Len(b) /\ q.backwards = way
  BY <1>8, <1>11, <1>14 DEF Deque, Deques
<1>16. arena' = b /\ answer' = <<>>
  BY <1>1, <1>2, <1>3, <1>9 DEF Push
<1>17. deque' = [deque EXCEPT ![d] = q]
  <2>1. deque' = [deque EXCEPT ![d] = Deque(Len(a) + 1, way)]
    BY <1>1, <1>2 DEF Push
  <2> QED BY <1>11, <1>14, <2>1
<1>18. Inv' /\ AllContents' = [AllContents EXCEPT ![d] = Held(b, q)]
  BY <1>13, <1>15, <1>16, <1>17, Given
<1>19. AllContents[d] = s
  BY <1>4, AllContentsIs
<1>20. PICK x : x = Elems(a, h)
  OBVIOUS
<1>21. x \in Seq(Elements)
  BY <1>8, <1>20, ElemsType
<1>22. s = IF way THEN Reverse(x) ELSE x
  BY <1>3, <1>6, <1>20 DEF Held
<1>23. Held(b, q) = IF way THEN Reverse(<<e>> \o x) ELSE <<e>> \o x
  BY <1>11, <1>15, <1>20 DEF Held
<1>24. Reverse(<<e>> \o x) = Append(Reverse(x), e)
  BY <1>21, ReverseCons
<1>25. Held(b, q) = IF way THEN Append(s, e) ELSE <<e>> \o s
  BY <1>22, <1>23, <1>24
<1> QED BY <1>16, <1>18, <1>19, <1>25

(* The last element and the others, of a sequence that was made by adding   *)
(* one.                                                                     *)
LEMMA LastOfAppend ==
  ASSUME NEW S, NEW s \in Seq(S), NEW e \in S
  PROVE  /\ Append(s, e)[Len(Append(s, e))] = e
         /\ SubSeq(Append(s, e), 1, Len(Append(s, e)) - 1) = s
         /\ Append(s, e) # <<>>
<1>1. PICK t : t = Append(s, e)
  OBVIOUS
<1>2. t \in Seq(S) /\ Len(t) = Len(s) + 1 /\ t[Len(s) + 1] = e /\ \A i \in 1..Len(s) : t[i] = s[i]
  BY <1>1
<1>3. SubSeq(t, 1, Len(s)) \in Seq(S) /\ Len(SubSeq(t, 1, Len(s))) = Len(s)
      /\ \A i \in 1..Len(s) : SubSeq(t, 1, Len(s))[i] = t[i]
  BY <1>2
<1>4. SubSeq(t, 1, Len(s)) = s
  BY <1>2, <1>3, SameSequence
<1>5. Len(t) - 1 = Len(s)
  BY <1>2
<1>6. t # <<>>
  BY <1>2
<1> QED BY <1>1, <1>2, <1>4, <1>5, <1>6

LEMMA PopIs ==
  ASSUME Inv, NEW d \in Names, NEW way \in BOOLEAN, Pop(d, way)
  PROVE  /\ Inv'
         /\ \/ /\ AllContents[d] = <<>> /\ answer' = <<>> /\ AllContents' = AllContents
            \/ /\ AllContents[d] # <<>> /\ way
               /\ answer' = <<AllContents[d][Len(AllContents[d])]>>
               /\ AllContents' = [AllContents EXCEPT ![d] =
                                    SubSeq(AllContents[d], 1, Len(AllContents[d]) - 1)]
            \/ /\ AllContents[d] # <<>> /\ ~ way
               /\ answer' = <<Head(AllContents[d])>>
               /\ AllContents' = [AllContents EXCEPT ![d] = Tail(AllContents[d])]
<1>1. PICK turned : turned = Directed(deque[d], way)
  OBVIOUS
<1>2. PICK a : a = turned.arena
  OBVIOUS
<1>3. PICK h : h = turned.deque.cells
  OBVIOUS
<1>4. PICK s : s = Held(arena, deque[d])
  OBVIOUS
<1>5. ArenaOK(arena) /\ deque[d] \in Deques(arena)
  BY DEF Inv
<1>6. Kept(arena, a) /\ turned.deque \in Deques(a) /\ turned.deque.backwards = way
      /\ Held(a, turned.deque) = s
  BY <1>1, <1>2, <1>4, <1>5, DirectedIs
<1>7. ArenaOK(a) /\ Cells(a) /\ Len(a) \in Nat /\ h \in 0..Len(a)
  BY <1>3, <1>6 DEF Kept, ArenaOK, Cells, Deques
<1>8. s = <<>> <=> h = 0
  <2>1. Kept(a, a)
    BY <1>7, KeptSame
  <2> QED BY <1>3, <1>6, <1>7, <2>1, HeldIs
<1>9. PICK c : c = AllContents
  OBVIOUS
<1>10. c[d] = s /\ DOMAIN c = Names /\ c = [k \in Names |-> c[k]]
  BY <1>4, <1>9, AllContentsIs
<1>11. arena' = a
  BY <1>1, <1>2 DEF Pop
<1>12. CASE h = 0
  <2>1. deque' = [deque EXCEPT ![d] = turned.deque] /\ answer' = <<>>
    BY <1>1, <1>3, <1>12 DEF Pop, EMPTY
  <2>2. Inv' /\ AllContents' = [c EXCEPT ![d] = s]
    BY <1>6, <1>9, <1>11, <2>1, Given
  <2>3. [c EXCEPT ![d] = s] = c
    BY <1>10
  <2> QED BY <1>8, <1>9, <1>10, <1>12, <2>1, <2>2, <2>3
<1>13. CASE h # 0
  <2>1. h \in 1..Len(a)
    BY <1>7, <1>13
  <2>2. PICK t : t = a[h].tail
    OBVIOUS
  <2>3. PICK e : e = a[h].head
    OBVIOUS
  <2>4. PICK q : q = Deque(t, way)
    OBVIOUS
  <2>5. t \in 0..Len(a) /\ e \in Elements
    BY <1>7, <2>1, <2>2, <2>3, CellIs
  <2>6. q \in Deques(a) /\ q.cells = t /\ q.backwards = way
    BY <2>4, <2>5 DEF Deque, Deques
  <2>7. deque' = [deque EXCEPT ![d] = q] /\ answer' = <<e>>
    BY <1>1, <1>2, <1>3, <1>13, <2>2, <2>3, <2>4 DEF Pop, EMPTY
  <2>8. Inv' /\ AllContents' = [c EXCEPT ![d] = Held(a, q)]
    BY <1>6, <1>9, <1>11, <2>6, <2>7, Given
  <2>9. PICK x : x = Elems(a, t)
    OBVIOUS
  <2>10. x \in Seq(Elements)
    BY <1>7, <2>5, <2>9, ElemsType
  <2>11. Elems(a, h) = <<e>> \o x
    BY <1>7, <2>1, <2>2, <2>3, <2>9, ElemsUnfold
  <2>12. s # <<>>
    BY <1>8, <1>13
  <2>13. CASE way
    <3>1. s = Reverse(<<e>> \o x) /\ Held(a, q) = Reverse(x)
      BY <1>3, <1>6, <2>6, <2>9, <2>11, <2>13 DEF Held
    <3>2. s = Append(Reverse(x), e)
      BY <2>5, <2>10, <3>1, ReverseCons
    <3>3. Reverse(x) \in Seq(Elements)
      BY <2>10, ReverseIs
    <3>4. s[Len(s)] = e /\ SubSeq(s, 1, Len(s) - 1) = Reverse(x)
      BY <2>5, <3>2, <3>3, LastOfAppend
    <3> QED BY <1>9, <1>10, <2>7, <2>8, <2>12, <2>13, <3>1, <3>4
  <2>14. CASE ~ way
    <3>1. s = <<e>> \o x /\ Held(a, q) = x
      BY <1>3, <1>6, <2>6, <2>9, <2>11, <2>14 DEF Held
    <3>2. Head(s) = e /\ Tail(s) = x
      BY <2>5, <2>10, <3>1, ConsIs
    <3> QED BY <1>9, <1>10, <2>7, <2>8, <2>12, <2>14, <3>1, <3>2
  <2> QED BY <2>13, <2>14
<1> QED BY <1>12, <1>13

LEMMA CopyIs ==
  ASSUME Inv, NEW d \in Names, NEW c \in Names, Copy(d, c)
  PROVE  /\ Inv' /\ answer' = <<>>
         /\ AllContents' = [AllContents EXCEPT ![d] = AllContents[c]]
<1>1. ArenaOK(arena) /\ deque[c] \in Deques(arena)
  BY DEF Inv
<1>2. arena' = arena /\ deque' = [deque EXCEPT ![d] = deque[c]] /\ answer' = <<>>
  BY DEF Copy
<1>3. Kept(arena, arena') /\ deque[c] \in Deques(arena')
  BY <1>1, <1>2, KeptSame
<1>4. Inv' /\ AllContents' = [AllContents EXCEPT ![d] = Held(arena', deque[c])]
  BY <1>2, <1>3, Given
<1>5. AllContents[c] = Held(arena, deque[c])
  BY AllContentsIs
<1> QED BY <1>2, <1>4, <1>5

(* A step that gives no deque anything *)
LEMMA GivenNothing ==
  ASSUME Inv, Kept(arena, arena'), deque' = deque
  PROVE  Inv' /\ AllContents' = AllContents
<1>1. PICK a : a = arena'
  OBVIOUS
<1>2. ArenaOK(arena) /\ deque \in [Names -> Deques(arena)] /\ ArenaOK(a) /\ Kept(arena, a)
  BY <1>1 DEF Inv, Kept
<1>3. \A c \in Names : deque[c] \in Deques(a) /\ Held(a, deque[c]) = Held(arena, deque[c])
  <2>1. ASSUME NEW c \in Names
        PROVE  deque[c] \in Deques(a) /\ Held(a, deque[c]) = Held(arena, deque[c])
    <3>1. deque[c] \in Deques(arena)
      BY <1>2
    <3> QED BY <1>2, <3>1, HeldIs
  <2> QED BY <2>1
<1>4. deque \in [Names -> Deques(a)]
  BY <1>2, <1>3
<1>5. Inv'
  BY <1>1, <1>2, <1>4 DEF Inv
<1>6. AllContents = [c \in Names |-> Held(arena, deque[c])]
      /\ AllContents' = [c \in Names |-> Held(a, deque[c])]
  BY <1>1, AllContentsIs
<1> QED BY <1>3, <1>5, <1>6

LEMMA IterIs ==
  ASSUME Inv, NEW d \in Names, Iter(d) \/ IterReused(d)
  PROVE  Inv' /\ AllContents' = AllContents /\ answer' = AllContents[d]
<1>1. ArenaOK(arena) /\ deque[d] \in Deques(arena)
  BY DEF Inv
<1>2. AllContents[d] = Held(arena, deque[d])
  BY AllContentsIs
<1>3. CASE Iter(d)
  <2>1. PICK turned : turned = Directed(deque[d], FALSE)
    OBVIOUS
  <2>2. PICK a : a = turned.arena
    OBVIOUS
  <2>3. Kept(arena, a) /\ turned.deque.backwards = FALSE
        /\ Held(a, turned.deque) = Held(arena, deque[d])
    BY <1>1, <2>1, <2>2, DirectedIs
  <2>4. arena' = a /\ deque' = deque /\ answer' = Elems(a, turned.deque.cells)
    BY <1>3, <2>1, <2>2 DEF Iter
  <2>5. Inv' /\ AllContents' = AllContents
    BY <2>3, <2>4, GivenNothing
  <2>6. Held(a, turned.deque) = Elems(a, turned.deque.cells)
    BY <2>3 DEF Held
  <2> QED BY <1>2, <2>3, <2>4, <2>5, <2>6
<1>4. CASE IterReused(d)
  <2>1. PICK h : h = deque[d].cells
    OBVIOUS
  <2>2. arena' = arena /\ deque' = deque
        /\ (deque[d].backwards => HaveReversal(arena, h))
        /\ answer' = Elems(arena, IF deque[d].backwards THEN Reversed(arena, h) ELSE h)
    BY <1>4, <2>1 DEF IterReused
  <2>3. Inv' /\ AllContents' = AllContents
    BY <1>1, <2>2, KeptSame, GivenNothing
  <2>4. CASE ~ deque[d].backwards
    BY <1>2, <2>1, <2>2, <2>3, <2>4 DEF Held
  <2>5. CASE deque[d].backwards
    <3>1. EnsureReversalAvailable(arena, h) = arena
      BY <2>2, <2>5 DEF EnsureReversalAvailable
    <3>2. h \in 0..Len(arena)
      BY <1>1, <2>1 DEF Deques
    <3>3. Elems(arena, Reversed(arena, h)) = Reverse(Elems(arena, h))
      BY <1>1, <3>1, <3>2, EnsureReversalIs
    <3> QED BY <1>2, <2>1, <2>2, <2>3, <2>5, <3>3 DEF Held
  <2> QED BY <2>4, <2>5
<1> QED BY <1>3, <1>4

(* What SameList chooses a function for. *)
Compares(c, f) ==
  f = [h \in 0..Len(c) |->
         {k \in 0..Len(c) :
            \/ h = k
            \/ /\ h # EMPTY /\ k # EMPTY
               /\ c[h].head = c[k].head
               /\ c[k].tail \in f[c[h].tail]}]

LEMMA SameListChosen ==
  ASSUME NEW c, NEW l, NEW r
  PROVE  SameList(c, l, r) = (r \in (CHOOSE f : Compares(c, f))[l])
  BY DEF SameList, Compares

(* When two lists have the same elements *)
LEMMA SameElements ==
  ASSUME NEW c, Cells(c), NEW h \in 0..Len(c), NEW k \in 0..Len(c)
  PROVE  Elems(c, h) = Elems(c, k) <=>
           \/ h = k
           \/ /\ h # 0 /\ k # 0
              /\ c[h].head = c[k].head
              /\ Elems(c, c[h].tail) = Elems(c, c[k].tail)
<1>1. Len(c) \in Nat
  BY DEF Cells
<1>2. CASE h = 0 \/ k = 0
  <2>1. Elems(c, h) = <<>> <=> h = 0
    BY ElemsEmpty
  <2>2. Elems(c, k) = <<>> <=> k = 0
    BY ElemsEmpty
  <2> QED BY <1>2, <2>1, <2>2
<1>3. CASE h # 0 /\ k # 0
  <2>1. h \in 1..Len(c) /\ k \in 1..Len(c)
    BY <1>1, <1>3
  <2>2. PICK x : x = Elems(c, c[h].tail)
    OBVIOUS
  <2>3. PICK y : y = Elems(c, c[k].tail)
    OBVIOUS
  <2>4. c[h].tail \in 0..Len(c) /\ c[k].tail \in 0..Len(c)
        /\ c[h].head \in Elements /\ c[k].head \in Elements
    BY <2>1, CellIs
  <2>5. x \in Seq(Elements) /\ y \in Seq(Elements)
    BY <2>2, <2>3, <2>4, ElemsType
  <2>6. Elems(c, h) = <<c[h].head>> \o x /\ Elems(c, k) = <<c[k].head>> \o y
    BY <2>1, <2>2, <2>3, ElemsUnfold
  <2>7. Elems(c, h) = Elems(c, k) <=> c[h].head = c[k].head /\ x = y
    <3>1. PICK d \in Elements : d = c[h].head
      BY <2>4
    <3>2. PICK e \in Elements : e = c[k].head
      BY <2>4
    <3>3. <<d>> \o x = <<e>> \o y <=> d = e /\ x = y
      BY ONLY <2>5, ConsInjective
    <3> QED BY <2>6, <3>1, <3>2, <3>3
  <2> QED BY <1>3, <2>2, <2>3, <2>7
<1> QED BY <1>2, <1>3

(* The handles that compare equal are those of lists with the same elements. *)
LEMMA SameListIs ==
  ASSUME NEW c, Cells(c), NEW l \in 0..Len(c), NEW r \in 0..Len(c)
  PROVE  SameList(c, l, r) = (Elems(c, l) = Elems(c, r))
<1>1. PICK N : N = Len(c)
  OBVIOUS
<1>2. N \in Nat
  BY <1>1 DEF Cells
<1>3. \A h \in 0..N, k \in 0..N :
        h # 0 /\ k # 0 => c[h].tail \in 0..h - 1 /\ c[h].tail \in 0..N /\ c[k].tail \in 0..N
  <2>1. ASSUME NEW h \in 0..N, h # 0
        PROVE  c[h].tail \in 0..h - 1 /\ c[h].tail \in 0..N
    <3>1. h \in 1..Len(c)
      BY <1>1, <1>2, <2>1
    <3> QED BY <1>1, <3>1, CellIs
  <2> QED BY <2>1
<1> DEFINE F == CHOOSE f : Compares(c, f)
<1>4. Compares(c, F)
  <2>1. PICK g : g = [h \in 0..N |-> {k \in 0..N : Elems(c, h) = Elems(c, k)}]
    OBVIOUS
  <2>2. \A h \in 0..N, k \in 0..N :
          Elems(c, h) = Elems(c, k) <=>
            \/ h = k
            \/ /\ h # EMPTY /\ k # EMPTY
               /\ c[h].head = c[k].head
               /\ c[k].tail \in g[c[h].tail]
    <3>1. ASSUME NEW h \in 0..N, NEW k \in 0..N, h # 0, k # 0
          PROVE  c[k].tail \in g[c[h].tail] <=> Elems(c, c[h].tail) = Elems(c, c[k].tail)
      BY <1>3, <2>1, <3>1
    <3> QED BY <1>1, <3>1, SameElements DEF EMPTY
  <2>3. \A h \in 0..N :
          {k \in 0..N : Elems(c, h) = Elems(c, k)} =
          {k \in 0..N : \/ h = k
                        \/ /\ h # EMPTY /\ k # EMPTY
                           /\ c[h].head = c[k].head
                           /\ c[k].tail \in g[c[h].tail]}
    BY <2>2
  <2>4. g = [h \in 0..N |->
               {k \in 0..N : \/ h = k
                             \/ /\ h # EMPTY /\ k # EMPTY
                                /\ c[h].head = c[k].head
                                /\ c[k].tail \in g[c[h].tail]}]
    BY <2>1, <2>3
  <2>5. Compares(c, g)
    BY <1>1, <2>4 DEF Compares
  <2> QED BY <2>5, Zenon
<1>5. SameList(c, l, r) = (r \in F[l])
  BY SameListChosen, Zenon
<1> HIDE DEF F
<1>6. \A h \in 0..N, k \in 0..N :
        k \in F[h] <=> \/ h = k
                       \/ /\ h # 0 /\ k # 0
                          /\ c[h].head = c[k].head
                          /\ c[k].tail \in F[c[h].tail]
  <2>1. F = [h \in 0..N |-> {k \in 0..N : \/ h = k
                                        \/ /\ h # EMPTY /\ k # EMPTY
                                           /\ c[h].head = c[k].head
                                           /\ c[k].tail \in F[c[h].tail]}]
    BY <1>1, <1>4 DEF Compares
  <2>2. ASSUME NEW h \in 0..N
        PROVE  F[h] = {k \in 0..N : \/ h = k
                                   \/ /\ h # EMPTY /\ k # EMPTY
                                      /\ c[h].head = c[k].head
                                      /\ c[k].tail \in F[c[h].tail]}
    BY <2>1, Zenon
  <2> QED BY <2>2 DEF EMPTY
<1> DEFINE T == {h \in 0..N : \E k \in 0..N : ~ (k \in F[h] <=> Elems(c, h) = Elems(c, k))}
<1>7. T = {}
  <2>1. SUFFICES ASSUME T # {} PROVE FALSE
    OBVIOUS
  <2>2. PICK m \in T : \A k \in T : m <= k
    <3>1. T \in SUBSET Nat
      BY <1>2
    <3> HIDE DEF T
    <3> QED BY <2>1, <3>1, Least
  <2>3. PICK k \in 0..N : ~ (k \in F[m] <=> Elems(c, m) = Elems(c, k))
    OBVIOUS
  <2>4. m \in 0..N
    OBVIOUS
  <2>5. Elems(c, m) = Elems(c, k) <=>
           \/ m = k
           \/ /\ m # 0 /\ k # 0
              /\ c[m].head = c[k].head
              /\ Elems(c, c[m].tail) = Elems(c, c[k].tail)
    BY <1>1, <2>4, SameElements
  <2>6. ASSUME m # 0, k # 0
        PROVE  c[k].tail \in F[c[m].tail] <=> Elems(c, c[m].tail) = Elems(c, c[k].tail)
    <3>1. c[m].tail \in 0..m - 1 /\ c[m].tail \in 0..N /\ c[k].tail \in 0..N
      BY <1>3, <2>4, <2>6
    <3>2. ~ (m <= c[m].tail)
      BY <1>2, <2>4, <3>1
    <3>3. c[m].tail \notin T
      <4> HIDE DEF T
      <4> QED BY <2>2, <3>2
    <3> QED BY <3>1, <3>3
  <2>7. k \in F[m] <=> \/ m = k
                       \/ /\ m # 0 /\ k # 0
                          /\ c[m].head = c[k].head
                          /\ c[k].tail \in F[c[m].tail]
    BY <1>6, <2>4
  <2> HIDE DEF T
  <2> QED BY <2>3, <2>5, <2>6, <2>7
<1>8. r \in F[l] <=> Elems(c, l) = Elems(c, r)
  BY <1>1, <1>7
<1> QED BY <1>5, <1>8

LEMMA EqualsIs ==
  ASSUME Inv, NEW d \in Names, NEW c \in Names, Equals(d, c)
  PROVE  /\ Inv' /\ AllContents' = AllContents
         /\ answer' = <<AllContents[d] = AllContents[c]>>
<1>1. PICK l : l = deque[d]
  OBVIOUS
<1>2. PICK r : r = deque[c]
  OBVIOUS
<1>3. ArenaOK(arena) /\ l \in Deques(arena) /\ r \in Deques(arena)
  BY <1>1, <1>2 DEF Inv
<1>4. l.backwards \in BOOLEAN /\ r.backwards \in BOOLEAN
  BY <1>3 DEF Deques
<1>5. AllContents[d] = Held(arena, l) /\ AllContents[c] = Held(arena, r)
  BY <1>1, <1>2, AllContentsIs
<1>6. \E way \in BOOLEAN : \E a, x, y :
        /\ Kept(arena, a) /\ arena' = a /\ deque' = deque
        /\ x \in Deques(a) /\ y \in Deques(a) /\ x.backwards = way /\ y.backwards = way
        /\ Held(a, x) = Held(arena, l) /\ Held(a, y) = Held(arena, r)
        /\ answer' = <<SameList(a, x.cells, y.cells)>>
  <2>1. CASE HaveReversal(arena, l.cells)
    <3>1. PICK turned : turned = Directed(l, r.backwards)
      OBVIOUS
    <3>2. PICK a : a = turned.arena
      OBVIOUS
    <3>3. PICK x : x = turned.deque
      OBVIOUS
    <3>4. Kept(arena, a) /\ x \in Deques(a) /\ x.backwards = r.backwards /\ Held(a, x) = Held(arena, l)
      BY <1>3, <1>4, <3>1, <3>2, <3>3, DirectedIs
    <3>5. r \in Deques(a) /\ Held(a, r) = Held(arena, r)
      BY <1>3, <3>4, HeldIs
    <3>6. arena' = a /\ deque' = deque /\ answer' = <<SameList(a, x.cells, r.cells)>>
      BY <1>1, <1>2, <2>1, <3>1, <3>2, <3>3 DEF Equals
    <3> QED BY <1>4, <3>4, <3>5, <3>6
  <2>2. CASE ~ HaveReversal(arena, l.cells)
    <3>1. PICK turned : turned = Directed(r, l.backwards)
      OBVIOUS
    <3>2. PICK a : a = turned.arena
      OBVIOUS
    <3>3. PICK y : y = turned.deque
      OBVIOUS
    <3>4. Kept(arena, a) /\ y \in Deques(a) /\ y.backwards = l.backwards /\ Held(a, y) = Held(arena, r)
      BY <1>3, <1>4, <3>1, <3>2, <3>3, DirectedIs
    <3>5. l \in Deques(a) /\ Held(a, l) = Held(arena, l)
      BY <1>3, <3>4, HeldIs
    <3>6. arena' = a /\ deque' = deque /\ answer' = <<SameList(a, l.cells, y.cells)>>
      BY <1>1, <1>2, <2>2, <3>1, <3>2, <3>3 DEF Equals
    <3> QED BY <1>4, <3>4, <3>5, <3>6
  <2> QED BY <2>1, <2>2
<1>7. PICK way \in BOOLEAN : \E a, x, y :
        /\ Kept(arena, a) /\ arena' = a /\ deque' = deque
        /\ x \in Deques(a) /\ y \in Deques(a) /\ x.backwards = way /\ y.backwards = way
        /\ Held(a, x) = Held(arena, l) /\ Held(a, y) = Held(arena, r)
        /\ answer' = <<SameList(a, x.cells, y.cells)>>
  BY <1>6
<1>8. PICK a, x, y :
        /\ Kept(arena, a) /\ arena' = a /\ deque' = deque
        /\ x \in Deques(a) /\ y \in Deques(a) /\ x.backwards = way /\ y.backwards = way
        /\ Held(a, x) = Held(arena, l) /\ Held(a, y) = Held(arena, r)
        /\ answer' = <<SameList(a, x.cells, y.cells)>>
  BY <1>7
<1>9. Inv' /\ AllContents' = AllContents
  BY <1>8, GivenNothing
<1>10. PICK s : s = Elems(a, x.cells)
  OBVIOUS
<1>11. PICK t : t = Elems(a, y.cells)
  OBVIOUS
<1>12. Cells(a) /\ x.cells \in 0..Len(a) /\ y.cells \in 0..Len(a)
  BY <1>8 DEF Kept, ArenaOK, Deques
<1>13. s \in Seq(Elements) /\ t \in Seq(Elements)
  BY <1>10, <1>11, <1>12, ElemsType
<1>14. Reverse(Reverse(s)) = s /\ Reverse(Reverse(t)) = t
  BY <1>13, ReverseTwice
<1>15. Held(a, x) = (IF way THEN Reverse(s) ELSE s) /\ Held(a, y) = (IF way THEN Reverse(t) ELSE t)
  BY <1>8, <1>10, <1>11 DEF Held
<1>16. s = t <=> AllContents[d] = AllContents[c]
  BY <1>5, <1>8, <1>14, <1>15
<1>17. SameList(a, x.cells, y.cells) = (s = t)
  BY <1>10, <1>11, <1>12, SameListIs
<1>18. answer' = <<AllContents[d] = AllContents[c]>>
  BY <1>16, <1>17, <1>8
<1> QED BY <1>9, <1>18

-----------------------------------------------------------------------------
LEMMA InitInv == ListsInit => Inv /\ AllContents = [d \in Names |-> <<>>] /\ answer = <<>>
<1> SUFFICES ASSUME ListsInit PROVE Inv /\ AllContents = [d \in Names |-> <<>>] /\ answer = <<>>
  OBVIOUS
<1>1. arena = <<>> /\ deque = [d \in Names |-> Deque(0, FALSE)] /\ answer = <<>>
  BY DEF ListsInit, EMPTY
<1>2. arena \in Seq(CellType) /\ Len(arena) = 0
  BY <1>1
<1>3. \A h \in 1..Len(arena) : FALSE
  BY <1>2
<1>4. ArenaOK(arena)
  BY <1>2, <1>3, Zenon DEF ArenaOK, Cells, Mutual
<1>5. PICK q : q = Deque(0, FALSE)
  OBVIOUS
<1>6. q.cells = 0 /\ q.backwards = FALSE /\ q \in Deques(arena)
  BY <1>2, <1>5 DEF Deque, Deques
<1>7. Inv
  BY <1>1, <1>4, <1>5, <1>6 DEF Inv
<1>8. Held(arena, q) = <<>>
  BY <1>4, <1>6, ElemsUnfold DEF Held, ArenaOK
<1>9. AllContents = [d \in Names |-> <<>>]
  BY <1>1, <1>5, <1>8, AllContentsIs
<1> QED BY <1>1, <1>7, <1>9

LEMMA DequeStep ==
  ASSUME Inv, NEW d \in Names,
         \/ \E e \in Elements : Room /\ (PushFront(d, e) \/ PushBack(d, e))
         \/ Room /\ (PopFront(d) \/ PopBack(d) \/ Iter(d))
         \/ IterReused(d)
         \/ \E c \in Names : Copy(d, c) \/ (Room /\ Equals(d, c))
  PROVE  Inv' /\ Abstract!Next
<1> DEFINE C == [k \in Names |-> Contents(deque[k])]
<1>1. AllContents = C
  BY Zenon DEF AllContents
<1> DEFINE D == C'
<1>2. AllContents' = D
  BY Zenon DEF AllContents
<1>3. ASSUME NEW e \in Elements, PushFront(d, e)
      PROVE  Inv' /\ Abstract!PushFront(d, e)
  <2>1. /\ Inv' /\ answer' = <<>>
        /\ AllContents' = [AllContents EXCEPT ![d] = <<e>> \o AllContents[d]]
    BY <1>3, PushIs DEF PushFront
  <2> QED BY <1>1, <1>2, <2>1 DEF Abstract!PushFront
<1>4. ASSUME NEW e \in Elements, PushBack(d, e)
      PROVE  Inv' /\ Abstract!PushBack(d, e)
  <2>1. /\ Inv' /\ answer' = <<>>
        /\ AllContents' = [AllContents EXCEPT ![d] = Append(AllContents[d], e)]
    BY <1>4, PushIs DEF PushBack
  <2> QED BY <1>1, <1>2, <2>1 DEF Abstract!PushBack
<1>5. ASSUME PopFront(d) PROVE Inv' /\ Abstract!PopFront(d)
  <2>1. /\ Inv'
        /\ \/ /\ AllContents[d] = <<>> /\ answer' = <<>> /\ AllContents' = AllContents
           \/ /\ AllContents[d] # <<>>
              /\ answer' = <<Head(AllContents[d])>>
              /\ AllContents' = [AllContents EXCEPT ![d] = Tail(AllContents[d])]
    BY <1>5, PopIs DEF PopFront
  <2> QED BY <1>1, <1>2, <2>1 DEF Abstract!PopFront
<1>6. ASSUME PopBack(d) PROVE Inv' /\ Abstract!PopBack(d)
  <2>1. /\ Inv'
        /\ \/ /\ AllContents[d] = <<>> /\ answer' = <<>> /\ AllContents' = AllContents
           \/ /\ AllContents[d] # <<>>
              /\ answer' = <<AllContents[d][Len(AllContents[d])]>>
              /\ AllContents' = [AllContents EXCEPT ![d] =
                                   SubSeq(AllContents[d], 1, Len(AllContents[d]) - 1)]
    BY <1>6, PopIs DEF PopBack
  <2> QED BY <1>1, <1>2, <2>1 DEF Abstract!PopBack
<1>7. ASSUME Iter(d) \/ IterReused(d) PROVE Inv' /\ Abstract!Read(d)
  <2>1. Inv' /\ AllContents' = AllContents /\ answer' = AllContents[d]
    BY <1>7, IterIs
  <2> QED BY <1>1, <1>2, <2>1 DEF Abstract!Read
<1>8. ASSUME NEW c \in Names, Copy(d, c) PROVE Inv' /\ Abstract!Copy(d, c)
  <2>1. Inv' /\ answer' = <<>> /\ AllContents' = [AllContents EXCEPT ![d] = AllContents[c]]
    BY <1>8, CopyIs
  <2> QED BY <1>1, <1>2, <2>1 DEF Abstract!Copy
<1>9. ASSUME NEW c \in Names, Equals(d, c) PROVE Inv' /\ Abstract!Equals(d, c)
  <2>1. Inv' /\ AllContents' = AllContents /\ answer' = <<AllContents[d] = AllContents[c]>>
    BY <1>9, EqualsIs
  <2> QED BY <1>1, <1>2, <2>1 DEF Abstract!Equals
<1> QED BY <1>3, <1>4, <1>5, <1>6, <1>7, <1>8, <1>9, Zenon DEF Abstract!Next

LEMMA Quiet ==
  ASSUME Inv, UNCHANGED dequeVars
  PROVE  Inv' /\ AllContents' = AllContents /\ answer' = answer
<1>1. arena' = arena /\ deque' = deque /\ answer' = answer
  BY DEF dequeVars
<1>2. Kept(arena, arena')
  BY <1>1, KeptSame DEF Inv
<1> QED BY <1>1, <1>2, GivenNothing

LEMMA ListsStep ==
  ASSUME Inv, [DequeNext \/ KeyNext]_listVars
  PROVE  Inv' /\ [Abstract!Next]_<<[d \in Names |-> Contents(deque[d])], answer>>
<1>1. CASE DequeNext
  BY <1>1, DequeStep, Zenon DEF DequeNext
<1>2. ASSUME UNCHANGED dequeVars
      PROVE  Inv' /\ [Abstract!Next]_<<[d \in Names |-> Contents(deque[d])], answer>>
  <2>1. Inv' /\ AllContents' = AllContents /\ answer' = answer
    BY <1>2, Quiet
  <2> QED BY <2>1, Zenon DEF AllContents
<1>3. CASE KeyNext
  BY <1>2, <1>3 DEF KeyNext, PopKey, PushKey
<1>4. CASE UNCHANGED listVars
  BY <1>2, <1>4 DEF listVars, dequeVars
<1> QED BY <1>1, <1>3, <1>4

(* Handles and reversals are in order whatever the deques do (arena.rs,     *)
(* List and ReversibleList).                                                *)
THEOREM DequesInOrder == ListsSpec => []Inv
<1>1. ListsInit => Inv
  BY InitInv
<1>2. Inv /\ [DequeNext \/ KeyNext]_listVars => Inv'
  BY ListsStep
<1> QED BY <1>1, <1>2, PTL DEF ListsSpec

(* A reversal that is remembered, for any list of any arena that deques     *)
(* build, is the list from its end, and remembers the list (arena.rs,       *)
(* ReversibleListCell::reverse and List::ensure_reversal_available).         *)
THEOREM ReversalsStayMutual == ListsSpec => []ReversalsMutual
<1>1. Inv => ReversalsMutual
  BY DEF Inv, ArenaOK, Mutual, Cells, ReversalsMutual, EMPTY
<1> QED BY <1>1, DequesInOrder, PTL

(* Deques are sequences of their own, however many of them share cells and  *)
(* in whichever direction the cells happen to be: every step is the         *)
(* operation on one sequence, or none (arena.rs, Deque).                    *)
THEOREM DequesAreSequences == ListsSpec => ImplementsSharedSequences
<1>1. ListsInit => Abstract!Init
  BY InitInv DEF Abstract!Init, AllContents
<1>2. Inv /\ [DequeNext \/ KeyNext]_listVars
        => [Abstract!Next]_<<[d \in Names |-> Contents(deque[d])], answer>>
  BY ListsStep
<1> QED BY <1>1, <1>2, DequesInOrder, PTL DEF ListsSpec, ImplementsSharedSequences, Abstract!Spec

-----------------------------------------------------------------------------
(* Keys: the cache has every cell, and no two cells are the same. *)

Distinct(c) ==
  \A h, g \in 1..Len(c) : c[h].head = c[g].head /\ c[h].tail = c[g].tail => h = g

KeyInv ==
  /\ Cells(keys) /\ Distinct(keys)
  /\ key \in [Keys -> 0..Len(keys)]
  /\ \A x \in cache : /\ x.handle \in 1..Len(keys)
                      /\ keys[x.handle].head = x.head /\ keys[x.handle].tail = x.tail
  /\ \A h \in 1..Len(keys) : \E x \in cache : x.head = keys[h].head /\ x.tail = keys[h].tail

(* In an arena without two cells that are the same, no two lists are. *)
LEMMA DistinctLists ==
  ASSUME NEW c, Cells(c), Distinct(c)
  PROVE  \A h, g \in 0..Len(c) : Elems(c, h) = Elems(c, g) => h = g
<1> DEFINE T == {h \in 0..Len(c) : \E g \in 0..Len(c) : Elems(c, h) = Elems(c, g) /\ h # g}
<1>1. SUFFICES ASSUME T # {} PROVE FALSE
  OBVIOUS
<1>2. Len(c) \in Nat
  BY DEF Cells
<1>3. PICK m \in T : \A k \in T : m <= k
  <2>1. T \in SUBSET Nat
    BY <1>2
  <2> HIDE DEF T
  <2> QED BY <1>1, <2>1, Least
<1>4. PICK g \in 0..Len(c) : Elems(c, m) = Elems(c, g) /\ m # g
  OBVIOUS
<1>5. m \in 0..Len(c)
  OBVIOUS
<1>6. /\ m # 0 /\ g # 0 /\ c[m].head = c[g].head
      /\ Elems(c, c[m].tail) = Elems(c, c[g].tail)
  BY <1>4, <1>5, SameElements
<1>7. m \in 1..Len(c) /\ g \in 1..Len(c)
  BY <1>2, <1>4, <1>5, <1>6
<1>8. c[m].tail \in 0..m - 1 /\ c[m].tail \in 0..Len(c) /\ c[g].tail \in 0..Len(c)
  BY <1>7, CellIs
<1>9. c[m].tail # c[g].tail
  BY <1>4, <1>6, <1>7 DEF Distinct
<1>10. c[m].tail \in T
  BY <1>6, <1>8, <1>9
<1>11. ~ (m <= c[m].tail)
  BY <1>7, <1>8
<1> HIDE DEF T
<1> QED BY <1>3, <1>10, <1>11

LEMMA SymbolsIs ==
  /\ \A k : Symbols(k) = Reverse(Elems(keys, key[k]))
  /\ \A k : Symbols(k)' = Reverse(Elems(keys', key'[k]))
<1>1. \A k : Symbols(k) = Reverse(Elems(keys, key[k]))
  BY DEF Symbols
<1>2. \A k : Symbols(k)' = Reverse(Elems(keys', key'[k]))
  BY DEF Symbols
<1> QED BY <1>1, <1>2

LEMMA HandlesMean ==
  ASSUME NEW c, Cells(c), Distinct(c), NEW h \in 0..Len(c), NEW g \in 0..Len(c)
  PROVE  h = g <=> Reverse(Elems(c, h)) = Reverse(Elems(c, g))
<1>1. PICK s : s = Elems(c, h)
  OBVIOUS
<1>2. PICK t : t = Elems(c, g)
  OBVIOUS
<1>3. s \in Seq(Elements) /\ t \in Seq(Elements)
  BY <1>1, <1>2, ElemsType
<1>4. Reverse(Reverse(s)) = s /\ Reverse(Reverse(t)) = t
  BY <1>3, ReverseTwice
<1>5. s = t => h = g
  BY <1>1, <1>2, DistinctLists
<1> QED BY <1>1, <1>2, <1>4, <1>5

LEMMA KeyInit == ListsInit => KeyInv
<1> SUFFICES ASSUME ListsInit PROVE KeyInv
  OBVIOUS
<1>1. keys = <<>> /\ cache = {} /\ key = [k \in Keys |-> 0]
  BY DEF ListsInit, EMPTY
<1>2. keys \in Seq(CellType) /\ Len(keys) = 0
  BY <1>1
<1>3. \A h \in 1..Len(keys) : FALSE
  BY <1>2
<1>4. Cells(keys) /\ Distinct(keys)
  BY <1>2, <1>3, Zenon DEF Cells, Distinct
<1> QED BY <1>1, <1>2, <1>3, <1>4 DEF KeyInv

LEMMA PushKeyIs ==
  ASSUME KeyInv, NEW k \in Keys, NEW e \in Elements, PushKey(k, e)
  PROVE  KeyInv' /\ Symbols(k)' = Append(Symbols(k), e)
<1>1. PICK t : t = key[k]
  OBVIOUS
<1>2. Cells(keys) /\ Distinct(keys) /\ key \in [Keys -> 0..Len(keys)] /\ t \in 0..Len(keys)
      /\ Len(keys) \in Nat
  BY <1>1 DEF KeyInv, Cells
<1>3. PICK s : s = Elems(keys, t)
  OBVIOUS
<1>4. s \in Seq(Elements) /\ Symbols(k) = Reverse(s)
  BY <1>1, <1>2, <1>3, ElemsType, SymbolsIs
<1>5. Reverse(<<e>> \o s) = Append(Symbols(k), e)
  BY <1>4, ReverseCons
<1>6. CASE Cached(e, t) # {}
  <2>1. PICK x \in Cached(e, t) : key' = [key EXCEPT ![k] = x.handle] /\ UNCHANGED <<keys, cache>>
    BY <1>1, <1>6 DEF PushKey
  <2>2. x \in cache /\ x.head = e /\ x.tail = t
    BY DEF Cached
  <2>3. PICK h : h = x.handle
    OBVIOUS
  <2>4. h \in 1..Len(keys) /\ keys[h].head = e /\ keys[h].tail = t
    BY <2>2, <2>3 DEF KeyInv
  <2>5. key' = [key EXCEPT ![k] = h] /\ keys' = keys /\ cache' = cache
    BY <2>1, <2>3
  <2>6. h \in 0..Len(keys)
    BY <1>2, <2>4
  <2>7. key' \in [Keys -> 0..Len(keys)] /\ key'[k] = h
    BY <1>2, <2>5, <2>6
  <2>8. KeyInv'
    BY <2>5, <2>7 DEF KeyInv
  <2>9. Elems(keys, h) = <<e>> \o s
    BY <1>2, <1>3, <2>4, ElemsUnfold
  <2>10. Symbols(k)' = Reverse(Elems(keys, h))
    BY <2>5, <2>7, SymbolsIs
  <2> QED BY <1>5, <2>8, <2>9, <2>10
<1>7. CASE Cached(e, t) = {}
  <2>1. PICK b : b = Append(keys, Cell(e, t, EMPTY))
    OBVIOUS
  <2>2. PICK h : h = Len(b)
    OBVIOUS
  <2>3. keys' = b /\ key' = [key EXCEPT ![k] = h]
        /\ cache' = cache \cup {[head |-> e, tail |-> t, handle |-> h]}
    BY <1>1, <1>7, <2>1, <2>2 DEF PushKey
  <2>4. /\ Cells(b) /\ h = Len(keys) + 1
        /\ \A g \in 1..Len(keys) : b[g] = keys[g]
        /\ b[h] = Cell(e, t, EMPTY)
        /\ Elems(b, h) = <<e>> \o s
    BY <1>2, <1>3, <2>1, <2>2, AppendCell
  <2>5. b[h].head = e /\ b[h].tail = t
    BY <2>4 DEF Cell
  <2>6. \A g \in 1..Len(keys) : ~ (keys[g].head = e /\ keys[g].tail = t)
    BY <1>7 DEF KeyInv, Cached
  <2>7. \A g \in 1..Len(b) : g = h \/ g \in 1..Len(keys)
    BY <1>2, <2>2, <2>4
  <2>8. Distinct(b)
    BY <1>2, <2>4, <2>5, <2>6, <2>7 DEF Distinct
  <2>9. key' \in [Keys -> 0..Len(b)] /\ key'[k] = h
    <3>1. \A g \in 0..Len(keys) : g \in 0..Len(b)
      BY <1>2, <2>2, <2>4
    <3>2. h \in 0..Len(b)
      BY <1>2, <2>2, <2>4
    <3> QED BY <1>2, <2>3, <3>1, <3>2
  <2>10. PICK y : y = [head |-> e, tail |-> t, handle |-> h]
    OBVIOUS
  <2>11. y.head = e /\ y.tail = t /\ y.handle = h /\ cache' = cache \cup {y}
    BY <2>3, <2>10
  <2>12. \A x \in cache \cup {y} :
            x.handle \in 1..Len(b) /\ b[x.handle].head = x.head /\ b[x.handle].tail = x.tail
    <3>1. ASSUME NEW x \in cache
          PROVE  x.handle \in 1..Len(b) /\ b[x.handle].head = x.head /\ b[x.handle].tail = x.tail
      <4>1. PICK g : g = x.handle
        OBVIOUS
      <4>2. g \in 1..Len(keys) /\ keys[g].head = x.head /\ keys[g].tail = x.tail
        BY <4>1 DEF KeyInv
      <4>3. g \in 1..Len(b)
        BY <1>2, <2>2, <2>4, <4>2
      <4> QED BY <2>4, <4>1, <4>2, <4>3
    <3>2. h \in 1..Len(b)
      BY <1>2, <2>2, <2>4
    <3> QED BY <2>5, <2>11, <3>1, <3>2
  <2>13. \A g \in 1..Len(b) : \E x \in cache \cup {y} : x.head = b[g].head /\ x.tail = b[g].tail
    <3>1. ASSUME NEW g \in 1..Len(keys)
          PROVE  \E x \in cache : x.head = b[g].head /\ x.tail = b[g].tail
      BY <2>4 DEF KeyInv
    <3> QED BY <2>5, <2>7, <2>11, <3>1
  <2>14. KeyInv'
    BY <2>3, <2>4, <2>8, <2>9, <2>11, <2>12, <2>13 DEF KeyInv
  <2>15. Symbols(k)' = Reverse(Elems(b, h))
    BY <2>3, <2>9, SymbolsIs
  <2> QED BY <1>5, <2>4, <2>14, <2>15
<1> QED BY <1>6, <1>7

LEMMA PopKeyIs ==
  ASSUME KeyInv, NEW k \in Keys, PopKey(k)
  PROVE  KeyInv'
<1>1. PICK h : h = key[k]
  OBVIOUS
<1>2. Cells(keys) /\ key \in [Keys -> 0..Len(keys)] /\ Len(keys) \in Nat
  BY DEF KeyInv, Cells
<1>3. h \in 1..Len(keys)
  BY <1>1, <1>2 DEF PopKey, EMPTY
<1>4. PICK t : t = keys[h].tail
  OBVIOUS
<1>5. t \in 0..Len(keys)
  BY <1>2, <1>3, <1>4, CellIs
<1>6. key' = [key EXCEPT ![k] = t] /\ keys' = keys /\ cache' = cache
  BY <1>1, <1>4 DEF PopKey
<1>7. key' \in [Keys -> 0..Len(keys)]
  BY <1>2, <1>5, <1>6
<1> QED BY <1>6, <1>7 DEF KeyInv

LEMMA KeyStep ==
  ASSUME KeyInv, [DequeNext \/ KeyNext]_listVars
  PROVE  KeyInv'
<1>1. ASSUME UNCHANGED keyVars PROVE KeyInv'
  BY <1>1 DEF KeyInv, keyVars
<1>2. CASE KeyNext
  BY <1>2, PushKeyIs, PopKeyIs DEF KeyNext
<1>3. CASE DequeNext
  <2>1. UNCHANGED keyVars
    BY <1>3 DEF DequeNext, PushFront, PushBack, Push, PopFront, PopBack, Pop, Iter, IterReused,
                Copy, Equals
  <2> QED BY <1>1, <2>1
<1>4. CASE UNCHANGED listVars
  BY <1>1, <1>4 DEF listVars
<1> QED BY <1>2, <1>3, <1>4

(* Every cell of a key is in the cache, once (stitching.rs,                 *)
(* SymbolStackKey::push_back).                                              *)
THEOREM KeysInOrder == ListsSpec => []KeyInv
<1>1. ListsInit => KeyInv
  BY KeyInit
<1>2. KeyInv /\ [DequeNext \/ KeyNext]_listVars => KeyInv'
  BY KeyStep
<1> QED BY <1>1, <1>2, PTL DEF ListsSpec

(* Keys with the same symbols have the same handle, whoever made their      *)
(* cells first, and pushing a symbol, with a cell of one's own or another's, *)
(* adds it to the symbols of the key (stitching.rs, SymbolStackKey).         *)
THEOREM KeysAreShared == ListsSpec => KeysShared
<1> DEFINE Same == \A k, l \in Keys : (key[k] = key[l] <=> Symbols(k) = Symbols(l))'
           Pushed == \A k \in Keys, e \in Elements :
                       PushKey(k, e) => Symbols(k)' = Append(Symbols(k), e)
<1>1. ASSUME KeyInv' PROVE Same
  <2>1. PICK c : c = keys'
    OBVIOUS
  <2>2. PICK now : now = key'
    OBVIOUS
  <2>3. Cells(c) /\ Distinct(c) /\ now \in [Keys -> 0..Len(c)]
    BY <1>1, <2>1, <2>2 DEF KeyInv
  <2>4. ASSUME NEW k \in Keys, NEW l \in Keys
        PROVE  now[k] = now[l] <=> Reverse(Elems(c, now[k])) = Reverse(Elems(c, now[l]))
    <3>1. now[k] \in 0..Len(c) /\ now[l] \in 0..Len(c)
      BY <2>3
    <3> QED BY <2>3, <3>1, HandlesMean
  <2> QED BY <2>1, <2>2, <2>4, SymbolsIs
<1>2. KeyInv => Pushed
  BY PushKeyIs
<1>3. KeyInv /\ KeyInv' /\ [DequeNext \/ KeyNext]_listVars => [Same /\ Pushed]_keyVars
  BY <1>1, <1>2
<1> HIDE DEF Same, Pushed
<1> QED BY <1>3, KeysInOrder, PTL DEF ListsSpec, KeysShared, Same, Pushed

-----------------------------------------------------------------------------
(* StackGraph *)

(* Induction up to n, of a set of numbers. *)
Climbs(n, T) == 0 \in T /\ \A i \in 1..n : i - 1 \in T => i \in T

LEMMA UpTo ==
  ASSUME NEW n \in Nat, NEW T, Climbs(n, T)
  PROVE  n \in T /\ \A i \in 0..n : i \in T
<1> SUFFICES ASSUME NEW j \in 0..n, j \notin T PROVE FALSE
  OBVIOUS
<1> USE DEF Climbs
<1> DEFINE Missing == {i \in 0..n : i \notin T}
<1>0. Missing \in SUBSET Nat /\ Missing # {}
  OBVIOUS
<1>1. PICK m \in Missing : \A k \in Missing : m <= k
  BY <1>0, Least
<1>2. m \in 1..n /\ m - 1 \in 0..n /\ ~ (m <= m - 1)
  BY <1>1
<1>3. m - 1 \in T
  BY <1>1, <1>2
<1> QED BY <1>1, <1>2, <1>3

-----------------------------------------------------------------------------
(* Sequences *)

LEMMA SequenceIs ==
  ASSUME NEW s, IsSequence(s)
  PROVE  /\ Len(s) \in Nat /\ DOMAIN s = 1..Len(s)
         /\ s = [i \in 1..Len(s) |-> s[i]]
         /\ s \in Seq(ToSet(s))
<1>1. Len(s) \in Nat /\ s = [i \in 1..Len(s) |-> s[i]] /\ DOMAIN s = 1..Len(s)
  BY DEF IsSequence
<1>2. \A i \in 1..Len(s) : s[i] \in ToSet(s)
  BY <1>1 DEF ToSet
<1>3. s \in [1..Len(s) -> ToSet(s)]
  BY <1>1, <1>2
<1> QED BY <1>1, <1>3

LEMMA SequenceOf ==
  ASSUME NEW S, NEW s \in Seq(S) PROVE IsSequence(s)
  BY DEF IsSequence

LEMMA FunctionIsSequence ==
  ASSUME NEW n \in Nat, NEW s, s = [i \in 1..n |-> s[i]]
  PROVE  IsSequence(s) /\ Len(s) = n /\ DOMAIN s = 1..n
<1>1. \A i \in 1..n : s[i] \in {s[j] : j \in 1..n}
  OBVIOUS
<1> DEFINE S == {s[j] : j \in 1..n}
<1>2. s \in [1..n -> S]
  BY <1>1
<1> HIDE DEF S
<1>3. s \in Seq(S) /\ Len(s) = n
  BY <1>2
<1> QED BY <1>2, <1>3, SequenceOf

LEMMA AppendIs ==
  ASSUME NEW s, IsSequence(s), NEW e
  PROVE  /\ IsSequence(Append(s, e)) /\ Len(Append(s, e)) = Len(s) + 1
         /\ DOMAIN Append(s, e) = 1..Len(s) + 1
         /\ \A i \in 1..Len(s) : Append(s, e)[i] = s[i]
         /\ Append(s, e)[Len(s) + 1] = e
<1> DEFINE S == ToSet(s) \cup {e}
<1>1. s \in Seq(S) /\ e \in S
  BY SequenceIs
<1> HIDE DEF S
<1>2. Append(s, e) \in Seq(S) /\ Len(s) \in Nat
  BY <1>1
<1>3. IsSequence(Append(s, e))
  BY <1>2, SequenceOf
<1>4. /\ Len(Append(s, e)) = Len(s) + 1
      /\ \A i \in 1..Len(s) : Append(s, e)[i] = s[i]
      /\ Append(s, e)[Len(s) + 1] = e
  BY <1>1
<1> QED BY <1>3, <1>4, SequenceIs

LEMMA EmptyIs == IsSequence(<<>>) /\ Len(<<>>) = 0 /\ DOMAIN <<>> = {}
<1>1. <<>> \in Seq({}) /\ Len(<<>>) = 0 /\ <<>> = [i \in {} |-> {}]
  OBVIOUS
<1>2. DOMAIN <<>> = {}
  BY <1>1
<1> QED BY <1>1, <1>2, SequenceOf

Pair(a, b) == <<a, b>>

LEMMA PairIs ==
  ASSUME NEW a, NEW b
  PROVE  /\ IsSequence(Pair(a, b)) /\ Len(Pair(a, b)) = 2 /\ DOMAIN Pair(a, b) = 1..2
         /\ Pair(a, b)[1] = a /\ Pair(a, b)[2] = b
<1> DEFINE s == Pair(a, b)
<1>1. s \in Seq({a, b}) /\ Len(s) = 2 /\ s[1] = a /\ s[2] = b
  BY DEF Pair
<1> HIDE DEF s
<1>2. IsSequence(s)
  BY <1>1, SequenceOf
<1> QED BY <1>1, <1>2, SequenceIs DEF s

LEMMA ConcatIs ==
  ASSUME NEW s, IsSequence(s), NEW t, IsSequence(t)
  PROVE  /\ IsSequence(s \o t) /\ Len(s \o t) = Len(s) + Len(t)
         /\ \A i \in 1..Len(s) : (s \o t)[i] = s[i]
         /\ \A i \in 1..Len(t) : (s \o t)[Len(s) + i] = t[i]
<1> DEFINE S == ToSet(s) \cup ToSet(t)
<1>1. s \in Seq(S) /\ t \in Seq(S)
  BY SequenceIs
<1> HIDE DEF S
<1>2. s \o t \in Seq(S) /\ Len(s \o t) = Len(s) + Len(t)
  BY <1>1
<1>3. \A i \in 1..Len(s) : (s \o t)[i] = s[i]
  BY <1>1
<1>4. ASSUME NEW i \in 1..Len(t) PROVE (s \o t)[Len(s) + i] = t[i]
  <2>1. Len(s) + i > Len(s) /\ Len(s) + i <= Len(s) + Len(t) /\ (Len(s) + i) - Len(s) = i
        /\ Len(s) + i \in 1..Len(s) + Len(t)
    BY <1>1
  <2> QED BY <1>1, <2>1
<1> QED BY <1>2, <1>3, <1>4, SequenceOf

Replaced(s, j, e) == [s EXCEPT ![j] = e]

LEMMA ReplacedIs ==
  ASSUME NEW s, IsSequence(s), NEW j, NEW e
  PROVE  /\ IsSequence(Replaced(s, j, e)) /\ Len(Replaced(s, j, e)) = Len(s)
         /\ DOMAIN Replaced(s, j, e) = 1..Len(s)
         /\ \A i \in 1..Len(s) : Replaced(s, j, e)[i] = IF i = j THEN e ELSE s[i]
<1> DEFINE t == Replaced(s, j, e)
<1>1. Len(s) \in Nat /\ t = [i \in 1..Len(s) |-> IF i = j THEN e ELSE s[i]]
  BY SequenceIs DEF Replaced
<1>2. t = [i \in 1..Len(s) |-> t[i]]
  BY <1>1
<1> HIDE DEF t
<1>3. IsSequence(t) /\ Len(t) = Len(s)
  BY <1>1, <1>2, FunctionIsSequence
<1>4. \A i \in 1..Len(s) : t[i] = IF i = j THEN e ELSE s[i]
  BY <1>1
<1> QED BY <1>1, <1>3, <1>4 DEF t

-----------------------------------------------------------------------------
(* Loops: what is known after each element.  A proof cannot be about loops *)
(* with any step, so there is one for each of them.                        *)

CopiedIds(acc, h, ids) == Loop(LAMBDA a, n : CopiedId(a, h, n), acc, ids)
CopiedEdges(acc, edges) == Loop(CopiedEdge, acc, edges)
CopiedFiles(acc, h, order) == Loop(LAMBDA a, f : CopiedFile(a, h, f), acc, order)
LoadedNodes(g, nodes) == Loop(LoadedNode, g, nodes)
LoadedEdges(acc, edges) == Loop(LoadedEdge, acc, edges)
StartedFiles(g, names) == Loop(NextStarted, g, names)
EdgesFound(g, nodes, edges, s) == IF s \in nodes THEN edges \o EdgesFrom(g, s) ELSE edges
EdgesFromAll(g, nodes, found, all) ==
  Loop(LAMBDA edges, s : EdgesFound(g, nodes, edges, s), found, all)

LEMMA LoopsAre ==
  /\ \A acc, h, f : CopiedNodes(acc, h, f) = CopiedIds(acc, h, h.ids[f])
  /\ \A acc, h, f :
       CopiedFile(acc, h, f) =
         LET copied == CopiedNodes(acc, h, f)
         IN  CopiedEdges(copied, EdgesToCopy(h, f, DOMAIN copied.known))
  /\ \A g, nodes : EdgesOf(g, nodes) = EdgesFromAll(g, nodes, <<>>, [n \in DOMAIN g.nodes |-> n])
  /\ \A x : StartedGraphs(x) = {StartedFiles(EmptyGraph, names) : names \in Started[x]}
<1>1. \A acc, h, f : CopiedNodes(acc, h, f) = CopiedIds(acc, h, h.ids[f])
  BY DEF CopiedNodes, CopiedIds
<1>2. \A acc, h, f :
       CopiedFile(acc, h, f) =
         LET copied == CopiedNodes(acc, h, f)
         IN  CopiedEdges(copied, EdgesToCopy(h, f, DOMAIN copied.known))
  BY DEF CopiedFile, CopiedEdges
<1>3. \A g, nodes : EdgesOf(g, nodes) = EdgesFromAll(g, nodes, <<>>, [n \in DOMAIN g.nodes |-> n])
  BY DEF EdgesOf, EdgesFromAll, EdgesFound
<1>4. \A x : StartedGraphs(x) = {StartedFiles(EmptyGraph, names) : names \in Started[x]}
  BY DEF StartedGraphs, StartedFiles
<1> QED BY <1>1, <1>2, <1>3, <1>4

LEMMA FilesLoop ==
  ASSUME NEW first, NEW seq, IsSequence(seq)
  PROVE  \E after :
           /\ after[0] = Result(first, "ok") /\ WithFiles(first, seq) = after[Len(seq)]
           /\ \A i \in 1..Len(seq) : after[i] = NextFile(after[i - 1], seq[i])
<1> DEFINE IsLoop(f, k) == f = [i \in 0..k |-> IF i = 0 THEN Result(first, "ok") ELSE NextFile(f[i - 1], seq[i])]
           Defined == {k \in 0..Len(seq) : \E f : IsLoop(f, k)}
           after == CHOOSE f : IsLoop(f, Len(seq))
<1>1. WithFiles(first, seq) = after[Len(seq)]
  BY DEF Loop, WithFiles
<1>2. Len(seq) \in Nat
  BY SequenceIs
<1>3. \E f : IsLoop(f, 0)
  <2>1. IsLoop([i \in 0..0 |-> Result(first, "ok")], 0)
    OBVIOUS
  <2> HIDE DEF IsLoop
  <2> QED BY <2>1
<1>4. ASSUME NEW k \in 1..Len(seq), \E f : IsLoop(f, k - 1) PROVE \E f : IsLoop(f, k)
  <2>1. PICK f : IsLoop(f, k - 1)
    BY <1>4
  <2> DEFINE longer == [i \in 0..k |-> IF i = k THEN NextFile(f[k - 1], seq[k]) ELSE f[i]]
  <2>2. IsLoop(longer, k)
    BY <1>2, <2>1
  <2> HIDE DEF IsLoop
  <2> QED BY <2>2
<1> HIDE DEF IsLoop
<1>5. Climbs(Len(seq), Defined)
  BY <1>2, <1>3, <1>4 DEF Climbs
<1>6. IsLoop(after, Len(seq))
  <2> HIDE DEF Defined
  <2>1. Len(seq) \in Defined
    BY <1>2, <1>5, UpTo
  <2> QED BY <2>1 DEF Defined
<1> HIDE DEF after
<1>7. /\ after[0] = Result(first, "ok")
      /\ \A i \in 1..Len(seq) : after[i] = NextFile(after[i - 1], seq[i])
  BY <1>2, <1>6 DEF IsLoop
<1> QED BY <1>1, <1>7

LEMMA CopiedNodesLoop ==
  ASSUME NEW h, NEW first, NEW seq, IsSequence(seq)
  PROVE  \E after :
           /\ after[0] = first /\ CopiedIds(first, h, seq) = after[Len(seq)]
           /\ \A i \in 1..Len(seq) : after[i] = CopiedId(after[i - 1], h, seq[i])
<1> DEFINE IsLoop(f, k) == f = [i \in 0..k |-> IF i = 0 THEN first ELSE CopiedId(f[i - 1], h, seq[i])]
           Defined == {k \in 0..Len(seq) : \E f : IsLoop(f, k)}
           after == CHOOSE f : IsLoop(f, Len(seq))
<1>1. CopiedIds(first, h, seq) = after[Len(seq)]
  BY DEF Loop, CopiedIds
<1>2. Len(seq) \in Nat
  BY SequenceIs
<1>3. \E f : IsLoop(f, 0)
  <2>1. IsLoop([i \in 0..0 |-> first], 0)
    OBVIOUS
  <2> HIDE DEF IsLoop
  <2> QED BY <2>1
<1>4. ASSUME NEW k \in 1..Len(seq), \E f : IsLoop(f, k - 1) PROVE \E f : IsLoop(f, k)
  <2>1. PICK f : IsLoop(f, k - 1)
    BY <1>4
  <2> DEFINE longer == [i \in 0..k |-> IF i = k THEN CopiedId(f[k - 1], h, seq[k]) ELSE f[i]]
  <2>2. IsLoop(longer, k)
    BY <1>2, <2>1
  <2> HIDE DEF IsLoop
  <2> QED BY <2>2
<1> HIDE DEF IsLoop
<1>5. Climbs(Len(seq), Defined)
  BY <1>2, <1>3, <1>4 DEF Climbs
<1>6. IsLoop(after, Len(seq))
  <2> HIDE DEF Defined
  <2>1. Len(seq) \in Defined
    BY <1>2, <1>5, UpTo
  <2> QED BY <2>1 DEF Defined
<1> HIDE DEF after
<1>7. /\ after[0] = first
      /\ \A i \in 1..Len(seq) : after[i] = CopiedId(after[i - 1], h, seq[i])
  BY <1>2, <1>6 DEF IsLoop
<1> QED BY <1>1, <1>7

LEMMA CopiedEdgesLoop ==
  ASSUME NEW first, NEW seq, IsSequence(seq)
  PROVE  \E after :
           /\ after[0] = first /\ CopiedEdges(first, seq) = after[Len(seq)]
           /\ \A i \in 1..Len(seq) : after[i] = CopiedEdge(after[i - 1], seq[i])
<1> DEFINE IsLoop(f, k) == f = [i \in 0..k |-> IF i = 0 THEN first ELSE CopiedEdge(f[i - 1], seq[i])]
           Defined == {k \in 0..Len(seq) : \E f : IsLoop(f, k)}
           after == CHOOSE f : IsLoop(f, Len(seq))
<1>1. CopiedEdges(first, seq) = after[Len(seq)]
  BY DEF Loop, CopiedEdges
<1>2. Len(seq) \in Nat
  BY SequenceIs
<1>3. \E f : IsLoop(f, 0)
  <2>1. IsLoop([i \in 0..0 |-> first], 0)
    OBVIOUS
  <2> HIDE DEF IsLoop
  <2> QED BY <2>1
<1>4. ASSUME NEW k \in 1..Len(seq), \E f : IsLoop(f, k - 1) PROVE \E f : IsLoop(f, k)
  <2>1. PICK f : IsLoop(f, k - 1)
    BY <1>4
  <2> DEFINE longer == [i \in 0..k |-> IF i = k THEN CopiedEdge(f[k - 1], seq[k]) ELSE f[i]]
  <2>2. IsLoop(longer, k)
    BY <1>2, <2>1
  <2> HIDE DEF IsLoop
  <2> QED BY <2>2
<1> HIDE DEF IsLoop
<1>5. Climbs(Len(seq), Defined)
  BY <1>2, <1>3, <1>4 DEF Climbs
<1>6. IsLoop(after, Len(seq))
  <2> HIDE DEF Defined
  <2>1. Len(seq) \in Defined
    BY <1>2, <1>5, UpTo
  <2> QED BY <2>1 DEF Defined
<1> HIDE DEF after
<1>7. /\ after[0] = first
      /\ \A i \in 1..Len(seq) : after[i] = CopiedEdge(after[i - 1], seq[i])
  BY <1>2, <1>6 DEF IsLoop
<1> QED BY <1>1, <1>7

LEMMA CopiedFilesLoop ==
  ASSUME NEW h, NEW first, NEW seq, IsSequence(seq)
  PROVE  \E after :
           /\ after[0] = first /\ CopiedFiles(first, h, seq) = after[Len(seq)]
           /\ \A i \in 1..Len(seq) : after[i] = CopiedFile(after[i - 1], h, seq[i])
<1> DEFINE IsLoop(f, k) == f = [i \in 0..k |-> IF i = 0 THEN first ELSE CopiedFile(f[i - 1], h, seq[i])]
           Defined == {k \in 0..Len(seq) : \E f : IsLoop(f, k)}
           after == CHOOSE f : IsLoop(f, Len(seq))
<1>1. CopiedFiles(first, h, seq) = after[Len(seq)]
  BY DEF Loop, CopiedFiles
<1>2. Len(seq) \in Nat
  BY SequenceIs
<1>3. \E f : IsLoop(f, 0)
  <2>1. IsLoop([i \in 0..0 |-> first], 0)
    OBVIOUS
  <2> HIDE DEF IsLoop
  <2> QED BY <2>1
<1>4. ASSUME NEW k \in 1..Len(seq), \E f : IsLoop(f, k - 1) PROVE \E f : IsLoop(f, k)
  <2>1. PICK f : IsLoop(f, k - 1)
    BY <1>4
  <2> DEFINE longer == [i \in 0..k |-> IF i = k THEN CopiedFile(f[k - 1], h, seq[k]) ELSE f[i]]
  <2>2. IsLoop(longer, k)
    BY <1>2, <2>1
  <2> HIDE DEF IsLoop
  <2> QED BY <2>2
<1> HIDE DEF IsLoop
<1>5. Climbs(Len(seq), Defined)
  BY <1>2, <1>3, <1>4 DEF Climbs
<1>6. IsLoop(after, Len(seq))
  <2> HIDE DEF Defined
  <2>1. Len(seq) \in Defined
    BY <1>2, <1>5, UpTo
  <2> QED BY <2>1 DEF Defined
<1> HIDE DEF after
<1>7. /\ after[0] = first
      /\ \A i \in 1..Len(seq) : after[i] = CopiedFile(after[i - 1], h, seq[i])
  BY <1>2, <1>6 DEF IsLoop
<1> QED BY <1>1, <1>7

LEMMA LoadedNodesLoop ==
  ASSUME NEW first, NEW seq, IsSequence(seq)
  PROVE  \E after :
           /\ after[0] = first /\ LoadedNodes(first, seq) = after[Len(seq)]
           /\ \A i \in 1..Len(seq) : after[i] = LoadedNode(after[i - 1], seq[i])
<1> DEFINE IsLoop(f, k) == f = [i \in 0..k |-> IF i = 0 THEN first ELSE LoadedNode(f[i - 1], seq[i])]
           Defined == {k \in 0..Len(seq) : \E f : IsLoop(f, k)}
           after == CHOOSE f : IsLoop(f, Len(seq))
<1>1. LoadedNodes(first, seq) = after[Len(seq)]
  BY DEF Loop, LoadedNodes
<1>2. Len(seq) \in Nat
  BY SequenceIs
<1>3. \E f : IsLoop(f, 0)
  <2>1. IsLoop([i \in 0..0 |-> first], 0)
    OBVIOUS
  <2> HIDE DEF IsLoop
  <2> QED BY <2>1
<1>4. ASSUME NEW k \in 1..Len(seq), \E f : IsLoop(f, k - 1) PROVE \E f : IsLoop(f, k)
  <2>1. PICK f : IsLoop(f, k - 1)
    BY <1>4
  <2> DEFINE longer == [i \in 0..k |-> IF i = k THEN LoadedNode(f[k - 1], seq[k]) ELSE f[i]]
  <2>2. IsLoop(longer, k)
    BY <1>2, <2>1
  <2> HIDE DEF IsLoop
  <2> QED BY <2>2
<1> HIDE DEF IsLoop
<1>5. Climbs(Len(seq), Defined)
  BY <1>2, <1>3, <1>4 DEF Climbs
<1>6. IsLoop(after, Len(seq))
  <2> HIDE DEF Defined
  <2>1. Len(seq) \in Defined
    BY <1>2, <1>5, UpTo
  <2> QED BY <2>1 DEF Defined
<1> HIDE DEF after
<1>7. /\ after[0] = first
      /\ \A i \in 1..Len(seq) : after[i] = LoadedNode(after[i - 1], seq[i])
  BY <1>2, <1>6 DEF IsLoop
<1> QED BY <1>1, <1>7

LEMMA LoadedEdgesLoop ==
  ASSUME NEW first, NEW seq, IsSequence(seq)
  PROVE  \E after :
           /\ after[0] = first /\ LoadedEdges(first, seq) = after[Len(seq)]
           /\ \A i \in 1..Len(seq) : after[i] = LoadedEdge(after[i - 1], seq[i])
<1> DEFINE IsLoop(f, k) == f = [i \in 0..k |-> IF i = 0 THEN first ELSE LoadedEdge(f[i - 1], seq[i])]
           Defined == {k \in 0..Len(seq) : \E f : IsLoop(f, k)}
           after == CHOOSE f : IsLoop(f, Len(seq))
<1>1. LoadedEdges(first, seq) = after[Len(seq)]
  BY DEF Loop, LoadedEdges
<1>2. Len(seq) \in Nat
  BY SequenceIs
<1>3. \E f : IsLoop(f, 0)
  <2>1. IsLoop([i \in 0..0 |-> first], 0)
    OBVIOUS
  <2> HIDE DEF IsLoop
  <2> QED BY <2>1
<1>4. ASSUME NEW k \in 1..Len(seq), \E f : IsLoop(f, k - 1) PROVE \E f : IsLoop(f, k)
  <2>1. PICK f : IsLoop(f, k - 1)
    BY <1>4
  <2> DEFINE longer == [i \in 0..k |-> IF i = k THEN LoadedEdge(f[k - 1], seq[k]) ELSE f[i]]
  <2>2. IsLoop(longer, k)
    BY <1>2, <2>1
  <2> HIDE DEF IsLoop
  <2> QED BY <2>2
<1> HIDE DEF IsLoop
<1>5. Climbs(Len(seq), Defined)
  BY <1>2, <1>3, <1>4 DEF Climbs
<1>6. IsLoop(after, Len(seq))
  <2> HIDE DEF Defined
  <2>1. Len(seq) \in Defined
    BY <1>2, <1>5, UpTo
  <2> QED BY <2>1 DEF Defined
<1> HIDE DEF after
<1>7. /\ after[0] = first
      /\ \A i \in 1..Len(seq) : after[i] = LoadedEdge(after[i - 1], seq[i])
  BY <1>2, <1>6 DEF IsLoop
<1> QED BY <1>1, <1>7

LEMMA StartedLoop ==
  ASSUME NEW first, NEW seq, IsSequence(seq)
  PROVE  \E after :
           /\ after[0] = first /\ StartedFiles(first, seq) = after[Len(seq)]
           /\ \A i \in 1..Len(seq) : after[i] = NextStarted(after[i - 1], seq[i])
<1> DEFINE IsLoop(f, k) == f = [i \in 0..k |-> IF i = 0 THEN first ELSE NextStarted(f[i - 1], seq[i])]
           Defined == {k \in 0..Len(seq) : \E f : IsLoop(f, k)}
           after == CHOOSE f : IsLoop(f, Len(seq))
<1>1. StartedFiles(first, seq) = after[Len(seq)]
  BY DEF Loop, StartedFiles
<1>2. Len(seq) \in Nat
  BY SequenceIs
<1>3. \E f : IsLoop(f, 0)
  <2>1. IsLoop([i \in 0..0 |-> first], 0)
    OBVIOUS
  <2> HIDE DEF IsLoop
  <2> QED BY <2>1
<1>4. ASSUME NEW k \in 1..Len(seq), \E f : IsLoop(f, k - 1) PROVE \E f : IsLoop(f, k)
  <2>1. PICK f : IsLoop(f, k - 1)
    BY <1>4
  <2> DEFINE longer == [i \in 0..k |-> IF i = k THEN NextStarted(f[k - 1], seq[k]) ELSE f[i]]
  <2>2. IsLoop(longer, k)
    BY <1>2, <2>1
  <2> HIDE DEF IsLoop
  <2> QED BY <2>2
<1> HIDE DEF IsLoop
<1>5. Climbs(Len(seq), Defined)
  BY <1>2, <1>3, <1>4 DEF Climbs
<1>6. IsLoop(after, Len(seq))
  <2> HIDE DEF Defined
  <2>1. Len(seq) \in Defined
    BY <1>2, <1>5, UpTo
  <2> QED BY <2>1 DEF Defined
<1> HIDE DEF after
<1>7. /\ after[0] = first
      /\ \A i \in 1..Len(seq) : after[i] = NextStarted(after[i - 1], seq[i])
  BY <1>2, <1>6 DEF IsLoop
<1> QED BY <1>1, <1>7

LEMMA OnlyLoop ==
  ASSUME NEW T, NEW seq, IsSequence(seq)
  PROVE  \E after :
           /\ after[0] = <<>> /\ Only(seq, T) = after[Len(seq)]
           /\ \A i \in 1..Len(seq) : after[i] = (IF seq[i] \in T THEN Append(after[i - 1], seq[i]) ELSE after[i - 1])
<1> DEFINE Step(a, e) == IF e \in T THEN Append(a, e) ELSE a
<1> DEFINE IsLoop(f, k) == f = [i \in 0..k |-> IF i = 0 THEN <<>> ELSE Step(f[i - 1], seq[i])]
           Defined == {k \in 0..Len(seq) : \E f : IsLoop(f, k)}
           after == CHOOSE f : IsLoop(f, Len(seq))
<1>1. Only(seq, T) = after[Len(seq)]
  BY DEF Loop, Only
<1> HIDE DEF Step
<1>2. Len(seq) \in Nat
  BY SequenceIs
<1>3. \E f : IsLoop(f, 0)
  <2>1. IsLoop([i \in 0..0 |-> <<>>], 0)
    OBVIOUS
  <2> HIDE DEF IsLoop
  <2> QED BY <2>1
<1>4. ASSUME NEW k \in 1..Len(seq), \E f : IsLoop(f, k - 1) PROVE \E f : IsLoop(f, k)
  <2>1. PICK f : IsLoop(f, k - 1)
    BY <1>4
  <2> DEFINE longer == [i \in 0..k |-> IF i = k THEN Step(f[k - 1], seq[k]) ELSE f[i]]
  <2>2. IsLoop(longer, k)
    BY <1>2, <2>1
  <2> HIDE DEF IsLoop
  <2> QED BY <2>2
<1> HIDE DEF IsLoop
<1>5. Climbs(Len(seq), Defined)
  BY <1>2, <1>3, <1>4 DEF Climbs
<1>6. IsLoop(after, Len(seq))
  <2> HIDE DEF Defined
  <2>1. Len(seq) \in Defined
    BY <1>2, <1>5, UpTo
  <2> QED BY <2>1 DEF Defined
<1> HIDE DEF after
<1>7. /\ after[0] = <<>>
      /\ \A i \in 1..Len(seq) : after[i] = Step(after[i - 1], seq[i])
  BY <1>2, <1>6 DEF IsLoop
<1> QED BY <1>1, <1>7 DEF Step

LEMMA EdgesLoop ==
  ASSUME NEW g, NEW nodes, NEW first, NEW seq, IsSequence(seq)
  PROVE  \E after :
           /\ after[0] = first /\ EdgesFromAll(g, nodes, first, seq) = after[Len(seq)]
           /\ \A i \in 1..Len(seq) : after[i] = EdgesFound(g, nodes, after[i - 1], seq[i])
<1> DEFINE IsLoop(f, k) == f = [i \in 0..k |-> IF i = 0 THEN first ELSE EdgesFound(g, nodes, f[i - 1], seq[i])]
           Defined == {k \in 0..Len(seq) : \E f : IsLoop(f, k)}
           after == CHOOSE f : IsLoop(f, Len(seq))
<1>1. EdgesFromAll(g, nodes, first, seq) = after[Len(seq)]
  BY DEF Loop, EdgesFromAll
<1>2. Len(seq) \in Nat
  BY SequenceIs
<1>3. \E f : IsLoop(f, 0)
  <2>1. IsLoop([i \in 0..0 |-> first], 0)
    OBVIOUS
  <2> HIDE DEF IsLoop
  <2> QED BY <2>1
<1>4. ASSUME NEW k \in 1..Len(seq), \E f : IsLoop(f, k - 1) PROVE \E f : IsLoop(f, k)
  <2>1. PICK f : IsLoop(f, k - 1)
    BY <1>4
  <2> DEFINE longer == [i \in 0..k |-> IF i = k THEN EdgesFound(g, nodes, f[k - 1], seq[k]) ELSE f[i]]
  <2>2. IsLoop(longer, k)
    BY <1>2, <2>1
  <2> HIDE DEF IsLoop
  <2> QED BY <2>2
<1> HIDE DEF IsLoop
<1>5. Climbs(Len(seq), Defined)
  BY <1>2, <1>3, <1>4 DEF Climbs
<1>6. IsLoop(after, Len(seq))
  <2> HIDE DEF Defined
  <2>1. Len(seq) \in Defined
    BY <1>2, <1>5, UpTo
  <2> QED BY <2>1 DEF Defined
<1> HIDE DEF after
<1>7. /\ after[0] = first
      /\ \A i \in 1..Len(seq) : after[i] = EdgesFound(g, nodes, after[i - 1], seq[i])
  BY <1>2, <1>6 DEF IsLoop
<1> QED BY <1>1, <1>7

-----------------------------------------------------------------------------
(* Files and nodes *)

Fields == {"files", "nodes", "ids", "outgoing", "incoming", "info", "notes"}

LEMMA IntactIs ==
  ASSUME NEW g
  PROVE  Intact(g) <=> /\ DOMAIN g = Fields
                       /\ FilesIntact(g) /\ NodesIntact(g) /\ IdsIntact(g)
                       /\ EdgesIntact(g) /\ DegreesIntact(g)
  BY DEF Intact, EmptyGraph, Fields

LEMMA NodeIs ==
  ASSUME NEW file, NEW local, NEW payload
  PROVE  LET node == Node(file, local, payload)
         IN  /\ node.file = file /\ node.local = local /\ node.payload = payload
             /\ node = Node(node.file, node.local, node.payload)
  BY DEF Node

LEMMA DegreeOfNone == DegreeOf(Cardinality({})) = "zero"
  BY FS_EmptySet DEF DegreeOf

LEMMA EmptyGraphIntact == Intact(EmptyGraph) /\ EmptyGraph.files = <<>>
<1> PICK g : g = EmptyGraph
  OBVIOUS
<1> DEFINE root == Node(0, ROOT, "root")
           jump == Node(0, JUMP_TO, "jump_to")
<1>1. DOMAIN g = Fields /\ g.files = <<>> /\ g.ids = <<>>
  BY DEF EmptyGraph, Fields
<1>2. g.nodes = Pair(root, jump)
  BY DEF EmptyGraph, Pair
<1>3. g.outgoing = Pair(<<>>, <<>>)
  BY DEF EmptyGraph, Pair
<1>4. g.incoming = Pair("zero", "zero")
  BY DEF EmptyGraph, Pair
<1>5. FilesIntact(g) /\ IdsIntact(g)
  BY <1>1, EmptyIs DEF FilesIntact, IdsIntact, IsInjective
<1>6. root.file = 0 /\ root.local = 1 /\ root = Node(root.file, root.local, root.payload)
  BY NodeIs DEF ROOT
<1>7. jump.file = 0 /\ jump.local = 2 /\ jump = Node(jump.file, jump.local, jump.payload)
  BY NodeIs DEF JUMP_TO
<1> HIDE DEF root, jump
<1>8. IsSequence(g.nodes) /\ Len(g.nodes) = 2 /\ DOMAIN g.nodes = 1..2
      /\ g.nodes[1] = root /\ g.nodes[2] = jump
  BY <1>2, PairIs
<1>9. NodesIntact(g)
  <2>1. NodeIntact(g, 1)
    BY <1>6, <1>8 DEF NodeIntact, JUMP_TO
  <2>2. NodeIntact(g, 2)
    BY <1>7, <1>8 DEF NodeIntact, JUMP_TO
  <2>3. \A n \in 1..2 : n = 1 \/ n = 2
    OBVIOUS
  <2> QED BY <1>8, <2>1, <2>2, <2>3 DEF NodesIntact, JUMP_TO
<1>10. IsSequence(g.outgoing) /\ Len(g.outgoing) = 2
       /\ \A n \in 1..2 : g.outgoing[n] = <<>>
  BY <1>3, PairIs
<1>11. EdgesIntact(g)
  BY <1>8, <1>10, EmptyIs DEF EdgesIntact, InOrder
<1>12. IsSequence(g.incoming) /\ Len(g.incoming) = 2
       /\ \A n \in 1..2 : g.incoming[n] = "zero"
  BY <1>4, PairIs
<1>13. \A t : Sources(g, t) = {}
  BY <1>8, <1>10, EmptyIs DEF Sources, HasEdge
<1>14. DegreesIntact(g)
  BY <1>8, <1>12, <1>13, DegreeOfNone DEF DegreesIntact
<1> QED BY <1>1, <1>5, <1>9, <1>11, <1>14, IntactIs

(* Two graphs that differ in their files and ids only. *)
SameNodes(g, h) ==
  /\ h.nodes = g.nodes /\ h.outgoing = g.outgoing /\ h.incoming = g.incoming
  /\ h.info = g.info /\ h.notes = g.notes

LEMMA WithFileIs ==
  ASSUME NEW g, Intact(g), NEW name, NEW h \in WithFile(g, name)
  PROVE  /\ Intact(h) /\ SameNodes(g, h) /\ name \notin ToSet(g.files)
         /\ h.files = Append(g.files, name) /\ h.ids = Append(g.ids, <<>>)
<1>1. DOMAIN g = Fields /\ FilesIntact(g) /\ NodesIntact(g) /\ IdsIntact(g)
      /\ EdgesIntact(g) /\ DegreesIntact(g)
  BY IntactIs
<1>2. /\ h = [g EXCEPT !.files = Append(@, name), !.ids = Append(@, <<>>)]
      /\ name \notin ToSet(g.files)
  BY DEF WithFile
<1>3. /\ DOMAIN h = Fields /\ SameNodes(g, h)
      /\ h.files = Append(g.files, name) /\ h.ids = Append(g.ids, <<>>)
  BY <1>1, <1>2 DEF Fields, SameNodes
<1>4. /\ IsSequence(g.files) /\ DOMAIN g.files = 1..Len(g.files) /\ Len(g.files) \in Nat
      /\ IsSequence(g.ids) /\ DOMAIN g.ids = 1..Len(g.files) /\ Len(g.ids) = Len(g.files)
  BY <1>1, SequenceIs DEF FilesIntact
<1>5. /\ IsSequence(h.files) /\ DOMAIN h.files = 1..Len(g.files) + 1
      /\ Len(h.files) = Len(g.files) + 1
      /\ h.files[Len(g.files) + 1] = name /\ \A f \in 1..Len(g.files) : h.files[f] = g.files[f]
  BY <1>3, <1>4, AppendIs
<1>6. /\ IsSequence(h.ids) /\ DOMAIN h.ids = 1..Len(g.files) + 1
      /\ Len(h.ids) = Len(g.files) + 1
      /\ h.ids[Len(g.files) + 1] = <<>> /\ \A f \in 1..Len(g.files) : h.ids[f] = g.ids[f]
  BY <1>3, <1>4, AppendIs
<1>7. \A f \in 1..Len(g.files) : g.files[f] # name
  BY <1>2, <1>4 DEF ToSet
<1>8. FilesIntact(h)
  <2>1. ASSUME NEW a \in DOMAIN h.files, NEW b \in DOMAIN h.files, h.files[a] = h.files[b]
        PROVE  a = b
    BY <1>1, <1>4, <1>5, <1>7, <2>1 DEF FilesIntact, IsInjective
  <2> QED BY <1>4, <1>5, <1>6, <2>1 DEF FilesIntact, IsInjective
<1>9. NodesIntact(h)
  BY <1>1, <1>3, <1>4, <1>5, <1>6 DEF NodesIntact, NodeIntact, SameNodes
<1>10. IdsIntact(h)
  BY <1>1, <1>3, <1>4, <1>6, EmptyIs DEF IdsIntact, SameNodes
<1>11. EdgesIntact(h) /\ DegreesIntact(h)
  <2>1. \A t : Sources(h, t) = Sources(g, t)
    BY <1>3 DEF SameNodes, Sources, HasEdge
  <2> QED BY <1>1, <1>3, <2>1 DEF EdgesIntact, DegreesIntact, SameNodes
<1> QED BY <1>2, <1>3, <1>8, <1>9, <1>10, <1>11, IntactIs

LEMMA WithFileExists ==
  ASSUME NEW g, NEW name, name \notin ToSet(g.files)
  PROVE  WithFile(g, name) # {}
  BY DEF WithFile

(* The nodes of an id are in the graph. *)
LEMMA NodesForIdIs ==
  ASSUME NEW g, Intact(g), NEW f \in DOMAIN g.files, NEW local \in Nat
  PROVE  /\ f # 0 /\ f \in DOMAIN g.ids /\ IsSequence(g.ids[f])
         /\ NodesForId(g, f, local) \subseteq DOMAIN g.nodes
         /\ \A n \in NodesForId(g, f, local) :
              NodesForId(g, f, local) = {n} /\ g.nodes[n].file = f /\ g.nodes[n].local = local
         /\ NodesForId(g, f, local) = {} /\ local < Len(g.ids[f]) => g.ids[f][local + 1] = 0
<1>1. FilesIntact(g) /\ NodesIntact(g) /\ IdsIntact(g)
  BY IntactIs
<1>2. f \in 1..Len(g.files) /\ f # 0 /\ f \in DOMAIN g.ids
  BY <1>1, SequenceIs DEF FilesIntact
<1>3. IsSequence(g.ids[f]) /\ DOMAIN g.ids[f] = 1..Len(g.ids[f]) /\ Len(g.ids[f]) \in Nat
  BY <1>1, <1>2, SequenceIs DEF IdsIntact
<1>4. NodesForId(g, f, local) =
        {n \in DOMAIN g.nodes : local < Len(g.ids[f]) /\ g.ids[f][local + 1] = n}
  BY <1>2 DEF NodesForId
<1>5. ASSUME local < Len(g.ids[f]), g.ids[f][local + 1] # 0
      PROVE  LET n == g.ids[f][local + 1]
             IN  n \in DOMAIN g.nodes /\ g.nodes[n].file = f /\ g.nodes[n].local + 1 = local + 1
  BY <1>1, <1>2, <1>3, <1>5 DEF IdsIntact
<1>6. ASSUME NEW n \in NodesForId(g, f, local)
      PROVE  NodesForId(g, f, local) = {n} /\ g.nodes[n].file = f /\ g.nodes[n].local = local
  <2>1. n \in DOMAIN g.nodes /\ local < Len(g.ids[f]) /\ g.ids[f][local + 1] = n
    BY <1>4, <1>6
  <2>2. n # 0 /\ g.nodes[n].local \in Nat
    BY <1>1, <2>1, SequenceIs DEF NodesIntact, NodeIntact
  <2>3. g.nodes[n].file = f /\ g.nodes[n].local + 1 = local + 1
    BY <1>5, <2>1, <2>2
  <2> QED BY <1>4, <2>1, <2>2, <2>3
<1> QED BY <1>2, <1>3, <1>4, <1>5, <1>6

(* The table of ids of a file, extended up to a local id. *)
LEMMA PaddedIs ==
  ASSUME NEW ids, IsSequence(ids), NEW local \in Nat, NEW n
  PROVE  LET padded == Replaced(Padded(ids, local), local + 1, n)
         IN  /\ IsSequence(padded) /\ DOMAIN padded = 1..Len(padded) /\ Len(padded) \in Nat
             /\ Len(padded) = IF local < Len(ids) THEN Len(ids) ELSE local + 1
             /\ padded[local + 1] = n
             /\ \A i \in 1..Len(padded) :
                  i # local + 1 => padded[i] = IF i <= Len(ids) THEN ids[i] ELSE 0
<1> DEFINE first == Padded(ids, local)
           padded == Replaced(first, local + 1, n)
           len == IF local < Len(ids) THEN Len(ids) ELSE local + 1
<1>1. Len(ids) \in Nat /\ len \in Nat /\ local + 1 \in 1..len
  BY SequenceIs
<1>2. IsSequence(first) /\ Len(first) = len
      /\ \A i \in 1..len : first[i] = IF i <= Len(ids) THEN ids[i] ELSE 0
  <2>1. CASE local < Len(ids)
    BY <1>1, <2>1 DEF Padded
  <2>2. CASE ~ (local < Len(ids))
    <3>1. first = [i \in 1..local + 1 |-> IF i <= Len(ids) THEN ids[i] ELSE 0]
      BY <2>2 DEF Padded
    <3>2. first = [i \in 1..local + 1 |-> first[i]]
      BY <3>1
    <3> HIDE DEF first
    <3>3. IsSequence(first) /\ Len(first) = local + 1
      BY <1>1, <3>2, FunctionIsSequence
    <3> QED BY <2>2, <3>1, <3>3
  <2> QED BY <2>1, <2>2
<1> HIDE DEF first
<1>3. /\ IsSequence(padded) /\ Len(padded) = len
      /\ \A i \in 1..len : padded[i] = IF i = local + 1 THEN n ELSE first[i]
  BY <1>2, ReplacedIs
<1> HIDE DEF padded
<1>4. DOMAIN padded = 1..Len(padded)
  BY <1>3, SequenceIs
<1>5. /\ padded[local + 1] = n
      /\ \A i \in 1..len : i # local + 1 => padded[i] = IF i <= Len(ids) THEN ids[i] ELSE 0
  BY <1>1, <1>2, <1>3
<1> QED BY <1>1, <1>3, <1>4, <1>5 DEF padded, first

(* A node that is added is found by its id, and the others are as before. *)
LEMMA WithNodeIs ==
  ASSUME NEW g, Intact(g), NEW file \in DOMAIN g.files, NEW local \in Nat, NEW payload,
         NEW h \in WithNode(g, Node(file, local, payload))
  PROVE  /\ NodesForId(g, file, local) = {}
         /\ h.files = g.files /\ h.notes = g.notes
         /\ h.nodes = Append(g.nodes, Node(file, local, payload))
         /\ h.ids = Replaced(g.ids, file,
                             Replaced(Padded(g.ids[file], local), local + 1, Len(g.nodes) + 1))
         /\ h.outgoing = Append(g.outgoing, <<>>) /\ h.incoming = Append(g.incoming, "zero")
         /\ DOMAIN h = Fields
<1> DEFINE node == Node(file, local, payload)
<1>1. node.file = file /\ node.local = local
  BY NodeIs
<1>2. DOMAIN g = Fields
  BY IntactIs
<1> HIDE DEF node
<1>3. /\ NodesForId(g, node.file, node.local) = {}
      /\ h = [g EXCEPT !.nodes = Append(@, node),
                       !.ids[node.file] =
                         [Padded(@, node.local) EXCEPT ![node.local + 1] = Len(g.nodes) + 1],
                       !.outgoing = Append(@, <<>>), !.incoming = Append(@, "zero"),
                       !.info = Append(@, {})]
  BY DEF WithNode, node
<1>4. /\ h.files = g.files /\ h.notes = g.notes
      /\ h.nodes = Append(g.nodes, node)
      /\ h.outgoing = Append(g.outgoing, <<>>) /\ h.incoming = Append(g.incoming, "zero")
      /\ DOMAIN h = Fields
  BY <1>2, <1>3 DEF Fields
<1>5. h.ids = [g.ids EXCEPT ![node.file] =
                 [Padded(g.ids[node.file], node.local) EXCEPT ![node.local + 1] = Len(g.nodes) + 1]]
  BY <1>2, <1>3 DEF Fields
<1>6. h.ids = Replaced(g.ids, file,
                       Replaced(Padded(g.ids[file], local), local + 1, Len(g.nodes) + 1))
  BY <1>1, <1>5 DEF Replaced
<1> QED BY <1>1, <1>3, <1>4, <1>6 DEF node

LEMMA WithNodeIntact ==
  ASSUME NEW g, Intact(g), NEW file \in DOMAIN g.files, NEW local \in Nat, NEW payload,
         NEW h \in WithNode(g, Node(file, local, payload))
  PROVE  /\ Intact(h) /\ h.files = g.files /\ h.notes = g.notes
         /\ Len(g.nodes) \in Nat /\ DOMAIN g.nodes = 1..Len(g.nodes)
         /\ Len(h.nodes) = Len(g.nodes) + 1 /\ DOMAIN h.nodes = 1..Len(g.nodes) + 1
         /\ \A n \in DOMAIN g.nodes : h.nodes[n] = g.nodes[n]
         /\ h.nodes[Len(h.nodes)] = Node(file, local, payload)
         /\ \A f \in DOMAIN g.files : f # file => h.ids[f] = g.ids[f]
         /\ Len(h.ids[file]) = IF local < Len(g.ids[file]) THEN Len(g.ids[file]) ELSE local + 1
         /\ h.ids[file][local + 1] = Len(h.nodes)
         /\ \A i \in 1..Len(g.ids[file]) : i # local + 1 => h.ids[file][i] = g.ids[file][i]
<1> DEFINE node == Node(file, local, payload)
           new == Len(g.nodes) + 1
           slots == Replaced(Padded(g.ids[file], local), local + 1, new)
<1>1. DOMAIN g = Fields /\ FilesIntact(g) /\ NodesIntact(g) /\ IdsIntact(g)
      /\ EdgesIntact(g) /\ DegreesIntact(g)
  BY IntactIs
<1>2. /\ NodesForId(g, file, local) = {}
      /\ h.files = g.files /\ h.notes = g.notes
      /\ h.nodes = Append(g.nodes, node)
      /\ h.ids = Replaced(g.ids, file, slots)
      /\ h.outgoing = Append(g.outgoing, <<>>) /\ h.incoming = Append(g.incoming, "zero")
      /\ DOMAIN h = Fields
  BY WithNodeIs
<1>3. /\ IsSequence(g.files) /\ DOMAIN g.files = 1..Len(g.files) /\ Len(g.files) \in Nat
      /\ IsSequence(g.ids) /\ DOMAIN g.ids = DOMAIN g.files /\ Len(g.ids) = Len(g.files)
      /\ IsSequence(g.nodes) /\ DOMAIN g.nodes = 1..Len(g.nodes) /\ Len(g.nodes) \in Nat
      /\ Len(g.nodes) >= 2
  BY <1>1, SequenceIs DEF FilesIntact, NodesIntact, JUMP_TO
<1>4. /\ IsSequence(h.nodes) /\ Len(h.nodes) = new /\ DOMAIN h.nodes = 1..new
      /\ \A n \in 1..Len(g.nodes) : h.nodes[n] = g.nodes[n]
      /\ h.nodes[new] = node
  BY <1>2, <1>3, AppendIs
<1>5. /\ node.file = file /\ node.local = local
      /\ node = Node(node.file, node.local, node.payload)
  BY NodeIs
<1>6. /\ IsSequence(g.ids[file]) /\ Len(g.ids[file]) \in Nat
      /\ DOMAIN g.ids[file] = 1..Len(g.ids[file])
      /\ local < Len(g.ids[file]) => g.ids[file][local + 1] = 0
      /\ file # 0
  BY <1>1, <1>2, <1>3, NodesForIdIs, SequenceIs DEF IdsIntact
<1>7. /\ IsSequence(slots) /\ DOMAIN slots = 1..Len(slots) /\ Len(slots) \in Nat
      /\ Len(slots) = IF local < Len(g.ids[file]) THEN Len(g.ids[file]) ELSE local + 1
      /\ slots[local + 1] = new
      /\ \A i \in 1..Len(slots) : i # local + 1 =>
           slots[i] = IF i <= Len(g.ids[file]) THEN g.ids[file][i] ELSE 0
  <2>1. PICK ids, n : ids = g.ids[file] /\ n = new
    OBVIOUS
  <2>2. slots = Replaced(Padded(ids, local), local + 1, n) /\ IsSequence(ids)
    BY <1>6, <2>1
  <2> HIDE DEF slots, new
  <2>3. /\ IsSequence(slots) /\ DOMAIN slots = 1..Len(slots) /\ Len(slots) \in Nat
        /\ Len(slots) = IF local < Len(ids) THEN Len(ids) ELSE local + 1
        /\ slots[local + 1] = n
        /\ \A i \in 1..Len(slots) :
             i # local + 1 => slots[i] = IF i <= Len(ids) THEN ids[i] ELSE 0
    BY <2>2, PaddedIs
  <2> QED BY <2>1, <2>3
<1> HIDE DEF slots, node
<1>8. /\ IsSequence(h.ids) /\ Len(h.ids) = Len(g.ids) /\ DOMAIN h.ids = DOMAIN g.files
      /\ \A f \in DOMAIN g.files : h.ids[f] = IF f = file THEN slots ELSE g.ids[f]
  BY <1>2, <1>3, ReplacedIs
<1>9. FilesIntact(h)
  BY <1>1, <1>2, <1>3, <1>8 DEF FilesIntact
<1>10. NodesIntact(h)
  <2>1. ASSUME NEW n \in 1..Len(g.nodes) PROVE NodeIntact(h, n)
    <3>1. NodeIntact(g, n) /\ h.nodes[n] = g.nodes[n]
      BY <1>1, <1>3, <1>4 DEF NodesIntact
    <3>2. CASE n <= JUMP_TO
      BY <3>1, <3>2 DEF NodeIntact
    <3>3. CASE ~ (n <= JUMP_TO)
      <4> DEFINE m == g.nodes[n]
      <4>1. /\ m = Node(m.file, m.local, m.payload) /\ m.local \in Nat
            /\ m.file \in DOMAIN g.files
            /\ m.local < Len(g.ids[m.file]) /\ g.ids[m.file][m.local + 1] = n
        BY <3>1, <3>3 DEF NodeIntact
      <4> HIDE DEF m
      <4>2. m.local < Len(h.ids[m.file]) /\ h.ids[m.file][m.local + 1] = n
        <5>1. CASE m.file # file
          BY <1>8, <4>1, <5>1
        <5>2. CASE m.file = file
          <6>1. m.local # local
            BY <1>6, <4>1, <5>2
          <6>2. m.local + 1 \in 1..Len(g.ids[file]) /\ m.local + 1 # local + 1
                /\ m.local + 1 \in 1..Len(slots) /\ m.local < Len(slots)
            BY <1>6, <1>7, <4>1, <5>2, <6>1
          <6>3. slots[m.local + 1] = g.ids[file][m.local + 1] /\ h.ids[m.file] = slots
            BY <1>7, <1>8, <5>2, <6>2
          <6> QED BY <4>1, <5>2, <6>2, <6>3
        <5> QED BY <5>1, <5>2
      <4> QED BY <1>2, <3>1, <3>3, <4>1, <4>2 DEF NodeIntact, m
    <3> QED BY <3>2, <3>3
  <2>2. NodeIntact(h, new)
    BY <1>2, <1>3, <1>4, <1>5, <1>6, <1>7, <1>8 DEF NodeIntact, JUMP_TO
  <2> QED BY <1>3, <1>4, <2>1, <2>2 DEF NodesIntact, JUMP_TO
<1>11. IdsIntact(h)
  <2>0. \A n \in DOMAIN g.nodes : n \in DOMAIN h.nodes /\ h.nodes[n] = g.nodes[n]
    BY <1>3, <1>4
  <2>1. ASSUME NEW f \in DOMAIN g.files, f # file, NEW i \in DOMAIN g.ids[f], g.ids[f][i] # 0
        PROVE  LET n == g.ids[f][i]
               IN  n \in DOMAIN h.nodes /\ h.nodes[n].file = f /\ h.nodes[n].local + 1 = i
    <3>1. LET n == g.ids[f][i]
          IN  n \in DOMAIN g.nodes /\ g.nodes[n].file = f /\ g.nodes[n].local + 1 = i
      BY <1>1, <1>3, <2>1 DEF IdsIntact
    <3> QED BY <2>0, <3>1
  <2>2. ASSUME NEW i \in DOMAIN slots, slots[i] # 0
        PROVE  LET n == slots[i]
               IN  n \in DOMAIN h.nodes /\ h.nodes[n].file = file /\ h.nodes[n].local + 1 = i
    <3>1. CASE i = local + 1
      BY <1>3, <1>4, <1>5, <1>7, <3>1
    <3>2. CASE i # local + 1
      <4>1. i \in DOMAIN g.ids[file] /\ slots[i] = g.ids[file][i]
        BY <1>6, <1>7, <2>2, <3>2
      <4>2. LET n == g.ids[file][i]
            IN  n \in DOMAIN g.nodes /\ g.nodes[n].file = file /\ g.nodes[n].local + 1 = i
        BY <1>1, <1>3, <2>2, <4>1 DEF IdsIntact
      <4> QED BY <2>0, <4>1, <4>2
    <3> QED BY <3>1, <3>2
  <2>3. \A f \in DOMAIN g.files : IsSequence(h.ids[f])
    BY <1>1, <1>3, <1>7, <1>8 DEF IdsIntact
  <2> QED BY <1>8, <2>1, <2>2, <2>3 DEF IdsIntact
<1>12. /\ IsSequence(g.outgoing) /\ Len(g.outgoing) = Len(g.nodes)
       /\ IsSequence(g.incoming) /\ Len(g.incoming) = Len(g.nodes)
  BY <1>1 DEF EdgesIntact, DegreesIntact
<1>13. /\ IsSequence(h.outgoing) /\ Len(h.outgoing) = new
       /\ \A n \in 1..Len(g.nodes) : h.outgoing[n] = g.outgoing[n]
       /\ h.outgoing[new] = <<>>
  BY <1>2, <1>12, AppendIs
<1>14. EdgesIntact(h)
  <2>1. ASSUME NEW n \in 1..new
        PROVE  IsSequence(h.outgoing[n]) /\ InOrder(h.outgoing[n])
               /\ \A i \in DOMAIN h.outgoing[n] :
                    /\ DOMAIN h.outgoing[n][i] = {"sink", "precedence"}
                    /\ h.outgoing[n][i].sink \in DOMAIN h.nodes
    <3>1. CASE n = new
      BY <1>13, <3>1, EmptyIs DEF InOrder
    <3>2. CASE n # new
      <4>1. n \in DOMAIN g.nodes /\ h.outgoing[n] = g.outgoing[n]
            /\ DOMAIN g.nodes \subseteq DOMAIN h.nodes
        BY <1>3, <1>4, <1>13, <3>2
      <4> QED BY <1>1, <4>1 DEF EdgesIntact
    <3> QED BY <3>1, <3>2
  <2> QED BY <1>4, <1>13, <2>1 DEF EdgesIntact
<1>15. /\ IsSequence(h.incoming) /\ Len(h.incoming) = new
       /\ \A n \in 1..Len(g.nodes) : h.incoming[n] = g.incoming[n]
       /\ h.incoming[new] = "zero"
  BY <1>2, <1>12, AppendIs
<1>16. DegreesIntact(h)
  <2>1. \A t \in DOMAIN g.nodes : Sources(h, t) = Sources(g, t)
    <3>1. ~ \E t : HasEdge(h, new, t)
      BY <1>13, EmptyIs DEF HasEdge
    <3>2. \A s \in DOMAIN g.nodes : \A t : HasEdge(h, s, t) <=> HasEdge(g, s, t)
      BY <1>3, <1>13 DEF HasEdge
    <3>3. DOMAIN h.nodes = DOMAIN g.nodes \cup {new}
      BY <1>3, <1>4
    <3> QED BY <3>1, <3>2, <3>3 DEF Sources
  <2>2. Sources(h, new) = {}
    <3>1. ASSUME NEW s \in 1..Len(g.nodes), NEW i \in DOMAIN g.outgoing[s]
          PROVE  g.outgoing[s][i].sink # new
      BY <1>1, <1>3 DEF EdgesIntact
    <3> QED BY <1>3, <1>4, <1>13, <3>1, EmptyIs DEF Sources, HasEdge
  <2>3. \A t \in DOMAIN g.nodes : h.incoming[t] = DegreeOf(Cardinality(Sources(h, t)))
    BY <1>1, <1>3, <1>15, <2>1 DEF DegreesIntact
  <2>4. h.incoming[new] = DegreeOf(Cardinality(Sources(h, new)))
    BY <1>15, <2>2, DegreeOfNone
  <2>5. \A t \in DOMAIN h.nodes : t \in DOMAIN g.nodes \/ t = new
    BY <1>3, <1>4
  <2> QED BY <1>4, <1>15, <2>3, <2>4, <2>5 DEF DegreesIntact
<1>17. Intact(h)
  BY <1>2, <1>9, <1>10, <1>11, <1>14, <1>16, IntactIs
<1>18. /\ \A f \in DOMAIN g.files : f # file => h.ids[f] = g.ids[f]
       /\ h.ids[file] = slots
  BY <1>8
<1>19. \A i \in 1..Len(g.ids[file]) : i # local + 1 => slots[i] = g.ids[file][i]
  BY <1>6, <1>7
<1> QED BY <1>2, <1>3, <1>4, <1>7, <1>17, <1>18, <1>19 DEF node

-----------------------------------------------------------------------------
(* Edges *)

LEMMA SubSeqIs ==
  ASSUME NEW s, IsSequence(s), NEW a \in Nat, NEW b \in Nat, 1 <= a, a <= b + 1, b <= Len(s)
  PROVE  /\ IsSequence(SubSeq(s, a, b)) /\ Len(SubSeq(s, a, b)) = b - a + 1
         /\ \A i \in 1..b - a + 1 : SubSeq(s, a, b)[i] = s[a + i - 1]
<1> DEFINE S == ToSet(s)
<1>1. s \in Seq(S) /\ Len(s) \in Nat
  BY SequenceIs
<1> HIDE DEF S
<1>2. \A i \in a..b : s[i] \in S
  BY <1>1
<1>3. SubSeq(s, a, b) \in Seq(S) /\ Len(SubSeq(s, a, b)) = b - a + 1
  BY <1>1, <1>2
<1>4. \A i \in 1..b - a + 1 : SubSeq(s, a, b)[i] = s[a + i - 1]
  BY <1>1
<1> QED BY <1>3, <1>4, SequenceOf

LEMMA InsertAtIs ==
  ASSUME NEW s, IsSequence(s), NEW k \in 1..Len(s) + 1, NEW e
  PROVE  LET t == InsertAt(s, k, e)
         IN  /\ IsSequence(t) /\ Len(t) = Len(s) + 1 /\ t[k] = e
             /\ \A i \in 1..k - 1 : t[i] = s[i]
             /\ \A i \in k..Len(s) : t[i + 1] = s[i]
<1> DEFINE before == SubSeq(s, 1, k - 1)
           after == SubSeq(s, k, Len(s))
           one == <<e>>
           first == before \o one
           t == first \o after
<1>1. Len(s) \in Nat /\ k \in Nat /\ k - 1 \in Nat /\ 1 <= k /\ k <= Len(s) + 1
  BY SequenceIs
<1>2. IsSequence(before) /\ Len(before) = k - 1 /\ \A i \in 1..k - 1 : before[i] = s[i]
  <2>1. (k - 1) - 1 + 1 = k - 1 /\ 1 <= (k - 1) + 1 /\ k - 1 <= Len(s)
        /\ \A i \in 1..k - 1 : 1 + i - 1 = i
    BY <1>1
  <2> QED BY <1>1, <2>1, SubSeqIs
<1>3. IsSequence(after) /\ Len(after) = Len(s) - k + 1
      /\ \A i \in 1..Len(s) - k + 1 : after[i] = s[k + i - 1]
  BY <1>1, SubSeqIs
<1>4. IsSequence(one) /\ Len(one) = 1 /\ one[1] = e
  <2>1. one \in Seq({e}) /\ Len(one) = 1 /\ one[1] = e
    OBVIOUS
  <2> QED BY <2>1, SequenceOf
<1>5. t = InsertAt(s, k, e)
  BY DEF InsertAt
<1> HIDE DEF before, after, one
<1>6. /\ IsSequence(first) /\ Len(first) = k
      /\ \A i \in 1..k - 1 : first[i] = s[i]
      /\ first[k] = e
  <2>1. /\ IsSequence(first) /\ Len(first) = Len(before) + Len(one)
        /\ \A i \in 1..Len(before) : first[i] = before[i]
        /\ \A i \in 1..Len(one) : first[Len(before) + i] = one[i]
    <3>1. IsSequence(before) /\ IsSequence(one)
      BY <1>2, <1>4
    <3> QED BY ONLY <3>1, ConcatIs
  <2> HIDE DEF first
  <2>2. first[(k - 1) + 1] = e /\ (k - 1) + 1 = k
    BY <1>1, <1>2, <1>4, <2>1
  <2> QED BY <1>1, <1>2, <1>4, <2>1, <2>2
<1> HIDE DEF first
<1>7. /\ IsSequence(t) /\ Len(t) = Len(first) + Len(after)
      /\ \A i \in 1..Len(first) : t[i] = first[i]
      /\ \A i \in 1..Len(after) : t[Len(first) + i] = after[i]
  <2>1. IsSequence(first) /\ IsSequence(after)
    BY <1>3, <1>6
  <2> QED BY ONLY <2>1, ConcatIs
<1> HIDE DEF t
<1>8. ASSUME NEW i \in k..Len(s) PROVE t[i + 1] = s[i]
  <2> DEFINE j == i - k + 1
  <2>1. j \in 1..Len(after) /\ k + j = i + 1 /\ k + j - 1 = i
    BY <1>1, <1>3
  <2> HIDE DEF j
  <2>2. t[k + j] = after[j] /\ after[j] = s[k + j - 1]
    BY <1>3, <1>6, <1>7, <2>1
  <2> QED BY <2>1, <2>2
<1>9. IsSequence(t) /\ Len(t) = Len(s) + 1 /\ t[k] = e /\ \A i \in 1..k - 1 : t[i] = s[i]
  BY <1>1, <1>3, <1>6, <1>7
<1> QED BY <1>5, <1>8, <1>9

(* The position of a sink: what is before it is smaller. *)
LEMMA PositionIs ==
  ASSUME NEW edges, IsSequence(edges), InOrder(edges), NEW t \in Nat,
         \A i \in 1..Len(edges) : edges[i].sink \in Nat
  PROVE  /\ Position(edges, t) \in 1..Len(edges) + 1
         /\ \A i \in 1..Position(edges, t) - 1 : edges[i].sink < t
         /\ \A i \in Position(edges, t)..Len(edges) : edges[i].sink >= t
<1> DEFINE n == Len(edges)
           Rest == {i \in 1..n : edges[i].sink >= t} \cup {n + 1}
<1>1. n \in Nat /\ DOMAIN edges = 1..n
  BY SequenceIs
<1>2. Rest \in SUBSET Nat /\ Rest # {}
  BY <1>1
<1>3. PICK k \in Rest : \A i \in Rest : k <= i
  BY <1>2, Least
<1>4. k \in 1..n + 1
  BY <1>1, <1>3
<1>5. \A i \in 1..k - 1 : edges[i].sink < t
  <2> TAKE i \in 1..k - 1
  <2>1. i \in 1..n /\ ~ (k <= i)
    BY <1>1, <1>4
  <2>2. i \notin Rest
    BY <1>3, <2>1
  <2> QED BY <2>1, <2>2
<1>6. \A i \in k..n : edges[i].sink >= t
  <2> TAKE i \in k..n
  <2>1. k \in 1..n /\ edges[k].sink >= t /\ i \in 1..n
    BY <1>1, <1>3, <1>4
  <2>2. CASE i = k
    BY <2>1, <2>2
  <2>3. CASE i # k
    <3>1. k < i
      BY <1>4, <2>3
    <3>2. edges[k].sink < edges[i].sink
      BY <1>1, <2>1, <3>1 DEF InOrder
    <3> QED BY <2>1, <3>2
  <2> QED BY <2>2, <2>3
<1>7. {i \in DOMAIN edges : edges[i].sink < t} = 1..k - 1
  BY <1>1, <1>4, <1>5, <1>6
<1>8. Cardinality(1..k - 1) = k - 1
  <2>1. k - 1 \in Nat
    BY <1>4
  <2> QED BY <1>4, <2>1, FS_Interval
<1>9. Position(edges, t) = k
  <2>1. Position(edges, t) = Cardinality({i \in DOMAIN edges : edges[i].sink < t}) + 1
    BY DEF Position
  <2>2. Position(edges, t) = Cardinality(1..k - 1) + 1
    BY <1>7, <2>1, Zenon
  <2> QED BY <1>4, <1>8, <2>2
<1> QED BY <1>4, <1>5, <1>6, <1>9

LEMMA AfterMore ==
  ASSUME NEW n \in Nat
  PROVE  More(DegreeOf(n)) = DegreeOf(n + 1)
<1>1. CASE n = 0
  BY <1>1 DEF More, DegreeOf
<1>2. CASE n = 1
  BY <1>2 DEF More, DegreeOf
<1>3. CASE n > 1
  <2>1. DegreeOf(n) = "multiple" /\ DegreeOf(n + 1) = "multiple"
    BY <1>3 DEF DegreeOf
  <2> QED BY <2>1 DEF More
<1> QED BY <1>1, <1>2, <1>3

(* An edge that is there is not added again; one that is not is inserted, *)
(* and counts once for the degree of its sink.                            *)
LEMMA WithEdgeIs ==
  ASSUME NEW g, Intact(g), NEW s \in DOMAIN g.nodes, NEW t \in DOMAIN g.nodes, NEW precedence
  PROVE  LET h == WithEdge(g, s, t, precedence)
             edges == g.outgoing[s]
         IN  /\ DOMAIN h = Fields /\ h.files = g.files /\ h.nodes = g.nodes /\ h.ids = g.ids
             /\ h.notes = g.notes
             /\ HasEdge(g, s, t) => h = g
             /\ ~HasEdge(g, s, t) =>
                  /\ h.outgoing = Replaced(g.outgoing, s,
                       InsertAt(edges, Position(edges, t), [sink |-> t, precedence |-> precedence]))
                  /\ h.incoming = Replaced(g.incoming, t, More(g.incoming[t]))
<1>1. DOMAIN g = Fields
  BY IntactIs
<1> DEFINE h == WithEdge(g, s, t, precedence)
<1>2. CASE HasEdge(g, s, t)
  BY <1>1, <1>2 DEF WithEdge
<1>3. CASE ~HasEdge(g, s, t)
  <2> DEFINE edge == [sink |-> t, precedence |-> precedence]
  <2>1. h = [g EXCEPT !.outgoing[s] = InsertAt(@, Position(@, t), edge), !.incoming[t] = More(@)]
    BY <1>3 DEF WithEdge
  <2> HIDE DEF h, edge
  <2>2. /\ DOMAIN h = Fields /\ h.files = g.files /\ h.nodes = g.nodes /\ h.ids = g.ids
        /\ h.notes = g.notes
        /\ h.outgoing = [g.outgoing EXCEPT ![s] =
                           InsertAt(g.outgoing[s], Position(g.outgoing[s], t), edge)]
        /\ h.incoming = [g.incoming EXCEPT ![t] = More(g.incoming[t])]
    BY <1>1, <2>1 DEF Fields
  <2> QED BY <1>3, <2>2 DEF Replaced, h, edge
<1> QED BY <1>2, <1>3

(* The sinks after an insertion: the one that was inserted and the others. *)
LEMMA InsertedIs ==
  ASSUME NEW edges, IsSequence(edges), InOrder(edges), NEW t \in Nat,
         \A i \in 1..Len(edges) : edges[i].sink \in Nat /\ edges[i].sink # t,
         NEW e, e.sink = t
  PROVE  LET longer == InsertAt(edges, Position(edges, t), e)
         IN  /\ IsSequence(longer) /\ InOrder(longer)
             /\ \A i \in DOMAIN longer : longer[i] = e \/ \E j \in DOMAIN edges : longer[i] = edges[j]
             /\ \E i \in DOMAIN longer : longer[i] = e
             /\ \A j \in DOMAIN edges : \E i \in DOMAIN longer : longer[i] = edges[j]
<1> DEFINE k == Position(edges, t)
           longer == InsertAt(edges, k, e)
           n == Len(edges)
<1>1. n \in Nat /\ DOMAIN edges = 1..n
  BY SequenceIs
<1>2. /\ k \in 1..n + 1
      /\ \A i \in 1..k - 1 : edges[i].sink < t
      /\ \A i \in k..n : edges[i].sink >= t
  BY PositionIs
<1> HIDE DEF k
<1>3. /\ IsSequence(longer) /\ Len(longer) = n + 1 /\ longer[k] = e
      /\ \A i \in 1..k - 1 : longer[i] = edges[i]
      /\ \A i \in k..n : longer[i + 1] = edges[i]
  BY <1>2, InsertAtIs
<1> HIDE DEF longer
<1>4. DOMAIN longer = 1..n + 1
  BY <1>3, SequenceIs
<1>5. ASSUME NEW i \in 1..n + 1, i > k
      PROVE  i - 1 \in k..n /\ longer[i] = edges[i - 1]
  <2>1. i - 1 \in k..n /\ (i - 1) + 1 = i
    BY <1>1, <1>2, <1>5
  <2>2. longer[(i - 1) + 1] = edges[i - 1]
    BY <1>3, <2>1
  <2> QED BY <2>1, <2>2
<1>6. ASSUME NEW i \in 1..n + 1, i < k
      PROVE  i \in 1..k - 1 /\ i \in 1..n /\ longer[i] = edges[i]
  BY <1>1, <1>2, <1>3, <1>6
<1>7. InOrder(longer)
  <2> SUFFICES ASSUME NEW i \in 1..n + 1, NEW j \in 1..n + 1, i < j
               PROVE  longer[i].sink < longer[j].sink
    BY <1>4 DEF InOrder
  <2>1. CASE j < k
    <3>1. longer[i] = edges[i] /\ longer[j] = edges[j] /\ i \in 1..n /\ j \in 1..n
      BY <1>1, <1>2, <1>6, <2>1
    <3> QED BY <1>1, <3>1 DEF InOrder
  <2>2. CASE j = k
    <3>1. longer[i] = edges[i] /\ i \in 1..k - 1
      BY <1>1, <1>2, <1>6, <2>2
    <3> QED BY <1>2, <1>3, <2>2, <3>1
  <2>3. CASE j > k
    <3>1. longer[j] = edges[j - 1] /\ j - 1 \in k..n /\ j - 1 \in 1..n
      BY <1>1, <1>2, <1>5, <2>3
    <3>2. CASE i < k
      <4>1. longer[i] = edges[i] /\ i \in 1..n /\ i < j - 1
        BY <1>1, <1>2, <1>6, <2>3, <3>2
      <4> QED BY <1>1, <3>1, <4>1 DEF InOrder
    <3>3. CASE i = k
      <4>1. edges[j - 1].sink >= t /\ edges[j - 1].sink # t /\ edges[j - 1].sink \in Nat
        BY <1>2, <3>1
      <4> QED BY <1>3, <3>1, <3>3, <4>1
    <3>4. CASE i > k
      <4>1. longer[i] = edges[i - 1] /\ i - 1 \in 1..n /\ i - 1 < j - 1
        BY <1>1, <1>2, <1>5, <3>4
      <4> QED BY <1>1, <3>1, <4>1 DEF InOrder
    <3> QED BY <1>2, <3>2, <3>3, <3>4
  <2> QED BY <1>2, <2>1, <2>2, <2>3
<1>8. ASSUME NEW i \in DOMAIN longer
      PROVE  longer[i] = e \/ \E j \in DOMAIN edges : longer[i] = edges[j]
  <2>1. CASE i < k
    BY <1>1, <1>4, <1>6, <2>1
  <2>2. CASE i = k
    BY <1>3, <2>2
  <2>3. CASE i > k
    <3>1. i - 1 \in DOMAIN edges /\ longer[i] = edges[i - 1]
      BY <1>1, <1>2, <1>4, <1>5, <2>3
    <3> QED BY <3>1
  <2> QED BY <1>2, <1>4, <2>1, <2>2, <2>3
<1>9. ASSUME NEW j \in DOMAIN edges PROVE \E i \in DOMAIN longer : longer[i] = edges[j]
  <2>1. CASE j < k
    <3>1. j \in DOMAIN longer /\ longer[j] = edges[j]
      BY <1>1, <1>4, <1>6, <2>1
    <3> QED BY <3>1
  <2>2. CASE j >= k
    <3>1. j + 1 \in DOMAIN longer /\ longer[j + 1] = edges[j]
      BY <1>1, <1>2, <1>3, <1>4, <2>2
    <3> QED BY <3>1
  <2> QED BY <1>1, <1>2, <2>1, <2>2
<1>10. k \in DOMAIN longer
  BY <1>2, <1>4
<1> QED BY <1>3, <1>7, <1>8, <1>9, <1>10 DEF longer, k

LEMMA WithEdgeIntact ==
  ASSUME NEW g, Intact(g), NEW s \in DOMAIN g.nodes, NEW t \in DOMAIN g.nodes, NEW precedence
  PROVE  LET h == WithEdge(g, s, t, precedence)
         IN  /\ Intact(h) /\ h.files = g.files /\ h.nodes = g.nodes /\ h.ids = g.ids
             /\ h.notes = g.notes
<1> DEFINE h == WithEdge(g, s, t, precedence)
           edge == [sink |-> t, precedence |-> precedence]
           edges == g.outgoing[s]
           longer == InsertAt(edges, Position(edges, t), edge)
<1>1. FilesIntact(g) /\ NodesIntact(g) /\ IdsIntact(g) /\ EdgesIntact(g) /\ DegreesIntact(g)
  BY IntactIs
<1>2. edge.sink = t /\ DOMAIN edge = {"sink", "precedence"}
  OBVIOUS
<1> HIDE DEF edge
<1>3. /\ DOMAIN h = Fields /\ h.files = g.files /\ h.nodes = g.nodes /\ h.ids = g.ids
      /\ h.notes = g.notes
      /\ HasEdge(g, s, t) => h = g
      /\ ~HasEdge(g, s, t) =>
           /\ h.outgoing = Replaced(g.outgoing, s, longer)
           /\ h.incoming = Replaced(g.incoming, t, More(g.incoming[t]))
  BY WithEdgeIs DEF edge
<1> HIDE DEF h, longer
<1> SUFFICES ASSUME ~HasEdge(g, s, t) PROVE Intact(h)
  BY <1>3 DEF h
<1>4. /\ Len(g.nodes) \in Nat /\ DOMAIN g.nodes = 1..Len(g.nodes)
      /\ IsSequence(g.outgoing) /\ Len(g.outgoing) = Len(g.nodes)
      /\ IsSequence(g.incoming) /\ Len(g.incoming) = Len(g.nodes)
  BY <1>1, SequenceIs DEF NodesIntact, EdgesIntact, DegreesIntact
<1>5. /\ IsSequence(edges) /\ InOrder(edges) /\ DOMAIN edges = 1..Len(edges)
      /\ \A i \in DOMAIN edges : /\ DOMAIN edges[i] = {"sink", "precedence"}
                                 /\ edges[i].sink \in DOMAIN g.nodes
  BY <1>1, SequenceIs DEF EdgesIntact
<1>6. \A i \in DOMAIN edges : edges[i].sink # t
  BY DEF HasEdge
<1> HIDE DEF edges
<1>7. /\ IsSequence(longer) /\ InOrder(longer)
      /\ \A i \in DOMAIN longer : longer[i] = edge \/ \E j \in DOMAIN edges : longer[i] = edges[j]
      /\ \E i \in DOMAIN longer : longer[i] = edge
      /\ \A j \in DOMAIN edges : \E i \in DOMAIN longer : longer[i] = edges[j]
  <2>1. t \in Nat /\ \A i \in 1..Len(edges) : edges[i].sink \in Nat /\ edges[i].sink # t
    BY <1>4, <1>5, <1>6
  <2> QED BY <1>2, <1>5, <2>1, InsertedIs DEF longer
<1>8. /\ IsSequence(h.outgoing) /\ Len(h.outgoing) = Len(g.nodes)
      /\ \A n \in DOMAIN g.nodes : h.outgoing[n] = IF n = s THEN longer ELSE g.outgoing[n]
  BY <1>3, <1>4, ReplacedIs
<1>9. /\ IsSequence(h.incoming) /\ Len(h.incoming) = Len(g.nodes)
      /\ \A n \in DOMAIN g.nodes :
           h.incoming[n] = IF n = t THEN More(g.incoming[t]) ELSE g.incoming[n]
  BY <1>3, <1>4, ReplacedIs
<1>10. EdgesIntact(h)
  <2>1. \A i \in DOMAIN longer : /\ DOMAIN longer[i] = {"sink", "precedence"}
                                 /\ longer[i].sink \in DOMAIN g.nodes
    BY <1>2, <1>5, <1>7
  <2> QED BY <1>1, <1>3, <1>7, <1>8, <2>1 DEF EdgesIntact
<1>11. \A m \in DOMAIN g.nodes : \A n : HasEdge(h, m, n) <=> HasEdge(g, m, n) \/ (m = s /\ n = t)
  <2>1. ASSUME NEW n PROVE HasEdge(h, s, n) <=> HasEdge(g, s, n) \/ n = t
    <3>1. ASSUME HasEdge(h, s, n) PROVE HasEdge(g, s, n) \/ n = t
      BY <1>2, <1>7, <1>8, <3>1 DEF HasEdge, edges
    <3>2. ASSUME HasEdge(g, s, n) PROVE HasEdge(h, s, n)
      BY <1>7, <1>8, <3>2 DEF HasEdge, edges
    <3>3. HasEdge(h, s, t)
      BY <1>2, <1>7, <1>8 DEF HasEdge
    <3> QED BY <3>1, <3>2, <3>3
  <2>2. ASSUME NEW m \in DOMAIN g.nodes, m # s, NEW n PROVE HasEdge(h, m, n) <=> HasEdge(g, m, n)
    BY <1>8, <2>2 DEF HasEdge
  <2> QED BY <2>1, <2>2
<1>12. ASSUME NEW n \in DOMAIN g.nodes, n # t PROVE Sources(h, n) = Sources(g, n)
  BY <1>3, <1>11, <1>12 DEF Sources
<1>13. Sources(h, t) = Sources(g, t) \cup {s} /\ s \notin Sources(g, t)
  BY <1>3, <1>11 DEF Sources
<1>14. IsFiniteSet(Sources(g, t))
  <2>1. IsFiniteSet(DOMAIN g.nodes)
    BY <1>4, FS_Interval
  <2>2. Sources(g, t) \subseteq DOMAIN g.nodes
    BY DEF Sources
  <2> QED BY <2>1, <2>2, FS_Subset
<1>15. Cardinality(Sources(h, t)) = Cardinality(Sources(g, t)) + 1
       /\ Cardinality(Sources(g, t)) \in Nat
  BY <1>13, <1>14, FS_AddElement, FS_CardinalityType
<1>16. DegreesIntact(h)
  <2>1. \A n \in DOMAIN g.nodes : g.incoming[n] = DegreeOf(Cardinality(Sources(g, n)))
    BY <1>1 DEF DegreesIntact
  <2>2. More(g.incoming[t]) = DegreeOf(Cardinality(Sources(h, t)))
    BY <1>15, <2>1, AfterMore
  <2> QED BY <1>3, <1>9, <1>12, <2>1, <2>2 DEF DegreesIntact
<1>17. FilesIntact(h) /\ NodesIntact(h) /\ IdsIntact(h)
  BY <1>1, <1>3 DEF FilesIntact, NodesIntact, NodeIntact, IdsIntact
<1> QED BY <1>3, <1>10, <1>16, <1>17, IntactIs

(* What is said of nodes and edges is no part of the invariant. *)
LEMMA SameIntact ==
  ASSUME NEW g, Intact(g), NEW h, DOMAIN h = Fields,
         h.files = g.files, h.nodes = g.nodes, h.ids = g.ids,
         h.outgoing = g.outgoing, h.incoming = g.incoming
  PROVE  Intact(h)
<1>1. FilesIntact(g) /\ NodesIntact(g) /\ IdsIntact(g) /\ EdgesIntact(g) /\ DegreesIntact(g)
  BY IntactIs
<1>2. FilesIntact(h) /\ NodesIntact(h) /\ IdsIntact(h) /\ EdgesIntact(h)
  BY <1>1 DEF FilesIntact, NodesIntact, NodeIntact, IdsIntact, EdgesIntact
<1>3. \A t : Sources(h, t) = Sources(g, t)
  BY DEF Sources, HasEdge
<1>4. DegreesIntact(h)
  BY <1>1, <1>3 DEF DegreesIntact
<1> QED BY <1>2, <1>4, IntactIs

LEMMA WithPrecedenceIntact ==
  ASSUME NEW g, Intact(g), NEW s \in DOMAIN g.nodes, NEW t, NEW precedence
  PROVE  Intact(WithPrecedence(g, s, t, precedence))
<1> DEFINE h == WithPrecedence(g, s, t, precedence)
           edges == g.outgoing[s]
           changed == [i \in DOMAIN edges |->
             IF edges[i].sink = t THEN [edges[i] EXCEPT !.precedence = precedence] ELSE edges[i]]
<1>1. DOMAIN g = Fields /\ FilesIntact(g) /\ NodesIntact(g) /\ IdsIntact(g)
      /\ EdgesIntact(g) /\ DegreesIntact(g)
  BY IntactIs
<1>2. h = [g EXCEPT !.outgoing[s] = changed]
  BY <1>1 DEF WithPrecedence, Fields
<1>3. IsSequence(edges) /\ DOMAIN edges = 1..Len(edges) /\ Len(edges) \in Nat
      /\ InOrder(edges)
      /\ \A i \in DOMAIN edges : /\ DOMAIN edges[i] = {"sink", "precedence"}
                                 /\ edges[i].sink \in DOMAIN g.nodes
  BY <1>1, SequenceIs DEF EdgesIntact
<1> HIDE DEF h, edges
<1>4. \A i \in 1..Len(edges) : /\ DOMAIN changed[i] = {"sink", "precedence"}
                               /\ changed[i].sink = edges[i].sink
  BY <1>3
<1>5. changed = [i \in 1..Len(edges) |-> changed[i]] /\ DOMAIN changed = 1..Len(edges)
  BY <1>3
<1> HIDE DEF changed
<1>6. IsSequence(changed) /\ Len(changed) = Len(edges)
  BY <1>3, <1>5, FunctionIsSequence
<1>7. InOrder(changed)
  BY <1>3, <1>4, <1>5 DEF InOrder
<1>8. /\ DOMAIN h = Fields /\ h.files = g.files /\ h.nodes = g.nodes /\ h.ids = g.ids
      /\ h.incoming = g.incoming
  BY <1>1, <1>2 DEF Fields
<1>9. h.outgoing = Replaced(g.outgoing, s, changed)
  BY <1>1, <1>2 DEF Fields, Replaced
<1>10. /\ IsSequence(g.outgoing) /\ Len(g.outgoing) = Len(g.nodes)
       /\ DOMAIN g.nodes = 1..Len(g.nodes)
  BY <1>1, SequenceIs DEF EdgesIntact, NodesIntact
<1>11. /\ IsSequence(h.outgoing) /\ Len(h.outgoing) = Len(g.nodes)
       /\ \A n \in DOMAIN g.nodes : h.outgoing[n] = IF n = s THEN changed ELSE g.outgoing[n]
  BY <1>9, <1>10, ReplacedIs
<1>12. EdgesIntact(h)
  <2>1. \A i \in DOMAIN changed : /\ DOMAIN changed[i] = {"sink", "precedence"}
                                  /\ changed[i].sink \in DOMAIN g.nodes
    BY <1>3, <1>4, <1>5
  <2> QED BY <1>1, <1>6, <1>7, <1>8, <1>11, <2>1 DEF EdgesIntact
<1>13. \A m \in DOMAIN g.nodes : \A n : HasEdge(h, m, n) <=> HasEdge(g, m, n)
  <2>1. \A n : HasEdge(h, s, n) <=> HasEdge(g, s, n)
    BY <1>3, <1>4, <1>5, <1>11 DEF HasEdge, edges
  <2>2. \A m \in DOMAIN g.nodes \ {s} : \A n : HasEdge(h, m, n) <=> HasEdge(g, m, n)
    BY <1>11 DEF HasEdge
  <2> QED BY <2>1, <2>2
<1>14. \A n : Sources(h, n) = Sources(g, n)
  BY <1>8, <1>13 DEF Sources
<1>15. FilesIntact(h) /\ NodesIntact(h) /\ IdsIntact(h) /\ DegreesIntact(h)
  BY <1>1, <1>8, <1>14 DEF FilesIntact, NodesIntact, NodeIntact, IdsIntact, DegreesIntact
<1> QED BY <1>8, <1>12, <1>15, IntactIs DEF h

-----------------------------------------------------------------------------
(* Files that a copied or loaded graph brings *)

(* The files of g, and the first n names, as files without nodes. *)
FilesAdded(g, h, names, n) ==
  /\ Len(h.files) = Len(g.files) + n
  /\ \A f \in 1..Len(g.files) : h.files[f] = g.files[f] /\ h.ids[f] = g.ids[f]
  /\ \A i \in 1..n : h.files[Len(g.files) + i] = names[i] /\ h.ids[Len(g.files) + i] = <<>>

LEMMA WithFilesIs ==
  ASSUME NEW g, Intact(g), NEW names, IsSequence(names)
  PROVE  LET result == WithFiles(g, names)
         IN  /\ Intact(result.graph) /\ SameNodes(g, result.graph)
             /\ result.outcome \in {"ok", "failed"}
             /\ result.outcome = "ok" => FilesAdded(g, result.graph, names, Len(names))
             /\ \E n \in Nat : FilesAdded(g, result.graph, names, n)
<1>1. PICK after :
        /\ after[0] = Result(g, "ok") /\ WithFiles(g, names) = after[Len(names)]
        /\ \A i \in 1..Len(names) : after[i] = NextFile(after[i - 1], names[i])
  <2>1. IsSequence(names)
    OBVIOUS
  <2> QED BY ONLY <2>1, FilesLoop
<1> DEFINE Done(r, i) == /\ Intact(r.graph) /\ SameNodes(g, r.graph)
                         /\ r.outcome \in {"ok", "failed"}
                         /\ r.outcome = "ok" => FilesAdded(g, r.graph, names, i)
                         /\ \E n \in Nat : FilesAdded(g, r.graph, names, n)
           T == {i \in 0..Len(names) : Done(after[i], i)}
<1>2. Len(names) \in Nat /\ Len(g.files) \in Nat
  BY IntactIs, SequenceIs DEF FilesIntact
<1>3. Done(after[0], 0)
  <2>1. FilesAdded(g, g, names, 0)
    BY <1>2 DEF FilesAdded
  <2> QED BY <1>1, <2>1 DEF Result, SameNodes
<1>4. ASSUME NEW i \in 1..Len(names), Done(after[i - 1], i - 1) PROVE Done(after[i], i)
  <2> DEFINE r == after[i - 1]
             next == after[i]
  <2>1. next = NextFile(r, names[i])
    BY <1>1
  <2>2. Done(r, i - 1)
    BY <1>4
  <2> SUFFICES Done(next, i)
    OBVIOUS
  <2> HIDE DEF r, next
  <2>3. CASE r.outcome = "failed" \/ WithFile(r.graph, names[i]) = {}
    BY <2>1, <2>2, <2>3 DEF NextFile, Result
  <2>4. CASE ~ (r.outcome = "failed" \/ WithFile(r.graph, names[i]) = {})
    <3>1. PICK h \in WithFile(r.graph, names[i]) : next.graph = h /\ next.outcome = "ok"
      BY <2>1, <2>4 DEF NextFile, Result
    <3>2. /\ Intact(h) /\ SameNodes(r.graph, h)
          /\ h.files = Append(r.graph.files, names[i]) /\ h.ids = Append(r.graph.ids, <<>>)
      BY <2>2, WithFileIs
    <3>3. IsSequence(r.graph.files) /\ IsSequence(r.graph.ids)
          /\ Len(r.graph.ids) = Len(r.graph.files)
      BY <2>2, IntactIs DEF FilesIntact
    <3>4. r.outcome = "ok" /\ FilesAdded(g, r.graph, names, i - 1)
      BY <2>2, <2>4
    <3>5. Len(r.graph.files) = Len(g.files) + (i - 1) /\ i - 1 \in Nat
      BY <1>2, <3>4 DEF FilesAdded
    <3>6. /\ Len(h.files) = Len(g.files) + i
          /\ \A f \in 1..Len(g.files) + (i - 1) : h.files[f] = r.graph.files[f]
          /\ h.files[Len(g.files) + i] = names[i]
      <4>1. /\ Len(h.files) = Len(r.graph.files) + 1
            /\ \A f \in 1..Len(r.graph.files) : h.files[f] = r.graph.files[f]
            /\ h.files[Len(r.graph.files) + 1] = names[i]
        BY <3>2, <3>3, AppendIs
      <4> QED BY <1>2, <3>5, <4>1
    <3>7. /\ \A f \in 1..Len(g.files) + (i - 1) : h.ids[f] = r.graph.ids[f]
          /\ h.ids[Len(g.files) + i] = <<>>
      <4>1. /\ \A f \in 1..Len(r.graph.ids) : h.ids[f] = r.graph.ids[f]
            /\ h.ids[Len(r.graph.ids) + 1] = <<>>
        <5> PICK ids, e : ids = r.graph.ids /\ e = <<>>
          OBVIOUS
        <5>1. IsSequence(ids) /\ h.ids = Append(ids, e)
          BY <3>2, <3>3
        <5> QED BY <5>1, AppendIs
      <4> QED BY <1>2, <3>3, <3>5, <4>1
    <3>8. \A f \in 1..Len(g.files) : h.files[f] = g.files[f] /\ h.ids[f] = g.ids[f]
      BY <1>2, <3>4, <3>5, <3>6, <3>7 DEF FilesAdded
    <3>9. ASSUME NEW j \in 1..i
          PROVE  h.files[Len(g.files) + j] = names[j] /\ h.ids[Len(g.files) + j] = <<>>
      <4>1. CASE j = i
        BY <3>6, <3>7, <4>1
      <4>2. CASE j # i
        <5>1. j \in 1..i - 1 /\ Len(g.files) + j \in 1..Len(g.files) + (i - 1)
          BY <1>2, <3>5, <4>2
        <5> QED BY <3>4, <3>6, <3>7, <5>1 DEF FilesAdded
      <4> QED BY <4>1, <4>2
    <3>10. FilesAdded(g, h, names, i)
      BY <3>6, <3>8, <3>9 DEF FilesAdded
    <3>11. SameNodes(g, h)
      BY <2>2, <3>2 DEF SameNodes
    <3>12. i \in Nat
      BY <1>2
    <3> QED BY <3>1, <3>2, <3>10, <3>11, <3>12
  <2> QED BY <2>3, <2>4
<1> HIDE DEF Done
<1>5. Climbs(Len(names), T)
  BY <1>2, <1>3, <1>4 DEF Climbs
<1>6. Done(after[Len(names)], Len(names))
  <2> HIDE DEF T
  <2>1. Len(names) \in T
    BY <1>2, <1>5, UpTo
  <2> QED BY <2>1 DEF T
<1> QED BY <1>1, <1>6 DEF Done

-----------------------------------------------------------------------------
(* Edges *)

(* The edges of a graph as a relation. *)
Leads(g, s, t, p) ==
  /\ s \in DOMAIN g.nodes
  /\ \E i \in DOMAIN g.outgoing[s] : g.outgoing[s][i].sink = t /\ g.outgoing[s][i].precedence = p

LEMMA LeadsIs ==
  ASSUME NEW g, Intact(g), NEW s, NEW t
  PROVE  /\ \A p : Leads(g, s, t, p) =>
              s \in DOMAIN g.nodes /\ t \in DOMAIN g.nodes /\ HasEdge(g, s, t)
         /\ s \in DOMAIN g.nodes /\ HasEdge(g, s, t) => \E p : Leads(g, s, t, p)
         /\ \A p, q : Leads(g, s, t, p) /\ Leads(g, s, t, q) => p = q
<1>1. EdgesIntact(g)
  BY IntactIs
<1>2. ASSUME NEW p, NEW q, Leads(g, s, t, p), Leads(g, s, t, q) PROVE p = q
  <2> DEFINE edges == g.outgoing[s]
  <2>1. PICK i \in DOMAIN edges : edges[i].sink = t /\ edges[i].precedence = p
    BY <1>2 DEF Leads
  <2>2. PICK j \in DOMAIN edges : edges[j].sink = t /\ edges[j].precedence = q
    BY <1>2 DEF Leads
  <2>3. s \in DOMAIN g.nodes
    BY <1>2 DEF Leads
  <2>4. IsSequence(edges) /\ InOrder(edges) /\ t \in DOMAIN g.nodes
    BY <1>1, <2>1, <2>3 DEF EdgesIntact
  <2>5. DOMAIN edges = 1..Len(edges) /\ Len(edges) \in Nat
    BY <2>4, SequenceIs
  <2>6. t \in Nat
    <3>1. IsSequence(g.nodes)
      BY IntactIs DEF NodesIntact
    <3> QED BY <2>4, <3>1, SequenceIs
  <2> HIDE DEF edges
  <2>7. ~ (i < j) /\ ~ (j < i)
    BY <2>1, <2>2, <2>4, <2>6 DEF InOrder
  <2>8. i = j
    BY <2>5, <2>7
  <2> QED BY <2>1, <2>2, <2>8
<1> QED BY <1>1, <1>2 DEF Leads, HasEdge, EdgesIntact

LEMMA EdgesFromLead ==
  ASSUME NEW g, Intact(g), NEW s \in DOMAIN g.nodes
  PROVE  /\ IsSequence(EdgesFrom(g, s))
         /\ \A i \in 1..Len(EdgesFrom(g, s)) :
              LET e == EdgesFrom(g, s)[i]
              IN  /\ e = [source |-> s, sink |-> e.sink, precedence |-> e.precedence]
                  /\ Leads(g, s, e.sink, e.precedence)
         /\ \A t, p : Leads(g, s, t, p) =>
              \E i \in 1..Len(EdgesFrom(g, s)) :
                EdgesFrom(g, s)[i] = [source |-> s, sink |-> t, precedence |-> p]
<1> DEFINE edges == EdgesFrom(g, s)
           n == Len(g.outgoing[s])
<1>1. IsSequence(g.outgoing[s])
  BY IntactIs DEF EdgesIntact
<1>2. n \in Nat /\ DOMAIN g.outgoing[s] = 1..n
  BY <1>1, SequenceIs
<1>3. edges = [i \in 1..n |-> edges[i]]
      /\ \A i \in 1..n : edges[i] = [source |-> s, sink |-> g.outgoing[s][i].sink,
                                     precedence |-> g.outgoing[s][i].precedence]
  BY <1>2 DEF EdgesFrom
<1> HIDE DEF edges
<1>4. IsSequence(edges) /\ Len(edges) = n
  <2> HIDE DEF n
  <2> QED BY <1>2, <1>3, FunctionIsSequence
<1> HIDE DEF n
<1>5. ASSUME NEW i \in 1..n
      PROVE  /\ edges[i] = [source |-> s, sink |-> edges[i].sink, precedence |-> edges[i].precedence]
             /\ Leads(g, s, edges[i].sink, edges[i].precedence)
  BY <1>2, <1>3 DEF Leads
<1>6. ASSUME NEW t, NEW p, Leads(g, s, t, p)
      PROVE  \E i \in 1..n : edges[i] = [source |-> s, sink |-> t, precedence |-> p]
  BY <1>2, <1>3, <1>6 DEF Leads
<1> QED BY <1>4, <1>5, <1>6 DEF edges

(* The edges of some nodes are those that lead from them. *)
LEMMA EdgesOfLead ==
  ASSUME NEW g, Intact(g), NEW nodes
  PROVE  LET edges == EdgesOf(g, nodes)
         IN  /\ IsSequence(edges)
             /\ \A i \in 1..Len(edges) :
                  LET e == edges[i]
                  IN  /\ e = [source |-> e.source, sink |-> e.sink, precedence |-> e.precedence]
                      /\ e.source \in nodes /\ Leads(g, e.source, e.sink, e.precedence)
             /\ \A s \in nodes : \A t, p : Leads(g, s, t, p) =>
                  \E i \in 1..Len(edges) : edges[i] = [source |-> s, sink |-> t, precedence |-> p]
<1> DEFINE all == [n \in DOMAIN g.nodes |-> n]
           last == Len(g.nodes)
           Edge(e) == /\ e = [source |-> e.source, sink |-> e.sink, precedence |-> e.precedence]
                      /\ e.source \in nodes /\ Leads(g, e.source, e.sink, e.precedence)
           Listed(edges, s) == \A t, p : Leads(g, s, t, p) =>
             \E i \in 1..Len(edges) : edges[i] = [source |-> s, sink |-> t, precedence |-> p]
           Done(edges, k) == /\ IsSequence(edges) /\ \A i \in 1..Len(edges) : Edge(edges[i])
                             /\ \A s \in 1..k : s \in nodes => Listed(edges, s)
<1>1. last \in Nat /\ DOMAIN g.nodes = 1..last
  BY IntactIs, SequenceIs DEF NodesIntact
<1>2. all = [i \in 1..last |-> all[i]] /\ \A i \in 1..last : all[i] = i
  BY <1>1
<1>3. IsSequence(all) /\ Len(all) = last
  <2> HIDE DEF all, last
  <2> QED BY <1>1, <1>2, FunctionIsSequence
<1>4. EdgesOf(g, nodes) = EdgesFromAll(g, nodes, <<>>, all)
  BY LoopsAre
<1> HIDE DEF all
<1>5. PICK none : none = <<>>
  OBVIOUS
<1>6. PICK after :
        /\ after[0] = none /\ EdgesFromAll(g, nodes, none, all) = after[Len(all)]
        /\ \A i \in 1..Len(all) : after[i] = EdgesFound(g, nodes, after[i - 1], all[i])
  <2>1. IsSequence(all)
    BY <1>3
  <2> QED BY ONLY <2>1, EdgesLoop
<1>7. Done(after[0], 0)
  BY <1>5, <1>6, EmptyIs
<1>8. ASSUME NEW i \in 1..last, Done(after[i - 1], i - 1) PROVE Done(after[i], i)
  <2> DEFINE edges == after[i - 1]
             more == EdgesFrom(g, i)
             next == after[i]
  <2>1. next = IF i \in nodes THEN edges \o more ELSE edges
    BY <1>2, <1>3, <1>6 DEF EdgesFound
  <2>2. i \in DOMAIN g.nodes
    BY <1>1
  <2>3. /\ IsSequence(more)
        /\ \A j \in 1..Len(more) :
             /\ more[j] = [source |-> i, sink |-> more[j].sink, precedence |-> more[j].precedence]
             /\ Leads(g, i, more[j].sink, more[j].precedence)
        /\ Listed(more, i)
    BY <2>2, EdgesFromLead
  <2>4. Done(edges, i - 1)
    BY <1>8
  <2>5. \A s \in 1..i : s = i \/ s \in 1..i - 1
    BY <1>1
  <2> SUFFICES Done(next, i)
    OBVIOUS
  <2> HIDE DEF edges, more, next, Listed
  <2>6. CASE i \notin nodes
    BY <2>1, <2>4, <2>5, <2>6
  <2>7. CASE i \in nodes
    <3>1. /\ IsSequence(next) /\ Len(next) = Len(edges) + Len(more)
          /\ \A j \in 1..Len(edges) : next[j] = edges[j]
          /\ \A j \in 1..Len(more) : next[Len(edges) + j] = more[j]
      BY <2>1, <2>3, <2>4, <2>7, ConcatIs
    <3>2. Len(edges) \in Nat /\ Len(more) \in Nat
      BY <2>3, <2>4, SequenceIs
    <3>3. ASSUME NEW j \in 1..Len(more) PROVE Edge(more[j])
      <4> DEFINE e == more[j]
      <4>1. e = [source |-> i, sink |-> e.sink, precedence |-> e.precedence]
            /\ Leads(g, i, e.sink, e.precedence)
        BY <2>3
      <4> HIDE DEF e
      <4>2. e.source = i
        BY <4>1
      <4>3. Edge(e)
        BY <2>7, <4>1, <4>2
      <4> QED BY <4>3 DEF e
    <3> HIDE DEF Edge
    <3>4. \A j \in 1..Len(next) : j \in 1..Len(edges) \/ \E k \in 1..Len(more) : j = Len(edges) + k
      <4>1. ASSUME NEW j \in 1..Len(next), j \notin 1..Len(edges)
            PROVE  \E k \in 1..Len(more) : j = Len(edges) + k
        <5>1. j - Len(edges) \in 1..Len(more) /\ j = Len(edges) + (j - Len(edges))
          BY <3>1, <3>2, <4>1
        <5> QED BY <5>1
      <4> QED BY <4>1
    <3>5. \A j \in 1..Len(next) : Edge(next[j])
      BY <2>4, <3>1, <3>3, <3>4
    <3>6. /\ \A j \in 1..Len(edges) : j \in 1..Len(next)
          /\ \A j \in 1..Len(more) : Len(edges) + j \in 1..Len(next)
      BY <3>1, <3>2
    <3>7. Listed(next, i)
      BY <2>3, <3>1, <3>6 DEF Listed
    <3>8. ASSUME NEW s \in 1..i - 1, s \in nodes PROVE Listed(next, s)
      <4>1. Listed(edges, s)
        BY <2>4, <3>8
      <4> QED BY <3>1, <3>6, <4>1 DEF Listed
    <3> QED BY <2>5, <3>1, <3>5, <3>7, <3>8
  <2> QED BY <2>6, <2>7
<1> DEFINE T == {i \in 0..last : Done(after[i], i)}
<1> HIDE DEF Done
<1>9. Climbs(last, T)
  BY <1>1, <1>7, <1>8 DEF Climbs
<1>10. Done(after[last], last)
  <2> HIDE DEF T, last
  <2>1. last \in T
    BY <1>1, <1>9, UpTo
  <2> QED BY <2>1 DEF T
<1>11. EdgesOf(g, nodes) = after[last]
  BY <1>3, <1>4, <1>5, <1>6
<1> DEFINE found == EdgesOf(g, nodes)
<1>12. Done(found, last)
  BY <1>10, <1>11
<1> HIDE DEF found
<1>13. \A s \in nodes : Listed(found, s)
  <2>1. \A s, t, p : Leads(g, s, t, p) => s \in 1..last
    BY <1>1 DEF Leads
  <2> HIDE DEF last
  <2>2. \A s \in nodes : s \in 1..last => Listed(found, s)
    BY <1>12 DEF Done
  <2> QED BY <2>1, <2>2 DEF Listed
<1> QED BY <1>12, <1>13 DEF Done, found

LEMMA EdgesOfAre ==
  ASSUME NEW g, Intact(g), NEW nodes
  PROVE  /\ IsSequence(EdgesOf(g, nodes))
         /\ \A i \in 1..Len(EdgesOf(g, nodes)) :
              LET e == EdgesOf(g, nodes)[i]
              IN  e.source \in nodes \cap DOMAIN g.nodes /\ e.sink \in DOMAIN g.nodes
<1> DEFINE edges == EdgesOf(g, nodes)
<1>1. /\ IsSequence(edges)
      /\ \A i \in 1..Len(edges) : /\ edges[i].source \in nodes
                                  /\ Leads(g, edges[i].source, edges[i].sink, edges[i].precedence)
  BY EdgesOfLead
<1> HIDE DEF edges
<1>2. \A s, t, p : Leads(g, s, t, p) => s \in DOMAIN g.nodes /\ t \in DOMAIN g.nodes
  BY LeadsIs
<1> QED BY <1>1, <1>2 DEF edges

LEMMA EdgesAre ==
  ASSUME NEW g, Intact(g), NEW e \in Edges(g)
  PROVE  e.source \in DOMAIN g.nodes /\ e.sink \in DOMAIN g.nodes
<1> DEFINE edges == EdgesOf(g, DOMAIN g.nodes)
<1>1. /\ IsSequence(edges)
      /\ \A i \in 1..Len(edges) : edges[i].source \in DOMAIN g.nodes /\ edges[i].sink \in DOMAIN g.nodes
  BY EdgesOfAre
<1>2. \E i \in DOMAIN edges : e = edges[i]
  BY DEF Edges, ToSet
<1> HIDE DEF edges
<1> QED BY <1>1, <1>2, SequenceIs

LEMMA EdgesLead ==
  ASSUME NEW g, Intact(g), NEW e
  PROVE  e \in Edges(g) <=> \E s, t, p : Leads(g, s, t, p) /\ e = [source |-> s, sink |-> t, precedence |-> p]
<1> DEFINE edges == EdgesOf(g, DOMAIN g.nodes)
<1>1. /\ IsSequence(edges)
      /\ \A i \in 1..Len(edges) :
           /\ edges[i] = [source |-> edges[i].source, sink |-> edges[i].sink,
                          precedence |-> edges[i].precedence]
           /\ Leads(g, edges[i].source, edges[i].sink, edges[i].precedence)
      /\ \A s \in DOMAIN g.nodes : \A t, p : Leads(g, s, t, p) =>
           \E i \in 1..Len(edges) : edges[i] = [source |-> s, sink |-> t, precedence |-> p]
  BY EdgesOfLead
<1>2. e \in Edges(g) <=> \E i \in DOMAIN edges : edges[i] = e
  BY DEF Edges, ToSet
<1> HIDE DEF edges
<1>3. DOMAIN edges = 1..Len(edges)
  BY <1>1, SequenceIs
<1>4. \A s, t, p : Leads(g, s, t, p) => s \in DOMAIN g.nodes
  BY DEF Leads
<1> QED BY <1>1, <1>2, <1>3, <1>4

LEMMA EdgesSame ==
  ASSUME NEW g, Intact(g), NEW h, Intact(h), \A s, t, p : Leads(h, s, t, p) <=> Leads(g, s, t, p)
  PROVE  Edges(h) = Edges(g)
<1>1. \A e : e \in Edges(h) <=> e \in Edges(g)
  BY EdgesLead
<1>2. ASSUME NEW A, NEW B, \A e : e \in A <=> e \in B PROVE A = B
  BY <1>2
<1> QED BY <1>1, <1>2, Zenon

(* Files that are added change nothing else. *)
LEMMA FilesAddedLeave ==
  ASSUME NEW g, Intact(g), NEW h, Intact(h), SameNodes(g, h),
         NEW names, NEW n \in Nat, FilesAdded(g, h, names, n)
  PROVE  OnlyNodesAdded(g, h) /\ h.nodes = g.nodes
<1>1. h.nodes = g.nodes /\ h.info = g.info /\ h.notes = g.notes
  BY DEF SameNodes
<1>2. IsSequence(g.files) /\ DOMAIN g.files = 1..Len(g.files)
  BY IntactIs, SequenceIs DEF FilesIntact
<1>3. \A f \in DOMAIN g.files : h.files[f] = g.files[f]
  BY <1>2 DEF FilesAdded
<1>4. \A s, t, p : Leads(h, s, t, p) <=> Leads(g, s, t, p)
  BY DEF SameNodes, Leads
<1>5. Edges(h) = Edges(g)
  BY <1>4, EdgesSame
<1> QED BY <1>1, <1>3, <1>5 DEF OnlyNodesAdded

(* An edge that is added leads where it was not there. *)
LEMMA WithEdgeLeads ==
  ASSUME NEW g, Intact(g), NEW s \in DOMAIN g.nodes, NEW t \in DOMAIN g.nodes, NEW precedence
  PROVE  LET h == WithEdge(g, s, t, precedence)
         IN  /\ h.info = g.info
             /\ HasEdge(h, s, t)
             /\ \A x, y, p : Leads(g, x, y, p) => Leads(h, x, y, p)
             /\ \A x, y, p : Leads(h, x, y, p) =>
                  Leads(g, x, y, p) \/ (x = s /\ y = t /\ p = precedence)
<1> DEFINE h == WithEdge(g, s, t, precedence)
           edges == g.outgoing[s]
           edge == [sink |-> t, precedence |-> precedence]
           longer == InsertAt(edges, Position(edges, t), edge)
<1>1. h.info = g.info
  <2>1. DOMAIN g = Fields
    BY IntactIs
  <2> QED BY <2>1 DEF WithEdge, Fields
<1>2. CASE HasEdge(g, s, t)
  <2>1. h = g
    BY <1>2, WithEdgeIs
  <2> QED BY <1>2, <2>1
<1>3. CASE ~ HasEdge(g, s, t)
  <2>1. h.nodes = g.nodes /\ h.outgoing = Replaced(g.outgoing, s, longer)
    BY <1>3, WithEdgeIs
  <2>2. EdgesIntact(g) /\ IsSequence(g.nodes) /\ IsSequence(g.outgoing)
    BY IntactIs DEF NodesIntact, EdgesIntact
  <2>3. /\ DOMAIN g.nodes = 1..Len(g.outgoing) /\ \A n \in DOMAIN g.nodes : n \in Nat
    BY <2>2, SequenceIs DEF EdgesIntact
  <2>4. \A n \in DOMAIN g.nodes : h.outgoing[n] = IF n = s THEN longer ELSE g.outgoing[n]
    BY <2>1, <2>2, <2>3, ReplacedIs
  <2>5. IsSequence(edges) /\ InOrder(edges) /\ DOMAIN edges = 1..Len(edges)
    BY <2>2, SequenceIs DEF EdgesIntact
  <2>6. \A i \in 1..Len(edges) : edges[i].sink \in Nat /\ edges[i].sink # t
    BY <1>3, <2>2, <2>3, <2>5 DEF EdgesIntact, HasEdge
  <2> HIDE DEF h
  <2>7. edge.sink = t /\ edge.precedence = precedence /\ t \in Nat
    BY <2>3
  <2> HIDE DEF edge, edges
  <2>8. /\ \A i \in DOMAIN longer : longer[i] = edge \/ \E j \in DOMAIN edges : longer[i] = edges[j]
        /\ \E i \in DOMAIN longer : longer[i] = edge
        /\ \A j \in DOMAIN edges : \E i \in DOMAIN longer : longer[i] = edges[j]
    BY <2>5, <2>6, <2>7, InsertedIs
  <2> HIDE DEF longer
  <2>9. HasEdge(h, s, t)
    BY <2>4, <2>7, <2>8 DEF HasEdge
  <2>10. ASSUME NEW x, NEW y, NEW p, Leads(g, x, y, p) PROVE Leads(h, x, y, p)
    <3>1. CASE x # s
      BY <2>1, <2>4, <2>10, <3>1 DEF Leads
    <3>2. CASE x = s
      <4>1. PICK j \in DOMAIN edges : edges[j].sink = y /\ edges[j].precedence = p
        BY <2>10, <3>2 DEF Leads, edges
      <4>2. PICK i \in DOMAIN longer : longer[i] = edges[j]
        BY <2>8
      <4> QED BY <2>1, <2>4, <3>2, <4>1, <4>2 DEF Leads
    <3> QED BY <3>1, <3>2
  <2>11. ASSUME NEW x, NEW y, NEW p, Leads(h, x, y, p), ~ (x = s /\ y = t /\ p = precedence)
         PROVE  Leads(g, x, y, p)
    <3>1. CASE x # s
      BY <2>1, <2>4, <2>11, <3>1 DEF Leads
    <3>2. CASE x = s
      <4>1. PICK i \in DOMAIN longer : longer[i].sink = y /\ longer[i].precedence = p
        BY <2>1, <2>4, <2>11, <3>2 DEF Leads
      <4>2. longer[i] # edge
        BY <2>7, <2>11, <3>2, <4>1
      <4>3. PICK j \in DOMAIN edges : longer[i] = edges[j]
        BY <2>8, <4>2
      <4> QED BY <3>2, <4>1, <4>3 DEF Leads, edges
    <3> QED BY <3>1, <3>2
  <2> QED BY <1>1, <2>9, <2>10, <2>11 DEF h
<1> QED BY <1>2, <1>3

-----------------------------------------------------------------------------
(* What a graph contains *)

(* The nodes of a file, and the singletons, in terms of their ids. *)
LEMMA SavedIdOf ==
  ASSUME NEW g, Intact(g), NEW n \in DOMAIN g.nodes
  PROVE  /\ n \in Nat /\ SavedId(g, n).local = g.nodes[n].local
         /\ SavedId(g, n) = [file |-> SavedId(g, n).file, local |-> SavedId(g, n).local]
         /\ n <= JUMP_TO => /\ n \in {ROOT, JUMP_TO} /\ g.nodes[n].file = 0
                            /\ SavedId(g, n) = [file |-> {}, local |-> n]
         /\ ~ (n <= JUMP_TO) => /\ g.nodes[n].file \in DOMAIN g.files /\ g.nodes[n].file # 0
                                /\ SavedId(g, n).file = {g.files[g.nodes[n].file]}
         /\ SavedId(g, n).file = {} <=> n <= JUMP_TO
         /\ g.nodes[n].file \in Nat
<1>1. NodesIntact(g) /\ FilesIntact(g)
  BY IntactIs
<1>2. /\ SavedId(g, n).file = {g.files[f] : f \in {g.nodes[n].file} \ {0}}
      /\ SavedId(g, n).local = g.nodes[n].local
      /\ SavedId(g, n) = [file |-> SavedId(g, n).file, local |-> SavedId(g, n).local]
  BY DEF SavedId
<1>3. n \in Nat /\ n >= 1
  BY <1>1, SequenceIs DEF NodesIntact
<1>4. CASE n <= JUMP_TO
  <2>1. g.nodes[n].file = 0 /\ g.nodes[n].local = n
    BY <1>1, <1>4 DEF NodesIntact, NodeIntact
  <2>2. SavedId(g, n).file = {}
    BY <1>2, <2>1
  <2> QED BY <1>2, <1>3, <1>4, <2>1, <2>2 DEF ROOT, JUMP_TO
<1>5. CASE ~ (n <= JUMP_TO)
  <2>1. g.nodes[n].file \in DOMAIN g.files
    BY <1>1, <1>5 DEF NodesIntact, NodeIntact
  <2>2. g.nodes[n].file # 0 /\ g.nodes[n].file \in Nat
    BY <1>1, <2>1, SequenceIs DEF FilesIntact
  <2>3. SavedId(g, n).file = {g.files[g.nodes[n].file]}
    BY <1>2, <2>2
  <2> QED BY <1>2, <1>3, <1>5, <2>1, <2>2, <2>3
<1> QED BY <1>4, <1>5

LEMMA SavedIdSame ==
  ASSUME NEW g, NEW k, k.files = g.files, NEW n, k.nodes[n] = g.nodes[n]
  PROVE  SavedId(k, n) = SavedId(g, n)
  BY DEF SavedId

LEMMA SavedIdUnique ==
  ASSUME NEW g, Intact(g), NEW m \in DOMAIN g.nodes, NEW n \in DOMAIN g.nodes,
         SavedId(g, m) = SavedId(g, n)
  PROVE  m = n
<1>1. CASE n <= JUMP_TO
  <2>1. m <= JUMP_TO
    BY <1>1, SavedIdOf
  <2>2. SavedId(g, m).local = m /\ SavedId(g, n).local = n
    BY <1>1, <2>1, SavedIdOf
  <2> QED BY <2>2
<1>2. CASE ~ (n <= JUMP_TO)
  <2>1. ~ (m <= JUMP_TO)
    BY <1>2, SavedIdOf
  <2> DEFINE f == g.nodes[n].file
             e == g.nodes[m].file
  <2>2. /\ e \in DOMAIN g.files /\ f \in DOMAIN g.files
        /\ SavedId(g, m).file = {g.files[e]} /\ SavedId(g, n).file = {g.files[f]}
        /\ g.nodes[m].local = g.nodes[n].local
    BY <1>2, <2>1, SavedIdOf
  <2>3. e = f
    <3>1. IsInjective(g.files) /\ g.files[e] = g.files[f]
      BY <2>2, IntactIs DEF FilesIntact
    <3> QED BY <2>2, <3>1 DEF IsInjective
  <2>4. /\ g.ids[e][g.nodes[m].local + 1] = m
        /\ g.ids[f][g.nodes[n].local + 1] = n
    <3>1. NodesIntact(g)
      BY IntactIs
    <3> QED BY <1>2, <2>1, <3>1 DEF NodesIntact, NodeIntact
  <2> QED BY <2>2, <2>3, <2>4
<1> QED BY <1>1, <1>2

(* An edge as `Content` shows it. *)
Link(g, s, t, p, note) == [source |-> SavedId(g, s), sink |-> SavedId(g, t), precedence |-> p, note |-> note]

Here(g, names, s, t) ==
  IncludesNode(g, names, s) /\ IncludesNode(g, names, t) /\ ~ (s <= JUMP_TO /\ t <= JUMP_TO)

(* What a graph contains, with other descriptions. *)
Seen(g, names, info, notes) ==
  [nodes |-> {[id |-> SavedId(g, n), payload |-> g.nodes[n].payload, info |-> info[n]] :
                n \in {m \in DOMAIN g.nodes : IncludesNode(g, names, m) /\ g.nodes[m].file # 0}},
   edges |-> {Link(g, e.source, e.sink, e.precedence, <<e.source, e.sink>> \in notes) :
                e \in {x \in Edges(g) : Here(g, names, x.source, x.sink)}}]

LEMMA ContentIsSeen ==
  ASSUME NEW g, Intact(g), NEW names
  PROVE  Content(g, names) = Seen(g, names, g.info, g.notes)
<1>1. ASSUME NEW e \in Edges(g)
      PROVE  g.nodes[e.source].file + g.nodes[e.sink].file # 0
               <=> ~ (e.source <= JUMP_TO /\ e.sink <= JUMP_TO)
  <2>1. e.source \in DOMAIN g.nodes /\ e.sink \in DOMAIN g.nodes
    BY EdgesAre
  <2>2. \A n \in DOMAIN g.nodes : g.nodes[n].file \in Nat /\ (g.nodes[n].file = 0 <=> n <= JUMP_TO)
    BY SavedIdOf
  <2> QED BY <2>1, <2>2
<1>2. {x \in Edges(g) : /\ IncludesNode(g, names, x.source) /\ IncludesNode(g, names, x.sink)
                        /\ g.nodes[x.source].file + g.nodes[x.sink].file # 0}
      = {x \in Edges(g) : Here(g, names, x.source, x.sink)}
  BY <1>1 DEF Here
<1> QED BY <1>2 DEF Content, Seen, Link, IncludesNode

LEMMA SeenEdges ==
  ASSUME NEW g, Intact(g), NEW names, NEW info, NEW notes, NEW e
  PROVE  e \in Seen(g, names, info, notes).edges <=>
           \E s, t, p : Leads(g, s, t, p) /\ Here(g, names, s, t)
                        /\ e = Link(g, s, t, p, <<s, t>> \in notes)
<1>1. e \in Seen(g, names, info, notes).edges <=>
        \E x \in Edges(g) : /\ Here(g, names, x.source, x.sink)
                            /\ e = Link(g, x.source, x.sink, x.precedence, <<x.source, x.sink>> \in notes)
  BY DEF Seen
<1>2. ASSUME NEW x \in Edges(g), Here(g, names, x.source, x.sink),
             e = Link(g, x.source, x.sink, x.precedence, <<x.source, x.sink>> \in notes)
      PROVE  \E s, t, p : Leads(g, s, t, p) /\ Here(g, names, s, t)
                          /\ e = Link(g, s, t, p, <<s, t>> \in notes)
  <2>1. PICK s, t, p : Leads(g, s, t, p) /\ x = [source |-> s, sink |-> t, precedence |-> p]
    BY EdgesLead
  <2>2. x.source = s /\ x.sink = t /\ x.precedence = p
    BY <2>1
  <2> QED BY <1>2, <2>1, <2>2
<1>3. ASSUME NEW s, NEW t, NEW p, Leads(g, s, t, p), Here(g, names, s, t),
             e = Link(g, s, t, p, <<s, t>> \in notes)
      PROVE  \E x \in Edges(g) : /\ Here(g, names, x.source, x.sink)
                                 /\ e = Link(g, x.source, x.sink, x.precedence, <<x.source, x.sink>> \in notes)
  <2>1. PICK x : x = [source |-> s, sink |-> t, precedence |-> p]
    OBVIOUS
  <2>2. x \in Edges(g)
    BY <1>3, <2>1, EdgesLead
  <2>3. x.source = s /\ x.sink = t /\ x.precedence = p
    BY <2>1
  <2> QED BY <1>3, <2>2, <2>3
<1> QED BY <1>1, <1>2, <1>3

(* A node of k is that of g with the same id. *)
Same(k, x, g, n) == x \in DOMAIN k.nodes /\ n \in DOMAIN g.nodes /\ SavedId(k, x) = SavedId(g, n)

(* A graph that has the files of another one contains the same: the nodes  *)
(* with the same ids, and the edges among them.                            *)
Mirrors(k, g, names, info, notes) ==
  /\ \A n \in DOMAIN g.nodes : IncludesNode(g, names, n) => \E x : Same(k, x, g, n)
  /\ \A x \in DOMAIN k.nodes : IncludesNode(k, names, x) => \E n : Same(k, x, g, n)
  /\ \A x, n : Same(k, x, g, n) /\ IncludesNode(g, names, n) /\ ~ (n <= JUMP_TO) =>
       k.nodes[x].payload = g.nodes[n].payload /\ k.info[x] = info[n]
  /\ \A x, y, s, t : Same(k, x, g, s) /\ Same(k, y, g, t) /\ Here(g, names, s, t) =>
       \A p : /\ Leads(k, x, y, p) <=> Leads(g, s, t, p)
              /\ Leads(g, s, t, p) => (<<x, y>> \in k.notes <=> <<s, t>> \in notes)

LEMMA MirrorShowsTheSame ==
  ASSUME NEW g, Intact(g), NEW k, Intact(k), NEW names, NEW info, NEW notes,
         Mirrors(k, g, names, info, notes)
  PROVE  Content(k, names) = Seen(g, names, info, notes)
<1> DEFINE a == Seen(k, names, k.info, k.notes)
           b == Seen(g, names, info, notes)
<1>1. Content(k, names) = a
  BY ContentIsSeen
<1>2. ASSUME NEW x, NEW n, Same(k, x, g, n)
      PROVE  /\ IncludesNode(k, names, x) <=> IncludesNode(g, names, n)
             /\ x <= JUMP_TO <=> n <= JUMP_TO
             /\ k.nodes[x].file = 0 <=> n <= JUMP_TO
             /\ g.nodes[n].file = 0 <=> n <= JUMP_TO
  <2>1. x \in DOMAIN k.nodes /\ n \in DOMAIN g.nodes /\ SavedId(k, x) = SavedId(g, n)
    BY <1>2 DEF Same
  <2> QED BY <2>1, SavedIdOf DEF IncludesNode
<1>3. ASSUME NEW e PROVE e \in a.nodes <=> e \in b.nodes
  <2> DEFINE A == {m \in DOMAIN k.nodes : IncludesNode(k, names, m) /\ k.nodes[m].file # 0}
             B == {m \in DOMAIN g.nodes : IncludesNode(g, names, m) /\ g.nodes[m].file # 0}
             F(x) == [id |-> SavedId(k, x), payload |-> k.nodes[x].payload, info |-> k.info[x]]
             G(n) == [id |-> SavedId(g, n), payload |-> g.nodes[n].payload, info |-> info[n]]
  <2>1. a.nodes = {F(x) : x \in A} /\ b.nodes = {G(n) : n \in B}
    BY DEF Seen
  <2>2. \A x \in A : \E n \in B : F(x) = G(n)
    <3>1. ASSUME NEW x \in A PROVE \E n \in B : F(x) = G(n)
      <4>1. PICK n : Same(k, x, g, n)
        BY DEF Mirrors
      <4>2. n \in B /\ ~ (n <= JUMP_TO)
        BY <1>2, <4>1 DEF Same
      <4>3. k.nodes[x].payload = g.nodes[n].payload /\ k.info[x] = info[n]
        BY <4>1, <4>2 DEF Mirrors
      <4> QED BY <4>1, <4>2, <4>3 DEF Same
    <3> QED BY <3>1
  <2>3. \A n \in B : \E x \in A : F(x) = G(n)
    <3>1. ASSUME NEW n \in B PROVE \E x \in A : F(x) = G(n)
      <4>1. PICK x : Same(k, x, g, n)
        BY DEF Mirrors
      <4>2. x \in A /\ ~ (n <= JUMP_TO)
        BY <1>2, <4>1 DEF Same
      <4>3. k.nodes[x].payload = g.nodes[n].payload /\ k.info[x] = info[n]
        BY <4>1, <4>2 DEF Mirrors
      <4> QED BY <4>1, <4>2, <4>3 DEF Same
    <3> QED BY <3>1
  <2> HIDE DEF A, B, F, G, a, b
  <2> QED BY <2>1, <2>2, <2>3
<1>4. ASSUME NEW e \in a.edges PROVE e \in b.edges
  <2>1. PICK x, y, p : Leads(k, x, y, p) /\ Here(k, names, x, y) /\ e = Link(k, x, y, p, <<x, y>> \in k.notes)
    BY SeenEdges
  <2>2. x \in DOMAIN k.nodes /\ y \in DOMAIN k.nodes
    BY <2>1, LeadsIs
  <2>3. PICK s : Same(k, x, g, s)
    BY <2>1, <2>2 DEF Mirrors, Here
  <2>4. PICK t : Same(k, y, g, t)
    BY <2>1, <2>2 DEF Mirrors, Here
  <2>5. Here(g, names, s, t)
    BY <1>2, <2>1, <2>3, <2>4 DEF Here
  <2>6. Leads(g, s, t, p) /\ (<<x, y>> \in k.notes <=> <<s, t>> \in notes)
    BY <2>1, <2>3, <2>4, <2>5 DEF Mirrors
  <2>7. Link(k, x, y, p, <<x, y>> \in k.notes) = Link(g, s, t, p, <<s, t>> \in notes)
    BY <2>3, <2>4, <2>6 DEF Link, Same
  <2> QED BY <2>1, <2>5, <2>6, <2>7, SeenEdges
<1>5. ASSUME NEW e \in b.edges PROVE e \in a.edges
  <2>1. PICK s, t, p : Leads(g, s, t, p) /\ Here(g, names, s, t) /\ e = Link(g, s, t, p, <<s, t>> \in notes)
    BY SeenEdges
  <2>2. s \in DOMAIN g.nodes /\ t \in DOMAIN g.nodes
    BY <2>1, LeadsIs
  <2>3. PICK x : Same(k, x, g, s)
    BY <2>1, <2>2 DEF Mirrors, Here
  <2>4. PICK y : Same(k, y, g, t)
    BY <2>1, <2>2 DEF Mirrors, Here
  <2>5. Here(k, names, x, y)
    BY <1>2, <2>1, <2>3, <2>4 DEF Here
  <2>6. Leads(k, x, y, p) /\ (<<x, y>> \in k.notes <=> <<s, t>> \in notes)
    BY <2>1, <2>3, <2>4 DEF Mirrors
  <2>7. Link(k, x, y, p, <<x, y>> \in k.notes) = Link(g, s, t, p, <<s, t>> \in notes)
    BY <2>3, <2>4, <2>6 DEF Link, Same
  <2> QED BY <2>1, <2>5, <2>6, <2>7, SeenEdges
<1>6. a.nodes = b.nodes /\ a.edges = b.edges
  <2> HIDE DEF a, b
  <2>1. \A e : (e \in a.nodes <=> e \in b.nodes) /\ (e \in a.edges <=> e \in b.edges)
    BY <1>3, <1>4, <1>5
  <2> QED BY <2>1
<1>7. a = [nodes |-> a.nodes, edges |-> a.edges] /\ b = [nodes |-> b.nodes, edges |-> b.edges]
  BY DEF Seen
<1> HIDE DEF a, b
<1> QED BY <1>1, <1>6, <1>7 DEF b

(* Details that are forgotten. *)
Forgotten(infos, fields) ==
  {[f \in DOMAIN info |-> IF f \in fields THEN "none" ELSE info[f]] : info \in infos}

LEMMA ForgettingSeen ==
  ASSUME NEW g, NEW names, NEW info, NEW notes, NEW fields, NEW less,
         \A n \in DOMAIN g.nodes : less[n] = Forgotten(info[n], fields)
  PROVE  Forgetting(Seen(g, names, info, notes), fields) = Seen(g, names, less, notes)
<1> DEFINE a == Seen(g, names, info, notes)
           b == Seen(g, names, less, notes)
           B == {m \in DOMAIN g.nodes : IncludesNode(g, names, m) /\ g.nodes[m].file # 0}
           F(n) == [id |-> SavedId(g, n), payload |-> g.nodes[n].payload, info |-> info[n]]
           G(n) == [id |-> SavedId(g, n), payload |-> g.nodes[n].payload, info |-> less[n]]
           Less(c) == [c EXCEPT !.info = Forgotten(@, fields)]
<1>1. a = [nodes |-> {F(n) : n \in B}, edges |-> a.edges] /\ b = [nodes |-> {G(n) : n \in B}, edges |-> a.edges]
  BY DEF Seen
<1>2. \A n \in B : Less(F(n)) = G(n)
  OBVIOUS
<1> DEFINE all == {Less(c) : c \in a.nodes}
<1>3. Forgetting(a, fields) = [a EXCEPT !.nodes = all]
  BY DEF Forgetting, Forgotten
<1> HIDE DEF a, b, B, F, G, Less
<1>4. all = {G(n) : n \in B}
  BY <1>1, <1>2
<1> HIDE DEF all
<1>5. Forgetting(a, fields) = [nodes |-> all, edges |-> a.edges]
  BY <1>1, <1>3
<1> QED BY <1>1, <1>4, <1>5 DEF a, b

LEMMA WithoutNotesSeen ==
  ASSUME NEW g, NEW names, NEW info, NEW notes
  PROVE  WithoutNotes(Seen(g, names, info, notes)) = Seen(g, names, info, {})
<1> DEFINE a == Seen(g, names, info, notes)
           b == Seen(g, names, info, {})
           E == {x \in Edges(g) : Here(g, names, x.source, x.sink)}
           F(e) == Link(g, e.source, e.sink, e.precedence, <<e.source, e.sink>> \in notes)
           G(e) == Link(g, e.source, e.sink, e.precedence, <<e.source, e.sink>> \in {})
           Bare(l) == [l EXCEPT !.note = FALSE]
<1>1. a = [nodes |-> a.nodes, edges |-> {F(e) : e \in E}] /\ b = [nodes |-> a.nodes, edges |-> {G(e) : e \in E}]
  BY DEF Seen
<1>2. ASSUME NEW e \in E PROVE Bare(F(e)) = G(e)
  <2> DEFINE bare(note) == Link(g, e.source, e.sink, e.precedence, note)
  <2>1. \A note : Bare(bare(note)) = bare(FALSE)
    <3>1. \A note, other : [bare(note) EXCEPT !.note = other] = bare(other)
      BY DEF Link
    <3> HIDE DEF bare
    <3> QED BY <3>1, Zenon
  <2>2. (<<e.source, e.sink>> \in {}) = FALSE
    OBVIOUS
  <2>3. F(e) = bare(<<e.source, e.sink>> \in notes) /\ G(e) = bare(<<e.source, e.sink>> \in {})
    OBVIOUS
  <2> HIDE DEF bare, Bare, F, G
  <2>4. G(e) = bare(FALSE)
    BY <2>2, <2>3, Zenon
  <2> QED BY <2>1, <2>3, <2>4, Zenon
<1> DEFINE all == {Bare(l) : l \in a.edges}
<1>3. WithoutNotes(a) = [a EXCEPT !.edges = all]
  BY DEF WithoutNotes
<1> HIDE DEF a, b, E, F, G, Bare
<1>4. all = {G(e) : e \in E}
  BY <1>1, <1>2
<1> HIDE DEF all
<1>5. WithoutNotes(a) = [nodes |-> a.nodes, edges |-> all]
  BY <1>1, <1>3
<1> QED BY <1>1, <1>4, <1>5 DEF a, b

-----------------------------------------------------------------------------
(* What a graph is given, and keeps *)

LEMMA WithNodeLeads ==
  ASSUME NEW g, Intact(g), NEW file \in DOMAIN g.files, NEW local \in Nat, NEW payload,
         NEW h \in WithNode(g, Node(file, local, payload))
  PROVE  /\ h.info = Append(g.info, {})
         /\ \A x, y, p : Leads(h, x, y, p) <=> Leads(g, x, y, p)
<1>1. DOMAIN g = Fields
  BY IntactIs
<1>2. h.info = Append(g.info, {})
  BY <1>1 DEF WithNode, Fields
<1>3. /\ Len(h.nodes) = Len(g.nodes) + 1 /\ DOMAIN h.nodes = 1..Len(g.nodes) + 1
      /\ DOMAIN g.nodes = 1..Len(g.nodes) /\ Len(g.nodes) \in Nat
  BY WithNodeIntact
<1>4. h.outgoing = Append(g.outgoing, <<>>) /\ IsSequence(g.outgoing) /\ Len(g.outgoing) = Len(g.nodes)
  BY WithNodeIs, IntactIs DEF EdgesIntact
<1>5. PICK none : none = <<>>
  OBVIOUS
<1>6. h.outgoing = Append(g.outgoing, none) /\ DOMAIN none = {}
  BY <1>4, <1>5, EmptyIs
<1>7. /\ \A n \in 1..Len(g.nodes) : h.outgoing[n] = g.outgoing[n]
      /\ h.outgoing[Len(g.nodes) + 1] = none
  BY <1>4, <1>6, AppendIs
<1>8. \A n \in DOMAIN h.nodes : n \in DOMAIN g.nodes \/ n = Len(g.nodes) + 1
  BY <1>3
<1>9. \A n \in DOMAIN g.nodes : n \in DOMAIN h.nodes /\ h.outgoing[n] = g.outgoing[n]
  BY <1>3, <1>7
<1>10. ASSUME NEW x, NEW y, NEW p PROVE Leads(h, x, y, p) <=> Leads(g, x, y, p)
  <2>1. CASE x \in DOMAIN g.nodes
    BY <1>9, <2>1 DEF Leads
  <2>2. CASE x \notin DOMAIN g.nodes
    BY <1>6, <1>7, <1>8, <2>2 DEF Leads
  <2> QED BY <2>1, <2>2
<1> QED BY <1>2, <1>10

(* k has the nodes and the edges of b, and what is said of its nodes. *)
Extends(k, b) ==
  /\ Intact(k) /\ k.files = b.files
  /\ IsSequence(k.info) /\ Len(k.info) = Len(k.nodes)
  /\ \A n \in DOMAIN b.nodes :
       n \in DOMAIN k.nodes /\ k.nodes[n] = b.nodes[n] /\ k.info[n] = b.info[n]
  /\ \A x, y, p : Leads(b, x, y, p) => Leads(k, x, y, p)

(* A node that is added, with its description. *)
WithInfo(g, n, info) == [g EXCEPT !.info[n] = info]

LEMMA NodeExtends ==
  ASSUME NEW b, NEW g, Extends(g, b), NEW file \in DOMAIN g.files, NEW local \in Nat, NEW payload,
         NEW info, NEW h \in WithNode(g, Node(file, local, payload))
  PROVE  LET k == WithInfo(h, Len(h.nodes), info)
             new == Len(h.nodes)
         IN  /\ Extends(k, b) /\ k.files = g.files /\ k.notes = g.notes
             /\ \A n \in DOMAIN g.nodes : k.nodes[n] = g.nodes[n] /\ k.info[n] = g.info[n]
             /\ \A n \in DOMAIN g.nodes : SavedId(k, n) = SavedId(g, n)
             /\ DOMAIN k.nodes = DOMAIN g.nodes \cup {new} /\ new \notin DOMAIN g.nodes
             /\ k.nodes[new] = Node(file, local, payload) /\ k.info[new] = info
             /\ SavedId(k, new) = [file |-> {g.files[file]}, local |-> local]
             /\ \A x, y, p : Leads(k, x, y, p) <=> Leads(g, x, y, p)
<1> DEFINE k == WithInfo(h, Len(h.nodes), info)
           new == Len(h.nodes)
<1>1. Intact(g) /\ IsSequence(g.info) /\ Len(g.info) = Len(g.nodes)
  BY DEF Extends
<1>2. /\ Intact(h) /\ h.files = g.files /\ h.notes = g.notes
      /\ Len(g.nodes) \in Nat /\ DOMAIN g.nodes = 1..Len(g.nodes)
      /\ Len(h.nodes) = Len(g.nodes) + 1 /\ DOMAIN h.nodes = 1..Len(g.nodes) + 1
      /\ \A n \in DOMAIN g.nodes : h.nodes[n] = g.nodes[n]
      /\ h.nodes[new] = Node(file, local, payload)
  BY <1>1, WithNodeIntact
<1>3. h.info = Append(g.info, {}) /\ \A x, y, p : Leads(h, x, y, p) <=> Leads(g, x, y, p)
  BY <1>1, WithNodeLeads
<1>4. DOMAIN h = Fields
  BY <1>2, IntactIs
<1>5. /\ DOMAIN k = Fields /\ k.files = h.files /\ k.nodes = h.nodes /\ k.ids = h.ids
      /\ k.outgoing = h.outgoing /\ k.incoming = h.incoming /\ k.notes = h.notes
      /\ k.info = Replaced(h.info, new, info)
  BY <1>4 DEF Fields, Replaced, WithInfo
<1> HIDE DEF k
<1>6. Intact(k)
  BY <1>2, <1>5, SameIntact
<1>7. /\ IsSequence(h.info) /\ Len(h.info) = new
      /\ \A n \in 1..Len(g.nodes) : h.info[n] = g.info[n]
  BY <1>1, <1>2, <1>3, AppendIs
<1>8. /\ IsSequence(k.info) /\ Len(k.info) = new
      /\ \A n \in 1..new : k.info[n] = IF n = new THEN info ELSE h.info[n]
  BY <1>5, <1>7, ReplacedIs
<1>9. \A n \in DOMAIN g.nodes : n \in 1..new /\ n # new
  BY <1>2
<1>10. new \in 1..new /\ DOMAIN k.nodes = DOMAIN g.nodes \cup {new} /\ new \notin DOMAIN g.nodes
  BY <1>2, <1>5
<1> HIDE DEF new
<1>11. /\ \A n \in DOMAIN g.nodes : k.nodes[n] = g.nodes[n] /\ k.info[n] = g.info[n]
       /\ k.nodes[new] = Node(file, local, payload) /\ k.info[new] = info
  BY <1>2, <1>5, <1>7, <1>8, <1>9, <1>10
<1>12. \A x, y, p : Leads(k, x, y, p) <=> Leads(g, x, y, p)
  BY <1>3, <1>5 DEF Leads
<1>13. Extends(k, b)
  <2>1. \A n \in DOMAIN b.nodes :
          n \in DOMAIN g.nodes /\ g.nodes[n] = b.nodes[n] /\ g.info[n] = b.info[n]
    BY DEF Extends
  <2>2. g.files = b.files /\ \A x, y, p : Leads(b, x, y, p) => Leads(g, x, y, p)
    BY DEF Extends
  <2>3. \A n \in DOMAIN b.nodes :
          n \in DOMAIN k.nodes /\ k.nodes[n] = b.nodes[n] /\ k.info[n] = b.info[n]
    BY <1>10, <1>11, <2>1
  <2>4. Len(k.info) = Len(k.nodes)
    BY <1>5, <1>8 DEF new
  <2> QED BY <1>2, <1>5, <1>6, <1>8, <1>12, <2>2, <2>3, <2>4 DEF Extends
<1>14. \A n \in DOMAIN g.nodes : SavedId(k, n) = SavedId(g, n)
  BY <1>2, <1>5, <1>11, SavedIdSame
<1>15. SavedId(k, new) = [file |-> {g.files[file]}, local |-> local]
  <2>1. k.nodes[new].file = file /\ k.nodes[new].local = local
    BY <1>11, NodeIs
  <2>2. file # 0
    BY <1>1, NodesForIdIs
  <2>3. k.files = g.files /\ {k.nodes[new].file} \ {0} = {file}
    BY <1>2, <1>5, <2>1, <2>2
  <2>4. {k.files[f] : f \in {k.nodes[new].file} \ {0}} = {g.files[file]}
    BY ONLY <2>3
  <2> QED BY ONLY <2>1, <2>4 DEF SavedId
<1> QED BY <1>2, <1>5, <1>10, <1>11, <1>12, <1>13, <1>14, <1>15 DEF k, new

(* An edge that is added. *)
LEMMA EdgeExtends ==
  ASSUME NEW b, NEW g, Extends(g, b), NEW s \in DOMAIN g.nodes, NEW t \in DOMAIN g.nodes,
         NEW precedence
  PROVE  LET k == WithEdge(g, s, t, precedence)
         IN  /\ Extends(k, b) /\ k.files = g.files /\ k.notes = g.notes
             /\ k.nodes = g.nodes /\ k.info = g.info /\ k.ids = g.ids
             /\ HasEdge(k, s, t)
             /\ \A x, y, p : Leads(g, x, y, p) => Leads(k, x, y, p)
             /\ \A x, y, p : Leads(k, x, y, p) =>
                  Leads(g, x, y, p) \/ (x = s /\ y = t /\ p = precedence)
             /\ \A n : SavedId(k, n) = SavedId(g, n)
<1> DEFINE k == WithEdge(g, s, t, precedence)
<1>1. Intact(g)
  BY DEF Extends
<1>2. /\ Intact(k) /\ k.files = g.files /\ k.nodes = g.nodes /\ k.ids = g.ids
      /\ k.notes = g.notes
  BY <1>1, WithEdgeIntact
<1>3. /\ k.info = g.info /\ HasEdge(k, s, t)
      /\ \A x, y, p : Leads(g, x, y, p) => Leads(k, x, y, p)
      /\ \A x, y, p : Leads(k, x, y, p) =>
           Leads(g, x, y, p) \/ (x = s /\ y = t /\ p = precedence)
  BY <1>1, WithEdgeLeads
<1> HIDE DEF k
<1>4. Extends(k, b)
  BY <1>2, <1>3 DEF Extends
<1>5. \A n : SavedId(k, n) = SavedId(g, n)
  BY <1>2 DEF SavedId
<1> QED BY <1>2, <1>3, <1>4, <1>5 DEF k

-----------------------------------------------------------------------------
(* Copying *)

(* What a copy from h has at hand: a graph, and the copies of some nodes. *)
Copying(acc, h) ==
  /\ DOMAIN acc = {"graph", "outcome", "known"}
  /\ Intact(acc.graph)
  /\ DOMAIN acc.known \subseteq DOMAIN h.nodes
  /\ \A n \in DOMAIN acc.known : acc.known[n] \in DOMAIN acc.graph.nodes

Known(acc) == DOMAIN acc.known

(* The file of a graph that has a name. *)
LEMMA FileHandlesAre ==
  ASSUME NEW g, Intact(g), NEW f \in DOMAIN g.files
  PROVE  FileHandles(g, g.files[f]) = {f}
  BY IntactIs DEF FilesIntact, IsInjective, FileHandles

Renamed(infos) == {[info EXCEPT !.name = "none"] : info \in infos}

(* What is known of h has a copy, and the copies are all there is besides b: *)
(* nodes, and edges among them.                                              *)
Copies(acc, h, b) ==
  LET k == acc.graph
  IN  /\ Extends(k, b) /\ k.notes = b.notes
      /\ {ROOT, JUMP_TO} \subseteq Known(acc)
      /\ \A n \in Known(acc) : Same(k, acc.known[n], h, n)
      /\ \A n \in Known(acc) : ~ (n <= JUMP_TO) =>
           /\ acc.known[n] \notin DOMAIN b.nodes
           /\ k.nodes[acc.known[n]].payload = h.nodes[n].payload
           /\ k.info[acc.known[n]] = Renamed(h.info[n])
      /\ \A x \in DOMAIN k.nodes \ DOMAIN b.nodes : \E n \in Known(acc) : acc.known[n] = x
      /\ \A x, y, p : Leads(k, x, y, p) =>
           \/ Leads(b, x, y, p)
           \/ \E s, t \in Known(acc) : x = acc.known[s] /\ y = acc.known[t] /\ Leads(h, s, t, p)

LEMMA CopiedNodeHas ==
  ASSUME NEW h, Intact(h), NEW acc, Copying(acc, h),
         NEW n \in DOMAIN h.nodes, NEW f \in DOMAIN h.files, h.nodes[n].file = f,
         NEW file \in DOMAIN acc.graph.files, acc.graph.files[file] = h.files[f],
         Len(acc.graph.ids[file]) <= h.nodes[n].local
  PROVE  /\ h.nodes[n].local \in Nat
         /\ \E g \in WithNode(acc.graph, Node(file, h.nodes[n].local, h.nodes[n].payload)) :
              LET next == CopiedNode(acc, h, n)
              IN  /\ DOMAIN next = {"graph", "outcome", "known"} /\ next.outcome = acc.outcome
                  /\ next.graph = WithInfo(g, Len(g.nodes), Renamed(h.info[n]))
                  /\ next.known = With(acc.known, n, Len(g.nodes))
<1> DEFINE node == h.nodes[n]
           local == node.local
           payload == node.payload
           next == CopiedNode(acc, h, n)
           copy == [node EXCEPT !.file = file]
           g == CHOOSE g \in WithNode(acc.graph, copy) : TRUE
           info == Renamed(h.info[n])
<1>1. NodesIntact(h) /\ FilesIntact(h)
  BY IntactIs
<1>2. /\ node = Node(node.file, node.local, node.payload)
      /\ local \in Nat /\ f \in 1..Len(h.files)
  BY <1>1, SequenceIs DEF NodesIntact, NodeIntact, FilesIntact
<1>3. Intact(acc.graph)
  BY DEF Copying
<1>4. (CHOOSE k \in FileHandles(acc.graph, h.files[node.file]) : TRUE) = file
  <2>1. FileHandles(acc.graph, h.files[node.file]) = {file}
    BY <1>3, FileHandlesAre
  <2> QED BY <2>1
<1>5. copy = Node(file, local, payload)
  <2> HIDE DEF node
  <2>1. node = Node(node.file, local, payload)
    BY <1>2
  <2> HIDE DEF local, payload
  <2> QED BY <2>1 DEF Node
<1>6. next = [acc EXCEPT !.graph = WithInfo(g, Len(g.nodes), info),
                         !.known = With(@, n, Len(g.nodes))]
  BY <1>4 DEF CopiedNode, Renamed, WithInfo
<1> HIDE DEF node, local, payload, next, copy, info
<1>7. NodesForId(acc.graph, file, local) = {}
  <2>1. NodesForId(acc.graph, file, local) \subseteq {m \in DOMAIN acc.graph.nodes : local < Len(acc.graph.ids[file])}
    <3>1. file # 0
      BY <1>3, NodesForIdIs, <1>2
    <3> QED BY <3>1 DEF NodesForId
  <2>2. Len(acc.graph.ids[file]) \in Nat
    BY <1>2, <1>3, NodesForIdIs, SequenceIs
  <2> QED BY <1>2, <2>1, <2>2 DEF local, node
<1>8. WithNode(acc.graph, copy) # {}
  <2>1. copy.file = file /\ copy.local = local
    BY <1>5, NodeIs
  <2> QED BY <1>7, <2>1 DEF WithNode
<1>9. g \in WithNode(acc.graph, Node(file, local, payload))
  BY <1>5, <1>8
<1> HIDE DEF g
<1> DEFINE described == WithInfo(g, Len(g.nodes), info)
<1> HIDE DEF described
<1>10. next.graph = described /\ next.known = With(acc.known, n, Len(g.nodes))
       /\ next.outcome = acc.outcome /\ DOMAIN next = {"graph", "outcome", "known"}
  BY <1>6 DEF Copying, described
<1> QED BY <1>2, <1>9, <1>10 DEF described, next, info, node, local, payload

LEMMA CopiedNodeIs ==
  ASSUME NEW h, Intact(h), NEW acc, Copying(acc, h),
         NEW n \in DOMAIN h.nodes, NEW f \in DOMAIN h.files, h.nodes[n].file = f,
         NEW file \in DOMAIN acc.graph.files, acc.graph.files[file] = h.files[f],
         Len(acc.graph.ids[file]) <= h.nodes[n].local
  PROVE  LET next == CopiedNode(acc, h, n)
         IN  /\ Copying(next, h) /\ next.outcome = acc.outcome
             /\ next.graph.files = acc.graph.files
             /\ \A k \in DOMAIN acc.graph.files :
                  k # file => next.graph.ids[k] = acc.graph.ids[k]
             /\ Len(next.graph.ids[file]) = h.nodes[n].local + 1
             /\ Known(next) = Known(acc) \cup {n}
<1> DEFINE local == h.nodes[n].local
           payload == h.nodes[n].payload
           next == CopiedNode(acc, h, n)
<1>1. local \in Nat
  BY CopiedNodeHas
<1>2. PICK g \in WithNode(acc.graph, Node(file, local, payload)) :
        /\ DOMAIN next = {"graph", "outcome", "known"} /\ next.outcome = acc.outcome
        /\ next.graph = WithInfo(g, Len(g.nodes), Renamed(h.info[n]))
        /\ next.known = With(acc.known, n, Len(g.nodes))
  BY CopiedNodeHas
<1>3. Intact(acc.graph)
  BY DEF Copying
<1> HIDE DEF local, payload, next
<1> DEFINE old == acc.graph
<1>10. /\ Intact(g) /\ g.files = old.files
       /\ Len(old.nodes) \in Nat /\ DOMAIN old.nodes = 1..Len(old.nodes)
       /\ Len(g.nodes) = Len(old.nodes) + 1 /\ DOMAIN g.nodes = 1..Len(old.nodes) + 1
       /\ \A k \in DOMAIN old.files : k # file => g.ids[k] = old.ids[k]
       /\ Len(g.ids[file]) = IF local < Len(old.ids[file]) THEN Len(old.ids[file]) ELSE local + 1
  BY <1>1, <1>3, WithNodeIntact
<1>11. DOMAIN g = Fields
  BY <1>10, IntactIs
<1> DEFINE described == WithInfo(g, Len(g.nodes), Renamed(h.info[n]))
<1>12. /\ DOMAIN described = Fields /\ described.files = g.files /\ described.nodes = g.nodes
       /\ described.ids = g.ids
       /\ described.outgoing = g.outgoing /\ described.incoming = g.incoming
  BY <1>11 DEF Fields, WithInfo
<1>13. next.graph = described /\ next.known = With(acc.known, n, Len(g.nodes))
       /\ next.outcome = acc.outcome /\ DOMAIN next = {"graph", "outcome", "known"}
  BY <1>2
<1> HIDE DEF described
<1>14. Intact(described)
  BY <1>10, <1>12, SameIntact
<1>15. /\ DOMAIN next.known = DOMAIN acc.known \cup {n}
       /\ \A m \in DOMAIN acc.known : m # n => next.known[m] = acc.known[m]
       /\ next.known[n] = Len(g.nodes)
  BY <1>13 DEF With
<1>16. Copying(next, h)
  BY <1>10, <1>12, <1>13, <1>14, <1>15 DEF Copying
<1>17. Len(old.ids[file]) \in Nat /\ Len(old.ids[file]) <= local
  BY <1>1, <1>3, NodesForIdIs, SequenceIs DEF local
<1>18. Len(described.ids[file]) = local + 1
  BY <1>1, <1>10, <1>12, <1>17
<1> QED BY <1>10, <1>12, <1>13, <1>15, <1>16, <1>18 DEF Known, local, next

LEMMA CopiedNodeCopies ==
  ASSUME NEW h, Intact(h), NEW b, NEW acc, Copying(acc, h), Copies(acc, h, b),
         NEW n \in DOMAIN h.nodes, NEW f \in DOMAIN h.files, h.nodes[n].file = f,
         NEW file \in DOMAIN acc.graph.files, acc.graph.files[file] = h.files[f],
         Len(acc.graph.ids[file]) <= h.nodes[n].local
  PROVE  Copies(CopiedNode(acc, h, n), h, b)
<1> DEFINE g == acc.graph
           local == h.nodes[n].local
           payload == h.nodes[n].payload
           info == Renamed(h.info[n])
           next == CopiedNode(acc, h, n)
           id == SavedId(h, n)
<1>1. Intact(g) /\ Extends(g, b) /\ local \in Nat
  <2>1. Intact(g) /\ Extends(g, b)
    BY DEF Copying, Copies
  <2> QED BY <2>1, CopiedNodeHas
<1>2. PICK a \in WithNode(g, Node(file, local, payload)) :
        /\ DOMAIN next = {"graph", "outcome", "known"} /\ next.outcome = acc.outcome
        /\ next.graph = WithInfo(a, Len(a.nodes), info)
        /\ next.known = With(acc.known, n, Len(a.nodes))
  BY CopiedNodeHas
<1> DEFINE k == next.graph
           new == Len(a.nodes)
<1>3. /\ ~ (n <= JUMP_TO) /\ id = [file |-> {g.files[file]}, local |-> local]
  <2>1. FilesIntact(h)
    BY IntactIs
  <2>2. f # 0
    BY <2>1, SequenceIs DEF FilesIntact
  <2> QED BY <2>2, SavedIdOf
<1> HIDE DEF next
<1>4. /\ Extends(k, b) /\ k.files = g.files /\ k.notes = g.notes
      /\ \A m \in DOMAIN g.nodes : k.nodes[m] = g.nodes[m] /\ k.info[m] = g.info[m]
      /\ \A m \in DOMAIN g.nodes : SavedId(k, m) = SavedId(g, m)
      /\ DOMAIN k.nodes = DOMAIN g.nodes \cup {new} /\ new \notin DOMAIN g.nodes
      /\ k.nodes[new] = Node(file, local, payload) /\ k.info[new] = info
      /\ SavedId(k, new) = [file |-> {g.files[file]}, local |-> local]
      /\ \A x, y, p : Leads(k, x, y, p) <=> Leads(g, x, y, p)
  <2> HIDE DEF g, local, payload, info
  <2>1. file \in DOMAIN g.files /\ k = WithInfo(a, Len(a.nodes), info)
    BY <1>2 DEF g
  <2>2. a \in WithNode(g, Node(file, local, payload)) /\ Extends(g, b) /\ local \in Nat
    BY <1>1
  <2> DEFINE z == WithInfo(a, Len(a.nodes), info)
  <2>3. /\ Extends(z, b) /\ z.files = g.files /\ z.notes = g.notes
        /\ \A m \in DOMAIN g.nodes : z.nodes[m] = g.nodes[m] /\ z.info[m] = g.info[m]
        /\ \A m \in DOMAIN g.nodes : SavedId(z, m) = SavedId(g, m)
        /\ DOMAIN z.nodes = DOMAIN g.nodes \cup {new} /\ new \notin DOMAIN g.nodes
        /\ z.nodes[new] = Node(file, local, payload) /\ z.info[new] = info
        /\ SavedId(z, new) = [file |-> {g.files[file]}, local |-> local]
        /\ \A x, y, p : Leads(z, x, y, p) <=> Leads(g, x, y, p)
    BY ONLY <2>1, <2>2, NodeExtends
  <2> HIDE DEF k, z, new
  <2>4. k = z
    BY <2>1 DEF z
  <2> QED BY <2>3, <2>4
<1>5. n \notin Known(acc)
  <2> SUFFICES ASSUME n \in Known(acc) PROVE FALSE
    OBVIOUS
  <2> DEFINE x == acc.known[n]
  <2>1. x \in DOMAIN g.nodes /\ SavedId(g, x) = id
    BY DEF Copies, Same
  <2> HIDE DEF x, id
  <2>2. SavedId(g, x).file = {g.files[file]} /\ SavedId(g, x).local = local
    BY <1>3, <2>1
  <2>3. ~ (x <= JUMP_TO)
    BY <1>1, <2>1, <2>2, SavedIdOf
  <2> DEFINE e == g.nodes[x].file
  <2>4. e \in DOMAIN g.files /\ g.files[e] = g.files[file] /\ g.nodes[x].local = local
    BY <1>1, <2>1, <2>2, <2>3, SavedIdOf
  <2>5. e = file
    BY <1>1, <2>4, IntactIs DEF FilesIntact, IsInjective
  <2>6. local < Len(g.ids[e])
    BY <1>1, <2>1, <2>3, <2>4, IntactIs DEF NodesIntact, NodeIntact
  <2>7. Len(g.ids[file]) \in Nat
    BY <1>1, NodesForIdIs, SequenceIs
  <2> QED BY <1>1, <2>5, <2>6, <2>7
<1>6. /\ Known(next) = Known(acc) \cup {n}
      /\ \A m \in Known(acc) : next.known[m] = acc.known[m]
      /\ next.known[n] = new
  BY <1>2, <1>5 DEF With, Known
<1>7. /\ k.notes = b.notes /\ {ROOT, JUMP_TO} \subseteq Known(next)
  BY <1>4, <1>6 DEF Copies
<1>8. ASSUME NEW m \in Known(acc)
      PROVE  /\ Same(k, next.known[m], h, m)
             /\ ~ (m <= JUMP_TO) =>
                  /\ next.known[m] \notin DOMAIN b.nodes
                  /\ k.nodes[next.known[m]].payload = h.nodes[m].payload
                  /\ k.info[next.known[m]] = Renamed(h.info[m])
  <2> DEFINE x == acc.known[m]
  <2>1. Same(g, x, h, m) /\ next.known[m] = x
        /\ (~ (m <= JUMP_TO) =>
              /\ x \notin DOMAIN b.nodes
              /\ g.nodes[x].payload = h.nodes[m].payload
              /\ g.info[x] = Renamed(h.info[m]))
    BY <1>6 DEF Copies
  <2> HIDE DEF x, g, k
  <2> QED BY <1>4, <2>1 DEF Same
<1>9. /\ Same(k, new, h, n) /\ new \notin DOMAIN b.nodes
      /\ k.nodes[new].payload = h.nodes[n].payload /\ k.info[new] = Renamed(h.info[n])
  <2>1. k.nodes[new].payload = payload
    BY <1>4, NodeIs
  <2>2. DOMAIN b.nodes \subseteq DOMAIN g.nodes
    BY <1>1 DEF Extends
  <2> QED BY <1>3, <1>4, <2>1, <2>2 DEF Same
<1>10. ASSUME NEW x \in DOMAIN k.nodes \ DOMAIN b.nodes PROVE \E m \in Known(next) : next.known[m] = x
  <2>1. CASE x = new
    BY <1>6, <2>1
  <2>2. CASE x # new
    <3>1. x \in DOMAIN g.nodes \ DOMAIN b.nodes
      BY <1>4, <2>2
    <3>2. PICK m \in Known(acc) : acc.known[m] = x
      BY <3>1 DEF Copies
    <3> QED BY <1>6, <3>2
  <2> QED BY <2>1, <2>2
<1>11. ASSUME NEW x, NEW y, NEW p, Leads(k, x, y, p), ~ Leads(b, x, y, p)
       PROVE  \E s, t \in Known(next) : x = next.known[s] /\ y = next.known[t] /\ Leads(h, s, t, p)
  <2>1. Leads(g, x, y, p)
    BY <1>4, <1>11
  <2>2. PICK s \in Known(acc), t \in Known(acc) : x = acc.known[s] /\ y = acc.known[t] /\ Leads(h, s, t, p)
    BY <1>11, <2>1 DEF Copies
  <2> QED BY <1>6, <2>2
<1>12. \A m \in Known(next) : m = n \/ m \in Known(acc)
  BY <1>6
<1> HIDE DEF g, k, new, local, payload, info, id
<1>13. \A m \in Known(next) :
         /\ Same(k, next.known[m], h, m)
         /\ ~ (m <= JUMP_TO) =>
              /\ next.known[m] \notin DOMAIN b.nodes
              /\ k.nodes[next.known[m]].payload = h.nodes[m].payload
              /\ k.info[next.known[m]] = Renamed(h.info[m])
  BY <1>6, <1>8, <1>9, <1>12
<1> QED BY <1>4, <1>7, <1>10, <1>11, <1>13 DEF Copies, next, k

(* The nodes of a file, with the local ids below one. *)
NodesOf(h, f, i) == {n \in DOMAIN h.nodes : h.nodes[n].file = f /\ h.nodes[n].local < i}

LEMMA NodesOfAre ==
  ASSUME NEW h, Intact(h), NEW f \in DOMAIN h.files
  PROVE  /\ IsSequence(h.ids[f]) /\ Len(h.ids[f]) \in Nat
         /\ NodesOf(h, f, 0) = {}
         /\ NodesOf(h, f, Len(h.ids[f])) = {n \in DOMAIN h.nodes : h.nodes[n].file = f}
         /\ \A i \in 1..Len(h.ids[f]) :
              LET n == h.ids[f][i]
              IN  /\ n = 0 => NodesOf(h, f, i) = NodesOf(h, f, i - 1)
                  /\ n # 0 => /\ NodesOf(h, f, i) = NodesOf(h, f, i - 1) \cup {n}
                              /\ n \in DOMAIN h.nodes /\ h.nodes[n].file = f
                              /\ h.nodes[n].local = i - 1
<1>1. FilesIntact(h) /\ NodesIntact(h) /\ IdsIntact(h)
  BY IntactIs
<1>2. f \in DOMAIN h.ids /\ f # 0
  BY <1>1, SequenceIs DEF FilesIntact
<1>3. IsSequence(h.ids[f]) /\ Len(h.ids[f]) \in Nat /\ DOMAIN h.ids[f] = 1..Len(h.ids[f])
  BY <1>1, <1>2, SequenceIs DEF IdsIntact
<1>4. ASSUME NEW n \in DOMAIN h.nodes, h.nodes[n].file = f
      PROVE  /\ n # 0 /\ h.nodes[n].local \in Nat /\ h.nodes[n].local < Len(h.ids[f])
             /\ h.ids[f][h.nodes[n].local + 1] = n
  BY <1>1, <1>2, <1>4, SequenceIs DEF NodesIntact, NodeIntact
<1>5. NodesOf(h, f, 0) = {} /\ NodesOf(h, f, Len(h.ids[f])) = {n \in DOMAIN h.nodes : h.nodes[n].file = f}
  BY <1>3, <1>4 DEF NodesOf
<1>6. ASSUME NEW i \in 1..Len(h.ids[f])
      PROVE  LET n == h.ids[f][i]
             IN  /\ n = 0 => NodesOf(h, f, i) = NodesOf(h, f, i - 1)
                 /\ n # 0 => /\ NodesOf(h, f, i) = NodesOf(h, f, i - 1) \cup {n}
                             /\ n \in DOMAIN h.nodes /\ h.nodes[n].file = f
                             /\ h.nodes[n].local = i - 1
  <2> DEFINE n == h.ids[f][i]
  <2>1. ASSUME n # 0
        PROVE  n \in DOMAIN h.nodes /\ h.nodes[n].file = f /\ h.nodes[n].local = i - 1
    <3>1. n \in DOMAIN h.nodes /\ h.nodes[n].file = f /\ h.nodes[n].local + 1 = i
      BY <1>1, <1>2, <1>3, <2>1 DEF IdsIntact
    <3> QED BY <1>3, <1>4, <3>1
  <2>2. ASSUME NEW m \in DOMAIN h.nodes, h.nodes[m].file = f
        PROVE  h.nodes[m].local < i <=> h.nodes[m].local < i - 1 \/ m = n
    <3>1. h.nodes[m].local \in Nat /\ h.ids[f][h.nodes[m].local + 1] = m /\ m # 0
      BY <1>4, <2>2
    <3>2. CASE h.nodes[m].local = i - 1
      BY <1>3, <3>1, <3>2
    <3>3. CASE h.nodes[m].local # i - 1
      <4>1. m # n
        BY <2>1, <3>1, <3>3
      <4> QED BY <1>3, <3>1, <3>3, <4>1
    <3> QED BY <3>2, <3>3
  <2>3. ASSUME NEW m \in DOMAIN h.nodes, h.nodes[m].file = f, n = 0 PROVE m # n
    BY <1>4, <2>3
  <2> HIDE DEF n
  <2>4. n = 0 => NodesOf(h, f, i) = NodesOf(h, f, i - 1)
    BY <2>2, <2>3 DEF NodesOf
  <2>5. ASSUME n # 0 PROVE NodesOf(h, f, i) = NodesOf(h, f, i - 1) \cup {n}
    <3>1. n \in DOMAIN h.nodes /\ h.nodes[n].file = f
      BY <2>1, <2>5
    <3> QED BY <2>2, <3>1 DEF NodesOf
  <2> QED BY <2>1, <2>4, <2>5 DEF n
<1> QED BY <1>3, <1>5, <1>6

(* Copying the nodes of a file, to one that has none yet, makes all of them *)
(* known.                                                                   *)
LEMMA CopiedNodesAre ==
  ASSUME NEW h, Intact(h), NEW acc, Copying(acc, h), NEW f \in DOMAIN h.files,
         NEW file \in DOMAIN acc.graph.files, acc.graph.files[file] = h.files[f],
         Len(acc.graph.ids[file]) = 0
  PROVE  LET next == CopiedNodes(acc, h, f)
         IN  /\ Copying(next, h) /\ next.outcome = acc.outcome
             /\ next.graph.files = acc.graph.files
             /\ \A k \in DOMAIN acc.graph.files :
                  k # file => next.graph.ids[k] = acc.graph.ids[k]
             /\ Known(next) = Known(acc) \cup {n \in DOMAIN h.nodes : h.nodes[n].file = f}
             /\ \A b : Copies(acc, h, b) => Copies(next, h, b)
<1> DEFINE ids == h.ids[f]
           last == Len(ids)
           Done(a, i) ==
             /\ Copying(a, h) /\ a.outcome = acc.outcome
             /\ a.graph.files = acc.graph.files
             /\ \A k \in DOMAIN acc.graph.files : k # file => a.graph.ids[k] = acc.graph.ids[k]
             /\ Len(a.graph.ids[file]) <= i
             /\ Known(a) = Known(acc) \cup NodesOf(h, f, i)
             /\ \A b : Copies(acc, h, b) => Copies(a, h, b)
<1>1. IsSequence(ids) /\ last \in Nat
  BY NodesOfAre
<1>2. PICK after :
        /\ after[0] = acc /\ CopiedIds(acc, h, ids) = after[last]
        /\ \A i \in 1..last : after[i] = CopiedId(after[i - 1], h, ids[i])
  <2>1. IsSequence(ids)
    BY <1>1
  <2> QED BY ONLY <2>1, CopiedNodesLoop
<1>3. Done(after[0], 0)
  BY <1>2, NodesOfAre
<1>4. ASSUME NEW i \in 1..last, Done(after[i - 1], i - 1) PROVE Done(after[i], i)
  <2> DEFINE a == after[i - 1]
             n == ids[i]
             next == after[i]
  <2>1. next = IF n = 0 THEN a ELSE CopiedNode(a, h, n)
    BY <1>2 DEF CopiedId
  <2>2. Done(a, i - 1)
    BY <1>4
  <2>3. /\ n = 0 => NodesOf(h, f, i) = NodesOf(h, f, i - 1)
        /\ n # 0 => /\ NodesOf(h, f, i) = NodesOf(h, f, i - 1) \cup {n}
                    /\ n \in DOMAIN h.nodes /\ h.nodes[n].file = f /\ h.nodes[n].local = i - 1
    BY NodesOfAre
  <2> SUFFICES Done(next, i)
    OBVIOUS
  <2> HIDE DEF a, n, next
  <2>4. Len(a.graph.ids[file]) \in Nat
    <3>1. Intact(a.graph) /\ file \in DOMAIN a.graph.files
      BY <2>2 DEF Copying
    <3> HIDE DEF Done
    <3> QED BY <3>1, NodesOfAre
  <2>5. CASE n = 0
    BY <1>1, <2>1, <2>2, <2>3, <2>4, <2>5
  <2>6. CASE n # 0
    <3>1. /\ Copying(next, h) /\ next.outcome = a.outcome
          /\ next.graph.files = a.graph.files
          /\ \A k \in DOMAIN a.graph.files : k # file => next.graph.ids[k] = a.graph.ids[k]
          /\ Len(next.graph.ids[file]) = h.nodes[n].local + 1
          /\ Known(next) = Known(a) \cup {n}
          /\ \A b : Copies(a, h, b) => Copies(next, h, b)
      <4>1. /\ Copying(a, h) /\ n \in DOMAIN h.nodes /\ h.nodes[n].file = f
            /\ file \in DOMAIN a.graph.files /\ a.graph.files[file] = h.files[f]
            /\ Len(a.graph.ids[file]) <= h.nodes[n].local /\ next = CopiedNode(a, h, n)
        BY <2>1, <2>2, <2>3, <2>6
      <4> HIDE DEF Done
      <4> QED BY <4>1, CopiedNodeIs, CopiedNodeCopies
    <3> QED BY <1>1, <2>2, <2>3, <2>6, <3>1
  <2> QED BY <2>5, <2>6
<1> DEFINE T == {i \in 0..last : Done(after[i], i)}
<1> HIDE DEF Done, last
<1>5. Climbs(last, T)
  BY <1>1, <1>3, <1>4 DEF Climbs
<1>6. Done(after[last], last)
  <2> HIDE DEF T
  <2>1. last \in T
    BY <1>1, <1>5, UpTo
  <2> QED BY <2>1 DEF T
<1>7. CopiedNodes(acc, h, f) = after[last]
  BY <1>2, LoopsAre
<1>8. NodesOf(h, f, last) = {n \in DOMAIN h.nodes : h.nodes[n].file = f}
  BY NodesOfAre DEF last
<1> QED BY <1>6, <1>7, <1>8 DEF Done

(* An edge of h is there between the copies of its nodes. *)
Carried(acc, s, t) ==
  s \in Known(acc) /\ t \in Known(acc) /\ HasEdge(acc.graph, acc.known[s], acc.known[t])

LEMMA CopiedEdgeIs ==
  ASSUME NEW h, NEW acc, Copying(acc, h), NEW e, e.source \in Known(acc),
         Leads(h, e.source, e.sink, e.precedence)
  PROVE  LET next == CopiedEdge(acc, e)
         IN  /\ Copying(next, h) /\ Known(next) = Known(acc)
             /\ next.graph.files = acc.graph.files /\ next.graph.ids = acc.graph.ids
             /\ next.outcome \in {acc.outcome, "panicked"}
             /\ acc.outcome # "panicked" /\ e.sink \in Known(acc) => next.outcome = acc.outcome
             /\ next.outcome # "panicked" => acc.outcome # "panicked" /\ Carried(next, e.source, e.sink)
             /\ \A s, t : Carried(acc, s, t) => Carried(next, s, t)
             /\ \A b : Copies(acc, h, b) => Copies(next, h, b)
<1> DEFINE next == CopiedEdge(acc, e)
           panics == acc.outcome = "panicked" \/ e.sink \notin Known(acc)
<1>1. CASE panics
  <2>1. next = [acc EXCEPT !.outcome = "panicked"]
    BY <1>1 DEF CopiedEdge, Known
  <2> HIDE DEF next
  <2>2. /\ DOMAIN next = {"graph", "outcome", "known"} /\ next.graph = acc.graph
        /\ next.known = acc.known /\ next.outcome = "panicked"
    BY <2>1 DEF Copying
  <2>3. Copying(next, h) /\ Known(next) = Known(acc)
    BY <2>2 DEF Copying, Known
  <2>4. \A s, t : Carried(acc, s, t) => Carried(next, s, t)
    BY <2>2 DEF Carried, Known
  <2>5. \A b : Copies(acc, h, b) => Copies(next, h, b)
    BY <2>2 DEF Copies, Known
  <2> QED BY <1>1, <2>2, <2>3, <2>4, <2>5 DEF next
<1>2. CASE ~ panics
  <2> DEFINE old == acc.graph
             x == acc.known[e.source]
             y == acc.known[e.sink]
             g == WithEdge(old, x, y, e.precedence)
  <2>1. next = [acc EXCEPT !.graph = g]
    BY <1>2 DEF CopiedEdge, Known
  <2>2. /\ Intact(old) /\ x \in DOMAIN old.nodes /\ y \in DOMAIN old.nodes
        /\ DOMAIN acc = {"graph", "outcome", "known"}
    BY <1>2 DEF Copying, Known
  <2> HIDE DEF x, y, next
  <2>3. /\ Intact(g) /\ g.files = old.files /\ g.nodes = old.nodes /\ g.ids = old.ids
        /\ HasEdge(g, x, y)
        /\ \A u, v, p : Leads(old, u, v, p) => Leads(g, u, v, p)
    BY <2>2, WithEdgeIntact, WithEdgeLeads
  <2>4. ASSUME NEW b, Copies(acc, h, b)
        PROVE  /\ Extends(g, b) /\ g.notes = old.notes /\ g.info = old.info
               /\ \A u, v, p : Leads(g, u, v, p) =>
                    Leads(old, u, v, p) \/ (u = x /\ v = y /\ p = e.precedence)
               /\ \A n : SavedId(g, n) = SavedId(old, n)
    <3>1. Extends(old, b)
      BY <2>4 DEF Copies
    <3> HIDE DEF old
    <3> QED BY <2>2, <3>1, EdgeExtends
  <2> HIDE DEF g
  <2>5. /\ DOMAIN next = {"graph", "outcome", "known"} /\ next.graph = g
        /\ next.known = acc.known /\ next.outcome = acc.outcome
    BY <2>1, <2>2
  <2>6. Copying(next, h) /\ Known(next) = Known(acc)
    BY <2>3, <2>5 DEF Copying, Known
  <2>7. Carried(next, e.source, e.sink)
    BY <1>2, <2>3, <2>5, <2>6 DEF Carried, x, y
  <2>8. ASSUME NEW s, NEW t, Carried(acc, s, t) PROVE Carried(next, s, t)
    <3>1. acc.known[s] \in DOMAIN old.nodes /\ HasEdge(old, acc.known[s], acc.known[t])
      BY <2>8 DEF Carried, Copying, Known
    <3>2. PICK p : Leads(old, acc.known[s], acc.known[t], p)
      BY <2>2, <3>1, LeadsIs
    <3>3. HasEdge(g, acc.known[s], acc.known[t])
      BY <2>3, <3>2, LeadsIs
    <3> QED BY <2>5, <2>6, <2>8, <3>3 DEF Carried
  <2>9. ASSUME NEW b, Copies(acc, h, b) PROVE Copies(next, h, b)
    <3>1. /\ Extends(g, b) /\ g.notes = old.notes /\ g.info = old.info
          /\ \A u, v, p : Leads(g, u, v, p) =>
               Leads(old, u, v, p) \/ (u = x /\ v = y /\ p = e.precedence)
          /\ \A n : SavedId(g, n) = SavedId(old, n)
      BY <2>4, <2>9
    <3>2. ASSUME NEW u, NEW v, NEW p, Leads(g, u, v, p), ~ Leads(b, u, v, p)
          PROVE  \E s, t \in Known(acc) : u = acc.known[s] /\ v = acc.known[t] /\ Leads(h, s, t, p)
      <4>1. CASE Leads(old, u, v, p)
        BY <2>9, <3>2, <4>1 DEF Copies
      <4>2. CASE u = x /\ v = y /\ p = e.precedence
        BY <1>2, <4>2 DEF x, y
      <4> QED BY <3>1, <3>2, <4>1, <4>2
    <3>3. ASSUME NEW n \in Known(acc)
          PROVE  /\ Same(g, acc.known[n], h, n)
                 /\ ~ (n <= JUMP_TO) =>
                      /\ acc.known[n] \notin DOMAIN b.nodes
                      /\ g.nodes[acc.known[n]].payload = h.nodes[n].payload
                      /\ g.info[acc.known[n]] = Renamed(h.info[n])
      <4>1. /\ Same(old, acc.known[n], h, n)
            /\ ~ (n <= JUMP_TO) =>
                 /\ acc.known[n] \notin DOMAIN b.nodes
                 /\ old.nodes[acc.known[n]].payload = h.nodes[n].payload
                 /\ old.info[acc.known[n]] = Renamed(h.info[n])
        BY <2>9 DEF Copies
      <4> QED BY <2>3, <3>1, <4>1 DEF Same
    <3>4. /\ old.notes = b.notes /\ {ROOT, JUMP_TO} \subseteq Known(acc)
          /\ \A z \in DOMAIN old.nodes \ DOMAIN b.nodes : \E n \in Known(acc) : acc.known[n] = z
      BY <2>9 DEF Copies
    <3> HIDE DEF old
    <3> QED BY <2>3, <2>5, <2>6, <3>1, <3>2, <3>3, <3>4 DEF Copies
  <2> QED BY <1>2, <2>3, <2>5, <2>6, <2>7, <2>8, <2>9 DEF next
<1> QED BY <1>1, <1>2

LEMMA CopiedEdgesAre ==
  ASSUME NEW h, NEW acc, Copying(acc, h), NEW edges, IsSequence(edges),
         \A i \in 1..Len(edges) : /\ edges[i].source \in Known(acc)
                                  /\ Leads(h, edges[i].source, edges[i].sink, edges[i].precedence)
  PROVE  LET next == CopiedEdges(acc, edges)
         IN  /\ Copying(next, h) /\ Known(next) = Known(acc)
             /\ next.graph.files = acc.graph.files /\ next.graph.ids = acc.graph.ids
             /\ next.outcome \in {acc.outcome, "panicked"}
             /\ acc.outcome # "panicked" /\ (\A i \in 1..Len(edges) : edges[i].sink \in Known(acc))
                  => next.outcome = acc.outcome
             /\ next.outcome # "panicked" =>
                  \A i \in 1..Len(edges) : Carried(next, edges[i].source, edges[i].sink)
             /\ \A b : Copies(acc, h, b) => Copies(next, h, b)
<1> DEFINE last == Len(edges)
           Safe == acc.outcome # "panicked" /\ \A i \in 1..Len(edges) : edges[i].sink \in Known(acc)
           Done(a, k) ==
             /\ Copying(a, h) /\ Known(a) = Known(acc)
             /\ a.graph.files = acc.graph.files /\ a.graph.ids = acc.graph.ids
             /\ a.outcome \in {acc.outcome, "panicked"}
             /\ Safe => a.outcome = acc.outcome
             /\ a.outcome # "panicked" =>
                  \A i \in 1..k : Carried(a, edges[i].source, edges[i].sink)
             /\ \A b : Copies(acc, h, b) => Copies(a, h, b)
<1>1. last \in Nat
  BY SequenceIs
<1>2. PICK after :
        /\ after[0] = acc /\ CopiedEdges(acc, edges) = after[last]
        /\ \A i \in 1..last : after[i] = CopiedEdge(after[i - 1], edges[i])
  <2>1. IsSequence(edges)
    OBVIOUS
  <2> QED BY ONLY <2>1, CopiedEdgesLoop
<1>3. Done(after[0], 0)
  BY <1>2
<1>4. ASSUME NEW k \in 1..last, Done(after[k - 1], k - 1) PROVE Done(after[k], k)
  <2> DEFINE a == after[k - 1]
             e == edges[k]
             next == after[k]
  <2>1. next = CopiedEdge(a, e)
    BY <1>2
  <2>2. Done(a, k - 1)
    BY <1>4
  <2>3. \A i \in 1..k : i = k \/ i \in 1..k - 1
    BY <1>1
  <2> SUFFICES Done(next, k)
    OBVIOUS
  <2>4. Copying(a, h) /\ e.source \in Known(a) /\ Leads(h, e.source, e.sink, e.precedence)
    BY <2>2
  <2>5. acc.outcome # "panicked" /\ Safe => e.sink \in Known(a)
    BY <2>2
  <2> HIDE DEF a, next, e
  <2>6. /\ Copying(next, h) /\ Known(next) = Known(a)
        /\ next.graph.files = a.graph.files /\ next.graph.ids = a.graph.ids
        /\ next.outcome \in {a.outcome, "panicked"}
        /\ a.outcome # "panicked" /\ e.sink \in Known(a) => next.outcome = a.outcome
        /\ next.outcome # "panicked" => a.outcome # "panicked" /\ Carried(next, e.source, e.sink)
        /\ \A s, t : Carried(a, s, t) => Carried(next, s, t)
        /\ \A b : Copies(a, h, b) => Copies(next, h, b)
    BY ONLY <2>1, <2>4, CopiedEdgeIs
  <2>7. ASSUME next.outcome # "panicked", NEW i \in 1..k
        PROVE  Carried(next, edges[i].source, edges[i].sink)
    <3>1. CASE i = k
      BY <2>6, <2>7, <3>1 DEF e
    <3>2. CASE i \in 1..k - 1
      BY <2>2, <2>6, <2>7, <3>2
    <3> QED BY <2>3, <3>1, <3>2
  <2>8. \A b : Copies(acc, h, b) => Copies(next, h, b)
    BY <2>2, <2>6
  <2>9. /\ Known(next) = Known(acc)
        /\ next.graph.files = acc.graph.files /\ next.graph.ids = acc.graph.ids
        /\ next.outcome \in {acc.outcome, "panicked"}
        /\ Safe => next.outcome = acc.outcome
    BY <2>2, <2>5, <2>6
  <2> QED BY <2>6, <2>7, <2>8, <2>9
<1> DEFINE T == {k \in 0..last : Done(after[k], k)}
<1> HIDE DEF Done
<1>5. Climbs(last, T)
  BY <1>1, <1>3, <1>4 DEF Climbs
<1>6. Done(after[last], last)
  <2> HIDE DEF T, last
  <2>1. last \in T
    BY <1>1, <1>5, UpTo
  <2> QED BY <2>1 DEF T
<1> DEFINE next == CopiedEdges(acc, edges)
<1>7. Done(next, last)
  BY <1>2, <1>6
<1> HIDE DEF next
<1> QED BY ONLY <1>7 DEF Done, last, Safe, next

(* An injection of a finite set into itself reaches all of it. *)
LEMMA InjectionReaches ==
  ASSUME NEW S, IsFiniteSet(S), NEW f \in Injection(S, S), NEW k \in S
  PROVE  \E i \in S : f[i] = k
<1>1. f \in Surjection(S, S)
  BY FS_Injection
<1> QED BY <1>1 DEF Surjection

(* All edges of the nodes that are known have been copied. *)
Complete(acc, h) == \A s \in Known(acc) : \A t, p : Leads(h, s, t, p) => Carried(acc, s, t)

LEMMA CopiedFileIs ==
  ASSUME NEW h, Intact(h), NEW acc, Copying(acc, h), NEW f \in DOMAIN h.files,
         NEW file \in DOMAIN acc.graph.files, acc.graph.files[file] = h.files[f],
         Len(acc.graph.ids[file]) = 0
  PROVE  LET next == CopiedFile(acc, h, f)
         IN  /\ Copying(next, h) /\ next.graph.files = acc.graph.files
             /\ \A k \in DOMAIN acc.graph.files :
                  k # file => next.graph.ids[k] = acc.graph.ids[k]
             /\ Known(next) = Known(acc) \cup {n \in DOMAIN h.nodes : h.nodes[n].file = f}
             /\ next.outcome \in {acc.outcome, "panicked"}
             /\ acc.outcome # "panicked" /\ Known(next) = DOMAIN h.nodes
                  => next.outcome = acc.outcome
             /\ next.outcome # "panicked" => Complete(next, h)
             /\ \A b : Copies(acc, h, b) => Copies(next, h, b)
<1> DEFINE copied == CopiedNodes(acc, h, f)
           known == DOMAIN copied.known
           edges == EdgesOf(h, known)
           next == CopiedFile(acc, h, f)
<1>1. /\ Copying(copied, h) /\ copied.outcome = acc.outcome
      /\ copied.graph.files = acc.graph.files
      /\ \A k \in DOMAIN acc.graph.files : k # file => copied.graph.ids[k] = acc.graph.ids[k]
      /\ Known(copied) = Known(acc) \cup {n \in DOMAIN h.nodes : h.nodes[n].file = f}
      /\ \A b : Copies(acc, h, b) => Copies(copied, h, b)
  BY CopiedNodesAre
<1>2. next = CopiedEdges(copied, edges)
  BY LoopsAre DEF EdgesToCopy
<1>3. Known(copied) = known
  BY DEF Known
<1> HIDE DEF copied, next, known
<1>4. /\ IsSequence(edges)
      /\ \A i \in 1..Len(edges) :
           /\ edges[i] = [source |-> edges[i].source, sink |-> edges[i].sink,
                          precedence |-> edges[i].precedence]
           /\ edges[i].source \in known
           /\ Leads(h, edges[i].source, edges[i].sink, edges[i].precedence)
      /\ \A s \in known : \A t, p : Leads(h, s, t, p) =>
           \E i \in 1..Len(edges) : edges[i] = [source |-> s, sink |-> t, precedence |-> p]
  BY EdgesOfLead
<1>5. \A i \in 1..Len(edges) : edges[i].sink \in DOMAIN h.nodes
  BY <1>4, LeadsIs
<1> HIDE DEF edges
<1>6. /\ Copying(next, h) /\ Known(next) = Known(copied)
      /\ next.graph.files = copied.graph.files /\ next.graph.ids = copied.graph.ids
      /\ next.outcome \in {copied.outcome, "panicked"}
      /\ copied.outcome # "panicked" /\ (\A i \in 1..Len(edges) : edges[i].sink \in Known(copied))
           => next.outcome = copied.outcome
      /\ next.outcome # "panicked" =>
           \A i \in 1..Len(edges) : Carried(next, edges[i].source, edges[i].sink)
      /\ \A b : Copies(copied, h, b) => Copies(next, h, b)
  <2>1. \A i \in 1..Len(edges) : /\ edges[i].source \in Known(copied)
                                 /\ Leads(h, edges[i].source, edges[i].sink, edges[i].precedence)
    BY <1>3, <1>4
  <2>2. Copying(copied, h) /\ IsSequence(edges)
    BY <1>1, <1>4
  <2> QED BY ONLY <1>2, <2>1, <2>2, CopiedEdgesAre
<1>7. ASSUME next.outcome # "panicked", NEW s \in Known(next), NEW t, NEW p, Leads(h, s, t, p)
      PROVE  Carried(next, s, t)
  <2>1. PICK i \in 1..Len(edges) : edges[i] = [source |-> s, sink |-> t, precedence |-> p]
    BY <1>3, <1>4, <1>6, <1>7
  <2>2. edges[i].source = s /\ edges[i].sink = t
    BY <2>1
  <2> QED BY <1>6, <1>7, <2>2
<1> QED BY <1>1, <1>5, <1>6, <1>7 DEF next, Complete

(* Files are copied one after the other, in any order, and each of them to  *)
(* one that has no nodes yet.  An edge whose sink is not known is met only  *)
(* while another file is still to come.                                     *)
LEMMA CopiedFilesAre ==
  ASSUME NEW h, Intact(h), NEW acc, Copying(acc, h), acc.outcome = "ok",
         Known(acc) = {ROOT, JUMP_TO}, NEW before \in Nat,
         \A f \in DOMAIN h.files : /\ before + f \in DOMAIN acc.graph.files
                                   /\ acc.graph.files[before + f] = h.files[f]
                                   /\ Len(acc.graph.ids[before + f]) = 0,
         NEW order \in [DOMAIN h.files -> DOMAIN h.files], IsInjective(order)
  PROVE  LET next == CopiedFiles(acc, h, order)
         IN  /\ Copying(next, h) /\ next.outcome \in {"ok", "panicked"}
             /\ next.outcome = "panicked" => Len(h.files) > 1
             /\ Known(next) = DOMAIN h.nodes
             /\ next.outcome = "ok" => DOMAIN h.files = {} \/ Complete(next, h)
             /\ \A b : Copies(acc, h, b) => Copies(next, h, b)
<1> DEFINE last == Len(order)
           Passed(i) == {n \in DOMAIN h.nodes : \E k \in 1..i : h.nodes[n].file = order[k]}
           Done(a, i) ==
             /\ Copying(a, h) /\ a.graph.files = acc.graph.files
             /\ Known(a) = {ROOT, JUMP_TO} \cup Passed(i)
             /\ \A k \in 1..last : k > i => Len(a.graph.ids[before + order[k]]) = 0
             /\ a.outcome \in {"ok", "panicked"}
             /\ a.outcome = "panicked" => Len(h.files) > 1
             /\ a.outcome = "ok" => i = 0 \/ Complete(a, h)
             /\ \A b : Copies(acc, h, b) => Copies(a, h, b)
<1>1. FilesIntact(h) /\ NodesIntact(h)
  BY IntactIs
<1>2. DOMAIN h.files = 1..Len(h.files) /\ Len(h.files) \in Nat
  BY <1>1, SequenceIs DEF FilesIntact
<1>3. IsSequence(order) /\ last = Len(h.files)
  <2>1. order = [i \in 1..Len(h.files) |-> order[i]]
    BY <1>2
  <2> QED BY <1>2, <2>1, FunctionIsSequence
<1>4. /\ Passed(0) = {}
      /\ \A i \in 1..last : Passed(i) = Passed(i - 1) \cup {n \in DOMAIN h.nodes : h.nodes[n].file = order[i]}
  <2>1. \A i \in 1..last : \A k \in 1..i : k = i \/ k \in 1..i - 1
    BY <1>2, <1>3
  <2>2. \A i \in 1..last : i \in 1..i /\ \A k \in 1..i - 1 : k \in 1..i
    BY <1>2, <1>3
  <2> HIDE DEF last
  <2> QED BY <2>1, <2>2
<1>5. ASSUME NEW n \in DOMAIN h.nodes PROVE n \in {ROOT, JUMP_TO} \/ h.nodes[n].file \in DOMAIN h.files
  <2>1. n <= JUMP_TO => n \in {ROOT, JUMP_TO}
    BY SavedIdOf
  <2> QED BY <2>1, SavedIdOf
<1> HIDE DEF last
<1>6. PICK after :
        /\ after[0] = acc /\ CopiedFiles(acc, h, order) = after[last]
        /\ \A i \in 1..last : after[i] = CopiedFile(after[i - 1], h, order[i])
  BY <1>3, CopiedFilesLoop DEF last
<1>7. Done(after[0], 0)
  <2> HIDE DEF Passed
  <2> QED BY <1>2, <1>3, <1>4, <1>6
<1>8. ASSUME NEW i \in 1..last, Done(after[i - 1], i - 1) PROVE Done(after[i], i)
  <2> DEFINE a == after[i - 1]
             f == order[i]
             file == before + f
             next == after[i]
  <2>1. next = CopiedFile(a, h, f)
    BY <1>6
  <2>2. Done(a, i - 1)
    BY <1>8
  <2>3. f \in DOMAIN h.files /\ Len(a.graph.ids[file]) = 0 /\ file \in DOMAIN a.graph.files
        /\ a.graph.files[file] = h.files[f]
    <3>1. i \in DOMAIN h.files /\ i > i - 1
      BY <1>2, <1>3
    <3>2. f \in DOMAIN h.files
      BY <3>1
    <3>3. Len(a.graph.ids[file]) = 0
      BY <2>2, <3>1
    <3> QED BY <2>2, <3>2, <3>3
  <2>4. ASSUME NEW k \in 1..last, k > i
        PROVE  before + order[k] # file /\ before + order[k] \in DOMAIN a.graph.files
    <3>1. k \in DOMAIN h.files /\ i \in DOMAIN h.files /\ k # i
      BY <1>2, <1>3, <2>4
    <3>2. order[k] # order[i]
      BY <3>1 DEF IsInjective
    <3>3. order[k] \in DOMAIN h.files
      BY <3>1
    <3> QED BY <1>2, <2>2, <2>3, <3>2, <3>3
  <2> SUFFICES Done(next, i)
    OBVIOUS
  <2>5. Passed(i) = Passed(i - 1) \cup {n \in DOMAIN h.nodes : h.nodes[n].file = f}
    BY <1>4
  <2> HIDE DEF a, f, next, Passed
  <2>6. /\ Copying(next, h) /\ next.graph.files = a.graph.files
        /\ \A k \in DOMAIN a.graph.files : k # file => next.graph.ids[k] = a.graph.ids[k]
        /\ Known(next) = Known(a) \cup {n \in DOMAIN h.nodes : h.nodes[n].file = f}
        /\ next.outcome \in {a.outcome, "panicked"}
        /\ a.outcome # "panicked" /\ Known(next) = DOMAIN h.nodes => next.outcome = a.outcome
        /\ next.outcome # "panicked" => Complete(next, h)
        /\ \A b : Copies(a, h, b) => Copies(next, h, b)
    <3>1. Copying(a, h)
      BY <2>2
    <3> HIDE DEF Done, file
    <3> QED BY <2>1, <2>3, <3>1, CopiedFileIs
  <2>7. ASSUME NEW k \in 1..last, k > i PROVE Len(next.graph.ids[before + order[k]]) = 0
    <3>1. k > i - 1
      BY <1>2, <1>3, <2>7
    <3>2. Len(a.graph.ids[before + order[k]]) = 0
      BY <2>2, <3>1
    <3> QED BY <2>4, <2>6, <2>7, <3>2
  <2>8. ASSUME next.outcome = "panicked" PROVE Len(h.files) > 1
    <3>1. SUFFICES ASSUME Len(h.files) <= 1 PROVE Known(next) = DOMAIN h.nodes
      BY <1>2, <2>2, <2>6, <2>8
    <3>2. DOMAIN h.files = {f}
      BY <1>2, <2>3, <3>1
    <3>3. \A n \in DOMAIN h.nodes : n \in Known(next)
      BY <1>5, <2>2, <2>6, <3>2
    <3>4. Known(next) \subseteq DOMAIN h.nodes
      BY <2>6 DEF Copying, Known
    <3> QED BY <3>3, <3>4
  <2>9. /\ Known(next) = {ROOT, JUMP_TO} \cup Passed(i)
        /\ \A b : Copies(acc, h, b) => Copies(next, h, b)
    BY <2>2, <2>5, <2>6
  <2> QED BY <2>2, <2>6, <2>7, <2>8, <2>9
<1> DEFINE T == {i \in 0..last : Done(after[i], i)}
<1> HIDE DEF Done
<1>9. Climbs(last, T)
  BY <1>2, <1>3, <1>7, <1>8 DEF Climbs
<1>10. Done(after[last], last)
  <2> HIDE DEF T
  <2>1. last \in T
    BY <1>2, <1>3, <1>9, UpTo
  <2> QED BY <2>1 DEF T
<1> DEFINE next == CopiedFiles(acc, h, order)
<1>11. Done(next, last)
  BY <1>6, <1>10
<1> HIDE DEF next
<1>12. Known(next) = DOMAIN h.nodes
  <2>1. Known(next) \subseteq DOMAIN h.nodes /\ Known(next) = {ROOT, JUMP_TO} \cup Passed(last)
    BY <1>11 DEF Done, Copying, Known
  <2>2. ASSUME NEW n \in DOMAIN h.nodes, h.nodes[n].file \in DOMAIN h.files PROVE n \in Passed(last)
    <3>1. order \in Injection(DOMAIN h.files, DOMAIN h.files)
      BY DEF Injection
    <3>2. IsFiniteSet(DOMAIN h.files)
      BY <1>2, FS_Interval
    <3>3. \E k \in DOMAIN h.files : order[k] = h.nodes[n].file
      BY <2>2, <3>1, <3>2, InjectionReaches
    <3> QED BY <1>2, <1>3, <3>3
  <2> QED BY <1>5, <2>1, <2>2
<1>13. last = 0 => DOMAIN h.files = {}
  BY <1>2, <1>3
<1> QED BY <1>11, <1>12, <1>13 DEF Done, next

(* The files that are added have names of their own, and the nodes that     *)
(* were there keep their ids.                                               *)
LEMMA FilesAddedAre ==
  ASSUME NEW g, Intact(g), NEW b, Intact(b), SameNodes(g, b),
         NEW names, IsSequence(names), FilesAdded(g, b, names, Len(names))
  PROVE  /\ ToSet(g.files) \cap ToSet(names) = {}
         /\ ToSet(names) \subseteq ToSet(b.files)
         /\ \A n \in DOMAIN g.nodes : SavedId(b, n) = SavedId(g, n)
         /\ \A s, t, p : Leads(b, s, t, p) <=> Leads(g, s, t, p)
<1>1. /\ IsSequence(g.files) /\ IsSequence(b.files) /\ IsInjective(b.files)
  BY IntactIs DEF FilesIntact
<1>2. /\ DOMAIN g.files = 1..Len(g.files) /\ Len(g.files) \in Nat
      /\ DOMAIN names = 1..Len(names) /\ Len(names) \in Nat
      /\ DOMAIN b.files = 1..Len(g.files) + Len(names)
  BY <1>1, SequenceIs DEF FilesAdded
<1>3. ASSUME NEW i \in DOMAIN names
      PROVE  /\ Len(g.files) + i \in DOMAIN b.files /\ b.files[Len(g.files) + i] = names[i]
             /\ Len(g.files) + i \notin DOMAIN g.files
  <2>1. \A m, n \in Nat : \A j \in 1..n : m + j \in 1..m + n /\ m + j \notin 1..m
    OBVIOUS
  <2> QED BY <1>2, <2>1 DEF FilesAdded
<1>4. ASSUME NEW f \in DOMAIN g.files PROVE f \in DOMAIN b.files /\ b.files[f] = g.files[f]
  <2>1. f \in 1..Len(g.files) + Len(names)
    BY <1>2
  <2> QED BY <1>2, <2>1 DEF FilesAdded
<1>5. ASSUME NEW f \in DOMAIN g.files, NEW i \in DOMAIN names PROVE g.files[f] # names[i]
  BY <1>1, <1>3, <1>4 DEF IsInjective
<1>6. ASSUME NEW n \in DOMAIN g.nodes PROVE SavedId(b, n) = SavedId(g, n)
  <2>1. b.nodes[n] = g.nodes[n]
    BY DEF SameNodes
  <2>2. g.nodes[n].file = 0 \/ g.nodes[n].file \in DOMAIN g.files
    BY SavedIdOf
  <2> QED BY <1>4, <2>1, <2>2 DEF SavedId
<1>7. \A s, t, p : Leads(b, s, t, p) <=> Leads(g, s, t, p)
  BY DEF Leads, SameNodes
<1> QED BY <1>3, <1>5, <1>6, <1>7 DEF ToSet

(* A graph to which all of h has been copied. *)
IsCopy(k, h, b) ==
  \E acc : /\ acc.graph = k /\ Copying(acc, h) /\ Copies(acc, h, b)
           /\ Known(acc) = DOMAIN h.nodes
           /\ DOMAIN h.files = {} \/ Complete(acc, h)

(* The new part of a copy is what the other graph contains. *)
LEMMA CopyMirrors ==
  ASSUME NEW g, Intact(g), Described(g), NEW h, Intact(h), NEW b, Intact(b), SameNodes(g, b),
         FilesAdded(g, b, h.files, Len(h.files)), NEW k, IsCopy(k, h, b)
  PROVE  Mirrors(k, h, ToSet(h.files), [n \in DOMAIN h.nodes |-> Renamed(h.info[n])], {})
<1> DEFINE names == ToSet(h.files)
           info == [n \in DOMAIN h.nodes |-> Renamed(h.info[n])]
<1>1. PICK acc : /\ acc.graph = k /\ Copying(acc, h) /\ Copies(acc, h, b)
                 /\ Known(acc) = DOMAIN h.nodes
                 /\ DOMAIN h.files = {} \/ Complete(acc, h)
  BY DEF IsCopy
<1> DEFINE copy(n) == acc.known[n]
<1>2. /\ Intact(k) /\ Extends(k, b) /\ k.notes = b.notes
      /\ \A n \in DOMAIN h.nodes : Same(k, copy(n), h, n)
      /\ \A n \in DOMAIN h.nodes : ~ (n <= JUMP_TO) =>
           /\ copy(n) \notin DOMAIN b.nodes
           /\ k.nodes[copy(n)].payload = h.nodes[n].payload
           /\ k.info[copy(n)] = Renamed(h.info[n])
      /\ \A x \in DOMAIN k.nodes \ DOMAIN b.nodes : \E n \in DOMAIN h.nodes : copy(n) = x
      /\ \A x, y, p : Leads(k, x, y, p) =>
           \/ Leads(b, x, y, p)
           \/ \E s, t \in DOMAIN h.nodes : x = copy(s) /\ y = copy(t) /\ Leads(h, s, t, p)
  BY <1>1 DEF Copies, Extends
<1>3. /\ ToSet(g.files) \cap names = {}
      /\ \A n \in DOMAIN b.nodes : SavedId(b, n) = SavedId(g, n)
  <2>1. IsSequence(h.files) /\ b.nodes = g.nodes
    BY IntactIs DEF FilesIntact, SameNodes
  <2> QED BY <2>1, FilesAddedAre
<1>4. \A n \in DOMAIN b.nodes : /\ n \in DOMAIN k.nodes /\ k.nodes[n] = b.nodes[n]
                                /\ SavedId(k, n) = SavedId(b, n)
  <2>1. k.files = b.files /\ \A n \in DOMAIN b.nodes : n \in DOMAIN k.nodes /\ k.nodes[n] = b.nodes[n]
    BY <1>2 DEF Extends
  <2> QED BY <2>1, SavedIdSame
<1>5. ASSUME NEW x, NEW n, Same(k, x, h, n) PROVE x = copy(n) /\ n \in DOMAIN h.nodes
  <2>1. /\ x \in DOMAIN k.nodes /\ n \in DOMAIN h.nodes /\ SavedId(k, x) = SavedId(h, n)
        /\ copy(n) \in DOMAIN k.nodes /\ SavedId(k, copy(n)) = SavedId(h, n)
    BY <1>2, <1>5 DEF Same
  <2> QED BY <1>2, <2>1, SavedIdUnique
<1>6. ASSUME NEW x \in DOMAIN k.nodes, IncludesNode(k, names, x) PROVE \E n : Same(k, x, h, n)
  <2>1. CASE x \notin DOMAIN b.nodes
    BY <1>2, <2>1
  <2>2. CASE x \in DOMAIN b.nodes
    <3>1. x \in DOMAIN g.nodes /\ SavedId(k, x) = SavedId(g, x)
      BY <1>3, <1>4, <2>2 DEF SameNodes
    <3>2. x <= JUMP_TO
      <4> SUFFICES ASSUME ~ (x <= JUMP_TO) PROVE FALSE
        OBVIOUS
      <4>1. /\ g.nodes[x].file \in DOMAIN g.files
            /\ SavedId(g, x).file = {g.files[g.nodes[x].file]}
        BY <3>1, SavedIdOf
      <4>2. g.files[g.nodes[x].file] \in names
        BY <1>6, <3>1, <4>1 DEF IncludesNode
      <4>3. g.files[g.nodes[x].file] \in ToSet(g.files)
        BY <4>1 DEF ToSet
      <4> QED BY <1>3, <4>2, <4>3
    <3>3. x \in {ROOT, JUMP_TO} /\ SavedId(k, x) = [file |-> {}, local |-> x]
      BY <1>2, <3>2, SavedIdOf
    <3>4. x \in DOMAIN h.nodes
      BY <1>1, <3>3 DEF Copies
    <3>5. SavedId(h, x) = [file |-> {}, local |-> x]
      BY <3>2, <3>4, SavedIdOf
    <3> QED BY <3>3, <3>4, <3>5 DEF Same
  <2> QED BY <2>1, <2>2
<1>7. ASSUME NEW s \in DOMAIN h.nodes, NEW t \in DOMAIN h.nodes, ~ (s <= JUMP_TO /\ t <= JUMP_TO)
      PROVE  /\ copy(s) \notin DOMAIN b.nodes \/ copy(t) \notin DOMAIN b.nodes
             /\ \A p : ~ Leads(b, copy(s), copy(t), p)
             /\ DOMAIN h.files # {}
  <2>1. copy(s) \notin DOMAIN b.nodes \/ copy(t) \notin DOMAIN b.nodes
    BY <1>2, <1>7
  <2>2. \A p : Leads(b, copy(s), copy(t), p) => copy(s) \in DOMAIN b.nodes /\ copy(t) \in DOMAIN b.nodes
    BY LeadsIs
  <2>3. DOMAIN h.files # {}
    BY <1>7, SavedIdOf
  <2> QED BY <2>1, <2>2, <2>3
<1>8. ASSUME NEW x, NEW y, NEW s, NEW t, Same(k, x, h, s), Same(k, y, h, t), Here(h, names, s, t),
             NEW p
      PROVE  /\ Leads(k, x, y, p) <=> Leads(h, s, t, p)
             /\ ~ (<<x, y>> \in k.notes)
  <2>1. x = copy(s) /\ y = copy(t) /\ s \in DOMAIN h.nodes /\ t \in DOMAIN h.nodes
    BY <1>5, <1>8
  <2>2. /\ x \notin DOMAIN b.nodes \/ y \notin DOMAIN b.nodes
        /\ \A q : ~ Leads(b, x, y, q)
        /\ DOMAIN h.files # {}
    BY <1>7, <1>8, <2>1 DEF Here
  <2>3. \A q : Leads(k, x, y, q) => Leads(h, s, t, q)
    <3>1. ASSUME NEW q, Leads(k, x, y, q) PROVE Leads(h, s, t, q)
      <4>1. PICK u \in DOMAIN h.nodes, v \in DOMAIN h.nodes :
              x = copy(u) /\ y = copy(v) /\ Leads(h, u, v, q)
        BY <1>2, <2>2, <3>1
      <4>2. \A m, n \in DOMAIN h.nodes : copy(m) = copy(n) => m = n
        BY <1>2, SavedIdUnique DEF Same
      <4> QED BY <2>1, <4>1, <4>2
    <3> QED BY <3>1
  <2>4. ASSUME Leads(h, s, t, p) PROVE Leads(k, x, y, p)
    <3>1. Carried(acc, s, t)
      BY <1>1, <2>1, <2>2, <2>4 DEF Complete
    <3>2. HasEdge(k, x, y) /\ x \in DOMAIN k.nodes
      BY <1>1, <1>8, <2>1, <3>1 DEF Carried, Same
    <3>3. PICK q : Leads(k, x, y, q)
      BY <1>2, <3>2, LeadsIs
    <3>4. p = q
      BY <2>3, <2>4, <3>3, LeadsIs
    <3> QED BY <3>3, <3>4
  <2>5. ~ (<<x, y>> \in k.notes)
    <3>1. k.notes = g.notes /\ g.notes \subseteq (DOMAIN b.nodes) \X (DOMAIN b.nodes)
      BY <1>2 DEF SameNodes, Described
    <3> QED BY <2>2, <3>1
  <2> QED BY <2>3, <2>4, <2>5
<1>9. ASSUME NEW x, NEW n, Same(k, x, h, n), ~ (n <= JUMP_TO)
      PROVE  k.nodes[x].payload = h.nodes[n].payload /\ k.info[x] = info[n]
  <2>1. x = copy(n) /\ n \in DOMAIN h.nodes
    BY <1>5, <1>9
  <2> QED BY <1>2, <1>9, <2>1
<1>10. \A n \in DOMAIN h.nodes : \E x : Same(k, x, h, n)
  BY <1>2
<1> HIDE DEF names, info, copy
<1>11. \A x, n : Same(k, x, h, n) /\ IncludesNode(h, names, n) /\ ~ (n <= JUMP_TO) =>
         k.nodes[x].payload = h.nodes[n].payload /\ k.info[x] = info[n]
  BY <1>9
<1>12. \A x, y, s, t : Same(k, x, h, s) /\ Same(k, y, h, t) /\ Here(h, names, s, t) =>
         \A p : /\ Leads(k, x, y, p) <=> Leads(h, s, t, p)
                /\ Leads(h, s, t, p) => (<<x, y>> \in k.notes <=> <<s, t>> \in {})
  BY <1>8
<1> QED BY <1>6, <1>10, <1>11, <1>12 DEF Mirrors, names, info

(* The old part of a copy is what it was. *)
LEMMA CopyKeeps ==
  ASSUME NEW g, Intact(g), Described(g), NEW h, Intact(h), NEW b, Intact(b), SameNodes(g, b),
         FilesAdded(g, b, h.files, Len(h.files)), NEW k, IsCopy(k, h, b)
  PROVE  Mirrors(k, g, ToSet(g.files), g.info, g.notes)
<1> DEFINE names == ToSet(g.files)
<1>1. PICK acc : /\ acc.graph = k /\ Copying(acc, h) /\ Copies(acc, h, b)
                 /\ Known(acc) = DOMAIN h.nodes
                 /\ DOMAIN h.files = {} \/ Complete(acc, h)
  BY DEF IsCopy
<1> DEFINE copy(n) == acc.known[n]
<1>2. /\ Intact(k) /\ Extends(k, b) /\ k.notes = b.notes
      /\ \A n \in DOMAIN h.nodes : Same(k, copy(n), h, n)
      /\ \A n \in DOMAIN h.nodes : ~ (n <= JUMP_TO) => copy(n) \notin DOMAIN b.nodes
      /\ \A x \in DOMAIN k.nodes \ DOMAIN b.nodes : \E n \in DOMAIN h.nodes : copy(n) = x
      /\ \A x, y, p : Leads(k, x, y, p) =>
           \/ Leads(b, x, y, p)
           \/ \E s, t \in DOMAIN h.nodes : x = copy(s) /\ y = copy(t) /\ Leads(h, s, t, p)
  BY <1>1 DEF Copies, Extends
<1>3. /\ names \cap ToSet(h.files) = {}
      /\ \A n \in DOMAIN b.nodes : SavedId(b, n) = SavedId(g, n)
      /\ \A s, t, p : Leads(b, s, t, p) <=> Leads(g, s, t, p)
      /\ b.nodes = g.nodes /\ b.info = g.info /\ k.notes = g.notes
  <2>1. IsSequence(h.files) /\ b.nodes = g.nodes /\ b.info = g.info /\ b.notes = g.notes
    BY IntactIs DEF FilesIntact, SameNodes
  <2> QED BY <1>2, <2>1, FilesAddedAre
<1>4. \A n \in DOMAIN g.nodes : /\ n \in DOMAIN k.nodes /\ k.nodes[n] = g.nodes[n]
                                /\ k.info[n] = g.info[n]
                                /\ SavedId(k, n) = SavedId(g, n)
  BY <1>2, <1>3, SavedIdSame DEF Extends
<1>5. ASSUME NEW x, NEW n, Same(k, x, g, n) PROVE x = n /\ n \in DOMAIN g.nodes
  <2>1. /\ x \in DOMAIN k.nodes /\ n \in DOMAIN g.nodes /\ SavedId(k, x) = SavedId(g, n)
        /\ n \in DOMAIN k.nodes /\ SavedId(k, n) = SavedId(g, n)
    BY <1>4, <1>5 DEF Same
  <2> QED BY <1>2, <2>1, SavedIdUnique
<1>6. ASSUME NEW x \in DOMAIN k.nodes, IncludesNode(k, names, x) PROVE \E n : Same(k, x, g, n)
  <2>1. CASE x \in DOMAIN g.nodes
    BY <1>4, <2>1 DEF Same
  <2>2. CASE x \notin DOMAIN g.nodes
    <3>1. PICK n \in DOMAIN h.nodes : copy(n) = x
      BY <1>2, <1>3, <2>2
    <3>2. SavedId(k, x) = SavedId(h, n)
      BY <1>2, <3>1 DEF Same
    <3>3. CASE n <= JUMP_TO
      <4>1. n \in {ROOT, JUMP_TO}
        BY <3>3, SavedIdOf
      <4>2. n \in DOMAIN g.nodes /\ SavedId(h, n) = [file |-> {}, local |-> n]
        <5>1. IsSequence(g.nodes) /\ Len(g.nodes) >= JUMP_TO
          BY IntactIs DEF NodesIntact
        <5>2. DOMAIN g.nodes = 1..Len(g.nodes) /\ Len(g.nodes) \in Nat
          BY <5>1, SequenceIs
        <5> QED BY <3>3, <4>1, <5>1, <5>2, SavedIdOf DEF ROOT, JUMP_TO
      <4>3. SavedId(g, n) = [file |-> {}, local |-> n]
        BY <3>3, <4>2, SavedIdOf
      <4> QED BY <3>2, <4>2, <4>3 DEF Same
    <3>4. CASE ~ (n <= JUMP_TO)
      <4>1. /\ h.nodes[n].file \in DOMAIN h.files
            /\ SavedId(h, n).file = {h.files[h.nodes[n].file]}
        BY <3>4, SavedIdOf
      <4>2. h.files[h.nodes[n].file] \in names
        BY <1>6, <3>2, <4>1 DEF IncludesNode
      <4>3. h.files[h.nodes[n].file] \in ToSet(h.files)
        BY <4>1 DEF ToSet
      <4> QED BY <1>3, <4>2, <4>3
    <3> QED BY <3>3, <3>4
  <2> QED BY <2>1, <2>2
<1>7. ASSUME NEW s, NEW t, Here(g, names, s, t), s \in DOMAIN g.nodes, t \in DOMAIN g.nodes, NEW p
      PROVE  Leads(k, s, t, p) <=> Leads(g, s, t, p)
  <2>1. Leads(g, s, t, p) => Leads(k, s, t, p)
    BY <1>2, <1>3 DEF Extends
  <2>2. ASSUME Leads(k, s, t, p), ~ Leads(g, s, t, p) PROVE FALSE
    <3>1. PICK u \in DOMAIN h.nodes, v \in DOMAIN h.nodes : s = copy(u) /\ t = copy(v)
      BY <1>2, <1>3, <2>2
    <3>2. u <= JUMP_TO /\ v <= JUMP_TO
      BY <1>2, <1>3, <1>7, <3>1
    <3>3. ASSUME NEW n \in DOMAIN h.nodes, n <= JUMP_TO PROVE copy(n) <= JUMP_TO
      <4>1. copy(n) \in DOMAIN k.nodes /\ SavedId(k, copy(n)) = SavedId(h, n)
        BY <1>2 DEF Same
      <4>2. SavedId(h, n).file = {}
        BY <3>3, SavedIdOf
      <4> QED BY <1>2, <4>1, <4>2, SavedIdOf
    <3> QED BY <1>7, <3>1, <3>2, <3>3 DEF Here
  <2> QED BY <2>1, <2>2
<1>8. \A n \in DOMAIN g.nodes : \E x : Same(k, x, g, n)
  BY <1>4 DEF Same
<1> HIDE DEF names, copy
<1>9. \A x, n : Same(k, x, g, n) => k.nodes[x].payload = g.nodes[n].payload /\ k.info[x] = g.info[n]
  BY <1>4, <1>5
<1>10. \A x, y, s, t : Same(k, x, g, s) /\ Same(k, y, g, t) /\ Here(g, names, s, t) =>
         \A p : /\ Leads(k, x, y, p) <=> Leads(g, s, t, p)
                /\ Leads(g, s, t, p) => (<<x, y>> \in k.notes <=> <<s, t>> \in g.notes)
  BY <1>3, <1>5, <1>7
<1> QED BY <1>6, <1>8, <1>9, <1>10 DEF Mirrors, names

LEMMA SingletonsIn ==
  ASSUME NEW g, Intact(g)
  PROVE  {ROOT, JUMP_TO} \subseteq DOMAIN g.nodes
<1>1. IsSequence(g.nodes) /\ Len(g.nodes) >= JUMP_TO
  BY IntactIs DEF NodesIntact
<1>2. Len(g.nodes) \in Nat /\ DOMAIN g.nodes = 1..Len(g.nodes)
  BY <1>1, SequenceIs
<1> QED BY <1>1, <1>2 DEF ROOT, JUMP_TO

(* What is said of copies *)
LEMMA CopiesDescribed ==
  ASSUME NEW h, Intact(h), Described(h), NEW b, Intact(b), Described(b), NEW acc, Copying(acc, h), Copies(acc, h, b)
  PROVE  Described(acc.graph)
<1> DEFINE k == acc.graph
<1>1. /\ Extends(k, b) /\ k.notes = b.notes /\ Known(acc) \subseteq DOMAIN h.nodes
      /\ \A n \in Known(acc) : Same(k, acc.known[n], h, n)
  BY DEF Copies, Copying, Known
<1>2. /\ IsSequence(k.info) /\ Len(k.info) = Len(k.nodes)
      /\ \A n \in DOMAIN b.nodes : n \in DOMAIN k.nodes /\ k.info[n] = b.info[n]
  BY <1>1 DEF Extends
<1>3. k.notes \subseteq (DOMAIN k.nodes) \X (DOMAIN k.nodes)
  BY <1>1, <1>2 DEF Described
<1>4. ASSUME NEW x \in DOMAIN k.nodes, NEW info \in k.info[x]
      PROVE  DOMAIN info = {"span", "line", "name", "definiens"}
  <2>1. CASE x \in DOMAIN b.nodes
    BY <1>2, <1>4, <2>1 DEF Described
  <2>2. CASE x \notin DOMAIN b.nodes
    <3>1. PICK n \in Known(acc) : acc.known[n] = x
      BY <2>2 DEF Copies
    <3>2. CASE n <= JUMP_TO
      <4>1. Intact(k) /\ x \in DOMAIN k.nodes /\ n \in DOMAIN h.nodes /\ SavedId(k, x) = SavedId(h, n)
        BY <1>1, <3>1 DEF Extends, Same
      <4>2. x <= JUMP_TO
        BY <3>2, <4>1, SavedIdOf
      <4>3. x \in DOMAIN b.nodes
        BY <1>1, <4>1, <4>2, SavedIdOf, SingletonsIn
      <4> QED BY <2>2, <4>3
    <3>3. CASE ~ (n <= JUMP_TO)
      <4>1. k.info[x] = Renamed(h.info[n])
        BY <3>1, <3>3 DEF Copies
      <4>2. PICK i \in h.info[n] : info = [i EXCEPT !.name = "none"]
        BY <1>4, <4>1 DEF Renamed
      <4>3. DOMAIN i = {"span", "line", "name", "definiens"}
        BY <1>1, <3>1, <4>2 DEF Described
      <4> QED BY <4>2, <4>3
    <3> QED BY <3>2, <3>3
  <2> QED BY <2>1, <2>2
<1> QED BY <1>2, <1>3, <1>4 DEF Described

LEMMA CopiedIs ==
  ASSUME NEW g, Intact(g), NEW h, Intact(h),
         NEW order \in [DOMAIN h.files -> DOMAIN h.files], IsInjective(order)
  PROVE  LET result == Copied(g, h, order)
         IN  /\ Intact(result.graph)
             /\ result.outcome = "panicked" => Len(h.files) > 1
             /\ result.outcome = "failed" =>
                  OnlyNodesAdded(g, result.graph) /\ result.graph.nodes = g.nodes
             /\ Described(g) /\ Described(h) => Described(result.graph)
             /\ Described(g) /\ result.outcome = "ok" =>
                  \E b : /\ Intact(b) /\ SameNodes(g, b) /\ FilesAdded(g, b, h.files, Len(h.files))
                         /\ IsCopy(result.graph, h, b)
<1> DEFINE start == WithFiles(g, h.files)
           acc == [graph |-> start.graph, outcome |-> "ok", known |-> KnownAtFirst(h)]
           copied == CopiedFiles(acc, h, order)
           result == Copied(g, h, order)
<1>1. IsSequence(h.files) /\ Len(h.files) \in Nat /\ DOMAIN h.files = 1..Len(h.files)
      /\ IsSequence(g.files) /\ Len(g.files) \in Nat
  BY IntactIs, SequenceIs DEF FilesIntact
<1>2. /\ Intact(start.graph) /\ SameNodes(g, start.graph)
      /\ start.outcome \in {"ok", "failed"}
      /\ start.outcome = "ok" => FilesAdded(g, start.graph, h.files, Len(h.files))
      /\ OnlyNodesAdded(g, start.graph) /\ start.graph.nodes = g.nodes
  BY <1>1, WithFilesIs, FilesAddedLeave
<1>3. result = IF start.outcome = "failed" THEN start ELSE Result(copied.graph, copied.outcome)
  BY DEF Copied, CopiedFiles
<1> HIDE DEF start, copied, result
<1>4. CASE start.outcome = "failed"
  <2>1. Described(g) => Described(start.graph)
    BY <1>2 DEF SameNodes, Described
  <2> QED BY <1>2, <1>3, <1>4, <2>1 DEF result
<1>5. CASE start.outcome # "failed"
  <2>1. /\ acc.graph = start.graph /\ acc.outcome = "ok" /\ acc.known = KnownAtFirst(h)
        /\ DOMAIN acc = {"graph", "outcome", "known"}
    OBVIOUS
  <2> HIDE DEF acc
  <2>2. Known(acc) = {ROOT, JUMP_TO} /\ \A n \in {ROOT, JUMP_TO} : acc.known[n] = n
    BY <2>1 DEF Known, KnownAtFirst
  <2>3. \A x : Intact(x) => {ROOT, JUMP_TO} \subseteq DOMAIN x.nodes
    BY SingletonsIn
  <2>4. Copying(acc, h)
    BY <1>2, <2>1, <2>2, <2>3 DEF Copying, Known
  <2>5. ASSUME NEW f \in DOMAIN h.files
        PROVE  LET k == Len(g.files) + f
               IN  /\ k \in DOMAIN acc.graph.files /\ acc.graph.files[k] = h.files[f]
                   /\ Len(acc.graph.ids[k]) = 0
    <3>1. FilesAdded(g, start.graph, h.files, Len(h.files))
      BY <1>2, <1>5
    <3>2. IsSequence(start.graph.files)
      BY <1>2, IntactIs DEF FilesIntact
    <3>3. DOMAIN start.graph.files = 1..Len(g.files) + Len(h.files)
      BY <3>1, <3>2, SequenceIs DEF FilesAdded
    <3>4. /\ start.graph.files[Len(g.files) + f] = h.files[f]
          /\ start.graph.ids[Len(g.files) + f] = <<>>
      BY <1>1, <3>1 DEF FilesAdded
    <3>5. Len(g.files) + f \in 1..Len(g.files) + Len(h.files)
      <4>1. \A a, b \in Nat : \A i \in 1..b : a + i \in 1..a + b
        OBVIOUS
      <4>2. f \in 1..Len(h.files)
        BY <1>1
      <4> QED BY <1>1, <4>1, <4>2
    <3>6. Len(start.graph.ids[Len(g.files) + f]) = 0
      BY <3>4, EmptyIs
    <3> QED BY <2>1, <3>3, <3>4, <3>5, <3>6
  <2>6. /\ Copying(copied, h) /\ copied.outcome \in {"ok", "panicked"}
        /\ copied.outcome = "panicked" => Len(h.files) > 1
        /\ Known(copied) = DOMAIN h.nodes
        /\ copied.outcome = "ok" => DOMAIN h.files = {} \/ Complete(copied, h)
        /\ \A b : Copies(acc, h, b) => Copies(copied, h, b)
    BY <1>1, <2>1, <2>2, <2>4, <2>5, CopiedFilesAre DEF copied
  <2>7. ASSUME Described(g) PROVE Copies(copied, h, start.graph) /\ Described(start.graph)
    <3> DEFINE b == start.graph
    <3>1. Intact(b) /\ Described(b)
      BY <1>2, <2>7 DEF SameNodes, Described
    <3>2. Copies(acc, h, b)
      <4>1. Extends(b, b)
        BY <3>1 DEF Extends, Described
      <4>2. \A n \in {ROOT, JUMP_TO} : n <= JUMP_TO /\ Same(b, n, h, n)
        <5>1. \A n \in {ROOT, JUMP_TO} : n <= JUMP_TO /\ n \in DOMAIN b.nodes /\ n \in DOMAIN h.nodes
          BY <2>3, <3>1 DEF ROOT, JUMP_TO
        <5>2. \A n \in {ROOT, JUMP_TO} : /\ SavedId(b, n) = [file |-> {}, local |-> n]
                                        /\ SavedId(h, n) = [file |-> {}, local |-> n]
          BY <3>1, <5>1, SavedIdOf
        <5> QED BY <5>1, <5>2 DEF Same
      <4> HIDE DEF b
      <4>3. acc.graph = b
        BY <2>1 DEF b
      <4> QED BY <2>2, <4>1, <4>2, <4>3 DEF Copies
    <3> QED BY <2>6, <3>1, <3>2
  <2>8. result.graph = copied.graph /\ result.outcome = copied.outcome
    BY <1>3, <1>5 DEF Result
  <2>9. ASSUME Described(g), result.outcome = "ok" PROVE IsCopy(result.graph, h, start.graph)
    BY <2>6, <2>7, <2>8, <2>9 DEF IsCopy
  <2>10. ASSUME Described(g), Described(h) PROVE Described(result.graph)
    BY <1>2, <2>6, <2>7, <2>8, <2>10, CopiesDescribed
  <2>11. Intact(result.graph)
    BY <2>6, <2>8 DEF Copying
  <2>12. ASSUME Described(g), result.outcome = "ok"
         PROVE  \E b : /\ Intact(b) /\ SameNodes(g, b) /\ FilesAdded(g, b, h.files, Len(h.files))
                       /\ IsCopy(result.graph, h, b)
    BY <1>2, <1>5, <2>9, <2>12
  <2>13. /\ result.outcome = "panicked" => Len(h.files) > 1
         /\ result.outcome # "failed"
    BY <2>6, <2>8
  <2> QED BY <2>10, <2>11, <2>12, <2>13 DEF result
<1> QED BY <1>4, <1>5



LEMMA RenamedIs ==
  ASSUME NEW infos, \A info \in infos : DOMAIN info = {"span", "line", "name", "definiens"}
  PROVE  Renamed(infos) = Forgotten(infos, {"name"})
<1>1. ASSUME NEW info \in infos
      PROVE  [info EXCEPT !.name = "none"] =
               [f \in DOMAIN info |-> IF f \in {"name"} THEN "none" ELSE info[f]]
  OBVIOUS
<1> QED BY <1>1 DEF Renamed, Forgotten

(* A copy that has been made shows what the other graph does, and what the  *)
(* graph showed before.                                                     *)
LEMMA CopyShows ==
  ASSUME NEW g, Intact(g), Described(g), NEW h, Intact(h), Described(h),
         NEW order \in [DOMAIN h.files -> DOMAIN h.files], IsInjective(order),
         Copied(g, h, order).outcome = "ok"
  PROVE  LET k == Copied(g, h, order).graph
         IN  /\ Content(k, ToSet(h.files)) =
                  WithoutNotes(Forgetting(Content(h, ToSet(h.files)), {"name"}))
             /\ Content(k, ToSet(g.files)) = Content(g, ToSet(g.files))
<1> DEFINE k == Copied(g, h, order).graph
           less == [n \in DOMAIN h.nodes |-> Renamed(h.info[n])]
           names == ToSet(h.files)
<1>1. /\ Intact(k)
      /\ \E b : /\ Intact(b) /\ SameNodes(g, b) /\ FilesAdded(g, b, h.files, Len(h.files))
                /\ IsCopy(k, h, b)
  BY CopiedIs
<1> HIDE DEF k
<1>2. Mirrors(k, h, names, less, {}) /\ Mirrors(k, g, ToSet(g.files), g.info, g.notes)
  BY <1>1, CopyMirrors, CopyKeeps
<1>3. Content(k, ToSet(g.files)) = Content(g, ToSet(g.files))
  BY <1>1, <1>2, MirrorShowsTheSame, ContentIsSeen
<1>4. \A n \in DOMAIN h.nodes : less[n] = Forgotten(h.info[n], {"name"})
  BY RenamedIs DEF Described
<1> HIDE DEF less, names
<1>5. Content(k, names) = Seen(h, names, less, {})
  BY <1>1, <1>2, MirrorShowsTheSame
<1>6. Forgetting(Content(h, names), {"name"}) = Seen(h, names, less, h.notes)
  BY <1>4, ContentIsSeen, ForgettingSeen
<1>7. WithoutNotes(Seen(h, names, less, h.notes)) = Seen(h, names, less, {})
  BY WithoutNotesSeen
<1> QED BY <1>3, <1>5, <1>6, <1>7 DEF k, names

-----------------------------------------------------------------------------
(* Saving *)

LEMMA OnlyIs ==
  ASSUME NEW T, NEW seq, IsSequence(seq)
  PROVE  /\ IsSequence(Only(seq, T))
         /\ \A i \in 1..Len(Only(seq, T)) :
              Only(seq, T)[i] \in T /\ \E j \in 1..Len(seq) : Only(seq, T)[i] = seq[j]
         /\ \A j \in 1..Len(seq) :
              seq[j] \in T => \E i \in 1..Len(Only(seq, T)) : Only(seq, T)[i] = seq[j]
<1> DEFINE last == Len(seq)
           Done(found, k) ==
             /\ IsSequence(found)
             /\ \A i \in 1..Len(found) : found[i] \in T /\ \E j \in 1..last : found[i] = seq[j]
             /\ \A j \in 1..k : seq[j] \in T => \E i \in 1..Len(found) : found[i] = seq[j]
<1>1. last \in Nat
  BY SequenceIs
<1>2. PICK after :
        /\ after[0] = <<>> /\ Only(seq, T) = after[last]
        /\ \A i \in 1..last :
             after[i] = (IF seq[i] \in T THEN Append(after[i - 1], seq[i]) ELSE after[i - 1])
  <2>1. IsSequence(seq)
    OBVIOUS
  <2> QED BY ONLY <2>1, OnlyLoop
<1>3. Done(after[0], 0)
  <2> PICK none : none = <<>>
    OBVIOUS
  <2>1. IsSequence(none) /\ Len(none) = 0
    BY EmptyIs
  <2> QED BY <1>2, <2>1
<1>4. ASSUME NEW k \in 1..last, Done(after[k - 1], k - 1) PROVE Done(after[k], k)
  <2> DEFINE found == after[k - 1]
             e == seq[k]
             next == after[k]
  <2>1. next = IF e \in T THEN Append(found, e) ELSE found
    BY <1>2
  <2>2. Done(found, k - 1)
    BY <1>4
  <2>3. \A j \in 1..k : j = k \/ j \in 1..k - 1
    BY <1>1
  <2> SUFFICES Done(next, k)
    OBVIOUS
  <2> HIDE DEF found, next
  <2>4. CASE e \notin T
    BY <2>1, <2>2, <2>3, <2>4
  <2>5. CASE e \in T
    <3>1. /\ IsSequence(next) /\ Len(next) = Len(found) + 1 /\ Len(found) \in Nat
          /\ \A i \in 1..Len(found) : next[i] = found[i]
          /\ next[Len(found) + 1] = e
      BY <2>1, <2>2, <2>5, AppendIs, SequenceIs
    <3>2. \A i \in 1..Len(next) : i = Len(found) + 1 \/ i \in 1..Len(found)
      BY <3>1
    <3>3. \A i \in 1..Len(next) : next[i] \in T /\ \E j \in 1..last : next[i] = seq[j]
      BY <2>2, <2>5, <3>1, <3>2
    <3>4. Len(found) + 1 \in 1..Len(next) /\ \A i \in 1..Len(found) : i \in 1..Len(next)
      BY <3>1
    <3>5. ASSUME NEW j \in 1..k, seq[j] \in T PROVE \E i \in 1..Len(next) : next[i] = seq[j]
      <4>1. CASE j = k
        BY <3>1, <3>4, <4>1
      <4>2. CASE j \in 1..k - 1
        <5>1. PICK i \in 1..Len(found) : found[i] = seq[j]
          BY <2>2, <3>5, <4>2
        <5> QED BY <3>1, <3>4, <5>1
      <4> QED BY <2>3, <4>1, <4>2
    <3> QED BY <3>1, <3>3, <3>5
  <2> QED BY <2>4, <2>5
<1> DEFINE U == {k \in 0..last : Done(after[k], k)}
<1> HIDE DEF Done
<1>5. Climbs(last, U)
  BY <1>1, <1>3, <1>4 DEF Climbs
<1>6. Done(after[last], last)
  <2> HIDE DEF U, last
  <2>1. last \in U
    BY <1>1, <1>5, UpTo
  <2> QED BY <2>1 DEF U
<1> DEFINE only == Only(seq, T)
<1>7. Done(only, last)
  BY <1>2, <1>6
<1> HIDE DEF only
<1>8. /\ IsSequence(only)
      /\ \A i \in 1..Len(only) : only[i] \in T /\ \E j \in 1..Len(seq) : only[i] = seq[j]
      /\ \A j \in 1..Len(seq) : seq[j] \in T => \E i \in 1..Len(only) : only[i] = seq[j]
  BY ONLY <1>7 DEF Done, last
<1> QED BY <1>8 DEF only

LEMMA SavedIdIs ==
  ASSUME NEW g, Intact(g), NEW n \in DOMAIN g.nodes
  PROVE  LET id == SavedId(g, n)
         IN  /\ Singleton(id)
                \/ /\ id.local \in Nat
                   /\ \E f \in DOMAIN g.files : id.file = {g.files[f]}
<1>1. NodesIntact(g) /\ FilesIntact(g)
  BY IntactIs
<1>2. /\ SavedId(g, n).file = {g.files[f] : f \in {g.nodes[n].file} \ {0}}
      /\ SavedId(g, n).local = g.nodes[n].local
  BY DEF SavedId
<1>3. n \in Nat /\ n >= 1
  BY <1>1, SequenceIs DEF NodesIntact
<1>4. CASE n <= JUMP_TO
  <2>1. g.nodes[n].file = 0 /\ g.nodes[n].local = n
    BY <1>1, <1>4 DEF NodesIntact, NodeIntact
  <2> QED BY <1>2, <1>3, <1>4, <2>1 DEF Singleton, ROOT, JUMP_TO
<1>5. CASE ~ (n <= JUMP_TO)
  <2>1. g.nodes[n].file \in DOMAIN g.files /\ g.nodes[n].local \in Nat
    BY <1>1, <1>5 DEF NodesIntact, NodeIntact
  <2>2. g.nodes[n].file # 0
    BY <1>1, <2>1, SequenceIs DEF FilesIntact
  <2>3. SavedId(g, n).file = {g.files[g.nodes[n].file]}
    BY <1>2, <2>2
  <2> QED BY <1>2, <2>1, <2>3
<1> QED BY <1>4, <1>5

(* The nodes and the edges that are saved. *)
SavedNodes(g, names) ==
  Only([n \in DOMAIN g.nodes |-> n], {n \in DOMAIN g.nodes : IncludesNode(g, names, n)})

SavedEdges(g, names) ==
  Only(EdgesOf(g, DOMAIN g.nodes), {e \in Edges(g) : IncludesEdge(g, names, e)})

LEMMA LinkIs ==
  ASSUME NEW g, NEW s, NEW t, NEW p, NEW note
  PROVE  LET e == Link(g, s, t, p, note)
         IN  /\ e.source = SavedId(g, s) /\ e.sink = SavedId(g, t)
             /\ e.precedence = p /\ e.note = note
  BY DEF Link

(* What was saved are the nodes of some files, and the edges among them and *)
(* the singletons.                                                          *)
Saves(s, h, names) ==
  /\ IsSequence(s.files) /\ IsSequence(s.nodes) /\ IsSequence(s.edges)
  /\ ToSet(s.files) = names
  /\ \A i \in 1..Len(s.nodes) : \E n \in DOMAIN h.nodes :
       /\ IncludesNode(h, names, n)
       /\ s.nodes[i].id = SavedId(h, n) /\ s.nodes[i].payload = h.nodes[n].payload
       /\ s.nodes[i].spans = {info.span : info \in h.info[n]}
  /\ \A n \in DOMAIN h.nodes : IncludesNode(h, names, n) =>
       \E i \in 1..Len(s.nodes) : s.nodes[i].id = SavedId(h, n)
  /\ \A i \in 1..Len(s.edges) : \E u, v, p :
       /\ Leads(h, u, v, p) /\ IncludesNode(h, names, u) /\ IncludesNode(h, names, v)
       /\ s.edges[i] = Link(h, u, v, p, <<u, v>> \in h.notes)
  /\ \A u, v, p : Leads(h, u, v, p) /\ IncludesNode(h, names, u) /\ IncludesNode(h, names, v) =>
       \E i \in 1..Len(s.edges) : s.edges[i] = Link(h, u, v, p, <<u, v>> \in h.notes)

LEMMA SavedIs ==
  ASSUME NEW g, Intact(g), NEW names \in SUBSET ToSet(g.files)
  PROVE  Saves(Saved(g, names), g, names)
<1> DEFINE s == Saved(g, names)
           all == [n \in DOMAIN g.nodes |-> n]
           nodes == SavedNodes(g, names)
           edges == SavedEdges(g, names)
           included == {n \in DOMAIN g.nodes : IncludesNode(g, names, n)}
           Shown(e) == Link(g, e.source, e.sink, e.precedence, <<e.source, e.sink>> \in g.notes)
<1>1. /\ s.files = Only(g.files, names)
      /\ s.nodes = [i \in DOMAIN nodes |-> s.nodes[i]]
      /\ \A i \in DOMAIN nodes : /\ s.nodes[i].id = SavedId(g, nodes[i])
                                 /\ s.nodes[i].payload = g.nodes[nodes[i]].payload
                                 /\ s.nodes[i].spans = {info.span : info \in g.info[nodes[i]]}
      /\ s.edges = [i \in DOMAIN edges |-> s.edges[i]]
      /\ \A i \in DOMAIN edges : s.edges[i] = Shown(edges[i])
  BY DEF Saved, SavedNodes, SavedEdges, Link
<1>2. /\ IsSequence(g.files) /\ IsSequence(all) /\ IsSequence(EdgesOf(g, DOMAIN g.nodes))
      /\ DOMAIN g.nodes = 1..Len(g.nodes) /\ Len(all) = Len(g.nodes)
      /\ \A n \in DOMAIN g.nodes : all[n] = n
  <2>1. IsSequence(g.nodes) /\ IsSequence(g.files)
    BY IntactIs DEF NodesIntact, FilesIntact
  <2>2. DOMAIN g.nodes = 1..Len(g.nodes) /\ Len(g.nodes) \in Nat
    BY <2>1, SequenceIs
  <2>3. all = [i \in 1..Len(g.nodes) |-> all[i]] /\ \A n \in DOMAIN g.nodes : all[n] = n
    BY <2>2
  <2>4. IsSequence(EdgesOf(g, DOMAIN g.nodes))
    BY EdgesOfAre
  <2> HIDE DEF all
  <2>5. IsSequence(all) /\ Len(all) = Len(g.nodes)
    BY <2>2, <2>3, FunctionIsSequence
  <2> QED BY <2>1, <2>2, <2>3, <2>4, <2>5
<1>3. /\ IsSequence(nodes)
      /\ \A i \in 1..Len(nodes) : nodes[i] \in included
      /\ \A n \in included : \E i \in 1..Len(nodes) : nodes[i] = n
  <2> HIDE DEF all, included
  <2>1. nodes = Only(all, included)
    BY DEF SavedNodes, all, included
  <2> HIDE DEF nodes
  <2>2. /\ IsSequence(nodes)
        /\ \A i \in 1..Len(nodes) : nodes[i] \in included
        /\ \A j \in 1..Len(all) : all[j] \in included => \E i \in 1..Len(nodes) : nodes[i] = all[j]
    BY <1>2, <2>1, OnlyIs
  <2>3. included \subseteq DOMAIN g.nodes
    BY DEF included
  <2> QED BY <1>2, <2>2, <2>3
<1>4. /\ IsSequence(edges)
      /\ \A i \in 1..Len(edges) : edges[i] \in Edges(g) /\ IncludesEdge(g, names, edges[i])
      /\ \A e \in Edges(g) : IncludesEdge(g, names, e) => \E i \in 1..Len(edges) : edges[i] = e
  <2> DEFINE every == EdgesOf(g, DOMAIN g.nodes)
             E == {e \in Edges(g) : IncludesEdge(g, names, e)}
  <2>1. edges = Only(every, E) /\ IsSequence(every) /\ Edges(g) = ToSet(every)
    BY <1>2 DEF SavedEdges, Edges
  <2> HIDE DEF every, E, edges
  <2>2. DOMAIN every = 1..Len(every)
    BY <2>1, SequenceIs
  <2>3. /\ IsSequence(edges)
        /\ \A i \in 1..Len(edges) : edges[i] \in E
        /\ \A j \in 1..Len(every) : every[j] \in E => \E i \in 1..Len(edges) : edges[i] = every[j]
    BY <2>1, OnlyIs
  <2>4. \A e \in Edges(g) : \E j \in 1..Len(every) : e = every[j]
    BY <2>1, <2>2 DEF ToSet
  <2> QED BY <2>3, <2>4 DEF E
<1>5. IsSequence(s.files) /\ ToSet(s.files) = names
  <2> DEFINE files == Only(g.files, names)
  <2>1. /\ IsSequence(files)
        /\ \A i \in 1..Len(files) : files[i] \in names
        /\ \A j \in 1..Len(g.files) :
             g.files[j] \in names => \E i \in 1..Len(files) : files[i] = g.files[j]
    BY <1>2, OnlyIs
  <2>2. s.files = files
    BY <1>1
  <2> HIDE DEF files, s
  <2>3. DOMAIN files = 1..Len(files) /\ DOMAIN g.files = 1..Len(g.files)
    BY <1>2, <2>1, SequenceIs
  <2>4. \A name \in names : \E j \in 1..Len(g.files) : name = g.files[j]
    BY <2>3 DEF ToSet
  <2>5. ToSet(files) = {files[i] : i \in 1..Len(files)}
    BY <2>3 DEF ToSet
  <2>6. ToSet(files) = names
    BY ONLY <2>1, <2>4, <2>5
  <2> QED BY ONLY <2>1, <2>2, <2>6
<1> HIDE DEF s, all, nodes, edges
<1>6. /\ IsSequence(s.nodes) /\ Len(s.nodes) = Len(nodes) /\ DOMAIN nodes = 1..Len(nodes)
      /\ IsSequence(s.edges) /\ Len(s.edges) = Len(edges) /\ DOMAIN edges = 1..Len(edges)
  <2>1. /\ DOMAIN nodes = 1..Len(nodes) /\ Len(nodes) \in Nat
        /\ DOMAIN edges = 1..Len(edges) /\ Len(edges) \in Nat
    BY <1>3, <1>4, SequenceIs
  <2> DEFINE N == s.nodes
             E == s.edges
             n == Len(nodes)
             k == Len(edges)
  <2>2. N = [i \in 1..n |-> N[i]] /\ E = [i \in 1..k |-> E[i]]
    BY <1>1, <2>1
  <2> HIDE DEF N, E, n, k
  <2>3. n \in Nat /\ k \in Nat
    BY <2>1 DEF n, k
  <2>4. IsSequence(N) /\ Len(N) = n /\ IsSequence(E) /\ Len(E) = k
    BY <2>2, <2>3, FunctionIsSequence
  <2> QED BY <2>1, <2>4 DEF N, E, n, k
<1>7. ASSUME NEW i \in 1..Len(s.nodes)
      PROVE  \E n \in DOMAIN g.nodes :
               /\ IncludesNode(g, names, n)
               /\ s.nodes[i].id = SavedId(g, n) /\ s.nodes[i].payload = g.nodes[n].payload
               /\ s.nodes[i].spans = {info.span : info \in g.info[n]}
  <2>1. nodes[i] \in DOMAIN g.nodes /\ IncludesNode(g, names, nodes[i])
    BY <1>3, <1>6
  <2> QED BY <1>1, <1>6, <2>1
<1>8. ASSUME NEW n \in DOMAIN g.nodes, IncludesNode(g, names, n)
      PROVE  \E i \in 1..Len(s.nodes) : s.nodes[i].id = SavedId(g, n)
  <2>1. PICK i \in 1..Len(nodes) : nodes[i] = n
    BY <1>3, <1>8
  <2> QED BY <1>1, <1>6, <2>1
<1>9. ASSUME NEW i \in 1..Len(s.edges)
      PROVE  \E u, v, p :
               /\ Leads(g, u, v, p) /\ IncludesNode(g, names, u) /\ IncludesNode(g, names, v)
               /\ s.edges[i] = Link(g, u, v, p, <<u, v>> \in g.notes)
  <2> DEFINE e == edges[i]
  <2>1. e \in Edges(g) /\ IncludesEdge(g, names, e) /\ s.edges[i] = Shown(e)
    BY <1>1, <1>4, <1>6
  <2> HIDE DEF e
  <2>2. PICK u, v, p : Leads(g, u, v, p) /\ e = [source |-> u, sink |-> v, precedence |-> p]
    BY <2>1, EdgesLead
  <2>3. e.source = u /\ e.sink = v /\ e.precedence = p
    BY <2>2
  <2> QED BY <2>1, <2>2, <2>3 DEF IncludesEdge
<1>10. ASSUME NEW u, NEW v, NEW p, Leads(g, u, v, p),
              IncludesNode(g, names, u), IncludesNode(g, names, v)
       PROVE  \E i \in 1..Len(s.edges) : s.edges[i] = Link(g, u, v, p, <<u, v>> \in g.notes)
  <2> DEFINE e == [source |-> u, sink |-> v, precedence |-> p]
  <2>1. e.source = u /\ e.sink = v /\ e.precedence = p
    OBVIOUS
  <2>2. e \in Edges(g)
    BY <1>10, EdgesLead
  <2> HIDE DEF e
  <2>3. PICK i \in 1..Len(edges) : edges[i] = e
    BY <1>4, <1>10, <2>1, <2>2 DEF IncludesEdge
  <2> QED BY <1>1, <1>6, <2>1, <2>3
<1> HIDE DEF Shown
<1> QED BY <1>5, <1>6, <1>7, <1>8, <1>9, <1>10 DEF Saves, s

(* What was saved can be loaded. *)
LEMMA SavesIntact ==
  ASSUME NEW h, Intact(h), NEW names, NEW s, Saves(s, h, names)
  PROVE  SavedIntact(s)
<1>1. /\ IsSequence(s.files) /\ IsSequence(s.nodes) /\ IsSequence(s.edges)
      /\ ToSet(s.files) = names
      /\ DOMAIN s.nodes = 1..Len(s.nodes) /\ DOMAIN s.edges = 1..Len(s.edges)
  BY SequenceIs DEF Saves
<1>2. ASSUME NEW i \in DOMAIN s.nodes
      PROVE  LET id == s.nodes[i].id
             IN  Singleton(id) \/ (id.local \in Nat /\ \E name \in ToSet(s.files) : id.file = {name})
  <2>1. PICK n \in DOMAIN h.nodes : IncludesNode(h, names, n) /\ s.nodes[i].id = SavedId(h, n)
    BY <1>1 DEF Saves
  <2>2. \/ Singleton(SavedId(h, n))
        \/ /\ SavedId(h, n).local \in Nat
           /\ \E f \in DOMAIN h.files : SavedId(h, n).file = {h.files[f]}
    BY SavedIdIs
  <2> QED BY <1>1, <2>1, <2>2 DEF IncludesNode
<1>3. ASSUME NEW i \in DOMAIN s.edges, NEW id \in {s.edges[i].source, s.edges[i].sink}
      PROVE  \E j \in DOMAIN s.nodes : s.nodes[j].id = id
  <2>1. PICK u, v, p : /\ Leads(h, u, v, p) /\ IncludesNode(h, names, u) /\ IncludesNode(h, names, v)
                       /\ s.edges[i] = Link(h, u, v, p, <<u, v>> \in h.notes)
    BY <1>1 DEF Saves
  <2>2. s.edges[i].source = SavedId(h, u) /\ s.edges[i].sink = SavedId(h, v)
    BY <2>1, LinkIs
  <2>3. u \in DOMAIN h.nodes /\ v \in DOMAIN h.nodes
    BY <2>1, LeadsIs
  <2> QED BY <1>1, <2>1, <2>2, <2>3 DEF Saves
<1> QED BY <1>1, <1>2, <1>3 DEF SavedIntact

-----------------------------------------------------------------------------
(* Loading *)

NamesNode(g, id) == Singleton(id) \/ (id.local \in Nat /\ \E name \in ToSet(g.files) : id.file = {name})

LEMMA LocatedIs ==
  ASSUME NEW g, Intact(g), NEW id
  PROVE  /\ Singleton(id) => Located(g, id) # {} /\ Located(g, id) \subseteq DOMAIN g.nodes
         /\ \A f \in DOMAIN g.files :
              id.file = {g.files[f]} => Located(g, id) = NodesForId(g, f, id.local)
<1>1. ASSUME Singleton(id) PROVE Located(g, id) # {} /\ Located(g, id) \subseteq DOMAIN g.nodes
  <2>1. Located(g, id) = {id.local} /\ id.local \in {ROOT, JUMP_TO}
    BY <1>1 DEF Singleton, Located, NodesForId
  <2>2. IsSequence(g.nodes) /\ Len(g.nodes) >= JUMP_TO
    BY IntactIs DEF NodesIntact
  <2>3. DOMAIN g.nodes = 1..Len(g.nodes) /\ Len(g.nodes) \in Nat
    BY <2>2, SequenceIs
  <2>4. {ROOT, JUMP_TO} \subseteq DOMAIN g.nodes
    BY <2>2, <2>3 DEF ROOT, JUMP_TO
  <2> QED BY <2>1, <2>4
<1>2. ASSUME NEW f \in DOMAIN g.files, id.file = {g.files[f]}
      PROVE  Located(g, id) = NodesForId(g, f, id.local)
  <2>1. UNION {FileHandles(g, name) : name \in id.file} = {f}
    BY <1>2, FileHandlesAre
  <2>2. id.file # {}
    BY <1>2
  <2> QED BY <2>1, <2>2 DEF Located
<1> QED BY <1>1, <1>2

(* What `WithNode` does, in one name. *)
Grown(g, h, file, local, payload) ==
  /\ Intact(h) /\ h.files = g.files /\ h.notes = g.notes
  /\ Len(g.nodes) \in Nat /\ DOMAIN g.nodes = 1..Len(g.nodes)
  /\ Len(h.nodes) = Len(g.nodes) + 1 /\ DOMAIN h.nodes = 1..Len(g.nodes) + 1
  /\ \A n \in DOMAIN g.nodes : h.nodes[n] = g.nodes[n]
  /\ h.nodes[Len(h.nodes)] = Node(file, local, payload)
  /\ \A f \in DOMAIN g.files : f # file => h.ids[f] = g.ids[f]
  /\ Len(h.ids[file]) = IF local < Len(g.ids[file]) THEN Len(g.ids[file]) ELSE local + 1
  /\ h.ids[file][local + 1] = Len(h.nodes)
  /\ \A i \in 1..Len(g.ids[file]) : i # local + 1 => h.ids[file][i] = g.ids[file][i]

LEMMA WithNodeGrows ==
  ASSUME NEW g, Intact(g), NEW file \in DOMAIN g.files, NEW local \in Nat, NEW payload,
         NEW h \in WithNode(g, Node(file, local, payload))
  PROVE  Grown(g, h, file, local, payload)
BY WithNodeIntact DEF Grown

(* A node that is added is found, and so are the others still. *)
LEMMA NodesStayFound ==
  ASSUME NEW g, Intact(g), NEW file \in DOMAIN g.files, NEW local \in Nat, NEW payload,
         NEW h \in WithNode(g, Node(file, local, payload)),
         NEW f \in DOMAIN g.files, NEW l \in Nat,
         NodesForId(g, f, l) # {} \/ (f = file /\ l = local)
  PROVE  NodesForId(h, f, l) # {}
<1>1. /\ Intact(h) /\ h.files = g.files /\ h.notes = g.notes
      /\ Len(g.nodes) \in Nat /\ DOMAIN g.nodes = 1..Len(g.nodes)
      /\ Len(h.nodes) = Len(g.nodes) + 1 /\ DOMAIN h.nodes = 1..Len(g.nodes) + 1
      /\ \A n \in DOMAIN g.nodes : h.nodes[n] = g.nodes[n]
      /\ h.nodes[Len(h.nodes)] = Node(file, local, payload)
      /\ \A k \in DOMAIN g.files : k # file => h.ids[k] = g.ids[k]
      /\ Len(h.ids[file]) = IF local < Len(g.ids[file]) THEN Len(g.ids[file]) ELSE local + 1
      /\ h.ids[file][local + 1] = Len(h.nodes)
      /\ \A i \in 1..Len(g.ids[file]) : i # local + 1 => h.ids[file][i] = g.ids[file][i]
  <2>1. Grown(g, h, file, local, payload)
    BY WithNodeGrows
  <2> QED BY <2>1 DEF Grown
<1>2. f # 0 /\ IsSequence(g.ids[f]) /\ IsSequence(g.ids[file])
  BY NodesForIdIs
<1>3. Len(g.ids[f]) \in Nat /\ Len(g.ids[file]) \in Nat
  BY <1>2, SequenceIs
<1>4. \A x, n : n \in NodesForId(x, f, l) <=>
                  n \in DOMAIN x.nodes /\ l < Len(x.ids[f]) /\ x.ids[f][l + 1] = n
  BY <1>2 DEF NodesForId
<1>5. CASE f = file /\ l = local
  <2>1. Len(h.nodes) \in NodesForId(h, f, l)
    BY <1>1, <1>3, <1>4, <1>5
  <2> QED BY <2>1
<1>6. CASE ~ (f = file /\ l = local)
  <2>1. PICK n \in NodesForId(g, f, l) : TRUE
    BY <1>6
  <2>2. n \in DOMAIN g.nodes /\ l < Len(g.ids[f]) /\ g.ids[f][l + 1] = n
    BY <1>4, <2>1
  <2>3. n \in DOMAIN h.nodes
    BY <1>1, <2>2
  <2>4. CASE f # file
    BY <1>1, <1>4, <2>2, <2>3, <2>4
  <2>5. CASE f = file
    <3>1. l + 1 \in 1..Len(g.ids[file]) /\ l + 1 # local + 1
      BY <1>3, <1>6, <2>2, <2>5
    <3>2. h.ids[f][l + 1] = n
      BY <1>1, <2>2, <2>5, <3>1
    <3>3. l < Len(h.ids[f])
      BY <1>1, <1>3, <2>2, <2>5
    <3> QED BY <1>4, <2>3, <3>2, <3>3
  <2> QED BY <2>4, <2>5
<1> QED BY <1>5, <1>6

LEMMA LoadedNodeIs ==
  ASSUME NEW g, Intact(g), NEW node, NamesNode(g, node.id)
  PROVE  LET h == LoadedNode(g, node)
         IN  /\ Intact(h) /\ h.files = g.files
             /\ Located(h, node.id) # {}
             /\ \A id : NamesNode(g, id) /\ Located(g, id) # {} => Located(h, id) # {}
<1> DEFINE h == LoadedNode(g, node)
           local == node.id.local
           payload == node.payload
<1>1. CASE node.id.file = {}
  <2>1. Singleton(node.id)
    BY <1>1 DEF NamesNode
  <2>2. h = g
    BY <1>1 DEF LoadedNode
  <2> QED BY <2>1, <2>2, LocatedIs
<1>2. CASE node.id.file # {}
  <2>1. PICK file \in DOMAIN g.files : local \in Nat /\ node.id.file = {g.files[file]}
    BY <1>2 DEF NamesNode, Singleton, ToSet
  <2>2. (CHOOSE f \in UNION {FileHandles(g, name) : name \in node.id.file} : TRUE) = file
    <3>1. UNION {FileHandles(g, name) : name \in node.id.file} = {file}
      BY <2>1, FileHandlesAre
    <3> QED BY <3>1
  <2> DEFINE loaded == WithNode(g, Node(file, local, payload))
             info == {[span |-> span, line |-> "none", name |-> "none", definiens |-> "none"] : span \in node.spans}
  <2>3. h = IF loaded = {} THEN g
            ELSE [CHOOSE x \in loaded : TRUE EXCEPT !.info[Len(g.nodes) + 1] = info]
    BY <1>2, <2>2 DEF LoadedNode, LoadedId
  <2> HIDE DEF loaded, info, h, payload
  <2>4. CASE loaded = {}
    <3>1. h = g
      BY <2>3, <2>4
    <3>2. NodesForId(g, file, local) # {}
      <4>1. Node(file, local, payload).file = file /\ Node(file, local, payload).local = local
        BY NodeIs
      <4> QED BY <2>4, <4>1 DEF loaded, WithNode
    <3>3. Located(g, node.id) = NodesForId(g, file, local)
      BY <2>1, LocatedIs
    <3> QED BY <3>1, <3>2, <3>3 DEF h
  <2>5. CASE loaded # {}
    <3>1. PICK x \in loaded : h = [x EXCEPT !.info[Len(g.nodes) + 1] = info]
      BY <2>3, <2>5
    <3>2. Intact(x) /\ x.files = g.files
      BY <2>1, <3>1, WithNodeIntact DEF loaded
    <3>3. DOMAIN x = Fields
      BY <3>2, IntactIs
    <3>4. /\ DOMAIN h = Fields /\ h.files = x.files /\ h.nodes = x.nodes /\ h.ids = x.ids
          /\ h.outgoing = x.outgoing /\ h.incoming = x.incoming
      BY <3>1, <3>3 DEF Fields
    <3>5. Intact(h)
      BY <3>2, <3>4, SameIntact
    <3>6. ASSUME NEW f \in DOMAIN g.files, NEW l \in Nat,
                 NodesForId(g, f, l) # {} \/ (f = file /\ l = local)
          PROVE  NodesForId(h, f, l) # {}
      <4>1. NodesForId(x, f, l) # {}
        BY <2>1, <3>1, <3>6, NodesStayFound DEF loaded
      <4>2. NodesForId(h, f, l) = NodesForId(x, f, l)
        BY <3>4 DEF NodesForId
      <4> QED BY <4>1, <4>2
    <3>7. Located(h, node.id) # {}
      <4>1. Located(h, node.id) = NodesForId(h, file, local)
        BY <2>1, <3>2, <3>4, <3>5, LocatedIs
      <4> QED BY <2>1, <3>6, <4>1
    <3>8. ASSUME NEW id, NamesNode(g, id), Located(g, id) # {} PROVE Located(h, id) # {}
      <4>1. CASE Singleton(id)
        BY <3>5, <4>1, LocatedIs
      <4>2. CASE ~ Singleton(id)
        <5>1. PICK f \in DOMAIN g.files : id.local \in Nat /\ id.file = {g.files[f]}
          BY <3>8, <4>2 DEF NamesNode, ToSet
        <5>2. Located(g, id) = NodesForId(g, f, id.local)
          BY <5>1, LocatedIs
        <5>3. Located(h, id) = NodesForId(h, f, id.local)
          BY <3>2, <3>4, <3>5, <5>1, LocatedIs
        <5> QED BY <3>6, <3>8, <5>1, <5>2, <5>3
      <4> QED BY <4>1, <4>2
    <3> QED BY <3>2, <3>4, <3>5, <3>7, <3>8 DEF h
  <2> QED BY <2>4, <2>5
<1> QED BY <1>1, <1>2

LEMMA LoadedNodesAre ==
  ASSUME NEW g, Intact(g), NEW nodes, IsSequence(nodes),
         \A i \in 1..Len(nodes) : NamesNode(g, nodes[i].id)
  PROVE  LET h == LoadedNodes(g, nodes)
         IN  /\ Intact(h) /\ h.files = g.files
             /\ \A i \in 1..Len(nodes) : Located(h, nodes[i].id) # {}
<1> DEFINE last == Len(nodes)
           Done(x, k) == /\ Intact(x) /\ x.files = g.files
                         /\ \A i \in 1..k : Located(x, nodes[i].id) # {}
<1>1. last \in Nat
  BY SequenceIs
<1>2. PICK after :
        /\ after[0] = g /\ LoadedNodes(g, nodes) = after[last]
        /\ \A i \in 1..last : after[i] = LoadedNode(after[i - 1], nodes[i])
  <2>1. IsSequence(nodes)
    OBVIOUS
  <2> QED BY ONLY <2>1, LoadedNodesLoop
<1>3. Done(after[0], 0)
  BY <1>2
<1>4. ASSUME NEW k \in 1..last, Done(after[k - 1], k - 1) PROVE Done(after[k], k)
  <2> DEFINE x == after[k - 1]
             next == after[k]
  <2>1. next = LoadedNode(x, nodes[k])
    BY <1>2
  <2>2. Done(x, k - 1)
    BY <1>4
  <2>3. \A j \in 1..k : j = k \/ j \in 1..k - 1
    BY <1>1
  <2> SUFFICES Done(next, k)
    OBVIOUS
  <2> HIDE DEF x, next
  <2>4. \A i \in 1..last : NamesNode(x, nodes[i].id)
    BY <2>2 DEF NamesNode
  <2>5. /\ Intact(next) /\ next.files = x.files /\ Located(next, nodes[k].id) # {}
        /\ \A id : NamesNode(x, id) /\ Located(x, id) # {} => Located(next, id) # {}
    <3>1. Intact(x) /\ NamesNode(x, nodes[k].id)
      BY <2>2, <2>4
    <3> QED BY ONLY <2>1, <3>1, LoadedNodeIs
  <2>6. \A i \in 1..k - 1 : i \in 1..last
    BY <1>1
  <2> QED BY <2>2, <2>3, <2>4, <2>5, <2>6
<1> DEFINE T == {k \in 0..last : Done(after[k], k)}
<1> HIDE DEF Done
<1>5. Climbs(last, T)
  BY <1>1, <1>3, <1>4 DEF Climbs
<1>6. Done(after[last], last)
  <2> HIDE DEF T, last
  <2>1. last \in T
    BY <1>1, <1>5, UpTo
  <2> QED BY <2>1 DEF T
<1> QED BY <1>2, <1>6 DEF Done

LEMMA LoadedEdgeIs ==
  ASSUME NEW acc, DOMAIN acc = {"graph", "outcome"}, acc.outcome = "ok", Intact(acc.graph),
         NEW e, NamesNode(acc.graph, e.source), NamesNode(acc.graph, e.sink),
         Located(acc.graph, e.source) # {}, Located(acc.graph, e.sink) # {}
  PROVE  LET next == LoadedEdge(acc, e)
         IN  /\ DOMAIN next = {"graph", "outcome"} /\ next.outcome = "ok" /\ Intact(next.graph)
             /\ next.graph.files = acc.graph.files /\ next.graph.nodes = acc.graph.nodes
             /\ next.graph.ids = acc.graph.ids
<1> DEFINE old == acc.graph
           s == CHOOSE n \in Located(old, e.source) : TRUE
           t == CHOOSE n \in Located(old, e.sink) : TRUE
           g == WithEdge(old, s, t, e.precedence)
           noted == IF e.note THEN [g EXCEPT !.notes = @ \cup {<<s, t>>}] ELSE g
           next == LoadedEdge(acc, e)
<1>1. ASSUME NEW id, NamesNode(old, id) PROVE Located(old, id) \subseteq DOMAIN old.nodes
  <2>1. CASE Singleton(id)
    BY <2>1, LocatedIs
  <2>2. CASE ~ Singleton(id)
    <3>1. PICK f \in DOMAIN old.files : id.local \in Nat /\ id.file = {old.files[f]}
      BY <1>1, <2>2 DEF NamesNode, ToSet
    <3>2. Located(old, id) = NodesForId(old, f, id.local)
      BY <3>1, LocatedIs
    <3> QED BY <3>1, <3>2, NodesForIdIs
  <2> QED BY <2>1, <2>2
<1>2. s \in Located(old, e.source) /\ t \in Located(old, e.sink)
  OBVIOUS
<1>3. s \in DOMAIN old.nodes /\ t \in DOMAIN old.nodes
  BY <1>1, <1>2
<1>4. next = [acc EXCEPT !.graph = noted]
  BY DEF LoadedEdge
<1> HIDE DEF s, t
<1>5. Intact(g) /\ g.files = old.files /\ g.nodes = old.nodes /\ g.ids = old.ids
  BY <1>3, WithEdgeIntact
<1> HIDE DEF g
<1>6. DOMAIN g = Fields
  BY <1>5, IntactIs
<1>7. /\ DOMAIN noted = Fields /\ noted.files = g.files /\ noted.nodes = g.nodes
      /\ noted.ids = g.ids /\ noted.outgoing = g.outgoing /\ noted.incoming = g.incoming
  BY <1>6 DEF Fields
<1> HIDE DEF noted, next
<1>8. Intact(noted)
  BY <1>5, <1>7, SameIntact
<1> QED BY <1>4, <1>5, <1>7, <1>8 DEF next

LEMMA LoadedEdgesAre ==
  ASSUME NEW g, Intact(g), NEW edges, IsSequence(edges),
         \A i \in 1..Len(edges) : \A id \in {edges[i].source, edges[i].sink} :
           NamesNode(g, id) /\ Located(g, id) # {}
  PROVE  LET result == LoadedEdges(Result(g, "ok"), edges)
         IN  Intact(result.graph) /\ result.outcome = "ok"
<1> DEFINE last == Len(edges)
           Done(a) == /\ DOMAIN a = {"graph", "outcome"} /\ a.outcome = "ok" /\ Intact(a.graph)
                      /\ a.graph.files = g.files /\ a.graph.nodes = g.nodes
                      /\ a.graph.ids = g.ids
<1>1. last \in Nat
  BY SequenceIs
<1>2. PICK after :
        /\ after[0] = Result(g, "ok") /\ LoadedEdges(Result(g, "ok"), edges) = after[last]
        /\ \A i \in 1..last : after[i] = LoadedEdge(after[i - 1], edges[i])
  <2> DEFINE first == Result(g, "ok")
  <2> HIDE DEF first
  <2>1. IsSequence(edges)
    OBVIOUS
  <2>2. \E after :
          /\ after[0] = first /\ LoadedEdges(first, edges) = after[Len(edges)]
          /\ \A i \in 1..Len(edges) : after[i] = LoadedEdge(after[i - 1], edges[i])
    BY ONLY <2>1, LoadedEdgesLoop
  <2> QED BY <2>2 DEF first
<1>3. Done(after[0])
  BY <1>2 DEF Result
<1>4. ASSUME NEW k \in 1..last, Done(after[k - 1]) PROVE Done(after[k])
  <2> DEFINE a == after[k - 1]
             e == edges[k]
             next == after[k]
  <2>1. next = LoadedEdge(a, e)
    BY <1>2
  <2>2. Done(a)
    BY <1>4
  <2>3. \A id \in {e.source, e.sink} : NamesNode(g, id) /\ Located(g, id) # {}
    OBVIOUS
  <2> SUFFICES Done(next)
    OBVIOUS
  <2> HIDE DEF a, e, next
  <2>4. \A id : Located(a.graph, id) = Located(g, id) /\ (NamesNode(a.graph, id) <=> NamesNode(g, id))
    BY <2>2 DEF Located, NodesForId, FileHandles, NamesNode
  <2>5. /\ DOMAIN next = {"graph", "outcome"} /\ next.outcome = "ok" /\ Intact(next.graph)
        /\ next.graph.files = a.graph.files /\ next.graph.nodes = a.graph.nodes
        /\ next.graph.ids = a.graph.ids
    BY <2>1, <2>2, <2>3, <2>4, LoadedEdgeIs
  <2> QED BY <2>2, <2>5
<1> DEFINE T == {k \in 0..last : Done(after[k])}
<1> HIDE DEF Done
<1>5. Climbs(last, T)
  BY <1>1, <1>3, <1>4 DEF Climbs
<1>6. Done(after[last])
  <2> HIDE DEF T, last
  <2>1. last \in T
    BY <1>1, <1>5, UpTo
  <2> QED BY <2>1 DEF T
<1> QED BY <1>2, <1>6 DEF Done

(* What is loaded of the descriptions of a node. *)
Bare(spans) == {[span |-> span, line |-> "none", name |-> "none", definiens |-> "none"] : span \in spans}

IsId(id) == id = [file |-> id.file, local |-> id.local]

(* The node of a saved id is the one that would be saved with it. *)
LEMMA LocatedIsNode ==
  ASSUME NEW g, Intact(g), NEW id, IsId(id), NamesNode(g, id), NEW n
  PROVE  n \in Located(g, id) <=> n \in DOMAIN g.nodes /\ SavedId(g, n) = id
<1>1. CASE Singleton(id)
  <2>1. Located(g, id) = {id.local} /\ id.local \in {ROOT, JUMP_TO} /\ id.file = {}
    BY <1>1 DEF Singleton, Located, NodesForId
  <2>2. id.local \in DOMAIN g.nodes
    BY <2>1, SingletonsIn
  <2>3. id.local <= JUMP_TO
    BY <2>1 DEF ROOT, JUMP_TO
  <2>4. SavedId(g, id.local) = id
    BY <2>1, <2>2, <2>3, SavedIdOf DEF IsId
  <2> QED BY <2>1, <2>2, <2>4, SavedIdUnique
<1>2. CASE ~ Singleton(id)
  <2>1. PICK f \in DOMAIN g.files : id.local \in Nat /\ id.file = {g.files[f]}
    BY <1>2 DEF NamesNode, ToSet
  <2>2. Located(g, id) = NodesForId(g, f, id.local)
    BY <2>1, LocatedIs
  <2>3. f # 0
    BY <2>1, NodesForIdIs
  <2>4. ASSUME n \in NodesForId(g, f, id.local) PROVE n \in DOMAIN g.nodes /\ SavedId(g, n) = id
    <3>1. n \in DOMAIN g.nodes /\ g.nodes[n].file = f /\ g.nodes[n].local = id.local
      BY <2>1, <2>4, NodesForIdIs
    <3> QED BY <2>1, <2>3, <3>1 DEF IsId, SavedId
  <2>5. ASSUME n \in DOMAIN g.nodes, SavedId(g, n) = id PROVE n \in NodesForId(g, f, id.local)
    <3>1. ~ (n <= JUMP_TO)
      BY <2>1, <2>5, SavedIdOf
    <3> DEFINE e == g.nodes[n].file
    <3>2. e \in DOMAIN g.files /\ g.files[e] = g.files[f] /\ g.nodes[n].local = id.local
      BY <2>1, <2>5, <3>1, SavedIdOf
    <3>3. e = f
      BY <2>1, <3>2, IntactIs DEF FilesIntact, IsInjective
    <3>4. id.local < Len(g.ids[f]) /\ g.ids[f][id.local + 1] = n
      BY <2>5, <3>1, <3>2, <3>3, IntactIs DEF NodesIntact, NodeIntact
    <3> QED BY <2>3, <2>5, <3>4 DEF NodesForId
  <2> QED BY <2>2, <2>4, <2>5
<1> QED BY <1>1, <1>2

LEMMA LoadedNodeHas ==
  ASSUME NEW g, Intact(g), NEW node, NEW file \in DOMAIN g.files,
         node.id.file = {g.files[file]}, node.id.local \in Nat
  PROVE  LET loaded == WithNode(g, Node(file, node.id.local, node.payload))
             next == LoadedNode(g, node)
         IN  \/ loaded = {} /\ next = g /\ NodesForId(g, file, node.id.local) # {}
             \/ \E a \in loaded : next = WithInfo(a, Len(a.nodes), Bare(node.spans))
<1> DEFINE local == node.id.local
           payload == node.payload
           next == LoadedNode(g, node)
           loaded == WithNode(g, Node(file, local, payload))
<1>1. node.id.file # {}
  OBVIOUS
<1>2. (CHOOSE f \in UNION {FileHandles(g, name) : name \in node.id.file} : TRUE) = file
  <2>1. UNION {FileHandles(g, name) : name \in node.id.file} = {file}
    BY FileHandlesAre
  <2> QED BY <2>1
<1>3. next = IF loaded = {} THEN g
             ELSE WithInfo(CHOOSE x \in loaded : TRUE, Len(g.nodes) + 1, Bare(node.spans))
  <2> DEFINE info == {[span |-> span, line |-> "none", name |-> "none", definiens |-> "none"] : span \in node.spans}
  <2>1. next = IF loaded = {} THEN g
               ELSE [CHOOSE x \in loaded : TRUE EXCEPT !.info[Len(g.nodes) + 1] = info]
    BY ONLY <1>1, <1>2, Zenon DEF LoadedNode, LoadedId, next, loaded, info, local, payload
  <2>2. info = Bare(node.spans)
    BY DEF Bare
  <2> HIDE DEF loaded, info, next
  <2> QED BY <2>1, <2>2 DEF WithInfo
<1> HIDE DEF next, payload, local
<1>4. CASE loaded = {}
  <2>1. Node(file, local, payload).file = file /\ Node(file, local, payload).local = local
    BY NodeIs
  <2>2. NodesForId(g, file, local) # {}
    BY <1>4, <2>1 DEF WithNode
  <2> QED BY <1>3, <1>4, <2>2 DEF next, payload, local
<1>5. CASE loaded # {}
  <2>1. PICK a \in loaded : next = WithInfo(a, Len(g.nodes) + 1, Bare(node.spans))
    BY <1>3, <1>5
  <2>2. Len(a.nodes) = Len(g.nodes) + 1
    BY <2>1, WithNodeIntact DEF local
  <2> QED BY <2>1, <2>2 DEF next, payload, local
<1> QED BY <1>4, <1>5

(* A graph with the nodes that have been loaded so far, besides those of b. *)
Fills(k, nodes, b) ==
  /\ Extends(k, b) /\ k.notes = b.notes
  /\ \A x, y, p : Leads(k, x, y, p) <=> Leads(b, x, y, p)
  /\ \A x \in DOMAIN k.nodes \ DOMAIN b.nodes : \E node \in nodes :
       /\ SavedId(k, x) = node.id /\ k.nodes[x].payload = node.payload
       /\ k.info[x] = Bare(node.spans)
  /\ \A node \in nodes : \E x \in DOMAIN k.nodes : SavedId(k, x) = node.id

LEMMA LoadedNodeFills ==
  ASSUME NEW b, NEW nodes, NEW g, Fills(g, nodes, b),
         NEW node, IsId(node.id), NamesNode(b, node.id)
  PROVE  Fills(LoadedNode(g, node), nodes \cup {node}, b)
<1> DEFINE k == LoadedNode(g, node)
<1>1. Intact(g) /\ Extends(g, b) /\ g.files = b.files
  BY DEF Fills, Extends
<1>2. NamesNode(g, node.id)
  BY <1>1 DEF NamesNode
<1>3. ASSUME k = g, NEW x \in DOMAIN g.nodes, SavedId(g, x) = node.id
      PROVE  Fills(k, nodes \cup {node}, b)
  <2> HIDE DEF k
  <2> QED BY <1>3 DEF Fills
<1>4. CASE node.id.file = {}
  <2>1. Singleton(node.id)
    BY <1>4 DEF NamesNode
  <2>2. k = g
    BY <1>4 DEF LoadedNode
  <2>3. PICK x : x \in Located(g, node.id)
    BY <1>1, <2>1, LocatedIs
  <2>4. x \in DOMAIN g.nodes /\ SavedId(g, x) = node.id
    BY <1>1, <1>2, <2>3, LocatedIsNode
  <2> QED BY <1>3, <2>2, <2>4
<1>5. CASE node.id.file # {}
  <2>1. PICK file \in DOMAIN g.files : node.id.local \in Nat /\ node.id.file = {g.files[file]}
    BY <1>2, <1>5 DEF NamesNode, Singleton, ToSet
  <2> DEFINE local == node.id.local
             payload == node.payload
             loaded == WithNode(g, Node(file, local, payload))
  <2>2. \/ k = g /\ NodesForId(g, file, local) # {}
        \/ \E a \in loaded : k = WithInfo(a, Len(a.nodes), Bare(node.spans))
    BY <1>1, <2>1, LoadedNodeHas
  <2> HIDE DEF k
  <2>3. CASE k = g /\ NodesForId(g, file, local) # {}
    <3>1. PICK x : x \in Located(g, node.id)
      BY <1>1, <2>1, <2>3, LocatedIs
    <3>2. x \in DOMAIN g.nodes /\ SavedId(g, x) = node.id
      BY <1>1, <1>2, <3>1, LocatedIsNode
    <3> QED BY <1>3, <2>3, <3>2 DEF k
  <2>4. CASE \E a \in loaded : k = WithInfo(a, Len(a.nodes), Bare(node.spans))
    <3>1. PICK a \in loaded : k = WithInfo(a, Len(a.nodes), Bare(node.spans))
      BY <2>4
    <3> DEFINE info == Bare(node.spans)
               new == Len(a.nodes)
               z == WithInfo(a, Len(a.nodes), info)
    <3>2. /\ Extends(z, b) /\ z.files = g.files /\ z.notes = g.notes
          /\ \A n \in DOMAIN g.nodes : z.nodes[n] = g.nodes[n] /\ z.info[n] = g.info[n]
          /\ \A n \in DOMAIN g.nodes : SavedId(z, n) = SavedId(g, n)
          /\ DOMAIN z.nodes = DOMAIN g.nodes \cup {new} /\ new \notin DOMAIN g.nodes
          /\ z.nodes[new] = Node(file, local, payload) /\ z.info[new] = info
          /\ SavedId(z, new) = [file |-> {g.files[file]}, local |-> local]
          /\ \A x, y, p : Leads(z, x, y, p) <=> Leads(g, x, y, p)
      <4> HIDE DEF local, payload, info
      <4>1. local \in Nat
        BY <2>1 DEF local
      <4> QED BY ONLY <1>1, <2>1, <3>1, <4>1, NodeExtends
    <3>3. z.nodes[new].payload = payload
      BY <3>2, NodeIs
    <3>4. SavedId(z, new) = node.id
      BY <2>1, <3>2 DEF IsId
    <3> HIDE DEF z, new, local, payload, info
    <3>5. k = z
      BY <3>1 DEF z, info
    <3>6. ASSUME NEW x \in DOMAIN z.nodes \ DOMAIN b.nodes
          PROVE  \E m \in nodes \cup {node} :
                   /\ SavedId(z, x) = m.id /\ z.nodes[x].payload = m.payload
                   /\ z.info[x] = Bare(m.spans)
      <4>1. CASE x = new
        BY <3>2, <3>3, <3>4, <4>1 DEF payload, info
      <4>2. CASE x # new
        <5>1. x \in DOMAIN g.nodes \ DOMAIN b.nodes
          BY <3>2, <4>2
        <5>2. PICK m \in nodes : /\ SavedId(g, x) = m.id /\ g.nodes[x].payload = m.payload
                                 /\ g.info[x] = Bare(m.spans)
          BY <5>1 DEF Fills
        <5> QED BY <3>2, <5>1, <5>2
      <4> QED BY <4>1, <4>2
    <3>7. ASSUME NEW m \in nodes \cup {node} PROVE \E x \in DOMAIN z.nodes : SavedId(z, x) = m.id
      <4>1. CASE m = node
        BY <3>2, <3>4, <4>1
      <4>2. CASE m \in nodes
        <5>1. PICK x \in DOMAIN g.nodes : SavedId(g, x) = m.id
          BY <4>2 DEF Fills
        <5> QED BY <3>2, <5>1
      <4> QED BY <4>1, <4>2
    <3>8. z.notes = b.notes /\ \A x, y, p : Leads(z, x, y, p) <=> Leads(b, x, y, p)
      BY <3>2 DEF Fills
    <3>9. Fills(z, nodes \cup {node}, b)
      BY <3>2, <3>6, <3>7, <3>8 DEF Fills
    <3> QED BY <3>5, <3>9 DEF k
  <2> QED BY <2>2, <2>3, <2>4
<1> QED BY <1>4, <1>5

LEMMA LoadedNodesFill ==
  ASSUME NEW b, Extends(b, b), NEW nodes, IsSequence(nodes),
         \A i \in 1..Len(nodes) : IsId(nodes[i].id) /\ NamesNode(b, nodes[i].id)
  PROVE  Fills(LoadedNodes(b, nodes), {nodes[i] : i \in 1..Len(nodes)}, b)
<1> DEFINE last == Len(nodes)
           Done(k, i) == Fills(k, {nodes[j] : j \in 1..i}, b)
<1>1. last \in Nat
  BY SequenceIs
<1>2. PICK after :
        /\ after[0] = b /\ LoadedNodes(b, nodes) = after[last]
        /\ \A i \in 1..last : after[i] = LoadedNode(after[i - 1], nodes[i])
  <2>1. IsSequence(nodes)
    OBVIOUS
  <2> QED BY ONLY <2>1, LoadedNodesLoop
<1>3. Done(after[0], 0)
  <2>1. {nodes[j] : j \in 1..0} = {}
    OBVIOUS
  <2>2. Fills(b, {}, b)
    BY DEF Fills
  <2> QED BY <1>2, <2>1, <2>2
<1>4. ASSUME NEW i \in 1..last, Done(after[i - 1], i - 1) PROVE Done(after[i], i)
  <2> DEFINE old == {nodes[j] : j \in 1..i - 1}
             k == after[i - 1]
             node == nodes[i]
  <2>1. Fills(k, old, b) /\ after[i] = LoadedNode(k, node)
    BY <1>2, <1>4
  <2>2. IsId(node.id) /\ NamesNode(b, node.id)
    OBVIOUS
  <2>3. {nodes[j] : j \in 1..i} = old \cup {node}
    <3>1. \A j : j \in 1..i <=> j \in 1..i - 1 \/ j = i
      BY <1>1
    <3> QED BY <3>1
  <2> HIDE DEF old, k, node
  <2>4. Fills(LoadedNode(k, node), old \cup {node}, b)
    BY ONLY <2>1, <2>2, LoadedNodeFills
  <2> QED BY <2>1, <2>3, <2>4
<1> DEFINE T == {i \in 0..last : Done(after[i], i)}
<1> HIDE DEF Done
<1>5. Climbs(last, T)
  BY <1>1, <1>3, <1>4 DEF Climbs
<1>6. Done(after[last], last)
  <2> HIDE DEF T, last
  <2>1. last \in T
    BY <1>1, <1>5, UpTo
  <2> QED BY <2>1 DEF T
<1> QED BY <1>2, <1>6 DEF Done

Joins(f, e, x, y) ==
  /\ x \in DOMAIN f.nodes /\ y \in DOMAIN f.nodes
  /\ SavedId(f, x) = e.source /\ SavedId(f, y) = e.sink

(* A graph with the edges that have been loaded so far, besides those of f. *)
Joined(k, edges, f) ==
  /\ Intact(k) /\ k.files = f.files /\ k.nodes = f.nodes /\ k.ids = f.ids /\ k.info = f.info
  /\ \A x, y, p : Leads(k, x, y, p) =>
       Leads(f, x, y, p) \/ \E e \in edges : Joins(f, e, x, y) /\ p = e.precedence
  /\ \A e \in edges : \E x, y : Joins(f, e, x, y) /\ HasEdge(k, x, y)
  /\ k.notes \subseteq (DOMAIN f.nodes) \X (DOMAIN f.nodes)
  /\ \A x, y : Pair(x, y) \in k.notes <=>
       Pair(x, y) \in f.notes \/ \E e \in edges : e.note /\ Joins(f, e, x, y)

LEMMA LoadedEdgeJoins ==
  ASSUME NEW f, NEW edges, NEW acc, DOMAIN acc = {"graph", "outcome"}, acc.outcome = "ok",
         Joined(acc.graph, edges, f),
         NEW e, \A id \in {e.source, e.sink} : IsId(id) /\ NamesNode(f, id) /\ Located(f, id) # {}
  PROVE  LET next == LoadedEdge(acc, e)
         IN  /\ DOMAIN next = {"graph", "outcome"} /\ next.outcome = "ok"
             /\ Joined(next.graph, edges \cup {e}, f)
<1> DEFINE old == acc.graph
           s == CHOOSE n \in Located(old, e.source) : TRUE
           t == CHOOSE n \in Located(old, e.sink) : TRUE
           g == WithEdge(old, s, t, e.precedence)
           noted == IF e.note THEN [g EXCEPT !.notes = @ \cup {<<s, t>>}] ELSE g
           next == LoadedEdge(acc, e)
<1>1. /\ Intact(old) /\ old.files = f.files /\ old.nodes = f.nodes /\ old.ids = f.ids
      /\ old.info = f.info
  BY DEF Joined
<1>2. ASSUME NEW id
      PROVE  Located(old, id) = Located(f, id) /\ (NamesNode(old, id) <=> NamesNode(f, id))
  BY <1>1 DEF Located, NodesForId, FileHandles, NamesNode
<1>3. s \in Located(old, e.source) /\ t \in Located(old, e.sink)
  BY <1>2
<1>4. next = [acc EXCEPT !.graph = noted]
  BY <1>2 DEF LoadedEdge
<1>5. \A n : SavedId(old, n) = SavedId(f, n)
  BY <1>1 DEF SavedId
<1> HIDE DEF s, t, old
<1>6. Joins(f, e, s, t) /\ s \in DOMAIN old.nodes /\ t \in DOMAIN old.nodes
  BY <1>1, <1>2, <1>3, <1>5, LocatedIsNode DEF Joins
<1>7. /\ Intact(g) /\ g.files = old.files /\ g.nodes = old.nodes /\ g.ids = old.ids
      /\ g.notes = old.notes
  BY <1>1, <1>6, WithEdgeIntact
<1>8. /\ g.info = old.info /\ HasEdge(g, s, t)
      /\ \A x, y, p : Leads(old, x, y, p) => Leads(g, x, y, p)
      /\ \A x, y, p : Leads(g, x, y, p) =>
           Leads(old, x, y, p) \/ (x = s /\ y = t /\ p = e.precedence)
  <2> DEFINE precedence == e.precedence
  <2> HIDE DEF precedence
  <2> DEFINE z == WithEdge(old, s, t, precedence)
  <2>1. /\ z.info = old.info /\ HasEdge(z, s, t)
        /\ \A x, y, p : Leads(old, x, y, p) => Leads(z, x, y, p)
        /\ \A x, y, p : Leads(z, x, y, p) =>
             Leads(old, x, y, p) \/ (x = s /\ y = t /\ p = precedence)
    BY ONLY <1>1, <1>6, WithEdgeLeads
  <2> QED BY <2>1 DEF precedence
<1> HIDE DEF g
<1>9. DOMAIN g = Fields
  BY <1>7, IntactIs
<1>10. /\ DOMAIN noted = Fields /\ noted.files = g.files /\ noted.nodes = g.nodes
       /\ noted.ids = g.ids /\ noted.outgoing = g.outgoing /\ noted.incoming = g.incoming
       /\ noted.info = g.info
  BY <1>9 DEF Fields
<1>11. noted.notes = IF e.note THEN g.notes \cup {Pair(s, t)} ELSE g.notes
  BY <1>9 DEF Fields, Pair
<1> HIDE DEF noted, next
<1>12. Intact(noted)
  BY <1>7, <1>10, SameIntact
<1>13. ASSUME NEW x, NEW y, NEW p, Leads(noted, x, y, p)
       PROVE  Leads(f, x, y, p) \/ \E d \in edges \cup {e} : Joins(f, d, x, y) /\ p = d.precedence
  <2>1. Leads(g, x, y, p)
    BY <1>10, <1>13 DEF Leads
  <2>2. CASE Leads(old, x, y, p)
    BY <2>2 DEF Joined, old
  <2>3. CASE x = s /\ y = t /\ p = e.precedence
    BY <1>6, <2>3
  <2> QED BY <1>8, <2>1, <2>2, <2>3
<1>14. ASSUME NEW d \in edges \cup {e} PROVE \E x, y : Joins(f, d, x, y) /\ HasEdge(noted, x, y)
  <2>1. \A x, y : HasEdge(g, x, y) <=> HasEdge(noted, x, y)
    BY <1>10 DEF HasEdge
  <2>2. CASE d = e
    BY <1>6, <1>8, <2>1, <2>2
  <2>3. CASE d \in edges
    <3>1. PICK x, y : Joins(f, d, x, y) /\ HasEdge(old, x, y)
      BY <2>3 DEF Joined, old
    <3>2. x \in DOMAIN old.nodes
      BY <1>1, <3>1 DEF Joins
    <3>3. PICK p : Leads(old, x, y, p)
      BY <1>1, <3>1, <3>2, LeadsIs
    <3>4. HasEdge(g, x, y)
      BY <1>7, <1>8, <3>3, LeadsIs
    <3> QED BY <2>1, <3>1, <3>4
  <2> QED BY <2>2, <2>3
<1>15. noted.notes \subseteq (DOMAIN f.nodes) \X (DOMAIN f.nodes)
  <2>1. old.notes \subseteq (DOMAIN f.nodes) \X (DOMAIN f.nodes)
    BY DEF Joined, old
  <2>2. Pair(s, t) \in (DOMAIN f.nodes) \X (DOMAIN f.nodes)
    BY <1>6 DEF Joins, Pair
  <2> QED BY <1>7, <1>11, <2>1, <2>2
<1>16. ASSUME NEW x, NEW y
       PROVE  Pair(x, y) \in noted.notes <=>
                Pair(x, y) \in f.notes \/ \E d \in edges \cup {e} : d.note /\ Joins(f, d, x, y)
  <2>1. Pair(x, y) \in old.notes <=>
          Pair(x, y) \in f.notes \/ \E d \in edges : d.note /\ Joins(f, d, x, y)
    BY DEF Joined, old
  <2>2. Pair(x, y) = Pair(s, t) <=> Joins(f, e, x, y)
    <3>1. Pair(x, y) = Pair(s, t) <=> x = s /\ y = t
      BY DEF Pair
    <3>2. ASSUME Joins(f, e, x, y) PROVE x = s /\ y = t
      <4>1. /\ x \in DOMAIN old.nodes /\ y \in DOMAIN old.nodes
            /\ SavedId(old, x) = SavedId(old, s) /\ SavedId(old, y) = SavedId(old, t)
        BY <1>1, <1>5, <1>6, <3>2 DEF Joins
      <4> QED BY <1>1, <1>6, <4>1, SavedIdUnique
    <3> QED BY <1>6, <3>1, <3>2
  <2>3. Pair(x, y) \in noted.notes <=> Pair(x, y) \in old.notes \/ (e.note /\ Pair(x, y) = Pair(s, t))
    BY <1>7, <1>11
  <2>4. (\E d \in edges \cup {e} : d.note /\ Joins(f, d, x, y))
          <=> (\E d \in edges : d.note /\ Joins(f, d, x, y)) \/ (e.note /\ Joins(f, e, x, y))
    BY Zenon
  <2> QED BY <2>1, <2>2, <2>3, <2>4
<1>17. Joined(noted, edges \cup {e}, f)
  <2> HIDE DEF Pair, Joins
  <2> QED BY <1>1, <1>7, <1>8, <1>10, <1>12, <1>13, <1>14, <1>15, <1>16 DEF Joined
<1>18. DOMAIN next = {"graph", "outcome"} /\ next.outcome = "ok" /\ next.graph = noted
  BY <1>4
<1> QED BY <1>17, <1>18 DEF next

LEMMA LoadedEdgesJoin ==
  ASSUME NEW f, Intact(f), f.notes \subseteq (DOMAIN f.nodes) \X (DOMAIN f.nodes),
         NEW edges, IsSequence(edges),
         \A i \in 1..Len(edges) : \A id \in {edges[i].source, edges[i].sink} :
           IsId(id) /\ NamesNode(f, id) /\ Located(f, id) # {}
  PROVE  LET result == LoadedEdges(Result(f, "ok"), edges)
         IN  result.outcome = "ok" /\ Joined(result.graph, {edges[i] : i \in 1..Len(edges)}, f)
<1> DEFINE last == Len(edges)
           Done(a, i) == /\ DOMAIN a = {"graph", "outcome"} /\ a.outcome = "ok"
                         /\ Joined(a.graph, {edges[j] : j \in 1..i}, f)
<1>1. last \in Nat
  BY SequenceIs
<1>2. PICK after :
        /\ after[0] = Result(f, "ok") /\ LoadedEdges(Result(f, "ok"), edges) = after[last]
        /\ \A i \in 1..last : after[i] = LoadedEdge(after[i - 1], edges[i])
  <2> DEFINE first == Result(f, "ok")
  <2> HIDE DEF first
  <2>1. IsSequence(edges)
    OBVIOUS
  <2>2. \E after :
          /\ after[0] = first /\ LoadedEdges(first, edges) = after[Len(edges)]
          /\ \A i \in 1..Len(edges) : after[i] = LoadedEdge(after[i - 1], edges[i])
    BY ONLY <2>1, LoadedEdgesLoop
  <2> QED BY <2>2 DEF first
<1>3. Done(after[0], 0)
  <2>1. {edges[j] : j \in 1..0} = {}
    OBVIOUS
  <2>2. Joined(f, {}, f)
    BY DEF Joined
  <2>3. after[0] = [graph |-> f, outcome |-> "ok"]
    BY <1>2 DEF Result
  <2> DEFINE a == after[0]
             none == {edges[j] : j \in 1..0}
  <2>4. none = {} /\ DOMAIN a = {"graph", "outcome"} /\ a.outcome = "ok" /\ a.graph = f
    BY <2>1, <2>3
  <2> HIDE DEF a, none
  <2>5. DOMAIN a = {"graph", "outcome"} /\ a.outcome = "ok" /\ Joined(a.graph, none, f)
    BY <2>2, <2>4
  <2> QED BY <2>5 DEF a, none
<1>4. ASSUME NEW i \in 1..last, Done(after[i - 1], i - 1) PROVE Done(after[i], i)
  <2> DEFINE old == {edges[j] : j \in 1..i - 1}
             a == after[i - 1]
             e == edges[i]
             next == LoadedEdge(a, e)
  <2>1. /\ DOMAIN a = {"graph", "outcome"} /\ a.outcome = "ok"
        /\ Joined(a.graph, old, f) /\ after[i] = next
    BY <1>2, <1>4
  <2>2. \A id \in {e.source, e.sink} : IsId(id) /\ NamesNode(f, id) /\ Located(f, id) # {}
    OBVIOUS
  <2>3. {edges[j] : j \in 1..i} = old \cup {e}
    <3>1. \A j : j \in 1..i <=> j \in 1..i - 1 \/ j = i
      BY <1>1
    <3> QED BY <3>1
  <2> HIDE DEF old, a, e
  <2>4. /\ DOMAIN next = {"graph", "outcome"} /\ next.outcome = "ok"
        /\ Joined(next.graph, old \cup {e}, f)
    BY ONLY <2>1, <2>2, LoadedEdgeJoins
  <2> HIDE DEF next
  <2> QED BY <2>1, <2>3, <2>4
<1> DEFINE T == {i \in 0..last : Done(after[i], i)}
<1> HIDE DEF Done
<1>5. Climbs(last, T)
  BY <1>1, <1>3, <1>4 DEF Climbs
<1>6. Done(after[last], last)
  <2> HIDE DEF T, last
  <2>1. last \in T
    BY <1>1, <1>5, UpTo
  <2> QED BY <2>1 DEF T
<1> QED BY <1>2, <1>6 DEF Done

Items(seq) == {seq[i] : i \in 1..Len(seq)}

(* The ids of what was saved say no more than the name of a file and a      *)
(* local id.                                                                *)
Identified(s) ==
  /\ \A i \in 1..Len(s.nodes) : IsId(s.nodes[i].id)
  /\ \A i \in 1..Len(s.edges) : IsId(s.edges[i].source) /\ IsId(s.edges[i].sink)

(* g, into which all that was saved has been loaded: the files, the nodes,  *)
(* the edges.                                                               *)
IsLoad(k, s, g) ==
  \E b, f : /\ Intact(b) /\ SameNodes(g, b) /\ FilesAdded(g, b, s.files, Len(s.files))
            /\ Fills(f, Items(s.nodes), b) /\ Joined(k, Items(s.edges), f)

LEMMA LoadsDescribed ==
  ASSUME NEW g, Intact(g), Described(g), NEW s, NEW k, IsLoad(k, s, g)
  PROVE  Described(k)
<1>1. PICK b, f : /\ SameNodes(g, b) /\ Fills(f, Items(s.nodes), b)
                  /\ Joined(k, Items(s.edges), f)
  BY DEF IsLoad
<1>2. Described(b) /\ Extends(f, b) /\ k.nodes = f.nodes /\ k.info = f.info
  BY <1>1 DEF SameNodes, Described, Fills, Joined
<1>3. IsSequence(k.info) /\ Len(k.info) = Len(k.nodes)
      /\ k.notes \subseteq (DOMAIN k.nodes) \X (DOMAIN k.nodes)
  BY <1>1, <1>2 DEF Extends, Joined
<1>4. ASSUME NEW n \in DOMAIN k.nodes, NEW info \in k.info[n]
      PROVE  DOMAIN info = {"span", "line", "name", "definiens"}
  <2>1. CASE n \in DOMAIN b.nodes
    <3>1. k.info[n] = b.info[n]
      BY <1>2, <2>1 DEF Extends
    <3> QED BY <1>2, <1>4, <2>1, <3>1 DEF Described
  <2>2. CASE n \notin DOMAIN b.nodes
    <3>1. PICK node : f.info[n] = Bare(node.spans)
      BY <1>1, <1>2, <2>2 DEF Fills
    <3>2. info \in Bare(node.spans)
      BY <1>2, <1>4, <3>1
    <3> QED BY <3>2 DEF Bare
  <2> QED BY <2>1, <2>2
<1> QED BY <1>3, <1>4 DEF Described

(* The nodes before the first one that fails. *)
LEMMA BeforeFailingIs ==
  ASSUME NEW nodes, IsSequence(nodes), NEW failing, failing \subseteq 1..Len(nodes), failing # {}
  PROVE  LET before == BeforeFailing(nodes, failing)
         IN  /\ IsSequence(before)
             /\ \A i \in 1..Len(before) : i \in 1..Len(nodes) /\ before[i] = nodes[i]
<1> DEFINE first == CHOOSE i \in failing : \A j \in failing : i <= j
<1>1. Len(nodes) \in Nat
  BY SequenceIs
<1>2. failing \in SUBSET Nat
  BY <1>1
<1>3. first \in failing
  BY <1>2, Least
<1>4. BeforeFailing(nodes, failing) = SubSeq(nodes, 1, first - 1)
  BY DEF BeforeFailing
<1> HIDE DEF first
<1>5. first \in 1..Len(nodes)
  BY <1>3
<1> DEFINE last == first - 1
<1>6. last \in Nat /\ 1 <= last + 1 /\ last <= Len(nodes)
  BY <1>1, <1>5
<1> HIDE DEF last
<1>7. /\ IsSequence(SubSeq(nodes, 1, last)) /\ Len(SubSeq(nodes, 1, last)) = last - 1 + 1
      /\ \A i \in 1..last - 1 + 1 : SubSeq(nodes, 1, last)[i] = nodes[1 + i - 1]
  BY <1>6, SubSeqIs
<1>8. last - 1 + 1 = last /\ \A i \in 1..last : 1 + i - 1 = i /\ i \in 1..Len(nodes)
  BY <1>1, <1>6
<1> QED BY <1>4, <1>7, <1>8 DEF last

(* Nodes of new files have been loaded, and no edges. *)
LEMMA FilledAddsNodes ==
  ASSUME NEW g, Intact(g), NEW b, Intact(b), SameNodes(g, b),
         NEW names, IsSequence(names), FilesAdded(g, b, names, Len(names)),
         NEW nodes, NEW k, Fills(k, nodes, b),
         \A node \in nodes : Singleton(node.id) \/ \E name \in ToSet(names) : node.id.file = {name}
  PROVE  OnlyNodesAdded(g, k)
<1>1. /\ Intact(k) /\ Extends(k, b) /\ k.files = b.files /\ k.notes = b.notes
      /\ \A x, y, p : Leads(k, x, y, p) <=> Leads(b, x, y, p)
  BY DEF Fills, Extends
<1>2. b.nodes = g.nodes /\ b.info = g.info /\ b.notes = g.notes
  BY DEF SameNodes
<1>3. OnlyNodesAdded(g, b)
  <2>1. Len(names) \in Nat
    BY SequenceIs
  <2> QED BY <2>1, FilesAddedLeave
<1>4. Edges(k) = Edges(g)
  <2>1. Edges(k) = Edges(b)
    BY <1>1, EdgesSame
  <2> QED BY <1>3, <2>1 DEF OnlyNodesAdded
<1>5. \A n \in DOMAIN g.nodes : k.nodes[n] = g.nodes[n] /\ k.info[n] = g.info[n]
  BY <1>1, <1>2 DEF Extends
<1>6. ToSet(g.files) \cap ToSet(names) = {}
  BY FilesAddedAre
<1>7. ASSUME NEW n \in DOMAIN k.nodes \ DOMAIN g.nodes
      PROVE  k.nodes[n].file \in DOMAIN k.files \ DOMAIN g.files
  <2> DEFINE f == k.nodes[n].file
  <2>1. PICK node \in nodes : SavedId(k, n) = node.id
    BY <1>2, <1>7 DEF Fills
  <2>2. ~ (n <= JUMP_TO)
    <3>1. n <= JUMP_TO => n \in {ROOT, JUMP_TO}
      BY <1>1, <1>7, SavedIdOf
    <3> QED BY <1>7, <3>1, SingletonsIn
  <2>3. f \in DOMAIN k.files /\ SavedId(k, n).file = {k.files[f]}
    BY <1>1, <1>7, <2>2, SavedIdOf
  <2>4. ~ Singleton(node.id)
    BY <2>1, <2>3 DEF Singleton
  <2>5. PICK name \in ToSet(names) : node.id.file = {name}
    BY <2>4
  <2> HIDE DEF f
  <2>6. k.files[f] \in ToSet(names)
    BY <2>1, <2>3, <2>5
  <2>7. f \notin DOMAIN g.files
    <3> SUFFICES ASSUME f \in DOMAIN g.files PROVE FALSE
      OBVIOUS
    <3>1. k.files[f] = g.files[f]
      BY <1>1, <1>3 DEF OnlyNodesAdded
    <3>2. g.files[f] \in ToSet(g.files)
      BY DEF ToSet
    <3> QED BY <1>6, <2>6, <3>1, <3>2
  <2> QED BY <2>3, <2>7 DEF f
<1> QED BY <1>1, <1>2, <1>3, <1>4, <1>5, <1>7 DEF OnlyNodesAdded

LEMMA FillsDescribed ==
  ASSUME NEW b, Described(b), NEW nodes, NEW k, Fills(k, nodes, b)
  PROVE  Described(k)
<1>1. /\ IsSequence(k.info) /\ Len(k.info) = Len(k.nodes) /\ k.notes = b.notes
      /\ \A n \in DOMAIN b.nodes : n \in DOMAIN k.nodes /\ k.info[n] = b.info[n]
  BY DEF Fills, Extends
<1>2. ASSUME NEW n \in DOMAIN k.nodes, NEW info \in k.info[n]
      PROVE  DOMAIN info = {"span", "line", "name", "definiens"}
  <2>1. CASE n \in DOMAIN b.nodes
    BY <1>1, <1>2, <2>1 DEF Described
  <2>2. CASE n \notin DOMAIN b.nodes
    <3>1. PICK node \in nodes : k.info[n] = Bare(node.spans)
      BY <1>2, <2>2 DEF Fills
    <3>2. info \in Bare(node.spans)
      BY <1>2, <3>1
    <3> QED BY <3>2 DEF Bare
  <2> QED BY <2>1, <2>2
<1>3. k.notes \subseteq (DOMAIN k.nodes) \X (DOMAIN k.nodes)
  BY <1>1 DEF Described
<1> QED BY <1>1, <1>2, <1>3 DEF Described

LEMMA LoadedIs ==
  ASSUME NEW g, Intact(g), NEW s, SavedIntact(s)
  PROVE  LET result == Loaded(g, s)
         IN  /\ Intact(result.graph) /\ result.outcome \in {"ok", "failed"}
             /\ result.outcome = "failed" /\ Described(g) /\ Identified(s) =>
                  /\ OnlyNodesAdded(g, result.graph)
                  /\ result.graph.nodes # g.nodes =>
                       \E i \in DOMAIN s.nodes : ~ Resolves(result.graph, s.nodes[i])
             /\ Described(g) /\ Identified(s) => Described(result.graph)
             /\ Described(g) /\ Identified(s) /\ result.outcome = "ok" => IsLoad(result.graph, s, g)
<1> DEFINE files == WithFiles(g, s.files)
           full == files.graph
           failing == {i \in DOMAIN s.nodes : ~ Resolves(full, s.nodes[i])}
           before == BeforeFailing(s.nodes, failing)
           filled == LoadedNodes(full, s.nodes)
           result == Loaded(g, s)
<1>1. /\ IsSequence(s.files) /\ IsSequence(s.nodes) /\ IsSequence(s.edges)
      /\ DOMAIN s.files = 1..Len(s.files) /\ DOMAIN s.nodes = 1..Len(s.nodes)
      /\ DOMAIN s.edges = 1..Len(s.edges)
  BY SequenceIs DEF SavedIntact
<1>2. /\ Intact(full) /\ SameNodes(g, full)
      /\ files.outcome \in {"ok", "failed"}
      /\ files.outcome = "ok" => FilesAdded(g, full, s.files, Len(s.files))
      /\ OnlyNodesAdded(g, full) /\ full.nodes = g.nodes
  BY <1>1, WithFilesIs, FilesAddedLeave
<1>3. result = IF files.outcome = "failed" THEN files
               ELSE IF failing # {} THEN Result(LoadedNodes(full, before), "failed")
               ELSE LoadedEdges(Result(filled, "ok"), s.edges)
  BY DEF Loaded, LoadedEdges, LoadedNodes
<1> HIDE DEF files, failing, before, filled, result
<1>4. CASE files.outcome = "failed"
  <2>1. Described(g) => Described(full)
    BY <1>2 DEF SameNodes, Described
  <2> QED BY <1>2, <1>3, <1>4, <2>1 DEF result
<1>5. ASSUME files.outcome = "ok", NEW i \in 1..Len(s.nodes) PROVE NamesNode(full, s.nodes[i].id)
  <2>1. ToSet(s.files) \subseteq ToSet(full.files)
    <3>1. FilesAdded(g, full, s.files, Len(s.files))
      BY <1>2, <1>5
    <3>2. IsSequence(full.files) /\ IsSequence(g.files)
      BY <1>2, IntactIs DEF FilesIntact
    <3>3. DOMAIN full.files = 1..Len(full.files) /\ Len(g.files) \in Nat /\ Len(s.files) \in Nat
      BY <1>1, <3>2, SequenceIs
    <3>4. ASSUME NEW j \in DOMAIN s.files PROVE s.files[j] \in ToSet(full.files)
      <4>1. j \in 1..Len(s.files)
        BY <1>1
      <4>2. full.files[Len(g.files) + j] = s.files[j]
        BY <3>1, <4>1 DEF FilesAdded
      <4>3. Len(full.files) = Len(g.files) + Len(s.files)
        BY <3>1 DEF FilesAdded
      <4>4. Len(g.files) + j \in DOMAIN full.files
        <5>1. \A a, b \in Nat : \A k \in 1..b : a + k \in 1..a + b
          OBVIOUS
        <5> QED BY <3>3, <4>1, <4>3, <5>1
      <4> QED BY <4>2, <4>4 DEF ToSet
    <3> QED BY <3>4 DEF ToSet
  <2> QED BY <1>1, <2>1 DEF SavedIntact, NamesNode
<1>6. CASE files.outcome = "ok" /\ failing # {}
  <2> DEFINE k == LoadedNodes(full, before)
  <2>1. result.graph = k /\ result.outcome = "failed"
    BY <1>3, <1>6 DEF Result
  <2>2. /\ IsSequence(before)
        /\ \A i \in 1..Len(before) : i \in 1..Len(s.nodes) /\ before[i] = s.nodes[i]
    BY <1>1, <1>6, BeforeFailingIs DEF failing, before
  <2>3. \A i \in 1..Len(before) : NamesNode(full, before[i].id)
    BY <1>5, <1>6, <2>2
  <2>4. Intact(k) /\ k.files = full.files
    BY <1>2, <2>2, <2>3, LoadedNodesAre
  <2>5. \E i \in DOMAIN s.nodes : ~ Resolves(k, s.nodes[i])
    <3>1. \A node : Resolves(k, node) <=> Resolves(full, node)
      BY <2>4 DEF Resolves
    <3> QED BY <1>6, <3>1 DEF failing
  <2> DEFINE nodes == {before[i] : i \in 1..Len(before)}
  <2>6. ASSUME Described(g), Identified(s) PROVE Described(full) /\ Fills(k, nodes, full)
    <3>1. Described(full) /\ Extends(full, full)
      BY <1>2, <2>6 DEF SameNodes, Described, Extends
    <3>2. \A i \in 1..Len(before) : IsId(before[i].id) /\ NamesNode(full, before[i].id)
      BY <2>2, <2>3, <2>6 DEF Identified
    <3> QED BY <2>2, <3>1, <3>2, LoadedNodesFill
  <2>7. \A node \in nodes : Singleton(node.id) \/ \E name \in ToSet(s.files) : node.id.file = {name}
    <3>1. \A i \in DOMAIN s.nodes : \/ Singleton(s.nodes[i].id)
                                    \/ \E name \in ToSet(s.files) : s.nodes[i].id.file = {name}
      BY DEF SavedIntact
    <3> QED BY <1>1, <2>2, <3>1
  <2> HIDE DEF k, nodes
  <2>8. ASSUME Described(g), Identified(s) PROVE OnlyNodesAdded(g, k) /\ Described(k)
    <3>1. FilesAdded(g, full, s.files, Len(s.files))
      BY <1>2, <1>6
    <3> QED BY <1>1, <1>2, <2>6, <2>7, <2>8, <3>1, FilledAddsNodes, FillsDescribed
  <2> QED BY <2>1, <2>4, <2>5, <2>8 DEF result
<1>7. CASE files.outcome = "ok" /\ failing = {}
  <2>3. /\ Intact(filled) /\ filled.files = full.files
        /\ \A i \in 1..Len(s.nodes) : Located(filled, s.nodes[i].id) # {}
    BY <1>1, <1>2, <1>5, <1>7, LoadedNodesAre DEF filled
  <2>4. ASSUME NEW i \in 1..Len(s.edges), NEW id \in {s.edges[i].source, s.edges[i].sink}
        PROVE  NamesNode(filled, id) /\ Located(filled, id) # {}
    <3>1. CASE Singleton(id)
      BY <2>3, <3>1, LocatedIs DEF NamesNode
    <3>2. CASE ~ Singleton(id)
      <4>1. PICK j \in DOMAIN s.nodes : s.nodes[j].id = id
        BY <1>1, <3>2 DEF SavedIntact
      <4>2. NamesNode(full, id)
        BY <1>1, <1>5, <1>7, <4>1
      <4> QED BY <1>1, <2>3, <4>1, <4>2 DEF NamesNode
    <3> QED BY <3>1, <3>2
  <2>5. Intact(result.graph) /\ result.outcome = "ok"
    BY <1>1, <1>3, <1>7, <2>3, <2>4, LoadedEdgesAre
  <2>6. ASSUME Described(g), Identified(s) PROVE IsLoad(result.graph, s, g)
    <3>1. Described(full) /\ Extends(full, full)
      BY <1>2, <2>6 DEF SameNodes, Described, Extends
    <3>2. Fills(filled, Items(s.nodes), full)
      <4>1. IsSequence(s.nodes)
        BY <1>1
      <4>2. \A i \in 1..Len(s.nodes) : IsId(s.nodes[i].id) /\ NamesNode(full, s.nodes[i].id)
        BY <1>5, <1>7, <2>6 DEF Identified
      <4> QED BY <3>1, <4>1, <4>2, LoadedNodesFill DEF Items, filled
    <3>3. filled.notes \subseteq (DOMAIN filled.nodes) \X (DOMAIN filled.nodes)
      BY <3>1, <3>2 DEF Fills, Extends, Described
    <3>4. Joined(result.graph, Items(s.edges), filled)
      <4> DEFINE edges == s.edges
                 end == LoadedEdges(Result(filled, "ok"), edges)
      <4>1. \A i \in 1..Len(edges) : \A id \in {edges[i].source, edges[i].sink} :
              IsId(id) /\ NamesNode(filled, id) /\ Located(filled, id) # {}
        BY <2>4, <2>6 DEF Identified
      <4>2. IsSequence(edges) /\ Intact(filled)
        BY <1>1, <2>3
      <4> HIDE DEF edges
      <4>3. Joined(end.graph, {edges[i] : i \in 1..Len(edges)}, filled)
        BY ONLY <3>3, <4>1, <4>2, LoadedEdgesJoin
      <4>4. result = end
        BY <1>3, <1>7 DEF edges
      <4> QED BY <4>3, <4>4 DEF Items, edges
    <3>5. FilesAdded(g, full, s.files, Len(s.files))
      BY <1>2, <1>7
    <3> QED BY <1>2, <3>2, <3>4, <3>5 DEF IsLoad
  <2>7. ASSUME Described(g), Identified(s) PROVE Described(result.graph)
    BY <2>6, <2>7, LoadsDescribed
  <2> QED BY <2>5, <2>6, <2>7 DEF result
<1> QED BY <1>2, <1>4, <1>6, <1>7

LEMMA SavedEdgeIs ==
  ASSUME NEW h, Intact(h), NEW names, NEW s, Saves(s, h, names), NEW e \in Items(s.edges)
  PROVE  \E u, v, p :
           /\ Leads(h, u, v, p) /\ u \in DOMAIN h.nodes /\ v \in DOMAIN h.nodes
           /\ e.source = SavedId(h, u) /\ e.sink = SavedId(h, v)
           /\ e.precedence = p /\ (e.note <=> <<u, v>> \in h.notes)
<1>1. PICK u, v, p : /\ Leads(h, u, v, p) /\ IncludesNode(h, names, u) /\ IncludesNode(h, names, v)
                     /\ e = Link(h, u, v, p, <<u, v>> \in h.notes)
  <2>1. PICK i \in 1..Len(s.edges) : e = s.edges[i]
    BY DEF Items
  <2>2. PICK u, v, p :
          /\ Leads(h, u, v, p) /\ IncludesNode(h, names, u) /\ IncludesNode(h, names, v)
          /\ s.edges[i] = Link(h, u, v, p, <<u, v>> \in h.notes)
    BY DEF Saves
  <2> QED BY <2>1, <2>2, Zenon
<1>2. e.source = SavedId(h, u) /\ e.sink = SavedId(h, v) /\ e.precedence = p
  BY <1>1, LinkIs
<1>3. e.note <=> <<u, v>> \in h.notes
  <2> DEFINE bare(note) == Link(h, u, v, p, note)
  <2>1. \A note : bare(note).note = note
    BY DEF Link
  <2>2. e = bare(<<u, v>> \in h.notes)
    BY <1>1
  <2> HIDE DEF bare
  <2>3. e.note = (<<u, v>> \in h.notes)
    BY <2>1, <2>2, Zenon
  <2> QED BY <2>3, Zenon
<1>4. u \in DOMAIN h.nodes /\ v \in DOMAIN h.nodes
  BY <1>1, LeadsIs
<1> QED BY <1>1, <1>2, <1>3, <1>4

LEMMA EdgeIsSaved ==
  ASSUME NEW h, Intact(h), NEW names, NEW s, Saves(s, h, names),
         NEW u, NEW v, NEW p, Leads(h, u, v, p), IncludesNode(h, names, u), IncludesNode(h, names, v)
  PROVE  \E i \in 1..Len(s.edges) :
           /\ s.edges[i].source = SavedId(h, u) /\ s.edges[i].sink = SavedId(h, v)
           /\ s.edges[i].precedence = p /\ (s.edges[i].note <=> <<u, v>> \in h.notes)
<1>1. PICK i \in 1..Len(s.edges) : s.edges[i] = Link(h, u, v, p, <<u, v>> \in h.notes)
  BY DEF Saves
<1> DEFINE e == s.edges[i]
<1>2. e = Link(h, u, v, p, <<u, v>> \in h.notes)
  BY <1>1
<1> HIDE DEF e
<1>3. e.source = SavedId(h, u) /\ e.sink = SavedId(h, v) /\ e.precedence = p
  BY <1>2, LinkIs
<1>4. e.note <=> <<u, v>> \in h.notes
  <2> DEFINE bare(note) == Link(h, u, v, p, note)
  <2>1. \A note : bare(note).note = note
    BY DEF Link
  <2>2. e = bare(<<u, v>> \in h.notes)
    BY <1>2
  <2> HIDE DEF bare
  <2>3. e.note = (<<u, v>> \in h.notes)
    BY <2>1, <2>2, Zenon
  <2> QED BY <2>3, Zenon
<1> QED BY <1>3, <1>4 DEF e

LEMMA SavesIdentified ==
  ASSUME NEW h, Intact(h), NEW names, NEW s, Saves(s, h, names)
  PROVE  Identified(s)
<1>1. \A n \in DOMAIN h.nodes : IsId(SavedId(h, n))
  BY SavedIdOf DEF IsId
<1>2. ASSUME NEW i \in 1..Len(s.nodes) PROVE IsId(s.nodes[i].id)
  <2>1. PICK n \in DOMAIN h.nodes : s.nodes[i].id = SavedId(h, n)
    BY DEF Saves
  <2> QED BY <1>1, <2>1
<1>3. ASSUME NEW i \in 1..Len(s.edges) PROVE IsId(s.edges[i].source) /\ IsId(s.edges[i].sink)
  <2> DEFINE e == s.edges[i]
  <2>1. e \in Items(s.edges)
    BY DEF Items
  <2> HIDE DEF e
  <2>2. \E u, v, p : /\ Leads(h, u, v, p) /\ u \in DOMAIN h.nodes /\ v \in DOMAIN h.nodes
                     /\ e.source = SavedId(h, u) /\ e.sink = SavedId(h, v)
                     /\ e.precedence = p /\ (e.note <=> <<u, v>> \in h.notes)
    BY <2>1, SavedEdgeIs
  <2> QED BY <1>1, <2>2 DEF e
<1> QED BY <1>2, <1>3 DEF Identified

LEMMA BareIs ==
  ASSUME NEW infos, \A info \in infos : DOMAIN info = {"span", "line", "name", "definiens"}
  PROVE  Bare({info.span : info \in infos}) = Forgotten(infos, {"name", "line", "definiens"})
<1> DEFINE Less(info) == [f \in DOMAIN info |-> IF f \in {"name", "line", "definiens"} THEN "none" ELSE info[f]]
           Only1(span) == [span |-> span, line |-> "none", name |-> "none", definiens |-> "none"]
<1>1. ASSUME NEW info \in infos PROVE Only1(info.span) = Less(info)
  OBVIOUS
<1>2. Bare({info.span : info \in infos}) = {Only1(info.span) : info \in infos}
  BY DEF Bare
<1>3. Forgotten(infos, {"name", "line", "definiens"}) = {Less(info) : info \in infos}
  BY DEF Forgotten
<1> HIDE DEF Less, Only1
<1> QED BY <1>1, <1>2, <1>3

(* The new part of a graph into which something was loaded is what the      *)
(* graph that was saved contained.                                          *)
LEMMA LoadMirrors ==
  ASSUME NEW g, Intact(g), Described(g), NEW h, Intact(h), Described(h),
         NEW names, NEW s, Saves(s, h, names), NEW k, IsLoad(k, s, g)
  PROVE  Mirrors(k, h, names, [n \in DOMAIN h.nodes |-> Forgotten(h.info[n], {"name", "line", "definiens"})], h.notes)
<1> DEFINE info == [n \in DOMAIN h.nodes |-> Forgotten(h.info[n], {"name", "line", "definiens"})]
           nodes == Items(s.nodes)
           edges == Items(s.edges)
<1>1. PICK b, f : /\ Intact(b) /\ SameNodes(g, b) /\ FilesAdded(g, b, s.files, Len(s.files))
                  /\ Fills(f, nodes, b) /\ Joined(k, edges, f)
  BY DEF IsLoad
<1>2. /\ Intact(k) /\ Intact(f) /\ Extends(f, b)
      /\ f.files = b.files /\ f.notes = b.notes
      /\ k.files = f.files /\ k.nodes = f.nodes /\ k.info = f.info
      /\ \A x, y, p : Leads(f, x, y, p) <=> Leads(b, x, y, p)
  BY <1>1 DEF Fills, Joined, Extends
<1>3. /\ ToSet(g.files) \cap names = {}
      /\ \A n \in DOMAIN b.nodes : SavedId(b, n) = SavedId(g, n)
  <2>1. IsSequence(s.files) /\ ToSet(s.files) = names /\ b.nodes = g.nodes
    BY <1>1 DEF Saves, SameNodes
  <2> QED BY <1>1, <2>1, FilesAddedAre
<1>4. \A n : SavedId(k, n) = SavedId(f, n)
  BY <1>2 DEF SavedId
<1>5. \A n \in DOMAIN b.nodes : n \in DOMAIN k.nodes /\ SavedId(k, n) = SavedId(g, n)
  <2>1. \A n \in DOMAIN b.nodes : n \in DOMAIN f.nodes /\ f.nodes[n] = b.nodes[n]
    BY <1>2 DEF Extends
  <2> QED BY <1>2, <1>3, <1>4, <2>1, SavedIdSame
<1>6. ASSUME NEW x \in DOMAIN b.nodes, IncludesNode(k, names, x) PROVE x <= JUMP_TO
  <2> SUFFICES ASSUME ~ (x <= JUMP_TO) PROVE FALSE
    OBVIOUS
  <2>1. x \in DOMAIN g.nodes
    BY <1>1 DEF SameNodes
  <2>2. /\ g.nodes[x].file \in DOMAIN g.files
        /\ SavedId(g, x).file = {g.files[g.nodes[x].file]}
    BY <2>1, SavedIdOf
  <2>3. g.files[g.nodes[x].file] \in names
    BY <1>5, <1>6, <2>2 DEF IncludesNode
  <2>4. g.files[g.nodes[x].file] \in ToSet(g.files)
    BY <2>2 DEF ToSet
  <2> QED BY <1>3, <2>3, <2>4
<1>7. ASSUME NEW x, NEW n, Same(k, x, h, n)
      PROVE  /\ x <= JUMP_TO <=> n <= JUMP_TO
             /\ IncludesNode(k, names, x) <=> IncludesNode(h, names, n)
  <2>1. x \in DOMAIN k.nodes /\ n \in DOMAIN h.nodes /\ SavedId(k, x) = SavedId(h, n)
    BY <1>7 DEF Same
  <2> QED BY <1>2, <2>1, SavedIdOf DEF IncludesNode
<1>8. ASSUME NEW node \in nodes
      PROVE  \E n \in DOMAIN h.nodes :
               /\ node.id = SavedId(h, n) /\ node.payload = h.nodes[n].payload
               /\ Bare(node.spans) = info[n]
  <2>1. PICK i \in 1..Len(s.nodes) : node = s.nodes[i]
    BY DEF Items
  <2>2. PICK n \in DOMAIN h.nodes :
          /\ node.id = SavedId(h, n) /\ node.payload = h.nodes[n].payload
          /\ node.spans = {z.span : z \in h.info[n]}
    BY <2>1 DEF Saves
  <2>3. \A z \in h.info[n] : DOMAIN z = {"span", "line", "name", "definiens"}
    BY DEF Described
  <2>4. Bare(node.spans) = Forgotten(h.info[n], {"name", "line", "definiens"})
    BY <2>2, <2>3, BareIs
  <2> QED BY <2>2, <2>4
<1>9. ASSUME NEW e \in edges
      PROVE  \E u, v, p : /\ Leads(h, u, v, p) /\ u \in DOMAIN h.nodes /\ v \in DOMAIN h.nodes
                          /\ e.source = SavedId(h, u) /\ e.sink = SavedId(h, v)
                          /\ e.precedence = p /\ (e.note <=> <<u, v>> \in h.notes)
  BY SavedEdgeIs
<1>10. ASSUME NEW u, NEW v, NEW p, Leads(h, u, v, p),
              IncludesNode(h, names, u), IncludesNode(h, names, v)
       PROVE  \E e \in edges : /\ e.source = SavedId(h, u) /\ e.sink = SavedId(h, v)
                               /\ e.precedence = p /\ (e.note <=> <<u, v>> \in h.notes)
  <2>1. PICK i \in 1..Len(s.edges) :
          /\ s.edges[i].source = SavedId(h, u) /\ s.edges[i].sink = SavedId(h, v)
          /\ s.edges[i].precedence = p /\ (s.edges[i].note <=> <<u, v>> \in h.notes)
    BY <1>10, EdgeIsSaved
  <2>2. s.edges[i] \in edges
    BY DEF Items
  <2> QED BY <2>1, <2>2
<1> HIDE DEF info, nodes, edges
<1>11. ASSUME NEW n \in DOMAIN h.nodes, IncludesNode(h, names, n) PROVE \E x : Same(k, x, h, n)
  <2>1. PICK i \in 1..Len(s.nodes) : s.nodes[i].id = SavedId(h, n)
    BY <1>11 DEF Saves
  <2>2. s.nodes[i] \in nodes
    BY DEF nodes, Items
  <2>3. PICK x \in DOMAIN f.nodes : SavedId(f, x) = SavedId(h, n)
    BY <1>1, <2>1, <2>2 DEF Fills
  <2> QED BY <1>2, <1>4, <2>3 DEF Same
<1>12. ASSUME NEW x \in DOMAIN k.nodes, x \notin DOMAIN b.nodes
       PROVE  \E n \in DOMAIN h.nodes :
                /\ SavedId(k, x) = SavedId(h, n) /\ k.nodes[x].payload = h.nodes[n].payload
                /\ k.info[x] = info[n]
  <2>1. PICK node \in nodes : /\ SavedId(f, x) = node.id /\ f.nodes[x].payload = node.payload
                              /\ f.info[x] = Bare(node.spans)
    BY <1>1, <1>2, <1>12 DEF Fills
  <2> QED BY <1>2, <1>4, <1>8, <2>1
<1>13. ASSUME NEW x \in DOMAIN k.nodes, IncludesNode(k, names, x) PROVE \E n : Same(k, x, h, n)
  <2>1. CASE x \notin DOMAIN b.nodes
    BY <1>12, <2>1 DEF Same
  <2>2. CASE x \in DOMAIN b.nodes
    <3>1. x <= JUMP_TO
      BY <1>6, <1>13, <2>2
    <3>2. x \in {ROOT, JUMP_TO} /\ SavedId(k, x) = [file |-> {}, local |-> x]
      BY <1>2, <3>1, SavedIdOf
    <3>3. x \in DOMAIN h.nodes
      BY <3>2, SingletonsIn
    <3>4. SavedId(h, x) = [file |-> {}, local |-> x]
      BY <3>1, <3>3, SavedIdOf
    <3> QED BY <3>2, <3>3, <3>4 DEF Same
  <2> QED BY <2>1, <2>2
<1>14. ASSUME NEW x, NEW n, Same(k, x, h, n), IncludesNode(h, names, n), ~ (n <= JUMP_TO)
       PROVE  /\ k.nodes[x].payload = h.nodes[n].payload /\ k.info[x] = info[n]
              /\ x \notin DOMAIN b.nodes
  <2>1. x \in DOMAIN k.nodes /\ n \in DOMAIN h.nodes /\ SavedId(k, x) = SavedId(h, n)
    BY <1>14 DEF Same
  <2>2. x \notin DOMAIN b.nodes
    BY <1>6, <1>7, <1>14
  <2>3. PICK m \in DOMAIN h.nodes :
          /\ SavedId(k, x) = SavedId(h, m) /\ k.nodes[x].payload = h.nodes[m].payload
          /\ k.info[x] = info[m]
    BY <1>12, <2>1, <2>2
  <2>4. m = n
    BY <2>1, <2>3, SavedIdUnique
  <2> QED BY <2>2, <2>3, <2>4
<1>15. ASSUME NEW x, NEW y, NEW u, NEW v, Same(k, x, h, u), Same(k, y, h, v), Here(h, names, u, v)
       PROVE  /\ \A p : ~ Leads(f, x, y, p)
              /\ ~ (<<x, y>> \in f.notes)
  <2>1. x \notin DOMAIN b.nodes \/ y \notin DOMAIN b.nodes
    BY <1>14, <1>15 DEF Here
  <2>2. \A p : Leads(b, x, y, p) => x \in DOMAIN b.nodes /\ y \in DOMAIN b.nodes
    BY <1>1, LeadsIs
  <2>3. f.notes \subseteq (DOMAIN b.nodes) \X (DOMAIN b.nodes)
    BY <1>1, <1>2 DEF SameNodes, Described
  <2> QED BY <1>2, <2>1, <2>2, <2>3
<1>16. ASSUME NEW x, NEW y, NEW u, NEW v, Same(k, x, h, u), Same(k, y, h, v),
              NEW e, NEW m, NEW n, m \in DOMAIN h.nodes, n \in DOMAIN h.nodes,
              e.source = SavedId(h, m), e.sink = SavedId(h, n)
       PROVE  Joins(f, e, x, y) <=> m = u /\ n = v
  <2>1. /\ x \in DOMAIN f.nodes /\ y \in DOMAIN f.nodes /\ u \in DOMAIN h.nodes /\ v \in DOMAIN h.nodes
        /\ SavedId(f, x) = SavedId(h, u) /\ SavedId(f, y) = SavedId(h, v)
    BY <1>2, <1>4, <1>16 DEF Same
  <2> QED BY <1>16, <2>1, SavedIdUnique DEF Joins
<1>17. ASSUME NEW x, NEW y, NEW u, NEW v, Same(k, x, h, u), Same(k, y, h, v), Here(h, names, u, v),
              NEW p
       PROVE  /\ Leads(k, x, y, p) <=> Leads(h, u, v, p)
              /\ Leads(h, u, v, p) => (<<x, y>> \in k.notes <=> <<u, v>> \in h.notes)
  <2>1. ASSUME NEW q, Leads(k, x, y, q) PROVE Leads(h, u, v, q)
    <3>1. PICK e \in edges : Joins(f, e, x, y) /\ q = e.precedence
      <4>1. ~ Leads(f, x, y, q)
        BY <1>15, <1>17
      <4> QED BY <1>1, <2>1, <4>1 DEF Joined
    <3>2. PICK m, n, r : /\ Leads(h, m, n, r) /\ m \in DOMAIN h.nodes /\ n \in DOMAIN h.nodes
                         /\ e.source = SavedId(h, m) /\ e.sink = SavedId(h, n) /\ e.precedence = r
      BY <1>9
    <3>3. m = u /\ n = v
      BY <1>16, <1>17, <3>1, <3>2
    <3> QED BY <3>1, <3>2, <3>3
  <2>2. ASSUME Leads(h, u, v, p)
        PROVE  \E e \in edges : Joins(f, e, x, y) /\ (e.note <=> <<u, v>> \in h.notes)
    <3>1. PICK e \in edges : /\ e.source = SavedId(h, u) /\ e.sink = SavedId(h, v)
                             /\ (e.note <=> <<u, v>> \in h.notes)
      BY <1>10, <1>17, <2>2 DEF Here
    <3>2. u \in DOMAIN h.nodes /\ v \in DOMAIN h.nodes
      BY <1>17 DEF Same
    <3>3. Joins(f, e, x, y)
      BY <1>16, <1>17, <3>1, <3>2
    <3> QED BY <3>1, <3>3
  <2>3. ASSUME Leads(h, u, v, p) PROVE Leads(k, x, y, p)
    <3>1. PICK e \in edges : Joins(f, e, x, y)
      BY <2>2, <2>3
    <3>2. PICK c, d : Joins(f, e, c, d) /\ HasEdge(k, c, d)
      BY <1>1 DEF Joined
    <3>3. c = x /\ d = y
      BY <1>2, <3>1, <3>2, SavedIdUnique DEF Joins
    <3>4. PICK q : Leads(k, x, y, q)
      BY <1>2, <3>1, <3>2, <3>3, LeadsIs DEF Joins
    <3>5. q = p
      BY <2>1, <2>3, <3>4, LeadsIs
    <3> QED BY <3>4, <3>5
  <2>4. ASSUME Leads(h, u, v, p) PROVE <<x, y>> \in k.notes <=> <<u, v>> \in h.notes
    <3>1. <<x, y>> \in k.notes <=> \E e \in edges : e.note /\ Joins(f, e, x, y)
      <4>1. Pair(x, y) \in k.notes <=>
              Pair(x, y) \in f.notes \/ \E e \in edges : e.note /\ Joins(f, e, x, y)
        BY <1>1 DEF Joined
      <4>2. ~ (Pair(x, y) \in f.notes)
        BY <1>15, <1>17 DEF Pair
      <4> QED BY <4>1, <4>2 DEF Pair
    <3>2. ASSUME NEW e \in edges, e.note, Joins(f, e, x, y) PROVE <<u, v>> \in h.notes
      <4>1. PICK m, n, r : /\ Leads(h, m, n, r) /\ m \in DOMAIN h.nodes /\ n \in DOMAIN h.nodes
                           /\ e.source = SavedId(h, m) /\ e.sink = SavedId(h, n)
                           /\ (e.note <=> <<m, n>> \in h.notes)
        BY <1>9
      <4>2. m = u /\ n = v
        BY <1>16, <1>17, <3>2, <4>1
      <4> QED BY <3>2, <4>1, <4>2
    <3> QED BY <2>2, <2>4, <3>1, <3>2
  <2> QED BY <2>1, <2>3, <2>4
<1>18. \A x, n : Same(k, x, h, n) /\ IncludesNode(h, names, n) /\ ~ (n <= JUMP_TO) =>
         k.nodes[x].payload = h.nodes[n].payload /\ k.info[x] = info[n]
  BY <1>14
<1>19. \A x, y, u, v : Same(k, x, h, u) /\ Same(k, y, h, v) /\ Here(h, names, u, v) =>
         \A p : /\ Leads(k, x, y, p) <=> Leads(h, u, v, p)
                /\ Leads(h, u, v, p) => (<<x, y>> \in k.notes <=> <<u, v>> \in h.notes)
  BY <1>17
<1> QED BY <1>11, <1>13, <1>18, <1>19 DEF Mirrors, info

(* What was saved is what a graph shows into which it was loaded.           *)
LEMMA LoadShows ==
  ASSUME NEW g, Intact(g), Described(g), NEW h, Intact(h), Described(h),
         NEW names, NEW s, Saves(s, h, names), Loaded(g, s).outcome = "ok"
  PROVE  Content(Loaded(g, s).graph, names) = Forgetting(Content(h, names), {"name", "line", "definiens"})
<1> DEFINE k == Loaded(g, s).graph
           less == [n \in DOMAIN h.nodes |-> Forgotten(h.info[n], {"name", "line", "definiens"})]
<1>1. SavedIntact(s) /\ Identified(s)
  BY SavesIntact, SavesIdentified
<1>2. Intact(k) /\ IsLoad(k, s, g)
  BY <1>1, LoadedIs
<1> HIDE DEF k
<1>3. Mirrors(k, h, names, less, h.notes)
  BY <1>2, LoadMirrors
<1>4. \A n \in DOMAIN h.nodes : less[n] = Forgotten(h.info[n], {"name", "line", "definiens"})
  OBVIOUS
<1> HIDE DEF less
<1>5. Content(k, names) = Seen(h, names, less, h.notes)
  BY <1>2, <1>3, MirrorShowsTheSame
<1>6. Forgetting(Content(h, names), {"name", "line", "definiens"}) = Seen(h, names, less, h.notes)
  BY <1>4, ContentIsSeen, ForgettingSeen
<1> QED BY <1>5, <1>6 DEF k

-----------------------------------------------------------------------------
(* What is said of the nodes and the edges of a graph *)

LEMMA SameDescribed ==
  ASSUME NEW g, Described(g), NEW h, h.nodes = g.nodes, h.info = g.info, h.notes = g.notes
  PROVE  Described(h)
  BY DEF Described

LEMMA WithNodeDescribed ==
  ASSUME NEW g, Intact(g), Described(g), NEW file \in DOMAIN g.files, NEW local \in Nat,
         NEW payload, NEW h \in WithNode(g, Node(file, local, payload))
  PROVE  Described(h)
<1>1. PICK nothing : nothing = {}
  OBVIOUS
<1>2. /\ h.notes = g.notes /\ Len(g.nodes) \in Nat /\ DOMAIN g.nodes = 1..Len(g.nodes)
      /\ Len(h.nodes) = Len(g.nodes) + 1 /\ DOMAIN h.nodes = 1..Len(g.nodes) + 1
  BY WithNodeIntact
<1>3. h.info = Append(g.info, nothing)
  BY <1>1, WithNodeLeads
<1>4. IsSequence(g.info) /\ Len(g.info) = Len(g.nodes)
  BY DEF Described
<1>5. /\ IsSequence(h.info) /\ Len(h.info) = Len(g.info) + 1
      /\ \A n \in 1..Len(g.info) : h.info[n] = g.info[n]
      /\ h.info[Len(g.info) + 1] = nothing
  BY <1>3, <1>4, AppendIs
<1>6. \A n \in DOMAIN h.nodes : n \in DOMAIN g.nodes \/ n = Len(g.info) + 1
  BY <1>2, <1>4
<1>7. \A n \in DOMAIN h.nodes : \A info \in h.info[n] : DOMAIN info = {"span", "line", "name", "definiens"}
  BY <1>1, <1>2, <1>4, <1>5, <1>6 DEF Described
<1>8. h.notes \subseteq (DOMAIN h.nodes) \X (DOMAIN h.nodes)
  <2>1. DOMAIN g.nodes \subseteq DOMAIN h.nodes
    BY <1>2
  <2> QED BY <1>2, <2>1 DEF Described
<1> QED BY <1>2, <1>4, <1>5, <1>7, <1>8 DEF Described

LEMMA WithInfoDescribed ==
  ASSUME NEW g, Intact(g), Described(g), NEW n \in DOMAIN g.nodes,
         NEW info, DOMAIN info = {"span", "line", "name", "definiens"}
  PROVE  Described(WithInfo(g, n, {info}))
<1> DEFINE h == WithInfo(g, n, {info})
<1>1. PICK one : one = {info}
  OBVIOUS
<1>2. DOMAIN g = Fields
  BY IntactIs
<1>3. h.nodes = g.nodes /\ h.notes = g.notes /\ h.info = Replaced(g.info, n, one)
  BY <1>1, <1>2 DEF Fields, Replaced, WithInfo
<1> HIDE DEF h
<1>4. IsSequence(g.info) /\ Len(g.info) = Len(g.nodes) /\ DOMAIN g.nodes = 1..Len(g.nodes)
  BY IntactIs, SequenceIs DEF Described, NodesIntact
<1>5. /\ IsSequence(h.info) /\ Len(h.info) = Len(g.info)
      /\ \A m \in DOMAIN g.nodes : h.info[m] = IF m = n THEN one ELSE g.info[m]
  BY <1>3, <1>4, ReplacedIs
<1>6. \A m \in DOMAIN h.nodes : \A i \in h.info[m] : DOMAIN i = {"span", "line", "name", "definiens"}
  BY <1>1, <1>3, <1>5 DEF Described
<1> QED BY <1>3, <1>4, <1>5, <1>6 DEF Described, h

LEMMA EmptyGraphDescribed == Described(EmptyGraph)
<1> PICK g : g = EmptyGraph
  OBVIOUS
<1>1. PICK nothing : nothing = {}
  OBVIOUS
<1>2. g.info = Pair(nothing, nothing) /\ g.notes = {}
  BY <1>1 DEF EmptyGraph, Pair
<1>3. g.nodes = Pair(Node(0, ROOT, "root"), Node(0, JUMP_TO, "jump_to"))
  BY DEF EmptyGraph, Pair
<1>4. /\ IsSequence(g.info) /\ Len(g.info) = 2 /\ g.info[1] = nothing /\ g.info[2] = nothing
      /\ Len(g.nodes) = 2 /\ DOMAIN g.nodes = 1..2
  BY <1>2, <1>3, PairIs
<1>5. \A n \in DOMAIN g.nodes : g.info[n] = nothing
  <2>1. \A n \in 1..2 : n = 1 \/ n = 2
    OBVIOUS
  <2> QED BY <1>4, <2>1
<1> QED BY <1>1, <1>2, <1>4, <1>5 DEF Described

-----------------------------------------------------------------------------
(* Graphs at first *)

LEMMA NextStartedIs ==
  ASSUME NEW g, Intact(g), NEW name, name \notin ToSet(g.files)
  PROVE  /\ Intact(NextStarted(g, name)) /\ NextStarted(g, name).files = Append(g.files, name)
         /\ Described(g) => Described(NextStarted(g, name))
<1> DEFINE f == CHOOSE h \in WithFile(g, name) : TRUE
           p == CHOOSE q \in Payloads : ScopeFiles[q] = {}
           n == CHOOSE h \in WithNode(f, Node(Len(f.files), 0, p)) : TRUE
<1>1. f \in WithFile(g, name)
  BY WithFileExists
<1>2. NextStarted(g, name) = WithEdge(n, ROOT, Len(n.nodes), 0)
  BY DEF NextStarted
<1> HIDE DEF f, p
<1>3. Intact(f) /\ f.files = Append(g.files, name) /\ f.ids = Append(g.ids, <<>>)
  BY <1>1, WithFileIs
<1>4. IsSequence(g.files) /\ IsSequence(g.ids) /\ Len(g.ids) = Len(g.files)
  BY IntactIs DEF FilesIntact
<1> DEFINE file == Len(f.files)
<1>5. file \in DOMAIN f.files /\ file = Len(g.ids) + 1 /\ file # 0
  BY <1>3, <1>4, AppendIs, SequenceIs
<1>6. Len(f.ids[file]) = 0
  <2> PICK none, ids : none = <<>> /\ ids = g.ids
    OBVIOUS
  <2>1. Len(none) = 0 /\ f.ids = Append(ids, none) /\ IsSequence(ids)
    BY <1>3, <1>4, EmptyIs
  <2>2. f.ids[Len(ids) + 1] = none
    BY <2>1, AppendIs
  <2> QED BY <1>5, <2>1, <2>2
<1> HIDE DEF file
<1>7. NodesForId(f, file, 0) = {}
  BY <1>5, <1>6 DEF NodesForId
<1>8. n \in WithNode(f, Node(file, 0, p))
  <2>1. Node(file, 0, p).file = file /\ Node(file, 0, p).local = 0
    BY NodeIs
  <2>2. WithNode(f, Node(file, 0, p)) # {}
    BY <1>7, <2>1 DEF WithNode
  <2> QED BY <2>2 DEF file
<1> HIDE DEF n
<1>9. /\ Intact(n) /\ n.files = f.files
      /\ Len(f.nodes) \in Nat /\ Len(n.nodes) = Len(f.nodes) + 1
      /\ DOMAIN n.nodes = 1..Len(f.nodes) + 1
  BY <1>3, <1>5, <1>8, WithNodeIntact
<1>10. ROOT \in DOMAIN n.nodes /\ Len(n.nodes) \in DOMAIN n.nodes
  BY <1>9 DEF ROOT
<1> DEFINE m == WithEdge(n, ROOT, Len(n.nodes), 0)
<1>11. /\ Intact(m) /\ m.files = n.files /\ m.nodes = n.nodes /\ m.notes = n.notes
       /\ m.info = n.info
  <2>1. Intact(n)
    BY <1>9
  <2> QED BY ONLY <1>10, <2>1, WithEdgeIntact, WithEdgeLeads
<1> HIDE DEF m
<1>12. NextStarted(g, name) = m
  BY <1>2 DEF m
<1>13. ASSUME Described(g) PROVE Described(m)
  <2>1. Described(f)
    BY <1>1, <1>13, WithFileIs, SameDescribed DEF SameNodes
  <2>2. Described(n)
    BY <1>3, <1>5, <1>8, <2>1, WithNodeDescribed
  <2> QED BY <1>11, <2>2, SameDescribed
<1> QED BY <1>3, <1>9, <1>11, <1>12, <1>13

LEMMA StartedIntact ==
  ASSUME NEW x \in Graphs, NEW g \in StartedGraphs(x)
  PROVE  Intact(g) /\ Described(g)
<1>1. PICK names \in Started[x] : g = StartedFiles(EmptyGraph, names)
  BY LoopsAre
<1>2. names \in Seq(FileNames) /\ IsInjective(names)
  BY StackGraphAssumption
<1>3. IsSequence(names) /\ DOMAIN names = 1..Len(names)
  BY <1>2, SequenceOf
<1> DEFINE last == Len(names)
           Done(y, i) == /\ Intact(y) /\ Described(y)
                         /\ \A f \in DOMAIN y.files : \E j \in 1..i : y.files[f] = names[j]
<1>4. last \in Nat
  BY <1>3, SequenceIs
<1>5. PICK after :
        /\ after[0] = EmptyGraph /\ StartedFiles(EmptyGraph, names) = after[last]
        /\ \A i \in 1..last : after[i] = NextStarted(after[i - 1], names[i])
  <2>1. IsSequence(names)
    BY <1>3
  <2> QED BY ONLY <2>1, StartedLoop
<1>6. Done(after[0], 0)
  BY <1>5, EmptyGraphIntact, EmptyGraphDescribed, EmptyIs
<1>7. ASSUME NEW i \in 1..last, Done(after[i - 1], i - 1) PROVE Done(after[i], i)
  <2> DEFINE y == after[i - 1]
             next == after[i]
  <2>1. next = NextStarted(y, names[i])
    BY <1>5
  <2>2. Done(y, i - 1)
    BY <1>7
  <2>3. \A j \in 1..i - 1 : j \in 1..i /\ names[j] # names[i]
    BY <1>2, <1>3, <1>4 DEF IsInjective
  <2> SUFFICES Done(next, i)
    OBVIOUS
  <2> HIDE DEF y, next
  <2>4. names[i] \notin ToSet(y.files)
    BY <2>2, <2>3 DEF ToSet
  <2>5. Intact(next) /\ Described(next) /\ next.files = Append(y.files, names[i])
    BY <2>1, <2>2, <2>4, NextStartedIs
  <2>6. IsSequence(y.files)
    BY <2>2, IntactIs DEF FilesIntact
  <2>7. /\ DOMAIN y.files = 1..Len(y.files) /\ Len(y.files) \in Nat
        /\ DOMAIN next.files = 1..Len(y.files) + 1
        /\ \A f \in 1..Len(y.files) : next.files[f] = y.files[f]
        /\ next.files[Len(y.files) + 1] = names[i]
    BY <2>5, <2>6, AppendIs, SequenceIs
  <2>8. ASSUME NEW f \in DOMAIN next.files PROVE \E j \in 1..i : next.files[f] = names[j]
    <3>1. CASE f = Len(y.files) + 1
      BY <2>7, <3>1
    <3>2. CASE f # Len(y.files) + 1
      <4>1. f \in DOMAIN y.files
        BY <2>7, <3>2
      <4>2. PICK j \in 1..i - 1 : y.files[f] = names[j]
        BY <2>2, <4>1
      <4> QED BY <2>3, <2>7, <4>1, <4>2
    <3> QED BY <3>1, <3>2
  <2> QED BY <2>5, <2>8
<1> DEFINE T == {i \in 0..last : Done(after[i], i)}
<1> HIDE DEF Done
<1>8. Climbs(last, T)
  BY <1>4, <1>6, <1>7 DEF Climbs
<1>9. Done(after[last], last)
  <2> HIDE DEF T, last
  <2>1. last \in T
    BY <1>4, <1>8, UpTo
  <2> QED BY <2>1 DEF T
<1> QED BY <1>1, <1>5, <1>9 DEF Done

-----------------------------------------------------------------------------
(* The invariant *)

(* One graph is changed. *)
LEMMA GraphChanged ==
  ASSUME DOMAIN graphs = Graphs, \A z \in Graphs : Intact(graphs[z]),
         NEW x \in Graphs, NEW g, Intact(g), graphs' = [graphs EXCEPT ![x] = g]
  PROVE  /\ DOMAIN graphs' = Graphs /\ \A z \in Graphs : Intact(graphs'[z])
         /\ \A z \in Graphs : graphs'[z] = IF z = x THEN g ELSE graphs[z]
<1>1. DOMAIN graphs' = Graphs /\ \A z \in Graphs : graphs'[z] = IF z = x THEN g ELSE graphs[z]
  OBVIOUS
<1> QED BY <1>1

LEMMA ChangeKeeps ==
  ASSUME IInv, NEW x \in Graphs, NEW g, Intact(g), Change(x, g)
  PROVE  IInv'
<1>1. /\ graphs' = [graphs EXCEPT ![x] = g] /\ outcome' = "ok" /\ saved' = saved
  BY DEF Change
<1>2. DOMAIN graphs' = Graphs /\ \A z \in Graphs : Intact(graphs'[z])
  BY <1>1, GraphChanged DEF IInv
<1>3. CopiesOfOneFile'
  BY <1>1 DEF CopiesOfOneFile
<1> QED BY <1>1, <1>2, <1>3 DEF IInv

(* A graph that is built stays intact, and what is said of it is of its     *)
(* nodes and edges.                                                         *)
LEMMA BuildChanges ==
  ASSUME IInv, NEW x \in Building, Build(x)
  PROVE  \/ Save(x)
         \/ \E h : Change(x, h) /\ Intact(h) /\ (Described(graphs[x]) => Described(h))
<1> DEFINE g == graphs[x]
<1>1. x \in Graphs /\ Intact(g)
  BY StackGraphAssumption DEF IInv
<1> HIDE DEF g
<1>2. CASE AddFile(x)
  <2>1. PICK name \in FileNames : \E h \in WithFile(g, name) : Change(x, h)
    BY <1>2 DEF AddFile, g
  <2>2. PICK h \in WithFile(g, name) : Change(x, h)
    BY <2>1
  <2>3. Intact(h)
    BY <1>1, <2>2, WithFileIs
  <2>4. Described(g) => Described(h)
    BY <1>1, <2>2, WithFileIs, SameDescribed DEF SameNodes
  <2> QED BY <2>2, <2>3, <2>4 DEF g
<1>3. CASE AddNode(x)
  <2>1. PICK f \in DOMAIN g.files, payload \in Payloads :
          \E local \in LocalIds \cup {UnusedId(g, f)} :
            \E h \in WithNode(g, Node(f, local, payload)) : Change(x, h)
    BY <1>3 DEF AddNode, g
  <2>2. PICK local \in LocalIds \cup {UnusedId(g, f)} :
          \E h \in WithNode(g, Node(f, local, payload)) : Change(x, h)
    BY <2>1
  <2>3. PICK h \in WithNode(g, Node(f, local, payload)) : Change(x, h)
    BY <2>2
  <2>4. local \in Nat
    <3>1. IsSequence(g.ids[f])
      BY <1>1, NodesOfAre
    <3> QED BY <3>1, SequenceIs, StackGraphAssumption DEF UnusedId
  <2>5. Intact(h)
    BY <1>1, <2>3, <2>4, WithNodeIntact
  <2>6. Described(g) => Described(h)
    BY <1>1, <2>3, <2>4, WithNodeDescribed
  <2> QED BY <2>3, <2>5, <2>6 DEF g
<1>4. CASE AddEdge(x)
  <2>1. PICK s \in DOMAIN g.nodes, t \in DOMAIN g.nodes : Change(x, WithEdge(g, s, t, 0))
    BY <1>4 DEF AddEdge, g
  <2> DEFINE h == WithEdge(g, s, t, 0)
  <2>2. Intact(h) /\ h.nodes = g.nodes /\ h.notes = g.notes /\ h.info = g.info
    BY <1>1, <2>1, WithEdgeIntact, WithEdgeLeads
  <2>3. Change(x, h)
    BY <2>1
  <2> HIDE DEF h
  <2>4. Described(g) => Described(h)
    BY <2>2, SameDescribed
  <2> QED BY <2>2, <2>3, <2>4 DEF g
<1>5. CASE SetEdgePrecedence(x)
  <2>1. PICK e \in Edges(g) : Change(x, WithPrecedence(g, e.source, e.sink, 1))
    BY <1>5 DEF SetEdgePrecedence, g
  <2> DEFINE h == WithPrecedence(g, e.source, e.sink, 1)
  <2>2. Intact(h)
    BY <1>1, <2>1, EdgesAre, WithPrecedenceIntact
  <2>3. h.nodes = g.nodes /\ h.notes = g.notes /\ h.info = g.info
    BY <1>1, IntactIs DEF WithPrecedence, Fields
  <2>4. Change(x, h)
    BY <2>1
  <2> HIDE DEF h
  <2>5. Described(g) => Described(h)
    BY <2>3, SameDescribed
  <2> QED BY <2>2, <2>4, <2>5 DEF g
<1>6. CASE Describe(x)
  <2>1. PICK h : /\ Change(x, h)
                 /\ \/ \E info \in Infos : h = [g EXCEPT !.info[Len(g.nodes)] = {info}]
                    \/ \E e \in Edges(g) : h = [g EXCEPT !.notes = @ \cup {<<e.source, e.sink>>}]
    BY <1>6 DEF Describe, g
  <2>2. DOMAIN g = Fields
    BY <1>1, IntactIs
  <2>3. /\ DOMAIN h = Fields /\ h.files = g.files /\ h.nodes = g.nodes /\ h.ids = g.ids
        /\ h.outgoing = g.outgoing /\ h.incoming = g.incoming
    BY <2>1, <2>2 DEF Fields
  <2>4. Intact(h)
    BY <1>1, <2>3, SameIntact
  <2>5. ASSUME Described(g), NEW info \in Infos, h = [g EXCEPT !.info[Len(g.nodes)] = {info}]
        PROVE  Described(h)
    <3>1. h = WithInfo(g, Len(g.nodes), {info})
      BY <2>5 DEF WithInfo
    <3>2. DOMAIN info = {"span", "line", "name", "definiens"}
      BY <2>5, StackGraphAssumption
    <3>3. Len(g.nodes) \in DOMAIN g.nodes
      <4>1. IsSequence(g.nodes) /\ Len(g.nodes) >= 2
        BY <1>1, IntactIs DEF NodesIntact, JUMP_TO
      <4> QED BY <4>1, SequenceIs
    <3>4. Described(g)
      BY <2>5
    <3> QED BY ONLY <1>1, <3>1, <3>2, <3>3, <3>4, WithInfoDescribed
  <2>6. ASSUME Described(g), NEW e \in Edges(g), h = [g EXCEPT !.notes = @ \cup {<<e.source, e.sink>>}]
        PROVE  Described(h)
    <3>1. e.source \in DOMAIN g.nodes /\ e.sink \in DOMAIN g.nodes
      BY <1>1, <2>6, EdgesAre
    <3>2. /\ h.nodes = g.nodes /\ h.info = g.info
          /\ h.notes = g.notes \cup {<<e.source, e.sink>>}
      BY <2>2, <2>6 DEF Fields
    <3> QED BY <2>6, <3>1, <3>2 DEF Described
  <2> QED BY <2>1, <2>4, <2>5, <2>6 DEF g
<1> QED BY <1>2, <1>3, <1>4, <1>5, <1>6 DEF Build

LEMMA BuildKeeps ==
  ASSUME IInv, NEW x \in Building, Build(x)
  PROVE  IInv'
<1>1. x \in Graphs /\ Intact(graphs[x])
  BY StackGraphAssumption DEF IInv
<1>2. CASE Save(x)
  <2>1. PICK names \in SUBSET ToSet(graphs[x].files) : saved' = {Saved(graphs[x], names)}
    BY <1>2 DEF Save
  <2>2. graphs' = graphs /\ outcome' = "ok"
    BY <1>2 DEF Save
  <2>3. SavedIntact(Saved(graphs[x], names))
    BY <1>1, SavedIs, SavesIntact
  <2> QED BY <2>1, <2>2, <2>3 DEF IInv, CopiesOfOneFile
<1>3. ASSUME NEW h, Change(x, h), Intact(h) PROVE IInv'
  BY <1>1, <1>3, ChangeKeeps
<1> QED BY <1>2, <1>3, BuildChanges

LEMMA AddFromGraphKeeps ==
  ASSUME IInv, NEW x \in Graphs \ Building, NEW y \in Building, AddFromGraph(x, y)
  PROVE  IInv'
<1>1. y \in Graphs /\ Intact(graphs[x]) /\ Intact(graphs[y])
  BY StackGraphAssumption DEF IInv
<1>2. PICK order \in [DOMAIN graphs[y].files -> DOMAIN graphs[y].files] :
        /\ IsInjective(order)
        /\ LET result == Copied(graphs[x], graphs[y], order)
           IN  graphs' = [graphs EXCEPT ![x] = result.graph] /\ outcome' = result.outcome
        /\ saved' = saved
  BY DEF AddFromGraph
<1> DEFINE result == Copied(graphs[x], graphs[y], order)
<1>3. /\ Intact(result.graph)
      /\ result.outcome = "panicked" => Len(graphs[y].files) > 1
  BY <1>1, <1>2, CopiedIs
<1>4. graphs' = [graphs EXCEPT ![x] = result.graph] /\ outcome' = result.outcome
  BY <1>2
<1> HIDE DEF result
<1>5. /\ DOMAIN graphs' = Graphs /\ \A z \in Graphs : Intact(graphs'[z])
      /\ graphs'[y] = graphs[y]
  BY <1>1, <1>3, <1>4, GraphChanged DEF IInv
<1>6. CopiesOfOneFile'
  BY <1>3, <1>4, <1>5 DEF CopiesOfOneFile
<1> QED BY <1>2, <1>5, <1>6 DEF IInv

LEMMA LoadIntoKeeps ==
  ASSUME IInv, NEW x \in Graphs, LoadInto(x)
  PROVE  IInv'
<1>1. PICK s \in saved : /\ graphs' = [graphs EXCEPT ![x] = Loaded(graphs[x], s).graph]
                         /\ outcome' = Loaded(graphs[x], s).outcome /\ saved' = saved
  BY DEF LoadInto
<1>2. Intact(Loaded(graphs[x], s).graph) /\ Loaded(graphs[x], s).outcome \in {"ok", "failed"}
  BY LoadedIs DEF IInv
<1>3. DOMAIN graphs' = Graphs /\ \A z \in Graphs : Intact(graphs'[z])
  BY <1>1, <1>2, GraphChanged DEF IInv
<1>4. CopiesOfOneFile'
  BY <1>1, <1>2 DEF CopiesOfOneFile
<1> QED BY <1>1, <1>3, <1>4 DEF IInv

(* All graphs stay intact, however they are built, copied and loaded: their *)
(* tables of ids, the order of their edges and the degrees of their nodes.  *)
THEOREM Inductive == GraphsSpec => []IInv
<1>1. ASSUME GraphsInit PROVE IInv
  <2>1. DOMAIN graphs = Graphs /\ \A x \in Graphs : graphs[x] \in StartedGraphs(x)
    BY <1>1 DEF GraphsInit
  <2>2. \A x \in Graphs : Intact(graphs[x])
    BY <2>1, StartedIntact
  <2>3. saved = {} /\ outcome = "ok"
    BY <1>1 DEF GraphsInit
  <2> QED BY <2>1, <2>2, <2>3 DEF IInv, CopiesOfOneFile
<1>2. ASSUME IInv, [GraphsNext]_graphVars PROVE IInv'
  <2>1. CASE \E x \in Building : Build(x)
    BY <1>2, <2>1, BuildKeeps
  <2>2. CASE \E x \in Graphs \ Building : LoadInto(x)
    BY <1>2, <2>2, LoadIntoKeeps
  <2>3. CASE \E x \in Graphs \ Building, y \in Building : AddFromGraph(x, y)
    BY <1>2, <2>3, AddFromGraphKeeps
  <2>4. CASE UNCHANGED graphVars
    BY <1>2, <2>4 DEF graphVars, IInv, CopiesOfOneFile
  <2> QED BY <1>2, <2>1, <2>2, <2>3, <2>4 DEF GraphsNext
<1> QED BY <1>1, <1>2, PTL DEF GraphsSpec

(* Every node is found by its id, and the tables hold nothing else. *)
THEOREM IdsAlwaysFind == GraphsSpec => []IdsFindNodes
<1>1. ASSUME IInv PROVE IdsFindNodes
  <2>1. ASSUME NEW g, Intact(g), NEW n \in DOMAIN g.nodes
        PROVE  NodesForId(g, g.nodes[n].file, g.nodes[n].local) = {n}
    <3>1. NodesIntact(g) /\ FilesIntact(g)
      BY <2>1, IntactIs
    <3>2. CASE n <= JUMP_TO
      BY <3>1, <3>2 DEF NodesIntact, NodeIntact, NodesForId
    <3>3. CASE ~ (n <= JUMP_TO)
      <4>1. /\ g.nodes[n].file \in DOMAIN g.files
            /\ g.nodes[n].local < Len(g.ids[g.nodes[n].file])
            /\ g.ids[g.nodes[n].file][g.nodes[n].local + 1] = n
        BY <3>1, <3>3 DEF NodesIntact, NodeIntact
      <4>2. g.nodes[n].file # 0
        BY <3>1, <4>1, SequenceIs DEF FilesIntact
      <4> QED BY <4>1, <4>2 DEF NodesForId
    <3> QED BY <3>2, <3>3
  <2>2. ASSUME NEW g, Intact(g), NEW f \in DOMAIN g.ids, NEW i \in DOMAIN g.ids[f],
               g.ids[f][i] # 0
        PROVE  LET n == g.nodes[g.ids[f][i]] IN n.file = f /\ n.local + 1 = i
    BY <2>2, IntactIs DEF IdsIntact
  <2> QED BY <1>1, <2>1, <2>2 DEF IInv, IdsFindNodes
<1> QED BY <1>1, Inductive, PTL

(* The degree of a node is the number of edges that lead to it, and edges   *)
(* are in the order of their sinks.                                         *)
THEOREM DegreesAlwaysCount == GraphsSpec => []DegreesCountEdges
<1>1. ASSUME IInv PROVE DegreesCountEdges
  <2>1. \A x \in Graphs : EdgesIntact(graphs[x]) /\ DegreesIntact(graphs[x])
    BY <1>1, IntactIs DEF IInv
  <2> QED BY <2>1 DEF EdgesIntact, DegreesIntact, DegreesCountEdges
<1> QED BY <1>1, Inductive, PTL

(* A copy of a graph of one file never panics. *)
THEOREM CopiesOfOneFileNeverPanic == GraphsSpec => []CopiesOfOneFile
<1>1. IInv => CopiesOfOneFile
  BY DEF IInv
<1> QED BY <1>1, Inductive, PTL

-----------------------------------------------------------------------------
(* What copies and loads contain *)

(* One graph is changed, and what is said of its nodes and edges.           *)
LEMMA DescribedChanged ==
  ASSUME DOMAIN graphs = Graphs, \A z \in Graphs : Described(graphs[z]),
         NEW x \in Graphs, NEW g, Described(g), graphs' = [graphs EXCEPT ![x] = g]
  PROVE  \A z \in Graphs : Described(graphs'[z])
<1>1. \A z \in Graphs : graphs'[z] = IF z = x THEN g ELSE graphs[z]
  OBVIOUS
<1> QED BY <1>1

(* What was saved is part of a graph that has not changed since.            *)
LEMMA SavedOfGraph ==
  ASSUME IInv, ContentInv, NEW s \in saved
  PROVE  \E y \in Building : \E names : /\ Saves(s, graphs[y], names)
                                        /\ content = Content(graphs[y], names)
<1>1. PICK y \in Building : \E names \in SUBSET ToSet(graphs[y].files) :
        saved = {Saved(graphs[y], names)} /\ content = Content(graphs[y], names)
  BY DEF ContentInv
<1> PICK names \in SUBSET ToSet(graphs[y].files) :
        saved = {Saved(graphs[y], names)} /\ content = Content(graphs[y], names)
  BY <1>1
<1>2. Intact(graphs[y])
  BY StackGraphAssumption DEF IInv
<1>3. Saves(Saved(graphs[y], names), graphs[y], names)
  BY <1>2, SavedIs
<1> QED BY <1>1, <1>3

(* What was saved is what a graph that does not change any more contains,   *)
(* and what is said of nodes and edges is of those of the graph.            *)
THEOREM SavedStaysContent == GraphsSpec => []ContentInv
<1>1. ASSUME GraphsInit PROVE ContentInv
  <2>1. \A x \in Graphs : Described(graphs[x])
    BY <1>1, StartedIntact DEF GraphsInit
  <2> QED BY <1>1, <2>1 DEF GraphsInit, ContentInv
<1>2. ASSUME IInv, ContentInv, [GraphsNext]_graphVars PROVE ContentInv'
  <2>1. DOMAIN graphs = Graphs /\ \A x \in Graphs : Intact(graphs[x]) /\ Described(graphs[x])
    BY <1>2 DEF IInv, ContentInv
  <2>2. ASSUME NEW x \in Building, Build(x) PROVE ContentInv'
    <3>1. x \in Graphs
      BY StackGraphAssumption
    <3>2. CASE Save(x)
      BY <1>2, <3>2 DEF Save, ContentInv
    <3>3. ASSUME NEW h, Change(x, h), Described(h) PROVE ContentInv'
      <4>1. graphs' = [graphs EXCEPT ![x] = h] /\ saved' = {}
        BY <3>3 DEF Change, Fresh
      <4>2. \A z \in Graphs : Described(graphs'[z])
        BY <2>1, <3>1, <3>3, <4>1, DescribedChanged
      <4> QED BY <4>1, <4>2 DEF ContentInv
    <3> QED BY <1>2, <2>1, <2>2, <3>1, <3>2, <3>3, BuildChanges
  <2>3. ASSUME NEW x \in Graphs \ Building, LoadInto(x) PROVE ContentInv'
    <3>1. PICK s \in saved : /\ graphs' = [graphs EXCEPT ![x] = Loaded(graphs[x], s).graph]
                             /\ saved' = saved /\ content' = content
      BY <2>3 DEF LoadInto
    <3>2. PICK y \in Building : \E names : Saves(s, graphs[y], names)
      BY <1>2, SavedOfGraph
    <3>3. SavedIntact(s) /\ Identified(s)
      BY <2>1, <3>2, StackGraphAssumption, SavesIntact, SavesIdentified
    <3>4. Described(Loaded(graphs[x], s).graph)
      BY <2>1, <3>3, LoadedIs
    <3>5. \A z \in Graphs : Described(graphs'[z])
      BY <2>1, <3>1, <3>4, DescribedChanged
    <3>6. \A z \in Building : graphs'[z] = graphs[z]
      BY <2>1, <2>3, <3>1
    <3> QED BY <1>2, <3>1, <3>5, <3>6 DEF ContentInv
  <2>4. ASSUME NEW x \in Graphs \ Building, NEW y \in Building, AddFromGraph(x, y) PROVE ContentInv'
    <3>1. PICK order \in [DOMAIN graphs[y].files -> DOMAIN graphs[y].files] :
            /\ IsInjective(order)
            /\ graphs' = [graphs EXCEPT ![x] = Copied(graphs[x], graphs[y], order).graph]
      BY <2>4 DEF AddFromGraph
    <3>2. saved' = {}
      BY <2>4 DEF AddFromGraph, Fresh
    <3>3. y \in Graphs
      BY StackGraphAssumption
    <3>4. Described(Copied(graphs[x], graphs[y], order).graph)
      BY <2>1, <3>1, <3>3, CopiedIs
    <3>5. \A z \in Graphs : Described(graphs'[z])
      BY <2>1, <3>1, <3>4, DescribedChanged
    <3> QED BY <3>2, <3>5 DEF ContentInv
  <2>5. CASE UNCHANGED graphVars
    BY <1>2, <2>5 DEF graphVars, ContentInv
  <2> QED BY <1>2, <2>2, <2>3, <2>4, <2>5 DEF GraphsNext
<1> QED BY <1>1, <1>2, Inductive, PTL DEF GraphsSpec

(* A graph that was copied contains what the other one does, but for full   *)
(* names and notes, and what the graph contained before is still there.     *)
THEOREM CopiesAreFaithful == GraphsSpec => CopiesFaithful
<1>1. ASSUME IInv, ContentInv, NEW x \in Graphs \ Building, NEW y \in Building,
             outcome' = "ok", AddFromGraph(x, y)
      PROVE  /\ Content(graphs'[x], ToSet(graphs[y].files)) =
                  WithoutNotes(Forgetting(Content(graphs[y], ToSet(graphs[y].files)), {"name"}))
             /\ Content(graphs'[x], ToSet(graphs[x].files)) =
                  Content(graphs[x], ToSet(graphs[x].files))
  <2>1. PICK order \in [DOMAIN graphs[y].files -> DOMAIN graphs[y].files] :
          /\ IsInjective(order)
          /\ graphs' = [graphs EXCEPT ![x] = Copied(graphs[x], graphs[y], order).graph]
          /\ outcome' = Copied(graphs[x], graphs[y], order).outcome
    BY <1>1 DEF AddFromGraph
  <2>2. /\ Intact(graphs[x]) /\ Described(graphs[x]) /\ Intact(graphs[y]) /\ Described(graphs[y])
        /\ DOMAIN graphs = Graphs
    BY <1>1, StackGraphAssumption DEF IInv, ContentInv
  <2>3. graphs'[x] = Copied(graphs[x], graphs[y], order).graph
    BY <2>1, <2>2
  <2> QED BY <1>1, <2>1, <2>2, <2>3, CopyShows
<1>2. IInv /\ ContentInv =>
        [\A x \in Graphs \ Building : \A y \in Building :
           graphs'[y] = graphs[y] /\ outcome' = "ok" /\ AddFromGraph(x, y) =>
             /\ LET names == ToSet(graphs[y].files)
                IN  Content(graphs'[x], names) =
                      WithoutNotes(Forgetting(Content(graphs[y], names), {"name"}))
             /\ LET names == ToSet(graphs[x].files)
                IN  Content(graphs'[x], names) = Content(graphs[x], names)]_graphVars
  BY <1>1
<1> QED BY <1>2, Inductive, SavedStaysContent, PTL DEF CopiesFaithful

(* The files that were saved, whichever of a graph a filter chose, are      *)
(* loaded as they were, but for lines, full names and the spans of what     *)
(* definitions define, whatever else the graph holds.                       *)
THEOREM LoadsAreFaithful == GraphsSpec => LoadsWhatWasSaved
<1>1. ASSUME IInv, ContentInv, NEW x \in Graphs \ Building, NEW s \in saved,
             outcome' = "ok", LoadInto(x)
      PROVE  Content(graphs'[x], ToSet(s.files)) = Forgetting(content, {"name", "line", "definiens"})
  <2>1. PICK r \in saved : /\ graphs' = [graphs EXCEPT ![x] = Loaded(graphs[x], r).graph]
                           /\ outcome' = Loaded(graphs[x], r).outcome
    BY <1>1 DEF LoadInto
  <2>2. r = s
    BY <1>1, <2>1 DEF ContentInv
  <2>3. PICK y \in Building : \E names : /\ Saves(s, graphs[y], names)
                                         /\ content = Content(graphs[y], names)
    BY <1>1, SavedOfGraph
  <2> PICK names : Saves(s, graphs[y], names) /\ content = Content(graphs[y], names)
    BY <2>3
  <2>4. Saves(s, graphs[y], names) /\ content = Content(graphs[y], names)
    OBVIOUS
  <2>5. Loaded(graphs[x], s).outcome = "ok"
    BY <1>1, <2>1, <2>2
  <2>6. /\ Intact(graphs[x]) /\ Described(graphs[x]) /\ Intact(graphs[y]) /\ Described(graphs[y])
        /\ DOMAIN graphs = Graphs
    BY <1>1, StackGraphAssumption DEF IInv, ContentInv
  <2>7. graphs'[x] = Loaded(graphs[x], s).graph /\ ToSet(s.files) = names
    BY <2>1, <2>2, <2>3, <2>6 DEF Saves
  <2>8. Content(Loaded(graphs[x], s).graph, names) = Forgetting(Content(graphs[y], names), {"name", "line", "definiens"})
    BY ONLY <2>6, <2>4, <2>5, LoadShows
  <2> QED BY ONLY <2>7, <2>4, <2>8
<1>2. IInv /\ ContentInv =>
        [\A x \in Graphs \ Building : \A s \in saved :
           outcome' = "ok" /\ LoadInto(x) =>
             Content(graphs'[x], ToSet(s.files)) = Forgetting(content, {"name", "line", "definiens"})]_graphVars
  BY <1>1
<1> QED BY <1>2, Inductive, SavedStaysContent, PTL DEF LoadsWhatWasSaved

(* A copy or a load that fails has left files and nodes of these files, but *)
(* no edges, and nothing that was there has changed; and nodes only if the  *)
(* file of a scope is not there.                                            *)
THEOREM FailuresAreSmall == GraphsSpec => FailuresKeepGraphs
<1> DEFINE Missing(g) == \E s \in saved : \E i \in DOMAIN s.nodes : ~ Resolves(g, s.nodes[i])
           Small(g, h) == OnlyNodesAdded(g, h) /\ (h.nodes # g.nodes => Missing(h))
<1>1. ASSUME NEW g PROVE Small(g, g)
  BY DEF OnlyNodesAdded
<1>2. ASSUME IInv, ContentInv, [GraphsNext]_graphVars, outcome' = "failed", NEW z \in Graphs
      PROVE  Small(graphs[z], graphs'[z])
  <2>1. DOMAIN graphs = Graphs /\ \A x \in Graphs : Intact(graphs[x]) /\ Described(graphs[x])
    BY <1>2 DEF IInv, ContentInv
  <2>2. ASSUME NEW x \in Graphs, NEW h, Intact(h), Small(graphs[x], h),
               graphs' = [graphs EXCEPT ![x] = h]
        PROVE  Small(graphs[z], graphs'[z])
    <3>1. graphs'[z] = IF z = x THEN h ELSE graphs[z]
      BY <2>1, <2>2, GraphChanged
    <3> HIDE DEF Small
    <3> QED BY <1>1, <2>2, <3>1
  <2>3. CASE \E x \in Building : Build(x)
    BY <1>2, <2>3 DEF Build, AddFile, AddNode, AddEdge, SetEdgePrecedence, Describe, Save, Change
  <2>4. CASE \E x \in Graphs \ Building : LoadInto(x)
    <3>1. PICK x \in Graphs, s \in saved :
            /\ graphs' = [graphs EXCEPT ![x] = Loaded(graphs[x], s).graph]
            /\ outcome' = Loaded(graphs[x], s).outcome
      BY <2>4 DEF LoadInto
    <3>2. PICK y \in Building : \E names : Saves(s, graphs[y], names)
      BY <1>2, SavedOfGraph
    <3>3. SavedIntact(s) /\ Identified(s)
      BY <2>1, <3>2, StackGraphAssumption, SavesIntact, SavesIdentified
    <3> DEFINE h == Loaded(graphs[x], s).graph
    <3>4. /\ Intact(h) /\ OnlyNodesAdded(graphs[x], h)
          /\ h.nodes # graphs[x].nodes => \E i \in DOMAIN s.nodes : ~ Resolves(h, s.nodes[i])
      BY <1>2, <2>1, <3>1, <3>3, LoadedIs
    <3>5. graphs' = [graphs EXCEPT ![x] = h]
      BY <3>1
    <3> HIDE DEF h
    <3>6. Small(graphs[x], h)
      BY <3>4
    <3> HIDE DEF Small
    <3> QED BY <2>2, <3>4, <3>5, <3>6
  <2>5. CASE \E x \in Graphs \ Building, y \in Building : AddFromGraph(x, y)
    <3>1. PICK x \in Graphs, y \in Building : AddFromGraph(x, y)
      BY <2>5
    <3>2. PICK order \in [DOMAIN graphs[y].files -> DOMAIN graphs[y].files] :
            /\ IsInjective(order)
            /\ LET result == Copied(graphs[x], graphs[y], order)
               IN  graphs' = [graphs EXCEPT ![x] = result.graph] /\ outcome' = result.outcome
      BY <3>1 DEF AddFromGraph
    <3> DEFINE h == Copied(graphs[x], graphs[y], order).graph
    <3>3. Intact(graphs[x]) /\ Intact(graphs[y])
      BY <2>1, StackGraphAssumption
    <3>4. Intact(h) /\ OnlyNodesAdded(graphs[x], h) /\ h.nodes = graphs[x].nodes
      BY <1>2, <3>2, <3>3, CopiedIs
    <3>5. graphs' = [graphs EXCEPT ![x] = h]
      BY <3>2
    <3> HIDE DEF h
    <3>6. Small(graphs[x], h)
      BY <3>4
    <3> HIDE DEF Small
    <3> QED BY <2>2, <3>4, <3>5, <3>6
  <2>6. CASE UNCHANGED graphVars
    <3>1. graphs'[z] = graphs[z]
      BY <2>6 DEF graphVars
    <3> HIDE DEF Small
    <3> QED BY <1>1, <3>1
  <2> HIDE DEF Small
  <2> QED BY <1>2, <2>3, <2>4, <2>5, <2>6 DEF GraphsNext
<1>3. IInv /\ ContentInv /\ [GraphsNext]_graphVars =>
        [outcome' = "failed" => \A x \in Graphs :
           /\ OnlyNodesAdded(graphs[x], graphs'[x])
           /\ graphs'[x].nodes # graphs[x].nodes =>
                \E s \in saved : \E i \in DOMAIN s.nodes : ~ Resolves(graphs'[x], s.nodes[i])]_graphVars
  BY <1>2
<1> QED BY <1>3, Inductive, SavedStaysContent, PTL DEF GraphsSpec, FailuresKeepGraphs

=============================================================================
