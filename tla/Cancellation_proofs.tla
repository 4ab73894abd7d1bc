------------------------- MODULE Cancellation_proofs -------------------------
(* Proofs about Cancellation, for any set of builds. *)
EXTENDS Cancellation, TLAPS

(* The inductive invariant holds of every step, by the action it is. *)
LEMMA InitInv == Init => IInv
BY DEF Init, IInv, TypeOK, StoppedOnlyIfRaised

LEMMA BuilderStep ==
  ASSUME IInv, NEW b \in Builds,
         From(b) \/ ParserStops(b) \/ ParserFinishes(b) \/ Drop(b) \/ Return(b)
  PROVE  IInv'
<1> USE DEF IInv, TypeOK, StoppedOnlyIfRaised, CallerAt, PollerAt
<1>1. CASE From(b)
  BY <1>1 DEF From
<1>2. CASE ParserStops(b)
  BY <1>2 DEF ParserStops
<1>3. CASE ParserFinishes(b)
  BY <1>3 DEF ParserFinishes
<1>4. CASE Drop(b)
  BY <1>4 DEF Drop
<1>5. CASE Return(b)
  BY <1>5 DEF Return
<1> QED
  BY <1>1, <1>2, <1>3, <1>4, <1>5

LEMMA PollerStep ==
  ASSUME IInv, NEW b \in Builds, Upgrade(b) \/ Poll(b) PROVE IInv'
<1> USE DEF IInv, TypeOK, StoppedOnlyIfRaised, PollerAt
<1>1. CASE Upgrade(b)
  BY <1>1 DEF Upgrade
<1>2. CASE Poll(b)
  BY <1>2 DEF Poll
<1> QED
  BY <1>1, <1>2

LEMMA RaiseStep ==
  ASSUME IInv, NEW bs, Raise(bs) PROVE IInv'
BY DEF IInv, TypeOK, StoppedOnlyIfRaised, Raise

LEMMA StepInv == IInv /\ [Next]_vars => IInv'
<1> SUFFICES ASSUME IInv, [Next]_vars PROVE IInv'
  OBVIOUS
<1>1. CASE Next
  BY <1>1, BuilderStep, PollerStep, RaiseStep DEF Next
<1>2. CASE UNCHANGED vars
  BY <1>2 DEF vars, IInv, TypeOK, StoppedOnlyIfRaised
<1> QED
  BY <1>1, <1>2

(* The atomic that a parser can see is set only by a raised flag. *)
THEOREM Inductive == Spec => []IInv
BY InitInv, StepInv, PTL DEF Spec

(* No parse is cancelled without its own flag having been raised, for any   *)
(* number of builds at once: pollers never act on another build's atomic,   *)
(* and what a poller does past the lifetime of its flag is not seen.        *)
THEOREM NeverStoppedByMistake == Spec => []StoppedOnlyIfRaised
<1>1. IInv => StoppedOnlyIfRaised
  BY DEF IInv
<1> QED
  BY Inductive, <1>1, PTL
=============================================================================
