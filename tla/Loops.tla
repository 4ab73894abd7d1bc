-------------------------------- MODULE Loops --------------------------------
(* Loops over sequences.  They are recursive functions, so that what a loop *)
(* gives can be proved by induction over the elements that it has passed.   *)
EXTENDS Naturals, Sequences

IsSequence(s) == Len(s) \in Nat /\ s = [i \in 1..Len(s) |-> s[i]]

(* What a loop gives that takes a step for each element. *)
Loop(step(_, _), first, seq) ==
  LET after[i \in 0..Len(seq)] == IF i = 0 THEN first ELSE step(after[i - 1], seq[i])
  IN  after[Len(seq)]

(* The elements that are in a set; the elements of all sequences. *)
Only(seq, T) == Loop(LAMBDA found, e : IF e \in T THEN Append(found, e) ELSE found, <<>>, seq)
Concatenated(seqs) == Loop(LAMBDA all, s : all \o s, <<>>, seqs)
=============================================================================
