--------------------------- MODULE SharedSequences ---------------------------
(***************************************************************************)
(* What deques promise (arena.rs, Deque): each name holds a sequence of its *)
(* own, although copies share cells of one arena, and although pushing,     *)
(* comparing and reading may turn the cells round.                          *)
(***************************************************************************)
EXTENDS Naturals, Sequences

CONSTANTS Names, Elements

VARIABLES
  contents,  \* name -> sequence
  answer     \* what the last call returned

PushFront(d, e) ==
  contents' = [contents EXCEPT ![d] = <<e>> \o @] /\ answer' = <<>>
PushBack(d, e) ==
  contents' = [contents EXCEPT ![d] = Append(@, e)] /\ answer' = <<>>

PopFront(d) ==
  IF contents[d] = <<>> THEN answer' = <<>> /\ UNCHANGED contents
  ELSE /\ answer' = <<Head(contents[d])>>
       /\ contents' = [contents EXCEPT ![d] = Tail(@)]
PopBack(d) ==
  IF contents[d] = <<>> THEN answer' = <<>> /\ UNCHANGED contents
  ELSE /\ answer' = <<contents[d][Len(contents[d])]>>
       /\ contents' = [contents EXCEPT ![d] = SubSeq(@, 1, Len(@) - 1)]

Copy(d, c) == contents' = [contents EXCEPT ![d] = contents[c]] /\ answer' = <<>>
Read(d) == answer' = contents[d] /\ UNCHANGED contents
Equals(d, c) == answer' = <<contents[d] = contents[c]>> /\ UNCHANGED contents

Init == contents = [d \in Names |-> <<>>] /\ answer = <<>>

Next ==
  \E d \in Names :
    \/ \E e \in Elements : PushFront(d, e) \/ PushBack(d, e)
    \/ PopFront(d) \/ PopBack(d) \/ Read(d)
    \/ \E c \in Names : Copy(d, c) \/ Equals(d, c)

Spec == Init /\ [][Next]_<<contents, answer>>
=============================================================================
