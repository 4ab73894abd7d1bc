-------------------------------- MODULE Lists --------------------------------
(***************************************************************************)
(* Lists in arenas (arena.rs): cells that are shared and never freed, and  *)
(* deques on top of them that remember the reversal of a list once it was  *)
(* needed; and the keys of the path database (stitching.rs), lists that    *)
(* are the same handle if they have the same symbols.                      *)
(***************************************************************************)
EXTENDS Naturals, Sequences, SequencesExt

CONSTANTS
  Names,     \* deques; they are copied freely
  Elements,
  Keys,      \* names of keys
  MaxCells, MaxKeyCells  \* bounds on the cells that are made

VARIABLES
  arena,   \* sequence of cells; a handle is an index, EMPTY is 0
  deque,   \* name -> [cells, backwards]
  answer,  \* what the last call returned
  keys,    \* sequence of cells of keys, without reversals
  cache,   \* symbol_stack_key_cache: [head, tail, handle]
  key      \* name -> handle of the cell at the back of the key

dequeVars == <<arena, deque, answer>>
keyVars == <<keys, cache, key>>
listVars == <<dequeVars, keyVars>>

EMPTY == 0

Cell(head, tail, reversed) == [head |-> head, tail |-> tail, reversed |-> reversed]

(* The elements of the list that starts at a cell. *)
Elems(cells, handle) ==
  LET from[h \in 0..Len(cells)] ==
        IF h = EMPTY THEN <<>> ELSE <<cells[h].head>> \o from[cells[h].tail]
  IN  from[handle]

(* ReversibleListCell::reverse: new cells, the last of which knows the      *)
(* original list.                                                           *)
ReversalAdded(cells, handle) ==
  LET elements == Elems(cells, handle)
      added(i) == Cell(elements[i], IF i = 1 THEN EMPTY ELSE Len(cells) + i - 1,
                       IF i = Len(elements) THEN handle ELSE EMPTY)
  IN  cells \o [i \in 1..Len(elements) |-> added(i)]

HaveReversal(cells, handle) == handle # EMPTY => cells[handle].reversed # EMPTY

(* Mutated: the list does not get to know its reversal. *)
EnsureReversalForgotten(cells, handle) ==
  IF HaveReversal(cells, handle) THEN cells ELSE ReversalAdded(cells, handle)

EnsureReversalAvailable(cells, handle) ==
  IF HaveReversal(cells, handle) THEN cells
  ELSE LET added == ReversalAdded(cells, handle)
       IN  [added EXCEPT ![handle].reversed = Len(added)]

Reversed(cells, handle) == IF handle = EMPTY THEN EMPTY ELSE cells[handle].reversed

-----------------------------------------------------------------------------
(* Deques: a list, and whether it is stored backwards.                      *)

Deque(cells, backwards) == [cells |-> cells, backwards |-> backwards]

(* Mutated: the deque is turned round only if the reversal is known. *)
DirectedIfKnown(q, backwards) ==
  IF q.backwards = backwards \/ ~HaveReversal(arena, q.cells)
  THEN [arena |-> arena, deque |-> q]
  ELSE [arena |-> arena, deque |-> Deque(Reversed(arena, q.cells), backwards)]

(* ensure_forwards and ensure_backwards: the arena and the deque after them *)
Directed(q, backwards) ==
  IF q.backwards = backwards THEN [arena |-> arena, deque |-> q]
  ELSE LET cells == EnsureReversalAvailable(arena, q.cells)
       IN  [arena |-> cells, deque |-> Deque(Reversed(cells, q.cells), backwards)]

Push(d, e, backwards) ==
  LET turned == Directed(deque[d], backwards)
  IN  /\ arena' = Append(turned.arena, Cell(e, turned.deque.cells, EMPTY))
      /\ deque' = [deque EXCEPT ![d] = Deque(Len(turned.arena) + 1, backwards)]
      /\ answer' = <<>>
      /\ UNCHANGED keyVars

PushFront(d, e) == Push(d, e, FALSE)
PushBack(d, e) == Push(d, e, TRUE)

Pop(d, backwards) ==
  LET turned == Directed(deque[d], backwards)
      handle == turned.deque.cells
  IN  /\ arena' = turned.arena
      /\ deque' = [deque EXCEPT ![d] =
                     IF handle = EMPTY THEN turned.deque
                     ELSE Deque(turned.arena[handle].tail, backwards)]
      /\ answer' = IF handle = EMPTY THEN <<>> ELSE <<turned.arena[handle].head>>
      /\ UNCHANGED keyVars

PopFront(d) == Pop(d, FALSE)
PopBack(d) == Pop(d, TRUE)

Copy(d, c) ==
  /\ deque' = [deque EXCEPT ![d] = deque[c]]
  /\ answer' = <<>>
  /\ UNCHANGED <<arena, keyVars>>

(* iter: a copy of the list is turned round, the deque is not. *)
Iter(d) ==
  LET turned == Directed(deque[d], FALSE)
  IN  /\ arena' = turned.arena
      /\ answer' = Elems(turned.arena, turned.deque.cells)
      /\ UNCHANGED <<deque, keyVars>>

(* iter_reused: only if the forwards list is known, for it would panic. *)
IterReused(d) ==
  /\ deque[d].backwards => HaveReversal(arena, deque[d].cells)
  /\ answer' = Elems(arena, IF deque[d].backwards THEN Reversed(arena, deque[d].cells)
                            ELSE deque[d].cells)
  /\ UNCHANGED <<arena, deque, keyVars>>

(* equals_with: lists that reach the same cell at the same time are equal   *)
(* from there on.                                                           *)
SameList(cells, l, r) ==
  LET same[h \in 0..Len(cells)] ==
        {k \in 0..Len(cells) :
           \/ h = k
           \/ /\ h # EMPTY /\ k # EMPTY
              /\ cells[h].head = cells[k].head
              /\ cells[k].tail \in same[cells[h].tail]}
  IN  r \in same[l]

(* equals, with ensure_same_direction: of two copies one is turned round,   *)
(* preferably one that has its reversal.                                    *)
Equals(d, c) ==
  LET l == deque[d]
      r == deque[c]
      turnsLeft == HaveReversal(arena, l.cells)
      turned == Directed(IF turnsLeft THEN l ELSE r,
                         IF turnsLeft THEN r.backwards ELSE l.backwards)
  IN  /\ arena' = turned.arena
      /\ answer' = <<SameList(turned.arena,
                              IF turnsLeft THEN turned.deque.cells ELSE l.cells,
                              IF turnsLeft THEN r.cells ELSE turned.deque.cells)>>
      /\ UNCHANGED <<deque, keyVars>>

-----------------------------------------------------------------------------
(* SymbolStackKey::push_back: a cell for this symbol after this key, unless *)
(* there is one.                                                            *)

(* Mutated: cells of the same symbol are shared, whatever is before it. *)
CachedByHead(head, tail) == {c \in cache : c.head = head}

Cached(head, tail) == {c \in cache : c.head = head /\ c.tail = tail}

PushKey(k, e) ==
  /\ \/ \E c \in Cached(e, key[k]) :
          key' = [key EXCEPT ![k] = c.handle] /\ UNCHANGED <<keys, cache>>
     \/ /\ Cached(e, key[k]) = {}
        /\ keys' = Append(keys, Cell(e, key[k], EMPTY))
        /\ key' = [key EXCEPT ![k] = Len(keys')]
        /\ cache' = cache \cup {[head |-> e, tail |-> key[k], handle |-> Len(keys')]}
  /\ UNCHANGED dequeVars

PopKey(k) ==
  /\ key[k] # EMPTY
  /\ key' = [key EXCEPT ![k] = keys[key[k]].tail]
  /\ UNCHANGED <<keys, cache, dequeVars>>

-----------------------------------------------------------------------------
ListsInit ==
  /\ arena = <<>> /\ deque = [d \in Names |-> Deque(EMPTY, FALSE)] /\ answer = <<>>
  /\ keys = <<>> /\ cache = {} /\ key = [k \in Keys |-> EMPTY]

(* Bounds on the cells. *)
Room == Len(arena) <= MaxCells

DequeNext ==
  \E d \in Names :
    \/ \E e \in Elements : Room /\ (PushFront(d, e) \/ PushBack(d, e))
    \/ Room /\ (PopFront(d) \/ PopBack(d) \/ Iter(d))
    \/ IterReused(d)
    \/ \E c \in Names : Copy(d, c) \/ (Room /\ Equals(d, c))

KeyNext ==
  \E k \in Keys : PopKey(k) \/ \E e \in Elements : Len(keys) < MaxKeyCells /\ PushKey(k, e)

(* Deques and keys share nothing. *)
ListsSpec == ListsInit /\ [][DequeNext \/ KeyNext]_listVars

-----------------------------------------------------------------------------
Contents(q) == IF q.backwards THEN Reverse(Elems(arena, q.cells)) ELSE Elems(arena, q.cells)

(* Deques are sequences: what one deque does, to cells that it shares with  *)
(* others, never shows in another one, and neither does the direction in    *)
(* which its cells happen to be.                                            *)
Abstract == INSTANCE SharedSequences WITH contents <- [d \in Names |-> Contents(deque[d])]
ImplementsSharedSequences == Abstract!Spec

(* A reversal that is remembered is one, and knows that of its own.         *)
ReversalsMutual ==
  \A h \in DOMAIN arena :
    LET r == arena[h].reversed
    IN  r # EMPTY => /\ arena[r].reversed = h
                     /\ Elems(arena, r) = Reverse(Elems(arena, h))

(* A key is a list from its back. *)
Symbols(k) == Reverse(Elems(keys, key[k]))

(* Keys are compared and looked up by their handle: two of them have the    *)
(* same handle exactly if they have the same symbols, and sharing a cell    *)
(* that another key made gives a key the symbols that were pushed to it.    *)
KeysShared ==
  [][/\ \A k, l \in Keys : (key[k] = key[l] <=> Symbols(k) = Symbols(l))'
     /\ \A k \in Keys, e \in Elements :
          PushKey(k, e) => Symbols(k)' = Append(Symbols(k), e)]_keyVars
=============================================================================
