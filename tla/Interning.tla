------------------------------ MODULE Interning ------------------------------
(***************************************************************************)
(* Interned strings (graph.rs, InternedStringArena and StackGraph::         *)
(* add_symbol, add_string, add_file).  The graph hands out raw pointers     *)
(* into its buffers and uses them as keys of hash maps: a buffer that grew  *)
(* would be moved and leave them dangling.                                  *)
(***************************************************************************)
EXTENDS Naturals, Sequences

CONSTANTS
  Strings,
  Size,       \* string -> its length in bytes
  Capacities, \* the powers of two that can be allocated
  INITIAL_STRING_CAPACITY,
  Tables      \* "symbols", "strings", "files"

ASSUME InterningAssumption ==
  /\ Size \in [Strings -> Nat]
  /\ Capacities \subseteq Nat
  /\ INITIAL_STRING_CAPACITY \in Nat

VARIABLES
  buffers, \* sequence of [capacity, used]; all but the last one are full_buffers
  placed,  \* sequence of [string, buffer, start], a string that was interned
  table    \* table -> sequence of indices in placed; a handle is an index in it

vars == <<buffers, placed, table>>

(* Mutated: the new buffer may be smaller than the string. *)
NextCapacitiesOfBuffer(capacity, len) ==
  {c \in Capacities : c > capacity /\ \A d \in Capacities : d > capacity => c <= d}

(* (capacity.max(len) + 1).next_power_of_two(), if it can be allocated *)
NextCapacities(capacity, len) ==
  {c \in Capacities : /\ c > capacity /\ c > len
                      /\ \A d \in Capacities : d > capacity /\ d > len => c <= d}

Current == buffers[Len(buffers)]

Fits(len) == len <= Current.capacity - Current.used

(* The handles of a table that have this string. *)
Handles(t, s) == {h \in DOMAIN table[t] : placed[table[t][h]].string = s}

Place(t, s, buffer, start) ==
  /\ placed' = Append(placed, [string |-> s, buffer |-> buffer, start |-> start])
  /\ table' = [table EXCEPT ![t] = Append(@, Len(placed) + 1)]

(* InternedStringArena::add *)
AddToCurrent(t, s) ==
  /\ Handles(t, s) = {} /\ Fits(Size[s])
  /\ buffers' = [buffers EXCEPT ![Len(buffers)].used = @ + Size[s]]
  /\ Place(t, s, Len(buffers), Current.used)

AddToNew(t, s) ==
  /\ Handles(t, s) = {} /\ ~Fits(Size[s])
  /\ \E c \in NextCapacities(Current.capacity, Size[s]) :
       buffers' = Append(buffers, [capacity |-> c, used |-> Size[s]])
  /\ Place(t, s, Len(buffers) + 1, 0)

Init ==
  /\ buffers = <<[capacity |-> INITIAL_STRING_CAPACITY, used |-> 0]>>
  /\ placed = <<>>
  /\ table = [t \in Tables |-> <<>>]

Next == \E t \in Tables, s \in Strings : AddToCurrent(t, s) \/ AddToNew(t, s)

Spec == Init /\ [][Next]_vars

-----------------------------------------------------------------------------
Buffer == [capacity : Nat, used : Nat]
Placement == [string : Strings, buffer : Nat, start : Nat]

TypeOK ==
  /\ buffers \in Seq(Buffer) /\ Len(buffers) > 0
  /\ placed \in Seq(Placement)
  /\ table \in [Tables -> Seq(Nat)]

(* No buffer ever holds more than its capacity, which would move it.        *)
BuffersStay == \A b \in DOMAIN buffers : buffers[b].used <= buffers[b].capacity

(* Every string lies in the used part of its buffer.                        *)
Inside ==
  \A i \in DOMAIN placed :
    /\ placed[i].buffer \in DOMAIN buffers
    /\ placed[i].start + Size[placed[i].string] <= buffers[placed[i].buffer].used

(* No string was written over by a later one.                               *)
Disjoint ==
  \A i, j \in DOMAIN placed :
    i < j /\ placed[i].buffer = placed[j].buffer
      => placed[i].start + Size[placed[i].string] <= placed[j].start

(* Handles of a table: one for each string, each to one of the strings.     *)
HandlesUnique ==
  \A t \in Tables :
    /\ \A h \in DOMAIN table[t] : table[t][h] \in DOMAIN placed
    /\ \A h, k \in DOMAIN table[t] :
         placed[table[t][h]].string = placed[table[t][k]].string => h = k

(* What the raw pointers into the buffers rely on. *)
PointersValid == TypeOK /\ BuffersStay /\ Inside /\ Disjoint /\ HandlesUnique
=============================================================================
