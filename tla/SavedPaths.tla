----------------------------- MODULE SavedPaths -----------------------------
(***************************************************************************)
(* Partial paths as the database keeps them (serde/partial.rs): nodes by   *)
(* the name of their file and their local id, stacks from front to back,   *)
(* variables as optional numbers.  Handles differ from reader to reader.   *)
(***************************************************************************)
EXTENDS PartialPaths

CONSTANTS
  FileOf,    \* node -> its file; the root node and the jump node have none
  LocalIdOf  \* node -> its number in its file

(* The id of a node is its own. *)
ASSUME SavedPathsAssumption ==
  \A m, n \in Nodes : FileOf[m] = FileOf[n] /\ LocalIdOf[m] = LocalIdOf[n] => m = n

(* serde::NodeID *)
NodeIdOf(n) == [file |-> FileOf[n], local |-> LocalIdOf[n]]
NodesWith(id) == {n \in Nodes : NodeIdOf(n) = id}

(* What can be restored of a list: nothing if one of its elements cannot.   *)
AllOf(options) ==
  IF \E i \in DOMAIN options : options[i] = {} THEN {}
  ELSE {[i \in DOMAIN options |-> The(options[i])]}

(* A variable 0 is refused (InvalidStackVariable). *)
Restored(options, variable) ==
  {Stack(items, v) : items \in AllOf(options),
                     v \in IF variable = {} THEN {0} ELSE variable \ {0}}

SavedScopes(st) ==
  [items |-> [i \in DOMAIN st.items |-> NodeIdOf(st.items[i])], variable |-> {st.variable} \ {0}]
RestoredScopes(s) ==
  Restored([i \in DOMAIN s.items |-> NodesWith(s.items[i])], s.variable)

SavedSymbol(s) == [s EXCEPT !.scopes = {SavedScopes(st) : st \in @}]
RestoredSymbol(s) ==
  IF s.scopes = {} THEN {s}
  ELSE {[s EXCEPT !.scopes = {st}] : st \in RestoredScopes(The(s.scopes))}

SavedSymbols(st) ==
  [items |-> [i \in DOMAIN st.items |-> SavedSymbol(st.items[i])],
   variable |-> {st.variable} \ {0}]
RestoredSymbols(s) ==
  Restored([i \in DOMAIN s.items |-> RestoredSymbol(s.items[i])], s.variable)

SavedEdge(e) == [e EXCEPT !.source = NodeIdOf(@)]
RestoredEdge(e) == {[e EXCEPT !.source = n] : n \in NodesWith(e.source)}

SavedPath(p) ==
  [start |-> NodeIdOf(p.start), end |-> NodeIdOf(p.end),
   symbolPre |-> SavedSymbols(p.symbolPre),
   symbolPost |-> SavedSymbols(p.symbolPost),
   scopePre |-> SavedScopes(p.scopePre), scopePost |-> SavedScopes(p.scopePost),
   edges |-> [i \in DOMAIN p.edges |-> SavedEdge(p.edges[i])]]

RestoredPath(s) ==
  {[start |-> ends[1], end |-> ends[2], edges |-> edges,
    symbolPre |-> symbols[1], symbolPost |-> symbols[2],
    scopePre |-> scopes[1], scopePost |-> scopes[2]] :
     ends \in NodesWith(s.start) \X NodesWith(s.end),
     edges \in AllOf([i \in DOMAIN s.edges |-> RestoredEdge(s.edges[i])]),
     symbols \in RestoredSymbols(s.symbolPre) \X RestoredSymbols(s.symbolPost),
     scopes \in RestoredScopes(s.scopePre) \X RestoredScopes(s.scopePost)}
=============================================================================
