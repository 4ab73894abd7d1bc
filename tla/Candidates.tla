----------------------------- MODULE Candidates -----------------------------
(***************************************************************************)
(* Finding the root paths that can extend a path that ends at the root     *)
(* node.  It is done twice: SQLiteReader asks SQLite for rows whose storage *)
(* key is LIKE one of a list of patterns, and Database then looks the       *)
(* loaded paths up in three tables.  Both approximate compatibility of the *)
(* path's symbol stack postcondition with a precondition.                  *)
(***************************************************************************)
EXTENDS Naturals, Sequences, FiniteSets, SequencesExt

CONSTANTS
  Symbols,  \* symbols of symbol stacks
  Alike     \* symbol -> the symbols its pattern text matches: LIKE ignores the
            \* case of ASCII letters, a backslash escapes what comes after it

(* A symbol stack, without the scopes that are attached to its symbols. *)
Stack(symbols, variable) == [symbols |-> symbols, variable |-> variable]

Stacks == [symbols : Seq(Symbols), variable : BOOLEAN]

(* What the lookups are for: the two stacks unify. *)
Compatible(post, pre) ==
  \/ post.symbols = pre.symbols
  \/ pre.variable /\ IsPrefix(pre.symbols, post.symbols)
  \/ post.variable /\ IsPrefix(post.symbols, pre.symbols)

-----------------------------------------------------------------------------
(* PartialSymbolStack::storage_key and storage_key_patterns.  The key of a  *)
(* precondition determines the stack: its variable, then its symbols.  A    *)
(* pattern fixes the variable or leaves it open ("_"), and has the symbols  *)
(* of the key, or the first ones and a separator ("␟%").                    *)

Pattern(variables, symbols, open) ==
  [variables |-> variables, symbols |-> symbols, open |-> open]

(* Mutated: the paths that match the stack exactly are not asked for. *)
PatternsNotExact(post) ==
  LET s == post.symbols
  IN  [i \in 1..Len(s) |-> Pattern({TRUE}, SubSeq(s, 1, i), FALSE)]
      \o (IF post.variable THEN <<Pattern(BOOLEAN, s, TRUE)>> ELSE <<>>)

(* Prefixes of the stack with a variable, the stack itself without one, and *)
(* what the stack is a prefix of.                                           *)
Patterns(post) ==
  LET s == post.symbols
  IN  [i \in 1..Len(s) |-> Pattern({TRUE}, SubSeq(s, 1, i), FALSE)]
      \o <<Pattern({FALSE}, s, FALSE)>>
      \o (IF post.variable THEN <<Pattern(BOOLEAN, s, TRUE)>> ELSE <<>>)

(* Without symbols, an open pattern is "_␞␟%": no key has an empty first    *)
(* symbol.                                                                  *)
Like(key, pattern) ==
  /\ key.variable \in pattern.variables
  /\ IF pattern.open
     THEN pattern.symbols # <<>> /\ Len(key.symbols) > Len(pattern.symbols)
     ELSE Len(key.symbols) = Len(pattern.symbols)
  /\ \A i \in 1..Len(pattern.symbols) : key.symbols[i] \in Alike[pattern.symbols[i]]

-----------------------------------------------------------------------------
(* Database: root_paths_by_precondition_{with_variable, without_variable,   *)
(* prefix}, each a table from symbols to paths.                             *)

NonemptyPrefixes(s) == {SubSeq(s, 1, i) : i \in 1..Len(s)}

(* Where add_partial_path puts a root path with this precondition. *)
AddedUnder(pre) ==
  {<<IF pre.variable THEN "with variable" ELSE "without variable", s>> :
      s \in {pre.symbols} \ {<<>>}}
  \cup
  {<<"prefix", s>> : s \in NonemptyPrefixes(pre.symbols) \ {pre.symbols}}

(* Where find_candidate_partial_paths_from_root looks. *)
LookedUp(post) ==
  {<<"without variable", post.symbols>>}
  \cup
  {<<"prefix", s>> : s \in IF post.variable THEN {post.symbols} ELSE {}}
  \cup
  {<<"with variable", s>> : s \in NonemptyPrefixes(post.symbols) \cup {<<>>}}

(* How often a path with this precondition is a candidate. *)
Hits(post, pre) == Cardinality(LookedUp(post) \cap AddedUnder(pre))
=============================================================================
