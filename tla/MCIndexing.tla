----------------------------- MODULE MCIndexing -----------------------------
(* Small instances of Indexing for TLC. *)
EXTENDS Indexing, TLC

CONSTANTS a, b, c,            \* files
          w1, w2,          \* writers
          v1, v2, vBroken, \* contents
          n1, r1, n2, r2   \* paths; r1 and r2 start at the root

MCPathsOf == (v1 :> {n1, r1}) @@ (v2 :> {n2, r2}) @@ (vBroken :> {})
MCPathsOf1 == (v1 :> {n1, r1}) @@ (vBroken :> {})
ListABC == {<<c, a, b>>}
ListA == {<<a>>}
NoMark == {{}}
AnyMark == {{}, {a}, {b}}
ScopesABC == {{a}, {a, b, c}}
ScopesA == {{a}}
=============================================================================
