------------------------------ MODULE MCReader ------------------------------
(* A small instance of Reader.  Both contents of a file have the node x1,   *)
(* and only one has x2; they differ in all their paths.                     *)
EXTENDS Reader, TLC

CONSTANTS f,               \* file
          v1, v2,          \* contents
          x1, x2,          \* local ids
          a, A, b,         \* symbols; a and A differ in case
          n1, n2, m1, r1, r2, r3  \* paths

MCScopes == {{f}}
MCDirectories == {{f}}
MCAlike == (a :> {a, A}) @@ (A :> {a, A}) @@ (b :> {b})
MCNodesOf == (v1 :> {x1, x2}) @@ (v2 :> {x1})
MCStartOf == (n1 :> x1) @@ (n2 :> x1) @@ (m1 :> x1) @@ (r1 :> "root") @@ (r2 :> "root")
              @@ (r3 :> "root")
MCNodesIn == (n1 :> {x1}) @@ (n2 :> {x1, x2}) @@ (m1 :> {x1}) @@ (r1 :> {x2}) @@ (r2 :> {x1}) @@ (r3 :> {x1})
MCPathsOf == (v1 :> {n1, n2, r1}) @@ (v2 :> {m1, r2, r3})
MCPreOf == (r1 :> Stack(<<a, b>>, FALSE)) @@ (r2 :> Stack(<<A>>, TRUE)) @@ (r3 :> Stack(<<a>>, TRUE))
MCQueries == {Stack(<<a>>, TRUE), Stack(<<a, b>>, FALSE)}
=============================================================================
