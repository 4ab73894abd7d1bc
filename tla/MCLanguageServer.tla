-------------------------- MODULE MCLanguageServer --------------------------
(* A small instance of LanguageServer: a folder in a folder. *)
EXTENDS LanguageServer, TLC

CONSTANTS a, b,           \* files
          outer, inner,   \* folders
          v1, v2          \* contents; v2 is broken

MCFilesOf == (outer :> <<a, b>>) @@ (inner :> <<b>>) @@ (a :> <<a>>) @@ (b :> <<b>>)
MCScopes == {{a, b}, {a}, {b}}
=============================================================================
