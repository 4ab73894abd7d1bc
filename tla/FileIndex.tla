------------------------------ MODULE FileIndex ------------------------------
(***************************************************************************)
(* What the SQLite store promises to everybody that reads it: per source   *)
(* file the index holds nothing, the complete result of one indexing of    *)
(* one content of the file, or an error recorded for one content.          *)
(* Results and errors appear, and files disappear, each in one step.       *)
(*                                                                         *)
(* Module Indexing shows how SQLiteWriter and Indexer get there statement  *)
(* by statement and implements this specification.                         *)
(***************************************************************************)
CONSTANTS Files,        \* source files
          Versions,     \* contents of a file; the tag is the SHA-1 of the content
          Messages,     \* what store_error_for_file records
          Scopes        \* the sets of files one clean_* call covers

VARIABLE index          \* file -> set of entries, empty when the file is missing

Entry ==
  [kind : {"result"}, tag : Versions] \cup
  [kind : {"error"}, tag : Versions, error : Messages]

TypeOK == index \in [Files -> SUBSET Entry]

Init == index = [f \in Files |-> {}]

(* store_result_for_file: whatever was known of the file is replaced. *)
StoreResult(f, v) ==
  index' = [index EXCEPT ![f] = {[kind |-> "result", tag |-> v]}]

(* store_error_for_file: only a file of which nothing is known can fail. *)
StoreError(f, v, m) ==
  /\ index[f] = {}
  /\ index' = [index EXCEPT ![f] = {[kind |-> "error", tag |-> v, error |-> m]}]

(* clean_file, clean_file_or_directory and clean_all. *)
Clean(fs) == index' = [f \in Files |-> IF f \in fs THEN {} ELSE index[f]]

Next ==
  \/ \E f \in Files, v \in Versions : StoreResult(f, v)
  \/ \E f \in Files, v \in Versions, m \in Messages : StoreError(f, v, m)
  \/ \E fs \in Scopes : Clean(fs)

Spec == Init /\ [][Next]_index
=============================================================================
