----------------------------- MODULE MCStitcher -----------------------------
(* Two files.  The first one calls a function f with a scope x attached and *)
(* looks q up in what the call returns; the second one defines f, whose     *)
(* result is looked up in the attached scope, or is a definition of q.      *)
EXTENDS Stitcher, TLC

MCNodeOrder == <<"root", "jump", "q", "call", "inner", "x", "q1", "f", "drop", "q2">>
MCNodes == ToSet(MCNodeOrder)

MCFiles == <<"one", "two">>
MCFileOf == [n \in {"root", "jump"} |-> "none"]
            @@ [n \in {"q", "call", "inner", "x", "q1"} |-> "one"]
            @@ [n \in MCNodes |-> "two"]
(* Local ids are numbers within a file. *)
Numbered(order, fileOf) ==
  [n \in ToSet(order) |->
     Cardinality({i \in DOMAIN order : /\ fileOf[order[i]] = fileOf[n]
                                       /\ \E j \in i..Len(order) : order[j] = n})]
MCLocalIdOf == Numbered(MCNodeOrder, MCFileOf)
MCKindOf == [n \in {"q"} |-> "push symbol"] @@ [n \in {"call"} |-> "push scoped symbol"]
            @@ [n \in {"q1", "q2"} |-> "pop symbol"] @@ [n \in {"f"} |-> "pop scoped symbol"]
            @@ [n \in {"drop"} |-> "drop scopes"] @@ [n \in {"jump"} |-> "jump to"]
            @@ [n \in {"root"} |-> "root"] @@ [n \in MCNodes |-> "scope"]
MCSymbolOf == [n \in {"q", "q1", "q2"} |-> "q"] @@ [n \in {"call", "f"} |-> "f"]
MCScopeOf == [n \in {"call"} |-> "x"]
MCReferences == {"q", "call"}
MCDefinitions == {"q1", "f", "q2"}
MCExportedScopes == {"x"}
MCSymbols == {"f", "q"}
MCAlike == [s \in MCSymbols |-> {s}]

Edge(source, sink, precedence) ==
  [source |-> source, sink |-> sink, precedence |-> precedence]

Call == {Edge("q", "call", 0), Edge("call", "root", 0), Edge("root", "f", 0),
         Edge("f", "jump", 0), Edge("x", "q1", 0)}
Ways == {Edge("call", "inner", 1), Edge("inner", "root", 0), Edge("inner", "q1", 0),
         Edge("f", "q2", 0), Edge("f", "drop", 1), Edge("drop", "q2", 0),
         Edge("x", "inner", 0), Edge("drop", "drop", 0)}
MCGraphs == {Call \cup ways : ways \in {w \in SUBSET Ways : Cardinality(w) <= 3}}

(* The calls of find_* by the command line, and a loop over                 *)
(* process_next_phase, as the C interface makes it: a database that has all *)
(* paths, and the defaults of the stitcher but for a bound on its work.     *)
MCSettings ==
  {[workPerPhase |-> 99, similar |-> TRUE, preloaded |-> FALSE, joinNodesOnly |-> TRUE],
   [workPerPhase |-> 2, similar |-> FALSE, preloaded |-> TRUE, joinNodesOnly |-> FALSE]}

MCInputs ==
  LET attached == {{}, {<<>>}, {<<"x">>}}
      symbols == {<<>>} \cup {<<s>> : s \in [symbol : MCSymbols, scopes : attached]}
  IN  {Concrete(s \o t, c) : s, t \in symbols, c \in {<<>>, <<"x">>}}

-----------------------------------------------------------------------------
(* One file: q reaches the scope m by way of a and of b; b also leads to a  *)
(* definition that has precedence over what m leads to.                     *)
TwoWaysOrder == <<"root", "jump", "q", "b", "a", "m", "q1", "q2">>
TwoWaysNodes == ToSet(TwoWaysOrder)
TwoWaysFiles == <<"one">>
TwoWaysFileOf == [n \in TwoWaysNodes |-> IF n \in {"root", "jump"} THEN "none" ELSE "one"]
TwoWaysLocalIdOf == Numbered(TwoWaysOrder, TwoWaysFileOf)
TwoWaysKindOf == [n \in {"q"} |-> "push symbol"] @@ [n \in {"q1", "q2"} |-> "pop symbol"]
                 @@ [n \in {"root"} |-> "root"] @@ [n \in {"jump"} |-> "jump to"]
                 @@ [n \in TwoWaysNodes |-> "scope"]
TwoWaysSymbolOf == [n \in {"q", "q1", "q2"} |-> "q"]
TwoWaysGraphs ==
  {{Edge("q", "a", 0), Edge("q", "b", 0), Edge("a", "m", 0), Edge("b", "m", 0),
    Edge("b", "q1", 1), Edge("m", "q2", 0)}}
NoScopes == [n \in {} |-> "x"]
TwoWaysAlike == [s \in {"q"} |-> {"q"}]
TwoWaysInputs == {Concrete(<<>>, <<>>)}
=============================================================================
