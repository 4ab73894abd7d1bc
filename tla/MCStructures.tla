----------------------------- MODULE MCStructures -----------------------------
(***************************************************************************)
(* The structures that the crate keeps in memory, each explored on its own: *)
(* deques, keys, interned strings and stack graphs share no state.          *)
(***************************************************************************)
EXTENDS Interning, Lists, GraphBuilder, TLC

VARIABLES
  subject  \* the structure that is explored

allVars == <<subject, vars, listVars, graphVars, builder>>

StructuresInit ==
  /\ subject \in {"deques", "keys", "strings", "graphs", "builder"}
  /\ Init /\ ListsInit
  /\ IF subject = "builder" THEN BuilderInit
     ELSE /\ builder = Idle(CHOOSE x \in Graphs : TRUE)
          /\ IF subject = "graphs" THEN GraphsInit
             ELSE /\ graphs = [x \in Graphs |-> EmptyGraph] /\ saved = {}
                  /\ content = {} /\ outcome = "ok"

StructuresNext ==
  /\ \/ subject = "deques" /\ DequeNext /\ UNCHANGED <<vars, graphVars, builder>>
     \/ subject = "keys" /\ KeyNext /\ UNCHANGED <<vars, graphVars, builder>>
     \/ subject = "strings" /\ Next /\ UNCHANGED <<listVars, graphVars, builder>>
     \/ subject = "graphs" /\ GraphsNext /\ UNCHANGED <<vars, listVars, builder>>
     \/ subject = "builder" /\ BuilderNext /\ UNCHANGED <<vars, listVars>>
  /\ UNCHANGED subject

StructuresSpec == StructuresInit /\ [][StructuresNext]_allVars

-----------------------------------------------------------------------------
Symmetric == Permutations(Names) \cup Permutations(Elements) \cup Permutations(Keys)

MCSize == [s \in Strings |-> CASE s = "empty" -> 0 [] s = "short" -> 1 [] s = "long" -> 5]

(* A scope, and a node that attaches a scope of the file "a". *)
MCPayloads == {<<"scope", {}>>, <<"push scoped symbol", {"a"}>>}
MCScopeFiles == [payload \in MCPayloads |-> payload[2]]

MCInfos == {[span |-> "span", line |-> "line", name |-> "full", definiens |-> "body"]}

(* The nodes of a file, and up to two nodes of the rules, one of which may  *)
(* attach a scope, with up to two edges.                                    *)
MCExistingIds == {<<>>, <<1>>, <<0, 1>>, <<2, 1>>, <<2, 0, 3>>}

RulesNode(kind, scope) == [kind |-> kind, scope |-> scope]
Attaches(ref) == RulesNode("push scoped symbol", {ref})
MCConstructions ==
  LET nodes == {<<>>, <<RulesNode("exported scope", {})>>, <<Attaches(Injected(1))>>,
                <<RulesNode("exported scope", {}), Attaches(Own(1))>>,
                <<Attaches(Own(2)), RulesNode("exported scope", {})>>,
                <<Attaches(Own(2)), RulesNode("scope", {})>>}
      refs(n) == {Own(i) : i \in DOMAIN n} \cup {Injected(1), RootNode, JumpNode}
      pairs(n) == (refs(n) \ {JumpNode}) \X refs(n)
      edge(pair, precedence) == [source |-> pair[1], sink |-> pair[2], precedence |-> precedence]
  IN  UNION {{[nodes |-> n, edges |-> e] :
                e \in {<<>>} \cup {<<edge(p, 0)>> : p \in pairs(n)}
                      \cup {<<edge(p, 0), edge(q, 1)>> :
                              p \in {x \in pairs(n) : x[1] = RootNode},
                              q \in {x \in pairs(n) : x[1] # RootNode}}} : n \in nodes}

MCStarted == [into |-> {<<>>, <<"a">>}, other |-> {<<>>}]
=============================================================================
