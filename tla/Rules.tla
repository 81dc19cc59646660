------------------------------- MODULE Rules -------------------------------
(***************************************************************************)
(* app/scanner/dsl.py and evaluator.py: a rule is a tree of conditions on  *)
(* an indicator of a timeframe under "all" and "any".  The functions that  *)
(* walk a tree call themselves on its children: each is given here by what *)
(* one call returns once those of the children have, and by the depth the  *)
(* calls may reach.                                                        *)
(***************************************************************************)
EXTENDS Indicators

CONSTANTS
    Nodes,          \* conditions and groups, the children of a group among them
    Tfs,            \* timeframes
    MaxDepth        \* bound: calls within calls, as Python's recursion limit

ASSUME RulesAssumption ==
    /\ \A n \in Nodes : n.kind # "if" => n.nodes \in Seq(Nodes)
    /\ MaxDepth \in Nat

Ops == {"<", "<=", ">", ">=", "==", "!="}

Condition(ind, tf, op, value) == [kind |-> "if", ind |-> ind, tf |-> tf, op |-> op, value |-> value]
AllOf(nodes) == [kind |-> "all", nodes |-> nodes]
AnyOf(nodes) == [kind |-> "any", nodes |-> nodes]

Compare(x, op, y) ==
    CASE op = "<" -> x < y
      [] op = "<=" -> x <= y
      [] op = ">" -> x > y
      [] op = ">=" -> x >= y
      [] op = "==" -> x = y
      [] op = "!=" -> x # y

\* Mutant of Holds: a float's comparison with NaN, which is true for != alone.
HoldsOfNaN(c, snap) ==
    LET x == snap[c.tf][c.ind]
    IN IF Known(x) THEN Compare(x, c.op, c.value) ELSE c.op = "!="

\* A value that is missing or NaN makes its condition false.
Holds(c, snap) == Known(snap[c.tf][c.ind]) /\ Compare(snap[c.tf][c.ind], c.op, c.value)

\* _eval_node: the nodes that hold, given those of their children that do.
Holding(below, snap) ==
    {n \in Nodes : \/ n.kind = "if" /\ Holds(n, snap)
                   \/ n.kind = "all" /\ \A i \in DOMAIN n.nodes : n.nodes[i] \in below
                   \/ n.kind = "any" /\ \E i \in DOMAIN n.nodes : n.nodes[i] \in below}
Eval(node, snap) ==
    LET holding[d \in 0 .. MaxDepth] == Holding(IF d = 0 THEN {} ELSE holding[d - 1], snap)
    IN node \in holding[MaxDepth]

\* _parse_node: every group has a child, and every condition names an
\* indicator, a timeframe and an operator that exist.
Parsing(below) ==
    {n \in Nodes : \/ n.kind = "if" /\ n.ind \in Keys /\ n.tf \in Tfs /\ n.op \in Ops
                   \/ /\ n.kind \in {"all", "any"} /\ n.nodes # <<>>
                      /\ \A i \in DOMAIN n.nodes : n.nodes[i] \in below}
Parses(raw) ==
    LET parsing[d \in 0 .. MaxDepth] == Parsing(IF d = 0 THEN {} ELSE parsing[d - 1])
    IN raw \in parsing[MaxDepth]

\* Mutant of Collect: the alternatives of an "any" are passed over.
CollectAll(below) ==
    [n \in Nodes |-> IF n.kind = "if" THEN {<<n.ind, n.tf>>}
                     ELSE IF n.kind = "any" THEN {}
                     ELSE UNION {below[n.nodes[i]] : i \in DOMAIN n.nodes}]

\* _collect: the indicators and timeframes below a node.
Collect(below) ==
    [n \in Nodes |-> IF n.kind = "if" THEN {<<n.ind, n.tf>>}
                     ELSE UNION {below[n.nodes[i]] : i \in DOMAIN n.nodes}]
required_indicators(node) ==
    LET seen[d \in 0 .. MaxDepth] ==
            Collect(IF d = 0 THEN [n \in Nodes |-> {}] ELSE seen[d - 1])
    IN seen[MaxDepth][node]
=============================================================================
