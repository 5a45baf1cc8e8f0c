-------------------------- MODULE NodeSetScheduler --------------------------
(***************************************************************************)
(* NodeSetUpdater of pkg/rollalgorithm/nodeset_scheduler.go: which nodes   *)
(* to create, to move in place to another version and to delete, so that   *)
(* every version gets the number of nodes ShardScheduler computed.         *)
(*                                                                         *)
(* A node set is a function from node names (numbers, ordered as the names *)
(* are) to [version, phase].  The phase is what the scores and predicates  *)
(* of a replica tell apart here: "empty" (no pod assigned), "starting"     *)
(* (assigned, its version not serving yet) and "ready" (in service).       *)
(* Deletion costs are equal, so names break every tie.                     *)
(***************************************************************************)
EXTENDS ShardScheduler

Phases == {"empty", "starting", "ready"}

GetScore(node) ==
  CASE node.phase = "ready" -> 2
    [] node.phase = "starting" -> 1
    [] node.phase = "empty" -> 0

IsEmpty(node) == node.phase = "empty"

GetVersionStatus(nodes) ==
  LET of(v) == {i \in DOMAIN nodes : nodes[i].version = v}
  IN  [v \in {nodes[i].version : i \in DOMAIN nodes} |->
         [replicas |-> Cardinality(of(v)),
          ready |-> Cardinality({i \in of(v) : nodes[i].phase = "ready"})]]

\* NodeSet.Less, reversed by Schedule: the best node first.
Better(nodes, a, b) ==
  \/ GetScore(nodes[a]) > GetScore(nodes[b])
  \/ GetScore(nodes[a]) = GetScore(nodes[b]) /\ a < b

\* lessForUpdate: empty nodes are moved before nodes with a pod.
lessForUpdate(nodes, a, b) ==
  \/ IsEmpty(nodes[a]) /\ ~ IsEmpty(nodes[b])
  \/ IsEmpty(nodes[a]) = IsEmpty(nodes[b]) /\ a < b

\* initNodesVersionMap, after the sort.
versionNodes(nodes, v) ==
  SortBy({i \in DOMAIN nodes : nodes[i].version = v}, LAMBDA a, b : Better(nodes, a, b))

\* Mutant: off by one, the last node within the target is redundant too.
collectFromTarget(nodes, target) ==
  UNION {LET s == versionNodes(nodes, v)
         IN  {s[k] : k \in Int32Max(1, At(target, v)) .. Len(s)} : v \in {nodes[i].version : i \in DOMAIN nodes}}

\* The nodes of each version beyond its target count.
collectRedundantNode(nodes, target) ==
  UNION {LET s == versionNodes(nodes, v)
         IN  {s[k] : k \in (At(target, v) + 1) .. Len(s)} : v \in {nodes[i].version : i \in DOMAIN nodes}}

\* Mutant: redundant nodes are moved, and as many new nodes created.
supplyTwice(nodes, redundant, target, order) ==
  LET have(v) == Cardinality({i \in DOMAIN nodes \ redundant : nodes[i].version = v})
      Supply(acc, v) ==
        LET n == Int32Min(target[v] - have(v), Len(acc.rest))
        IN  [update |-> [i \in {acc.rest[k] : k \in 1 .. n} |-> v] @@ acc.update,
             rest |-> SubSeq(acc.rest, n + 1, Len(acc.rest)),
             create |-> (v :> target[v] - have(v)) @@ acc.create]
  IN  FoldLeft(Supply,
               [update |-> EmptyMap, create |-> EmptyMap,
                rest |-> SortBy(redundant, LAMBDA a, b : lessForUpdate(nodes, a, b))],
               order)

\* Serve the versions, in the order in which the map iteration yields them,
\* with the redundant nodes first and with new nodes after that.
supplyNode(nodes, redundant, target, order) ==
  LET have(v) == Cardinality({i \in DOMAIN nodes \ redundant : nodes[i].version = v})
      Supply(acc, v) ==
        LET count == target[v] - have(v)
            n == Int32Min(count, Len(acc.rest))
        IN  [update |-> [i \in {acc.rest[k] : k \in 1 .. n} |-> v] @@ acc.update,
             rest |-> SubSeq(acc.rest, n + 1, Len(acc.rest)),
             create |-> IF count > n THEN (v :> count - n) @@ acc.create ELSE acc.create]
  IN  FoldLeft(Supply,
               [update |-> EmptyMap, create |-> EmptyMap,
                rest |-> SortBy(redundant, LAMBDA a, b : lessForUpdate(nodes, a, b))],
               order)

\* A redundant node that has a pod takes the place of an active node that has none.
replaceEmptyNode(nodes, active, supplied) ==
  LET empties == SortBy({i \in active : IsEmpty(nodes[i])}, LAMBDA a, b : a > b)
      n == IF supplied.rest = <<>> \/ IsEmpty(nodes[Head(supplied.rest)])
             THEN 0 ELSE Int32Min(Len(empties), Len(supplied.rest))
      taken == {supplied.rest[k] : k \in 1 .. n}
      versionFor(i) == nodes[empties[CHOOSE k \in 1 .. n : supplied.rest[k] = i]].version
  IN  [create |-> supplied.create,
       update |-> [i \in taken \cup DOMAIN supplied.update |->
                     IF i \in taken THEN versionFor(i) ELSE supplied.update[i]],
       delete |-> {empties[k] : k \in 1 .. n} \cup (Range(supplied.rest) \ taken)]

\* The supply loop meets the versions that lack nodes in any order.
Orders(nodes, target) ==
  SetToSeqs({v \in DOMAIN target :
               target[v] > Cardinality({i \in DOMAIN nodes : nodes[i].version = v})})

rollingUpdateNodeSet(nodes, target, order) ==
  With(collectRedundantNode(nodes, target), LAMBDA redundant :
    With(supplyNode(nodes, redundant, target, order), LAMBDA supplied :
      replaceEmptyNode(nodes, DOMAIN nodes \ redundant, supplied)))
=============================================================================
