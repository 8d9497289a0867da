------------------------------ MODULE PlanGraph ------------------------------
(***************************************************************************)
(* A PlanGraph: the nodes of a plan, what each depends on, the resources   *)
(* it claims, and where each stands. A graph is a record of functions over *)
(* its nodes; nodes are numbers, in the order of the graph's array.        *)
(*                                                                         *)
(* Objective, acceptance and tools are text that only the model reads, and *)
(* are left out.                                                           *)
(***************************************************************************)
EXTENDS Naturals, Sequences, FiniteSets, SequencesExt

NodeStatus == {"pending", "running", "waiting_approval", "paused", "completed",
               "failed", "skipped"}

NodeKind == {"inspect", "edit", "run", "verify"}

Mode == {"read", "write", "exclusive"}

NodesOf(g) == DOMAIN g.status

\* A graph that has been parsed: its nodes have their numbers, and each of them a status.
IsPlanGraph(g) ==
  /\ DOMAIN g = {"kind", "deps", "claims", "status"}
  /\ NodesOf(g) \subseteq Nat /\ g.status \in [NodesOf(g) -> NodeStatus]

With(g, s) == {n \in NodesOf(g) : g.status[n] = s}

WithNodeStatus(g, n, s) == [g EXCEPT !.status[n] = s]

-----------------------------------------------------------------------------
(* The keys of resources. A path is a sequence of parts, a part a name and *)
(* whether it is spelled in capitals. Paths are relative to the workspace, *)
(* which is what the planner asks the model for.                           *)

Part(name, upper) == [name |-> name, upper |-> upper]

Dot == Part(".", FALSE)

Casefold(path) == [i \in DOMAIN path |-> Part(path[i].name, FALSE)]

\* What normpath keeps of a path, with one more part.
Kept(done, part) ==
  IF part.name \in {"", "."} THEN done
  ELSE IF part.name = ".." /\ done # <<>> /\ Last(done).name # ".." THEN Front(done)
  ELSE Append(done, part)

\* posixpath.normpath of a relative path.
Normpath(path) ==
  LET done[i \in 0 .. Len(path)] == IF i = 0 THEN <<>> ELSE Kept(done[i - 1], path[i])
      out == done[Len(path)]
  IN  IF out = <<>> THEN <<Dot>> ELSE out

Workspace == [scheme |-> "workspace", path |-> <<>>]

FileSchemes == {"file", "path"}

\* Faulty (see "mutants" in README.md): a path is compared as it is written.
KeyAsWritten(key) == IF key.scheme \in {"workspace", "root"} THEN Workspace ELSE key

\* "root" stands for the spelling workspace:root.
NormalizedKey(key) ==
  IF key.scheme \in {"workspace", "root"} THEN Workspace
  ELSE [key EXCEPT !.path = IF key.scheme \in FileSchemes THEN Casefold(Normpath(@))
                            ELSE Casefold(@)]

ClaimsConflict(c, d) ==
  LET k == NormalizedKey(c.key)
      l == NormalizedKey(d.key)
  IN  /\ ~(c.mode = "read" /\ d.mode = "read")
      /\ \/ k = l
         \/ Workspace \in {k, l}
         \/ /\ {k.scheme, l.scheme} \subseteq FileSchemes
            /\ IsPrefix(k.path, l.path) \/ IsPrefix(l.path, k.path)

\* What a node without claims is taken to claim.
ClaimsOf(g, n) ==
  IF g.claims[n] # {} THEN g.claims[n]
  ELSE {[key |-> Workspace, mode |-> IF g.kind[n] = "inspect" THEN "read" ELSE "exclusive"]}

ResourcesConflict(g, m, n) ==
  \E c \in ClaimsOf(g, m), d \in ClaimsOf(g, n) : ClaimsConflict(c, d)

-----------------------------------------------------------------------------
Ready(g) == {n \in With(g, "pending") : g.deps[n] \subseteq With(g, "completed")}

\* Pending nodes that can no longer become ready.
Blocked(g) ==
  {n \in With(g, "pending") : g.deps[n] \cap (With(g, "failed") \cup With(g, "skipped")) # {}}

\* batch is what select_non_conflicting_nodes takes of the ready nodes, in their order.
IsBatch(g, batch, limit) ==
  \A n \in Ready(g) :
    LET taken == {m \in batch : m < n}
    IN  n \in batch <=> /\ Cardinality(taken) < limit
                        /\ \A m \in taken : ~ResourcesConflict(g, n, m)

-----------------------------------------------------------------------------
(* What validate_plan_graph asks of a graph the model has written. *)

\* What visits leave: the nodes that are finished, or the news of a cycle.
Cyclic == [cycle |-> TRUE, visited |-> {}]

Visited(set) == [cycle |-> FALSE, visited |-> set]

\* The nodes todo are to be visited while those in open are, and those in done are finished.
Visiting(todo, open, done) == [todo |-> todo, open |-> open, done |-> done]

\* visit, where visits tells what visits leave.
Visit(deps, visits, n, open, done) ==
  IF n \in open THEN Cyclic
  ELSE IF n \in done THEN Visited(done)
  ELSE LET left == visits[Visiting(deps[n], open \cup {n}, done)]
       IN  IF left.cycle THEN left ELSE Visited(left.visited \cup {n})

\* What visits of some nodes leave, one after the other.
Visits(deps) ==
  LET N == DOMAIN deps
      visits[v \in [todo : SUBSET N, open : SUBSET N, done : SUBSET N]] ==
        IF v.todo = {} THEN Visited(v.done)
        ELSE LET n == CHOOSE n \in v.todo : TRUE
                 left == Visit(deps, visits, n, v.open, v.done)
             IN  IF left.cycle THEN left
                 ELSE visits[Visiting(v.todo \ {n}, v.open, left.visited)]
  IN  visits

\* _cycle_errors: every node is visited, depth first.
FindsCycle(deps) == Visits(deps)[Visiting(DOMAIN deps, {}, {})].cycle

KnownDependencies(deps) == \A n \in DOMAIN deps : deps[n] \subseteq DOMAIN deps

\* Faulty: cycles longer than a node that names itself are let through.
ValidDepsLoose(deps) == KnownDependencies(deps) /\ \A n \in DOMAIN deps : n \notin deps[n]

ValidDeps(deps) ==
  /\ KnownDependencies(deps)
  /\ \A n \in DOMAIN deps : n \notin deps[n]
  /\ ~FindsCycle(deps)

NoDuplicateKeys(claims) ==
  \A c, d \in claims : NormalizedKey(c.key) = NormalizedKey(d.key) => c = d

ValidGraph(g) ==
  /\ NodesOf(g) # {}
  /\ ValidDeps(g.deps)
  /\ \A n \in NodesOf(g) : NoDuplicateKeys(g.claims[n])

\* The nodes of a set, in their order.
Sorted(set) ==
  CHOOSE s \in [1 .. Cardinality(set) -> set] : \A i, j \in DOMAIN s : i < j => s[i] < s[j]

\* The nodes that wait for none are ready at first.
Waiting(deps) ==
  LET indegree == [n \in DOMAIN deps |-> Cardinality(deps[n])]
  IN  [ready |-> Sorted({n \in DOMAIN deps : indegree[n] = 0}),
       indegree |-> indegree, order |-> <<>>]

\* The first node that is ready comes next; those that waited for it alone are ready then.
Take(deps, s) ==
  IF s.ready = <<>> THEN s
  ELSE LET n == Head(s.ready)
           dependents == {m \in DOMAIN deps : n \in deps[m]}
           left == [m \in DOMAIN deps |-> IF m \in dependents THEN s.indegree[m] - 1
                                          ELSE s.indegree[m]]
       IN  [ready |-> Tail(s.ready) \o Sorted({m \in dependents : left[m] = 0}),
            indegree |-> left,
            order |-> Append(s.order, n)]

\* topological_order, Kahn's algorithm: ready is a queue of the nodes that wait for none.
TopologicalOrder(g) ==
  LET last == Cardinality(NodesOf(g))
      s[i \in 0 .. last] == IF i = 0 THEN Waiting(g.deps) ELSE Take(g.deps, s[i - 1])
  IN  s[last].order
=============================================================================
