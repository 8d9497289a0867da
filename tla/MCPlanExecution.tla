--------------------------- MODULE MCPlanExecution ---------------------------
EXTENDS PlanExecution

CONSTANTS p1, p2

MCProcs == {p1, p2}

ProcSymmetry == Permutations(MCProcs)

Claim(scheme, path, mode) == [key |-> [scheme |-> scheme, path |-> path], mode |-> mode]

a == Part("a", FALSE)
A == Part("a", TRUE)
b == Part("b", FALSE)

\* Nodes 1 and 2 write one file, which 1 calls a and 2 ./b/../A; 3, which waits for 1, reads
\* all of the directory b, and 2 reads a file in it.
Graph(nodes, deps, status) ==
  LET claims == [n \in 1..3 |->
        CASE n = 1 -> {Claim("file", <<a>>, "write")}
          [] n = 2 -> {Claim("path", <<Dot, b, Part("..", FALSE), A>>, "write"),
                       Claim("file", <<b, a>>, "read")}
          [] n = 3 -> {Claim("path", <<b>>, "read")}]
  IN  [kind   |-> [n \in nodes |-> IF n = 3 THEN "verify" ELSE "edit"],
       deps   |-> [n \in nodes |-> deps[n] \cap nodes],
       claims |-> [n \in nodes |-> claims[n]],
       status |-> [n \in nodes |-> IF n \in DOMAIN status THEN status[n] ELSE "pending"]]

Fork == 1 :> {} @@ 2 :> {} @@ 3 :> {1}

MCPlans == {Graph(1..3, Fork, <<>>)}

\* A successor without node 3; two that give up node 2, one of them with a node behind it.
MCReplans == {Graph({1, 2}, Fork, <<>>),
              Graph({1, 2}, Fork, 2 :> "skipped"),
              Graph(1..3, 1 :> {} @@ 2 :> {} @@ 3 :> {2}, 2 :> "skipped")}
=============================================================================
