--------------------------- MODULE Planner_proofs ---------------------------
(***************************************************************************)
(* The calls of a planner phase are bounded and what it leaves on record   *)
(* is true wherever it is cut short, for any numbers of retries and        *)
(* repairs and any graphs the model may write.                             *)
(*                                                                         *)
(* A graph is accepted exactly if it can be run. A visit opens a node more *)
(* or has a node less to do (Measure), so Visits is what it is said to be  *)
(* and has these two properties: where nodes can be ranked above what they *)
(* depend on, what is open ranks above what is to do, and no cycle is      *)
(* found (NoneFound); where none is found, the nodes can be ranked in the  *)
(* order in which their visits end (AllFinished). With a rank, some node   *)
(* is always ready, so topological_order comes to its end (OrderFound).    *)
(***************************************************************************)
EXTENDS Planner, TableFacts, FiniteSetTheorems

\* Every call but the last has been paid for with a retry or a repair.
Paid ==
  /\ attempts <= retries + repairs + 1
  /\ pc \in {"open", "request", "generate"} => attempts <= retries + repairs
  /\ pc = "notify" /\ last # "failed" => attempts <= retries + repairs

\* The counters are within their limits, and a checkpoint names no call to come.
CallsInv ==
  /\ attempts \in Nat /\ retries \in Nat /\ repairs \in Nat
  /\ retries <= MaxRequestRetries /\ repairs <= MaxFormatRepairs
  /\ Paid
  /\ pc \in {"replied", "notify", "failing"} => 1 <= attempts
  /\ checkpoint.attempt \in Nat /\ checkpoint.attempt <= attempts

\* Nothing has been called yet.
LEMMA CallsInit == Init => CallsInv
  BY BoundsAssumption DEF Init, CallsInv, Paid

\* No step calls the model without a retry or a repair that is left.
LEMMA CallsStep == CallsInv /\ [Next]_vars => CallsInv'
<1> SUFFICES ASSUME CallsInv, [Next]_vars PROVE CallsInv'
  OBVIOUS
<1> USE BoundsAssumption DEF CallsInv, Paid
<1>1. CASE OpenRun
  BY <1>1 DEF OpenRun, Counted
<1>2. CASE Request
  BY <1>2 DEF Request, Counted, Persist
<1>3. ASSUME NEW r \in Replies, Generate(r) PROVE CallsInv'
  BY <1>3 DEF Generate, Stored
<1>4. CASE Raise
  BY <1>4 DEF Raise, Stored
<1>5. CASE Retry
  BY <1>5 DEF Retry, Notify, Stored
<1>6. CASE Repair
  BY <1>6 DEF Repair, CanRepair, Notify, Stored
<1>7. CASE Refuse
  BY <1>7 DEF Refuse, Notify, Stored, Counted
<1>8. CASE Accept
  BY <1>8 DEF Accept, Stored, Counted
<1>9. CASE Checkpoint
  BY <1>9 DEF Checkpoint, Persist, Counted
<1>10. CASE CheckpointFailure
  BY <1>10 DEF CheckpointFailure, Counted
<1>11. CASE LoseCheckpoint
  BY <1>11 DEF LoseCheckpoint, Stored, Counted
<1>12. CASE CloseFailed
  BY <1>12 DEF CloseFailed, Counted
<1>13. CASE Close
  BY <1>13 DEF Close, Counted
<1>14. CASE LastCheckpoint
  BY <1>14 DEF LastCheckpoint, Persist, Counted
<1>15. CASE CutShort \/ Die
  BY <1>15 DEF CutShort, Die, Stored, Counted, Ended
<1>16. CASE UNCHANGED vars
  BY <1>16 DEF vars
<1>17. CASE Pause
  BY <1>17 DEF Pause, PauseFinds, PauseCloses, PauseSaves, Stored, Counted
<1> QED
  BY <1>1, <1>2, <1>3, <1>4, <1>5, <1>6, <1>7, <1>8, <1>9, <1>10, <1>11, <1>12, <1>13,
     <1>14, <1>15, <1>16, <1>17 DEF Next, Phase

\* A phase calls the model at most max_attempts times, however request errors and faulty
\* graphs alternate, and no checkpoint speaks of a call that was not made.
THEOREM CallsAreBounded == Spec => []CallsBounded
<1>1. CallsInv => CallsBounded
  BY BoundsAssumption DEF CallsInv, Paid, CallsBounded, max_attempts
<1> QED
  BY CallsInit, CallsStep, <1>1, PTL DEF Spec

-----------------------------------------------------------------------------
\* What the phase has on record on its way to each of its ends: the graph that it was
\* accepted for or the failure, and neither before it is known.
EndInv ==
  /\ EndRecorded
  /\ pc \in {"close", "completed"} => Accepts
  /\ pc = "completed" => RunSays("completed")
  /\ pc \in {"failing", "close_failed"} \/ (pc = "notify" /\ last = "failed") => ~Accepts
  /\ pc = "failing" => reply.kind = "raised"
  /\ pc = "close_failed" => Says("failed") \/ (reply.kind = "raised" /\ last = "failed")
  /\ pc \in {"open", "request", "generate", "replied", "notify", "failing", "close_failed",
            "close"} => run \notin {"completed", "failed"}
  /\ pc \in {"open", "request", "generate", "replied", "notify", "close"}
       => checkpoint.request # "failed"
  /\ last # "completed" /\ (checkpoint.request = "completed" => pc = "planned")

\* The phase has nothing on record when it begins.
LEMMA EndInit == Init => EndInv
  BY NoneAssumption DEF Init, EndInv, EndRecorded, Says, RunSays

\* Each step writes only what is true of the phase by then.
LEMMA EndStep == EndInv /\ [Next]_vars => EndInv'
<1> SUFFICES ASSUME EndInv, [Next]_vars PROVE EndInv'
  OBVIOUS
<1> USE DEF EndInv, EndRecorded, RunSays
<1>1. CASE OpenRun
  BY <1>1 DEF OpenRun, Says
<1>2. CASE Request
  BY <1>2 DEF Request, Persist, Says
<1>3. ASSUME NEW r \in Replies, Generate(r) PROVE EndInv'
  BY <1>3 DEF Generate, Stored, Says
<1>4. CASE Raise
  BY <1>4 DEF Raise, Bare, Stored, Says, Accepts, IsGraph
<1>5. CASE Retry
  BY <1>5 DEF Retry, Notify, Stored, Says
<1>6. CASE Repair
  BY <1>6 DEF Repair, Notify, Stored, Says
<1>7. CASE Refuse
  BY <1>7 DEF Refuse, Notify, Stored, Says, Accepts, IsGraph
<1>8. CASE Accept
  BY <1>8 DEF Accept, Accepts, IsGraph, Stored, Says
<1>9. CASE Checkpoint
  BY <1>9 DEF Checkpoint, Persist, Says, Accepts, IsGraph
<1>10. CASE CheckpointFailure
  BY <1>10 DEF CheckpointFailure, Says, Accepts, IsGraph
<1>11. CASE LoseCheckpoint
  BY <1>11 DEF LoseCheckpoint, Bare, Stored, Says, Accepts, IsGraph
<1>12. CASE CloseFailed
  BY <1>12 DEF CloseFailed, Says, Accepts, IsGraph
<1>13. CASE Close
  BY <1>13 DEF Close, Accepts, IsGraph, Says
<1>14. CASE LastCheckpoint
  BY <1>14 DEF LastCheckpoint, Persist, Accepts, IsGraph, Says
<1>15. CASE CutShort \/ Die
  BY <1>15 DEF CutShort, Die, Ended, Stored, Says, Accepts, IsGraph
<1>16. CASE UNCHANGED vars
  BY <1>16 DEF vars, Accepts, IsGraph, Says
<1>17. CASE Pause
  BY <1>17 DEF Pause, PauseFinds, PauseCloses, PauseSaves, Stored, Says, Accepts, IsGraph
<1> QED
  BY <1>1, <1>2, <1>3, <1>4, <1>5, <1>6, <1>7, <1>8, <1>9, <1>10, <1>11, <1>12, <1>13,
     <1>14, <1>15, <1>16, <1>17 DEF Next, Phase

\* Wherever a failing write, Ctrl-C or a death cuts a phase short, its run and its last
\* checkpoint say nothing that is not so, and a phase that comes to its own end has said
\* which, in its run and, but for a failure that could not be written, in its checkpoint,
\* unless another process has written a pause over it.
THEOREM EndIsRecorded == Spec => []EndRecorded
<1>1. EndInv => EndRecorded
  BY DEF EndInv
<1> QED
  BY EndInit, EndStep, <1>1, PTL DEF Spec

-----------------------------------------------------------------------------
(* Visits, depth first. *)

\* A graph that _cycle_errors is asked about.
FiniteDeps(deps) == IsFiniteSet(DOMAIN deps) /\ KnownDependencies(deps)

Calls(N) == [todo : SUBSET N, open : SUBSET N, done : SUBSET N]

Outcomes(N) == [cycle : BOOLEAN, visited : SUBSET N]

\* What a call leaves, by what the calls it makes leave.
Leaves(deps, visits, v) ==
  IF v.todo = {} THEN Visited(v.done)
  ELSE LET n == CHOOSE n \in v.todo : TRUE
           left == Visit(deps, visits, n, v.open, v.done)
       IN  IF left.cycle THEN left
           ELSE visits[Visiting(v.todo \ {n}, v.open, left.visited)]

\* A call opens a node more, or has a node less to do.
Measure(N) ==
  [v \in Calls(N) |-> Cardinality(N \ v.open) * (Cardinality(N) + 1) + Cardinality(v.todo)]

\* Fewer that are not open outweigh any number to do.
LEMMA Outweighs ==
  ASSUME NEW a \in Nat, NEW b \in Nat, NEW B \in Nat, NEW s \in Nat, NEW t \in Nat, b < a, s < B
  PROVE  b * B + s < a * B + t
<1>1. PICK d \in Nat : a = b + 1 + d
  <2>1. a - b - 1 \in Nat /\ a = b + 1 + (a - b - 1)
    OBVIOUS
  <2> QED
    BY <2>1
<1>2. a * B = b * B + B + d * B
  BY <1>1
<1>3. d * B \in Nat /\ b * B \in Nat
  OBVIOUS
<1> QED
  BY <1>2, <1>3

\* The measure is a number, and there is a largest one.
LEMMA Measured ==
  ASSUME NEW N, IsFiniteSet(N)
  PROVE  LET c == Cardinality(N)
         IN  /\ c * (c + 1) + c \in Nat
             /\ Measure(N) \in [Calls(N) -> 0 .. c * (c + 1) + c]
<1> DEFINE c == Cardinality(N)
<1>1. c \in Nat
  BY FS_CardinalityType
<1>2. \A S \in SUBSET N : Cardinality(S) \in 0 .. c
  <2> TAKE S \in SUBSET N
  <2>1. Cardinality(S) <= c /\ IsFiniteSet(S)
    BY FS_Subset
  <2> QED
    BY <1>1, <2>1, FS_CardinalityType
<1> HIDE DEF c
<1>3. \A a, b \in 0 .. c : a * (c + 1) + b \in 0 .. c * (c + 1) + c
  <2> TAKE a, b \in 0 .. c
  <2>1. a \in Nat /\ b \in Nat /\ a <= c /\ b <= c
    BY <1>1
  <2>2. PICK d \in Nat : c = a + d
    <3>1. c - a \in Nat /\ c = a + (c - a)
      BY <1>1, <2>1
    <3> QED
      BY <3>1
  <2>3. c * (c + 1) = a * (c + 1) + d * (c + 1)
    BY <1>1, <2>1, <2>2
  <2>4. a * (c + 1) \in Nat /\ d * (c + 1) \in Nat
    BY <1>1, <2>1
  <2> QED
    BY <1>1, <2>1, <2>3, <2>4
<1>4. c * (c + 1) + c \in Nat
  BY <1>1
<1>5. \A v \in Calls(N) : Cardinality(N \ v.open) \in 0 .. c /\ Cardinality(v.todo) \in 0 .. c
  BY <1>2 DEF Calls
<1> QED
  BY <1>3, <1>4, <1>5 DEF Measure, c

\* What a call makes it makes with less to do.
LEMMA CallsLess ==
  ASSUME NEW N, IsFiniteSet(N), NEW v \in Calls(N), NEW n \in v.todo, NEW S \in SUBSET N
  PROVE  /\ n \notin v.open =>
              /\ Visiting(S, v.open \cup {n}, v.done) \in Calls(N)
              /\ Measure(N)[Visiting(S, v.open \cup {n}, v.done)] < Measure(N)[v]
         /\ Visiting(v.todo \ {n}, v.open, S) \in Calls(N)
         /\ Measure(N)[Visiting(v.todo \ {n}, v.open, S)] < Measure(N)[v]
<1> DEFINE c == Cardinality(N)
           a == Cardinality(N \ v.open)
           t == Cardinality(v.todo)
           w == Visiting(S, v.open \cup {n}, v.done)
           x == Visiting(v.todo \ {n}, v.open, S)
<1>1. c \in Nat
  BY FS_CardinalityType
<1>2. \A U \in SUBSET N : IsFiniteSet(U) /\ Cardinality(U) \in Nat /\ Cardinality(U) <= c
  BY FS_Subset, FS_CardinalityType
<1>3. v.todo \in SUBSET N /\ v.open \in SUBSET N /\ v.done \in SUBSET N /\ n \in N
  BY DEF Calls
<1>4. a \in Nat /\ t \in Nat /\ Cardinality(S) \in Nat /\ Cardinality(S) < c + 1
  <2>1. N \ v.open \in SUBSET N
    OBVIOUS
  <2> QED
    BY <1>1, <1>2, <1>3, <2>1
<1>5. Measure(N)[v] = a * (c + 1) + t
  BY DEF Measure
<1>6. ASSUME n \notin v.open PROVE w \in Calls(N) /\ Measure(N)[w] < Measure(N)[v]
  <2>1. w \in Calls(N) /\ w.open = v.open \cup {n} /\ w.todo = S
    BY <1>3 DEF Visiting, Calls
  <2>2. N \ w.open = (N \ v.open) \ {n} /\ n \in N \ v.open /\ IsFiniteSet(N \ v.open)
    BY <1>2, <1>3, <1>6, <2>1
  <2>3. Cardinality(N \ w.open) = a - 1
    <3>1. Cardinality((N \ v.open) \ {n}) = Cardinality(N \ v.open) - 1
      BY <2>2, FS_RemoveElement
    <3> HIDE DEF w
    <3> QED
      BY <2>2, <3>1
  <2>4. Cardinality(N \ w.open) \in Nat
    BY <1>2
  <2>5. Measure(N)[w] = Cardinality(N \ w.open) * (c + 1) + Cardinality(S)
    BY <2>1 DEF Measure
  <2> HIDE DEF a, c, t, w
  <2>6. Cardinality(N \ w.open) < a /\ c + 1 \in Nat
    BY <1>1, <1>4, <2>3, <2>4
  <2> QED
    BY <1>4, <1>5, <2>1, <2>4, <2>5, <2>6, Outweighs
<1>7. x \in Calls(N) /\ Measure(N)[x] < Measure(N)[v]
  <2>1. x \in Calls(N) /\ x.open = v.open /\ x.todo = v.todo \ {n}
    BY <1>3 DEF Visiting, Calls
  <2>2. Cardinality(x.todo) = t - 1
    <3>1. IsFiniteSet(v.todo)
      BY <1>2, <1>3
    <3>2. Cardinality(v.todo \ {n}) = Cardinality(v.todo) - 1
      BY <3>1, FS_RemoveElement
    <3> HIDE DEF x
    <3> QED
      BY <2>1, <3>2
  <2>3. Measure(N)[x] = a * (c + 1) + Cardinality(x.todo)
    BY <2>1 DEF Measure
  <2> HIDE DEF a, c, t, x
  <2>4. a * (c + 1) \in Nat
    BY <1>1, <1>4
  <2> QED
    BY <1>4, <1>5, <2>1, <2>2, <2>3, <2>4
<1> QED
  BY <1>6, <1>7

\* What one visit leaves, and what a call leaves, is an outcome if what the calls leave is.
LEMMA LeavesTyped ==
  ASSUME NEW deps, FiniteDeps(deps), NEW f, NEW v \in Calls(DOMAIN deps),
         \A w \in Calls(DOMAIN deps) :
           Measure(DOMAIN deps)[w] < Measure(DOMAIN deps)[v] => f[w] \in Outcomes(DOMAIN deps)
  PROVE  /\ \A n \in v.todo : Visit(deps, f, n, v.open, v.done) \in Outcomes(DOMAIN deps)
         /\ Leaves(deps, f, v) \in Outcomes(DOMAIN deps)
<1> DEFINE N == DOMAIN deps
<1>1. /\ v.todo \in SUBSET N /\ v.done \in SUBSET N /\ \A n \in N : deps[n] \in SUBSET N
      /\ IsFiniteSet(N)
  BY DEF FiniteDeps, KnownDependencies, Calls
<1>2. Cyclic \in Outcomes(N) /\ \A S \in SUBSET N : Visited(S) \in Outcomes(N)
  BY DEF Cyclic, Visited, Outcomes
<1>3. \A n \in v.todo : Visit(deps, f, n, v.open, v.done) \in Outcomes(N)
  <2> TAKE n \in v.todo
  <2>1. CASE n \in v.open \/ n \in v.done
    BY <1>1, <1>2, <2>1 DEF Visit
  <2>2. CASE n \notin v.open /\ n \notin v.done
    <3> DEFINE left == f[Visiting(deps[n], v.open \cup {n}, v.done)]
    <3>1. n \in N /\ deps[n] \in SUBSET N
      BY <1>1
    <3>2. left \in Outcomes(N)
      BY <1>1, <2>2, <3>1, CallsLess
    <3>3. Visit(deps, f, n, v.open, v.done)
            = IF left.cycle THEN left ELSE Visited(left.visited \cup {n})
      BY <2>2 DEF Visit
    <3> HIDE DEF left
    <3>4. left.visited \cup {n} \in SUBSET N
      BY <3>1, <3>2 DEF Outcomes
    <3> QED
      BY <1>2, <3>2, <3>3, <3>4
  <2> QED
    BY <2>1, <2>2
<1>4. Leaves(deps, f, v) \in Outcomes(N)
  <2>1. CASE v.todo = {}
    BY <1>1, <1>2, <2>1 DEF Leaves
  <2>2. CASE v.todo # {}
    <3> DEFINE n == CHOOSE n \in v.todo : TRUE
               left == Visit(deps, f, n, v.open, v.done)
               rest == f[Visiting(v.todo \ {n}, v.open, left.visited)]
    <3>1. n \in v.todo
      BY <2>2
    <3>2. left \in Outcomes(N)
      BY <1>3, <3>1
    <3>3. Leaves(deps, f, v) = IF left.cycle THEN left ELSE rest
      BY <2>2 DEF Leaves
    <3> HIDE DEF n, left
    <3>4. left.visited \in SUBSET N
      BY <3>2 DEF Outcomes
    <3>5. rest \in Outcomes(N)
      BY <1>1, <3>1, <3>4, CallsLess
    <3> HIDE DEF rest
    <3> QED
      BY <3>2, <3>3, <3>5
  <2> QED
    BY <2>1, <2>2
<1> QED
  BY <1>3, <1>4

\* Only what less leaves tells what a call leaves.
LEMMA LeavesLocal ==
  ASSUME NEW deps, FiniteDeps(deps),
         NEW f \in [Calls(DOMAIN deps) -> Outcomes(DOMAIN deps)],
         NEW g \in [Calls(DOMAIN deps) -> Outcomes(DOMAIN deps)], NEW v \in Calls(DOMAIN deps),
         \A w \in Calls(DOMAIN deps) :
           Measure(DOMAIN deps)[w] < Measure(DOMAIN deps)[v] => f[w] = g[w]
  PROVE  Leaves(deps, f, v) = Leaves(deps, g, v)
<1> DEFINE N == DOMAIN deps
<1>1. /\ \A n \in N : deps[n] \in SUBSET N
      /\ v.todo \in SUBSET N /\ IsFiniteSet(N)
  BY DEF FiniteDeps, KnownDependencies, Calls
<1>2. CASE v.todo = {}
  BY <1>2 DEF Leaves
<1>3. CASE v.todo # {}
  <2> DEFINE n == CHOOSE n \in v.todo : TRUE
             left(h) == Visit(deps, h, n, v.open, v.done)
             rest == Visiting(v.todo \ {n}, v.open, left(f).visited)
  <2>1. n \in v.todo
    BY <1>3
  <2>2. \A h : Leaves(deps, h, v) =
                 IF left(h).cycle THEN left(h)
                 ELSE h[Visiting(v.todo \ {n}, v.open, left(h).visited)]
    BY <1>3 DEF Leaves
  <2> HIDE DEF n
  <2>3. left(f) = left(g)
    <3>1. CASE n \in v.open \/ n \in v.done
      BY <3>1 DEF Visit
    <3>2. CASE n \notin v.open /\ n \notin v.done
      <4> DEFINE w == Visiting(deps[n], v.open \cup {n}, v.done)
      <4>1. deps[n] \in SUBSET N
        BY <1>1, <2>1
      <4>2. f[w] = g[w]
        BY <1>1, <2>1, <3>2, <4>1, CallsLess
      <4> HIDE DEF w
      <4>3. \A h : left(h) = IF h[w].cycle THEN h[w] ELSE Visited(h[w].visited \cup {n})
        BY <3>2 DEF Visit, w
      <4> HIDE DEF left
      <4> QED
        BY <4>2, <4>3
    <3> QED
      BY <3>1, <3>2
  <2>4. left(f) \in Outcomes(N)
    BY <2>1, LeavesTyped
  <2> HIDE DEF left
  <2>5. left(f).visited \in SUBSET N
    BY <2>4 DEF Outcomes
  <2>6. f[rest] = g[rest]
    BY <1>1, <2>1, <2>5, CallsLess
  <2> QED
    BY <2>2, <2>3, <2>6
<1> QED
  BY <1>2, <1>3

\* What visits leave is there, and each call leaves what the calls it makes make of it.
LEMMA VisitsMade ==
  ASSUME NEW deps, FiniteDeps(deps)
  PROVE  /\ Visits(deps) = [v \in Calls(DOMAIN deps) |-> Leaves(deps, Visits(deps), v)]
         /\ Visits(deps) \in [Calls(DOMAIN deps) -> Outcomes(DOMAIN deps)]
<1> DEFINE N == DOMAIN deps
           D == Calls(N)
           V == Outcomes(N)
           mu == Measure(N)
           c == Cardinality(N)
           K == c * (c + 1) + c
           o == Cyclic
           Made(f) == f = [v \in D |-> Leaves(deps, f, v)]
           G == [f \in [D -> V] |-> [v \in D |-> Leaves(deps, f, v)]]
<1>1. IsFiniteSet(N)
  BY DEF FiniteDeps
<1>2. K \in Nat /\ mu \in [D -> 0 .. K]
  BY <1>1, Measured
<1>3. o \in V
  BY DEF Cyclic, Outcomes
<1>v. Visits(deps) = CHOOSE f : Made(f)
  BY DEF Visits, Leaves, Calls
<1>4. \A f \in [D -> V] : \A v \in D : Leaves(deps, f, v) \in V
  BY LeavesTyped
<1>5. \A f, g \in [D -> V] : \A v \in D :
        (\A w \in D : mu[w] < mu[v] => f[w] = g[w]) => Leaves(deps, f, v) = Leaves(deps, g, v)
  BY LeavesLocal
<1> HIDE DEF D, V, mu, K, o
<1>6. G \in [[D -> V] -> [D -> V]]
  BY <1>4
<1>7. \A f, g \in [D -> V] : \A v \in D :
        (\A w \in D : mu[w] < mu[v] => f[w] = g[w]) => G[f][v] = G[g][v]
  BY <1>5
<1>8. \E f : MadeBy(f, D, V, G)
  <2> HIDE DEF G
  <2> QED
    BY <1>2, <1>3, <1>6, <1>7, Recursed
<1>9. Made(Visits(deps))
  <2>1. PICK f : MadeBy(f, D, V, G)
    BY <1>8
  <2>2. Made(f)
    BY <2>1 DEF MadeBy
  <2> QED
    BY <1>v, <2>2
<1>10. Visits(deps) \in [D -> V]
  <2> DEFINE f == Visits(deps)
             S == {v \in D : f[v] \in V}
  <2>1. ASSUME NEW v \in D, \A w \in D : mu[w] < mu[v] => w \in S PROVE v \in S
    <3>1. \A w \in D : mu[w] < mu[v] => f[w] \in V
      BY <2>1
    <3>2. Leaves(deps, f, v) \in V
      <4> HIDE DEF f
      <4> QED
        BY <3>1, LeavesTyped DEF D, V, mu
    <3> QED
      BY <1>9, <3>2
  <2>2. mu \in [D -> Nat]
    BY <1>2
  <2>3. D \subseteq S
    <3> HIDE DEF S
    <3> QED
      BY <2>1, <2>2, ByMeasure
  <2> QED
    BY <1>9, <2>3
<1> QED
  BY <1>9, <1>10 DEF D, V

\* What a call leaves, step by step.
LEMMA CallLeaves ==
  ASSUME NEW deps, FiniteDeps(deps), NEW v \in Calls(DOMAIN deps)
  PROVE  /\ v.todo = {} => Visits(deps)[v] = Visited(v.done)
         /\ v.todo # {} =>
              \E n \in v.todo :
                LET left == Visit(deps, Visits(deps), n, v.open, v.done)
                IN  /\ left \in Outcomes(DOMAIN deps)
                    /\ Visits(deps)[v] =
                         IF left.cycle THEN left
                         ELSE Visits(deps)[Visiting(v.todo \ {n}, v.open, left.visited)]
<1> DEFINE f == Visits(deps)
           n == CHOOSE n \in v.todo : TRUE
           left == Visit(deps, f, n, v.open, v.done)
<1>1. /\ f = [w \in Calls(DOMAIN deps) |-> Leaves(deps, f, w)]
      /\ f \in [Calls(DOMAIN deps) -> Outcomes(DOMAIN deps)]
  BY VisitsMade
<1> HIDE DEF f
<1>2. f[v] = Leaves(deps, f, v)
  BY <1>1
<1>3. v.todo = {} => f[v] = Visited(v.done)
  BY <1>2 DEF Leaves
<1>4. ASSUME v.todo # {}
      PROVE  /\ n \in v.todo /\ left \in Outcomes(DOMAIN deps)
             /\ f[v] = IF left.cycle THEN left ELSE f[Visiting(v.todo \ {n}, v.open, left.visited)]
  <2>1. n \in v.todo
    BY <1>4
  <2>2. f[v] = IF left.cycle THEN left ELSE f[Visiting(v.todo \ {n}, v.open, left.visited)]
    BY <1>2, <1>4 DEF Leaves
  <2>3. \A w \in Calls(DOMAIN deps) : f[w] \in Outcomes(DOMAIN deps)
    BY <1>1
  <2> HIDE DEF n
  <2>4. left \in Outcomes(DOMAIN deps)
    BY <2>1, <2>3, LeavesTyped
  <2> QED
    BY <2>1, <2>2, <2>4
<1> QED
  BY <1>3, <1>4 DEF f

\* A rank of the nodes of S below which their dependencies lie.
Ranks(deps, S, rank) ==
  /\ rank \in [S -> 1 .. Cardinality(S)]
  /\ \A n \in S : \A d \in deps[n] : d \in S /\ rank[d] < rank[n]

Ranked(deps, S) == \E rank : Ranks(deps, S, rank)

\* Where nodes can be ranked no cycle is found: what is open ranks above what is to do.
LEMMA NoneFound ==
  ASSUME NEW deps, FiniteDeps(deps), Ranked(deps, DOMAIN deps)
  PROVE  ~FindsCycle(deps)
<1> DEFINE N == DOMAIN deps
           f == Visits(deps)
           mu == Measure(N)
<1>1. PICK rank : Ranks(deps, N, rank)
  BY DEF Ranked
<1>2. IsFiniteSet(N) /\ \A n \in N : deps[n] \in SUBSET N
  BY DEF FiniteDeps, KnownDependencies
<1>3. mu \in [Calls(N) -> Nat]
  <2>1. mu \in [Calls(N) -> 0 .. Cardinality(N) * (Cardinality(N) + 1) + Cardinality(N)]
    BY <1>2, Measured
  <2> QED
    BY <2>1
<1>4. \A n \in N : rank[n] \in Nat
  <2>1. Cardinality(N) \in Nat
    BY <1>2, FS_CardinalityType
  <2> QED
    BY <1>1, <2>1 DEF Ranks
<1> DEFINE Above(v) == \A n \in v.todo : \A m \in v.open : rank[n] < rank[m]
           S == {v \in Calls(N) : Above(v) => ~f[v].cycle}
<1>5. ASSUME NEW v \in Calls(N), \A w \in Calls(N) : mu[w] < mu[v] => w \in S, Above(v)
      PROVE  ~f[v].cycle
  <2>1. v.todo \in SUBSET N /\ v.open \in SUBSET N /\ v.done \in SUBSET N
    BY DEF Calls
  <2>2. CASE v.todo = {}
    <3>1. f[v] = Visited(v.done)
      BY <2>2, CallLeaves
    <3> HIDE DEF f
    <3> QED
      BY <3>1 DEF Visited
  <2>3. CASE v.todo # {}
    <3> DEFINE left(n) == Visit(deps, f, n, v.open, v.done)
    <3>1. PICK n \in v.todo :
            /\ left(n) \in Outcomes(N)
            /\ f[v] = IF left(n).cycle THEN left(n)
                      ELSE f[Visiting(v.todo \ {n}, v.open, left(n).visited)]
      BY <2>3, CallLeaves
    <3>2. n \in N /\ n \notin v.open
      BY <1>4, <1>5, <2>1
    <3>3. ~left(n).cycle
      <4>1. CASE n \in v.done
        BY <3>2, <4>1 DEF Visit, Visited
      <4>2. CASE n \notin v.done
        <5> DEFINE w == Visiting(deps[n], v.open \cup {n}, v.done)
        <5>1. w \in Calls(N) /\ mu[w] < mu[v]
          BY <1>2, <3>2, CallsLess
        <5>2. w.todo = deps[n] /\ w.open = v.open \cup {n}
          BY DEF Visiting
        <5>3. ASSUME NEW d \in deps[n], NEW m \in v.open PROVE rank[d] < rank[m]
          <6>1. rank[d] < rank[n] /\ rank[n] < rank[m] /\ d \in N /\ m \in N
            BY <1>1, <1>2, <1>5, <2>1, <3>2, <5>3 DEF Ranks
          <6>2. rank[d] \in Nat /\ rank[n] \in Nat /\ rank[m] \in Nat
            BY <1>4, <3>2, <6>1
          <6> QED
            BY <6>1, <6>2
        <5>4. \A d \in deps[n] : rank[d] < rank[n]
          BY <1>1, <3>2 DEF Ranks
        <5>5. Above(w)
          BY <5>2, <5>3, <5>4
        <5>6. ~f[w].cycle
          BY <1>5, <5>1, <5>5
        <5>7. left(n) = IF f[w].cycle THEN f[w] ELSE Visited(f[w].visited \cup {n})
          BY <3>2, <4>2 DEF Visit
        <5> HIDE DEF w, f, left
        <5> QED
          BY <5>6, <5>7 DEF Visited
      <4> QED
        BY <4>1, <4>2
    <3> DEFINE x == Visiting(v.todo \ {n}, v.open, left(n).visited)
    <3>4. x \in Calls(N) /\ mu[x] < mu[v]
      <4>1. left(n).visited \in SUBSET N
        BY <3>1 DEF Outcomes
      <4> HIDE DEF left
      <4> QED
        BY <1>2, <4>1, CallsLess
    <3>5. Above(x)
      <4>1. x.todo = v.todo \ {n} /\ x.open = v.open
        BY DEF Visiting
      <4> HIDE DEF x
      <4> QED
        BY <1>5, <4>1
    <3>6. ~f[x].cycle
      BY <1>5, <3>4, <3>5
    <3> QED
      BY <3>1, <3>3, <3>6
  <2> QED
    BY <2>2, <2>3
<1>6. Calls(N) \subseteq S
  <2>1. \A v \in Calls(N) : (\A w \in Calls(N) : mu[w] < mu[v] => w \in S) => v \in S
    BY <1>5
  <2> HIDE DEF S, mu
  <2> QED
    BY <1>3, <2>1, ByMeasure
<1>7. Visiting(N, {}, {}) \in Calls(N) /\ Above(Visiting(N, {}, {}))
  BY DEF Visiting, Calls
<1> QED
  BY <1>6, <1>7 DEF FindsCycle

\* What a call leaves, if it finds no cycle: what was done and to do, and what they depend on.
Finished(deps, v, u) ==
  /\ Ranked(deps, u)
  /\ v.done \subseteq u /\ v.todo \subseteq u
  /\ u \cap v.open \subseteq v.done

\* One node more, that ranks above all.
LEMMA RankedAbove ==
  ASSUME NEW deps, NEW S, IsFiniteSet(S), Ranked(deps, S), NEW n, n \notin S, deps[n] \subseteq S
  PROVE  Ranked(deps, S \cup {n})
<1> DEFINE T == S \cup {n}
           c == Cardinality(S)
<1>1. PICK rank : Ranks(deps, S, rank)
  BY DEF Ranked
<1>2. c \in Nat /\ Cardinality(T) = c + 1
  BY FS_CardinalityType, FS_AddElement
<1> DEFINE higher == [m \in T |-> IF m = n THEN c + 1 ELSE rank[m]]
<1>3. \A m \in S : rank[m] \in 1 .. c /\ higher[m] = rank[m] /\ m # n
  BY <1>1 DEF Ranks
<1>4. higher \in [T -> 1 .. c + 1]
  BY <1>2, <1>3
<1>5. ASSUME NEW m \in T, NEW d \in deps[m] PROVE d \in T /\ higher[d] < higher[m]
  <2>1. CASE m = n
    <3>1. d \in S /\ higher[m] = c + 1
      BY <2>1
    <3>2. rank[d] \in 1 .. c /\ higher[d] = rank[d]
      BY <1>3, <3>1
    <3> HIDE DEF higher, c
    <3> QED
      BY <1>2, <3>1, <3>2
  <2>2. CASE m # n
    <3>1. m \in S /\ d \in S /\ rank[d] < rank[m]
      BY <1>1, <2>2 DEF Ranks
    <3> QED
      BY <1>3, <3>1
  <2> QED
    BY <2>1, <2>2
<1> HIDE DEF higher, c
<1>6. Ranks(deps, T, higher)
  BY <1>2, <1>4, <1>5 DEF Ranks
<1> QED
  BY <1>6 DEF Ranked

\* Where no cycle is found the nodes can be ranked, in the order in which visits finish them.
LEMMA AllFinished ==
  ASSUME NEW deps, FiniteDeps(deps), ~FindsCycle(deps)
  PROVE  Ranked(deps, DOMAIN deps)
<1> DEFINE N == DOMAIN deps
           f == Visits(deps)
           mu == Measure(N)
           Good(v) == Ranked(deps, v.done) /\ ~f[v].cycle => Finished(deps, v, f[v].visited)
           S == {v \in Calls(N) : Good(v)}
<1>1. IsFiniteSet(N) /\ \A n \in N : deps[n] \in SUBSET N
  BY DEF FiniteDeps, KnownDependencies
<1>2. mu \in [Calls(N) -> Nat]
  <2>1. mu \in [Calls(N) -> 0 .. Cardinality(N) * (Cardinality(N) + 1) + Cardinality(N)]
    BY <1>1, Measured
  <2> QED
    BY <2>1
<1>t. \A v \in Calls(N) : f[v] \in Outcomes(N)
  BY VisitsMade
<1>3. ASSUME NEW v \in Calls(N), \A w \in Calls(N) : mu[w] < mu[v] => w \in S,
             Ranked(deps, v.done), ~f[v].cycle
      PROVE  Finished(deps, v, f[v].visited)
  <2>1. v.todo \in SUBSET N /\ v.open \in SUBSET N /\ v.done \in SUBSET N
    BY DEF Calls
  <2>2. CASE v.todo = {}
    <3>1. f[v] = Visited(v.done)
      BY <2>2, CallLeaves
    <3> HIDE DEF f
    <3>2. f[v].visited = v.done
      BY <3>1 DEF Visited
    <3> QED
      BY <1>3, <2>2, <3>2 DEF Finished
  <2>3. CASE v.todo # {}
    <3> DEFINE left(n) == Visit(deps, f, n, v.open, v.done)
    <3>1. PICK n \in v.todo :
            /\ left(n) \in Outcomes(N)
            /\ f[v] = IF left(n).cycle THEN left(n)
                      ELSE f[Visiting(v.todo \ {n}, v.open, left(n).visited)]
      BY <2>3, CallLeaves
    <3> DEFINE u == left(n).visited
               x == Visiting(v.todo \ {n}, v.open, u)
    <3>2. ~left(n).cycle /\ u \in SUBSET N /\ f[v] = f[x]
      <4> HIDE DEF left
      <4> QED
        BY <1>3, <3>1 DEF Outcomes
    <3>3. n \in N /\ n \notin v.open
      <4>1. n \in v.open => left(n) = Cyclic
        BY DEF Visit
      <4> HIDE DEF left
      <4> QED
        BY <2>1, <3>2, <4>1 DEF Cyclic
    <3>4. Ranked(deps, u) /\ v.done \cup {n} \subseteq u /\ u \cap v.open \subseteq v.done
      <4>1. CASE n \in v.done
        <5>1. u = v.done
          BY <3>3, <4>1 DEF Visit, Visited
        <5> QED
          BY <1>3, <4>1, <5>1
      <4>2. CASE n \notin v.done
        <5> DEFINE w == Visiting(deps[n], v.open \cup {n}, v.done)
        <5>1. w \in Calls(N) /\ mu[w] < mu[v]
          BY <1>1, <3>3, CallsLess
        <5>2. w.todo = deps[n] /\ w.open = v.open \cup {n} /\ w.done = v.done
          BY DEF Visiting
        <5>3. left(n) = IF f[w].cycle THEN f[w] ELSE Visited(f[w].visited \cup {n})
          BY <3>3, <4>2 DEF Visit
        <5>4. ~f[w].cycle /\ u = f[w].visited \cup {n}
          <6> HIDE DEF w, f, left
          <6> QED
            BY <3>2, <5>3 DEF Visited
        <5>5. Good(w)
          BY <1>3, <5>1
        <5>t. f[w] \in Outcomes(N)
          BY <1>t, <5>1
        <5> HIDE DEF w, f, left, u
        <5> DEFINE t == f[w].visited
        <5>6. Finished(deps, w, t)
          BY <1>3, <5>2, <5>4, <5>5
        <5>7. Ranked(deps, t) /\ v.done \subseteq t /\ deps[n] \subseteq t
              /\ t \cap (v.open \cup {n}) \subseteq v.done
          BY <5>2, <5>6 DEF Finished
        <5>8. IsFiniteSet(t)
          <6>1. t \in SUBSET N
            BY <5>t DEF Outcomes
          <6> QED
            BY <1>1, <6>1, FS_Subset
        <5>9. n \notin t
          BY <4>2, <5>7
        <5> HIDE DEF t
        <5>10. Ranked(deps, t \cup {n})
          BY <5>7, <5>8, <5>9, RankedAbove
        <5>11. u = t \cup {n}
          BY <5>4 DEF t
        <5> QED
          BY <3>3, <5>7, <5>10, <5>11
      <4> QED
        BY <4>1, <4>2
    <3>5. x \in Calls(N) /\ mu[x] < mu[v]
      <4> HIDE DEF u
      <4> QED
        BY <1>1, <3>2, CallsLess
    <3>6. x.todo = v.todo \ {n} /\ x.open = v.open /\ x.done = u
      BY DEF Visiting
    <3>7. Good(x)
      BY <1>3, <3>5
    <3> HIDE DEF x, u, f, left
    <3>8. Finished(deps, x, f[v].visited)
      BY <1>3, <3>2, <3>4, <3>6, <3>7
    <3> QED
      BY <3>4, <3>6, <3>8 DEF Finished
  <2> QED
    BY <2>2, <2>3
<1>4. Calls(N) \subseteq S
  <2>1. \A v \in Calls(N) : (\A w \in Calls(N) : mu[w] < mu[v] => w \in S) => v \in S
    BY <1>3
  <2> HIDE DEF S, mu
  <2> QED
    BY <1>2, <2>1, ByMeasure
<1> DEFINE all == Visiting(N, {}, {})
<1>5. all \in Calls(N) /\ all.todo = N /\ all.done = {}
  BY DEF Visiting, Calls
<1>6. Ranked(deps, {})
  <2>1. Cardinality({}) = 0
    BY FS_EmptySet
  <2>2. Ranks(deps, {}, [n \in {} |-> 0])
    BY <2>1 DEF Ranks
  <2> QED
    BY <2>2 DEF Ranked
<1>7. ~f[all].cycle /\ f[all] \in Outcomes(N)
  BY <1>5, <1>t DEF FindsCycle
<1>8. Good(all)
  BY <1>4, <1>5
<1> HIDE DEF all, f
<1>9. Finished(deps, all, f[all].visited)
  BY <1>5, <1>6, <1>7, <1>8
<1>10. f[all].visited = N
  BY <1>5, <1>7, <1>9 DEF Finished, Outcomes
<1> QED
  BY <1>9, <1>10 DEF Finished

-----------------------------------------------------------------------------
(* Lists of what a set holds. *)

\* s names every member of S once.
Lists(s, S) ==
  /\ s \in Seq(S)
  /\ \A x \in S : \E i \in 1 .. Len(s) : s[i] = x
  /\ \A i, j \in 1 .. Len(s) : s[i] = s[j] => i = j

\* The numbers of a set can be put in their order.
LEMMA SortedLists ==
  ASSUME NEW S \in SUBSET Nat, IsFiniteSet(S)
  PROVE  Lists(Sorted(S), S)
<1> DEFINE c == Cardinality(S)
           below(n) == {m \in S : m < n}
           r == [n \in S |-> Cardinality(below(n)) + 1]
           Ordered(s) == s \in [1 .. c -> S] /\ \A i, j \in DOMAIN s : i < j => s[i] < s[j]
<1>1. c \in Nat
  BY FS_CardinalityType
<1>2. ASSUME NEW n \in S
      PROVE  IsFiniteSet(below(n)) /\ Cardinality(below(n)) \in Nat /\ r[n] \in 1 .. c
  <2>1. IsFiniteSet(below(n)) /\ Cardinality(below(n)) \in Nat
    BY FS_Subset, FS_CardinalityType
  <2>2. n \notin below(n) /\ below(n) \cup {n} \in SUBSET S
    BY <1>2
  <2>3. Cardinality(below(n) \cup {n}) = Cardinality(below(n)) + 1
    BY <2>1, <2>2, FS_AddElement
  <2>4. Cardinality(below(n) \cup {n}) <= c
    BY <2>2, FS_Subset
  <2> HIDE DEF c, below
  <2> QED
    BY <1>1, <2>1, <2>3, <2>4
<1>3. ASSUME NEW m \in S, NEW n \in S, m < n PROVE r[m] < r[n]
  <2>1. m \notin below(m) /\ below(m) \cup {m} \in SUBSET below(n)
    <3>1. m \in Nat /\ n \in Nat /\ ~(m < m)
      OBVIOUS
    <3>2. \A k \in S : k < m => k < n
      <4> TAKE k \in S
      <4>1. k \in Nat
        OBVIOUS
      <4> QED
        BY <1>3, <3>1, <4>1
    <3> QED
      BY <1>3, <3>1, <3>2
  <2>2. Cardinality(below(m) \cup {m}) = Cardinality(below(m)) + 1
    BY <1>2, <2>1, FS_AddElement
  <2>3. Cardinality(below(m) \cup {m}) <= Cardinality(below(n))
    BY <1>2, <2>1, FS_Subset
  <2>4. r[m] = Cardinality(below(m)) + 1 /\ r[n] = Cardinality(below(n)) + 1
    OBVIOUS
  <2>5. Cardinality(below(m)) \in Nat /\ Cardinality(below(n)) \in Nat
    BY <1>2
  <2> HIDE DEF below, r
  <2> QED
    BY <2>2, <2>3, <2>4, <2>5
<1>4. \A n \in S : r[n] \in 1 .. c
  BY <1>2
<1>5. r \in [S -> 1 .. c]
  BY <1>4
<1> HIDE DEF r, c
<1>6. \A m, n \in S : r[m] < r[n] => m < n
  <2> TAKE m, n \in S
  <2>1. m \in Nat /\ n \in Nat /\ r[m] \in Nat /\ r[n] \in Nat
    BY <1>4
  <2>2. n < m => r[n] < r[m]
    BY <1>3
  <2> QED
    BY <2>1, <2>2
<1>7. \A i \in 1 .. c : \E n \in S : r[n] = i
  <2>1. r \in Injection(S, 1 .. c)
    <3>1. \A m, n \in S : r[m] = r[n] => m = n
      <4> TAKE m, n \in S
      <4>1. m \in Nat /\ n \in Nat /\ r[m] \in Nat /\ r[n] \in Nat
        BY <1>4
      <4>2. (n < m => r[n] < r[m]) /\ (m < n => r[m] < r[n])
        BY <1>3
      <4> QED
        BY <4>1, <4>2
    <3> QED
      BY <1>5, <3>1 DEF Injection, IsInjective
  <2>2. IsFiniteSet(1 .. c) /\ Cardinality(1 .. c) = c
    <3>1. 1 \in Int /\ c \in Int
      BY <1>1
    <3> QED
      BY <1>1, <3>1, FS_Interval
  <2>3. Cardinality(S) = Cardinality(1 .. c)
    BY <2>2 DEF c
  <2>4. r \in Surjection(S, 1 .. c)
    BY <2>1, <2>2, <2>3, FS_Injection
  <2> QED
    BY <2>4 DEF Surjection
<1> DEFINE s == [i \in 1 .. c |-> CHOOSE n \in S : r[n] = i]
<1>8. \A i \in 1 .. c : s[i] \in S /\ r[s[i]] = i
  BY <1>7
<1>9. Ordered(s)
  <2>1. s \in [1 .. c -> S] /\ DOMAIN s = 1 .. c
    BY <1>8
  <2> HIDE DEF s
  <2>2. \A i, j \in 1 .. c : i < j => s[i] < s[j]
    BY <1>6, <1>8
  <2> QED
    BY <2>1, <2>2
<1> DEFINE t == Sorted(S)
<1>10. Ordered(t)
  BY <1>9 DEF Sorted, c
<1> HIDE DEF t, s
<1>11. t \in Seq(S) /\ Len(t) = c
  <2>1. t \in Seq(S)
    BY <1>1, <1>10, SeqDef
  <2> QED
    BY <1>1, <1>10, <2>1, LenProperties
<1>12. \A i, j \in 1 .. c : t[i] = t[j] => i = j
  <2> TAKE i, j \in 1 .. c
  <2>t. t \in [1 .. c -> S]
    BY <1>10
  <2>1. t[i] \in Nat /\ t[j] \in Nat /\ i \in Nat /\ j \in Nat
    <3>1. t[i] \in S /\ t[j] \in S
      BY <2>t
    <3>2. i \in Nat /\ j \in Nat
      BY <1>1
    <3> QED
      BY <3>1, <3>2
  <2>2. (i < j => t[i] < t[j]) /\ (j < i => t[j] < t[i])
    BY <1>10
  <2> QED
    BY <2>1, <2>2
<1>13. \A x \in S : \E i \in 1 .. c : t[i] = x
  <2>1. t \in Injection(1 .. c, S)
    BY <1>10, <1>12 DEF Injection, IsInjective
  <2>2. IsFiniteSet(1 .. c) /\ Cardinality(1 .. c) = Cardinality(S)
    <3>1. 1 \in Int /\ c \in Int
      BY <1>1
    <3>2. IsFiniteSet(1 .. c) /\ Cardinality(1 .. c) = c
      BY <1>1, <3>1, FS_Interval
    <3> QED
      BY <3>2 DEF c
  <2>3. t \in Surjection(1 .. c, S)
    BY <2>1, <2>2, FS_Injection
  <2> QED
    BY <2>3 DEF Surjection
<1> QED
  BY <1>11, <1>12, <1>13 DEF Lists, t

\* A list is as long as what it lists.
LEMMA ListLength ==
  ASSUME NEW S, NEW s, Lists(s, S)
  PROVE  Len(s) = Cardinality(S) /\ IsFiniteSet(S)
<1>1. Len(s) \in Nat /\ s \in [1 .. Len(s) -> S]
  BY LenProperties DEF Lists
<1>2. s \in Bijection(1 .. Len(s), S)
  BY <1>1 DEF Lists, Bijection, Injection, IsInjective, Surjection
<1>3. ExistsBijection(1 .. Len(s), S)
  BY <1>2 DEF ExistsBijection
<1> QED
  BY <1>1, <1>3, FS_CountingElements, FS_NatBijection

\* The first of a list, and what it leaves.
LEMMA TailLists ==
  ASSUME NEW S, NEW s, Lists(s, S), s # <<>>
  PROVE  Head(s) \in S /\ Lists(Tail(s), S \ {Head(s)})
<1> DEFINE k == Len(s)
           n == Head(s)
           t == Tail(s)
<1>1. s \in Seq(S) /\ k \in Nat \ {0}
  BY EmptySeq DEF Lists
<1>2. n \in S /\ n = s[1]
  BY <1>1, HeadTailProperties
<1>3. t \in Seq(S) /\ Len(t) = k - 1 /\ \A i \in 1 .. Len(t) : t[i] = s[i + 1]
  BY <1>1, HeadTailProperties
<1>4. \A x \in S : \E i \in 1 .. k : s[i] = x
  BY DEF Lists
<1>5. \A i, j \in 1 .. k : s[i] = s[j] => i = j
  BY DEF Lists
<1>6. \A i \in 1 .. k : s[i] \in S
  BY <1>1, ElementOfSeq
<1> HIDE DEF k, n, t
<1>7. \A i \in 1 .. Len(t) : t[i] \in S \ {n}
  <2> TAKE i \in 1 .. Len(t)
  <2>1. i + 1 \in 1 .. k /\ 1 \in 1 .. k /\ i + 1 # 1
    BY <1>1, <1>3
  <2> QED
    BY <1>2, <1>3, <1>5, <1>6, <2>1
<1>8. t \in Seq(S \ {n})
  <2>1. Len(t) \in Nat /\ t \in [1 .. Len(t) -> S]
    BY <1>3, LenProperties
  <2>2. t \in [1 .. Len(t) -> S \ {n}]
    BY <1>7, <2>1
  <2> QED
    BY <2>1, <2>2, SeqDef
<1>9. \A x \in S \ {n} : \E i \in 1 .. Len(t) : t[i] = x
  <2> TAKE x \in S \ {n}
  <2>1. PICK i \in 1 .. k : s[i] = x
    BY <1>4
  <2>2. i # 1
    BY <1>2, <2>1
  <2>3. i - 1 \in 1 .. Len(t) /\ (i - 1) + 1 = i
    BY <1>1, <1>3, <2>1, <2>2
  <2> QED
    BY <1>3, <2>1, <2>3
<1>10. \A i, j \in 1 .. Len(t) : t[i] = t[j] => i = j
  <2> TAKE i, j \in 1 .. Len(t)
  <2> HAVE t[i] = t[j]
  <2>1. i + 1 \in 1 .. k /\ j + 1 \in 1 .. k /\ s[i + 1] = s[j + 1]
    BY <1>1, <1>3
  <2>2. i + 1 = j + 1 /\ i \in Int /\ j \in Int
    BY <1>5, <2>1
  <2> QED
    BY <2>2
<1> QED
  BY <1>2, <1>8, <1>9, <1>10 DEF Lists, n, t

\* One list after another that shares nothing with it.
LEMMA BothLists ==
  ASSUME NEW S, NEW T, NEW s, NEW t, Lists(s, S), Lists(t, T), S \cap T = {}
  PROVE  Lists(s \o t, S \cup T)
<1> DEFINE U == S \cup T
           u == s \o t
           k == Len(s)
           l == Len(t)
<1>1. /\ s \in Seq(S) /\ t \in Seq(T) /\ s \in Seq(U) /\ t \in Seq(U)
  <2>1. s \in Seq(S) /\ t \in Seq(T) /\ S \subseteq U /\ T \subseteq U
    BY DEF Lists
  <2> HIDE DEF U
  <2> QED
    BY <2>1, SeqMonotonic
<1>2. k \in Nat /\ l \in Nat
  BY <1>1, LenProperties
<1>3. /\ u \in Seq(U) /\ Len(u) = k + l
      /\ \A i \in 1 .. k + l : u[i] = IF i <= k THEN s[i] ELSE t[i - k]
  <2> HIDE DEF U
  <2> QED
    BY <1>1, ConcatProperties
<1>4. /\ \A x \in S : \E i \in 1 .. k : s[i] = x
      /\ \A x \in T : \E i \in 1 .. l : t[i] = x
      /\ \A i, j \in 1 .. k : s[i] = s[j] => i = j
      /\ \A i, j \in 1 .. l : t[i] = t[j] => i = j
  BY DEF Lists
<1>5. (\A i \in 1 .. k : s[i] \in S) /\ (\A i \in 1 .. l : t[i] \in T)
  BY <1>1, ElementOfSeq
<1> HIDE DEF u, k, l
<1>6. \A x \in U : \E i \in 1 .. k + l : u[i] = x
  <2> TAKE x \in U
  <2>1. CASE x \in S
    <3>1. PICK i \in 1 .. k : s[i] = x
      BY <1>4, <2>1
    <3>2. i \in 1 .. k + l /\ i <= k
      BY <1>2
    <3> QED
      BY <1>3, <3>1, <3>2
  <2>2. CASE x \in T
    <3>1. PICK i \in 1 .. l : t[i] = x
      BY <1>4, <2>2
    <3>2. i + k \in 1 .. k + l /\ ~(i + k <= k) /\ (i + k) - k = i
      BY <1>2
    <3> QED
      BY <1>3, <3>1, <3>2
  <2> QED
    BY <2>1, <2>2
<1>7. ASSUME NEW i \in 1 .. k + l
      PROVE  \/ i \in 1 .. k /\ u[i] = s[i] /\ u[i] \in S
             \/ i - k \in 1 .. l /\ u[i] = t[i - k] /\ u[i] \in T
  <2>1. i \in Nat /\ (i <= k => i \in 1 .. k) /\ (~(i <= k) => i - k \in 1 .. l)
    BY <1>2
  <2> QED
    BY <1>3, <1>5, <2>1
<1>8. \A i, j \in 1 .. k + l : u[i] = u[j] => i = j
  <2> TAKE i, j \in 1 .. k + l
  <2> HAVE u[i] = u[j]
  <2>1. \/ i \in 1 .. k /\ j \in 1 .. k /\ s[i] = s[j]
        \/ i - k \in 1 .. l /\ j - k \in 1 .. l /\ t[i - k] = t[j - k]
    BY <1>7
  <2>2. i = j \/ i - k = j - k
    BY <1>4, <2>1
  <2>3. i \in Int /\ j \in Int /\ k \in Int
    BY <1>2
  <2> QED
    BY <2>2, <2>3
<1> QED
  BY <1>3, <1>6, <1>8 DEF Lists, u

\* A list with one more.
LEMMA AppendLists ==
  ASSUME NEW S, NEW s, Lists(s, S), NEW n, n \notin S
  PROVE  Lists(Append(s, n), S \cup {n})
<1> DEFINE U == S \cup {n}
           u == Append(s, n)
           k == Len(s)
<1>1. s \in Seq(S) /\ s \in Seq(U) /\ n \in U
  <2>1. s \in Seq(S) /\ S \subseteq U
    BY DEF Lists
  <2>2. n \in U
    OBVIOUS
  <2> HIDE DEF U
  <2> QED
    BY <2>1, <2>2, SeqMonotonic
<1>2. k \in Nat /\ \A i \in 1 .. k : s[i] \in S
  BY <1>1, LenProperties, ElementOfSeq
<1>3. /\ u \in Seq(U) /\ Len(u) = k + 1
      /\ \A i \in 1 .. k : u[i] = s[i]
      /\ u[k + 1] = n
  <2> HIDE DEF U
  <2> QED
    BY <1>1, AppendProperties
<1>4. /\ \A x \in S : \E i \in 1 .. k : s[i] = x
      /\ \A i, j \in 1 .. k : s[i] = s[j] => i = j
  BY DEF Lists
<1> HIDE DEF u, k
<1>5. \A i \in 1 .. k : i \in 1 .. k + 1
  BY <1>2
<1>6. k + 1 \in 1 .. k + 1 /\ \A i \in 1 .. k + 1 : i = k + 1 \/ i \in 1 .. k
  BY <1>2
<1>7. \A x \in U : \E i \in 1 .. k + 1 : u[i] = x
  BY <1>3, <1>4, <1>5, <1>6
<1>8. \A i, j \in 1 .. k + 1 : u[i] = u[j] => i = j
  BY <1>2, <1>3, <1>4, <1>6
<1> QED
  BY <1>3, <1>7, <1>8 DEF Lists, u

-----------------------------------------------------------------------------
(* Kahn's algorithm. *)

\* Kahn's algorithm when the nodes of D are in order.
Waits(deps, s, D) ==
  LET N == DOMAIN deps
  IN  /\ DOMAIN s = {"ready", "indegree", "order"}
      /\ D \subseteq N /\ Lists(s.order, D)
      /\ \A i \in 1 .. Len(s.order) : \A d \in deps[s.order[i]] :
           \E j \in 1 .. i - 1 : s.order[j] = d
      /\ s.indegree = [m \in N |-> Cardinality(deps[m] \ D)]
      /\ Lists(s.ready, {m \in N \ D : deps[m] \subseteq D})

\* What is in order has its dependencies in order.
LEMMA OrderedDeps ==
  ASSUME NEW deps, NEW s, NEW D, Waits(deps, s, D), NEW n \in D
  PROVE  deps[n] \subseteq D
<1>1. PICK i \in 1 .. Len(s.order) : s.order[i] = n
  BY DEF Waits, Lists
<1>2. s.order \in Seq(D) /\ Len(s.order) \in Nat
  <2>1. s.order \in Seq(D)
    BY DEF Waits, Lists
  <2> QED
    BY <2>1, LenProperties
<1>3. ASSUME NEW d \in deps[n] PROVE d \in D
  <2>1. PICK j \in 1 .. i - 1 : s.order[j] = d
    BY <1>1 DEF Waits
  <2>2. j \in 1 .. Len(s.order)
    BY <1>2
  <2> QED
    BY <1>2, <2>1, <2>2, ElementOfSeq
<1> QED
  BY <1>3

\* As long as some node is left, one that is left waits for none.
LEMMA OneIsReady ==
  ASSUME NEW deps, FiniteDeps(deps), Ranked(deps, DOMAIN deps), NEW s, NEW D, Waits(deps, s, D),
         D # DOMAIN deps
  PROVE  s.ready # <<>>
<1> DEFINE N == DOMAIN deps
<1>1. PICK rank : Ranks(deps, N, rank)
  BY DEF Ranked
<1>2. \A n \in N : rank[n] \in Nat
  <2>1. Cardinality(N) \in Nat
    BY FS_CardinalityType DEF FiniteDeps
  <2> QED
    BY <1>1, <2>1 DEF Ranks
<1> DEFINE T == {rank[n] : n \in N \ D}
<1>3. T \in SUBSET Nat /\ T # {}
  <2>1. D \subseteq N
    BY DEF Waits
  <2>2. PICK n \in N \ D : TRUE
    BY <2>1
  <2>3. rank[n] \in T
    BY <2>2
  <2> QED
    BY <1>2, <2>3
<1>4. PICK k \in T : \A j \in T : k <= j
  <2> HIDE DEF T
  <2> QED
    BY <1>3, LeastNumber
<1>5. PICK n \in N \ D : k = rank[n]
  OBVIOUS
<1>6. ASSUME NEW d \in deps[n], d \notin D PROVE FALSE
  <2>1. d \in N /\ rank[d] < rank[n]
    BY <1>1 DEF Ranks
  <2>2. rank[n] <= rank[d]
    BY <1>4, <1>5, <1>6, <2>1
  <2> QED
    BY <1>2, <2>1, <2>2
<1>7. n \in {m \in N \ D : deps[m] \subseteq D}
  BY <1>6
<1>8. s.ready = <<>> => FALSE
  <2> SUFFICES ASSUME s.ready = <<>> PROVE FALSE
    OBVIOUS
  <2>1. \E i \in 1 .. Len(s.ready) : s.ready[i] = n
    BY <1>7 DEF Waits, Lists
  <2>2. Len(s.ready) = 0
    BY EmptySeq
  <2> QED
    BY <2>1, <2>2
<1> QED
  BY <1>8

\* The first that is ready comes next in order.
LEMMA TakesOne ==
  ASSUME NEW deps, FiniteDeps(deps), DOMAIN deps \subseteq Nat, NEW s, NEW D,
         Waits(deps, s, D), s.ready # <<>>
  PROVE  \E n \in DOMAIN deps \ D : Waits(deps, Take(deps, s), D \cup {n})
<1> DEFINE N == DOMAIN deps
           n == Head(s.ready)
           E == D \cup {n}
           R == {m \in N \ D : deps[m] \subseteq D}
           dependents == {m \in N : n \in deps[m]}
           left == [m \in N |-> IF m \in dependents THEN s.indegree[m] - 1 ELSE s.indegree[m]]
           freed == {m \in dependents : left[m] = 0}
           ready == Tail(s.ready) \o Sorted(freed)
           order == Append(s.order, n)
           t == [ready |-> ready, indegree |-> left, order |-> order]
<1>1. Take(deps, s) = t
  BY DEF Take
<1>2. n \in R /\ Lists(Tail(s.ready), R \ {n})
  <2>1. Lists(s.ready, R)
    BY DEF Waits
  <2> HIDE DEF R
  <2> QED
    BY <2>1, TailLists
<1>3. n \in N /\ n \notin D /\ deps[n] \subseteq D
  BY <1>2
<1> HIDE DEF n
<1>4. \A m \in N : deps[m] \in SUBSET N /\ IsFiniteSet(deps[m])
  BY FS_Subset DEF FiniteDeps, KnownDependencies
<1>5. \A m \in N : left[m] = Cardinality(deps[m] \ E)
  <2> TAKE m \in N
  <2>1. s.indegree[m] = Cardinality(deps[m] \ D)
    BY DEF Waits
  <2>2. IsFiniteSet(deps[m] \ D)
    BY <1>4, FS_Difference
  <2>3. deps[m] \ E = (deps[m] \ D) \ {n}
    OBVIOUS
  <2>4. Cardinality((deps[m] \ D) \ {n})
          = IF n \in deps[m] \ D THEN Cardinality(deps[m] \ D) - 1 ELSE Cardinality(deps[m] \ D)
    BY <2>2, FS_RemoveElement
  <2>5. left[m] = IF n \in deps[m] THEN s.indegree[m] - 1 ELSE s.indegree[m]
    OBVIOUS
  <2> QED
    BY <1>3, <2>1, <2>3, <2>4, <2>5
<1>6. \A m \in N : left[m] = 0 <=> deps[m] \subseteq E
  <2> TAKE m \in N
  <2>1. IsFiniteSet(deps[m] \ E)
    BY <1>4, FS_Difference
  <2>2. Cardinality(deps[m] \ E) = 0 <=> deps[m] \ E = {}
    BY <2>1, FS_EmptySet
  <2> HIDE DEF left, E
  <2> QED
    BY <1>5, <2>2
<1>7. freed = {m \in N : n \in deps[m] /\ deps[m] \subseteq E}
  <2> HIDE DEF left
  <2> QED
    BY <1>6
<1>8. Lists(Sorted(freed), freed)
  <2>1. freed \in SUBSET N /\ freed \in SUBSET Nat /\ IsFiniteSet(N)
    BY DEF FiniteDeps
  <2> HIDE DEF freed
  <2> QED
    BY <2>1, FS_Subset, SortedLists
<1> HIDE DEF left, freed
<1>9. freed \cap (R \ {n}) = {} /\ (R \ {n}) \cup freed = {m \in N \ E : deps[m] \subseteq E}
  <2>1. \A m \in D : deps[m] \subseteq D
    BY OrderedDeps
  <2> QED
    BY <1>3, <1>7, <2>1
<1>10. Lists(ready, {m \in N \ E : deps[m] \subseteq E})
  <2>1. (R \ {n}) \cap freed = {}
    BY <1>9
  <2>2. Lists(ready, (R \ {n}) \cup freed)
    <3> HIDE DEF R
    <3> QED
      BY <1>2, <1>8, <2>1, BothLists DEF n
  <2> QED
    BY <1>9, <2>2
<1>11. Lists(order, E)
  <2>1. Lists(s.order, D)
    BY DEF Waits
  <2> QED
    BY <1>3, <2>1, AppendLists
<1>12. ASSUME NEW i \in 1 .. Len(order), NEW d \in deps[order[i]]
       PROVE  \E j \in 1 .. i - 1 : order[j] = d
  <2>1. s.order \in Seq(D) /\ s.order \in Seq(E) /\ n \in E
    <3>1. s.order \in Seq(D) /\ D \subseteq E
      BY DEF Waits, Lists
    <3>2. n \in E
      OBVIOUS
    <3> HIDE DEF E
    <3> QED
      BY <3>1, <3>2, SeqMonotonic
  <2> DEFINE k == Len(s.order)
  <2>2. /\ k \in Nat /\ Len(order) = k + 1 /\ order[k + 1] = n
        /\ \A j \in 1 .. k : order[j] = s.order[j]
    <3> HIDE DEF E
    <3> QED
      BY <2>1, LenProperties, AppendProperties
  <2> HIDE DEF order, k
  <2>3. CASE i = k + 1
    <3>1. d \in D
      BY <1>3, <2>2, <2>3
    <3>2. PICK j \in 1 .. k : s.order[j] = d
      BY <3>1 DEF Waits, Lists, k
    <3>3. j \in 1 .. i - 1 /\ order[j] = d
      BY <2>2, <2>3, <3>2
    <3> QED
      BY <3>3
  <2>4. CASE i # k + 1
    <3>1. i \in 1 .. k
      BY <2>2, <2>4
    <3>2. PICK j \in 1 .. i - 1 : s.order[j] = d
      BY <2>2, <3>1 DEF Waits, k
    <3>3. j \in 1 .. k
      BY <2>2, <3>1
    <3> QED
      BY <2>2, <3>2, <3>3
  <2> QED
    BY <2>3, <2>4
<1>13. left = [m \in N |-> Cardinality(deps[m] \ E)]
  <2>1. DOMAIN left = N /\ left = [m \in N |-> left[m]]
    BY DEF left
  <2> QED
    BY <1>5, <2>1
<1>14. Waits(deps, t, E)
  <2>1. D \subseteq N
    BY DEF Waits
  <2>2. E \subseteq N
    BY <1>3, <2>1
  <2>3. /\ DOMAIN t = {"ready", "indegree", "order"}
        /\ t.ready = ready /\ t.indegree = left /\ t.order = order
    OBVIOUS
  <2> HIDE DEF t, E, ready, order
  <2> QED
    BY <1>10, <1>11, <1>12, <1>13, <2>2, <2>3 DEF Waits
<1> HIDE DEF t
<1> QED
  BY <1>1, <1>3, <1>14

Orders(N) == [ready : Seq(N), indegree : [N -> Int], order : Seq(N)]

\* Taking a node leaves queues of nodes.
LEMMA TakeTyped ==
  ASSUME NEW deps, FiniteDeps(deps), DOMAIN deps \subseteq Nat, NEW s \in Orders(DOMAIN deps)
  PROVE  Take(deps, s) \in Orders(DOMAIN deps)
<1> DEFINE N == DOMAIN deps
           n == Head(s.ready)
           dependents == {m \in N : n \in deps[m]}
           left == [m \in N |-> IF m \in dependents THEN s.indegree[m] - 1 ELSE s.indegree[m]]
           freed == {m \in dependents : left[m] = 0}
           ready == Tail(s.ready) \o Sorted(freed)
           order == Append(s.order, n)
<1>1. s.ready \in Seq(N) /\ s.order \in Seq(N) /\ s.indegree \in [N -> Int]
  BY DEF Orders
<1>2. CASE s.ready = <<>>
  BY <1>2 DEF Take
<1>3. CASE s.ready # <<>>
  <2>1. Take(deps, s) = [ready |-> ready, indegree |-> left, order |-> order]
    BY <1>3 DEF Take
  <2>2. n \in N /\ Tail(s.ready) \in Seq(N)
    BY <1>1, <1>3, HeadTailProperties
  <2>3. left \in [N -> Int]
    BY <1>1
  <2>4. Sorted(freed) \in Seq(N)
    <3>1. freed \in SUBSET N /\ freed \in SUBSET Nat /\ IsFiniteSet(N)
      BY DEF FiniteDeps
    <3> HIDE DEF freed
    <3>2. Sorted(freed) \in Seq(freed)
      BY <3>1, FS_Subset, SortedLists DEF Lists
    <3> QED
      BY <3>1, <3>2, SeqMonotonic
  <2>5. ready \in Seq(N)
    <3> HIDE DEF freed, n
    <3> QED
      BY <2>2, <2>4, ConcatProperties
  <2>6. order \in Seq(N)
    <3> HIDE DEF n
    <3> QED
      BY <1>1, <2>2, AppendProperties
  <2> HIDE DEF ready, left, order
  <2> QED
    BY <2>1, <2>3, <2>5, <2>6 DEF Orders
<1> QED
  BY <1>2, <1>3

\* At first nothing is in order.
LEMMA KahnBegins ==
  ASSUME NEW deps, FiniteDeps(deps), DOMAIN deps \subseteq Nat
  PROVE  Waits(deps, Waiting(deps), {}) /\ Waiting(deps) \in Orders(DOMAIN deps)
<1> DEFINE N == DOMAIN deps
           indegree == [n \in N |-> Cardinality(deps[n])]
           free == {n \in N : indegree[n] = 0}
           start == [ready |-> Sorted(free), indegree |-> indegree, order |-> <<>>]
<1>1. Waiting(deps) = start
  BY DEF Waiting
<1>2. \A n \in N : IsFiniteSet(deps[n])
  BY FS_Subset DEF FiniteDeps, KnownDependencies
<1>3. free = {m \in N \ {} : deps[m] \subseteq {}}
  <2>1. \A n \in N : indegree[n] = 0 <=> deps[n] = {}
    BY <1>2, FS_EmptySet
  <2> HIDE DEF indegree
  <2> QED
    BY <2>1
<1>4. Lists(Sorted(free), free) /\ free \subseteq N
  <2>1. free \in SUBSET N /\ free \in SUBSET Nat /\ IsFiniteSet(N)
    BY DEF FiniteDeps
  <2> HIDE DEF free
  <2> QED
    BY <2>1, FS_Subset, SortedLists
<1>5. indegree = [m \in N |-> Cardinality(deps[m] \ {})]
  <2>1. \A m \in N : deps[m] \ {} = deps[m]
    OBVIOUS
  <2> QED
    BY <2>1
<1>6. Lists(<<>>, {}) /\ <<>> \in Seq(N) /\ Len(<<>>) = 0
  BY EmptySeq DEF Lists
<1>7. indegree \in [N -> Int]
  <2>1. \A m \in N : Cardinality(deps[m]) \in Nat
    BY <1>2, FS_CardinalityType
  <2> QED
    BY <2>1
<1>8. Sorted(free) \in Seq(N)
  <2> HIDE DEF free
  <2> QED
    BY <1>4, SeqMonotonic DEF Lists
<1>9. /\ DOMAIN start = {"ready", "indegree", "order"}
      /\ start.ready = Sorted(free) /\ start.indegree = indegree /\ start.order = <<>>
  OBVIOUS
<1>10. start \in Orders(N)
  <2> HIDE DEF indegree, free
  <2> QED
    BY <1>6, <1>7, <1>8 DEF Orders
<1>11. Waits(deps, start, {})
  <2> HIDE DEF indegree, free, start
  <2> QED
    BY <1>3, <1>4, <1>5, <1>6, <1>9 DEF Waits
<1> QED
  BY <1>1, <1>10, <1>11

\* What Kahn's algorithm goes through is there, and topological_order is what it leaves.
LEMMA KahnMade ==
  ASSUME NEW g, FiniteDeps(g.deps), DOMAIN g.deps \subseteq Nat, NodesOf(g) = DOMAIN g.deps
  PROVE  LET c == Cardinality(DOMAIN g.deps)
         IN  \E s : /\ s[0] = Waiting(g.deps)
                    /\ \A i \in 1 .. c : s[i] = Take(g.deps, s[i - 1])
                    /\ TopologicalOrder(g) = s[c].order
<1> DEFINE N == DOMAIN g.deps
           c == Cardinality(N)
           V == Orders(N)
           start == Waiting(g.deps)
           Made(f) == f = [i \in 0 .. c |-> IF i = 0 THEN Waiting(g.deps)
                                            ELSE Take(g.deps, f[i - 1])]
           G == [i \in 1 .. c |-> [x \in V |-> Take(g.deps, x)]]
           s == CHOOSE f : Made(f)
<1>1. c \in Nat
  BY FS_CardinalityType DEF FiniteDeps
<1>2. TopologicalOrder(g) = s[c].order
  BY DEF TopologicalOrder
<1>3. start \in V
  BY KahnBegins
<1>4. \A x \in V : Take(g.deps, x) \in V
  BY TakeTyped
<1> HIDE DEF c, V
<1>5. G \in [1 .. c -> [V -> V]]
  BY <1>4
<1>6. PICK f : MadeOf(f, c, V, start, G)
  <2> HIDE DEF G, start
  <2> QED
    BY <1>1, <1>3, <1>5, Iterated
<1>7. Made(f)
  <2>1. ASSUME NEW i \in 0 .. c
        PROVE  f[i] = IF i = 0 THEN start ELSE Take(g.deps, f[i - 1])
    <3>1. i # 0 => i \in 1 .. c /\ f[i - 1] \in V
      BY <1>1, <1>6 DEF MadeOf
    <3> QED
      BY <1>6, <3>1 DEF MadeOf
  <2> QED
    BY <1>6, <2>1 DEF MadeOf
<1>8. Made(s)
  BY <1>7
<1> HIDE DEF s
<1>9. s[0] = start /\ \A i \in 1 .. c : s[i] = Take(g.deps, s[i - 1])
  BY <1>1, <1>8
<1> QED
  BY <1>2, <1>9 DEF c

\* A graph whose nodes can be ranked is put in order.
LEMMA OrderFound ==
  ASSUME NEW deps, FiniteDeps(deps), DOMAIN deps \subseteq Nat, Ranked(deps, DOMAIN deps)
  PROVE  InOrder(deps, TopologicalOrder(AsGraph(deps)))
<1> DEFINE N == DOMAIN deps
           c == Cardinality(N)
           g == AsGraph(deps)
<1>1. c \in Nat /\ IsFiniteSet(N)
  BY FS_CardinalityType DEF FiniteDeps
<1>2. g.deps = deps /\ NodesOf(g) = DOMAIN g.deps
  BY DEF AsGraph, NodesOf
<1> HIDE DEF g
<1>3. PICK s : /\ s[0] = Waiting(deps)
               /\ \A i \in 1 .. c : s[i] = Take(deps, s[i - 1])
               /\ TopologicalOrder(g) = s[c].order
  BY <1>2, KahnMade
<1> DEFINE Reached(i) == \E D : Waits(deps, s[i], D) /\ Cardinality(D) = i
           S == {i \in 0 .. c : Reached(i)}
<1>4. 0 \in S
  <2>1. Waits(deps, s[0], {}) /\ Cardinality({}) = 0
    BY <1>3, KahnBegins, FS_EmptySet
  <2> QED
    BY <1>1, <2>1
<1>5. ASSUME NEW i \in 0 .. c - 1, i \in S PROVE i + 1 \in S
  <2>1. PICK D : Waits(deps, s[i], D) /\ Cardinality(D) = i
    BY <1>5
  <2>2. i + 1 \in 1 .. c /\ (i + 1) - 1 = i /\ i # c /\ i + 1 \in 0 .. c
    BY <1>1
  <2>3. D \in SUBSET N
    BY <2>1 DEF Waits
  <2>4. D # N /\ IsFiniteSet(D)
    BY <1>1, <2>1, <2>2, <2>3, FS_Subset
  <2>5. s[i + 1] = Take(deps, s[i])
    BY <1>3, <2>2
  <2>6. s[i].ready # <<>>
    BY <2>1, <2>4, OneIsReady
  <2>7. PICK n \in N \ D : Waits(deps, s[i + 1], D \cup {n})
    BY <2>1, <2>5, <2>6, TakesOne
  <2>8. Cardinality(D \cup {n}) = i + 1
    BY <2>1, <2>4, <2>7, FS_AddElement
  <2> QED
    BY <2>2, <2>7, <2>8
<1>6. c \in S
  <2>1. 0 .. c \subseteq S
    <3> HIDE DEF S, c
    <3> QED
      BY <1>1, <1>4, <1>5, UpTo
  <2> QED
    BY <1>1, <2>1
<1>7. PICK D : Waits(deps, s[c], D) /\ Cardinality(D) = c
  BY <1>6
<1>8. D = N
  <2>1. D \in SUBSET N
    BY <1>7 DEF Waits
  <2> QED
    BY <1>1, <1>7, <2>1, FS_Subset
<1> DEFINE order == TopologicalOrder(g)
<1>9. /\ Lists(order, N)
      /\ \A i \in 1 .. Len(order) : \A d \in deps[order[i]] : \E j \in 1 .. i - 1 : order[j] = d
  <2>1. order = s[c].order
    BY <1>3
  <2>2. Waits(deps, s[c], N)
    BY <1>7, <1>8
  <2> HIDE DEF order, c
  <2> QED
    BY <2>1, <2>2 DEF Waits
<1> HIDE DEF order
<1>10. Len(order) = c /\ DOMAIN order = 1 .. Len(order)
  BY <1>9, ListLength, LenProperties DEF Lists
<1>11. InOrder(deps, order)
  BY <1>9, <1>10 DEF InOrder, Lists
<1> QED
  BY <1>11 DEF order, g

\* What is accepted is what can be run.
LEMMA AcceptsRunnable ==
  ASSUME NEW deps, IsFiniteSet(DOMAIN deps), DOMAIN deps \subseteq Nat
  PROVE  /\ ValidDeps(deps) <=> Runnable(deps)
         /\ ValidDeps(deps) => InOrder(deps, TopologicalOrder(AsGraph(deps)))
<1>1. Runnable(deps) <=> Ranked(deps, DOMAIN deps)
  BY DEF Runnable, Ranked, Ranks
<1>2. ASSUME ValidDeps(deps) PROVE FiniteDeps(deps) /\ Ranked(deps, DOMAIN deps)
  <2>1. FiniteDeps(deps) /\ ~FindsCycle(deps)
    BY <1>2 DEF ValidDeps, FiniteDeps
  <2> QED
    BY <2>1, AllFinished
<1>3. ASSUME Ranked(deps, DOMAIN deps) PROVE ValidDeps(deps)
  <2>1. PICK rank : Ranks(deps, DOMAIN deps, rank)
    BY <1>3 DEF Ranked
  <2>2. KnownDependencies(deps)
    BY <2>1 DEF Ranks, KnownDependencies
  <2>3. \A n \in DOMAIN deps : n \notin deps[n]
    <3>1. Cardinality(DOMAIN deps) \in Nat
      BY FS_CardinalityType
    <3>2. \A n \in DOMAIN deps : rank[n] \in Nat
      BY <2>1, <3>1 DEF Ranks
    <3>3. \A n \in DOMAIN deps : ~(rank[n] < rank[n])
      BY <3>2
    <3> QED
      BY <2>1, <3>3 DEF Ranks
  <2>4. ~FindsCycle(deps)
    BY <1>3, <2>2, NoneFound DEF FiniteDeps
  <2> QED
    BY <2>2, <2>3, <2>4 DEF ValidDeps
<1> QED
  BY <1>1, <1>2, <1>3, OrderFound

\* A graph that has come is one that the model may write.
GraphInv == IsGraph(reply) => reply.deps \in Graphs

\* No step makes up a graph.
LEMMA GraphKept == Spec => []GraphInv
<1>1. Init => GraphInv
  BY DEF Init, GraphInv, IsGraph, Bare
<1>2. GraphInv /\ [Next]_vars => GraphInv'
  <2> SUFFICES ASSUME GraphInv, [Next]_vars PROVE GraphInv'
    OBVIOUS
  <2>1. CASE UNCHANGED reply
    BY <2>1 DEF GraphInv, IsGraph
  <2>2. ASSUME NEW r \in Replies, reply' = r PROVE GraphInv'
    BY <2>2 DEF GraphInv, IsGraph, Replies, Bare
  <2>3. CASE reply' = Bare("raised")
    BY <2>3 DEF GraphInv, IsGraph, Bare
  <2>4. UNCHANGED reply \/ (\E r \in Replies : reply' = r) \/ reply' = Bare("raised")
    BY DEF Next, Phase, Pause, PauseFinds, PauseCloses, PauseSaves, Die, CutShort, OpenRun, Request, Generate, Raise, Retry, Repair, Refuse, Accept,
           Notify, Checkpoint, CheckpointFailure, LoseCheckpoint, CloseFailed, Close,
           LastCheckpoint, vars
  <2> QED
    BY <2>1, <2>2, <2>3, <2>4
<1> QED
  BY <1>1, <1>2, PTL DEF Spec

\* Whatever graph the model writes, the phase accepts it exactly if its nodes can be done one
\* after the other, and topological_order then gives an order in which they can
\* (AcceptsWhatCanRun).
THEOREM AcceptedIsRunnable == Spec => []AcceptsWhatCanRun
<1>1. GraphInv => AcceptsWhatCanRun
  <2> SUFFICES ASSUME GraphInv, IsGraph(reply)
               PROVE  /\ Accepts <=> Runnable(reply.deps)
                      /\ Accepts => InOrder(reply.deps, TopologicalOrder(AsGraph(reply.deps)))
    BY DEF AcceptsWhatCanRun
  <2>1. DOMAIN reply.deps \subseteq Nat /\ IsFiniteSet(DOMAIN reply.deps)
    BY GraphsAssumption DEF GraphInv
  <2> QED
    BY <2>1, AcceptsRunnable DEF Accepts
<1> QED
  BY <1>1, GraphKept, PTL
=============================================================================
