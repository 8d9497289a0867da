------------------------ MODULE PlanExecution_proofs ------------------------
(***************************************************************************)
(* Proofs about PlanExecution for any numbers of processes, plans,         *)
(* commands and deaths.                                                    *)
(*                                                                         *)
(* As long as no lease runs out under a living owner, a revision has one   *)
(* executor at a time, and an executor's lease ends with its execution. A  *)
(* lease has a version, which every change of owner moves. Who found a     *)
(* lease free takes it only if that version stands, so he takes it from    *)
(* nobody who lives; and who found a node interrupted under a free lease   *)
(* rewinds it only if the version of the row stands, so no executor has    *)
(* started a node in between (ExecInv).                                    *)
(*                                                                         *)
(* Whatever leases do: the types, whose run a result is of, that what is   *)
(* completed with evidence stays, and the refinement of PlanMachine. Every *)
(* step is one of a few on a row (PlanStep), and what a process has read   *)
(* is so while the version of the row stands (PlanInv).                    *)
(*                                                                         *)
(* Nodes that run at a time share nothing they write, in any spelling, if  *)
(* files are named below the workspace: a batch is apart, and nothing else *)
(* runs while the version it was chosen at stands (SharedInv).             *)
(***************************************************************************)
EXTENDS PlanExecution, TableFacts, FiniteSetTheorems

RowFields == {"status", "graph", "results", "version", "owner", "lease", "live"}

LocalFields == {"pc", "rev", "version", "lease", "free", "todo", "batch", "out", "end"}

Held == {"loop", "mark", "run", "beat", "write", "skip", "close", "release"}

RowOk(row) ==
  RowFields \subseteq DOMAIN row /\ row.version \in Nat /\ row.lease \in Nat

\* What a process has read is of a row that is there, and no newer than it.
KnownOf(l, table) ==
  /\ LocalFields \subseteq DOMAIN l
  /\ IF l.pc = "idle" THEN l.rev = 0 ELSE l.rev \in DOMAIN table
  /\ l.pc = "looked" => l.lease \in Nat /\ l.lease <= table[l.rev].lease
  /\ l.pc \in {"looked", "resuming"} => l.version \in Nat /\ l.version <= table[l.rev].version
  /\ l.pc \in {"loop", "mark", "run", "beat", "write", "skip"} => l.end \in {None, "failed"}
  /\ l.pc = "close" => l.end \in {"failed", "completed"}

\* Who owns a lease executes, and knows its version.
ReturnedOf(p, l, table) ==
  \A r \in DOMAIN table : table[r].owner = p =>
    l.pc \in Held /\ l.rev = r /\ l.lease = table[r].lease

\* A lease that was free is, as long as its version stands.
FreeOf(l, table) ==
  l.pc = "looked" /\ l.free /\ l.lease = table[l.rev].lease => ~table[l.rev].live

WorkingIn(l) == l.pc \in {"mark", "run", "beat", "write", "skip", "close"}

\* Who works on an active revision owns its lease.
OwnsOf(p, l, table) ==
  WorkingIn(l) /\ table[l.rev].status = "active" => table[l.rev].owner = p

\* While k works, a resume m of the same row finds nothing to rewind.
NoRewindOf(k, m, table) ==
  /\ WorkingIn(k) /\ m.pc = "resuming" /\ m.rev = k.rev /\ m.free
  /\ m.version = table[k.rev].version /\ table[k.rev].status = "active"
  => With(table[k.rev].graph, "running") = {}

\* The rows are rows, and the table a sequence.
Shape ==
  /\ IsSeq(revs)
  /\ \A r \in DOMAIN revs : RowOk(revs[r])
  /\ DOMAIN local = Procs
  /\ \A p \in Procs : KnownOf(local[p], revs) /\ ReturnedOf(p, local[p], revs)

\* What holds until a lease runs out under a living owner.
Alone ==
  /\ \A r \in DOMAIN revs : revs[r].owner \in Procs => revs[r].live
  /\ \A p \in Procs : FreeOf(local[p], revs) /\ OwnsOf(p, local[p], revs)
  /\ \A p, q \in Procs : NoRewindOf(local[p], local[q], revs)
  /\ \A p, q \in Procs :
       WorkingIn(local[p]) /\ WorkingIn(local[q]) /\ local[p].rev = local[q].rev => p = q

ExecInv == Shape /\ (lapsed \/ Alone)

-----------------------------------------------------------------------------
(* What the statements make of a row. *)

\* A statement about a node leaves the lease alone, and moves the version if it writes.
LEMMA NodeMovedRow ==
  ASSUME NEW row, RowOk(row), NEW n, NEW s, NEW result
  PROVE  LET new == NodeMoved(row, n, s, result)
         IN  /\ RowOk(new)
             /\ new.owner = row.owner /\ new.lease = row.lease /\ new.live = row.live
             /\ new.status = row.status
             /\ row.version <= new.version
             /\ new.version = row.version => new = row
<1>1. CASE s = row.graph.status[n] /\ result = None
  BY <1>1 DEF NodeMoved, RowOk
<1>2. CASE ~(s = row.graph.status[n] /\ result = None)
  <2> DEFINE g == WithNodeStatus(row.graph, n, s)
             x == [row.results EXCEPT ![n] = IF result = None THEN @ ELSE result]
  <2>1. NodeMoved(row, n, s, result)
          = [row EXCEPT !.graph = g, !.results = x, !.version = @ + 1]
    BY <1>2 DEF NodeMoved
  <2> HIDE DEF g, x
  <2> QED
    BY <2>1 DEF RowOk, RowFields
<1> QED
  BY <1>1, <1>2

\* An acquisition moves the lease's version.
LEMMA AcquiredRow ==
  ASSUME NEW row, RowOk(row), NEW p
  PROVE  LET new == Acquired(row, p)
         IN  /\ RowOk(new)
             /\ new.owner = p /\ new.lease = row.lease + 1 /\ new.live = TRUE
             /\ new.status = row.status
             /\ new.version = row.version /\ new.graph = row.graph
  BY DEF Acquired, RowOk, RowFields

\* A heartbeat renews it.
LEMMA BeatenRow ==
  ASSUME NEW row, RowOk(row)
  PROVE  LET new == Beaten(row)
         IN  /\ RowOk(new)
             /\ new.owner = row.owner /\ new.lease = row.lease /\ new.live = TRUE
             /\ new.status = row.status
             /\ new.version = row.version /\ new.graph = row.graph
  BY DEF Beaten, RowOk, RowFields

\* A release ends it.
LEMMA UnleasedRow ==
  ASSUME NEW row, RowOk(row)
  PROVE  LET new == Unleased(row)
         IN  /\ RowOk(new)
             /\ new.owner = None /\ new.lease = row.lease + 1 /\ new.live = FALSE
             /\ new.status = row.status
             /\ new.version = row.version /\ new.graph = row.graph
  BY DEF Unleased, RowOk, RowFields

\* So does a rewind.
LEMMA RewoundRow ==
  ASSUME NEW row, RowOk(row), NEW n
  PROVE  LET new == Rewound(row, n)
         IN  /\ RowOk(new)
             /\ new.owner = None /\ new.lease = row.lease + 1 /\ new.live = FALSE
             /\ new.status = row.status /\ new.version = row.version + 1
<1>1. LET new == Unleased(row)
      IN  /\ RowOk(new)
          /\ new.owner = None /\ new.lease = row.lease + 1 /\ new.live = FALSE
          /\ new.status = row.status
          /\ new.version = row.version /\ new.graph = row.graph
  BY UnleasedRow
<1> QED
  BY <1>1 DEF Rewound, RowOk, RowFields

\* And so does the end of the revision.
LEMMA ClosedRow ==
  ASSUME NEW row, RowOk(row), NEW s
  PROVE  LET new == ClosedAs(row, s)
         IN  /\ RowOk(new)
             /\ new.owner = None /\ new.lease = row.lease + 1 /\ new.live = FALSE
             /\ new.status = s /\ new.version = row.version + 1
<1>1. LET new == Unleased(row)
      IN  /\ RowOk(new)
          /\ new.owner = None /\ new.lease = row.lease + 1 /\ new.live = FALSE
          /\ new.status = row.status
          /\ new.version = row.version /\ new.graph = row.graph
  BY UnleasedRow
<1> QED
  BY <1>1 DEF ClosedAs, RowOk, RowFields

\* A new revision has no lease.
LEMMA NewRow ==
  ASSUME NEW g, NEW results
  PROVE  RowOk(NewRevision(g, results)) /\ NewRevision(g, results).owner = None
  BY DEF NewRevision, RowOk, RowFields

-----------------------------------------------------------------------------
(* A step of one process. *)

\* What p may do to a row, seen by the others: versions grow, and who owns it has not been
\* given it by p.
RowStep(p, old, new) ==
  /\ RowOk(new) /\ old.version <= new.version /\ old.lease <= new.lease
  /\ new.status = "active" => old.status = "active"
  /\ new.version = old.version => new.graph = old.graph
  /\ \A q \in Procs : q # p /\ new.owner = q => old.owner = q /\ new.lease = old.lease

Moves(p) ==
  /\ IsSeq(revs')
  /\ DOMAIN local' = Procs
  /\ \A q \in Procs : q # p => local'[q] = local[q]
  /\ \A r \in DOMAIN revs : r \in DOMAIN revs' /\ RowStep(p, revs[r], revs'[r])
  /\ \A r \in DOMAIN revs' : r \notin DOMAIN revs => RowOk(revs'[r]) /\ revs'[r].owner = None

\* No lease is given to the dead, or taken from those who work.
Lawful(p) ==
  \A r \in DOMAIN revs :
    /\ revs'[r].owner \in Procs => revs'[r].live
    /\ revs'[r].lease = revs[r].lease /\ revs'[r].live => revs[r].live
    /\ \A q \in Procs :
         q # p /\ WorkingIn(local[q]) /\ local[q].rev = r /\ revs'[r].status = "active"
           => revs'[r].owner = revs[r].owner

OwnShape(p) == KnownOf(local'[p], revs') /\ ReturnedOf(p, local'[p], revs')

OwnAlone(p) ==
  /\ FreeOf(local'[p], revs') /\ OwnsOf(p, local'[p], revs')
  /\ \A q \in Procs : q # p =>
       /\ NoRewindOf(local'[p], local[q], revs')
       /\ NoRewindOf(local[q], local'[p], revs')
       /\ ~(WorkingIn(local'[p]) /\ WorkingIn(local[q]) /\ local'[p].rev = local[q].rev)

\* The others know what they knew.
LEMMA OthersShape ==
  ASSUME Shape, NEW p, Moves(p), NEW q \in Procs, q # p
  PROVE  KnownOf(local'[q], revs') /\ ReturnedOf(q, local'[q], revs')
<1>1. local'[q] = local[q]
  BY DEF Moves
<1>2. KnownOf(local[q], revs) /\ ReturnedOf(q, local[q], revs)
  BY DEF Shape
<1>3. \A r \in DOMAIN revs : RowOk(revs[r]) /\ r \in DOMAIN revs' /\ RowStep(p, revs[r], revs'[r])
  BY DEF Shape, Moves
<1>4. KnownOf(local[q], revs')
  BY <1>2, <1>3 DEF KnownOf, RowStep, RowOk
<1>5. ASSUME NEW r \in DOMAIN revs', revs'[r].owner = q
      PROVE  local[q].pc \in Held /\ local[q].rev = r /\ local[q].lease = revs'[r].lease
  <2>1. r \in DOMAIN revs
    BY <1>5, ProcsAssumption DEF Moves
  <2>2. revs[r].owner = q /\ revs'[r].lease = revs[r].lease
    BY <1>3, <1>5, <2>1 DEF RowStep
  <2> QED
    BY <1>2, <2>1, <2>2 DEF ReturnedOf
<1> QED
  BY <1>1, <1>4, <1>5 DEF ReturnedOf

\* No lease that another works under is taken.
LEMMA OthersAlone ==
  ASSUME Shape, Alone, NEW p, Moves(p), Lawful(p)
  PROVE  /\ \A r \in DOMAIN revs' : revs'[r].owner \in Procs => revs'[r].live
         /\ \A q \in Procs : q # p =>
              /\ FreeOf(local[q], revs') /\ OwnsOf(q, local[q], revs')
              /\ \A m \in Procs : m # p => NoRewindOf(local[q], local[m], revs')
<1>1. \A r \in DOMAIN revs : RowOk(revs[r]) /\ r \in DOMAIN revs' /\ RowStep(p, revs[r], revs'[r])
  BY DEF Shape, Moves
<1>2. \A r \in DOMAIN revs' : revs'[r].owner \in Procs => revs'[r].live
  <2> SUFFICES ASSUME NEW r \in DOMAIN revs', revs'[r].owner \in Procs PROVE revs'[r].live
    OBVIOUS
  <2>1. r \in DOMAIN revs
    BY ProcsAssumption DEF Moves
  <2> QED
    BY <2>1 DEF Lawful
<1>3. ASSUME NEW q \in Procs, q # p
      PROVE  /\ FreeOf(local[q], revs') /\ OwnsOf(q, local[q], revs')
             /\ \A m \in Procs : m # p => NoRewindOf(local[q], local[m], revs')
  <2>1. KnownOf(local[q], revs) /\ FreeOf(local[q], revs) /\ OwnsOf(q, local[q], revs)
    BY <1>3 DEF Shape, Alone
  <2>2. FreeOf(local[q], revs')
    <3> SUFFICES ASSUME local[q].pc = "looked", local[q].free,
                        local[q].lease = revs'[local[q].rev].lease, revs'[local[q].rev].live
                 PROVE  FALSE
      BY DEF FreeOf
    <3> DEFINE r == local[q].rev
    <3>1. r \in DOMAIN revs /\ local[q].lease \in Nat /\ local[q].lease <= revs[r].lease
      BY <2>1 DEF KnownOf
    <3>2. revs'[r].lease = revs[r].lease
      BY <1>1, <3>1 DEF RowStep, RowOk
    <3>3. revs[r].live
      BY <3>1, <3>2 DEF Lawful
    <3> QED
      BY <2>1, <3>2, <3>3 DEF FreeOf
  <2>3. ASSUME WorkingIn(local[q]) PROVE local[q].rev \in DOMAIN revs
    BY <2>1, <2>3 DEF KnownOf, WorkingIn
  <2>4. OwnsOf(q, local[q], revs')
    <3> SUFFICES ASSUME WorkingIn(local[q]), revs'[local[q].rev].status = "active"
                 PROVE  revs'[local[q].rev].owner = q
      BY DEF OwnsOf
    <3>1. revs[local[q].rev].status = "active"
      BY <1>1, <2>3 DEF RowStep
    <3>2. revs[local[q].rev].owner = q
      BY <2>1, <3>1 DEF OwnsOf
    <3> QED
      BY <1>3, <2>3, <3>2 DEF Lawful
  <2>5. ASSUME NEW m \in Procs, m # p PROVE NoRewindOf(local[q], local[m], revs')
    <3> DEFINE r == local[q].rev
    <3> SUFFICES ASSUME WorkingIn(local[q]), local[m].pc = "resuming", local[m].rev = r,
                        local[m].free, local[m].version = revs'[r].version,
                        revs'[r].status = "active"
                 PROVE  With(revs'[r].graph, "running") = {}
      BY DEF NoRewindOf
    <3>1. local[m].version \in Nat /\ local[m].version <= revs[r].version /\ r \in DOMAIN revs
      BY <2>3 DEF Shape, KnownOf
    <3>2. revs'[r].version = revs[r].version /\ revs[r].status = "active"
      BY <1>1, <3>1 DEF RowStep, RowOk
    <3>3. revs'[r].graph = revs[r].graph
      BY <1>1, <3>1, <3>2 DEF RowStep
    <3>4. NoRewindOf(local[q], local[m], revs)
      BY DEF Alone
    <3> QED
      BY <3>2, <3>3, <3>4 DEF NoRewindOf
  <2> QED
    BY <2>2, <2>4, <2>5
<1> QED
  BY <1>2, <1>3

\* So it is enough to look at the process that moves.
LEMMA OwnStep ==
  ASSUME ExecInv, NEW p \in Procs, Moves(p), OwnShape(p),
         lapsed' = lapsed, ~lapsed => Lawful(p) /\ OwnAlone(p)
  PROVE  ExecInv'
<1>1. Shape'
  BY OthersShape DEF ExecInv, Shape, Moves, OwnShape, RowStep
<1>2. ASSUME ~lapsed PROVE Alone'
  <2>1. Alone /\ Shape /\ Lawful(p) /\ OwnAlone(p)
    BY <1>2 DEF ExecInv
  <2>2. \A q \in Procs : q # p => local'[q] = local[q]
    BY DEF Moves
  <2>3. \A q \in Procs : FreeOf(local'[q], revs') /\ OwnsOf(q, local'[q], revs')
    BY <2>1, <2>2, OthersAlone DEF OwnAlone
  <2>4. \A q, m \in Procs : NoRewindOf(local'[q], local'[m], revs')
    <3> SUFFICES ASSUME NEW q \in Procs, NEW m \in Procs
                 PROVE  NoRewindOf(local'[q], local'[m], revs')
      OBVIOUS
    <3>1. CASE q = p /\ m = p
      BY <3>1 DEF NoRewindOf, WorkingIn
    <3>2. CASE q # p /\ m # p
      BY <2>1, <2>2, <3>2, OthersAlone
    <3>3. CASE q = p /\ m # p
      BY <2>1, <2>2, <3>3 DEF OwnAlone
    <3>4. CASE q # p /\ m = p
      BY <2>1, <2>2, <3>4 DEF OwnAlone
    <3> QED
      BY <3>1, <3>2, <3>3, <3>4
  <2>5. \A q, m \in Procs :
          WorkingIn(local'[q]) /\ WorkingIn(local'[m]) /\ local'[q].rev = local'[m].rev => q = m
    BY <2>1, <2>2 DEF Alone, OwnAlone
  <2>6. \A r \in DOMAIN revs' : revs'[r].owner \in Procs => revs'[r].live
    BY <2>1, OthersAlone
  <2> QED
    BY <2>3, <2>4, <2>5, <2>6 DEF Alone
<1> QED
  BY <1>1, <1>2 DEF ExecInv

-----------------------------------------------------------------------------
(* Steps by what they write. *)

\* The process that goes on, and nobody else.
LEMMA Goes ==
  ASSUME Shape, NEW p \in Procs, NEW l, Goto(p, l)
  PROVE  /\ DOMAIN local' = Procs /\ local'[p] = l
         /\ \A q \in Procs : q # p => local'[q] = local[q]
  BY DEF Shape, Goto

\* The tables are left alone.
LEMMA TablesStay ==
  ASSUME Shape, NEW p \in Procs, NEW l, Goto(p, l), UNCHANGED revs
  PROVE  Moves(p) /\ (Alone => Lawful(p))
<1>1. \A r \in DOMAIN revs : RowStep(p, revs[r], revs[r])
  BY DEF Shape, RowStep, RowOk
<1>2. Moves(p)
  BY <1>1, Goes DEF Moves, Shape
<1> QED
  BY <1>2 DEF Alone, Lawful

\* What a row may become, for those who work on it.
RowLawful(p, r, new) ==
  /\ new.owner \in Procs => new.live
  /\ new.lease = revs[r].lease /\ new.live => revs[r].live
  /\ \A q \in Procs :
       q # p /\ WorkingIn(local[q]) /\ local[q].rev = r /\ new.status = "active"
         => new.owner = revs[r].owner

\* One row is written.
LEMMA RowSet ==
  ASSUME Shape, NEW p \in Procs, NEW l, Goto(p, l), NEW r \in DOMAIN revs, NEW new,
         RowStep(p, revs[r], new), revs' = [revs EXCEPT ![r] = new]
  PROVE  /\ Moves(p)
         /\ DOMAIN revs' = DOMAIN revs /\ revs'[r] = new
         /\ \A t \in DOMAIN revs : t # r => revs'[t] = revs[t]
         /\ Alone /\ RowLawful(p, r, new) => Lawful(p)
<1>1. /\ DOMAIN revs' = DOMAIN revs /\ revs'[r] = new
      /\ \A t \in DOMAIN revs : t # r => revs'[t] = revs[t]
  OBVIOUS
<1>2. IsSeq(revs')
  BY <1>1, SameLength DEF Shape
<1>3. \A t \in DOMAIN revs : RowStep(p, revs[t], revs'[t])
  BY <1>1 DEF Shape, RowStep, RowOk
<1>4. Moves(p)
  BY <1>1, <1>2, <1>3, Goes DEF Moves
<1>5. Alone /\ RowLawful(p, r, new) => Lawful(p)
  BY <1>1 DEF Alone, RowLawful, Lawful
<1> QED
  BY <1>1, <1>4, <1>5

\* A process that is done, or off to a turn of its user.
LEMMA ServedStep ==
  ASSUME ExecInv, NEW p \in Procs, NEW l, Goto(p, l), Moves(p), lapsed' = lapsed,
         ~lapsed => Lawful(p), l.pc \in {"idle", "answered"}, KnownOf(l, revs'),
         local[p].pc \notin Held \/ l.pc = "idle",
         \A r \in DOMAIN revs' : revs'[r].owner # p
  PROVE  ExecInv'
<1>1. local'[p] = l
  BY Goes DEF ExecInv
<1>2. OwnShape(p)
  BY <1>1 DEF OwnShape, ReturnedOf
<1>3. OwnAlone(p)
  BY <1>1 DEF OwnAlone, FreeOf, OwnsOf, NoRewindOf, WorkingIn
<1> QED
  BY <1>2, <1>3, OwnStep

\* Who does not execute owns nothing.
LEMMA NothingHeld ==
  ASSUME Shape, NEW p \in Procs, local[p].pc \notin Held
  PROVE  \A r \in DOMAIN revs : revs[r].owner # p
  BY DEF Shape, ReturnedOf

\* An executor goes on with what it does.
LEMMA HeldStep ==
  ASSUME ExecInv, NEW p \in Procs, NEW l, Goto(p, l), Moves(p), lapsed' = lapsed,
         ~lapsed => Lawful(p),
         l.pc \in Held, l.rev = local[p].rev, l.lease = local[p].lease, KnownOf(l, revs'),
         local[p].pc \in Held, WorkingIn(l) => WorkingIn(local[p]),
         \A r \in DOMAIN revs :
           revs'[r].owner = p => revs[r].owner = p /\ revs'[r].lease = revs[r].lease,
         revs'[l.rev].status = "active" => revs'[l.rev].owner = revs[l.rev].owner
  PROVE  ExecInv'
<1>1. local'[p] = l
  BY Goes DEF ExecInv
<1>2. KnownOf(local[p], revs) /\ ReturnedOf(p, local[p], revs)
  BY DEF ExecInv, Shape
<1>3. \A r \in DOMAIN revs' : revs'[r].owner = p => r \in DOMAIN revs
  BY ProcsAssumption DEF Moves
<1>4. OwnShape(p)
  BY <1>1, <1>2, <1>3 DEF OwnShape, ReturnedOf
<1>5. l.rev \in DOMAIN revs
  BY <1>2 DEF KnownOf, Held
<1>6. ASSUME ~lapsed PROVE OwnAlone(p)
  <2>1. Shape /\ Alone
    BY <1>6 DEF ExecInv
  <2>2. FreeOf(l, revs')
    BY DEF FreeOf, Held
  <2>3. RowStep(p, revs[l.rev], revs'[l.rev]) /\ RowOk(revs[l.rev])
    BY <1>5, <2>1 DEF Moves, Shape
  <2>4. OwnsOf(p, l, revs')
    BY <2>1, <2>3 DEF OwnsOf, Alone, RowStep
  <2>5. ASSUME NEW q \in Procs PROVE NoRewindOf(l, local[q], revs')
    <3> SUFFICES ASSUME WorkingIn(l), local[q].pc = "resuming", local[q].rev = l.rev,
                        local[q].free, local[q].version = revs'[l.rev].version,
                        revs'[l.rev].status = "active"
                 PROVE  With(revs'[l.rev].graph, "running") = {}
      BY DEF NoRewindOf
    <3>1. local[q].version \in Nat /\ local[q].version <= revs[l.rev].version
      BY <2>1 DEF Shape, KnownOf
    <3>2. /\ revs'[l.rev].version = revs[l.rev].version
          /\ revs[l.rev].status = "active" /\ revs'[l.rev].graph = revs[l.rev].graph
      BY <2>3, <3>1 DEF RowStep, RowOk
    <3>3. NoRewindOf(local[p], local[q], revs)
      BY <2>1 DEF Alone
    <3> QED
      BY <3>2, <3>3 DEF NoRewindOf
  <2>6. ASSUME NEW q \in Procs PROVE NoRewindOf(local[q], l, revs')
    BY DEF NoRewindOf, Held
  <2>7. \A q \in Procs : q # p => ~(WorkingIn(l) /\ WorkingIn(local[q]) /\ l.rev = local[q].rev)
    BY <2>1 DEF Alone
  <2> QED
    BY <1>1, <2>2, <2>4, <2>5, <2>6, <2>7 DEF OwnAlone
<1> QED
  BY <1>4, <1>6, OwnStep

\* A statement about a node is a step of its row that everyone may take.
LEMMA NodeStep ==
  ASSUME Shape, NEW p \in Procs, NEW r \in DOMAIN revs, NEW n, NEW s, NEW result,
         NEW new, new = NodeMoved(revs[r], n, s, result)
  PROVE  /\ RowStep(p, revs[r], new) /\ (Alone => RowLawful(p, r, new))
         /\ new.owner = revs[r].owner /\ new.lease = revs[r].lease
<1>1. RowOk(revs[r])
  BY DEF Shape
<1> QED
  BY <1>1, NodeMovedRow DEF RowStep, RowLawful, RowOk, Alone

\* So is the heartbeat of who owns the lease.
LEMMA BeatStep ==
  ASSUME Shape, NEW p \in Procs, NEW r \in DOMAIN revs, revs[r].owner = p
  PROVE  /\ RowStep(p, revs[r], Beaten(revs[r])) /\ (Alone => RowLawful(p, r, Beaten(revs[r])))
         /\ Beaten(revs[r]).owner = p /\ Beaten(revs[r]).lease = revs[r].lease
         /\ Beaten(revs[r]).graph = revs[r].graph
<1>1. RowOk(revs[r])
  BY DEF Shape
<1> DEFINE new == Beaten(revs[r])
<1>2. /\ RowOk(new)
      /\ new.owner = revs[r].owner /\ new.lease = revs[r].lease /\ new.live = TRUE
      /\ new.status = revs[r].status
      /\ new.version = revs[r].version /\ new.graph = revs[r].graph
  BY <1>1, BeatenRow
<1> HIDE DEF new
<1> QED
  BY <1>1, <1>2 DEF RowStep, RowLawful, RowOk, Alone, new

\* Whoever ends a revision ends its lease.
LEMMA CloseStep ==
  ASSUME Shape, NEW p \in Procs, NEW r \in DOMAIN revs, NEW s, s # "active"
  PROVE  /\ RowStep(p, revs[r], ClosedAs(revs[r], s))
         /\ RowLawful(p, r, ClosedAs(revs[r], s))
         /\ ClosedAs(revs[r], s).owner = None /\ ClosedAs(revs[r], s).status # "active"
<1>1. RowOk(revs[r])
  BY DEF Shape
<1> DEFINE new == ClosedAs(revs[r], s)
<1>2. /\ RowOk(new)
      /\ new.owner = None /\ new.lease = revs[r].lease + 1 /\ new.live = FALSE
      /\ new.status = s /\ new.version = revs[r].version + 1
  BY <1>1, ClosedRow
<1> HIDE DEF new
<1> QED
  BY <1>1, <1>2, ProcsAssumption DEF RowStep, RowLawful, RowOk, new

\* The record of a process may be written field by field.
LEMMA LocalFieldsKept ==
  ASSUME Shape, NEW p \in Procs
  PROVE  LocalFields \subseteq DOMAIN local[p]
  BY DEF Shape, KnownOf

-----------------------------------------------------------------------------
(* The executor. *)

\* On to the finally of execute.
LEMMA LeaveStep ==
  ASSUME ExecInv, NEW p \in Procs, local[p].pc \in Held, Leave(p), lapsed' = lapsed
  PROVE  ExecInv'
<1> DEFINE l == [local[p] EXCEPT !.pc = "release"]
<1>1. Goto(p, l) /\ UNCHANGED revs /\ Shape
  BY DEF Leave, Step, ExecInv
<1>2. /\ LocalFields \subseteq DOMAIN l /\ l.pc = "release"
      /\ l.rev = local[p].rev /\ l.lease = local[p].lease
  BY <1>1, LocalFieldsKept DEF LocalFields
<1>3. local[p].rev \in DOMAIN revs
  BY <1>1 DEF Shape, KnownOf, Held
<1>4. Moves(p) /\ (~lapsed => Lawful(p))
  BY <1>1, TablesStay DEF ExecInv
<1> HIDE DEF l
<1>5. KnownOf(l, revs')
  BY <1>1, <1>2, <1>3 DEF KnownOf
<1> QED
  BY <1>1, <1>2, <1>4, <1>5, HeldStep DEF Held, WorkingIn

\* A statement about a node, by who works on its revision.
LEMMA MoveNodeStep ==
  ASSUME ExecInv, NEW p \in Procs, WorkingIn(local[p]), NEW n, NEW s, NEW result, NEW l,
         MoveNode(p, n, s, result, l), lapsed' = lapsed,
         LocalFields \subseteq DOMAIN l, l.rev = local[p].rev, l.lease = local[p].lease,
         l.pc \in Held, l.pc # "close", l.end \in {None, "failed"}
  PROVE  ExecInv'
<1>1. CASE Leave(p)
  BY <1>1, LeaveStep DEF WorkingIn, Held
<1>2. CASE ~Leave(p)
  <2> DEFINE r == local[p].rev
             new == NodeMoved(Row(p), n, s, result)
             k == [l EXCEPT !.version = @ + 1, !.todo = @ \ {n}]
  <2>1. SetRow(p, new) /\ Goto(p, k) /\ Shape
    BY <1>2 DEF MoveNode, ExecInv
  <2>2. r \in DOMAIN revs
    BY <2>1 DEF Shape, KnownOf, WorkingIn
  <2>3. /\ LocalFields \subseteq DOMAIN k /\ k.pc = l.pc /\ k.rev = l.rev
        /\ k.lease = l.lease /\ k.end = l.end
    BY DEF LocalFields
  <2> HIDE DEF k
  <2>4. /\ RowStep(p, revs[r], new) /\ (Alone => RowLawful(p, r, new))
        /\ new.owner = revs[r].owner /\ new.lease = revs[r].lease
    BY <2>1, <2>2, NodeStep DEF Row
  <2> HIDE DEF new
  <2>5. /\ Moves(p) /\ (~lapsed => Lawful(p))
        /\ DOMAIN revs' = DOMAIN revs /\ revs'[r] = new
        /\ \A t \in DOMAIN revs : t # r => revs'[t] = revs[t]
    BY <2>1, <2>2, <2>4, RowSet DEF SetRow, ExecInv
  <2>6. KnownOf(k, revs')
    BY <2>2, <2>3, <2>5 DEF KnownOf, Held
  <2>7. \A t \in DOMAIN revs :
          revs'[t].owner = p => revs[t].owner = p /\ revs'[t].lease = revs[t].lease
    BY <2>4, <2>5
  <2> QED
    BY <2>1, <2>2, <2>3, <2>4, <2>5, <2>6, <2>7, HeldStep DEF WorkingIn, Held
<1> QED
  BY <1>1, <1>2

\* A process that has its lease begins to work: nothing of the revision runs.
LEMMA LoopStep ==
  ASSUME ExecInv, NEW p \in Procs, Beats(p), NEW l, Loop(p, l),
         LocalFields \subseteq DOMAIN l, l.rev = local[p].rev, l.lease = local[p].lease,
         l.pc \in Held, l.pc \notin {"loop", "close"} => l.end \in {None, "failed"},
         l.pc = "close" => l.end \in {"failed", "completed"},
         l.pc # "loop",
         WorkingIn(l) => With(Row(p).graph, "running") = {}
  PROVE  ExecInv'
<1> DEFINE r == local[p].rev
           new == Beaten(Row(p))
           k == [l EXCEPT !.version = Row(p).version]
<1>1. SetRow(p, new) /\ Goto(p, k) /\ Shape /\ lapsed' = lapsed
  BY DEF Loop, Rest, ExecInv
<1>2. local[p].pc = "loop" /\ revs[r].owner = p /\ revs[r].status = "active"
  BY DEF Beats, At, CanBeat, Row
<1>3. r \in DOMAIN revs /\ local[p].lease = revs[r].lease
  BY <1>1, <1>2 DEF Shape, KnownOf, Beats, CanBeat, Row
<1>4. /\ LocalFields \subseteq DOMAIN k /\ k.pc = l.pc /\ k.rev = l.rev
      /\ k.lease = l.lease /\ k.end = l.end
  BY DEF LocalFields
<1>5. /\ RowStep(p, revs[r], new) /\ (Alone => RowLawful(p, r, new))
      /\ new.owner = p /\ new.lease = revs[r].lease /\ new.graph = revs[r].graph
  BY <1>1, <1>2, <1>3, BeatStep DEF Row
<1> HIDE DEF k, new
<1>6. /\ Moves(p) /\ (~lapsed => Lawful(p))
      /\ DOMAIN revs' = DOMAIN revs /\ revs'[r] = new
      /\ \A t \in DOMAIN revs : t # r => revs'[t] = revs[t]
  BY <1>1, <1>3, <1>5, RowSet DEF SetRow, ExecInv
<1>7. local'[p] = k
  BY <1>1, Goes
<1>8. OwnShape(p)
  <2>1. KnownOf(k, revs')
    BY <1>3, <1>4, <1>6 DEF KnownOf, Held
  <2>2. ReturnedOf(p, local[p], revs)
    BY <1>1 DEF Shape
  <2>3. ReturnedOf(p, k, revs')
    <3> SUFFICES ASSUME NEW t \in DOMAIN revs, revs'[t].owner = p
                 PROVE  k.pc \in Held /\ k.rev = t /\ k.lease = revs'[t].lease
      BY <1>6 DEF ReturnedOf
    <3>1. revs[t].owner = p /\ revs'[t].lease = revs[t].lease
      BY <1>2, <1>5, <1>6
    <3> QED
      BY <1>4, <2>2, <3>1 DEF ReturnedOf
  <2> QED
    BY <1>7, <2>1, <2>3 DEF OwnShape
<1>9. ASSUME ~lapsed PROVE OwnAlone(p)
  <2>1. Alone
    BY <1>9 DEF ExecInv
  <2>2. FreeOf(k, revs') /\ OwnsOf(p, k, revs')
    BY <1>4, <1>5, <1>6 DEF FreeOf, OwnsOf, Held
  <2>3. \A q \in Procs : NoRewindOf(k, local[q], revs')
    BY <1>4, <1>5, <1>6 DEF NoRewindOf, WorkingIn, Row
  <2>4. \A q \in Procs : NoRewindOf(local[q], k, revs')
    BY <1>4 DEF NoRewindOf, Held
  <2>5. ASSUME NEW q \in Procs, q # p, WorkingIn(k), WorkingIn(local[q]), k.rev = local[q].rev
        PROVE  FALSE
    BY <1>2, <1>4, <2>1, <2>5 DEF Alone, OwnsOf
  <2> QED
    BY <1>7, <2>2, <2>3, <2>4, <2>5 DEF OwnAlone
<1> QED
  BY <1>1, <1>6, <1>8, <1>9, OwnStep

\* The lease is taken from nobody who works.
LEMMA AcquireStep ==
  ASSUME ExecInv, NEW p \in Procs, Acquire(p)
  PROVE  ExecInv'
<1> DEFINE r == local[p].rev
           new == Acquired(revs[r], p)
           l == [local[p] EXCEPT !.pc = "loop", !.lease = Row(p).lease + 1, !.todo = {},
                                 !.end = None]
<1>1. /\ Goto(p, l) /\ revs' = [revs EXCEPT ![r] = new] /\ Shape /\ lapsed' = lapsed
      /\ local[p].pc = "looked" /\ local[p].free
      /\ revs[r].status = "active" /\ revs[r].lease = local[p].lease
  BY DEF Acquire, Rest, SetRow, At, Row, CanAcquire, ExecInv
<1>2. r \in DOMAIN revs
  BY <1>1 DEF Shape, KnownOf
<1>3. RowOk(revs[r])
  BY <1>1, <1>2 DEF Shape
<1>4. /\ RowOk(new)
      /\ new.owner = p /\ new.lease = revs[r].lease + 1 /\ new.live = TRUE
      /\ new.status = revs[r].status
      /\ new.version = revs[r].version /\ new.graph = revs[r].graph
  BY <1>3, AcquiredRow
<1>5. /\ LocalFields \subseteq DOMAIN l /\ l.pc = "loop" /\ l.rev = r
      /\ l.lease = revs[r].lease + 1 /\ l.end = None
  BY <1>1, LocalFieldsKept DEF LocalFields, Row
<1> HIDE DEF l, new
<1>6. RowStep(p, revs[r], new)
  BY <1>3, <1>4 DEF RowStep, RowOk
<1>7. /\ Moves(p)
      /\ DOMAIN revs' = DOMAIN revs /\ revs'[r] = new
      /\ \A t \in DOMAIN revs : t # r => revs'[t] = revs[t]
      /\ Alone /\ RowLawful(p, r, new) => Lawful(p)
  BY <1>1, <1>2, <1>6, RowSet
<1>8. Alone => RowLawful(p, r, new)
  <2> SUFFICES ASSUME Alone PROVE RowLawful(p, r, new)
    OBVIOUS
  <2>1. ~revs[r].live
    BY <1>1 DEF Alone, FreeOf
  <2>2. \A q \in Procs : WorkingIn(local[q]) /\ local[q].rev = r => FALSE
    BY <1>1, <1>2, <2>1 DEF Alone, OwnsOf
  <2> QED
    BY <1>3, <1>4, <2>2 DEF RowLawful, RowOk
<1>9. local'[p] = l
  BY <1>1, Goes
<1>10. OwnShape(p)
  <2>1. KnownOf(l, revs')
    BY <1>2, <1>5, <1>7 DEF KnownOf
  <2>2. \A t \in DOMAIN revs : revs[t].owner # p
    BY <1>1, NothingHeld DEF Held
  <2>3. ReturnedOf(p, l, revs')
    BY <1>4, <1>5, <1>7, <2>2 DEF ReturnedOf, Held
  <2> QED
    BY <1>9, <2>1, <2>3 DEF OwnShape
<1>11. OwnAlone(p)
  BY <1>5, <1>9 DEF OwnAlone, FreeOf, OwnsOf, NoRewindOf, WorkingIn
<1> QED
  BY <1>1, <1>7, <1>8, <1>10, <1>11, OwnStep DEF ExecInv

\* The lease is given back.
LEMMA ReleaseStep ==
  ASSUME ExecInv, NEW p \in Procs, Release(p)
  PROVE  ExecInv'
<1> DEFINE r == local[p].rev
           new == Unleased(revs[r])
<1>1. /\ Goto(p, Idle) /\ Shape /\ lapsed' = lapsed /\ local[p].pc = "release"
      /\ revs' = IF CanRelease(Row(p), p, local[p].lease) THEN [revs EXCEPT ![r] = Unleased(@)]
                 ELSE revs
  BY DEF Release, Rest, At, ExecInv
<1>2. Idle.pc = "idle" /\ KnownOf(Idle, revs')
  BY DEF Idle, KnownOf, LocalFields
<1>3. ReturnedOf(p, local[p], revs) /\ r \in DOMAIN revs
  BY <1>1 DEF Shape, KnownOf
<1>4. CASE CanRelease(Row(p), p, local[p].lease)
  <2>1. revs[r].owner = p /\ revs' = [revs EXCEPT ![r] = new]
    BY <1>1, <1>4 DEF CanRelease, Row
  <2>2. RowOk(revs[r])
    BY <1>1, <1>3 DEF Shape
  <2>3. /\ RowOk(new)
        /\ new.owner = None /\ new.lease = revs[r].lease + 1 /\ new.live = FALSE
        /\ new.status = revs[r].status
        /\ new.version = revs[r].version /\ new.graph = revs[r].graph
    BY <2>2, UnleasedRow
  <2> HIDE DEF new
  <2>4. RowStep(p, revs[r], new)
    BY <2>2, <2>3, ProcsAssumption DEF RowStep, RowOk
  <2>5. Alone => RowLawful(p, r, new)
    <3> SUFFICES ASSUME Alone, NEW q \in Procs, q # p, WorkingIn(local[q]), local[q].rev = r,
                        new.status = "active"
                 PROVE  FALSE
      BY <2>2, <2>3, ProcsAssumption DEF RowLawful, RowOk
    <3> QED
      BY <2>1, <2>3 DEF Alone, OwnsOf
  <2>6. /\ Moves(p) /\ (~lapsed => Lawful(p))
        /\ DOMAIN revs' = DOMAIN revs /\ revs'[r] = new
        /\ \A t \in DOMAIN revs : t # r => revs'[t] = revs[t]
    BY <1>1, <1>3, <2>1, <2>4, <2>5, RowSet DEF ExecInv
  <2>7. \A t \in DOMAIN revs' : revs'[t].owner # p
    BY <1>3, <2>3, <2>6, ProcsAssumption DEF ReturnedOf
  <2> QED
    BY <1>1, <1>2, <2>6, <2>7, ServedStep
<1>5. CASE ~CanRelease(Row(p), p, local[p].lease)
  <2>1. UNCHANGED revs
    BY <1>1, <1>5
  <2>2. Moves(p) /\ (~lapsed => Lawful(p))
    BY <1>1, <2>1, TablesStay DEF ExecInv
  <2>3. \A t \in DOMAIN revs' : revs'[t].owner # p
    BY <1>3, <1>5, <2>1 DEF ReturnedOf, CanRelease, Row
  <2> QED
    BY <1>1, <1>2, <2>2, <2>3, ServedStep
<1> QED
  BY <1>4, <1>5

\* Each step of the executor.
LEMMA ExecutingStep ==
  ASSUME ExecInv, NEW p \in Procs, Executing(p)
  PROVE  ExecInv'
<1>s. Shape /\ LocalFields \subseteq DOMAIN local[p] /\ KnownOf(local[p], revs)
  BY LocalFieldsKept DEF ExecInv, Shape
<1>1. CASE Acquire(p)
  BY <1>1, AcquireStep
<1>2. CASE LoseLease(p)
  BY <1>2, LeaveStep DEF LoseLease, At, Held, Rest
<1>3. CASE StopAt(p)
  <2> DEFINE l == [local[p] EXCEPT !.pc = "release"]
  <2>1. /\ LocalFields \subseteq DOMAIN l /\ l.pc = "release"
        /\ l.rev = local[p].rev /\ l.lease = local[p].lease /\ l.end = local[p].end
    BY <1>s DEF LocalFields
  <2>2. Beats(p) /\ Loop(p, l)
    BY <1>3 DEF StopAt, Loop
  <2>3. l.end \in {None, "failed"}
    BY <1>s, <2>1, <2>2 DEF Beats, At, KnownOf
  <2> HIDE DEF l
  <2> QED
    BY <2>1, <2>2, <2>3, LoopStep DEF Held, WorkingIn
<1>4. CASE StartBatch(p)
  <2>1. PICK batch : Loop(p, [local[p] EXCEPT !.pc = "mark", !.todo = batch, !.batch = batch])
    BY <1>4 DEF StartBatch
  <2> DEFINE l == [local[p] EXCEPT !.pc = "mark", !.todo = batch, !.batch = batch]
  <2>2. /\ LocalFields \subseteq DOMAIN l /\ l.pc = "mark"
        /\ l.rev = local[p].rev /\ l.lease = local[p].lease /\ l.end = local[p].end
    BY <1>s DEF LocalFields
  <2>3. Beats(p) /\ Loop(p, l) /\ With(Row(p).graph, "running") = {}
    BY <1>4, <2>1 DEF StartBatch, Loop, Stops, Unsettled
  <2>4. l.end \in {None, "failed"}
    BY <1>s, <2>2, <2>3 DEF Beats, At, KnownOf
  <2> HIDE DEF l
  <2> QED
    BY <2>2, <2>3, <2>4, LoopStep DEF Held
<1>5. CASE GiveUpBlocked(p)
  <2> DEFINE l == [local[p] EXCEPT !.pc = "skip", !.todo = Blocked(Row(p).graph), !.end = "failed"]
  <2>1. /\ LocalFields \subseteq DOMAIN l /\ l.pc = "skip"
        /\ l.rev = local[p].rev /\ l.lease = local[p].lease /\ l.end = "failed"
    BY <1>s DEF LocalFields
  <2>2. Beats(p) /\ Loop(p, l) /\ With(Row(p).graph, "running") = {}
    BY <1>5 DEF GiveUpBlocked, Loop, Stops, Unsettled
  <2> HIDE DEF l
  <2> QED
    BY <2>1, <2>2, LoopStep DEF Held
<1>6. CASE Conclude(p)
  <2>0. Beats(p) /\ With(Row(p).graph, "running") = {}
    BY <1>6 DEF Conclude, Loop, Stops, Unsettled
  <2>1. CASE With(Row(p).graph, "pending") # {}
    <3> DEFINE l == [local[p] EXCEPT !.pc = "release"]
    <3>1. /\ LocalFields \subseteq DOMAIN l /\ l.pc = "release"
          /\ l.rev = local[p].rev /\ l.lease = local[p].lease /\ l.end = local[p].end
      BY <1>s DEF LocalFields
    <3>2. Loop(p, l)
      BY <1>6, <2>1 DEF Conclude
    <3>3. l.end \in {None, "failed"}
      BY <1>s, <2>0, <3>1 DEF Beats, At, KnownOf
    <3> HIDE DEF l
    <3> QED
      BY <2>0, <3>1, <3>2, <3>3, LoopStep DEF Held, WorkingIn
  <2>2. CASE With(Row(p).graph, "pending") = {}
    <3> DEFINE e == IF With(Row(p).graph, "skipped") # {} THEN "failed" ELSE "completed"
               l == [local[p] EXCEPT !.pc = "close", !.end = e]
    <3>1. /\ LocalFields \subseteq DOMAIN l /\ l.pc = "close"
          /\ l.rev = local[p].rev /\ l.lease = local[p].lease /\ l.end = e
      BY <1>s DEF LocalFields
    <3>2. Loop(p, l)
      BY <1>6, <2>2 DEF Conclude
    <3> HIDE DEF l
    <3> QED
      BY <2>0, <3>1, <3>2, LoopStep DEF Held
  <2> QED
    BY <2>1, <2>2
<1>7. CASE Mark(p)
  <2> DEFINE n == First(local[p].todo)
             pc == IF local[p].todo = {n} THEN "run" ELSE "mark"
             l == [local[p] EXCEPT !.pc = pc]
  <2>1. /\ LocalFields \subseteq DOMAIN l /\ l.pc \in {"run", "mark"}
        /\ l.rev = local[p].rev /\ l.lease = local[p].lease /\ l.end = local[p].end
    BY <1>s DEF LocalFields
  <2>2. MoveNode(p, n, "running", None, l) /\ local[p].pc = "mark" /\ lapsed' = lapsed
    BY <1>7 DEF Mark, At, Rest
  <2>3. l.end \in {None, "failed"}
    BY <1>s, <2>1, <2>2 DEF KnownOf
  <2> HIDE DEF l, n
  <2> QED
    BY <2>1, <2>2, <2>3, MoveNodeStep DEF Held, WorkingIn
<1>8. ASSUME NEW out, Run(p, out) PROVE ExecInv'
  <2> DEFINE l == [local[p] EXCEPT !.pc = "beat", !.todo = local[p].batch, !.out = out]
  <2>1. /\ LocalFields \subseteq DOMAIN l /\ l.pc = "beat"
        /\ l.rev = local[p].rev /\ l.lease = local[p].lease /\ l.end = local[p].end
    BY <1>s DEF LocalFields
  <2>2. Goto(p, l) /\ UNCHANGED revs /\ local[p].pc = "run" /\ lapsed' = lapsed
    BY <1>8 DEF Run, At, Rest
  <2> HIDE DEF l
  <2>3. Moves(p) /\ (~lapsed => Lawful(p))
    BY <1>s, <2>2, TablesStay DEF ExecInv
  <2>4. KnownOf(l, revs')
    BY <1>s, <2>1, <2>2 DEF KnownOf
  <2> QED
    BY <2>1, <2>2, <2>3, <2>4, HeldStep DEF Held, WorkingIn
<1>9. CASE Beat(p)
  <2> DEFINE r == local[p].rev
             l == [local[p] EXCEPT !.pc = "write", !.version = Row(p).version]
             new == Beaten(revs[r])
  <2>0. local[p].pc = "beat" /\ lapsed' = lapsed /\ r \in DOMAIN revs
    BY <1>9, <1>s DEF Beat, At, Rest, KnownOf
  <2>1. /\ LocalFields \subseteq DOMAIN l /\ l.pc = "write"
        /\ l.rev = local[p].rev /\ l.lease = local[p].lease /\ l.end = local[p].end
    BY <1>s DEF LocalFields
  <2>2. CASE Leave(p)
    BY <2>0, <2>2, LeaveStep DEF Held
  <2>3. CASE ~Leave(p)
    <3>1. revs' = [revs EXCEPT ![r] = new] /\ Goto(p, l) /\ revs[r].owner = p
      BY <1>9, <2>3 DEF Beat, SetRow, Row, CanBeat
    <3>2. /\ RowStep(p, revs[r], new) /\ (Alone => RowLawful(p, r, new))
          /\ new.owner = p /\ new.lease = revs[r].lease
      BY <1>s, <2>0, <3>1, BeatStep
    <3> HIDE DEF l, new
    <3>3. /\ Moves(p) /\ (~lapsed => Lawful(p))
          /\ DOMAIN revs' = DOMAIN revs /\ revs'[r] = new
          /\ \A t \in DOMAIN revs : t # r => revs'[t] = revs[t]
      BY <1>s, <2>0, <3>1, <3>2, RowSet DEF ExecInv
    <3>4. KnownOf(l, revs')
      BY <1>s, <2>0, <2>1, <3>3 DEF KnownOf
    <3>5. \A t \in DOMAIN revs :
            revs'[t].owner = p => revs[t].owner = p /\ revs'[t].lease = revs[t].lease
      BY <3>1, <3>2, <3>3
    <3> QED
      BY <2>0, <2>1, <3>1, <3>2, <3>3, <3>4, <3>5, HeldStep DEF Held, WorkingIn
  <2> QED
    BY <2>2, <2>3
<1>10. CASE Write(p)
  <2> DEFINE n == First(local[p].todo)
             pc == IF local[p].todo # {n} THEN "beat" ELSE AfterBatch(local[p].out)
             l == [local[p] EXCEPT !.pc = pc]
  <2>0. pc \in {"beat", "skip", "loop", "release"}
    BY DEF AfterBatch
  <2> HIDE DEF pc
  <2>1. /\ LocalFields \subseteq DOMAIN l /\ l.pc = pc
        /\ l.rev = local[p].rev /\ l.lease = local[p].lease /\ l.end = local[p].end
    BY <1>s DEF LocalFields
  <2>2. /\ MoveNode(p, n, local[p].out[n], Record(p, local[p].out[n]), l)
        /\ local[p].pc = "write" /\ lapsed' = lapsed
    BY <1>10 DEF Write, At, Rest, pc
  <2>3. l.end \in {None, "failed"}
    BY <1>s, <2>1, <2>2 DEF KnownOf
  <2> HIDE DEF l, n
  <2> QED
    BY <2>0, <2>1, <2>2, <2>3, MoveNodeStep DEF Held, WorkingIn
<1>11. CASE Skip(p)
  <2>0. local[p].pc = "skip" /\ lapsed' = lapsed /\ local[p].end \in {None, "failed"}
    BY <1>11, <1>s DEF Skip, At, Rest, KnownOf
  <2>1. CASE ToSkip(p) # {}
    <3>1. MoveNode(p, First(ToSkip(p)), "skipped", Record(p, "skipped"), local[p])
      BY <1>11, <2>1 DEF Skip
    <3> QED
      BY <1>s, <2>0, <3>1, MoveNodeStep DEF Held, WorkingIn
  <2>2. CASE ToSkip(p) = {}
    <3> DEFINE pc == IF local[p].end = None THEN "release" ELSE "close"
               l == [local[p] EXCEPT !.pc = pc]
    <3>1. /\ LocalFields \subseteq DOMAIN l /\ l.pc = pc
          /\ l.rev = local[p].rev /\ l.lease = local[p].lease /\ l.end = local[p].end
      BY <1>s DEF LocalFields
    <3>2. Goto(p, l) /\ UNCHANGED revs
      BY <1>11, <2>2 DEF Skip, Step
    <3> HIDE DEF l
    <3>3. Moves(p) /\ (~lapsed => Lawful(p))
      BY <1>s, <3>2, TablesStay DEF ExecInv
    <3>4. KnownOf(l, revs')
      BY <1>s, <2>0, <3>1, <3>2 DEF KnownOf
    <3> QED
      BY <2>0, <3>1, <3>2, <3>3, <3>4, HeldStep DEF Held, WorkingIn
  <2> QED
    BY <2>1, <2>2
<1>12. CASE Close(p)
  <2> DEFINE r == local[p].rev
             l == [local[p] EXCEPT !.pc = "release"]
             new == ClosedAs(revs[r], local[p].end)
  <2>0. local[p].pc = "close" /\ lapsed' = lapsed /\ r \in DOMAIN revs /\ local[p].end # "active"
    BY <1>12, <1>s DEF Close, At, Rest, KnownOf
  <2>1. /\ LocalFields \subseteq DOMAIN l /\ l.pc = "release"
        /\ l.rev = local[p].rev /\ l.lease = local[p].lease
    BY <1>s DEF LocalFields
  <2>2. CASE Leave(p)
    BY <2>0, <2>2, LeaveStep DEF Held
  <2>3. CASE ~Leave(p)
    <3>1. revs' = [revs EXCEPT ![r] = new] /\ Goto(p, l)
      BY <1>12, <2>3 DEF Close, SetRow, Row, Step
    <3>2. /\ RowStep(p, revs[r], new) /\ RowLawful(p, r, new)
          /\ new.owner = None /\ new.status # "active"
      BY <1>s, <2>0, CloseStep
    <3> HIDE DEF l, new
    <3>3. /\ Moves(p) /\ (~lapsed => Lawful(p))
          /\ DOMAIN revs' = DOMAIN revs /\ revs'[r] = new
          /\ \A t \in DOMAIN revs : t # r => revs'[t] = revs[t]
      BY <1>s, <2>0, <3>1, <3>2, RowSet DEF ExecInv
    <3>4. KnownOf(l, revs')
      BY <1>s, <2>0, <2>1, <3>3 DEF KnownOf
    <3>5. \A t \in DOMAIN revs :
            revs'[t].owner = p => revs[t].owner = p /\ revs'[t].lease = revs[t].lease
      BY <3>2, <3>3, ProcsAssumption
    <3> QED
      BY <2>0, <2>1, <3>1, <3>2, <3>3, <3>4, <3>5, HeldStep DEF Held, WorkingIn
  <2> QED
    BY <2>2, <2>3
<1>13. CASE Release(p)
  BY <1>13, ReleaseStep
<1> QED
  BY <1>1, <1>2, <1>3, <1>4, <1>5, <1>6, <1>7, <1>8, <1>9, <1>10, <1>11, <1>12, <1>13
     DEF Executing

-----------------------------------------------------------------------------
(* The other processes. *)

\* An idle process knows nothing that could be wrong.
LEMMA IdleKnows == \A table : Idle.pc = "idle" /\ KnownOf(Idle, table)
  BY DEF Idle, KnownOf, LocalFields

\* A process that does not execute writes one row and is done.
LEMMA ServedRow ==
  ASSUME ExecInv, NEW p \in Procs, local[p].pc \notin Held, Goto(p, Idle), lapsed' = lapsed,
         NEW r \in DOMAIN revs, NEW new, revs' = [revs EXCEPT ![r] = new],
         RowStep(p, revs[r], new), ~lapsed => RowLawful(p, r, new), new.owner # p
  PROVE  ExecInv'
<1>1. Shape /\ (~lapsed => Alone)
  BY DEF ExecInv
<1>2. /\ Moves(p) /\ (~lapsed => Lawful(p))
      /\ DOMAIN revs' = DOMAIN revs /\ revs'[r] = new
      /\ \A t \in DOMAIN revs : t # r => revs'[t] = revs[t]
  BY <1>1, RowSet
<1>3. \A t \in DOMAIN revs' : revs'[t].owner # p
  BY <1>1, <1>2, NothingHeld
<1> QED
  BY <1>2, <1>3, IdleKnows, ServedStep

\* It writes the status of a node.
LEMMA ServedNode ==
  ASSUME ExecInv, NEW p \in Procs, local[p].pc \notin Held, local[p].pc # "idle",
         Goto(p, Idle), lapsed' = lapsed, NEW n, NEW s, NEW result,
         SetRow(p, NodeMoved(Row(p), n, s, result))
  PROVE  ExecInv'
<1> DEFINE r == local[p].rev
           new == NodeMoved(revs[r], n, s, result)
<1>1. Shape /\ (~lapsed => Alone) /\ r \in DOMAIN revs /\ revs' = [revs EXCEPT ![r] = new]
  BY DEF ExecInv, Shape, KnownOf, SetRow, Row
<1>2. /\ RowStep(p, revs[r], new) /\ (Alone => RowLawful(p, r, new))
      /\ new.owner = revs[r].owner
  BY <1>1, NodeStep
<1>3. new.owner # p
  BY <1>1, <1>2, NothingHeld
<1> HIDE DEF new
<1> QED
  BY <1>1, <1>2, <1>3, ServedRow

\* A replan closes the revision, whoever has its lease, and opens another.
LEMMA ReplanStep ==
  ASSUME ExecInv, NEW p \in Procs, NEW g, Replan(p, g)
  PROVE  ExecInv'
<1> DEFINE r == local[p].rev
           closed == ClosedAs(revs[r], "superseded")
           table == [revs EXCEPT ![r] = closed]
           row == Successor(Row(p), g)
<1>1. /\ local[p].pc = "looked" /\ Goto(p, Idle) /\ lapsed' = lapsed
      /\ revs' = Append(table, row)
  BY DEF Replan, At, Rest, Row
<1>2. Shape /\ (~lapsed => Alone) /\ r \in DOMAIN revs
  BY <1>1 DEF ExecInv, Shape, KnownOf
<1>3. /\ RowStep(p, revs[r], closed) /\ RowLawful(p, r, closed)
      /\ closed.owner = None /\ closed.status # "active"
  BY <1>2, CloseStep
<1>4. RowOk(row) /\ row.owner = None
  BY NewRow DEF Successor
<1> HIDE DEF closed, row
<1>5. /\ DOMAIN table = DOMAIN revs /\ table[r] = closed
      /\ \A t \in DOMAIN revs : t # r => table[t] = revs[t]
  BY <1>2
<1>6. IsSeq(table)
  BY <1>2, <1>5, SameLength DEF Shape
<1> HIDE DEF table
<1>7. /\ IsSeq(revs')
      /\ DOMAIN revs' = DOMAIN revs \cup {Len(table) + 1}
      /\ \A t \in DOMAIN revs : revs'[t] = table[t]
      /\ revs'[Len(table) + 1] = row
  BY <1>1, <1>5, <1>6, OneMore
<1>8. \A t \in DOMAIN revs : RowStep(p, revs[t], revs'[t])
  BY <1>2, <1>3, <1>5, <1>7 DEF Shape, RowStep, RowOk
<1>9. Moves(p)
  BY <1>1, <1>2, <1>4, <1>7, <1>8, Goes DEF Moves
<1>10. ASSUME ~lapsed PROVE Lawful(p)
  BY <1>2, <1>3, <1>5, <1>7, <1>10 DEF Alone, RowLawful, Lawful
<1>11. \A t \in DOMAIN revs : revs[t].owner # p
  BY <1>1, <1>2, NothingHeld DEF Held
<1>12. \A t \in DOMAIN revs' : revs'[t].owner # p
  BY <1>3, <1>4, <1>5, <1>7, <1>11, ProcsAssumption
<1> QED
  BY <1>1, <1>9, <1>10, <1>12, IdleKnows, ServedStep

\* A rewind takes the lease from nobody: it was free when the row had its version.
LEMMA RewindStep ==
  ASSUME ExecInv, NEW p \in Procs, Rewind(p)
  PROVE  ExecInv'
<1> DEFINE r == local[p].rev
           n == Halted(p)
           new == Rewound(revs[r], n)
<1>1. /\ local[p].pc = "resuming" /\ local[p].free /\ n \in NodesOf(revs[r].graph)
      /\ revs[r].status = "active" /\ revs[r].version = local[p].version
      /\ revs[r].graph.status[n] = "running"
      /\ revs' = [revs EXCEPT ![r] = new] /\ Goto(p, Idle) /\ lapsed' = lapsed
  BY DEF Rewind, Resuming, At, Row, CanRewind, RewindTo, SetRow, Rest
<1>2. Shape /\ (~lapsed => Alone) /\ r \in DOMAIN revs
  BY <1>1 DEF ExecInv, Shape, KnownOf
<1>3. RowOk(revs[r])
  BY <1>2 DEF Shape
<1>4. /\ RowOk(new)
      /\ new.owner = None /\ new.lease = revs[r].lease + 1 /\ new.live = FALSE
      /\ new.status = revs[r].status /\ new.version = revs[r].version + 1
  BY <1>3, RewoundRow
<1> HIDE DEF new
<1>5. RowStep(p, revs[r], new)
  BY <1>3, <1>4, ProcsAssumption DEF RowStep, RowOk
<1>6. n \in With(revs[r].graph, "running")
  BY <1>1 DEF With
<1>7. ASSUME ~lapsed PROVE RowLawful(p, r, new)
  <2>1. ASSUME NEW q \in Procs, WorkingIn(local[q]), local[q].rev = r PROVE FALSE
    <3>1. NoRewindOf(local[q], local[p], revs)
      BY <1>2, <1>7 DEF Alone
    <3> QED
      BY <1>1, <1>6, <2>1, <3>1 DEF NoRewindOf
  <2> QED
    BY <1>3, <1>4, <2>1, ProcsAssumption DEF RowLawful, RowOk
<1>8. new.owner # p
  BY <1>4, ProcsAssumption
<1> QED
  BY <1>1, <1>2, <1>5, <1>7, <1>8, ServedRow DEF Held

\* Who reads the row again finds a lease free only if nobody works under it.
LEMMA RereadStep ==
  ASSUME ExecInv, NEW p \in Procs, NEW r \in ActiveRevs, Reread(p, r)
  PROVE  ExecInv'
<1> DEFINE l == [local[p] EXCEPT !.pc = "resuming", !.rev = r, !.version = revs[r].version,
                                 !.free = ~revs[r].live]
<1>1. /\ local[p].pc = "looked" /\ Goto(p, l) /\ UNCHANGED revs /\ lapsed' = lapsed
  BY DEF Reread, At, Rest
<1>2. Shape /\ (~lapsed => Alone) /\ r \in DOMAIN revs /\ revs[r].status = "active"
  BY DEF ExecInv, ActiveRevs
<1>3. /\ LocalFields \subseteq DOMAIN l /\ l.pc = "resuming" /\ l.rev = r
      /\ l.version = revs[r].version /\ (l.free => ~revs[r].live)
  BY <1>2, LocalFieldsKept DEF LocalFields
<1> HIDE DEF l
<1>4. Moves(p) /\ (~lapsed => Lawful(p)) /\ local'[p] = l
  BY <1>1, <1>2, TablesStay, Goes
<1>5. \A t \in DOMAIN revs' : revs'[t].owner # p
  BY <1>1, <1>2, NothingHeld DEF Held
<1>6. OwnShape(p)
  BY <1>1, <1>2, <1>3, <1>4, <1>5 DEF OwnShape, KnownOf, ReturnedOf, Shape, RowOk
<1>7. ASSUME ~lapsed PROVE OwnAlone(p)
  <2>1. Alone
    BY <1>2, <1>7
  <2>2. ASSUME NEW q \in Procs PROVE NoRewindOf(local[q], l, revs')
    BY <1>1, <1>2, <1>3, <2>1 DEF NoRewindOf, Alone, OwnsOf
  <2> QED
    BY <1>3, <1>4, <2>2 DEF OwnAlone, FreeOf, OwnsOf, NoRewindOf, WorkingIn
<1> QED
  BY <1>1, <1>4, <1>6, <1>7, OwnStep

\* Each step of a process that serves a user.
LEMMA ServingStep ==
  ASSUME ExecInv, NEW p \in Procs, Serving(p)
  PROVE  ExecInv'
<1>s. Shape /\ (~lapsed => Alone)
  BY DEF ExecInv
<1>1. CASE GiveUp(p)
  <2>1. local[p].pc \notin Held /\ Goto(p, Idle) /\ UNCHANGED revs /\ lapsed' = lapsed
    BY <1>1 DEF GiveUp, Held, Rest
  <2>2. Moves(p) /\ (~lapsed => Lawful(p))
    BY <1>s, <2>1, TablesStay
  <2>3. \A t \in DOMAIN revs' : revs'[t].owner # p
    BY <1>s, <2>1, NothingHeld
  <2> QED
    BY <2>1, <2>2, <2>3, IdleKnows, ServedStep
<1>2. CASE FailRevision(p)
  <2> DEFINE r == local[p].rev
             new == ClosedAs(revs[r], "failed")
  <2>1. /\ local[p].pc = "looked" /\ Goto(p, Idle) /\ lapsed' = lapsed
        /\ revs' = [revs EXCEPT ![r] = new]
    BY <1>2 DEF FailRevision, At, Rest, SetRow, Row
  <2>2. r \in DOMAIN revs
    BY <1>s, <2>1 DEF Shape, KnownOf
  <2>3. RowStep(p, revs[r], new) /\ RowLawful(p, r, new) /\ new.owner = None
    BY <1>s, <2>2, CloseStep
  <2> HIDE DEF new
  <2> QED
    BY <2>1, <2>2, <2>3, ProcsAssumption, ServedRow DEF Held
<1>3. ASSUME NEW s, Settle(p, s) PROVE ExecInv'
  BY <1>3, ServedNode DEF Settle, At, Rest, Held
<1>4. ASSUME NEW g, Replan(p, g) PROVE ExecInv'
  BY <1>4, ReplanStep
<1>5. ASSUME NEW n, Unpark(p, n) PROVE ExecInv'
  BY <1>5, ServedNode DEF Unpark, At, Rest, Held
<1>6. ASSUME NEW n, Answer(p, n) PROVE ExecInv'
  <2> DEFINE l == [local[p] EXCEPT !.pc = "answered", !.todo = {n}]
  <2>1. local[p].pc = "looked" /\ Goto(p, l) /\ UNCHANGED revs /\ lapsed' = lapsed
    BY <1>6 DEF Answer, At, Rest
  <2>2. LocalFields \subseteq DOMAIN l /\ l.pc = "answered" /\ l.rev = local[p].rev
    BY <1>s, LocalFieldsKept DEF LocalFields
  <2> HIDE DEF l
  <2>3. Moves(p) /\ (~lapsed => Lawful(p))
    BY <1>s, <2>1, TablesStay
  <2>4. KnownOf(l, revs')
    BY <1>s, <2>1, <2>2 DEF Shape, KnownOf
  <2>5. \A t \in DOMAIN revs' : revs'[t].owner # p
    BY <1>s, <2>1, NothingHeld DEF Held
  <2> QED
    BY <2>1, <2>2, <2>3, <2>4, <2>5, ServedStep DEF Held
<1>7. ASSUME NEW r \in ActiveRevs, Reread(p, r) PROVE ExecInv'
  BY <1>7, RereadStep
<1>8. CASE Rewind(p)
  BY <1>8, RewindStep
<1>9. CASE Accept(p)
  BY <1>9, ServedNode DEF Accept, Resuming, Resume, At, Rest, Held
<1>10. CASE Requeue(p)
  BY <1>10, ServedNode DEF Requeue, Resuming, Resume, At, Rest, Held
<1> QED
  BY <1>1, <1>2, <1>3, <1>4, <1>5, <1>6, <1>7, <1>8, <1>9, <1>10 DEF Serving

-----------------------------------------------------------------------------
(* The first revision, commands, clocks and deaths. *)

\* The first revision has no lease.
LEMMA CreateStep ==
  ASSUME ExecInv, NEW p \in Procs, NEW g, Create(p, g)
  PROVE  ExecInv'
<1> DEFINE row == NewRevision(g, NoResults(g))
<1>1. revs = <<>> /\ revs' = <<row>> /\ UNCHANGED <<local, lapsed>> /\ local[p].pc = "idle"
  BY DEF Create, At
<1>2. Shape
  BY DEF ExecInv
<1>3. RowOk(row) /\ row.owner = None
  BY NewRow
<1> HIDE DEF row
<1>4. revs' = Append(revs, row)
  BY <1>1
<1>5. /\ IsSeq(revs') /\ DOMAIN revs = {}
      /\ DOMAIN revs' = DOMAIN revs \cup {Len(revs) + 1} /\ revs'[Len(revs) + 1] = row
  <2>1. DOMAIN revs = {}
    BY <1>1
  <2>2. IsSeq(revs)
    BY <1>2 DEF Shape
  <2> QED
    BY <1>4, <2>1, <2>2, OneMore
<1>6. Moves(p)
  BY <1>1, <1>2, <1>3, <1>5 DEF Moves, Shape
<1>7. \A t \in DOMAIN revs' : revs'[t].owner # p
  BY <1>3, <1>5, ProcsAssumption
<1>8. OwnShape(p)
  BY <1>1, <1>2, <1>7 DEF OwnShape, Shape, KnownOf, ReturnedOf
<1>9. Lawful(p) /\ OwnAlone(p)
  BY <1>1, <1>5 DEF Lawful, OwnAlone, FreeOf, OwnsOf, NoRewindOf, WorkingIn
<1> QED
  BY <1>1, <1>6, <1>8, <1>9, OwnStep

\* Who looks finds a lease free only if it is.
LEMMA LookStep ==
  ASSUME ExecInv, NEW p \in Procs, NEW r \in ActiveRevs, Look(p, r)
  PROVE  ExecInv'
<1> DEFINE todo == Unsettled(revs[r].graph)
           end == Halt(revs[r].graph)
           free == LeaseFree(revs[r], p)
           l == [Idle EXCEPT !.pc = "looked", !.rev = r, !.version = revs[r].version,
                             !.lease = revs[r].lease, !.free = free, !.todo = todo, !.end = end]
<1>1. local[p].pc = "idle" /\ Goto(p, l) /\ UNCHANGED revs /\ lapsed' = lapsed
  BY DEF Look, At
<1>2. Shape /\ (~lapsed => Alone) /\ r \in DOMAIN revs
  BY DEF ExecInv, ActiveRevs
<1>3. free => ~revs[r].live
  BY <1>1, <1>2, NothingHeld DEF LeaseFree, Held
<1> HIDE DEF todo, end, free
<1>4. /\ LocalFields \subseteq DOMAIN l /\ l.pc = "looked" /\ l.rev = r
      /\ l.version = revs[r].version /\ l.lease = revs[r].lease /\ l.free = free
  BY DEF LocalFields, Idle
<1> HIDE DEF l
<1>5. Moves(p) /\ (~lapsed => Lawful(p)) /\ local'[p] = l
  BY <1>1, <1>2, TablesStay, Goes
<1>6. \A t \in DOMAIN revs' : revs'[t].owner # p
  BY <1>1, <1>2, NothingHeld DEF Held
<1>7. OwnShape(p)
  BY <1>1, <1>2, <1>4, <1>5, <1>6 DEF OwnShape, KnownOf, ReturnedOf, Shape, RowOk
<1>8. OwnAlone(p)
  BY <1>1, <1>3, <1>4, <1>5 DEF OwnAlone, FreeOf, OwnsOf, NoRewindOf, WorkingIn
<1> QED
  BY <1>1, <1>5, <1>7, <1>8, OwnStep

\* A lease that runs out belongs to nobody who lives, or all bets are off.
LEMMA LapseStep ==
  ASSUME ExecInv, NEW r \in DOMAIN revs, Lapse(r)
  PROVE  ExecInv'
<1> DEFINE new == [revs[r] EXCEPT !.live = FALSE]
<1>1. /\ revs' = [revs EXCEPT ![r] = new] /\ UNCHANGED local
      /\ lapsed' = (lapsed \/ revs[r].owner \in Procs)
  BY DEF Lapse
<1>2. Shape /\ (~lapsed => Alone) /\ RowOk(revs[r])
  BY DEF ExecInv, Shape
<1>3. /\ RowOk(new) /\ new.owner = revs[r].owner /\ new.live = FALSE
      /\ new.lease = revs[r].lease /\ new.version = revs[r].version
      /\ new.status = revs[r].status /\ new.graph = revs[r].graph
  BY <1>2 DEF RowOk, RowFields
<1> HIDE DEF new
<1>4. /\ DOMAIN revs' = DOMAIN revs /\ revs'[r] = new
      /\ \A t \in DOMAIN revs : t # r => revs'[t] = revs[t]
  BY <1>1
<1>5. IsSeq(revs')
  <2>1. revs' = [i \in DOMAIN revs |-> revs'[i]]
    BY <1>1
  <2> QED
    BY <1>2, <2>1, SameLength DEF Shape
<1>6. \A t \in DOMAIN revs : RowStep(None, revs[t], revs'[t])
  BY <1>2, <1>3, <1>4 DEF Shape, RowStep, RowOk
<1>7. Moves(None)
  BY <1>1, <1>2, <1>4, <1>5, <1>6 DEF Moves, Shape
<1>8. Shape'
  BY <1>1, <1>2, <1>4, <1>5, <1>6, <1>7, OthersShape, ProcsAssumption DEF Shape, RowStep
<1>9. ASSUME ~lapsed' PROVE Alone'
  <2>1. Alone /\ revs[r].owner \notin Procs
    BY <1>1, <1>2, <1>9
  <2>2. Lawful(None)
    BY <1>3, <1>4, <2>1 DEF Alone, Lawful
  <2> QED
    BY <1>1, <1>2, <1>7, <2>1, <2>2, OthersAlone, ProcsAssumption DEF Alone
<1> QED
  BY <1>8, <1>9 DEF ExecInv

\* What a dead process had, nobody has.
LEMMA CrashStep ==
  ASSUME ExecInv, NEW p \in Procs, Crash(p)
  PROVE  ExecInv'
<1>1. /\ Goto(p, Idle) /\ lapsed' = lapsed
      /\ revs' = [r \in DOMAIN revs |->
                    IF revs[r].owner = p THEN [revs[r] EXCEPT !.owner = Gone] ELSE revs[r]]
  BY DEF Crash
<1>2. Shape /\ (~lapsed => Alone)
  BY DEF ExecInv
<1>3. DOMAIN revs' = DOMAIN revs /\ IsSeq(revs')
  BY <1>1, <1>2, SameLength DEF Shape
<1>4. ASSUME NEW r \in DOMAIN revs
      PROVE  /\ RowStep(p, revs[r], revs'[r])
             /\ revs'[r].owner # p
             /\ revs[r].owner # p => revs'[r] = revs[r]
             /\ revs[r].owner = p => revs'[r].owner = Gone /\ revs'[r].status = revs[r].status
  <2>1. RowOk(revs[r])
    BY <1>2 DEF Shape
  <2>2. CASE revs[r].owner = p
    <3> DEFINE new == [revs[r] EXCEPT !.owner = Gone]
    <3>1. /\ RowOk(new) /\ new.owner = Gone
          /\ new.lease = revs[r].lease /\ new.version = revs[r].version
          /\ new.status = revs[r].status /\ new.graph = revs[r].graph
      BY <2>1 DEF RowOk, RowFields
    <3>2. revs'[r] = new
      BY <1>1, <2>2
    <3> HIDE DEF new
    <3> QED
      BY <2>1, <2>2, <3>1, <3>2, ProcsAssumption DEF RowStep, RowOk
  <2>3. CASE revs[r].owner # p
    BY <1>1, <2>1, <2>3 DEF RowStep, RowOk
  <2> QED
    BY <2>2, <2>3
<1>5. Moves(p)
  BY <1>1, <1>2, <1>3, <1>4, Goes DEF Moves
<1>6. ASSUME ~lapsed PROVE Lawful(p)
  <2>1. Alone
    BY <1>2, <1>6
  <2>2. ASSUME NEW r \in DOMAIN revs, revs[r].owner = p,
               NEW q \in Procs, q # p, WorkingIn(local[q]), local[q].rev = r,
               revs'[r].status = "active"
        PROVE  FALSE
    BY <1>4, <2>1, <2>2 DEF Alone, OwnsOf
  <2> QED
    BY <1>4, <2>1, <2>2, ProcsAssumption DEF Alone, Lawful
<1> QED
  BY <1>1, <1>3, <1>4, <1>5, <1>6, IdleKnows, ServedStep

-----------------------------------------------------------------------------
\* There is no revision yet.
LEMMA ExecInit == Init => ExecInv
<1> SUFFICES ASSUME Init PROVE ExecInv
  OBVIOUS
<1>1. DOMAIN revs = {} /\ IsSeq(revs)
  BY EmptySeq DEF Init, IsSeq
<1>2. \A p \in Procs : local[p] = Idle
  BY DEF Init
<1>3. Shape
  BY <1>1, <1>2, IdleKnows DEF Init, Shape, ReturnedOf
<1>4. Alone
  BY <1>1, <1>2, IdleKnows DEF Alone, FreeOf, OwnsOf, NoRewindOf, WorkingIn
<1> QED
  BY <1>3, <1>4 DEF ExecInv

\* Every step keeps the leases in order.
LEMMA ExecStep == ExecInv /\ [Next]_vars => ExecInv'
<1> SUFFICES ASSUME ExecInv, [Next]_vars PROVE ExecInv'
  OBVIOUS
<1>1. CASE UNCHANGED vars
  BY <1>1 DEF vars, ExecInv, Shape, Alone
<1> QED
  BY <1>1, LapseStep, ExecutingStep, ServingStep, CrashStep, CreateStep, LookStep
     DEF Next, Work

\* As long as no lease runs out under a living owner, no two processes decide on or run the
\* nodes of one revision at a time, whatever others resume, answer, replan or give up.
THEOREM OneAtATime == Spec => []OneExecutor
<1>1. ExecInv => OneExecutor
  BY DEF ExecInv, Alone, OneExecutor, Working, WorkingIn
<1> QED
  BY ExecInit, ExecStep, <1>1, PTL DEF Spec

\* Whoever owns a lease is executing: an execution that ends, fails or loses its lease does
\* not keep it.
THEOREM LeasesReturned == Spec => []LeaseReturned
<1>1. ExecInv => LeaseReturned
  BY DEF ExecInv, Shape, ReturnedOf, Held, LeaseReturned
<1> QED
  BY ExecInit, ExecStep, <1>1, PTL DEF Spec

-----------------------------------------------------------------------------
(* What the rows hold, and what each process makes of the version it has read. A batch that *)
(* is to be marked is ready as long as that version stands; who has begun a node is its     *)
(* runner until he loses his lease, or the row has moved past what he read.                 *)

\* Statuses of a node that has been begun, and has not been handed back since.
Begun == {"running", "completed", "failed"}

RowTyped(row, run) ==
  /\ row.status \in RevisionStatus /\ IsPlanGraph(row.graph)
  /\ row.results \in Results(row.graph)
  /\ row.owner \in Procs \cup {None, Gone} /\ row.live \in BOOLEAN
  /\ run \in [NodesOf(row.graph) -> Procs \cup {None}]

Table ==
  /\ IsSeq(runner) /\ DOMAIN runner = DOMAIN revs /\ Len(revs) <= MaxRevisions
  /\ \A r \in DOMAIN revs : RowTyped(revs[r], runner[r])
  /\ \A r \in ActiveRevs : r = Len(revs)

\* The nodes a process works on are of the graph.
BatchOf(l, g) ==
  /\ l.pc \in {"mark", "beat", "write"} => l.todo # {} /\ l.todo \subseteq l.batch
  /\ l.pc \in {"mark", "run", "beat", "write"} => l.batch # {} /\ l.batch \subseteq NodesOf(g)
  /\ l.pc \in {"beat", "write"} => l.out \in [l.batch -> Outcome]
  /\ l.pc = "answered" => \E n \in NodesOf(g) : l.todo = {n}
  /\ l.pc \in {"loop", "mark", "run", "beat", "write"} => l.end = None

Reads(l) == l.pc \in {"mark", "write", "skip", "close"}

\* What is so while the version stands.
SureOf(l, g) ==
  /\ l.pc = "mark" => /\ l.todo \subseteq Ready(g)
                      /\ \A n \in NodesOf(g) :
                           g.status[n] \in {"pending", "running", "completed", "skipped"}
  /\ l.pc = "skip" /\ l.end # None =>
       l.todo \subseteq Blocked(g) /\ \E n \in NodesOf(g) : g.status[n] \in {"failed", "skipped"}
  /\ l.pc = "close" =>
       IF l.end = "completed" THEN \A n \in NodesOf(g) : g.status[n] = "completed"
       ELSE \E n \in NodesOf(g) : g.status[n] \in {"failed", "skipped"}

\* The nodes of its batch that p has begun, and has not recorded.
BegunBy(l) ==
  CASE l.pc = "mark" -> l.batch \ l.todo
    [] l.pc = "run" -> l.batch
    [] l.pc \in {"beat", "write"} -> l.todo
    [] OTHER -> {}

RunsOf(p, l, row, run) ==
  row.owner = p \/ (Reads(l) /\ l.version = row.version) =>
    \A n \in BegunBy(l) : run[n] = p /\ row.graph.status[n] \in Begun

PlaceOf(p, l, row, run) ==
  /\ BatchOf(l, row.graph)
  /\ Reads(l) => l.version \in Nat /\ l.version <= row.version
  /\ Reads(l) /\ l.version = row.version => SureOf(l, row.graph)
  /\ RunsOf(p, l, row, run)

PlanInv ==
  /\ Table
  /\ \A p \in Procs : local[p].pc # "idle" => PlaceOf(p, local[p], Row(p), runner[local[p].rev])

-----------------------------------------------------------------------------
(* Nodes and rows. *)

\* What _NODE_STATUS_TRANSITIONS allows.
LEMMA NodeMovesAre ==
  ASSUME NEW a, NEW s, <<a, s>> \in NodeMoves
  PROVE  /\ a \in NodeStatus /\ s \in NodeStatus
         /\ \/ a = s
            \/ a = "pending" /\ s \in {"running", "skipped"}
            \/ a = "running" /\ s \in {"completed", "failed", "waiting_approval", "paused"}
            \/ a = "waiting_approval" /\ s \in {"pending", "completed", "failed"}
            \/ a = "paused" /\ s \in {"pending", "failed"}
  BY DEF NodeMoves, NodeStatus

\* A node's status is written, and nothing else of the graph.
LEMMA NodeStatusSet ==
  ASSUME NEW g, IsPlanGraph(g), NEW n \in NodesOf(g), NEW s \in NodeStatus
  PROVE  LET h == WithNodeStatus(g, n, s)
         IN  /\ IsPlanGraph(h) /\ NodesOf(h) = NodesOf(g) /\ h.deps = g.deps
             /\ h.status = [g.status EXCEPT ![n] = s]
<1> DEFINE h == WithNodeStatus(g, n, s)
<1>1. h.status = [g.status EXCEPT ![n] = s] /\ h.deps = g.deps /\ DOMAIN h = DOMAIN g
  BY DEF WithNodeStatus, IsPlanGraph
<1>2. NodesOf(h) = NodesOf(g)
  BY <1>1 DEF NodesOf
<1> HIDE DEF h
<1>3. IsPlanGraph(h)
  BY <1>1, <1>2 DEF IsPlanGraph
<1> QED
  BY <1>1, <1>2, <1>3 DEF h

Records == [by : Procs \cup Others, status : NodeStatus]

\* What a statement about a node makes of its row.
NodeSet(row, run, n, s, result, new) ==
  /\ RowTyped(new, run) /\ NodesOf(new.graph) = NodesOf(row.graph)
  /\ new.graph.status = [row.graph.status EXCEPT ![n] = s]
  /\ new.graph.deps = row.graph.deps
  /\ new.results = (IF result = None THEN row.results ELSE [row.results EXCEPT ![n] = result])
  /\ s = row.graph.status[n] /\ result = None => new = row
  /\ s # row.graph.status[n] \/ result # None => new.version = row.version + 1

\* A statement about a node writes its status and, if there is one, its result; it moves the
\* version if it writes.
LEMMA NodeMovedTyped ==
  ASSUME NEW row, RowOk(row), NEW run, RowTyped(row, run),
         NEW n \in NodesOf(row.graph), NEW s \in NodeStatus, NEW result \in {None} \cup Records,
         NEW new, new = NodeMoved(row, n, s, result)
  PROVE  NodeSet(row, run, n, s, result, new)
<1> DEFINE g == WithNodeStatus(row.graph, n, s)
           x == [row.results EXCEPT ![n] = IF result = None THEN @ ELSE result]
<1>1. /\ IsPlanGraph(row.graph) /\ row.results \in Results(row.graph)
      /\ row.graph.status \in [NodesOf(row.graph) -> NodeStatus]
  BY DEF RowTyped, IsPlanGraph
<1>2. /\ IsPlanGraph(g) /\ NodesOf(g) = NodesOf(row.graph) /\ g.deps = row.graph.deps
      /\ g.status = [row.graph.status EXCEPT ![n] = s]
  BY <1>1, NodeStatusSet
<1>3. x \in Results(row.graph) /\ (result = None => x = row.results)
  BY <1>1 DEF Results, Records
<1>4. CASE s = row.graph.status[n] /\ result = None
  <2>1. new = row
    BY <1>4 DEF NodeMoved
  <2>2. [row.graph.status EXCEPT ![n] = s] = row.graph.status
    BY <1>1, <1>4
  <2> QED
    BY <1>4, <2>1, <2>2 DEF NodeSet
<1>5. CASE ~(s = row.graph.status[n] /\ result = None)
  <2>1. new = [row EXCEPT !.graph = g, !.results = x, !.version = @ + 1]
    BY <1>5 DEF NodeMoved
  <2> HIDE DEF g
  <2>2. /\ new.graph = g /\ new.results = x /\ new.version = row.version + 1
        /\ new.status = row.status /\ new.owner = row.owner /\ new.live = row.live
    <3> HIDE DEF x
    <3> QED
      BY <2>1 DEF RowOk, RowFields
  <2>3. new.results = IF result = None THEN row.results ELSE [row.results EXCEPT ![n] = result]
    BY <1>3, <2>2
  <2>4. Results(new.graph) = Results(row.graph)
    BY <1>2, <2>2 DEF Results
  <2>5. RowTyped(new, run)
    BY <1>2, <1>3, <2>2, <2>4 DEF RowTyped
  <2> QED
    BY <1>2, <1>5, <2>2, <2>3, <2>5 DEF NodeSet
<1> QED
  BY <1>4, <1>5

\* What a statement about the lease leaves of a row.
SameNodes(old, new) ==
  new.graph = old.graph /\ new.results = old.results /\ new.status = old.status

\* The lease is written, and nothing of the nodes.
LEMMA LeaseTyped ==
  ASSUME NEW row, RowOk(row), NEW run, RowTyped(row, run), NEW p \in Procs
  PROVE  /\ SameNodes(row, Acquired(row, p)) /\ RowTyped(Acquired(row, p), run)
         /\ SameNodes(row, Beaten(row)) /\ RowTyped(Beaten(row), run)
         /\ SameNodes(row, Unleased(row)) /\ RowTyped(Unleased(row), run)
         /\ LET gone == [row EXCEPT !.owner = Gone]
            IN  SameNodes(row, gone) /\ RowTyped(gone, run)
                /\ gone.version = row.version /\ gone.owner = Gone
         /\ LET late == [row EXCEPT !.live = FALSE]
            IN  SameNodes(row, late) /\ RowTyped(late, run)
                /\ late.version = row.version /\ late.owner = row.owner
  BY DEF Acquired, Beaten, Unleased, SameNodes, RowOk, RowFields, RowTyped

\* A revision that is closed has its nodes as they were.
LEMMA ClosedTyped ==
  ASSUME NEW row, RowOk(row), NEW run, RowTyped(row, run), NEW s \in RevisionStatus
  PROVE  LET new == ClosedAs(row, s)
         IN  /\ new.graph = row.graph /\ new.results = row.results /\ RowTyped(new, run)
<1> DEFINE old == Unleased(row)
<1>1. RowOk(old) /\ old.status = row.status /\ old.version = row.version
  BY UnleasedRow
<1>2. old.graph = row.graph /\ old.results = row.results /\ RowTyped(old, run)
  BY DEF Unleased, RowOk, RowFields, RowTyped
<1> HIDE DEF old
<1>3. ClosedAs(row, s) = [old EXCEPT !.status = s, !.version = @ + 1]
  BY DEF ClosedAs, old
<1> QED
  BY <1>1, <1>2, <1>3 DEF RowOk, RowFields, RowTyped

\* A node that is handed back is pending.
LEMMA RewoundTyped ==
  ASSUME NEW row, RowOk(row), NEW run, RowTyped(row, run), NEW n \in NodesOf(row.graph)
  PROVE  LET new == Rewound(row, n)
             nrun == [run EXCEPT ![n] = None]
         IN  /\ RowTyped(new, nrun) /\ NodesOf(new.graph) = NodesOf(row.graph)
             /\ new.graph.status = [row.graph.status EXCEPT ![n] = "pending"]
             /\ new.graph.deps = row.graph.deps /\ new.results = row.results
<1> DEFINE old == Unleased(row)
           g == WithNodeStatus(row.graph, n, "pending")
           new == Rewound(row, n)
<1>1. RowOk(old) /\ old.status = row.status /\ old.version = row.version
  BY UnleasedRow
<1>2. old.graph = row.graph /\ old.results = row.results /\ RowTyped(old, run)
  BY DEF Unleased, RowOk, RowFields, RowTyped
<1>3. new = [old EXCEPT !.graph = WithNodeStatus(@, n, "pending"), !.version = @ + 1]
  BY DEF Rewound
<1> HIDE DEF old
<1>4. new = [old EXCEPT !.graph = g, !.version = @ + 1]
  BY <1>1, <1>2, <1>3 DEF RowOk, RowFields
<1>5. /\ IsPlanGraph(g) /\ NodesOf(g) = NodesOf(row.graph) /\ g.deps = row.graph.deps
      /\ g.status = [row.graph.status EXCEPT ![n] = "pending"]
  BY NodeStatusSet DEF RowTyped, NodeStatus
<1> HIDE DEF g, new
<1>6. /\ new.graph = g /\ new.results = old.results
      /\ new.status = old.status /\ new.owner = old.owner /\ new.live = old.live
  BY <1>1, <1>4 DEF RowOk, RowFields
<1>7. Results(new.graph) = Results(row.graph)
  BY <1>5, <1>6 DEF Results
<1>8. RowTyped(new, [run EXCEPT ![n] = None])
  BY <1>2, <1>5, <1>6, <1>7 DEF RowTyped
<1> QED
  BY <1>2, <1>5, <1>6, <1>8 DEF new

-----------------------------------------------------------------------------
(* A step of p, as the other processes see it. *)

\* The version moves with whatever of the graph does, and no node that another has begun
\* under its lease is handed back.
RowKept(p, old, new, orun, nrun) ==
  /\ NodesOf(new.graph) = NodesOf(old.graph)
  /\ new.version \in Nat /\ old.version <= new.version
  /\ new.version = old.version => new.graph = old.graph /\ nrun = orun
  /\ \A q \in Procs : q # p /\ new.owner = q =>
       /\ old.owner = q
       /\ \A n \in NodesOf(old.graph) :
            orun[n] = q /\ old.graph.status[n] \in Begun =>
              nrun[n] = q /\ new.graph.status[n] \in Begun

\* The nodes begun by a process are of its graph.
LEMMA BegunNodes ==
  ASSUME NEW l, NEW g, BatchOf(l, g)
  PROVE  BegunBy(l) \subseteq NodesOf(g)
  BY DEF BatchOf, BegunBy

\* What it has read of one row stays so.
LEMMA PlaceKept ==
  ASSUME NEW p, NEW q \in Procs, q # p, NEW l, NEW old, NEW new, NEW orun, NEW nrun,
         old.version \in Nat, PlaceOf(q, l, old, orun), RowKept(p, old, new, orun, nrun)
  PROVE  PlaceOf(q, l, new, nrun)
<1>1. BatchOf(l, new.graph)
  BY DEF PlaceOf, BatchOf, RowKept
<1>2. ASSUME Reads(l)
      PROVE  /\ l.version \in Nat /\ l.version <= new.version
             /\ l.version = new.version =>
                  l.version = old.version /\ new.graph = old.graph /\ nrun = orun
  BY <1>2 DEF PlaceOf, RowKept
<1>3. Reads(l) /\ l.version = new.version => SureOf(l, new.graph)
  BY <1>2 DEF PlaceOf
<1>4. RunsOf(q, l, new, nrun)
  <2> SUFFICES ASSUME new.owner = q \/ (Reads(l) /\ l.version = new.version),
                      NEW n \in BegunBy(l)
               PROVE  nrun[n] = q /\ new.graph.status[n] \in Begun
    BY DEF RunsOf
  <2>1. n \in NodesOf(old.graph)
    BY BegunNodes DEF PlaceOf
  <2>2. CASE new.owner = q
    <3>1. old.owner = q
      BY <2>2 DEF RowKept
    <3>2. orun[n] = q /\ old.graph.status[n] \in Begun
      BY <3>1 DEF PlaceOf, RunsOf
    <3> QED
      BY <2>1, <2>2, <3>2 DEF RowKept
  <2>3. CASE Reads(l) /\ l.version = new.version
    BY <1>2, <2>3 DEF PlaceOf, RunsOf
  <2> QED
    BY <2>2, <2>3
<1> QED
  BY <1>1, <1>2, <1>3, <1>4 DEF PlaceOf

\* A row that is left alone is kept.
LEMMA RowStays ==
  ASSUME NEW p, NEW row, NEW run, row.version \in Nat
  PROVE  RowKept(p, row, row, run, run)
  BY DEF RowKept

\* The process p goes on, or is done; the others are where they were.
PlacesMove(p) ==
  /\ DOMAIN local' = Procs
  /\ \A q \in Procs : q # p => local'[q] = local[q]
  /\ p \in Procs /\ local'[p].pc # "idle" =>
       PlaceOf(p, local'[p], revs'[local'[p].rev], runner'[local'[p].rev])

\* So it is enough to look at the rows, and at p.
LEMMA PlacesKept ==
  ASSUME Shape, PlanInv, Table', NEW p, PlacesMove(p),
         \A r \in DOMAIN revs : RowKept(p, revs[r], revs'[r], runner[r], runner'[r])
  PROVE  PlanInv'
<1> SUFFICES ASSUME NEW q \in Procs, local'[q].pc # "idle"
             PROVE  PlaceOf(q, local'[q], revs'[local'[q].rev], runner'[local'[q].rev])
  BY DEF PlanInv, Row
<1>1. CASE q = p
  BY <1>1 DEF PlacesMove
<1>2. CASE q # p
  <2>1. local'[q] = local[q] /\ local[q].pc # "idle"
    BY <1>2 DEF PlacesMove
  <2>2. local[q].rev \in DOMAIN revs
    BY <2>1 DEF Shape, KnownOf
  <2>3. revs[local[q].rev].version \in Nat
    BY <2>2 DEF Shape, RowOk
  <2>4. PlaceOf(q, local[q], revs[local[q].rev], runner[local[q].rev])
    BY <2>1 DEF PlanInv, Row
  <2>5. RowKept(p, revs[local[q].rev], revs'[local[q].rev],
                runner[local[q].rev], runner'[local[q].rev])
    BY <2>2
  <2> QED
    BY <1>2, <2>1, <2>3, <2>4, <2>5, PlaceKept
<1> QED
  BY <1>1, <1>2

\* One row is written, and with it who runs its nodes.
LEMMA RowPlaced ==
  ASSUME Shape, PlanInv, NEW p \in Procs, NEW l, Goto(p, l), NEW r \in DOMAIN revs,
         NEW new, NEW nrun, revs' = [revs EXCEPT ![r] = new],
         runner' = [runner EXCEPT ![r] = nrun],
         RowTyped(new, nrun), RowKept(p, revs[r], new, runner[r], nrun),
         new.status = "active" => revs[r].status = "active",
         l.pc # "idle" => l.rev = r /\ PlaceOf(p, l, new, nrun)
  PROVE  PlanInv'
<1>1. /\ DOMAIN revs' = DOMAIN revs /\ revs'[r] = new
      /\ \A t \in DOMAIN revs : t # r => revs'[t] = revs[t]
  OBVIOUS
<1>2. /\ DOMAIN runner' = DOMAIN runner /\ runner'[r] = nrun
      /\ \A t \in DOMAIN revs : t # r => runner'[t] = runner[t]
  BY DEF PlanInv, Table
<1>3. IsSeq(revs') /\ Len(revs') = Len(revs)
  BY <1>1, SameLength DEF Shape
<1>4. IsSeq(runner')
  BY <1>2, SameLength DEF PlanInv, Table
<1>5. \A t \in DOMAIN revs : RowTyped(revs'[t], runner'[t])
  BY <1>1, <1>2 DEF PlanInv, Table
<1>6. \A t \in DOMAIN revs' : revs'[t].status = "active" => t = Len(revs')
  BY <1>1, <1>3 DEF PlanInv, Table, ActiveRevs
<1>7. Table'
  BY <1>1, <1>2, <1>3, <1>4, <1>5, <1>6 DEF PlanInv, Table, ActiveRevs
<1>8. \A t \in DOMAIN revs : RowKept(p, revs[t], revs'[t], runner[t], runner'[t])
  BY <1>1, <1>2, RowStays DEF Shape, RowOk
<1>9. PlacesMove(p)
  <2>1. /\ DOMAIN local' = Procs /\ local'[p] = l
        /\ \A q \in Procs : q # p => local'[q] = local[q]
    BY Goes
  <2> QED
    BY <1>1, <1>2, <2>1 DEF PlacesMove
<1> QED
  BY <1>7, <1>8, <1>9, PlacesKept

\* The tables are left alone.
LEMMA Placed ==
  ASSUME Shape, PlanInv, NEW p \in Procs, NEW l, Goto(p, l), UNCHANGED <<revs, runner>>,
         l.pc # "idle" => PlaceOf(p, l, revs[l.rev], runner[l.rev])
  PROVE  PlanInv'
<1>1. Table'
  BY DEF PlanInv, Table, ActiveRevs
<1>2. \A t \in DOMAIN revs : RowKept(p, revs[t], revs'[t], runner[t], runner'[t])
  BY RowStays DEF Shape, RowOk
<1>3. PlacesMove(p)
  BY Goes DEF PlacesMove
<1> QED
  BY <1>1, <1>2, <1>3, PlacesKept

\* No runner changes.
LEMMA RunnerStays ==
  ASSUME PlanInv, NEW r \in DOMAIN revs
  PROVE  runner = [runner EXCEPT ![r] = runner[r]] /\ RowTyped(revs[r], runner[r])
<1>1. runner = [t \in DOMAIN runner |-> runner[t]]
  BY LenProperties DEF PlanInv, Table, IsSeq
<1> QED
  BY <1>1 DEF PlanInv, Table

-----------------------------------------------------------------------------
(* What a step does to the plan. *)

\* Nothing.
Quiet ==
  /\ DOMAIN revs' = DOMAIN revs
  /\ \A r \in DOMAIN revs : SameNodes(revs[r], revs'[r]) /\ revs'[r].version = revs[r].version

\* A process marks n, by the version of r that it has read.
MarkedOf(r, n) ==
  \E p \in Procs : /\ local[p].pc = "mark" /\ local[p].rev = r
                    /\ local[p].version = revs[r].version /\ n \in local[p].todo

\* The status of a node is written: it starts, ends, is handed back or skipped.
Moving(r, n, s, result) ==
  LET g == revs[r].graph
  IN  /\ r \in ActiveRevs /\ n \in NodesOf(g) /\ result \in {None} \cup Records
      /\ <<g.status[n], s>> \in NodeMoves
      /\ s = "running" => /\ n \in Ready(g)
                          /\ \A m \in NodesOf(g) :
                               g.status[m] \in {"pending", "running", "completed", "skipped"}
                          /\ MarkedOf(r, n)
      /\ s = "skipped" => n \in Blocked(g)
      /\ result # None =>
           result.by \in Others \/ result.status = "skipped" \/ runner[r][n] = result.by
      /\ revs' = [revs EXCEPT ![r] = NodeMoved(revs[r], n, s, result)]

\* An interrupted node is handed back.
Rewinding(r, n) ==
  /\ r \in ActiveRevs /\ n \in NodesOf(revs[r].graph)
  /\ revs[r].graph.status[n] = "running"
  /\ revs' = [revs EXCEPT ![r] = Rewound(revs[r], n)]

\* The revision is closed.
Closing(r, s) ==
  LET g == revs[r].graph
  IN  /\ r \in ActiveRevs /\ s \in {"completed", "failed"}
      /\ s = "completed" => \A n \in NodesOf(g) : g.status[n] = "completed"
      /\ s = "failed" => \E n \in NodesOf(g) : g.status[n] \in {"failed", "skipped", "paused"}
      /\ revs' = [revs EXCEPT ![r] = ClosedAs(revs[r], s)]

\* It is replaced.
Replanning(r, g) ==
  /\ r \in ActiveRevs /\ g \in Replans /\ IsPlanGraph(g) /\ CanReplan(revs[r], g)
  /\ revs' = Append([revs EXCEPT ![r] = ClosedAs(@, "superseded")], Successor(revs[r], g))

\* The first one is made.
Creating(g) ==
  revs = <<>> /\ g \in Plans /\ IsPlanGraph(g) /\ revs' = <<NewRevision(g, NoResults(g))>>

PlanStep ==
  \/ Quiet
  \/ \E r, n, s, result : Moving(r, n, s, result)
  \/ \E r, n : Rewinding(r, n)
  \/ \E r, s : Closing(r, s)
  \/ \E r, g : Replanning(r, g)
  \/ \E g : Creating(g)

\* The first of some nodes is one of them.
LEMMA FirstIsIn ==
  ASSUME NEW S \in SUBSET Nat, S # {}
  PROVE  First(S) \in S
<1>1. \E n \in S : \A m \in S : n <= m
  BY LeastNumber
<1> QED
  BY <1>1 DEF First

\* Who runs a node once p has written its status.
Marked(p, run, n, s) == IF s = "running" THEN [run EXCEPT ![n] = p] ELSE run

\* A status that is written leaves what others have begun, unless the node waits or is paused.
LEMMA NodeKept ==
  ASSUME NEW row, RowOk(row), NEW run, RowTyped(row, run), NEW n \in NodesOf(row.graph), NEW s,
         NEW result \in {None} \cup Records, <<row.graph.status[n], s>> \in NodeMoves,
         NEW p \in Procs, NEW nrun, nrun = Marked(p, run, n, s),
         s = "running" => row.graph.status[n] = "pending",
         s \in {"waiting_approval", "paused"} => run[n] = p,
         NEW new, new = NodeMoved(row, n, s, result)
  PROVE  RowKept(p, row, new, run, nrun) /\ RowTyped(new, nrun)
<1>0. s \in NodeStatus
  BY NodeMovesAre
<1>1. /\ row.graph.status[n] \in NodeStatus /\ s \in NodeStatus
      /\ row.graph.status[n] \in Begun => s = row.graph.status[n] \/ s \in Begun \/ run[n] = p
  BY NodeMovesAre DEF Begun
<1>2. NodeSet(row, run, n, s, result, new)
  BY <1>0, NodeMovedTyped, Zenon
<1>3. new.owner = row.owner
  BY NodeMovedRow
<1>4. /\ row.version \in Nat /\ run \in [NodesOf(row.graph) -> Procs \cup {None}]
      /\ row.graph.status \in [NodesOf(row.graph) -> NodeStatus]
      /\ nrun = (IF s = "running" THEN [run EXCEPT ![n] = p] ELSE run)
  BY DEF RowOk, RowTyped, IsPlanGraph, Marked
<1>5. RowTyped(new, nrun)
  BY <1>2, <1>4 DEF RowTyped, NodeSet
<1>6. /\ new.version \in Nat /\ row.version <= new.version
      /\ new.version = row.version => new.graph = row.graph /\ nrun = run
  BY <1>2, <1>4 DEF NodeSet
<1>7. ASSUME NEW q \in Procs, q # p, NEW m \in NodesOf(row.graph),
             run[m] = q, row.graph.status[m] \in Begun
      PROVE  nrun[m] = q /\ new.graph.status[m] \in Begun
  <2>1. CASE m = n
    BY <1>1, <1>2, <1>4, <1>7, <2>1 DEF Begun, NodeSet
  <2>2. CASE m # n
    BY <1>2, <1>4, <1>7, <2>2 DEF NodeSet
  <2> QED
    BY <2>1, <2>2
<1>8. RowKept(p, row, new, run, nrun)
  BY <1>2, <1>3, <1>6, <1>7 DEF RowKept, NodeSet
<1> QED
  BY <1>5, <1>8

\* The status of a node is written, with what its writer knows of it.
LEMMA NodeWritten ==
  ASSUME Shape, PlanInv, NEW p \in Procs, NEW k, Goto(p, k), NEW r, NEW n, NEW s, NEW result,
         Moving(r, n, s, result), runner' = [runner EXCEPT ![r] = Marked(p, runner[r], n, s)],
         s \in {"waiting_approval", "paused"} => runner[r][n] = p,
         k.pc # "idle" => k.rev = r /\ PlaceOf(p, k, NodeMoved(revs[r], n, s, result),
                                              Marked(p, runner[r], n, s))
  PROVE  PlanInv' /\ PlanStep
<1> DEFINE new == NodeMoved(revs[r], n, s, result)
           nrun == Marked(p, runner[r], n, s)
<1>1. /\ r \in DOMAIN revs /\ revs[r].status = "active" /\ RowOk(revs[r])
      /\ n \in NodesOf(revs[r].graph) /\ <<revs[r].graph.status[n], s>> \in NodeMoves
      /\ result \in {None} \cup Records /\ revs' = [revs EXCEPT ![r] = new]
  BY DEF ActiveRevs, Shape, Moving
<1>2. RowTyped(revs[r], runner[r])
  BY <1>1, RunnerStays
<1>3. s = "running" => revs[r].graph.status[n] = "pending"
  BY DEF Ready, With, Moving
<1>4. RowKept(p, revs[r], new, runner[r], nrun) /\ RowTyped(new, nrun)
  BY <1>1, <1>2, <1>3, NodeKept, Zenon
<1>5. PlanInv'
  <2> HIDE DEF new, nrun
  <2> QED
    BY <1>1, <1>4, RowPlaced DEF new, nrun
<1> QED
  BY <1>5 DEF PlanStep

\* Whoever neither marks nor records knows nothing that could be wrong.
LEMMA AtRest ==
  ASSUME NEW p, NEW l, l.pc \in {"looked", "loop", "release", "resuming"},
         l.pc = "loop" => l.end = None
  PROVE  \A row, run : PlaceOf(p, l, row, run)
  BY DEF PlaceOf, BatchOf, Reads, SureOf, RunsOf, BegunBy

\* A statement of p about the lease, which gives it to nobody else.
LeaseSet(p, old, run, new) ==
  /\ SameNodes(old, new) /\ RowTyped(new, run) /\ new.version = old.version
  /\ new.owner \in {p, None, old.owner}

\* It leaves the plan alone.
LEMMA LeaseWritten ==
  ASSUME Shape, PlanInv, NEW p \in Procs, NEW l, Goto(p, l), NEW r \in DOMAIN revs, NEW new,
         LeaseSet(p, revs[r], runner[r], new), revs' = [revs EXCEPT ![r] = new], UNCHANGED runner,
         l.pc # "idle" => l.rev = r /\ PlaceOf(p, l, new, runner[r])
  PROVE  PlanInv' /\ PlanStep
<1>1. runner' = [runner EXCEPT ![r] = runner[r]]
  BY RunnerStays
<1>2. RowKept(p, revs[r], new, runner[r], runner[r])
  BY ProcsAssumption DEF LeaseSet, RowKept, SameNodes, Shape, RowOk
<1>3. new.status = revs[r].status /\ RowTyped(new, runner[r])
  BY DEF LeaseSet, SameNodes
<1>4. PlanInv'
  BY <1>1, <1>2, <1>3, RowPlaced
<1>5. Quiet
  BY DEF Quiet, LeaseSet, SameNodes
<1> QED
  BY <1>4, <1>5 DEF PlanStep

\* Nothing is written.
LEMMA NothingWritten ==
  ASSUME Shape, PlanInv, NEW p \in Procs, NEW l, Goto(p, l), UNCHANGED <<revs, runner>>,
         l.pc # "idle" => PlaceOf(p, l, revs[l.rev], runner[l.rev])
  PROVE  PlanInv' /\ PlanStep
<1>1. PlanInv'
  BY Placed
<1>2. Quiet
  BY DEF Quiet, SameNodes
<1> QED
  BY <1>1, <1>2 DEF PlanStep

\* What a process that is not idle has of its row.
LEMMA OwnRow ==
  ASSUME Shape, PlanInv, NEW p \in Procs, local[p].pc # "idle"
  PROVE  /\ local[p].rev \in DOMAIN revs /\ RowOk(Row(p)) /\ Row(p) = revs[local[p].rev]
         /\ RowTyped(Row(p), runner[local[p].rev])
         /\ PlaceOf(p, local[p], Row(p), runner[local[p].rev])
         /\ IsPlanGraph(Row(p).graph) /\ NodesOf(Row(p).graph) \subseteq Nat
         /\ LocalFields \subseteq DOMAIN local[p]
<1>1. local[p].rev \in DOMAIN revs /\ LocalFields \subseteq DOMAIN local[p]
  BY DEF Shape, KnownOf
<1>2. RowOk(Row(p)) /\ RowTyped(Row(p), runner[local[p].rev])
  BY <1>1 DEF Row, Shape, PlanInv, Table
<1> QED
  BY <1>1, <1>2 DEF Row, PlanInv, RowTyped, IsPlanGraph

-----------------------------------------------------------------------------
(* The executor. *)

\* On to the finally of execute.
LEMMA LeavePlaced ==
  ASSUME Shape, PlanInv, NEW p \in Procs, local[p].pc # "idle", Leave(p)
  PROVE  PlanInv' /\ PlanStep
<1> DEFINE l == [local[p] EXCEPT !.pc = "release"]
<1>1. Goto(p, l) /\ UNCHANGED <<revs, runner>>
  BY DEF Leave, Step
<1>2. l.pc = "release"
  BY OwnRow DEF LocalFields
<1> HIDE DEF l
<1> QED
  BY <1>1, <1>2, AtRest, NothingWritten

\* A lease is taken.
LEMMA AcquirePlaced ==
  ASSUME Shape, PlanInv, NEW p \in Procs, Acquire(p)
  PROVE  PlanInv' /\ PlanStep
<1> DEFINE r == local[p].rev
           new == Acquired(revs[r], p)
           l == [local[p] EXCEPT !.pc = "loop", !.lease = Row(p).lease + 1, !.todo = {},
                                 !.end = None]
<1>1. local[p].pc = "looked" /\ Goto(p, l) /\ revs' = [revs EXCEPT ![r] = new] /\ UNCHANGED runner
  BY DEF Acquire, SetRow, At, Row
<1>2. r \in DOMAIN revs /\ RowOk(revs[r]) /\ RowTyped(revs[r], runner[r])
  BY <1>1, OwnRow
<1>3. l.pc = "loop" /\ l.rev = r /\ l.end = None
  BY <1>1, OwnRow DEF LocalFields
<1>4. LeaseSet(p, revs[r], runner[r], new)
  <2>1. SameNodes(revs[r], new) /\ RowTyped(new, runner[r])
    BY <1>2, LeaseTyped
  <2>2. new.owner = p /\ new.version = revs[r].version
    BY <1>2, AcquiredRow
  <2> QED
    BY <2>1, <2>2 DEF LeaseSet
<1> HIDE DEF l, new
<1>5. PlaceOf(p, l, new, runner[r])
  BY <1>3, AtRest
<1> QED
  BY <1>1, <1>2, <1>3, <1>4, <1>5, LeaseWritten

\* It is given back.
LEMMA ReleasePlaced ==
  ASSUME Shape, PlanInv, NEW p \in Procs, Release(p)
  PROVE  PlanInv' /\ PlanStep
<1> DEFINE r == local[p].rev
           new == Unleased(revs[r])
<1>1. /\ local[p].pc = "release" /\ Goto(p, Idle) /\ UNCHANGED runner /\ Idle.pc = "idle"
      /\ revs' = (IF CanRelease(Row(p), p, local[p].lease) THEN [revs EXCEPT ![r] = new] ELSE revs)
  BY DEF Release, At, Idle
<1>2. r \in DOMAIN revs /\ RowOk(revs[r]) /\ RowTyped(revs[r], runner[r])
  BY <1>1, OwnRow
<1>3. LeaseSet(p, revs[r], runner[r], new)
  BY <1>2, LeaseTyped, UnleasedRow DEF LeaseSet
<1> HIDE DEF new
<1>4. CASE revs' = [revs EXCEPT ![r] = new]
  BY <1>1, <1>2, <1>3, <1>4, LeaseWritten
<1>5. CASE revs' = revs
  BY <1>1, <1>5, NothingWritten
<1> QED
  BY <1>1, <1>4, <1>5

\* The heartbeat of who owns the lease, and what he goes on with.
LEMMA BeatPlaced ==
  ASSUME Shape, PlanInv, NEW p \in Procs, local[p].pc # "idle", NEW l, Goto(p, l),
         SetRow(p, Beaten(Row(p))), UNCHANGED runner, Row(p).owner = p,
         l.rev = local[p].rev,
         \A new : /\ new.graph = Row(p).graph /\ new.owner = p /\ new.version = Row(p).version
                  => PlaceOf(p, l, new, runner[l.rev])
  PROVE  PlanInv' /\ PlanStep
<1> DEFINE r == local[p].rev
           new == Beaten(revs[r])
<1>1. r \in DOMAIN revs /\ RowOk(revs[r]) /\ RowTyped(revs[r], runner[r]) /\ Row(p) = revs[r]
  BY OwnRow
<1>2. revs' = [revs EXCEPT ![r] = new]
  BY <1>1 DEF SetRow
<1>3. LeaseSet(p, revs[r], runner[r], new) /\ new.owner = p
  BY <1>1, LeaseTyped, BeatenRow DEF LeaseSet
<1> HIDE DEF new
<1>4. PlaceOf(p, l, new, runner[r])
  BY <1>1, <1>3 DEF LeaseSet, SameNodes
<1> QED
  BY <1>1, <1>2, <1>3, <1>4, LeaseWritten

\* The head of the loop: p goes on with l, and with the version it is given there.
LEMMA LoopPlaced ==
  ASSUME Shape, PlanInv, NEW p \in Procs, NEW l, Loop(p, l),
         LocalFields \subseteq DOMAIN l, l.rev = local[p].rev,
         \A k, new : /\ k.pc = l.pc /\ k.todo = l.todo /\ k.batch = l.batch /\ k.out = l.out
                     /\ k.end = l.end /\ k.version = Row(p).version
                     /\ new.graph = Row(p).graph /\ new.version = Row(p).version
                     => PlaceOf(p, k, new, runner[local[p].rev])
  PROVE  PlanInv' /\ PlanStep
<1> DEFINE k == [l EXCEPT !.version = Row(p).version]
<1>1. /\ SetRow(p, Beaten(Row(p))) /\ Goto(p, k) /\ UNCHANGED runner
      /\ local[p].pc # "idle" /\ Row(p).owner = p
  BY DEF Loop, Beats, At, CanBeat
<1>2. /\ k.pc = l.pc /\ k.todo = l.todo /\ k.batch = l.batch /\ k.out = l.out
      /\ k.end = l.end /\ k.version = Row(p).version /\ k.rev = local[p].rev
  BY DEF LocalFields
<1> HIDE DEF k
<1> QED
  BY <1>1, <1>2, BeatPlaced

\* A batch has a first node.
LEMMA BatchNotEmpty ==
  ASSUME NEW g, NodesOf(g) \subseteq Nat, NEW batch \in SUBSET Ready(g), Ready(g) # {},
         IsBatch(g, batch, Limit)
  PROVE  batch # {}
<1>1. Ready(g) \in SUBSET Nat
  BY DEF Ready, With
<1>2. PICK n \in Ready(g) : \A m \in Ready(g) : n <= m
  BY <1>1, LeastNumber
<1>3. {m \in batch : m < n} = {}
  BY <1>1, <1>2
<1>4. Cardinality({m \in batch : m < n}) < Limit
  BY <1>3, FS_EmptySet, LimitAssumption
<1>5. \A m \in {i \in batch : i < n} : ~ResourcesConflict(g, n, m)
  BY <1>3
<1> QED
  BY <1>2, <1>4, <1>5 DEF IsBatch

\* Nothing that stops the scheduler.
LEMMA GoesOn ==
  ASSUME NEW g, IsPlanGraph(g), ~Stops(g)
  PROVE  \A n \in NodesOf(g) : g.status[n] \in {"pending", "running", "completed", "skipped"}
  BY DEF IsPlanGraph, Stops, Unsettled, With, NodeStatus

\* Each turn of the loop.
LEMMA LoopsPlaced ==
  ASSUME Shape, PlanInv, NEW p \in Procs,
         StopAt(p) \/ StartBatch(p) \/ GiveUpBlocked(p) \/ Conclude(p)
  PROVE  PlanInv' /\ PlanStep
<1> DEFINE g == Row(p).graph
           run == runner[local[p].rev]
<1>1. local[p].pc = "loop" /\ Row(p).version \in Nat
  BY OwnRow DEF StopAt, StartBatch, GiveUpBlocked, Conclude, At, RowOk
<1>2. /\ IsPlanGraph(g) /\ NodesOf(g) \subseteq Nat /\ LocalFields \subseteq DOMAIN local[p]
      /\ local[p].end = None
  BY <1>1, OwnRow DEF PlaceOf, BatchOf
<1>3. CASE StopAt(p)
  <2> DEFINE l == [local[p] EXCEPT !.pc = "release"]
  <2>1. LocalFields \subseteq DOMAIN l /\ l.pc = "release" /\ l.rev = local[p].rev
    BY <1>2 DEF LocalFields
  <2>2. Loop(p, l)
    BY <1>3 DEF StopAt
  <2> HIDE DEF l
  <2> QED
    BY <2>1, <2>2, AtRest, LoopPlaced
<1>4. CASE StartBatch(p)
  <2>1. PICK batch \in SUBSET Ready(g) :
          /\ IsBatch(g, batch, Limit)
          /\ Loop(p, [local[p] EXCEPT !.pc = "mark", !.todo = batch, !.batch = batch])
    BY <1>4 DEF StartBatch
  <2> DEFINE l == [local[p] EXCEPT !.pc = "mark", !.todo = batch, !.batch = batch]
  <2>2. /\ LocalFields \subseteq DOMAIN l /\ l.pc = "mark" /\ l.rev = local[p].rev
        /\ l.todo = batch /\ l.batch = batch /\ l.end = None
    BY <1>2 DEF LocalFields
  <2>3. Loop(p, l) /\ ~Stops(g) /\ Ready(g) # {}
    BY <1>4, <2>1 DEF StartBatch
  <2>4. batch # {} /\ batch \subseteq NodesOf(g)
    BY <1>2, <2>1, <2>3, BatchNotEmpty DEF Ready, With
  <2>5. \A n \in NodesOf(g) : g.status[n] \in {"pending", "running", "completed", "skipped"}
    BY <1>2, <2>3, GoesOn
  <2> HIDE DEF l
  <2>6. ASSUME NEW k, NEW new, k.pc = "mark", k.todo = batch, k.batch = batch, k.end = None,
               k.version = Row(p).version, new.graph = g, new.version = Row(p).version
        PROVE  PlaceOf(p, k, new, run)
    BY <1>1, <2>1, <2>4, <2>5, <2>6 DEF PlaceOf, BatchOf, Reads, SureOf, RunsOf, BegunBy
  <2> QED
    BY <2>2, <2>3, <2>6, LoopPlaced
<1>5. CASE GiveUpBlocked(p)
  <2> DEFINE l == [local[p] EXCEPT !.pc = "skip", !.todo = Blocked(g), !.end = "failed"]
  <2>1. /\ LocalFields \subseteq DOMAIN l /\ l.pc = "skip" /\ l.rev = local[p].rev
        /\ l.todo = Blocked(g) /\ l.end = "failed"
    BY <1>2 DEF LocalFields
  <2>2. Loop(p, l) /\ Blocked(g) # {}
    BY <1>5 DEF GiveUpBlocked
  <2>3. \E n \in NodesOf(g) : g.status[n] \in {"failed", "skipped"}
    BY <2>2 DEF Blocked, With
  <2> HIDE DEF l
  <2>4. ASSUME NEW k, NEW new, k.pc = "skip", k.todo = Blocked(g), k.end = "failed",
               k.version = Row(p).version, new.graph = g, new.version = Row(p).version
        PROVE  PlaceOf(p, k, new, run)
    BY <1>1, <2>3, <2>4 DEF PlaceOf, BatchOf, Reads, SureOf, RunsOf, BegunBy
  <2> QED
    BY <2>1, <2>2, <2>4, LoopPlaced
<1>6. CASE Conclude(p)
  <2>1. CASE With(g, "pending") # {}
    <3> DEFINE l == [local[p] EXCEPT !.pc = "release"]
    <3>1. LocalFields \subseteq DOMAIN l /\ l.pc = "release" /\ l.rev = local[p].rev
      BY <1>2 DEF LocalFields
    <3>2. Loop(p, l)
      BY <1>6, <2>1 DEF Conclude
    <3> HIDE DEF l
    <3> QED
      BY <3>1, <3>2, AtRest, LoopPlaced
  <2>2. CASE With(g, "pending") = {}
    <3> DEFINE e == IF With(g, "skipped") # {} THEN "failed" ELSE "completed"
               l == [local[p] EXCEPT !.pc = "close", !.end = e]
    <3>1. LocalFields \subseteq DOMAIN l /\ l.pc = "close" /\ l.rev = local[p].rev /\ l.end = e
      BY <1>2 DEF LocalFields
    <3>2. Loop(p, l) /\ ~Stops(g)
      BY <1>6, <2>2 DEF Conclude
    <3>3. \A n \in NodesOf(g) : g.status[n] \in {"completed", "skipped"}
      BY <1>2, <2>2, <3>2, GoesOn DEF Stops, Unsettled, With
    <3>4. IF e = "completed" THEN \A n \in NodesOf(g) : g.status[n] = "completed"
          ELSE \E n \in NodesOf(g) : g.status[n] \in {"failed", "skipped"}
      BY <3>3 DEF With
    <3> HIDE DEF l, e
    <3>5. ASSUME NEW k, NEW new, k.pc = "close", k.end = e, k.version = Row(p).version,
                 new.graph = g, new.version = Row(p).version
          PROVE  PlaceOf(p, k, new, run)
      BY <1>1, <3>4, <3>5 DEF PlaceOf, BatchOf, Reads, SureOf, RunsOf, BegunBy
    <3> QED
      BY <3>1, <3>2, <3>5, LoopPlaced
  <2> QED
    BY <2>1, <2>2
<1> QED
  BY <1>3, <1>4, <1>5, <1>6

\* The heartbeat before a result: who owns the lease has run the nodes it is to record.
LEMMA ResultBeatPlaced ==
  ASSUME Shape, PlanInv, NEW p \in Procs, Beat(p)
  PROVE  PlanInv' /\ PlanStep
<1> DEFINE l == [local[p] EXCEPT !.pc = "write", !.version = Row(p).version]
           run == runner[local[p].rev]
<1>1. local[p].pc = "beat" /\ LocalFields \subseteq DOMAIN local[p] /\ Row(p).version \in Nat
  BY OwnRow DEF Beat, At, RowOk
<1>2. PlaceOf(p, local[p], Row(p), run)
  BY <1>1, OwnRow
<1>3. CASE Leave(p)
  BY <1>1, <1>3, LeavePlaced
<1>4. CASE ~Leave(p)
  <2>1. SetRow(p, Beaten(Row(p))) /\ Goto(p, l) /\ UNCHANGED runner /\ Row(p).owner = p
    BY <1>4 DEF Beat, CanBeat
  <2>2. /\ l.pc = "write" /\ l.rev = local[p].rev /\ l.version = Row(p).version
        /\ l.todo = local[p].todo /\ l.batch = local[p].batch /\ l.out = local[p].out
        /\ l.end = local[p].end
    BY <1>1 DEF LocalFields
  <2> HIDE DEF l
  <2>3. ASSUME NEW new, new.graph = Row(p).graph, new.owner = p, new.version = Row(p).version
        PROVE  PlaceOf(p, l, new, run)
    <3>1. BatchOf(l, new.graph)
      BY <1>1, <1>2, <2>2, <2>3 DEF PlaceOf, BatchOf
    <3>2. RunsOf(p, l, new, run)
      BY <1>1, <1>2, <2>1, <2>2, <2>3 DEF PlaceOf, RunsOf, BegunBy
    <3> QED
      BY <1>1, <2>2, <2>3, <3>1, <3>2 DEF PlaceOf, Reads, SureOf
  <2> QED
    BY <1>1, <2>1, <2>2, <2>3, BeatPlaced
<1> QED
  BY <1>3, <1>4

\* What p has written if its conditional write of a node went through.
Wrote(p, n, s, result, l) ==
  LET r == local[p].rev
      row == revs[r]
      k == local'[p]
  IN  /\ r \in ActiveRevs /\ local[p].version = row.version
      /\ <<row.graph.status[n], s>> \in NodeMoves
      /\ Goto(p, k) /\ k.rev = r /\ k.pc = l.pc /\ k.version = l.version + 1
      /\ k.todo = l.todo \ {n} /\ k.batch = l.batch /\ k.out = l.out /\ k.end = l.end
      /\ revs' = [revs EXCEPT ![r] = NodeMoved(row, n, s, result)]
      /\ runner' = [runner EXCEPT ![r] = Marked(p, runner[r], n, s)]

\* It goes through, or p leaves.
LEMMA MoveNodeIs ==
  ASSUME Shape, PlanInv, NEW p \in Procs, local[p].pc # "idle", NEW n, NEW s, NEW result, NEW l,
         MoveNode(p, n, s, result, l), LocalFields \subseteq DOMAIN l, l.rev = local[p].rev
  PROVE  Leave(p) \/ Wrote(p, n, s, result, l)
<1> SUFFICES ASSUME ~Leave(p) PROVE Wrote(p, n, s, result, l)
  OBVIOUS
<1> DEFINE r == local[p].rev
           k == [l EXCEPT !.version = @ + 1, !.todo = @ \ {n}]
<1>1. /\ CanMoveNode(Row(p), n, s, local[p].version)
      /\ SetRow(p, NodeMoved(Row(p), n, s, result)) /\ Goto(p, k)
      /\ runner' = IF s = "running" THEN [runner EXCEPT ![r][n] = p] ELSE runner
  BY DEF MoveNode
<1>2. r \in DOMAIN revs /\ Row(p) = revs[r]
  BY OwnRow
<1>3. /\ r \in ActiveRevs /\ local[p].version = revs[r].version
      /\ <<revs[r].graph.status[n], s>> \in NodeMoves
      /\ revs' = [revs EXCEPT ![r] = NodeMoved(revs[r], n, s, result)]
  BY <1>1, <1>2 DEF CanMoveNode, ActiveRevs, SetRow
<1>4. /\ k.rev = r /\ k.pc = l.pc /\ k.version = l.version + 1
      /\ k.todo = l.todo \ {n} /\ k.batch = l.batch /\ k.out = l.out /\ k.end = l.end
  BY DEF LocalFields
<1>5. local'[p] = k
  BY <1>1, Goes
<1>6. runner' = [runner EXCEPT ![r] = Marked(p, runner[r], n, s)]
  <2>1. CASE s = "running"
    BY <1>1, <2>1 DEF Marked
  <2>2. CASE s # "running"
    BY <1>1, <1>2, <2>2, RunnerStays DEF Marked
  <2> QED
    BY <2>1, <2>2
<1> HIDE DEF k
<1> QED
  BY <1>1, <1>3, <1>4, <1>5, <1>6 DEF Wrote

\* A node of the batch is marked: p runs it from now on.
LEMMA MarkPlaced ==
  ASSUME Shape, PlanInv, NEW p \in Procs, Mark(p)
  PROVE  PlanInv' /\ PlanStep
<1> DEFINE n == First(local[p].todo)
           l == [local[p] EXCEPT !.pc = IF local[p].todo = {n} THEN "run" ELSE "mark"]
           r == local[p].rev
           row == revs[r]
           g == row.graph
           new == NodeMoved(row, n, "running", None)
           nrun == [runner[r] EXCEPT ![n] = p]
           k == local'[p]
<1>1. local[p].pc = "mark" /\ MoveNode(p, n, "running", None, l)
  BY DEF Mark, At
<1>2. /\ r \in DOMAIN revs /\ RowOk(row) /\ RowTyped(row, runner[r])
      /\ PlaceOf(p, local[p], row, runner[r])
      /\ IsPlanGraph(g) /\ NodesOf(g) \subseteq Nat /\ LocalFields \subseteq DOMAIN local[p]
  BY <1>1, OwnRow
<1>3. /\ LocalFields \subseteq DOMAIN l /\ l.rev = r /\ l.version = local[p].version
      /\ l.pc = (IF local[p].todo = {n} THEN "run" ELSE "mark")
      /\ l.todo = local[p].todo /\ l.batch = local[p].batch /\ l.end = local[p].end
  BY <1>2 DEF LocalFields
<1>4. CASE Leave(p)
  BY <1>1, <1>4, LeavePlaced
<1>5. CASE Wrote(p, n, "running", None, l)
  <2>1. /\ local[p].todo # {} /\ local[p].todo \subseteq local[p].batch
        /\ local[p].batch \subseteq NodesOf(g) /\ local[p].end = None
    BY <1>1, <1>2 DEF PlaceOf, BatchOf
  <2>2. n \in local[p].todo
    BY <1>2, <2>1, FirstIsIn
  <2> HIDE DEF n
  <2>3. local[p].version = row.version
    BY <1>5 DEF Wrote
  <2>4. /\ local[p].todo \subseteq Ready(g)
        /\ \A m \in NodesOf(g) : g.status[m] \in {"pending", "running", "completed", "skipped"}
    BY <1>1, <1>2, <2>3 DEF PlaceOf, Reads, SureOf
  <2>5. n \in NodesOf(g) /\ g.status[n] = "pending" /\ "running" \in NodeStatus
    BY <2>2, <2>4 DEF Ready, With, NodeStatus
  <2>6. NodeSet(row, runner[r], n, "running", None, new)
    BY <1>2, <2>5, NodeMovedTyped, Zenon
  <2> HIDE DEF l, new, k
  <2>7. /\ k.rev = r /\ k.version = row.version + 1 /\ k.todo = local[p].todo \ {n}
        /\ k.pc = (IF local[p].todo = {n} THEN "run" ELSE "mark")
        /\ k.batch = local[p].batch /\ k.end = None
    BY <1>3, <1>5, <2>1, <2>3 DEF Wrote, k
  <2>8. /\ NodesOf(new.graph) = NodesOf(g) /\ new.graph.deps = g.deps
        /\ new.graph.status = [g.status EXCEPT ![n] = "running"]
        /\ new.version = row.version + 1 /\ new.version \in Nat
    BY <1>2, <2>5, <2>6 DEF NodeSet, RowOk
  <2>9. g.status \in [NodesOf(g) -> NodeStatus] /\ runner[r] \in [NodesOf(g) -> Procs \cup {None}]
    BY <1>2 DEF IsPlanGraph, RowTyped
  <2>10. BatchOf(k, new.graph)
    BY <2>1, <2>2, <2>7, <2>8 DEF BatchOf
  <2>11. SureOf(k, new.graph)
    <3>1. ASSUME NEW m \in local[p].todo, m # n PROVE m \in Ready(new.graph)
      BY <2>1, <2>4, <2>5, <2>8, <2>9, <3>1 DEF Ready, With
    <3>2. \A m \in NodesOf(new.graph) :
            new.graph.status[m] \in {"pending", "running", "completed", "skipped"}
      BY <2>4, <2>8, <2>9
    <3> QED
      BY <2>7, <3>1, <3>2 DEF SureOf
  <2>12. RunsOf(p, k, new, nrun)
    <3>1. BegunBy(k) \subseteq (local[p].batch \ local[p].todo) \cup {n}
      BY <2>7 DEF BegunBy
    <3>2. \A m \in local[p].batch \ local[p].todo : runner[r][m] = p /\ g.status[m] \in Begun
      BY <1>1, <1>2, <2>3 DEF PlaceOf, RunsOf, Reads, BegunBy
    <3>3. ASSUME NEW m \in BegunBy(k) PROVE nrun[m] = p /\ new.graph.status[m] \in Begun
      BY <2>1, <2>2, <2>5, <2>8, <2>9, <3>1, <3>2 DEF Begun
    <3> QED
      BY <3>3 DEF RunsOf
  <2>13. PlaceOf(p, k, new, nrun)
    BY <2>7, <2>8, <2>10, <2>11, <2>12 DEF PlaceOf
  <2>14. Goto(p, k) /\ runner' = [runner EXCEPT ![r] = nrun]
    BY <1>5 DEF Wrote, Marked, k
  <2>15. Moving(r, n, "running", None)
    <3>1. MarkedOf(r, n)
      BY <1>1, <2>2, <2>3 DEF MarkedOf
    <3> QED
      BY <1>5, <2>2, <2>4, <2>5, <3>1 DEF Wrote, Moving
  <2>16. nrun = Marked(p, runner[r], n, "running")
    BY DEF Marked
  <2> HIDE DEF nrun
  <2> QED
    BY <2>7, <2>13, <2>14, <2>15, <2>16, NodeWritten DEF new
<1> QED
  BY <1>1, <1>2, <1>3, <1>4, <1>5, MoveNodeIs

\* The batch is run.
LEMMA RunPlaced ==
  ASSUME Shape, PlanInv, NEW p \in Procs, NEW out \in [local[p].batch -> Outcome], Run(p, out)
  PROVE  PlanInv' /\ PlanStep
<1> DEFINE l == [local[p] EXCEPT !.pc = "beat", !.todo = local[p].batch, !.out = out]
           row == revs[local[p].rev]
           run == runner[local[p].rev]
<1>1. local[p].pc = "run" /\ Goto(p, l) /\ UNCHANGED <<revs, runner>>
  BY DEF Run, At
<1>2. PlaceOf(p, local[p], row, run) /\ LocalFields \subseteq DOMAIN local[p]
  BY <1>1, OwnRow
<1>3. /\ l.pc = "beat" /\ l.rev = local[p].rev /\ l.todo = local[p].batch
      /\ l.batch = local[p].batch /\ l.out = out /\ l.end = local[p].end
  BY <1>2 DEF LocalFields
<1> HIDE DEF l
<1>4. BatchOf(l, row.graph)
  BY <1>1, <1>2, <1>3 DEF PlaceOf, BatchOf
<1>5. RunsOf(p, l, row, run)
  BY <1>1, <1>2, <1>3 DEF PlaceOf, RunsOf, Reads, BegunBy
<1>6. PlaceOf(p, l, row, run)
  BY <1>3, <1>4, <1>5 DEF PlaceOf, Reads
<1> QED
  BY <1>1, <1>3, <1>6, NothingWritten

\* What came of a node is recorded: p has begun it, and nobody since.
LEMMA WritePlaced ==
  ASSUME Shape, PlanInv, NEW p \in Procs, Write(p)
  PROVE  PlanInv' /\ PlanStep
<1> DEFINE n == First(local[p].todo)
           s == local[p].out[n]
           pc == IF local[p].todo # {n} THEN "beat" ELSE AfterBatch(local[p].out)
           l == [local[p] EXCEPT !.pc = pc]
           r == local[p].rev
           row == revs[r]
           g == row.graph
           new == NodeMoved(row, n, s, Record(p, s))
           k == local'[p]
<1>1. local[p].pc = "write" /\ MoveNode(p, n, s, Record(p, s), l)
  BY DEF Write, At
<1>2. /\ r \in DOMAIN revs /\ RowOk(row) /\ RowTyped(row, runner[r])
      /\ PlaceOf(p, local[p], row, runner[r])
      /\ IsPlanGraph(g) /\ NodesOf(g) \subseteq Nat /\ LocalFields \subseteq DOMAIN local[p]
  BY <1>1, OwnRow
<1>3. /\ LocalFields \subseteq DOMAIN l /\ l.rev = r /\ l.version = local[p].version
      /\ l.pc = pc /\ l.out = local[p].out
      /\ l.todo = local[p].todo /\ l.batch = local[p].batch /\ l.end = local[p].end
  BY <1>2 DEF LocalFields
<1>4. CASE Leave(p)
  BY <1>1, <1>4, LeavePlaced
<1>5. CASE Wrote(p, n, s, Record(p, s), l)
  <2>1. /\ local[p].todo # {} /\ local[p].todo \subseteq local[p].batch
        /\ local[p].batch \subseteq NodesOf(g) /\ local[p].end = None
        /\ local[p].out \in [local[p].batch -> Outcome]
    BY <1>1, <1>2 DEF PlaceOf, BatchOf
  <2>2. n \in local[p].todo
    BY <1>2, <2>1, FirstIsIn
  <2>3. pc \in {"beat", "skip", "loop", "release"} /\ (pc = "beat" => local[p].todo # {n})
    BY DEF AfterBatch
  <2> HIDE DEF n, pc
  <2>4. s \in Outcome
    BY <2>1, <2>2
  <2> HIDE DEF s
  <2>5. /\ s \in NodeStatus /\ s \notin {"running", "skipped"} /\ n \in NodesOf(g)
        /\ Record(p, s) \in Records /\ Record(p, s) # None /\ Record(p, s).by = p
    BY <2>1, <2>2, <2>4, NothingAssumption DEF Outcome, NodeStatus, Record, Records
  <2>6. local[p].version = row.version
    BY <1>5 DEF Wrote
  <2>7. \A m \in local[p].todo : runner[r][m] = p /\ g.status[m] \in Begun
    BY <1>1, <1>2, <2>6 DEF PlaceOf, RunsOf, Reads, BegunBy
  <2>8. NodeSet(row, runner[r], n, s, Record(p, s), new)
    BY <1>2, <2>5, NodeMovedTyped, Zenon
  <2> HIDE DEF l, new, k
  <2>9. /\ k.rev = r /\ k.version = row.version + 1 /\ k.todo = local[p].todo \ {n}
        /\ k.pc = pc /\ k.batch = local[p].batch /\ k.end = None /\ k.out = local[p].out
    BY <1>3, <1>5, <2>1, <2>6 DEF Wrote, k
  <2>10. /\ NodesOf(new.graph) = NodesOf(g)
         /\ new.graph.status = [g.status EXCEPT ![n] = s]
         /\ new.version = row.version + 1 /\ new.version \in Nat
    BY <1>2, <2>5, <2>8 DEF NodeSet, RowOk
  <2>11. g.status \in [NodesOf(g) -> NodeStatus]
    BY <1>2 DEF IsPlanGraph
  <2>12. BatchOf(k, new.graph)
    BY <2>1, <2>2, <2>3, <2>9, <2>10 DEF BatchOf
  <2>13. SureOf(k, new.graph)
    BY <2>3, <2>9 DEF SureOf
  <2>14. RunsOf(p, k, new, runner[r])
    <3>1. BegunBy(k) \subseteq local[p].todo \ {n}
      BY <2>3, <2>9 DEF BegunBy
    <3>2. ASSUME NEW m \in BegunBy(k) PROVE runner[r][m] = p /\ new.graph.status[m] \in Begun
      BY <2>1, <2>7, <2>10, <2>11, <3>1
    <3> QED
      BY <3>2 DEF RunsOf
  <2>15. PlaceOf(p, k, new, runner[r])
    BY <2>9, <2>10, <2>12, <2>13, <2>14 DEF PlaceOf
  <2>16. Goto(p, k) /\ runner' = [runner EXCEPT ![r] = Marked(p, runner[r], n, s)]
    BY <1>5 DEF Wrote, k
  <2>17. runner[r][n] = p
    BY <2>2, <2>7
  <2>18. Moving(r, n, s, Record(p, s))
    BY <1>5, <2>5, <2>17 DEF Wrote, Moving
  <2>19. runner[r] = Marked(p, runner[r], n, s)
    BY <2>5 DEF Marked
  <2>20. k.rev = r /\ PlaceOf(p, k, NodeMoved(row, n, s, Record(p, s)), Marked(p, runner[r], n, s))
    BY <2>9, <2>15, <2>19 DEF new
  <2> QED
    BY <2>16, <2>17, <2>18, <2>20, NodeWritten, Zenon
<1> QED
  BY <1>1, <1>2, <1>3, <1>4, <1>5, MoveNodeIs

\* A node that can no longer become ready is skipped.
LEMMA SkipPlaced ==
  ASSUME Shape, PlanInv, NEW p \in Procs, Skip(p)
  PROVE  PlanInv' /\ PlanStep
<1> DEFINE nodes == ToSkip(p)
           n == First(nodes)
           r == local[p].rev
           row == revs[r]
           g == row.graph
           result == Record(p, "skipped")
           new == NodeMoved(row, n, "skipped", result)
           k == local'[p]
<1>1. local[p].pc = "skip"
  BY DEF Skip, At
<1>2. /\ r \in DOMAIN revs /\ RowOk(row) /\ RowTyped(row, runner[r]) /\ Row(p) = row
      /\ PlaceOf(p, local[p], row, runner[r])
      /\ IsPlanGraph(g) /\ NodesOf(g) \subseteq Nat /\ LocalFields \subseteq DOMAIN local[p]
  BY <1>1, OwnRow
<1>3. ASSUME local[p].version = row.version
      PROVE  nodes \subseteq Blocked(g)
  BY <1>1, <1>2, <1>3 DEF ToSkip, PlaceOf, Reads, SureOf
<1>4. CASE nodes # {} /\ Leave(p)
  BY <1>1, <1>4, LeavePlaced
<1>5. CASE nodes # {} /\ Wrote(p, n, "skipped", result, local[p])
  <2>1. local[p].version = row.version
    BY <1>5 DEF Wrote
  <2>2. nodes \subseteq Blocked(g) /\ nodes # {}
    BY <1>3, <1>5, <2>1
  <2>3. n \in nodes
    BY <1>2, <2>2, FirstIsIn DEF Blocked, With
  <2>4. n \in NodesOf(g) /\ g.status[n] = "pending" /\ n \in Blocked(g)
    BY <2>2, <2>3 DEF Blocked, With
  <2>5. local[p].end # None => local[p].todo \subseteq Blocked(g)
    BY <2>2 DEF ToSkip
  <2> HIDE DEF n
  <2>6. /\ "skipped" \in NodeStatus /\ result \in Records /\ result # None
        /\ result.status = "skipped"
    BY NothingAssumption DEF NodeStatus, Record, Records
  <2> HIDE DEF result
  <2>7. NodeSet(row, runner[r], n, "skipped", result, new)
    BY <1>2, <2>4, <2>6, NodeMovedTyped, Zenon
  <2> HIDE DEF new, k
  <2>8. /\ k.rev = r /\ k.version = row.version + 1 /\ k.todo = local[p].todo \ {n}
        /\ k.pc = "skip" /\ k.end = local[p].end
    BY <1>1, <1>5, <2>1 DEF Wrote, k
  <2>9. /\ NodesOf(new.graph) = NodesOf(g) /\ new.graph.deps = g.deps
        /\ new.graph.status = [g.status EXCEPT ![n] = "skipped"]
        /\ new.version = row.version + 1 /\ new.version \in Nat
    BY <1>2, <2>6, <2>7 DEF NodeSet, RowOk
  <2>10. g.status \in [NodesOf(g) -> NodeStatus]
    BY <1>2 DEF IsPlanGraph
  <2>11. SureOf(k, new.graph)
    <3>1. new.graph.status[n] = "skipped" /\ n \in NodesOf(new.graph)
      BY <2>4, <2>9, <2>10
    <3>2. With(g, "skipped") \subseteq With(new.graph, "skipped")
      BY <2>4, <2>9, <2>10 DEF With
    <3>3. With(g, "failed") \subseteq With(new.graph, "failed")
      BY <2>4, <2>9, <2>10 DEF With
    <3>4. ASSUME NEW m \in Blocked(g), m # n PROVE m \in Blocked(new.graph)
      <4>1. m \in With(new.graph, "pending")
        BY <2>4, <2>9, <2>10, <3>4 DEF Blocked, With
      <4> QED
        BY <2>9, <3>2, <3>3, <4>1 DEF Blocked
    <3> QED
      BY <2>5, <2>8, <3>1, <3>4 DEF SureOf
  <2>12. PlaceOf(p, k, new, runner[r])
    BY <2>8, <2>9, <2>11 DEF PlaceOf, BatchOf, RunsOf, BegunBy
  <2>13. Goto(p, k) /\ runner' = [runner EXCEPT ![r] = Marked(p, runner[r], n, "skipped")]
    BY <1>5 DEF Wrote, k
  <2>14. Moving(r, n, "skipped", result)
    BY <1>5, <2>4, <2>6 DEF Wrote, Moving
  <2>15. runner[r] = Marked(p, runner[r], n, "skipped")
    BY DEF Marked
  <2>16. /\ k.rev = r
         /\ PlaceOf(p, k, NodeMoved(row, n, "skipped", result), Marked(p, runner[r], n, "skipped"))
    BY <2>8, <2>12, <2>15 DEF new
  <2>17. "skipped" \notin {"waiting_approval", "paused"}
    OBVIOUS
  <2> QED
    BY <2>13, <2>14, <2>16, <2>17, NodeWritten, Zenon
<1>6. CASE nodes = {}
  <2> DEFINE pc == IF local[p].end = None THEN "release" ELSE "close"
             l == [local[p] EXCEPT !.pc = pc]
  <2>1. Goto(p, l) /\ UNCHANGED <<revs, runner>>
    BY <1>6 DEF Skip, Step
  <2>2. l.pc = pc /\ l.rev = r /\ l.version = local[p].version /\ l.end = local[p].end
    BY <1>2 DEF LocalFields
  <2> HIDE DEF l
  <2>3. CASE local[p].end = None
    BY <2>1, <2>2, <2>3, AtRest, NothingWritten
  <2>4. CASE local[p].end # None
    <3>1. local[p].end = "failed"
      BY <1>1, <2>4 DEF Shape, KnownOf
    <3>2. PlaceOf(p, l, row, runner[r])
      BY <1>1, <1>2, <2>2, <2>4, <3>1 DEF PlaceOf, BatchOf, Reads, SureOf, RunsOf, BegunBy
    <3> QED
      BY <2>1, <2>2, <3>2, NothingWritten
  <2> QED
    BY <2>3, <2>4
<1>7. CASE nodes # {} /\ MoveNode(p, n, "skipped", result, local[p])
  BY <1>1, <1>2, <1>4, <1>5, <1>7, MoveNodeIs
<1> QED
  BY <1>2, <1>6, <1>7 DEF Skip

\* The revision is closed, with the nodes its closer has seen.
LEMMA RowClosed ==
  ASSUME Shape, PlanInv, NEW p \in Procs, NEW k, Goto(p, k), NEW r, NEW s, Closing(r, s),
         UNCHANGED runner, k.pc # "idle" => k.rev = r /\ k.pc = "release"
  PROVE  PlanInv' /\ PlanStep
<1> DEFINE new == ClosedAs(revs[r], s)
<1>1. /\ r \in DOMAIN revs /\ RowOk(revs[r]) /\ revs[r].version \in Nat
      /\ revs' = [revs EXCEPT ![r] = new] /\ s \in RevisionStatus /\ s # "active"
  BY DEF Closing, ActiveRevs, Shape, RowOk, RevisionStatus
<1>2. RowTyped(revs[r], runner[r]) /\ runner' = [runner EXCEPT ![r] = runner[r]]
  BY <1>1, RunnerStays
<1>3. new.graph = revs[r].graph /\ RowTyped(new, runner[r])
  BY <1>1, <1>2, ClosedTyped
<1>4. /\ RowOk(new)
      /\ new.owner = None /\ new.lease = revs[r].lease + 1 /\ new.live = FALSE
      /\ new.status = s /\ new.version = revs[r].version + 1
  BY <1>1, ClosedRow
<1> HIDE DEF new
<1>5. RowKept(p, revs[r], new, runner[r], runner[r])
  BY <1>1, <1>3, <1>4, ProcsAssumption DEF RowKept
<1>6. k.pc # "idle" => k.rev = r /\ PlaceOf(p, k, new, runner[r])
  BY AtRest
<1>7. PlanInv'
  BY <1>1, <1>2, <1>3, <1>4, <1>5, <1>6, RowPlaced
<1> QED
  BY <1>7 DEF PlanStep

\* The executor closes it.
LEMMA ClosePlaced ==
  ASSUME Shape, PlanInv, NEW p \in Procs, Close(p)
  PROVE  PlanInv' /\ PlanStep
<1> DEFINE l == [local[p] EXCEPT !.pc = "release"]
           r == local[p].rev
<1>1. local[p].pc = "close"
  BY DEF Close, At
<1>2. /\ r \in DOMAIN revs /\ Row(p) = revs[r]
      /\ PlaceOf(p, local[p], revs[r], runner[r]) /\ LocalFields \subseteq DOMAIN local[p]
      /\ local[p].end \in {"failed", "completed"}
  BY <1>1, OwnRow DEF Shape, KnownOf
<1>3. CASE Leave(p)
  BY <1>1, <1>3, LeavePlaced
<1>4. CASE ~Leave(p)
  <2>1. /\ revs[r].status = "active" /\ revs[r].version = local[p].version /\ Goto(p, l)
        /\ revs' = [revs EXCEPT ![r] = ClosedAs(revs[r], local[p].end)] /\ UNCHANGED runner
    BY <1>2, <1>4 DEF Close, CanClose, SetRow, Step
  <2>2. SureOf(local[p], revs[r].graph)
    BY <1>1, <1>2, <2>1 DEF PlaceOf, Reads
  <2>3. Closing(r, local[p].end)
    BY <1>1, <1>2, <2>1, <2>2 DEF SureOf, Closing, ActiveRevs
  <2>4. l.pc = "release" /\ l.rev = r
    BY <1>2 DEF LocalFields
  <2> HIDE DEF l
  <2> QED
    BY <2>1, <2>3, <2>4, RowClosed
<1> QED
  BY <1>3, <1>4

\* Each step of the executor.
LEMMA ExecutingPlaced ==
  ASSUME Shape, PlanInv, NEW p \in Procs, Executing(p)
  PROVE  PlanInv' /\ PlanStep
<1>1. CASE LoseLease(p)
  BY <1>1, LeavePlaced DEF LoseLease, At
<1> QED
  BY <1>1, AcquirePlaced, LoopsPlaced, MarkPlaced, ResultBeatPlaced, WritePlaced, SkipPlaced,
     ClosePlaced, ReleasePlaced, RunPlaced DEF Executing

-----------------------------------------------------------------------------
(* The other processes. *)

\* A node of the row is settled, handed back or put back, and its server is done.
LEMMA NodeServed ==
  ASSUME Shape, PlanInv, NEW p \in Procs, local[p].pc # "idle", Goto(p, Idle), UNCHANGED runner,
         NEW n \in NodesOf(Row(p).graph), NEW s \in {"pending", "completed", "failed"},
         NEW result \in {None} \cup Records, result # None => result.by \in Others,
         NEW version, CanMoveNode(Row(p), n, s, version),
         SetRow(p, NodeMoved(Row(p), n, s, result))
  PROVE  PlanInv' /\ PlanStep
<1> DEFINE r == local[p].rev
<1>1. r \in DOMAIN revs /\ Row(p) = revs[r]
  BY OwnRow
<1>2. Moving(r, n, s, result)
  BY <1>1 DEF CanMoveNode, SetRow, Moving, ActiveRevs
<1>3. s \notin {"running", "waiting_approval", "paused"}
  OBVIOUS
<1>4. runner' = [runner EXCEPT ![r] = Marked(p, runner[r], n, s)]
  BY <1>1, <1>3, RunnerStays DEF Marked
<1>5. Idle.pc = "idle"
  BY DEF Idle
<1> HIDE DEF r
<1> QED
  BY <1>2, <1>3, <1>4, <1>5, NodeWritten

\* The turn of a node's user is over.
LEMMA SettlePlaced ==
  ASSUME Shape, PlanInv, NEW p \in Procs, NEW s \in {"completed", "failed"}, Settle(p, s)
  PROVE  PlanInv' /\ PlanStep
<1> DEFINE n == First(local[p].todo)
           result == Record("user", s)
<1>1. /\ local[p].pc = "answered" /\ Goto(p, Idle) /\ UNCHANGED runner
      /\ CanMoveNode(Row(p), n, s, Row(p).version)
      /\ SetRow(p, NodeMoved(Row(p), n, s, result))
  BY DEF Settle, At
<1>2. /\ NodesOf(Row(p).graph) \subseteq Nat
      /\ PlaceOf(p, local[p], Row(p), runner[local[p].rev])
  BY <1>1, OwnRow
<1>3. PICK m \in NodesOf(Row(p).graph) : local[p].todo = {m}
  BY <1>1, <1>2 DEF PlaceOf, BatchOf
<1>4. n \in NodesOf(Row(p).graph)
  BY <1>2, <1>3, FirstIsIn
<1>5. result \in Records /\ result.by \in Others /\ s \in {"pending", "completed", "failed"}
  BY DEF Record, Records, Others, NodeStatus
<1> HIDE DEF n, result
<1> QED
  BY <1>1, <1>4, <1>5, NodeServed

\* A node is put back, or taken as it is on record.
LEMMA ResumePlaced ==
  ASSUME Shape, PlanInv, NEW p \in Procs, Accept(p) \/ Requeue(p)
  PROVE  PlanInv' /\ PlanStep
<1> DEFINE result == Record("history", "completed")
<1>0. local[p].pc # "idle"
  BY DEF Accept, Requeue, Resuming, At
<1>1. result \in Records /\ result.by \in Others
  BY DEF Record, Records, Others, NodeStatus
<1> HIDE DEF result
<1>2. CASE Accept(p)
  <2>1. Resume(p, "completed", result)
    BY <1>2 DEF Accept, result
  <2> QED
    BY <1>0, <1>1, <2>1, NodeServed DEF Resume
<1>3. CASE Requeue(p)
  <2>1. Resume(p, "pending", None)
    BY <1>3 DEF Requeue
  <2> QED
    BY <1>0, <2>1, NodeServed DEF Resume
<1> QED
  BY <1>2, <1>3

\* So is one that waits, or is paused.
LEMMA UnparkPlaced ==
  ASSUME Shape, PlanInv, NEW p \in Procs, NEW n \in NodesOf(Row(p).graph), Unpark(p, n)
  PROVE  PlanInv' /\ PlanStep
<1>1. /\ local[p].pc # "idle" /\ Goto(p, Idle) /\ UNCHANGED runner
      /\ CanMoveNode(Row(p), n, "pending", local[p].version)
      /\ SetRow(p, NodeMoved(Row(p), n, "pending", None))
  BY DEF Unpark, At
<1> QED
  BY <1>1, NodeServed

\* A user begins to answer.
LEMMA AnswerPlaced ==
  ASSUME Shape, PlanInv, NEW p \in Procs, NEW n \in NodesOf(Row(p).graph), Answer(p, n)
  PROVE  PlanInv' /\ PlanStep
<1> DEFINE l == [local[p] EXCEPT !.pc = "answered", !.todo = {n}]
<1>1. local[p].pc # "idle" /\ Goto(p, l) /\ UNCHANGED <<revs, runner>>
  BY DEF Answer, At
<1>2. l.pc = "answered" /\ l.rev = local[p].rev /\ l.todo = {n} /\ Row(p) = revs[local[p].rev]
  BY <1>1, OwnRow DEF LocalFields
<1> HIDE DEF l
<1>3. PlaceOf(p, l, revs[l.rev], runner[l.rev])
  BY <1>2 DEF PlaceOf, BatchOf, Reads, RunsOf, BegunBy
<1> QED
  BY <1>1, <1>3, NothingWritten

\* A resume reads the row a second time.
LEMMA RereadPlaced ==
  ASSUME Shape, PlanInv, NEW p \in Procs, NEW r \in ActiveRevs, Reread(p, r)
  PROVE  PlanInv' /\ PlanStep
<1> DEFINE l == [local[p] EXCEPT !.pc = "resuming", !.rev = r, !.version = revs[r].version,
                                 !.free = ~revs[r].live]
<1>1. local[p].pc # "idle" /\ Goto(p, l) /\ UNCHANGED <<revs, runner>>
  BY DEF Reread, At
<1>2. l.pc = "resuming"
  BY <1>1, OwnRow DEF LocalFields
<1> HIDE DEF l
<1>3. PlaceOf(p, l, revs[l.rev], runner[l.rev])
  BY <1>2, AtRest
<1> QED
  BY <1>1, <1>3, NothingWritten

\* An interrupted node is handed back: nobody is its runner any more.
LEMMA RewindPlaced ==
  ASSUME Shape, PlanInv, NEW p \in Procs, Rewind(p)
  PROVE  PlanInv' /\ PlanStep
<1> DEFINE n == Halted(p)
           r == local[p].rev
           new == Rewound(revs[r], n)
           nrun == [runner[r] EXCEPT ![n] = None]
<1>1. local[p].pc # "idle"
  BY DEF Rewind, Resuming, At
<1>2. /\ r \in DOMAIN revs /\ Row(p) = revs[r] /\ RowOk(revs[r]) /\ RowTyped(revs[r], runner[r])
      /\ revs[r].version \in Nat
  BY <1>1, OwnRow DEF RowOk
<1>3. /\ revs[r].status = "active" /\ n \in NodesOf(revs[r].graph)
      /\ revs[r].graph.status[n] = "running" /\ Goto(p, Idle)
      /\ revs' = [revs EXCEPT ![r] = new] /\ runner' = [runner EXCEPT ![r] = nrun]
  BY <1>2 DEF Rewind, RewindTo, CanRewind, SetRow
<1>4. RowTyped(new, nrun) /\ NodesOf(new.graph) = NodesOf(revs[r].graph)
  BY <1>2, <1>3, RewoundTyped
<1>5. /\ RowOk(new)
      /\ new.owner = None /\ new.lease = revs[r].lease + 1 /\ new.live = FALSE
      /\ new.status = revs[r].status /\ new.version = revs[r].version + 1
  BY <1>2, RewoundRow
<1>6. Rewinding(r, n)
  BY <1>2, <1>3 DEF Rewinding, ActiveRevs
<1>7. Idle.pc = "idle"
  BY DEF Idle
<1> HIDE DEF new, nrun, n
<1>8. RowKept(p, revs[r], new, runner[r], nrun)
  BY <1>2, <1>4, <1>5, ProcsAssumption DEF RowKept
<1>9. PlanInv'
  BY <1>2, <1>3, <1>4, <1>5, <1>7, <1>8, RowPlaced
<1> QED
  BY <1>6, <1>9 DEF PlanStep

\* A revision with a failed or paused node is given up.
LEMMA FailRevisionPlaced ==
  ASSUME Shape, PlanInv, NEW p \in Procs, FailRevision(p)
  PROVE  PlanInv' /\ PlanStep
<1> DEFINE r == local[p].rev
<1>1. local[p].pc # "idle" /\ Goto(p, Idle) /\ UNCHANGED runner
  BY DEF FailRevision, At
<1>2. r \in DOMAIN revs /\ Row(p) = revs[r]
  BY <1>1, OwnRow
<1>3. \E n \in NodesOf(revs[r].graph) : revs[r].graph.status[n] \in {"failed", "skipped", "paused"}
  BY <1>2 DEF FailRevision, With
<1>4. Closing(r, "failed")
  BY <1>2, <1>3 DEF FailRevision, CanClose, SetRow, Closing, ActiveRevs
<1>5. Idle.pc = "idle"
  BY DEF Idle
<1> HIDE DEF r
<1> QED
  BY <1>1, <1>4, <1>5, RowClosed

\* new takes over from row: nodes that are completed stay as they are, with their results.
TakesOver(row, g, new) ==
  /\ new.status = "active" /\ NodesOf(new.graph) = NodesOf(g)
  /\ \A n \in NodesOf(g) \cap CompletedNodes(row) :
       /\ new.graph.status[n] = "completed" /\ new.graph.deps[n] = row.graph.deps[n]
       /\ new.results[n] = row.results[n]

\* So does the row that create_replan inserts.
LEMMA SuccessorTyped ==
  ASSUME NEW row, RowOk(row), NEW run, RowTyped(row, run), NEW g, IsPlanGraph(g)
  PROVE  LET new == Successor(row, g)
         IN  RowTyped(new, [n \in NodesOf(g) |-> None]) /\ TakesOver(row, g, new)
<1> DEFINE kept == CompletedNodes(row)
           h == Preserve(row, g)
           results == PreservedResults(row, g)
           new == Successor(row, g)
<1>1. /\ h.deps = [n \in NodesOf(g) |-> IF n \in kept THEN row.graph.deps[n] ELSE g.deps[n]]
      /\ h.status = [n \in NodesOf(g) |-> IF n \in kept THEN row.graph.status[n] ELSE g.status[n]]
      /\ DOMAIN h = {"kind", "deps", "claims", "status"}
  BY DEF Preserve
<1>2. results = [n \in NodesOf(g) |-> IF n \in NodesOf(row.graph) /\ h.status[n] = "completed"
                                      THEN row.results[n] ELSE None]
  BY DEF PreservedResults
<1>3. new.graph = h /\ new.results = results /\ new.status = "active"
      /\ new.owner = None /\ new.live = FALSE
  BY DEF Successor, NewRevision
<1>4. /\ row.graph.status \in [NodesOf(row.graph) -> NodeStatus]
      /\ g.status \in [NodesOf(g) -> NodeStatus] /\ NodesOf(g) \subseteq Nat
      /\ row.results \in [NodesOf(row.graph) -> {None} \cup Records]
  BY DEF RowTyped, IsPlanGraph, Results, Records
<1>5. \A n \in kept : n \in NodesOf(row.graph) /\ row.graph.status[n] = "completed"
  BY DEF CompletedNodes, With
<1> HIDE DEF h, results, new, kept
<1>6. NodesOf(h) = NodesOf(g)
  BY <1>1 DEF NodesOf
<1>7. IsPlanGraph(h)
  BY <1>1, <1>4, <1>5, <1>6 DEF IsPlanGraph
<1>8. results \in Results(h)
  BY <1>2, <1>4, <1>6 DEF Results, Records
<1>9. RowTyped(new, [n \in NodesOf(g) |-> None])
  BY <1>3, <1>6, <1>7, <1>8 DEF RowTyped, RevisionStatus
<1>10. ASSUME NEW n \in NodesOf(g) \cap kept
       PROVE  /\ new.graph.status[n] = "completed" /\ new.graph.deps[n] = row.graph.deps[n]
              /\ new.results[n] = row.results[n]
  BY <1>1, <1>2, <1>3, <1>5
<1> QED
  BY <1>3, <1>6, <1>9, <1>10 DEF TakesOver, new, kept

\* The plan is replaced.
LEMMA ReplanPlaced ==
  ASSUME Shape, PlanInv, NEW p \in Procs, NEW g \in Replans, Replan(p, g)
  PROVE  PlanInv' /\ PlanStep
<1> DEFINE r == local[p].rev
           closed == ClosedAs(revs[r], "superseded")
           table == [revs EXCEPT ![r] = closed]
           row == Successor(revs[r], g)
           run == [n \in NodesOf(g) |-> None]
<1>1. local[p].pc # "idle"
  BY DEF Replan, At
<1>2. /\ r \in DOMAIN revs /\ Row(p) = revs[r] /\ RowOk(revs[r]) /\ RowTyped(revs[r], runner[r])
      /\ revs[r].version \in Nat
  BY <1>1, OwnRow DEF RowOk
<1>3. /\ Goto(p, Idle) /\ revs' = Append(table, row) /\ runner' = Append(runner, run)
      /\ r = Len(revs) /\ Len(revs) < MaxRevisions /\ CanReplan(revs[r], g)
  BY <1>2 DEF Replan
<1>4. IsPlanGraph(g)
  BY PlansAssumption
<1>5. RowTyped(closed, runner[r]) /\ closed.graph = revs[r].graph
  BY <1>2, ClosedTyped DEF RevisionStatus
<1>6. /\ RowOk(closed)
      /\ closed.owner = None /\ closed.lease = revs[r].lease + 1 /\ closed.live = FALSE
      /\ closed.status = "superseded" /\ closed.version = revs[r].version + 1
  BY <1>2, ClosedRow
<1>7. RowTyped(row, run)
  BY <1>2, <1>4, SuccessorTyped
<1>8. Replanning(r, g)
  BY <1>2, <1>3, <1>4 DEF Replanning, CanReplan, ActiveRevs
<1> HIDE DEF closed, row, run
<1>9. /\ DOMAIN table = DOMAIN revs /\ table[r] = closed
      /\ \A t \in DOMAIN revs : t # r => table[t] = revs[t]
  BY <1>2
<1>10. IsSeq(table) /\ Len(table) = Len(revs)
  BY <1>9, SameLength DEF Shape
<1> HIDE DEF table
<1>11. /\ IsSeq(revs') /\ Len(revs') = Len(revs) + 1
       /\ DOMAIN revs' = DOMAIN revs \cup {Len(revs) + 1}
       /\ \A t \in DOMAIN revs : revs'[t] = table[t]
       /\ revs'[Len(revs) + 1] = row
  BY <1>3, <1>9, <1>10, OneMore
<1>12. /\ IsSeq(runner) /\ DOMAIN runner = DOMAIN revs /\ IsSeq(revs)
       /\ DOMAIN revs = 1 .. Len(revs) /\ DOMAIN runner = 1 .. Len(runner)
       /\ Len(revs) \in Nat /\ Len(runner) \in Nat
  BY Numbered DEF PlanInv, Table, Shape
<1>13. Len(runner) = Len(revs)
  BY <1>12
<1>14. /\ IsSeq(runner') /\ DOMAIN runner' = DOMAIN runner \cup {Len(revs) + 1}
       /\ \A t \in DOMAIN runner : runner'[t] = runner[t]
       /\ runner'[Len(revs) + 1] = run
  BY <1>3, <1>12, <1>13, OneMore
<1>15. Len(revs') <= MaxRevisions
  BY <1>3, <1>11, <1>12, BoundsAssumption
<1>16. \A t \in DOMAIN revs' : RowTyped(revs'[t], runner'[t])
  BY <1>5, <1>7, <1>9, <1>11, <1>12, <1>14 DEF PlanInv, Table
<1>17. \A t \in DOMAIN revs' : revs'[t].status = "active" => t = Len(revs')
  BY <1>3, <1>6, <1>9, <1>11 DEF PlanInv, Table, ActiveRevs
<1>18. Table'
  BY <1>11, <1>12, <1>14, <1>15, <1>16, <1>17 DEF Table, ActiveRevs
<1>19. ASSUME NEW t \in DOMAIN revs
       PROVE  RowKept(p, revs[t], revs'[t], runner[t], runner'[t])
  <2>1. CASE t = r
    <3>1. revs'[t] = closed /\ revs[t] = revs[r]
      BY <1>9, <1>11, <2>1
    <3>2. closed.version \in Nat /\ revs[r].version <= closed.version
          /\ closed.version # revs[r].version
      BY <1>2, <1>6
    <3>3. \A q \in Procs : closed.owner # q
      BY <1>6, ProcsAssumption
    <3> QED
      BY <1>5, <3>1, <3>2, <3>3 DEF RowKept
  <2>2. CASE t # r
    <3>1. revs'[t] = revs[t] /\ runner'[t] = runner[t] /\ revs[t].version \in Nat
      BY <1>9, <1>11, <1>12, <1>14, <2>2 DEF Shape, RowOk
    <3> QED
      BY <3>1, RowStays
  <2> QED
    BY <2>1, <2>2
<1>20. PlacesMove(p)
  BY <1>3, Goes DEF PlacesMove, Idle
<1>21. PlanInv'
  BY <1>18, <1>19, <1>20, PlacesKept
<1> QED
  BY <1>8, <1>21 DEF PlanStep

\* Each step of those who do not execute.
LEMMA ServingPlaced ==
  ASSUME Shape, PlanInv, NEW p \in Procs, Serving(p)
  PROVE  PlanInv' /\ PlanStep
<1>1. CASE GiveUp(p)
  BY <1>1, NothingWritten DEF GiveUp, Idle
<1>2. ASSUME NEW r \in DOMAIN revs, NEW n \in NodesOf(revs[r].graph), r = local[p].rev,
             Unpark(p, n) \/ Answer(p, n)
      PROVE  PlanInv' /\ PlanStep
  <2>1. n \in NodesOf(Row(p).graph)
    BY <1>2 DEF Row
  <2> QED
    BY <1>2, <2>1, UnparkPlaced, AnswerPlaced
<1> QED
  BY <1>1, <1>2, FailRevisionPlaced, SettlePlaced, ReplanPlaced, RereadPlaced, RewindPlaced,
     ResumePlaced DEF Serving

-----------------------------------------------------------------------------
\* The first revision has its nodes, and nobody has run them.
LEMMA CreatePlaced ==
  ASSUME Shape, PlanInv, NEW p \in Procs, NEW g \in Plans, Create(p, g)
  PROVE  PlanInv' /\ PlanStep
<1> DEFINE row == NewRevision(g, NoResults(g))
           run == [n \in NodesOf(g) |-> None]
<1>1. /\ revs = <<>> /\ revs' = <<row>> /\ runner' = <<run>> /\ UNCHANGED local
      /\ local[p].pc = "idle"
  BY DEF Create, At
<1>2. IsPlanGraph(g)
  BY PlansAssumption
<1>3. RowTyped(row, run)
  BY <1>2 DEF RowTyped, NewRevision, NoResults, Results, RevisionStatus
<1>4. Creating(g)
  BY <1>1, <1>2 DEF Creating
<1> HIDE DEF row, run
<1>5. DOMAIN revs = {} /\ Len(revs) = 0 /\ IsSeq(revs)
  BY <1>1 DEF Shape
<1>6. revs' = Append(revs, row) /\ runner' = Append(revs, run)
  BY <1>1
<1>7. IsSeq(revs') /\ Len(revs') = 1 /\ DOMAIN revs' = {1} /\ revs'[1] = row
  <2>1. /\ IsSeq(revs') /\ Len(revs') = Len(revs) + 1
        /\ DOMAIN revs' = DOMAIN revs \cup {Len(revs) + 1} /\ revs'[Len(revs) + 1] = row
    BY <1>5, <1>6, OneMore
  <2> QED
    BY <1>5, <2>1
<1>8. IsSeq(runner') /\ DOMAIN runner' = {1} /\ runner'[1] = run
  <2>1. /\ IsSeq(runner') /\ DOMAIN runner' = DOMAIN revs \cup {Len(revs) + 1}
        /\ runner'[Len(revs) + 1] = run
    BY <1>5, <1>6, OneMore
  <2> QED
    BY <1>5, <2>1
<1>9. Table'
  BY <1>3, <1>7, <1>8, BoundsAssumption DEF Table, ActiveRevs
<1>10. \A q \in Procs : local[q].pc = "idle"
  BY <1>5 DEF Shape, KnownOf
<1>11. PlanInv'
  BY <1>1, <1>9, <1>10 DEF PlanInv
<1> QED
  BY <1>4, <1>11 DEF PlanStep

\* Who looks knows nothing that could be wrong.
LEMMA LookPlaced ==
  ASSUME Shape, PlanInv, NEW p \in Procs, NEW r \in ActiveRevs, Look(p, r)
  PROVE  PlanInv' /\ PlanStep
<1> DEFINE todo == Unsettled(revs[r].graph)
           end == Halt(revs[r].graph)
           free == LeaseFree(revs[r], p)
           l == [Idle EXCEPT !.pc = "looked", !.rev = r, !.version = revs[r].version,
                             !.lease = revs[r].lease, !.free = free, !.todo = todo, !.end = end]
<1>1. Goto(p, l) /\ UNCHANGED <<revs, runner>>
  BY DEF Look
<1> HIDE DEF todo, end, free
<1>2. l.pc = "looked"
  BY DEF Idle
<1> HIDE DEF l
<1>3. PlaceOf(p, l, revs[l.rev], runner[l.rev])
  BY <1>2, AtRest
<1> QED
  BY <1>1, <1>3, NothingWritten

\* The end of a lease is nothing to the plan.
LEMMA LapsePlaced ==
  ASSUME Shape, PlanInv, NEW r \in DOMAIN revs, Lapse(r)
  PROVE  PlanInv' /\ PlanStep
<1> DEFINE new == [revs[r] EXCEPT !.live = FALSE]
<1>1. revs' = [revs EXCEPT ![r] = new] /\ UNCHANGED <<local, runner>>
  BY DEF Lapse
<1>2. RowOk(revs[r]) /\ RowTyped(revs[r], runner[r])
  BY RunnerStays DEF Shape
<1>3. /\ SameNodes(revs[r], new) /\ RowTyped(new, runner[r])
      /\ new.version = revs[r].version /\ new.owner = revs[r].owner
  BY <1>2 DEF SameNodes, RowTyped, RowOk, RowFields
<1> HIDE DEF new
<1>4. /\ DOMAIN revs' = DOMAIN revs /\ revs'[r] = new
      /\ \A t \in DOMAIN revs : t # r => revs'[t] = revs[t]
  BY <1>1
<1>5. IsSeq(revs') /\ Len(revs') = Len(revs)
  BY <1>1, <1>4, SameLength DEF Shape
<1>6. Table'
  BY <1>1, <1>3, <1>4, <1>5 DEF PlanInv, Table, ActiveRevs, SameNodes
<1>7. \A t \in DOMAIN revs : RowKept(None, revs[t], revs'[t], runner[t], runner'[t])
  BY <1>1, <1>3, <1>4 DEF RowKept, SameNodes, Shape, RowOk
<1>8. PlacesMove(None)
  BY <1>1, ProcsAssumption DEF PlacesMove, Shape
<1>9. PlanInv'
  BY <1>6, <1>7, <1>8, PlacesKept
<1>10. Quiet
  BY <1>3, <1>4 DEF Quiet, SameNodes
<1> QED
  BY <1>9, <1>10 DEF PlanStep

\* Nor is the end of a process.
LEMMA CrashPlaced ==
  ASSUME Shape, PlanInv, NEW p \in Procs, Crash(p)
  PROVE  PlanInv' /\ PlanStep
<1>1. /\ Goto(p, Idle) /\ UNCHANGED runner /\ Idle.pc = "idle"
      /\ revs' = [r \in DOMAIN revs |->
                    IF revs[r].owner = p THEN [revs[r] EXCEPT !.owner = Gone] ELSE revs[r]]
  BY DEF Crash, Idle
<1>2. DOMAIN revs' = DOMAIN revs /\ IsSeq(revs') /\ Len(revs') = Len(revs)
  BY <1>1, SameLength DEF Shape
<1>3. ASSUME NEW r \in DOMAIN revs
      PROVE  /\ SameNodes(revs[r], revs'[r]) /\ RowTyped(revs'[r], runner[r])
             /\ revs'[r].version = revs[r].version /\ revs[r].version \in Nat
             /\ revs'[r].owner \in {Gone, revs[r].owner}
  <2>1. RowOk(revs[r]) /\ RowTyped(revs[r], runner[r]) /\ revs[r].version \in Nat
    BY RunnerStays DEF Shape, RowOk
  <2>2. CASE revs[r].owner = p
    <3> DEFINE new == [revs[r] EXCEPT !.owner = Gone]
    <3>1. /\ SameNodes(revs[r], new) /\ RowTyped(new, runner[r])
          /\ new.version = revs[r].version /\ new.owner = Gone
      BY <2>1 DEF SameNodes, RowTyped, RowOk, RowFields
    <3>2. revs'[r] = new
      BY <1>1, <2>2
    <3> HIDE DEF new
    <3> QED
      BY <2>1, <3>1, <3>2
  <2>3. CASE revs[r].owner # p
    BY <1>1, <2>1, <2>3 DEF SameNodes
  <2> QED
    BY <2>2, <2>3
<1>4. Table'
  BY <1>1, <1>2, <1>3 DEF PlanInv, Table, ActiveRevs, SameNodes
<1>5. ASSUME NEW r \in DOMAIN revs
      PROVE  RowKept(p, revs[r], revs'[r], runner[r], runner'[r])
  <2>1. /\ SameNodes(revs[r], revs'[r]) /\ revs'[r].version = revs[r].version
        /\ revs[r].version \in Nat /\ revs'[r].owner \in {Gone, revs[r].owner}
    BY <1>3
  <2> QED
    BY <1>1, <2>1, ProcsAssumption DEF RowKept, SameNodes
<1>6. PlacesMove(p)
  BY <1>1, Goes DEF PlacesMove
<1>7. PlanInv'
  BY <1>4, <1>5, <1>6, PlacesKept
<1>8. Quiet
  BY <1>2, <1>3 DEF Quiet
<1> QED
  BY <1>7, <1>8 DEF PlanStep

\* Each step keeps what is known, and does to the plan one of the things it may do.
LEMMA PlanNext == Shape /\ PlanInv /\ [Next]_vars => PlanInv' /\ PlanStep
<1> SUFFICES ASSUME Shape, PlanInv, [Next]_vars PROVE PlanInv' /\ PlanStep
  OBVIOUS
<1>1. CASE UNCHANGED vars
  BY <1>1 DEF vars, PlanInv, Table, ActiveRevs, Row, PlanStep, Quiet, SameNodes
<1>2. CASE Next
  BY <1>2, LapsePlaced, CrashPlaced, CreatePlaced, LookPlaced, ExecutingPlaced, ServingPlaced
     DEF Next, Work
<1> QED
  BY <1>1, <1>2

\* There is no plan yet.
LEMMA PlanInit == Init => PlanInv
<1> SUFFICES ASSUME Init PROVE PlanInv
  OBVIOUS
<1>1. Shape
  BY ExecInit DEF ExecInv
<1>2. revs = <<>> /\ runner = <<>> /\ IsSeq(runner)
  BY <1>1 DEF Init, Shape
<1>3. DOMAIN revs = {} /\ DOMAIN runner = {} /\ Len(revs) = 0
  BY <1>2
<1>4. Table
  BY <1>2, <1>3, BoundsAssumption DEF Table, ActiveRevs
<1>5. \A p \in Procs : local[p].pc = "idle"
  BY DEF Init, Idle
<1> QED
  BY <1>4, <1>5 DEF PlanInv

\* The invariant, and the steps it allows.
LEMMA PlanKept == Spec => [](Shape /\ PlanInv) /\ [][PlanStep]_vars
<1>1. ExecInv => Shape
  BY DEF ExecInv
<1> QED
  BY ExecInit, ExecStep, PlanInit, PlanNext, <1>1, PTL DEF Spec

\* The tables and the processes are of their types, whatever the graphs, the commands and the
\* deaths (TypeOK).
THEOREM TypeCorrect == Spec => []TypeOK
<1>1. Shape /\ PlanInv => TypeOK
  <2> SUFFICES ASSUME Shape, PlanInv PROVE TypeOK
    OBVIOUS
  <2>1. \A r \in DOMAIN revs :
          /\ revs[r].status \in RevisionStatus
          /\ revs[r].graph.status \in [NodesOf(revs[r].graph) -> NodeStatus]
          /\ revs[r].results \in Results(revs[r].graph)
          /\ revs[r].owner \in Procs \cup {None, Gone} /\ revs[r].live \in BOOLEAN
          /\ runner[r] \in [NodesOf(revs[r].graph) -> Procs \cup {None}]
    BY DEF PlanInv, Table, RowTyped, IsPlanGraph
  <2>2. Len(revs) <= MaxRevisions /\ DOMAIN runner = DOMAIN revs
    BY DEF PlanInv, Table
  <2>3. \A p \in Procs : local[p].rev \in {0} \cup DOMAIN revs
    BY DEF Shape, KnownOf
  <2> QED
    BY <2>1, <2>2, <2>3 DEF TypeOK
<1> QED
  BY <1>1, PlanKept, PTL

-----------------------------------------------------------------------------
(* Results. *)

\* As many revisions as before.
LEMMA SameRevs ==
  ASSUME Shape, Shape', DOMAIN revs' = DOMAIN revs
  PROVE  Len(revs') = Len(revs)
<1>1. DOMAIN revs = 1 .. Len(revs) /\ Len(revs) \in Nat
  BY Numbered DEF Shape
<1>2. DOMAIN revs' = 1 .. Len(revs') /\ Len(revs') \in Nat
  BY Numbered DEF Shape
<1> QED
  BY <1>1, <1>2

\* The row that a statement about a node leaves.
LEMMA MovingRow ==
  ASSUME Shape, PlanInv, NEW r, NEW n, NEW s, NEW result, Moving(r, n, s, result)
  PROVE  /\ NodeSet(revs[r], runner[r], n, s, result, revs'[r])
         /\ r \in DOMAIN revs /\ DOMAIN revs' = DOMAIN revs
         /\ \A t \in DOMAIN revs : t # r => revs'[t] = revs[t]
         /\ revs[r].graph.status \in [NodesOf(revs[r].graph) -> NodeStatus]
         /\ revs[r].results \in [NodesOf(revs[r].graph) -> {None} \cup Records]
<1> DEFINE new == NodeMoved(revs[r], n, s, result)
<1>1. /\ r \in DOMAIN revs /\ RowOk(revs[r]) /\ revs' = [revs EXCEPT ![r] = new]
      /\ n \in NodesOf(revs[r].graph) /\ result \in {None} \cup Records /\ s \in NodeStatus
  BY NodeMovesAre DEF Moving, ActiveRevs, Shape
<1>2. RowTyped(revs[r], runner[r])
  BY <1>1, RunnerStays
<1>3. NodeSet(revs[r], runner[r], n, s, result, new)
  BY <1>1, <1>2, NodeMovedTyped, Zenon
<1> HIDE DEF new
<1> QED
  BY <1>1, <1>2, <1>3 DEF RowTyped, IsPlanGraph, Results, Records

\* The row that a rewind leaves.
LEMMA RewindingRow ==
  ASSUME Shape, PlanInv, NEW r, NEW n, Rewinding(r, n)
  PROVE  /\ r \in DOMAIN revs /\ DOMAIN revs' = DOMAIN revs
         /\ \A t \in DOMAIN revs : t # r => revs'[t] = revs[t]
         /\ NodesOf(revs'[r].graph) = NodesOf(revs[r].graph)
         /\ revs'[r].graph.status = [revs[r].graph.status EXCEPT ![n] = "pending"]
         /\ revs'[r].graph.deps = revs[r].graph.deps /\ revs'[r].results = revs[r].results
         /\ revs'[r].status = revs[r].status
         /\ revs[r].graph.status \in [NodesOf(revs[r].graph) -> NodeStatus]
<1> DEFINE new == Rewound(revs[r], n)
<1>1. /\ r \in DOMAIN revs /\ RowOk(revs[r]) /\ revs' = [revs EXCEPT ![r] = new]
      /\ n \in NodesOf(revs[r].graph)
  BY DEF Rewinding, ActiveRevs, Shape
<1>2. RowTyped(revs[r], runner[r])
  BY <1>1, RunnerStays
<1>3. /\ NodesOf(new.graph) = NodesOf(revs[r].graph)
      /\ new.graph.status = [revs[r].graph.status EXCEPT ![n] = "pending"]
      /\ new.graph.deps = revs[r].graph.deps /\ new.results = revs[r].results
  BY <1>1, <1>2, RewoundTyped
<1>4. /\ RowOk(new)
      /\ new.owner = None /\ new.lease = revs[r].lease + 1 /\ new.live = FALSE
      /\ new.status = revs[r].status /\ new.version = revs[r].version + 1
  BY <1>1, RewoundRow
<1> HIDE DEF new
<1> QED
  BY <1>1, <1>2, <1>3, <1>4 DEF RowTyped, IsPlanGraph

\* The row that the end of a revision leaves.
LEMMA ClosingRow ==
  ASSUME Shape, PlanInv, NEW r \in DOMAIN revs, NEW s \in RevisionStatus,
         NEW new, new = ClosedAs(revs[r], s)
  PROVE  new.graph = revs[r].graph /\ new.results = revs[r].results /\ new.status = s
<1>1. RowOk(revs[r])
  BY DEF Shape
<1>2. RowTyped(revs[r], runner[r])
  BY RunnerStays
<1>3. ClosedAs(revs[r], s).graph = revs[r].graph /\ ClosedAs(revs[r], s).results = revs[r].results
  BY <1>1, <1>2, ClosedTyped
<1>4. LET row == ClosedAs(revs[r], s)
      IN  /\ RowOk(row)
          /\ row.owner = None /\ row.lease = revs[r].lease + 1 /\ row.live = FALSE
          /\ row.status = s /\ row.version = revs[r].version + 1
  BY <1>1, ClosedRow
<1> QED
  BY <1>3, <1>4

\* The tables that a replan leaves.
LEMMA ReplanningRows ==
  ASSUME Shape, PlanInv, NEW r, NEW g, Replanning(r, g)
  PROVE  LET new == revs'[Len(revs')]
         IN  /\ r \in DOMAIN revs /\ r = Len(revs) /\ Len(revs') = Len(revs) + 1
             /\ IsSeq(revs') /\ DOMAIN revs' = DOMAIN revs \cup {Len(revs) + 1}
             /\ \A t \in DOMAIN revs : t # r => revs'[t] = revs[t]
             /\ revs'[r].graph = revs[r].graph /\ revs'[r].results = revs[r].results
             /\ revs'[r].status = "superseded" /\ new.status = "active"
             /\ \A n \in CompletedNodes(revs[r]) :
                  /\ n \in CompletedNodes(new) /\ new.graph.deps[n] = revs[r].graph.deps[n]
                  /\ new.results[n] = revs[r].results[n]
<1> DEFINE closed == ClosedAs(revs[r], "superseded")
           table == [revs EXCEPT ![r] = closed]
           row == Successor(revs[r], g)
<1>1. /\ r \in DOMAIN revs /\ r = Len(revs) /\ IsPlanGraph(g) /\ CanReplan(revs[r], g)
      /\ revs' = Append(table, row)
  BY DEF Replanning, ActiveRevs, PlanInv, Table
<1>2. RowOk(revs[r]) /\ RowTyped(revs[r], runner[r])
  BY <1>1, RunnerStays DEF Shape
<1>3. /\ closed.graph = revs[r].graph /\ closed.results = revs[r].results
      /\ closed.status = "superseded"
  BY <1>1, ClosingRow DEF RevisionStatus
<1>4. TakesOver(revs[r], g, row)
  BY <1>1, <1>2, SuccessorTyped
<1> HIDE DEF closed, row
<1>5. /\ row.status = "active"
      /\ \A n \in CompletedNodes(revs[r]) :
           /\ n \in CompletedNodes(row) /\ row.graph.deps[n] = revs[r].graph.deps[n]
           /\ row.results[n] = revs[r].results[n]
  BY <1>1, <1>4 DEF TakesOver, CanReplan, CompletedNodes, With
<1>6. /\ DOMAIN table = DOMAIN revs /\ table[r] = closed
      /\ \A t \in DOMAIN revs : t # r => table[t] = revs[t]
  BY <1>1
<1>7. IsSeq(table) /\ Len(table) = Len(revs)
  BY <1>6, SameLength DEF Shape
<1> HIDE DEF table
<1>8. /\ IsSeq(revs') /\ Len(revs') = Len(revs) + 1
      /\ DOMAIN revs' = DOMAIN revs \cup {Len(revs) + 1}
      /\ \A t \in DOMAIN revs : revs'[t] = table[t]
      /\ revs'[Len(revs) + 1] = row
  BY <1>1, <1>6, <1>7, OneMore
<1> QED
  BY <1>1, <1>3, <1>4, <1>5, <1>6, <1>8

\* What an executor records of a node is what came of its own run of it, whoever handed the
\* node to another meanwhile (FencedResult): no lease need be in order for that.
THEOREM ResultsAreFenced == Spec => FencedResult
<1>1. ASSUME Shape, PlanInv, PlanStep, NEW p \in Procs, NEW r \in DOMAIN revs,
             NEW n \in NodesOf(revs[r].graph), revs'[r].results[n] # revs[r].results[n],
             revs'[r].results[n].by = p, revs'[r].results[n].status # "skipped"
      PROVE  runner[r][n] = p
  <2>1. ~Quiet
    BY <1>1 DEF Quiet, SameNodes
  <2>2. ASSUME NEW t, NEW m, NEW s, NEW result, Moving(t, m, s, result)
        PROVE  runner[r][n] = p
    <3>1. /\ NodeSet(revs[t], runner[t], m, s, result, revs'[t])
          /\ \A u \in DOMAIN revs : u # t => revs'[u] = revs[u]
          /\ revs[t].results \in [NodesOf(revs[t].graph) -> {None} \cup Records]
      BY <1>1, <2>2, MovingRow
    <3>2. r = t /\ n = m /\ result # None /\ revs'[r].results[n] = result
      BY <1>1, <3>1 DEF NodeSet
    <3> QED
      BY <1>1, <2>2, <3>2, ProcsAssumption DEF Moving
  <2>3. ASSUME NEW t, NEW m, Rewinding(t, m) PROVE FALSE
    BY <1>1, <2>3, RewindingRow
  <2>4. ASSUME NEW t, NEW s, Closing(t, s) PROVE FALSE
    <3>1. /\ t \in DOMAIN revs /\ s \in RevisionStatus
          /\ revs' = [revs EXCEPT ![t] = ClosedAs(revs[t], s)]
      BY <2>4 DEF Closing, ActiveRevs, RevisionStatus
    <3>2. revs'[t].results = revs[t].results
      BY <1>1, <3>1, ClosingRow
    <3> QED
      BY <1>1, <3>1, <3>2
  <2>5. ASSUME NEW t, NEW g, Replanning(t, g) PROVE FALSE
    BY <1>1, <2>5, ReplanningRows
  <2>6. ASSUME NEW g, Creating(g) PROVE FALSE
    BY <1>1, <2>6 DEF Creating
  <2> QED
    BY <1>1, <2>1, <2>2, <2>3, <2>4, <2>5, <2>6 DEF PlanStep
<1>2. Shape /\ PlanInv /\ PlanStep =>
        \A p \in Procs, r \in DOMAIN revs : \A n \in NodesOf(revs[r].graph) :
          /\ revs'[r].results[n] # revs[r].results[n]
          /\ revs'[r].results[n].by = p
          /\ revs'[r].results[n].status # "skipped"
          => runner[r][n] = p
  BY <1>1
<1> QED
  BY <1>2, PlanKept, PTL DEF FencedResult

\* A node that is completed with evidence stays so, and a revision that takes over takes it
\* over (EvidenceKept).
THEOREM EvidenceStays == Spec => EvidenceKept
<1>1. ASSUME Shape, PlanInv, Shape', PlanStep,
             NEW r \in ActiveRevs, NEW n \in CompletedNodes(revs[r])
      PROVE  /\ n \in CompletedNodes(revs'[Len(revs')])
             /\ revs[r].results[n] # None => revs'[Len(revs')].results[n] # None
  <2>1. /\ r \in DOMAIN revs /\ r = Len(revs) /\ \A t \in ActiveRevs : t = r
        /\ n \in NodesOf(revs[r].graph) /\ revs[r].graph.status[n] = "completed"
    BY <1>1 DEF PlanInv, Table, ActiveRevs, CompletedNodes, With
  <2>2. DOMAIN revs' = DOMAIN revs => Len(revs') = r
    BY <1>1, <2>1, SameRevs
  <2>3. CASE Quiet
    BY <2>1, <2>2, <2>3 DEF Quiet, SameNodes, CompletedNodes, With
  <2>4. ASSUME NEW t, NEW m, NEW s, NEW result, Moving(t, m, s, result)
        PROVE  /\ n \in CompletedNodes(revs'[Len(revs')])
               /\ revs[r].results[n] # None => revs'[Len(revs')].results[n] # None
    <3>1. t = r /\ <<revs[r].graph.status[m], s>> \in NodeMoves
      BY <2>1, <2>4 DEF Moving
    <3>2. /\ NodeSet(revs[r], runner[r], m, s, result, revs'[r]) /\ DOMAIN revs' = DOMAIN revs
          /\ revs[r].graph.status \in [NodesOf(revs[r].graph) -> NodeStatus]
          /\ revs[r].results \in [NodesOf(revs[r].graph) -> {None} \cup Records]
      BY <1>1, <2>4, <3>1, MovingRow
    <3>3. m = n => s = "completed"
      BY <2>1, <3>1, NodeMovesAre
    <3>4. n \in NodesOf(revs'[r].graph) /\ revs'[r].graph.status[n] = "completed"
      BY <2>1, <3>2, <3>3 DEF NodeSet
    <3>5. revs[r].results[n] # None => revs'[r].results[n] # None
      BY <2>1, <3>2 DEF NodeSet
    <3> QED
      BY <2>2, <3>2, <3>4, <3>5 DEF CompletedNodes, With
  <2>5. ASSUME NEW t, NEW m, Rewinding(t, m)
        PROVE  /\ n \in CompletedNodes(revs'[Len(revs')])
               /\ revs[r].results[n] # None => revs'[Len(revs')].results[n] # None
    <3>1. t = r /\ revs[r].graph.status[m] = "running"
      BY <2>1, <2>5 DEF Rewinding
    <3>2. /\ DOMAIN revs' = DOMAIN revs /\ NodesOf(revs'[r].graph) = NodesOf(revs[r].graph)
          /\ revs'[r].graph.status = [revs[r].graph.status EXCEPT ![m] = "pending"]
          /\ revs'[r].results = revs[r].results
          /\ revs[r].graph.status \in [NodesOf(revs[r].graph) -> NodeStatus]
      BY <1>1, <2>5, <3>1, RewindingRow
    <3> QED
      BY <2>1, <2>2, <3>1, <3>2 DEF CompletedNodes, With
  <2>6. ASSUME NEW t, NEW s, Closing(t, s)
        PROVE  /\ n \in CompletedNodes(revs'[Len(revs')])
               /\ revs[r].results[n] # None => revs'[Len(revs')].results[n] # None
    <3>1. t = r /\ s \in RevisionStatus /\ revs' = [revs EXCEPT ![r] = ClosedAs(revs[r], s)]
      BY <2>1, <2>6 DEF Closing, RevisionStatus
    <3>2. revs'[r].graph = revs[r].graph /\ revs'[r].results = revs[r].results
      BY <1>1, <2>1, <3>1, ClosingRow
    <3> QED
      BY <2>1, <2>2, <3>1, <3>2 DEF CompletedNodes, With
  <2>7. ASSUME NEW t, NEW g, Replanning(t, g)
        PROVE  /\ n \in CompletedNodes(revs'[Len(revs')])
               /\ revs[r].results[n] # None => revs'[Len(revs')].results[n] # None
    <3>1. t = r
      BY <2>1, <2>7 DEF Replanning
    <3> QED
      BY <1>1, <2>7, <3>1, ReplanningRows
  <2>8. ASSUME NEW g, Creating(g) PROVE FALSE
    BY <2>1, <2>8 DEF Creating
  <2> QED
    BY <1>1, <2>3, <2>4, <2>5, <2>6, <2>7, <2>8 DEF PlanStep
<1>2. Shape /\ PlanInv /\ Shape' /\ PlanStep =>
        \A r \in ActiveRevs : \A n \in CompletedNodes(revs[r]) :
          /\ n \in CompletedNodes(revs'[Len(revs')])
          /\ revs[r].results[n] # None => revs'[Len(revs')].results[n] # None
  BY <1>1
<1> QED
  BY <1>2, PlanKept, PTL DEF EvidenceKept

-----------------------------------------------------------------------------
(* The plan as its abstract machine sees it. *)

\* A row, and the table of them.
View(row) == [status |-> row.status, deps |-> row.graph.deps, nodes |-> row.graph.status]

Plan == [r \in DOMAIN revs |-> View(revs[r])]

\* It has as many revisions.
LEMMA PlanLength ==
  ASSUME Shape
  PROVE  IsSeq(Plan) /\ Len(Plan) = Len(revs) /\ DOMAIN Plan = DOMAIN revs
  BY SameLength DEF Shape, Plan

\* The active one is its last.
LEMMA CurrentIs ==
  ASSUME Shape, PlanInv, NEW r \in ActiveRevs
  PROVE  /\ r \in DOMAIN revs /\ r = Len(revs) /\ Len(Plan) = r
         /\ Machine!Current = View(revs[r]) /\ Machine!Active
         /\ Machine!Nodes = NodesOf(revs[r].graph)
<1>1. r \in DOMAIN revs /\ revs[r].status = "active" /\ r = Len(revs)
  BY DEF ActiveRevs, PlanInv, Table
<1>2. Len(Plan) = r
  BY <1>1, PlanLength
<1>3. Machine!Current = View(revs[r])
  BY <1>1, <1>2 DEF Machine!Current, Plan, View
<1>4. DOMAIN Plan # {}
  BY <1>1 DEF Plan
<1>5. Plan # <<>>
  BY <1>4
<1> QED
  BY <1>1, <1>2, <1>3, <1>5 DEF Machine!Active, Machine!Nodes, Plan, View, NodesOf

\* The status of a node is written.
LEMMA MovedIs ==
  ASSUME Shape, PlanInv, NEW r \in ActiveRevs, NEW n, NEW s, DOMAIN revs' = DOMAIN revs,
         \A t \in DOMAIN revs : t # r => revs'[t] = revs[t],
         revs'[r].status = revs[r].status, revs'[r].graph.deps = revs[r].graph.deps,
         revs'[r].graph.status = [revs[r].graph.status EXCEPT ![n] = s]
  PROVE  Machine!Moved(n, s)
<1>1. r \in DOMAIN revs /\ Len(Plan) = r
  BY CurrentIs
<1>2. View(revs'[r]) = [View(revs[r]) EXCEPT !.nodes[n] = s]
  BY DEF View
<1>3. Plan' = [Plan EXCEPT ![r] = View(revs'[r])]
  BY <1>1 DEF Plan
<1>4. Plan' = [Plan EXCEPT ![Len(Plan)].nodes[n] = s]
  BY <1>1, <1>2, <1>3 DEF Plan
<1> QED
  BY <1>4 DEF Machine!Moved, Plan, View

\* A step that leaves the nodes alone is none of the machine's.
LEMMA QuietMaps ==
  ASSUME Quiet
  PROVE  UNCHANGED Plan
<1>1. \A r \in DOMAIN revs : View(revs'[r]) = View(revs[r])
  BY DEF Quiet, SameNodes, View
<1> QED
  BY <1>1 DEF Quiet, Plan

\* The step of a node is the machine's step of it.
LEMMA MovingMaps ==
  ASSUME Shape, PlanInv, NEW r, NEW n, NEW s, NEW result, Moving(r, n, s, result)
  PROVE  Machine!Next \/ UNCHANGED Plan
<1> DEFINE g == revs[r].graph
           a == g.status[n]
<1>1. /\ r \in ActiveRevs /\ n \in NodesOf(g) /\ <<a, s>> \in NodeMoves
      /\ s = "running" => /\ n \in Ready(g)
                          /\ \A m \in NodesOf(g) :
                               g.status[m] \in {"pending", "running", "completed", "skipped"}
                          /\ MarkedOf(r, n)
      /\ s = "skipped" => n \in Blocked(g)
  BY DEF Moving
<1>2. /\ r \in DOMAIN revs /\ DOMAIN revs' = DOMAIN revs
      /\ NodeSet(revs[r], runner[r], n, s, result, revs'[r])
      /\ \A t \in DOMAIN revs : t # r => revs'[t] = revs[t]
      /\ g.status \in [NodesOf(g) -> NodeStatus]
  BY MovingRow
<1>3. revs'[r].status = revs[r].status
  BY <1>1, <1>2, NodeMovedRow DEF Moving, Shape
<1>4. Machine!Moved(n, s)
  BY <1>1, <1>2, <1>3, MovedIs DEF NodeSet
<1>5. Machine!Active /\ Machine!Nodes = NodesOf(g) /\ Machine!Current = View(revs[r])
  BY <1>1, CurrentIs
<1>6. Machine!Current.nodes = g.status /\ Machine!Current.deps = g.deps
  BY <1>5 DEF View
<1>7. CASE a = s
  <2>1. \A t \in DOMAIN revs : View(revs'[t]) = View(revs[t])
    BY <1>1, <1>2, <1>3, <1>7 DEF NodeSet, View
  <2> QED
    BY <1>2, <2>1 DEF Plan
<1>8. CASE a = "pending" /\ s = "running"
  <2>1. \A m \in g.deps[n] : g.status[m] = "completed"
    BY <1>1, <1>8 DEF Ready, With
  <2>2. Machine!Start(n)
    BY <1>1, <1>4, <1>5, <1>6, <1>8, <2>1 DEF Machine!Start
  <2> QED
    BY <1>1, <1>5, <2>2 DEF Machine!Next
<1>9. CASE a = "pending" /\ s = "skipped"
  <2>1. \E m \in g.deps[n] : g.status[m] \in {"failed", "skipped"}
    BY <1>1, <1>9 DEF Blocked, With
  <2>2. Machine!Skip(n)
    BY <1>4, <1>6, <1>9, <2>1 DEF Machine!Skip
  <2> QED
    BY <1>1, <1>5, <2>2 DEF Machine!Next
<1>10. CASE a \in {"paused", "waiting_approval"} /\ s = "pending"
  <2>1. Machine!Again(n)
    BY <1>4, <1>6, <1>10 DEF Machine!Again
  <2> QED
    BY <1>1, <1>5, <2>1 DEF Machine!Next
<1>11. CASE /\ s \in {"completed", "failed", "waiting_approval", "paused"}
            /\ \/ a = "running"
               \/ a = "waiting_approval" /\ s \in {"completed", "failed"}
               \/ a = "paused" /\ s = "failed"
  <2>1. Machine!End(n, s)
    BY <1>4, <1>6, <1>11 DEF Machine!End
  <2> QED
    BY <1>1, <1>5, <1>11, <2>1 DEF Machine!Next
<1> QED
  BY <1>1, <1>7, <1>8, <1>9, <1>10, <1>11, NodeMovesAre

\* A rewind starts a node again.
LEMMA RewindingMaps ==
  ASSUME Shape, PlanInv, NEW r, NEW n, Rewinding(r, n)
  PROVE  Machine!Next
<1>1. /\ r \in ActiveRevs /\ n \in NodesOf(revs[r].graph)
      /\ revs[r].graph.status[n] = "running"
  BY DEF Rewinding
<1>2. Machine!Moved(n, "pending")
  <2>1. /\ r \in DOMAIN revs /\ DOMAIN revs' = DOMAIN revs
        /\ \A t \in DOMAIN revs : t # r => revs'[t] = revs[t]
        /\ NodesOf(revs'[r].graph) = NodesOf(revs[r].graph)
        /\ revs'[r].graph.status = [revs[r].graph.status EXCEPT ![n] = "pending"]
        /\ revs'[r].graph.deps = revs[r].graph.deps /\ revs'[r].results = revs[r].results
        /\ revs'[r].status = revs[r].status
        /\ revs[r].graph.status \in [NodesOf(revs[r].graph) -> NodeStatus]
    BY RewindingRow, Zenon
  <2> QED
    BY <1>1, <2>1, MovedIs
<1>3. Machine!Active /\ Machine!Nodes = NodesOf(revs[r].graph) /\ Machine!Current = View(revs[r])
  BY <1>1, CurrentIs
<1>4. Machine!Again(n)
  BY <1>1, <1>2, <1>3 DEF Machine!Again, View
<1> QED
  BY <1>1, <1>3, <1>4 DEF Machine!Next

\* The end of a revision is its end.
LEMMA ClosingMaps ==
  ASSUME Shape, PlanInv, NEW r, NEW s, Closing(r, s)
  PROVE  Machine!Next
<1>1. /\ r \in ActiveRevs /\ r \in DOMAIN revs /\ s \in RevisionStatus
      /\ s \in {"completed", "failed"} /\ revs' = [revs EXCEPT ![r] = ClosedAs(revs[r], s)]
  BY DEF Closing, ActiveRevs, RevisionStatus
<1>2. /\ Machine!Active /\ Machine!Nodes = NodesOf(revs[r].graph)
      /\ Machine!Current = View(revs[r]) /\ Len(Plan) = r
  BY <1>1, CurrentIs
<1>3. revs'[r].graph = revs[r].graph /\ revs'[r].status = s
  BY <1>1, ClosingRow
<1>4. View(revs'[r]) = [View(revs[r]) EXCEPT !.status = s]
  BY <1>3 DEF View
<1>5. Plan' = [Plan EXCEPT ![Len(Plan)].status = s]
  BY <1>1, <1>2, <1>4 DEF Plan
<1>6. Machine!Close(s)
  BY <1>2, <1>5 DEF Machine!Close, Closing, Plan, View
<1> QED
  BY <1>1, <1>2, <1>6 DEF Machine!Next

\* A replan is a replan.
LEMMA ReplanningMaps ==
  ASSUME Shape, PlanInv, NEW r, NEW g, Replanning(r, g)
  PROVE  Machine!Next
<1> DEFINE next == View(revs'[Len(revs')])
           table == [Plan EXCEPT ![Len(Plan)].status = "superseded"]
<1>1. /\ r \in DOMAIN revs /\ r = Len(revs) /\ Len(revs') = Len(revs) + 1
      /\ IsSeq(revs') /\ DOMAIN revs' = DOMAIN revs \cup {Len(revs) + 1}
      /\ \A t \in DOMAIN revs : t # r => revs'[t] = revs[t]
      /\ revs'[r].graph = revs[r].graph /\ revs'[r].status = "superseded"
      /\ revs'[Len(revs')].status = "active"
  BY ReplanningRows
<1>2. \A n \in CompletedNodes(revs[r]) :
        /\ n \in CompletedNodes(revs'[Len(revs')])
        /\ revs'[Len(revs')].graph.deps[n] = revs[r].graph.deps[n]
  BY ReplanningRows
<1>3. /\ Machine!Active /\ Machine!Current = View(revs[r]) /\ Len(Plan) = r /\ IsSeq(Plan)
      /\ DOMAIN Plan = DOMAIN revs
  BY CurrentIs, PlanLength DEF Replanning
<1>4. /\ DOMAIN table = DOMAIN revs
      /\ \A t \in DOMAIN revs : table[t] = View(revs'[t])
  BY <1>1, <1>3 DEF Plan, View
<1>5. IsSeq(table) /\ Len(table) = Len(revs)
  <2>1. table = [t \in DOMAIN revs |-> table[t]]
    BY <1>4
  <2> HIDE DEF table
  <2> QED
    BY <2>1, SameLength DEF Shape
<1> HIDE DEF table
<1>6. /\ IsSeq(Append(table, next))
      /\ DOMAIN Append(table, next) = DOMAIN table \cup {Len(table) + 1}
      /\ \A t \in DOMAIN table : Append(table, next)[t] = table[t]
      /\ Append(table, next)[Len(table) + 1] = next
  BY <1>5, OneMore
<1>7. IsSeq(Plan') /\ Len(Plan') = Len(revs') /\ DOMAIN Plan' = DOMAIN revs'
  BY <1>1, SameLength DEF Plan
<1>8. \A t \in DOMAIN revs' : Plan'[t] = View(revs'[t])
  BY DEF Plan
<1> DEFINE app == Append(table, next)
<1>9. Plan' = app
  <2>1. DOMAIN Plan' = DOMAIN app
    BY <1>1, <1>4, <1>5, <1>6, <1>7
  <2>2. \A t \in DOMAIN revs : Plan'[t] = app[t]
    BY <1>1, <1>4, <1>6, <1>8
  <2>3. Plan'[Len(revs) + 1] = app[Len(revs) + 1]
    BY <1>1, <1>5, <1>6, <1>8
  <2>4. \A t \in DOMAIN Plan' : Plan'[t] = app[t]
    BY <1>1, <1>7, <2>2, <2>3
  <2>5. IsSeq(app)
    BY <1>6
  <2> HIDE DEF app, next
  <2> QED
    BY <1>7, <2>1, <2>4, <2>5, SameRows
<1>10. /\ Len(Plan') = Len(Plan) + 1 /\ Plan'[Len(Plan) + 1] = next
  BY <1>1, <1>3, <1>7, <1>8
<1>11. next.status = "active"
  BY <1>1 DEF View
<1>12. \A n \in Machine!Done(View(revs[r])) :
         n \in Machine!Done(next) /\ next.deps[n] = View(revs[r]).deps[n]
  BY <1>2 DEF Machine!Done, View, CompletedNodes, With, NodesOf
<1> HIDE DEF next
<1>13. Machine!Replan
  BY <1>3, <1>9, <1>10, <1>11, <1>12 DEF Machine!Replan, Plan, View, table
<1> QED
  BY <1>3, <1>13 DEF Machine!Next

\* The first plan is the first.
LEMMA CreatingMaps ==
  ASSUME Shape, NEW g, Creating(g)
  PROVE  Machine!Next
<1>1. revs = <<>> /\ revs' = <<NewRevision(g, NoResults(g))>>
  BY DEF Creating
<1>2. Plan = <<>>
  BY <1>1 DEF Plan
<1>3. revs'[1].status = "active" /\ DOMAIN revs' = {1}
  BY <1>1 DEF NewRevision
<1>4. IsSeq(revs') /\ Len(revs') = 1
  BY <1>1 DEF IsSeq
<1>5. Len(Plan') = 1 /\ Plan'[1].status = "active"
  BY <1>3, <1>4, SameLength DEF Plan, View
<1>6. Machine!Create
  BY <1>2, <1>5 DEF Machine!Create, Plan, View
<1> QED
  BY <1>6 DEF Machine!Next

\* Executors, resumes and replans that interleave in any way keep the order of dependencies
\* and what is completed: PlanExecution implements PlanMachine (Implements).
THEOREM PlanRefines == Spec => Implements
<1>1. Init => Machine!Init
  <2> SUFFICES ASSUME Init PROVE Plan = <<>>
    BY DEF Machine!Init, Plan, View
  <2> QED
    BY DEF Init, Plan
<1>2. Shape /\ PlanInv /\ PlanStep => [Machine!Next]_Plan
  BY QuietMaps, MovingMaps, RewindingMaps, ClosingMaps, ReplanningMaps, CreatingMaps DEF PlanStep
<1>3. UNCHANGED vars => UNCHANGED Plan
  BY DEF vars, Plan
<1> QED
  BY <1>1, <1>2, <1>3, PlanKept, PTL DEF Spec, Implements, Machine!Spec, Plan, View

-----------------------------------------------------------------------------
(* Paths and claims: what normpath makes of a path is the place that Place finds by walking *)
(* it down, and claims on places that meet are in conflict.                                *)

\* A path that names something below the workspace.
Below(path) == Normpath(path)[1].name \notin {".", ".."}

\* All but the last.
LEMMA FrontIs ==
  ASSUME NEW P, NEW s \in Seq(P), s # <<>>
  PROVE  /\ Front(s) \in Seq(P) /\ Len(s) \in Nat \ {0} /\ Len(Front(s)) = Len(s) - 1
         /\ \A i \in 1 .. Len(s) - 1 : Front(s)[i] = s[i]
<1>1. Len(s) \in Nat \ {0}
  BY EmptySeq
<1>2. \A i \in 1 .. Len(s) - 1 : s[i] \in P
  BY <1>1, ElementOfSeq
<1>3. /\ SubSeq(s, 1, Len(s) - 1) \in Seq(P)
      /\ Len(SubSeq(s, 1, Len(s) - 1)) = IF 1 <= Len(s) - 1 THEN (Len(s) - 1) - 1 + 1 ELSE 0
      /\ \A i \in 1 .. (Len(s) - 1) - 1 + 1 : SubSeq(s, 1, Len(s) - 1)[i] = s[1 + i - 1]
  <2>1. 1 \in Int /\ Len(s) - 1 \in Int
    BY <1>1
  <2> QED
    BY <1>2, <2>1, SubSeqProperties
<1>4. \A i \in 1 .. Len(s) - 1 : i \in 1 .. (Len(s) - 1) - 1 + 1 /\ 1 + i - 1 = i
  BY <1>1
<1>5. (IF 1 <= Len(s) - 1 THEN (Len(s) - 1) - 1 + 1 ELSE 0) = Len(s) - 1
  <2>1. \A k \in Nat \ {0} : (IF 1 <= k - 1 THEN (k - 1) - 1 + 1 ELSE 0) = k - 1
    OBVIOUS
  <2> QED
    BY <1>1, <2>1
<1> QED
  BY <1>1, <1>3, <1>4, <1>5 DEF Front

\* What normpath keeps of a path, part by part.
LEMMA NormpathMade ==
  ASSUME NEW P, NEW path \in Seq(P)
  PROVE  \E done \in [0 .. Len(path) -> Seq(P)] :
           /\ done[0] = <<>>
           /\ \A i \in 1 .. Len(path) : done[i] = Kept(done[i - 1], path[i])
           /\ Normpath(path) = IF done[Len(path)] = <<>> THEN <<Dot>> ELSE done[Len(path)]
<1> DEFINE n == Len(path)
           V == Seq(P)
           base == <<>>
           Made(f) == f = [i \in 0 .. n |-> IF i = 0 THEN <<>> ELSE Kept(f[i - 1], path[i])]
           G == [i \in 1 .. n |-> [d \in V |-> Kept(d, path[i])]]
           done == CHOOSE f : Made(f)
<1>1. n \in Nat /\ \A i \in 1 .. n : path[i] \in P
  BY LenProperties
<1>2. ASSUME NEW d \in V, NEW x \in P PROVE Kept(d, x) \in V
  <2>1. Append(d, x) \in V
    BY AppendProperties
  <2>2. d # <<>> => Front(d) \in V
    BY FrontIs
  <2> QED
    BY <2>1, <2>2 DEF Kept
<1>3. base \in V
  BY EmptySeq
<1>n. Normpath(path) = IF done[n] = <<>> THEN <<Dot>> ELSE done[n]
  BY DEF Normpath
<1> HIDE DEF n, V
<1>4. G \in [1 .. n -> [V -> V]]
  BY <1>1, <1>2
<1>5. PICK f : MadeOf(f, n, V, base, G)
  <2>1. n \in Nat
    BY <1>1
  <2> HIDE DEF G, base
  <2> QED
    BY <1>3, <1>4, <2>1, Iterated
<1>6. Made(f)
  <2>1. ASSUME NEW i \in 0 .. n
        PROVE  f[i] = IF i = 0 THEN <<>> ELSE Kept(f[i - 1], path[i])
    <3>1. i # 0 => i \in 1 .. n /\ f[i - 1] \in V
      BY <1>1, <1>5 DEF MadeOf
    <3> QED
      BY <1>5, <3>1 DEF MadeOf
  <2> QED
    BY <1>5, <2>1 DEF MadeOf
<1>7. Made(done)
  BY <1>6
<1>8. done[0] = <<>> /\ \A i \in 1 .. n : done[i] = Kept(done[i - 1], path[i])
  <2> HIDE DEF done
  <2> QED
    BY <1>1, <1>7
<1>9. done \in [0 .. n -> V]
  <2> DEFINE S == {i \in 0 .. n : done[i] \in V}
  <2> HIDE DEF done
  <2>1. 0 \in S
    BY <1>1, <1>3, <1>8
  <2>2. ASSUME NEW i \in 0 .. n - 1, i \in S PROVE i + 1 \in S
    <3>1. i + 1 \in 1 .. n /\ i + 1 \in 0 .. n /\ (i + 1) - 1 = i /\ done[i] \in V
      BY <1>1, <2>2
    <3>2. done[i + 1] = Kept(done[i], path[i + 1])
      BY <1>8, <3>1
    <3> QED
      BY <1>1, <1>2, <3>1, <3>2
  <2>3. 0 .. n \subseteq S
    <3> HIDE DEF S
    <3> QED
      BY <1>1, <2>1, <2>2, UpTo
  <2> QED
    BY <1>7, <2>3
<1> HIDE DEF done
<1> QED
  BY <1>n, <1>8, <1>9 DEF n, V

\* Where a path leads to, part by part.
LEMMA PlaceMade ==
  ASSUME NEW P, NEW path \in Seq(P)
  PROVE  LET Names == {x.name : x \in P}
         IN  \E at \in [0 .. Len(path) -> Seq(Names)] :
               /\ at[0] = <<>>
               /\ \A i \in 1 .. Len(path) : at[i] = Down(at[i - 1], path[i])
               /\ Place(path) = at[Len(path)]
<1> DEFINE n == Len(path)
           Names == {x.name : x \in P}
           V == Seq(Names)
           base == <<>>
           Made(f) == f = [i \in 0 .. n |-> IF i = 0 THEN <<>> ELSE Down(f[i - 1], path[i])]
           G == [i \in 1 .. n |-> [d \in V |-> Down(d, path[i])]]
           at == CHOOSE f : Made(f)
<1>1. n \in Nat /\ \A i \in 1 .. n : path[i] \in P
  BY LenProperties
<1>2. ASSUME NEW d \in V, NEW x \in P PROVE Down(d, x) \in V
  <2>1. Append(d, x.name) \in V
    BY AppendProperties
  <2>2. d # <<>> => Front(d) \in V
    BY FrontIs
  <2>3. <<>> \in V
    BY EmptySeq
  <2> QED
    BY <2>1, <2>2, <2>3 DEF Down
<1>3. base \in V
  BY EmptySeq
<1>n. Place(path) = at[n]
  BY DEF Place
<1> HIDE DEF n, V
<1>4. G \in [1 .. n -> [V -> V]]
  BY <1>1, <1>2
<1>5. PICK f : MadeOf(f, n, V, base, G)
  <2>1. n \in Nat
    BY <1>1
  <2> HIDE DEF G, base
  <2> QED
    BY <1>3, <1>4, <2>1, Iterated
<1>6. Made(f)
  <2>1. ASSUME NEW i \in 0 .. n
        PROVE  f[i] = IF i = 0 THEN <<>> ELSE Down(f[i - 1], path[i])
    <3>1. i # 0 => i \in 1 .. n /\ f[i - 1] \in V
      BY <1>1, <1>5 DEF MadeOf
    <3> QED
      BY <1>5, <3>1 DEF MadeOf
  <2> QED
    BY <1>5, <2>1 DEF MadeOf
<1>7. Made(at)
  BY <1>6
<1>8. at[0] = <<>> /\ \A i \in 1 .. n : at[i] = Down(at[i - 1], path[i])
  <2> HIDE DEF at
  <2> QED
    BY <1>1, <1>7
<1>9. at \in [0 .. n -> V]
  <2> DEFINE S == {i \in 0 .. n : at[i] \in V}
  <2> HIDE DEF at
  <2>1. 0 \in S
    BY <1>1, <1>3, <1>8
  <2>2. ASSUME NEW i \in 0 .. n - 1, i \in S PROVE i + 1 \in S
    <3>1. i + 1 \in 1 .. n /\ i + 1 \in 0 .. n /\ (i + 1) - 1 = i /\ at[i] \in V
      BY <1>1, <2>2
    <3>2. at[i + 1] = Down(at[i], path[i + 1])
      BY <1>8, <3>1
    <3> QED
      BY <1>1, <1>2, <3>1, <3>2
  <2>3. 0 .. n \subseteq S
    <3> HIDE DEF S
    <3> QED
      BY <1>1, <2>1, <2>2, UpTo
  <2> QED
    BY <1>7, <2>3
<1> HIDE DEF at
<1> QED
  BY <1>n, <1>8, <1>9 DEF n, V

\* Unless d has left the workspace, a are its names.
Tracks(d, a) ==
  \/ d # <<>> /\ d[1].name = ".."
  \/ Len(a) = Len(d) /\ \A i \in 1 .. Len(d) : a[i] = d[i].name /\ d[i].name # ".."

\* With one part more they still are.
LEMMA TracksOn ==
  ASSUME NEW P, NEW d \in Seq(P), NEW x \in P, NEW N, x.name \in N, NEW a \in Seq(N), Tracks(d, a)
  PROVE  Tracks(Kept(d, x), Down(a, x))
<1>1. Len(d) \in Nat /\ Len(a) \in Nat /\ (d = <<>> <=> Len(d) = 0) /\ (a = <<>> <=> Len(a) = 0)
  BY EmptySeq, LenProperties
<1>d. /\ Append(d, x) # <<>> /\ Len(Append(d, x)) = Len(d) + 1
      /\ \A i \in 1 .. Len(d) : Append(d, x)[i] = d[i]
      /\ Append(d, x)[Len(d) + 1] = x
  BY AppendProperties
<1>a. /\ Len(Append(a, x.name)) = Len(a) + 1
      /\ \A i \in 1 .. Len(a) : Append(a, x.name)[i] = a[i]
      /\ Append(a, x.name)[Len(a) + 1] = x.name
  BY AppendProperties
<1>f. d # <<>> => /\ Front(d) \in Seq(P) /\ Len(Front(d)) = Len(d) - 1
                  /\ \A i \in 1 .. Len(d) - 1 : Front(d)[i] = d[i]
  BY FrontIs
<1>g. a # <<>> => /\ Len(Front(a)) = Len(a) - 1
                  /\ \A i \in 1 .. Len(a) - 1 : Front(a)[i] = a[i]
  BY FrontIs
<1>2. CASE x.name \in {"", "."}
  BY <1>2 DEF Kept, Down
<1>3. CASE x.name = ".." /\ d # <<>> /\ d[1].name = ".."
  <2>1. CASE d[Len(d)].name # ".."
    <3>1. Kept(d, x) = Front(d)
      BY <1>3, <2>1 DEF Kept, Last
    <3>2. Len(d) # 1
      BY <1>3, <2>1
    <3>3. 1 \in 1 .. Len(d) - 1 /\ Len(Front(d)) # 0 /\ Front(d) # <<>>
      BY <1>1, <1>3, <3>2, <1>f, EmptySeq
    <3> QED
      BY <1>3, <1>f, <3>1, <3>3 DEF Tracks
  <2>2. CASE d[Len(d)].name = ".."
    <3>1. Kept(d, x) = Append(d, x)
      BY <1>3, <2>2 DEF Kept, Last
    <3>2. 1 \in 1 .. Len(d)
      BY <1>1, <1>3
    <3> QED
      BY <1>3, <1>d, <3>1, <3>2 DEF Tracks
  <2> QED
    BY <2>1, <2>2
<1>4. CASE x.name = ".." /\ ~(d # <<>> /\ d[1].name = "..")
  <2>1. Len(a) = Len(d) /\ \A i \in 1 .. Len(d) : a[i] = d[i].name /\ d[i].name # ".."
    BY <1>4 DEF Tracks
  <2>2. CASE d = <<>>
    <3>1. Kept(d, x) = Append(d, x)
      BY <1>4, <2>2 DEF Kept
    <3>2. Append(d, x)[1] = x
      BY <1>1, <1>d, <2>2
    <3> QED
      BY <1>4, <1>d, <3>1, <3>2 DEF Tracks
  <2>3. CASE d # <<>>
    <3>1. Len(d) \in 1 .. Len(d) /\ a # <<>>
      BY <1>1, <2>1, <2>3
    <3>2. Kept(d, x) = Front(d) /\ Down(a, x) = Front(a)
      BY <1>4, <2>1, <2>3, <3>1 DEF Kept, Down, Last
    <3>3. \A i \in 1 .. Len(d) - 1 : i \in 1 .. Len(d)
      BY <1>1
    <3> QED
      BY <1>f, <1>g, <2>1, <2>3, <3>1, <3>2, <3>3 DEF Tracks
  <2> QED
    BY <2>2, <2>3
<1>5. CASE x.name \notin {"", ".", ".."}
  <2>1. Kept(d, x) = Append(d, x) /\ Down(a, x) = Append(a, x.name)
    BY <1>5 DEF Kept, Down
  <2>2. CASE d # <<>> /\ d[1].name = ".."
    <3>1. 1 \in 1 .. Len(d)
      BY <1>1, <2>2
    <3> QED
      BY <1>d, <2>1, <2>2, <3>1 DEF Tracks
  <2>3. CASE Len(a) = Len(d) /\ \A i \in 1 .. Len(d) : a[i] = d[i].name /\ d[i].name # ".."
    <3>1. \A i \in 1 .. Len(d) + 1 : i \in 1 .. Len(d) \/ i = Len(d) + 1
      BY <1>1
    <3>2. ASSUME NEW i \in 1 .. Len(d) + 1
          PROVE  /\ Append(a, x.name)[i] = Append(d, x)[i].name
                 /\ Append(d, x)[i].name # ".."
      BY <1>5, <1>a, <1>d, <2>3, <3>1
    <3> QED
      BY <1>a, <1>d, <2>1, <2>3, <3>2 DEF Tracks
  <2> QED
    BY <2>2, <2>3 DEF Tracks
<1> QED
  BY <1>2, <1>3, <1>4, <1>5

\* A path that leads to something below the workspace is normalised to the names on the way.
LEMMA PlaceIsNormpath ==
  ASSUME NEW path, IsSeq(path), Below(path)
  PROVE  /\ \E P : Normpath(path) \in Seq(P)
         /\ Len(Place(path)) = Len(Normpath(path)) /\ Len(Place(path)) \in Nat
         /\ DOMAIN Place(path) = 1 .. Len(Place(path))
         /\ DOMAIN Normpath(path) = 1 .. Len(Place(path))
         /\ \A i \in DOMAIN Place(path) : Place(path)[i] = Normpath(path)[i].name
<1> DEFINE n == Len(path)
           P == {path[i] : i \in DOMAIN path}
           Names == {x.name : x \in P}
<1>1. path \in Seq(P)
  BY DEF IsSeq
<1>2. n \in Nat /\ \A i \in 1 .. n : path[i] \in P
  BY <1>1, LenProperties
<1> HIDE DEF P
<1>3. PICK done \in [0 .. n -> Seq(P)] :
        /\ done[0] = <<>>
        /\ \A i \in 1 .. n : done[i] = Kept(done[i - 1], path[i])
        /\ Normpath(path) = IF done[n] = <<>> THEN <<Dot>> ELSE done[n]
  BY <1>1, NormpathMade
<1>4. PICK at \in [0 .. n -> Seq(Names)] :
        /\ at[0] = <<>>
        /\ \A i \in 1 .. n : at[i] = Down(at[i - 1], path[i])
        /\ Place(path) = at[n]
  BY <1>1, PlaceMade
<1> DEFINE S == {i \in 0 .. n : Tracks(done[i], at[i])}
<1>5. 0 \in S
  BY <1>2, <1>3, <1>4, EmptySeq DEF Tracks
<1>6. ASSUME NEW i \in 0 .. n - 1, i \in S PROVE i + 1 \in S
  <2>1. i + 1 \in 1 .. n /\ i + 1 \in 0 .. n /\ (i + 1) - 1 = i /\ i \in 0 .. n
    BY <1>2
  <2>2. done[i + 1] = Kept(done[i], path[i + 1]) /\ at[i + 1] = Down(at[i], path[i + 1])
    BY <1>3, <1>4, <2>1
  <2>3. done[i] \in Seq(P) /\ at[i] \in Seq(Names) /\ path[i + 1] \in P
    BY <1>2, <2>1
  <2>4. path[i + 1].name \in Names
    BY <2>3
  <2> HIDE DEF Names
  <2>5. Tracks(done[i + 1], at[i + 1])
    BY <1>6, <2>2, <2>3, <2>4, TracksOn
  <2> QED
    BY <2>1, <2>5
<1>7. Tracks(done[n], at[n])
  <2>1. 0 .. n \subseteq S
    <3> HIDE DEF S, n
    <3> QED
      BY <1>2, <1>5, <1>6, UpTo
  <2> QED
    BY <1>2, <2>1
<1>8. Normpath(path) = done[n] /\ done[n][1].name # ".."
  BY <1>3 DEF Below, Dot, Part
<1>9. done[n] \in Seq(P) /\ at[n] \in Seq(Names)
  BY <1>2
<1>10. Len(at[n]) = Len(done[n]) /\ \A i \in 1 .. Len(done[n]) : at[n][i] = done[n][i].name
  BY <1>7, <1>8 DEF Tracks
<1>11. /\ Len(done[n]) \in Nat /\ DOMAIN done[n] = 1 .. Len(done[n])
       /\ DOMAIN at[n] = 1 .. Len(at[n])
  BY <1>9, LenProperties
<1> QED
  BY <1>4, <1>8, <1>9, <1>10, <1>11

\* What s begins with, part by part.
LEMMA PrefixIs ==
  ASSUME NEW P, NEW s \in Seq(P), NEW t \in Seq(P), Len(s) <= Len(t),
         \A i \in 1 .. Len(s) : s[i] = t[i]
  PROVE  IsPrefix(s, t)
<1> DEFINE n == Len(s)
<1>1. n \in Nat /\ Len(t) \in Nat /\ n <= Len(t) /\ \A i \in 1 .. n : s[i] \in P /\ t[i] = s[i]
  BY LenProperties
<1>2. 1 \in Int /\ n \in Int /\ \A i \in 1 .. n : i \in 1 .. n - 1 + 1 /\ 1 + i - 1 = i
  BY <1>1
<1>3. (IF 1 <= n THEN n - 1 + 1 ELSE 0) = n
  <2>1. \A k \in Nat : (IF 1 <= k THEN k - 1 + 1 ELSE 0) = k
    OBVIOUS
  <2> QED
    BY <1>1, <2>1
<1> HIDE DEF n
<1>4. /\ SubSeq(s, 1, n) \in Seq(P)
      /\ Len(SubSeq(s, 1, n)) = IF 1 <= n THEN n - 1 + 1 ELSE 0
      /\ \A i \in 1 .. n - 1 + 1 : SubSeq(s, 1, n)[i] = s[1 + i - 1]
  BY <1>1, <1>2, SubSeqProperties
<1>5. /\ SubSeq(t, 1, n) \in Seq(P)
      /\ Len(SubSeq(t, 1, n)) = IF 1 <= n THEN n - 1 + 1 ELSE 0
      /\ \A i \in 1 .. n - 1 + 1 : SubSeq(t, 1, n)[i] = t[1 + i - 1]
  BY <1>1, <1>2, SubSeqProperties
<1>6. SubSeq(s, 1, n) = SubSeq(t, 1, n)
  BY <1>1, <1>2, <1>3, <1>4, <1>5, SeqEqual
<1> QED
  BY <1>1, <1>6 DEF IsPrefix, n

\* The names of a path, in small letters.
LEMMA CasefoldIs ==
  ASSUME NEW P, NEW s \in Seq(P), NEW Q, \A i \in 1 .. Len(s) : Part(s[i].name, FALSE) \in Q
  PROVE  /\ Casefold(s) \in Seq(Q) /\ Len(Casefold(s)) = Len(s)
         /\ \A i \in 1 .. Len(s) : Casefold(s)[i] = Part(s[i].name, FALSE)
<1>1. Len(s) \in Nat /\ DOMAIN s = 1 .. Len(s)
  BY LenProperties
<1>2. Casefold(s) = [i \in 1 .. Len(s) |-> Part(s[i].name, FALSE)]
  BY <1>1 DEF Casefold
<1> DEFINE n == Len(s)
           t == Casefold(s)
<1>3. t \in [1 .. n -> Q] /\ DOMAIN t = 1 .. n
  BY <1>2
<1> HIDE DEF t, n
<1>4. t \in Seq(Q)
  BY <1>1, <1>3, SeqDef DEF n
<1>5. Len(t) = n
  BY <1>1, <1>3, <1>4, LenProperties DEF n
<1> QED
  BY <1>2, <1>4, <1>5 DEF t, n

\* A claim has a scheme and, if it is of a file, a path.
PlainClaim(c) ==
  /\ c.key = [scheme |-> c.key.scheme, path |-> c.key.path]
  /\ c.key.scheme \in FileSchemes => IsSeq(c.key.path)

\* Two such paths meet only if one is normalised to the beginning of the other.
LEMMA PathsMeet ==
  ASSUME NEW p, IsSeq(p), Below(p), NEW q, IsSeq(q), Below(q), Len(Place(p)) <= Len(Place(q)),
         \A i \in DOMAIN Place(p) \cap DOMAIN Place(q) : Place(p)[i] = Place(q)[i]
  PROVE  IsPrefix(Casefold(Normpath(p)), Casefold(Normpath(q)))
<1> DEFINE s == Normpath(p)
           t == Normpath(q)
           Q == {Part(s[i].name, FALSE) : i \in DOMAIN s}
                \cup {Part(t[i].name, FALSE) : i \in DOMAIN t}
<1>1. /\ \E P : s \in Seq(P)
      /\ Len(Place(p)) = Len(s) /\ Len(Place(p)) \in Nat
      /\ DOMAIN Place(p) = 1 .. Len(Place(p)) /\ DOMAIN s = 1 .. Len(Place(p))
      /\ \A i \in DOMAIN Place(p) : Place(p)[i] = s[i].name
  BY PlaceIsNormpath
<1>2. /\ \E P : t \in Seq(P)
      /\ Len(Place(q)) = Len(t) /\ Len(Place(q)) \in Nat
      /\ DOMAIN Place(q) = 1 .. Len(Place(q)) /\ DOMAIN t = 1 .. Len(Place(q))
      /\ \A i \in DOMAIN Place(q) : Place(q)[i] = t[i].name
  BY PlaceIsNormpath
<1> HIDE DEF s, t
<1>3. /\ Casefold(s) \in Seq(Q) /\ Len(Casefold(s)) = Len(s)
      /\ \A i \in 1 .. Len(s) : Casefold(s)[i] = Part(s[i].name, FALSE)
  <2>1. PICK P : s \in Seq(P)
    BY <1>1
  <2>2. \A i \in 1 .. Len(s) : Part(s[i].name, FALSE) \in Q
    BY <1>1
  <2> HIDE DEF Q
  <2> QED
    BY <2>1, <2>2, CasefoldIs
<1>4. /\ Casefold(t) \in Seq(Q) /\ Len(Casefold(t)) = Len(t)
      /\ \A i \in 1 .. Len(t) : Casefold(t)[i] = Part(t[i].name, FALSE)
  <2>1. PICK P : t \in Seq(P)
    BY <1>2
  <2>2. \A i \in 1 .. Len(t) : Part(t[i].name, FALSE) \in Q
    BY <1>2
  <2> HIDE DEF Q
  <2> QED
    BY <2>1, <2>2, CasefoldIs
<1> HIDE DEF Q
<1>5. ASSUME NEW i \in 1 .. Len(s) PROVE Casefold(s)[i] = Casefold(t)[i]
  <2>1. i \in 1 .. Len(t)
    BY <1>1, <1>2
  <2>2. s[i].name = t[i].name
    BY <1>1, <1>2, <2>1
  <2> QED
    BY <1>3, <1>4, <2>1, <2>2
<1> QED
  BY <1>1, <1>2, <1>3, <1>4, <1>5, PrefixIs DEF s, t

\* Claims about one file below the workspace, or a directory and a file in it, conflict
\* unless both only read.
LEMMA MeetConflicts ==
  ASSUME NEW c, PlainClaim(c), NamesBelow(c), NEW d, PlainClaim(d), NamesBelow(d), Meet(c, d),
         ~(c.mode = "read" /\ d.mode = "read")
  PROVE  ClaimsConflict(c, d)
<1> DEFINE k == NormalizedKey(c.key)
           l == NormalizedKey(d.key)
<1>1. CASE {c.key.scheme, d.key.scheme} \cap {"workspace", "root"} # {}
  <2>1. Workspace \in {k, l}
    BY <1>1 DEF NormalizedKey
  <2> QED
    BY <2>1 DEF ClaimsConflict
<1>2. CASE {c.key.scheme, d.key.scheme} \subseteq FileSchemes
           /\ LET a == Place(c.key.path)
                  b == Place(d.key.path)
              IN  \A i \in DOMAIN a \cap DOMAIN b : a[i] = b[i]
  <2>1. /\ c.key.scheme \in FileSchemes /\ IsSeq(c.key.path) /\ Below(c.key.path)
        /\ d.key.scheme \in FileSchemes /\ IsSeq(d.key.path) /\ Below(d.key.path)
    BY <1>2 DEF PlainClaim, NamesBelow, Below
  <2>2. /\ k.scheme = c.key.scheme /\ k.path = Casefold(Normpath(c.key.path))
        /\ l.scheme = d.key.scheme /\ l.path = Casefold(Normpath(d.key.path))
    BY <2>1 DEF NormalizedKey, FileSchemes, PlainClaim
  <2>3. Len(Place(c.key.path)) \in Nat /\ Len(Place(d.key.path)) \in Nat
    BY <2>1, PlaceIsNormpath
  <2> HIDE DEF k, l
  <2>4. IsPrefix(k.path, l.path) \/ IsPrefix(l.path, k.path)
    <3>1. CASE Len(Place(c.key.path)) <= Len(Place(d.key.path))
      BY <1>2, <2>1, <2>2, <3>1, PathsMeet
    <3>2. CASE Len(Place(d.key.path)) <= Len(Place(c.key.path))
      BY <1>2, <2>1, <2>2, <3>2, PathsMeet
    <3> QED
      BY <2>3, <3>1, <3>2
  <2> QED
    BY <2>1, <2>2, <2>4 DEF ClaimsConflict, k, l
<1> QED
  BY <1>1, <1>2 DEF Meet

\* Conflicts go both ways.
LEMMA ConflictsBothWays ==
  ASSUME NEW g, NEW m, NEW n, ResourcesConflict(g, m, n)
  PROVE  ResourcesConflict(g, n, m)
<1>1. PICK c \in ClaimsOf(g, m), d \in ClaimsOf(g, n) : ClaimsConflict(c, d)
  BY DEF ResourcesConflict
<1> DEFINE k == NormalizedKey(c.key)
           l == NormalizedKey(d.key)
<1>2. /\ ~(c.mode = "read" /\ d.mode = "read")
      /\ \/ k = l
         \/ Workspace \in {k, l}
         \/ /\ {k.scheme, l.scheme} \subseteq FileSchemes
            /\ IsPrefix(k.path, l.path) \/ IsPrefix(l.path, k.path)
  BY <1>1 DEF ClaimsConflict
<1> HIDE DEF k, l
<1>3. ClaimsConflict(d, c)
  BY <1>2 DEF ClaimsConflict, k, l
<1> QED
  BY <1>3 DEF ResourcesConflict

-----------------------------------------------------------------------------
(* What runs at a time. *)

\* No two of the nodes are in each other's way.
Apart(g, S) == \A m, n \in S : m # n => ~ResourcesConflict(g, m, n)

\* The claims of a graph have such keys.
PlainClaims(g) == \A n \in NodesOf(g) : \A c \in g.claims[n] : PlainClaim(c)

\* What is planned does not run yet, and its claims are such.
PlainPlans == \A g \in Plans \cup Replans : With(g, "running") = {} /\ PlainClaims(g)

\* A batch that is being marked may run, and as long as its version stands nothing else does.
BatchApart(l, row) ==
  l.pc = "mark" => /\ Apart(row.graph, l.batch)
                   /\ l.version = row.version => With(row.graph, "running") \subseteq l.batch

SharedInv ==
  /\ \A r \in DOMAIN revs :
       PlainClaims(revs[r].graph) /\ Apart(revs[r].graph, With(revs[r].graph, "running"))
  /\ \A p \in Procs : BatchApart(local[p], Row(p))

\* Only the claims and the kinds of the nodes tell.
SameClaims(g, h) == NodesOf(h) = NodesOf(g) /\ h.kind = g.kind /\ h.claims = g.claims

\* Nodes that are apart are so as long as their claims are the same.
LEMMA StayApart ==
  ASSUME NEW g, NEW h, SameClaims(g, h)
  PROVE  /\ PlainClaims(g) => PlainClaims(h)
         /\ \A S : Apart(g, S) => Apart(h, S)
<1>1. \A n : ClaimsOf(h, n) = ClaimsOf(g, n)
  BY DEF ClaimsOf, SameClaims
<1>2. \A m, n : ResourcesConflict(h, m, n) <=> ResourcesConflict(g, m, n)
  BY <1>1 DEF ResourcesConflict
<1> QED
  BY <1>2 DEF Apart, PlainClaims, SameClaims

\* What select_non_conflicting_nodes takes is apart.
LEMMA BatchesApart ==
  ASSUME NEW g, NodesOf(g) \subseteq Nat, NEW batch \in SUBSET Ready(g), IsBatch(g, batch, Limit)
  PROVE  Apart(g, batch)
<1>1. ASSUME NEW m \in batch, NEW n \in batch, m < n PROVE ~ResourcesConflict(g, n, m)
  BY <1>1 DEF IsBatch
<1>2. ASSUME NEW m \in batch, NEW n \in batch, m # n PROVE ~ResourcesConflict(g, m, n)
  <2>1. m \in Nat /\ n \in Nat
    BY DEF Ready, With
  <2>2. m < n \/ n < m
    BY <1>2, <2>1
  <2> QED
    BY <1>1, <2>2, ConflictsBothWays
<1> QED
  BY <1>2 DEF Apart

-----------------------------------------------------------------------------
(* The rows. *)

\* A row keeps its claims, and its graph as long as its version stands.
RowFollows(old, new) ==
  /\ SameClaims(old.graph, new.graph) /\ old.version \in Nat /\ old.version <= new.version
  /\ new.version = old.version => new.graph = old.graph

\* A status that is written leaves the claims alone.
LEMMA StatusFollows ==
  ASSUME NEW g, IsPlanGraph(g), NEW n, NEW s
  PROVE  SameClaims(g, WithNodeStatus(g, n, s))
<1> DEFINE h == WithNodeStatus(g, n, s)
<1>1. h.status = [g.status EXCEPT ![n] = s] /\ h.kind = g.kind /\ h.claims = g.claims
  BY DEF WithNodeStatus, IsPlanGraph
<1> QED
  BY <1>1 DEF SameClaims, NodesOf

\* So does a statement about a node.
LEMMA MovedFollows ==
  ASSUME NEW row, RowOk(row), IsPlanGraph(row.graph), NEW n, NEW s, NEW result
  PROVE  RowFollows(row, NodeMoved(row, n, s, result))
<1> DEFINE g == WithNodeStatus(row.graph, n, s)
           x == [row.results EXCEPT ![n] = IF result = None THEN @ ELSE result]
           new == NodeMoved(row, n, s, result)
<1>1. row.version \in Nat /\ row.version <= new.version /\ (new.version = row.version => new = row)
  BY NodeMovedRow DEF RowOk
<1>2. SameClaims(row.graph, row.graph)
  BY DEF SameClaims
<1>3. SameClaims(row.graph, g)
  BY StatusFollows
<1>4. new.graph = row.graph \/ new.graph = g
  <2>1. new = row \/ new = [row EXCEPT !.graph = g, !.results = x, !.version = @ + 1]
    BY DEF NodeMoved
  <2> HIDE DEF g, x, new
  <2> QED
    BY <2>1 DEF RowOk, RowFields
<1> HIDE DEF g, new
<1> QED
  BY <1>1, <1>2, <1>3, <1>4 DEF RowFollows, new

\* And a rewind.
LEMMA RewoundFollows ==
  ASSUME NEW row, RowOk(row), IsPlanGraph(row.graph), NEW n
  PROVE  RowFollows(row, Rewound(row, n))
<1> DEFINE old == Unleased(row)
           g == WithNodeStatus(row.graph, n, "pending")
           new == Rewound(row, n)
<1>1. RowOk(old) /\ old.graph = row.graph
  BY UnleasedRow
<1>2. new.graph = g
  <2> HIDE DEF old
  <2>1. new = [old EXCEPT !.graph = WithNodeStatus(@, n, "pending"), !.version = @ + 1]
    BY DEF Rewound, old
  <2> QED
    BY <1>1, <2>1 DEF RowOk, RowFields
<1>3. SameClaims(row.graph, g)
  BY StatusFollows
<1>4. row.version \in Nat /\ new.version = row.version + 1
  BY RewoundRow DEF RowOk
<1> HIDE DEF g, new
<1> QED
  BY <1>2, <1>3, <1>4 DEF RowFollows, new

\* And its end.
LEMMA ClosedFollows ==
  ASSUME Shape, PlanInv, NEW r \in DOMAIN revs, NEW s \in RevisionStatus
  PROVE  RowFollows(revs[r], ClosedAs(revs[r], s))
<1> DEFINE new == ClosedAs(revs[r], s)
<1>1. RowOk(revs[r])
  BY DEF Shape
<1>2. new.graph = revs[r].graph
  BY ClosingRow
<1>3. revs[r].version \in Nat /\ new.version = revs[r].version + 1
  BY <1>1, ClosedRow DEF RowOk
<1> HIDE DEF new
<1> QED
  BY <1>2, <1>3 DEF RowFollows, SameClaims, new

\* So each row does at every step.
LEMMA RowsFollow ==
  ASSUME Shape, PlanInv, PlanStep, NEW t \in DOMAIN revs
  PROVE  RowFollows(revs[t], revs'[t])
<1>1. RowOk(revs[t]) /\ RowTyped(revs[t], runner[t]) /\ IsPlanGraph(revs[t].graph)
  BY RunnerStays DEF Shape, RowTyped
<1>2. revs'[t] = revs[t] => RowFollows(revs[t], revs'[t])
  BY <1>1 DEF RowFollows, SameClaims, RowOk
<1>3. CASE Quiet
  BY <1>1, <1>3 DEF Quiet, SameNodes, RowFollows, SameClaims, RowOk
<1>4. ASSUME NEW r, NEW n, NEW s, NEW result, Moving(r, n, s, result)
      PROVE  RowFollows(revs[t], revs'[t])
  <2>1. r \in DOMAIN revs /\ revs' = [revs EXCEPT ![r] = NodeMoved(revs[r], n, s, result)]
    BY <1>4 DEF Moving, ActiveRevs
  <2>2. t = r => RowFollows(revs[t], NodeMoved(revs[r], n, s, result))
    BY <1>1, MovedFollows
  <2> QED
    BY <1>2, <2>1, <2>2
<1>5. ASSUME NEW r, NEW n, Rewinding(r, n) PROVE RowFollows(revs[t], revs'[t])
  <2>1. r \in DOMAIN revs /\ revs' = [revs EXCEPT ![r] = Rewound(revs[r], n)]
    BY <1>5 DEF Rewinding, ActiveRevs
  <2>2. t = r => RowFollows(revs[t], Rewound(revs[r], n))
    BY <1>1, RewoundFollows
  <2> QED
    BY <1>2, <2>1, <2>2
<1>6. ASSUME NEW r, NEW s, Closing(r, s) PROVE RowFollows(revs[t], revs'[t])
  <2>1. /\ r \in DOMAIN revs /\ s \in RevisionStatus
        /\ revs' = [revs EXCEPT ![r] = ClosedAs(revs[r], s)]
    BY <1>6 DEF Closing, ActiveRevs, RevisionStatus
  <2>2. t = r => RowFollows(revs[t], ClosedAs(revs[r], s))
    BY <2>1, ClosedFollows
  <2> QED
    BY <1>2, <2>1, <2>2
<1>7. ASSUME NEW r, NEW g, Replanning(r, g) PROVE RowFollows(revs[t], revs'[t])
  <2> DEFINE closed == ClosedAs(revs[r], "superseded")
             table == [revs EXCEPT ![r] = closed]
             row == Successor(revs[r], g)
  <2>1. /\ r \in DOMAIN revs /\ "superseded" \in RevisionStatus
        /\ revs' = Append(table, row)
    BY <1>7 DEF Replanning, ActiveRevs, RevisionStatus
  <2>2. t = r => RowFollows(revs[t], closed)
    BY <2>1, ClosedFollows
  <2> HIDE DEF closed, row
  <2>3. DOMAIN table = DOMAIN revs /\ table[t] = IF t = r THEN closed ELSE revs[t]
    BY <2>1
  <2>4. IsSeq(table)
    BY <2>3, SameLength DEF Shape
  <2> HIDE DEF table
  <2>5. revs'[t] = table[t]
    BY <2>1, <2>3, <2>4, OneMore
  <2> QED
    BY <1>2, <2>2, <2>3, <2>5
<1>8. ASSUME NEW g, Creating(g) PROVE FALSE
  BY <1>8 DEF Creating
<1> QED
  BY <1>3, <1>4, <1>5, <1>6, <1>7, <1>8 DEF PlanStep

\* A row that is new has the graph that was planned, but for what is completed.
LEMMA RowsBegin ==
  ASSUME Shape, PlanInv, PlanStep, PlainPlans, NEW t \in DOMAIN revs', t \notin DOMAIN revs,
         \A r \in DOMAIN revs : PlainClaims(revs[r].graph)
  PROVE  PlainClaims(revs'[t].graph) /\ With(revs'[t].graph, "running") = {}
<1>1. ASSUME NEW r, NEW g, Replanning(r, g)
      PROVE  PlainClaims(revs'[t].graph) /\ With(revs'[t].graph, "running") = {}
  <2> DEFINE closed == ClosedAs(revs[r], "superseded")
             table == [revs EXCEPT ![r] = closed]
             row == Successor(revs[r], g)
             h == Preserve(revs[r], g)
             kept == CompletedNodes(revs[r])
  <2>1. r \in DOMAIN revs /\ g \in Replans /\ revs' = Append(table, row)
    BY <1>1 DEF Replanning, ActiveRevs
  <2>2. row.graph = h
    BY DEF Successor, NewRevision
  <2>3. /\ h.status = [n \in NodesOf(g) |-> IF n \in kept THEN revs[r].graph.status[n] ELSE g.status[n]]
        /\ h.claims = [n \in NodesOf(g) |-> IF n \in kept THEN revs[r].graph.claims[n] ELSE g.claims[n]]
    BY DEF Preserve
  <2>4. \A n \in kept : n \in NodesOf(revs[r].graph) /\ revs[r].graph.status[n] = "completed"
    BY DEF CompletedNodes, With
  <2> HIDE DEF closed, row, h, kept
  <2>5. NodesOf(h) = NodesOf(g)
    BY <2>3 DEF NodesOf
  <2>6. With(h, "running") = {}
    <3>1. With(g, "running") = {}
      BY <2>1 DEF PlainPlans
    <3> QED
      BY <2>3, <2>4, <2>5, <3>1 DEF With
  <2>7. PlainClaims(h)
    <3>1. PlainClaims(g) /\ PlainClaims(revs[r].graph)
      BY <2>1 DEF PlainPlans
    <3>2. ASSUME NEW n \in NodesOf(h), NEW c \in h.claims[n] PROVE PlainClaim(c)
      BY <2>3, <2>4, <2>5, <3>1 DEF PlainClaims
    <3> QED
      BY <3>2 DEF PlainClaims
  <2>8. DOMAIN table = DOMAIN revs
    BY <2>1
  <2>9. table = [i \in DOMAIN revs |-> table[i]]
    BY <2>1
  <2> HIDE DEF table
  <2>10. IsSeq(table)
    BY <2>9, SameLength DEF Shape
  <2>11. revs'[t] = row
    BY <2>1, <2>8, <2>10, OneMore
  <2> QED
    BY <2>2, <2>6, <2>7, <2>11
<1>2. ASSUME NEW g, Creating(g)
      PROVE  PlainClaims(revs'[t].graph) /\ With(revs'[t].graph, "running") = {}
  <2>1. g \in Plans /\ revs' = <<NewRevision(g, NoResults(g))>>
    BY <1>2 DEF Creating
  <2>2. revs'[t] = NewRevision(g, NoResults(g))
    BY <2>1
  <2>3. revs'[t].graph = g
    BY <2>2 DEF NewRevision
  <2> QED
    BY <2>1, <2>3 DEF PlainPlans
<1>3. ~Quiet
  BY DEF Quiet
<1>4. ASSUME NEW r, NEW n, NEW s, NEW result, Moving(r, n, s, result) PROVE FALSE
  BY <1>4 DEF Moving
<1>5. ASSUME NEW r, NEW n, Rewinding(r, n) PROVE FALSE
  BY <1>5 DEF Rewinding
<1>6. ASSUME NEW r, NEW s, Closing(r, s) PROVE FALSE
  BY <1>6 DEF Closing
<1> QED
  BY <1>1, <1>2, <1>3, <1>4, <1>5, <1>6 DEF PlanStep

\* What runs after a step ran before, or has been marked.
LEMMA RunsOn ==
  ASSUME Shape, PlanInv, PlanStep, NEW t \in DOMAIN revs
  PROVE  \/ With(revs'[t].graph, "running") \subseteq With(revs[t].graph, "running")
         \/ \E n \in NodesOf(revs[t].graph) :
              /\ MarkedOf(t, n)
              /\ With(revs'[t].graph, "running") \subseteq With(revs[t].graph, "running") \cup {n}
<1>1. revs'[t].graph = revs[t].graph
        => With(revs'[t].graph, "running") \subseteq With(revs[t].graph, "running")
  OBVIOUS
<1>2. CASE Quiet
  BY <1>1, <1>2 DEF Quiet, SameNodes
<1>3. ASSUME NEW r, NEW n, NEW s, NEW result, Moving(r, n, s, result)
      PROVE  \/ With(revs'[t].graph, "running") \subseteq With(revs[t].graph, "running")
             \/ /\ n \in NodesOf(revs[t].graph) /\ MarkedOf(t, n)
                /\ With(revs'[t].graph, "running") \subseteq With(revs[t].graph, "running") \cup {n}
  <2>1. /\ NodeSet(revs[r], runner[r], n, s, result, revs'[r]) /\ r \in DOMAIN revs
        /\ \A u \in DOMAIN revs : u # r => revs'[u] = revs[u]
        /\ revs[r].graph.status \in [NodesOf(revs[r].graph) -> NodeStatus]
    BY <1>3, MovingRow
  <2>2. n \in NodesOf(revs[r].graph) /\ (s = "running" => MarkedOf(r, n))
    BY <1>3 DEF Moving
  <2>3. CASE t # r
    BY <2>1, <2>3
  <2>4. CASE t = r
    <3>1. /\ NodesOf(revs'[t].graph) = NodesOf(revs[t].graph)
          /\ revs'[t].graph.status = [revs[t].graph.status EXCEPT ![n] = s]
      BY <2>1, <2>4 DEF NodeSet
    <3> QED
      BY <2>1, <2>2, <2>4, <3>1 DEF With
  <2> QED
    BY <2>3, <2>4
<1>4. ASSUME NEW r, NEW n, Rewinding(r, n)
      PROVE  With(revs'[t].graph, "running") \subseteq With(revs[t].graph, "running")
  <2>1. /\ r \in DOMAIN revs /\ \A u \in DOMAIN revs : u # r => revs'[u] = revs[u]
        /\ NodesOf(revs'[r].graph) = NodesOf(revs[r].graph)
        /\ revs'[r].graph.status = [revs[r].graph.status EXCEPT ![n] = "pending"]
        /\ revs[r].graph.status \in [NodesOf(revs[r].graph) -> NodeStatus]
    BY <1>4, RewindingRow
  <2> QED
    BY <2>1 DEF With
<1>5. ASSUME NEW r, NEW s, Closing(r, s)
      PROVE  With(revs'[t].graph, "running") \subseteq With(revs[t].graph, "running")
  <2>1. /\ r \in DOMAIN revs /\ s \in RevisionStatus
        /\ revs' = [revs EXCEPT ![r] = ClosedAs(revs[r], s)]
    BY <1>5 DEF Closing, ActiveRevs, RevisionStatus
  <2>2. revs'[r].graph = revs[r].graph
    BY <2>1, ClosingRow
  <2> QED
    BY <2>1, <2>2
<1>6. ASSUME NEW r, NEW g, Replanning(r, g)
      PROVE  With(revs'[t].graph, "running") \subseteq With(revs[t].graph, "running")
  BY <1>1, <1>6, ReplanningRows
<1>7. ASSUME NEW g, Creating(g) PROVE FALSE
  BY <1>7 DEF Creating
<1> QED
  BY <1>2, <1>3, <1>4, <1>5, <1>6, <1>7 DEF PlanStep

-----------------------------------------------------------------------------
(* The processes. *)

\* Whoever is to mark a batch has just found it, or has marked another node of it.
Marks(p) == \E l : Goto(p, l) /\ (l.pc = "mark" => StartBatch(p) \/ Mark(p))

LEMMA OnlyThenMarks ==
  ASSUME Shape, PlanInv, NEW p \in Procs, Work(p) \/ Crash(p) \/ \E r \in ActiveRevs : Look(p, r)
  PROVE  Marks(p)
<1>1. LocalFields \subseteq DOMAIN local[p]
  BY DEF Shape, KnownOf
<1>2. Goto(p, Idle) => Marks(p)
  BY DEF Idle, Marks
<1>3. ASSUME NEW s, s # "mark", Step(p, s) PROVE Marks(p)
  <2> DEFINE l == [local[p] EXCEPT !.pc = s]
  <2>1. Goto(p, l) /\ l.pc = s
    BY <1>1, <1>3 DEF Step, LocalFields
  <2> HIDE DEF l
  <2> QED
    BY <1>3, <2>1 DEF Marks
<1>4. Leave(p) => Marks(p)
  BY <1>3 DEF Leave
<1>5. ASSUME NEW l, Loop(p, l), LocalFields \subseteq DOMAIN l, l.pc # "mark" PROVE Marks(p)
  <2> DEFINE k == [l EXCEPT !.version = Row(p).version]
  <2>1. Goto(p, k) /\ k.pc = l.pc
    BY <1>5 DEF Loop, LocalFields
  <2> HIDE DEF k
  <2> QED
    BY <1>5, <2>1 DEF Marks
<1>6. ASSUME NEW n, NEW s, NEW result, NEW l, MoveNode(p, n, s, result, l),
             LocalFields \subseteq DOMAIN l, l.pc # "mark"
      PROVE  Marks(p)
  <2> DEFINE k == [l EXCEPT !.version = @ + 1, !.todo = @ \ {n}]
  <2>1. Leave(p) \/ Goto(p, k)
    BY <1>6 DEF MoveNode
  <2>2. k.pc = l.pc
    BY <1>6 DEF LocalFields
  <2> HIDE DEF k
  <2> QED
    BY <1>4, <1>6, <2>1, <2>2 DEF Marks
<1>7. CASE Mark(p)
  <2>1. \E l : Goto(p, l)
    BY <1>7 DEF Mark, MoveNode, Leave, Step
  <2> QED
    BY <1>7, <2>1 DEF Marks
<1>8. CASE StartBatch(p)
  <2>1. \E l : Goto(p, l)
    BY <1>8 DEF StartBatch, Loop
  <2> QED
    BY <1>8, <2>1 DEF Marks
<1>9. CASE Acquire(p)
  <2> DEFINE l == [local[p] EXCEPT !.pc = "loop", !.lease = Row(p).lease + 1, !.todo = {},
                                   !.end = None]
  <2>1. Goto(p, l) /\ l.pc = "loop"
    BY <1>1, <1>9 DEF Acquire, LocalFields
  <2> HIDE DEF l
  <2> QED
    BY <2>1 DEF Marks
<1>10. CASE LoseLease(p)
  BY <1>4, <1>10 DEF LoseLease
<1>11. CASE StopAt(p)
  <2> DEFINE l == [local[p] EXCEPT !.pc = "release"]
  <2>1. Loop(p, l) /\ l.pc = "release" /\ LocalFields \subseteq DOMAIN l
    BY <1>1, <1>11 DEF StopAt, LocalFields
  <2> HIDE DEF l
  <2> QED
    BY <1>5, <2>1
<1>12. CASE GiveUpBlocked(p)
  <2> DEFINE l == [local[p] EXCEPT !.pc = "skip", !.todo = Blocked(Row(p).graph), !.end = "failed"]
  <2>1. Loop(p, l) /\ l.pc = "skip" /\ LocalFields \subseteq DOMAIN l
    BY <1>1, <1>12 DEF GiveUpBlocked, LocalFields
  <2> HIDE DEF l
  <2> QED
    BY <1>5, <2>1
<1>13. CASE Conclude(p)
  <2> DEFINE e == IF With(Row(p).graph, "skipped") # {} THEN "failed" ELSE "completed"
             k == [local[p] EXCEPT !.pc = "release"]
             l == [local[p] EXCEPT !.pc = "close", !.end = e]
  <2>1. Loop(p, k) \/ Loop(p, l)
    BY <1>13 DEF Conclude
  <2>2. /\ k.pc = "release" /\ LocalFields \subseteq DOMAIN k
        /\ l.pc = "close" /\ LocalFields \subseteq DOMAIN l
    BY <1>1 DEF LocalFields
  <2> HIDE DEF k, l
  <2> QED
    BY <1>5, <2>1, <2>2
<1>14. CASE Beat(p)
  <2> DEFINE l == [local[p] EXCEPT !.pc = "write", !.version = Row(p).version]
  <2>1. Leave(p) \/ Goto(p, l)
    BY <1>14 DEF Beat
  <2>2. l.pc = "write"
    BY <1>1 DEF LocalFields
  <2> HIDE DEF l
  <2> QED
    BY <1>4, <2>1, <2>2 DEF Marks
<1>15. CASE Write(p)
  <2> DEFINE n == First(local[p].todo)
             s == local[p].out[n]
             to == IF local[p].todo # {n} THEN "beat" ELSE AfterBatch(local[p].out)
             l == [local[p] EXCEPT !.pc = to]
  <2>1. MoveNode(p, n, s, Record(p, s), l)
    BY <1>15 DEF Write
  <2>2. to # "mark"
    BY DEF AfterBatch
  <2> HIDE DEF to
  <2>3. l.pc # "mark" /\ LocalFields \subseteq DOMAIN l
    BY <1>1, <2>2 DEF LocalFields
  <2> HIDE DEF l, n, s
  <2> QED
    BY <1>6, <2>1, <2>3
<1>16. CASE Skip(p)
  <2>1. \/ \E n, result : MoveNode(p, n, "skipped", result, local[p])
        \/ \E s \in {"release", "close"} : Step(p, s)
    BY <1>16 DEF Skip
  <2>2. local[p].pc # "mark"
    BY <1>16 DEF Skip, At
  <2> QED
    BY <1>1, <1>3, <1>6, <2>1, <2>2
<1>17. CASE Close(p)
  <2>1. Step(p, "release") \/ Leave(p)
    BY <1>17 DEF Close
  <2> QED
    BY <1>3, <1>4, <2>1
<1>18. ASSUME NEW out, Run(p, out) PROVE Marks(p)
  <2> DEFINE l == [local[p] EXCEPT !.pc = "beat", !.todo = local[p].batch, !.out = out]
  <2>1. Goto(p, l) /\ l.pc = "beat"
    BY <1>1, <1>18 DEF Run, LocalFields
  <2> HIDE DEF l
  <2> QED
    BY <2>1 DEF Marks
<1>19. CASE Executing(p)
  BY <1>2, <1>7, <1>8, <1>9, <1>10, <1>11, <1>12, <1>13, <1>14, <1>15, <1>16, <1>17, <1>18, <1>19
     DEF Executing, Release, Marks
<1>20. ASSUME NEW r, Reread(p, r) PROVE Marks(p)
  <2> DEFINE free == ~revs[r].live
             l == [local[p] EXCEPT !.pc = "resuming", !.rev = r, !.version = revs[r].version,
                                   !.free = free]
  <2>1. Goto(p, l)
    BY <1>20 DEF Reread
  <2> HIDE DEF free
  <2>2. l.pc = "resuming"
    BY <1>1 DEF LocalFields
  <2> HIDE DEF l
  <2> QED
    BY <2>1, <2>2 DEF Marks
<1>21. ASSUME NEW n, Answer(p, n) PROVE Marks(p)
  <2> DEFINE l == [local[p] EXCEPT !.pc = "answered", !.todo = {n}]
  <2>1. Goto(p, l) /\ l.pc = "answered"
    BY <1>1, <1>21 DEF Answer, LocalFields
  <2> HIDE DEF l
  <2> QED
    BY <2>1 DEF Marks
<1>22. CASE Serving(p)
  BY <1>2, <1>20, <1>21, <1>22
     DEF Serving, GiveUp, FailRevision, Settle, Replan, Unpark, Rewind, RewindTo, Accept, Requeue,
         Resume
<1>23. ASSUME NEW r, Look(p, r) PROVE Marks(p)
  <2> DEFINE todo == Unsettled(revs[r].graph)
             end == Halt(revs[r].graph)
             free == LeaseFree(revs[r], p)
             l == [Idle EXCEPT !.pc = "looked", !.rev = r, !.version = revs[r].version,
                               !.lease = revs[r].lease, !.free = free, !.todo = todo, !.end = end]
  <2>1. Goto(p, l)
    BY <1>23 DEF Look
  <2> HIDE DEF todo, end, free
  <2>2. l.pc = "looked"
    BY DEF Idle
  <2> HIDE DEF l
  <2> QED
    BY <2>1, <2>2 DEF Marks
<1> QED
  BY <1>2, <1>19, <1>22, <1>23 DEF Work, Crash, Marks

\* The others stay where they are.
LEMMA MarkLocals ==
  ASSUME Shape, PlanInv, [Next]_vars, NEW q \in Procs, local'[q].pc = "mark"
  PROVE  local'[q] = local[q] \/ StartBatch(q) \/ Mark(q)
<1>1. CASE UNCHANGED local
  BY <1>1
<1>2. ASSUME NEW p \in Procs, Work(p) \/ Crash(p) \/ \E r \in ActiveRevs : Look(p, r)
      PROVE  local'[q] = local[q] \/ StartBatch(q) \/ Mark(q)
  <2>1. PICK l : Goto(p, l) /\ (l.pc = "mark" => StartBatch(p) \/ Mark(p))
    BY <1>2, OnlyThenMarks DEF Marks
  <2>2. local'[p] = l /\ \A m \in Procs : m # p => local'[m] = local[m]
    BY <2>1, Goes
  <2> QED
    BY <2>1, <2>2
<1>3. CASE Next
  BY <1>1, <1>2, <1>3 DEF Next, Lapse, Create
<1> QED
  BY <1>1, <1>3 DEF vars

-----------------------------------------------------------------------------
(* Each step keeps them apart. *)

\* The rows.
LEMMA RowsApart ==
  ASSUME Shape, PlanInv, SharedInv, PlainPlans, PlanStep, NEW t \in DOMAIN revs'
  PROVE  PlainClaims(revs'[t].graph) /\ Apart(revs'[t].graph, With(revs'[t].graph, "running"))
<1>1. CASE t \notin DOMAIN revs
  BY <1>1, RowsBegin DEF SharedInv, Apart
<1>2. CASE t \in DOMAIN revs
  <2> DEFINE g == revs[t].graph
             h == revs'[t].graph
  <2>1. SameClaims(g, h)
    BY <1>2, RowsFollow DEF RowFollows
  <2>2. PlainClaims(g) /\ Apart(g, With(g, "running"))
    BY <1>2 DEF SharedInv
  <2>3. CASE With(h, "running") \subseteq With(g, "running")
    <3>1. Apart(g, With(h, "running"))
      BY <2>2, <2>3 DEF Apart
    <3> QED
      BY <2>1, <2>2, <3>1, StayApart
  <2>4. ASSUME NEW n, MarkedOf(t, n), With(h, "running") \subseteq With(g, "running") \cup {n}
        PROVE  PlainClaims(h) /\ Apart(h, With(h, "running"))
    <3>1. PICK p \in Procs : /\ local[p].pc = "mark" /\ local[p].rev = t
                             /\ local[p].version = revs[t].version /\ n \in local[p].todo
      BY <2>4 DEF MarkedOf
    <3>2. Apart(g, local[p].batch) /\ With(g, "running") \subseteq local[p].batch
      BY <3>1 DEF SharedInv, BatchApart, Row
    <3>3. local[p].todo \subseteq local[p].batch
      BY <3>1 DEF PlanInv, PlaceOf, BatchOf
    <3>4. Apart(g, With(h, "running"))
      BY <2>4, <3>1, <3>2, <3>3 DEF Apart
    <3> QED
      BY <2>1, <2>2, <3>4, StayApart
  <2> QED
    BY <1>2, <2>3, <2>4, RunsOn
<1> QED
  BY <1>1, <1>2

\* A process that stays where it is.
LEMMA StaysApart ==
  ASSUME Shape, PlanInv, SharedInv, PlanStep, NEW q \in Procs, local'[q] = local[q]
  PROVE  BatchApart(local[q], revs'[local[q].rev])
<1> SUFFICES ASSUME local[q].pc = "mark" PROVE BatchApart(local[q], revs'[local[q].rev])
  BY DEF BatchApart
<1> DEFINE r == local[q].rev
<1>1. r \in DOMAIN revs /\ Row(q) = revs[r] /\ PlaceOf(q, local[q], revs[r], runner[r])
  BY OwnRow
<1>2. RowFollows(revs[r], revs'[r])
  BY <1>1, RowsFollow
<1>3. /\ Apart(revs[r].graph, local[q].batch)
      /\ local[q].version = revs[r].version
           => With(revs[r].graph, "running") \subseteq local[q].batch
  BY <1>1 DEF SharedInv, BatchApart
<1>4. local[q].version \in Nat /\ local[q].version <= revs[r].version
  BY <1>1 DEF PlaceOf, Reads
<1>5. Apart(revs'[r].graph, local[q].batch)
  BY <1>2, <1>3, StayApart DEF RowFollows
<1>6. local[q].version = revs'[r].version
        => With(revs'[r].graph, "running") \subseteq local[q].batch
  <2>1. /\ revs[r].version \in Nat /\ revs[r].version <= revs'[r].version
        /\ revs'[r].version = revs[r].version => revs'[r].graph = revs[r].graph
    BY <1>2 DEF RowFollows
  <2> SUFFICES ASSUME local[q].version = revs'[r].version
               PROVE  With(revs'[r].graph, "running") \subseteq local[q].batch
    OBVIOUS
  <2>2. revs'[r].version = revs[r].version
    BY <1>4, <2>1
  <2> QED
    BY <1>3, <2>1, <2>2
<1> QED
  BY <1>5, <1>6 DEF BatchApart

\* An executor that starts a batch: nothing runs.
LEMMA StartsApart ==
  ASSUME Shape, PlanInv, NEW q \in Procs, StartBatch(q)
  PROVE  BatchApart(local'[q], revs'[local'[q].rev])
<1> DEFINE r == local[q].rev
           g == Row(q).graph
<1>1. local[q].pc = "loop" /\ ~Stops(g)
  BY DEF StartBatch, At
<1>2. /\ r \in DOMAIN revs /\ RowOk(revs[r]) /\ Row(q) = revs[r] /\ NodesOf(g) \subseteq Nat
      /\ LocalFields \subseteq DOMAIN local[q]
  BY <1>1, OwnRow
<1>3. PICK batch \in SUBSET Ready(g) :
        /\ IsBatch(g, batch, Limit)
        /\ Loop(q, [local[q] EXCEPT !.pc = "mark", !.todo = batch, !.batch = batch])
  BY DEF StartBatch
<1> DEFINE l == [local[q] EXCEPT !.pc = "mark", !.todo = batch, !.batch = batch]
           k == [l EXCEPT !.version = Row(q).version]
<1>4. Goto(q, k) /\ revs' = [revs EXCEPT ![r] = Beaten(Row(q))]
  BY <1>3 DEF Loop, SetRow
<1>5. k.rev = r /\ k.batch = batch
  <2>1. LocalFields \subseteq DOMAIN l /\ l.rev = r /\ l.batch = batch
    BY <1>2 DEF LocalFields
  <2> HIDE DEF l
  <2> QED
    BY <2>1 DEF LocalFields
<1> HIDE DEF k
<1>6. local'[q] = k
  BY <1>4, Goes
<1>7. revs'[r].graph = g
  BY <1>2, <1>4, BeatenRow
<1>8. Apart(g, batch)
  BY <1>2, <1>3, BatchesApart
<1>9. With(g, "running") = {}
  BY <1>1 DEF Stops, Unsettled
<1> QED
  BY <1>5, <1>6, <1>7, <1>8, <1>9 DEF BatchApart

\* An executor that has marked a node of its batch: only nodes of the batch run.
LEMMA MarksApart ==
  ASSUME Shape, PlanInv, SharedInv, PlanStep, NEW q \in Procs, Mark(q), local'[q].pc = "mark"
  PROVE  BatchApart(local'[q], revs'[local'[q].rev])
<1> DEFINE r == local[q].rev
           n == First(local[q].todo)
           to == IF local[q].todo = {n} THEN "run" ELSE "mark"
           l == [local[q] EXCEPT !.pc = to]
           new == NodeMoved(revs[r], n, "running", None)
<1>1. local[q].pc = "mark" /\ MoveNode(q, n, "running", None, l)
  BY DEF Mark, At
<1>2. /\ r \in DOMAIN revs /\ RowOk(revs[r]) /\ RowTyped(revs[r], runner[r]) /\ Row(q) = revs[r]
      /\ PlaceOf(q, local[q], revs[r], runner[r]) /\ NodesOf(revs[r].graph) \subseteq Nat
      /\ LocalFields \subseteq DOMAIN local[q]
  BY <1>1, OwnRow
<1>3. LocalFields \subseteq DOMAIN l /\ l.rev = r /\ l.batch = local[q].batch
  BY <1>2 DEF LocalFields
<1>4. ~Leave(q)
  <2> DEFINE k == [local[q] EXCEPT !.pc = "release"]
  <2>1. Leave(q) => Goto(q, k)
    BY DEF Leave, Step
  <2>2. k.pc = "release"
    BY <1>2 DEF LocalFields
  <2> HIDE DEF k
  <2> QED
    BY <2>1, <2>2, Goes
<1> HIDE DEF l
<1>5. Wrote(q, n, "running", None, l)
  BY <1>1, <1>3, <1>4, MoveNodeIs
<1>6. /\ local[q].version = revs[r].version /\ local'[q].rev = r
      /\ local'[q].batch = local[q].batch /\ revs'[r] = new
  BY <1>2, <1>3, <1>5 DEF Wrote
<1>7. n \in local[q].batch /\ n \in NodesOf(revs[r].graph)
  <2>1. /\ local[q].todo # {} /\ local[q].todo \subseteq local[q].batch
        /\ local[q].batch \subseteq NodesOf(revs[r].graph)
    BY <1>1, <1>2 DEF PlaceOf, BatchOf
  <2>2. n \in local[q].todo
    BY <1>2, <2>1, FirstIsIn
  <2> QED
    BY <2>1, <2>2
<1> HIDE DEF n
<1>8. /\ Apart(revs[r].graph, local[q].batch)
      /\ With(revs[r].graph, "running") \subseteq local[q].batch
  BY <1>1, <1>2, <1>6 DEF SharedInv, BatchApart
<1>9. Apart(revs'[r].graph, local[q].batch)
  BY <1>2, <1>8, RowsFollow, StayApart DEF RowFollows
<1>10. With(revs'[r].graph, "running") \subseteq local[q].batch
  <2>1. NodeSet(revs[r], runner[r], n, "running", None, new)
    BY <1>2, <1>7, NodeMovedTyped, Zenon DEF NodeStatus
  <2>2. revs[r].graph.status \in [NodesOf(revs[r].graph) -> NodeStatus]
    BY <1>2 DEF RowTyped, IsPlanGraph
  <2> HIDE DEF new
  <2> QED
    BY <1>6, <1>7, <1>8, <2>1, <2>2 DEF NodeSet, With
<1> QED
  BY <1>6, <1>9, <1>10 DEF BatchApart

\* Nothing is planned yet, and then each step keeps them apart.
LEMMA SharedStep ==
  ASSUME Shape, PlanInv, SharedInv, PlainPlans, [Next]_vars, PlanStep
  PROVE  SharedInv'
<1>1. \A t \in DOMAIN revs' :
        PlainClaims(revs'[t].graph) /\ Apart(revs'[t].graph, With(revs'[t].graph, "running"))
  BY RowsApart
<1>2. ASSUME NEW q \in Procs PROVE BatchApart(local'[q], revs'[local'[q].rev])
  <2>1. CASE local'[q].pc # "mark"
    BY <2>1 DEF BatchApart
  <2>2. CASE local'[q].pc = "mark"
    BY <2>2, MarkLocals, StaysApart, StartsApart, MarksApart
  <2> QED
    BY <2>1, <2>2
<1> QED
  BY <1>1, <1>2 DEF SharedInv, Row

\* Two nodes of a revision that run at a time never write what the other reads or writes, in
\* whatever spelling their claims name it, but for claims of the whole workspace or of what
\* lies outside of it (NothingShared), for plans whose nodes do not run yet.
THEOREM NothingIsShared == ASSUME PlainPlans PROVE Spec => []NothingShared
<1>1. Init => SharedInv
  <2> SUFFICES ASSUME Init PROVE SharedInv
    OBVIOUS
  <2>1. DOMAIN revs = {} /\ \A p \in Procs : local[p].pc = "idle"
    BY DEF Init, Idle
  <2> QED
    BY <2>1 DEF SharedInv, BatchApart
<1>2. Shape /\ PlanInv /\ SharedInv /\ [Next]_vars => SharedInv'
  BY SharedStep, PlanNext
<1>3. SharedInv => NothingShared
  <2> SUFFICES ASSUME SharedInv, NEW r \in DOMAIN revs,
                      NEW m \in With(revs[r].graph, "running"),
                      NEW n \in With(revs[r].graph, "running"), m # n,
                      NEW c \in ClaimsOf(revs[r].graph, m), NEW d \in ClaimsOf(revs[r].graph, n),
                      NamesBelow(c), NamesBelow(d), {c.mode, d.mode} # {"read"}, Meet(c, d)
               PROVE  FALSE
    BY DEF NothingShared
  <2> DEFINE g == revs[r].graph
  <2>1. ~ResourcesConflict(g, m, n) /\ PlainClaims(g)
    BY DEF SharedInv, Apart
  <2>2. ASSUME NEW i \in NodesOf(g), NEW e \in ClaimsOf(g, i) PROVE PlainClaim(e)
    <3>1. CASE e \in g.claims[i]
      BY <2>1, <3>1 DEF PlainClaims
    <3>2. CASE e.key = Workspace
      BY <3>2 DEF PlainClaim, Workspace, FileSchemes
    <3> QED
      BY <2>2, <3>1, <3>2 DEF ClaimsOf
  <2>3. PlainClaim(c) /\ PlainClaim(d)
    BY <2>2 DEF With
  <2>4. ~(c.mode = "read" /\ d.mode = "read")
    OBVIOUS
  <2>5. ClaimsConflict(c, d)
    BY <2>3, <2>4, MeetConflicts
  <2> QED
    BY <2>1, <2>5 DEF ResourcesConflict
<1>4. Spec => [](Shape /\ PlanInv)
  BY PlanKept, PTL
<1> QED
  BY <1>1, <1>2, <1>3, <1>4, PTL DEF Spec
=============================================================================
