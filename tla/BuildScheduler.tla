--------------------------- MODULE BuildScheduler ---------------------------
(***************************************************************************)
(* The materialization of one aggregation scope: the loop of               *)
(* _build_trajectories in pipeline.py, the admission in build_budget.py    *)
(* and put_trajectory_with_origins in state.py.  Roots are submitted to a  *)
(* process pool in order, at most two per worker and as far as memory      *)
(* admits; they finish in any order; they are stored in the order of       *)
(* submission, because a root that repeats a trajectory meets the rows of  *)
(* the earlier one.  With one worker there is no pool: each root is        *)
(* materialized and stored on the spot.                                    *)
(*                                                                         *)
(* A root carries what storing tells apart: trajectory id, disposition     *)
(* rank, representative key and source paths.  Memory is in abstract       *)
(* units; a sample is what the cgroup and the process tree report.         *)
(*                                                                         *)
(* A definition named Operation_Deviation is a deviation of Operation that *)
(* a property must detect; no specification uses it.                       *)
(***************************************************************************)
EXTENDS Integers, Sequences, FiniteSets

CONSTANTS Roots,        \* the scope's roots, in submission order
          Estimates,    \* _estimate_root_working_bytes of each
          WorkerCounts, \* build_workers settings
          Samples,      \* memory samples the machine may show
          Target, Elastic,
          Unknown       \* a metric the machine does not report

ASSUME SchedulerAssumption ==
  /\ Roots \in Seq([id : STRING, rank : 0..2, key : Nat, sources : SUBSET STRING])
  /\ Estimates \in [1..Len(Roots) -> Nat]
  /\ WorkerCounts \subseteq Nat \ {0}
  /\ Unknown \notin Nat
  /\ Samples \subseteq [tree  : Nat \cup {Unknown},
                        rss   : Nat,
                        limit : Nat \cup {Unknown},
                        other : Nat \cup {Unknown}]
  /\ Target \in Nat /\ Elastic \in Nat /\ Target <= Elastic

Last == Len(Roots)

VARIABLES pc,
          workers,      \* build_workers of this run
          next,         \* next_item
          pending,      \* submitted roots, oldest first
          finished,     \* those whose future is done
          failed,       \* those whose future holds an exception
          reserved,     \* bytes reserved by pending
          baseline,     \* _baseline_tree, Unknown before the first admission
          stored,       \* number of roots stored
          trajectories, \* trajectory id -> <<rank, key>>
          origins       \* origin rows: trajectory id, source, rank

tables == <<stored, trajectories, origins>>
vars == <<pc, workers, next, pending, finished, failed, reserved, baseline, tables>>

Pending == {pending[i] : i \in DOMAIN pending}

TypeOK ==
  /\ pc \in {"fill", "wait", "drain", "done", "refused"}
  /\ workers \in WorkerCounts
  /\ next \in 1..Last + 1
  /\ pending \in Seq(1..Last)
  /\ finished \subseteq 1..Last /\ failed \subseteq finished
  /\ reserved \in Nat
  /\ baseline \in Nat \cup {Unknown}
  /\ stored \in 0..Last
  /\ \A t \in DOMAIN trajectories : trajectories[t] \in (0..2) \X Nat

Init ==
  /\ pc = "fill"
  /\ workers \in WorkerCounts
  /\ next = 1 /\ pending = <<>> /\ finished = {} /\ failed = {}
  /\ reserved = 0 /\ baseline = Unknown
  /\ stored = 0 /\ trajectories = <<>> /\ origins = {}

-----------------------------------------------------------------------------
(* put_trajectory_with_origins on the tables d: the better disposition and *)
(* then the smaller key keep the payload; an origin row stays as written.  *)
Before(a, b) == a[1] < b[1] \/ (a[1] = b[1] /\ a[2] < b[2])

PutTrajectory(d, r) ==
  LET new  == <<r.rank, r.key>>
      wins == r.id \notin DOMAIN d.trajectories \/ Before(new, d.trajectories[r.id])
  IN [ trajectories |-> [t \in DOMAIN d.trajectories \cup {r.id} |->
                           IF t = r.id /\ wins THEN new ELSE d.trajectories[t]],
       origins      |-> d.origins \cup
                          {[id |-> r.id, source |-> s, rank |-> r.rank] :
                             s \in {u \in r.sources : \A o \in d.origins :
                                      ~(o.id = r.id /\ o.source = u)}} ]

StoreRoot(i) ==
  LET d == PutTrajectory([trajectories |-> trajectories, origins |-> origins], Roots[i])
  IN /\ trajectories' = d.trajectories
     /\ origins' = d.origins
     /\ stored' = stored + 1

-----------------------------------------------------------------------------
(* BuildBudget.can_submit                                                  *)
Least(a, b) == IF a <= b THEN a ELSE b
Greatest(a, b) == IF a >= b THEN a ELSE b

Ceiling(s) ==
  IF s.limit # Unknown /\ s.limit > 0 THEN Least(Elastic, (3 * s.limit) \div 4)
                                      ELSE Elastic

Tree(s) == IF s.tree = Unknown THEN 0 ELSE s.tree

Available(s) ==
  IF s.limit = Unknown \/ s.other = Unknown THEN Unknown
  ELSE Greatest(0, s.limit - s.other - s.limit \div 8)

(* The first sample fixes the baseline: the process tree, or without it    *)
(* the resident set of this process.                                       *)
Idle(s) == IF Tree(s) > 0 THEN Tree(s) ELSE s.rss

Baseline(s) == IF baseline = Unknown THEN Idle(s) ELSE baseline

Projected_TreeOnly(s, estimate) == Tree(s) + estimate

Projected(s, estimate) ==
  Greatest(Tree(s) + estimate, Baseline(s) + reserved + estimate)

Admitted(s, estimate) ==
  LET room    == Available(s)
      nominal == IF room = Unknown \/ room >= Projected(s, estimate)
                 THEN Ceiling(s) ELSE Least(Target, Ceiling(s))
  IN /\ Projected(s, estimate) <= nominal
     /\ room # Unknown => Projected(s, estimate) <= room

Oversized(s, estimate) == estimate > Ceiling(s)

-----------------------------------------------------------------------------
Fillable == pc = "fill" /\ next <= Last /\ Len(pending) < 2 * workers

Submit(s) ==
  /\ Fillable /\ workers > 1
  /\ ~Oversized(s, Estimates[next]) /\ Admitted(s, Estimates[next])
  /\ pending' = Append(pending, next)
  /\ reserved' = reserved + Estimates[next]
  /\ baseline' = Baseline(s)
  /\ next' = next + 1
  /\ UNCHANGED <<pc, workers, finished, failed, tables>>

(* No pool: the coordinator materializes the root itself.                  *)
RunInline(s) ==
  /\ Fillable /\ workers = 1
  /\ ~Oversized(s, Estimates[next]) /\ Admitted(s, Estimates[next])
  /\ baseline' = Baseline(s)
  /\ \/ /\ StoreRoot(next)
        /\ finished' = finished \cup {next}
        /\ UNCHANGED <<pc, failed>>
     \/ /\ pc' = "refused"
        /\ finished' = finished \cup {next}
        /\ failed' = failed \cup {next}
        /\ UNCHANGED tables
  /\ next' = next + 1
  /\ UNCHANGED <<workers, pending, reserved>>

(* BuildMemoryError: a source of the root has no known size.               *)
RefuseUnknownSize ==
  /\ Fillable
  /\ pc' = "refused"
  /\ UNCHANGED <<workers, next, pending, finished, failed, reserved, baseline, tables>>

(* BuildMemoryError: the root can never fit, or nothing of this job can    *)
(* release what it waits for.                                              *)
RefuseMemory(s) ==
  /\ Fillable
  /\ \/ Oversized(s, Estimates[next])
     \/ ~Admitted(s, Estimates[next]) /\ pending = <<>>
  /\ pc' = "refused"
  /\ baseline' = IF Oversized(s, Estimates[next]) THEN baseline ELSE Baseline(s)
  /\ UNCHANGED <<workers, next, pending, finished, failed, reserved, tables>>

StopFilling_Idle ==
  /\ pc = "fill"
  /\ \/ pending # <<>> /\ ~Fillable
     \/ Fillable /\ \E s \in Samples :
                      ~Oversized(s, Estimates[next]) /\ ~Admitted(s, Estimates[next])
  /\ pc' = "wait"
  /\ UNCHANGED <<workers, next, pending, finished, failed, reserved, baseline, tables>>

(* The window is full, the roots are exhausted, or memory says wait.       *)
StopFilling ==
  /\ pc = "fill"
  /\ pending # <<>>
  /\ \/ ~Fillable
     \/ Fillable /\ \E s \in Samples :
                      ~Oversized(s, Estimates[next]) /\ ~Admitted(s, Estimates[next])
  /\ pc' = "wait"
  /\ UNCHANGED <<workers, next, pending, finished, failed, reserved, baseline, tables>>

OldestDone == pending # <<>> /\ Head(pending) \in finished

(* wait(timeout=5.0) on the oldest future; on a timeout memory is tried    *)
(* again.                                                                  *)
Wait ==
  /\ pc = "wait"
  /\ pc' = IF OldestDone THEN "drain" ELSE "fill"
  /\ UNCHANGED <<workers, next, pending, finished, failed, reserved, baseline, tables>>

StoreOldest_NewestEstimate ==
  /\ pc = "drain"
  /\ OldestDone
  /\ pending' = Tail(pending)
  /\ reserved' = reserved - Estimates[next - 1]
  /\ IF Head(pending) \in failed
     THEN pc' = "refused" /\ UNCHANGED tables
     ELSE StoreRoot(Head(pending)) /\ UNCHANGED pc
  /\ UNCHANGED <<workers, next, finished, failed, baseline>>

StoreOldest_SkipsFailed ==
  /\ pc = "drain"
  /\ OldestDone
  /\ pending' = Tail(pending)
  /\ reserved' = reserved - Estimates[Head(pending)]
  /\ IF Head(pending) \in failed THEN UNCHANGED tables ELSE StoreRoot(Head(pending))
  /\ UNCHANGED <<pc, workers, next, finished, failed, baseline>>

StoreOldest_AnyDone ==
  /\ pc = "drain"
  /\ \E i \in Pending \cap (finished \ failed) :
       /\ pending' = SelectSeq(pending, LAMBDA k : k # i)
       /\ reserved' = reserved - Estimates[i]
       /\ StoreRoot(i)
  /\ UNCHANGED <<pc, workers, next, finished, failed, baseline>>

StoreOldest ==
  /\ pc = "drain"
  /\ OldestDone
  /\ pending' = Tail(pending)
  /\ reserved' = reserved - Estimates[Head(pending)]
  /\ IF Head(pending) \in failed
     THEN pc' = "refused" /\ UNCHANGED tables
     ELSE StoreRoot(Head(pending)) /\ UNCHANGED pc
  /\ UNCHANGED <<workers, next, finished, failed, baseline>>

StopDraining ==
  /\ pc = "drain"
  /\ ~OldestDone
  /\ pc' = "fill"
  /\ UNCHANGED <<workers, next, pending, finished, failed, reserved, baseline, tables>>

EndScope ==
  /\ pc = "fill"
  /\ next > Last /\ pending = <<>>
  /\ pc' = "done"
  /\ UNCHANGED <<workers, next, pending, finished, failed, reserved, baseline, tables>>

(* A pool process ends a root; the pool takes roots in order, so that a    *)
(* root runs when fewer than workers earlier ones are unfinished.  A root  *)
(* in failed has raised, or raises when its outcome is read or stored.     *)
Unfinished == Pending \ finished

Finish(i) ==
  /\ pc \notin {"done", "refused"}
  /\ i \in Unfinished
  /\ Cardinality({k \in Unfinished : k < i}) < workers
  /\ finished' = finished \cup {i}
  /\ failed' \in {failed, failed \cup {i}}
  /\ UNCHANGED <<pc, workers, next, pending, reserved, baseline, tables>>

Coordinate ==
  \/ \E s \in Samples : Submit(s) \/ RunInline(s) \/ RefuseMemory(s)
  \/ RefuseUnknownSize \/ StopFilling \/ Wait \/ StoreOldest \/ StopDraining \/ EndScope

Next == Coordinate \/ \E i \in 1..Last : Finish(i)

Spec == Init /\ [][Next]_vars

-----------------------------------------------------------------------------
(* What storing the first n roots one after the other leaves.              *)
Serial ==
  LET after[n \in 0..Last] ==
        IF n = 0 THEN [trajectories |-> <<>>, origins |-> {}]
        ELSE PutTrajectory(after[n - 1], Roots[n])
  IN after

(* Safety: whatever finishes first, the tables are those of a serial run - *)
(* same winner for a repeated trajectory, same disposition for a shared    *)
(* origin - after every root and not only at the end; and the queue and    *)
(* its reservations are what TypeOK says.                                  *)
SameAsSerial ==
  /\ TypeOK
  /\ [trajectories |-> trajectories, origins |-> origins] = Serial[stored]

(* Safety: a scope is done only when every root is stored; a failed root   *)
(* refuses the build instead of being skipped.                             *)
FailClosed == pc = "done" => stored = Last /\ failed = {}

(* Safety: the pending roots together with the idle process tree stay      *)
(* below the elastic ceiling, however the samples vary between admissions. *)
BudgetRespected == pending # <<>> => baseline + reserved <= Elastic
=============================================================================
