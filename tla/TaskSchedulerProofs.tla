------------------------ MODULE TaskSchedulerProofs -------------------------
(***************************************************************************)
(* Proofs about TaskStore (StoreSpec), for any tasks, runs and keys, and   *)
(* about TaskScheduler, which works on such a store, for any batches and   *)
(* any number of failed writes, restarts, cancellations, mode changes and  *)
(* shutdowns.                                                              *)
(***************************************************************************)
EXTENDS TaskScheduler, FiniteSetTheorems, TLAPS

-----------------------------------------------------------------------------
(* The task store, for every set of tasks, runs and keys.                  *)

(* A task that was not created yet is as createBatch expects it.           *)
AbsentIsFresh == \A t \in Task : task[t].status = "absent" => task[t] = Absent

(* The inductive invariant.  DependenciesFirst survives a new dependency   *)
(* only because that task is pending, and a completed task only because    *)
(* nothing changes it; that an unfinished task cannot be waited for in a   *)
(* circle needs the validated graph.                                       *)
StoreInv ==
    /\ StoreTypeOK
    /\ AbsentIsFresh
    /\ ValidGraph(task)
    /\ DependenciesFirst
    /\ OneTaskPerRun

(* The record of a task that leaves its run, and of one that is updated.   *)
LEMMA LeftRecord ==
    ASSUME NEW rec \in Records, NEW s \in Statuses
    PROVE  /\ Left(rec, s) \in Records
           /\ Left(rec, s).status = s
           /\ Left(rec, s).owner = NoRun
           /\ Left(rec, s).blockedBy = rec.blockedBy
           /\ Left(rec, s).blocks = rec.blocks
           /\ Left(rec, s).version = rec.version + 1
           /\ Left(rec, s).keys = rec.keys
<1>1. /\ rec.version + 1 \in Nat
      /\ AfterFailure(rec) \in Statuses
  BY DEF Records, AfterFailure, Statuses
<1>2. Left(rec, s) \in Records
  BY <1>1, Zenon DEF Records, Left
<1> QED
  BY <1>2 DEF Records, Left

LEMMA UpdatedRecord ==
    ASSUME NEW rec \in Records, NEW key \in Key
    PROVE  /\ Updated(rec, key) \in Records
           /\ Updated(rec, key).status = rec.status
           /\ Updated(rec, key).owner = rec.owner
           /\ Updated(rec, key).blockedBy = rec.blockedBy
           /\ Updated(rec, key).blocks = rec.blocks
           /\ Updated(rec, key).version = rec.version + 1
           /\ key \in Updated(rec, key).keys
<1>1. rec.version + 1 \in Nat /\ rec.keys \cup {key} \in SUBSET Key
  BY DEF Records
<1>2. Updated(rec, key) \in Records
  BY <1>1, Zenon DEF Records, Updated
<1> QED
  BY <1>2 DEF Records, Updated

LEMMA CreatedRecord ==
    ASSUME NEW deps \in SUBSET Task, NEW limit \in AttemptLimits
    PROVE  /\ Created(deps, limit) \in Records
           /\ Created(deps, limit).status = "pending"
           /\ Created(deps, limit).owner = NoRun
           /\ Created(deps, limit).blockedBy = deps
           /\ Created(deps, limit).blocks = {}
  BY NoRunAssumption, AttemptLimitsAssumption DEF Created, Absent, Records, Statuses

LEMMA FailureStatus == \A rec : AfterFailure(rec) \in {"pending", "failed"}
  BY DEF AfterFailure

(* A step that keeps every dependency keeps the graph valid.               *)
LEMMA SameEdges ==
    ASSUME NEW g, NEW h,
           ValidGraph(g),
           \A t \in Task : h[t].blockedBy = g[t].blockedBy /\ h[t].blocks = g[t].blocks,
           \A t \in Task : g[t].status # "absent" => h[t].status # "absent",
           \A t \in Task : g[t].blockedBy \subseteq Task
    PROVE  ValidGraph(h)
<1>1. \A t \in Task : \A d \in h[t].blockedBy : h[d].status # "absent"
  BY DEF ValidGraph
<1>2. Acyclic(h) /\ Mirrored(h)
  BY DEF ValidGraph, Acyclic, Mirrored
<1> QED
  BY <1>1, <1>2 DEF ValidGraph

(* What an operation does to the tasks it changes, where no dependency     *)
(* changes: they exist, are not final, and are started, finished or failed *)
(* only with their dependencies completed.                                 *)
Advances(u) ==
    /\ Cancellable(u)
    /\ task'[u].status \in Statuses
    /\ task'[u].owner \in IF task'[u].status = "running" THEN issued' ELSE {NoRun}
    /\ task'[u].blockedBy = task[u].blockedBy /\ task'[u].blocks = task[u].blocks
    /\ task'[u].status \in {"running", "completed", "failed"} =>
          \A d \in task[u].blockedBy : task[d].status = "completed"

LEMMA AdvanceKeepsInvariant ==
    ASSUME StoreInv,
           task' \in [Task -> Records],
           issued \subseteq issued', issued' \subseteq Run,
           \A u \in Task : task'[u] = task[u] \/ Advances(u)
    PROVE  StoreTypeOK' /\ AbsentIsFresh' /\ ValidGraph(task)' /\ DependenciesFirst'
<1> USE DEF StoreInv
<1>1. \A u \in Task : task[u].blockedBy \subseteq Task
  BY DEF StoreTypeOK, Records
<1>2. \A u \in Task : task'[u].blockedBy = task[u].blockedBy /\ task'[u].blocks = task[u].blocks
  BY DEF Advances
<1>3. \A u \in Task : task[u].status = "completed" => task'[u].status = "completed"
  BY DEF Advances, Cancellable
<1>4. StoreTypeOK'
  BY DEF StoreTypeOK, Advances
<1>5. AbsentIsFresh'
  BY DEF AbsentIsFresh, Advances, Statuses
<1>6. ValidGraph(task)'
  <2>1. \A u \in Task : task[u].status # "absent" => task'[u].status # "absent"
    BY DEF Advances, Statuses
  <2> QED
    BY <1>1, <1>2, <2>1, SameEdges
<1>7. DependenciesFirst'
  BY <1>1, <1>2, <1>3 DEF DependenciesFirst, Advances
<1> QED
  BY <1>4, <1>5, <1>6, <1>7

(* As long as no run is given a task, each keeps the one it has.           *)
LEMMA NoNewOwner ==
    ASSUME OneTaskPerRun,
           \A u \in Task : task'[u].status = "running" =>
               task[u].status = "running" /\ task'[u].owner = task[u].owner,
           \A u \in Task : task'[u].owner = task[u].owner \/ task'[u].owner = NoRun,
           \A u \in Task : task[u].status = "running" => task[u].owner # NoRun
    PROVE  OneTaskPerRun'
  BY DEF OneTaskPerRun

(* A step that changes one record, to one that has no new owner.           *)
LEMMA LocalStep ==
    ASSUME StoreInv, NEW t \in Task, NEW rec \in Records,
           task' = [task EXCEPT ![t] = rec],
           issued' = issued,
           Cancellable(t),
           rec.blockedBy = task[t].blockedBy, rec.blocks = task[t].blocks,
           \/ rec.status \in {"pending", "completed", "failed", "cancelled"} /\ rec.owner = NoRun
           \/ rec.status = task[t].status /\ rec.owner = task[t].owner,
           rec.status \in {"running", "completed", "failed"} =>
               \A d \in task[t].blockedBy : task[d].status = "completed"
    PROVE  StoreInv'
<1>1. task' \in [Task -> Records] /\ issued' \subseteq Run
  BY DEF StoreInv, StoreTypeOK
<1>2. Advances(t)
  BY DEF StoreInv, StoreTypeOK, Advances, Cancellable, Statuses
<1>3. \A u \in Task : task'[u] = task[u] \/ Advances(u)
  BY <1>2 DEF StoreInv, StoreTypeOK
<1>4. StoreTypeOK' /\ AbsentIsFresh' /\ ValidGraph(task)' /\ DependenciesFirst'
  BY <1>1, <1>3, AdvanceKeepsInvariant
<1>5. OneTaskPerRun'
  <2>1. /\ \A u \in Task : task'[u] = IF u = t THEN rec ELSE task[u]
        /\ \A u \in Task : task[u].status = "running" => task[u].owner # NoRun
    BY NoRunAssumption, AttemptLimitsAssumption DEF StoreInv, StoreTypeOK
  <2> QED
    BY <2>1, NoNewOwner DEF StoreInv
<1> QED
  BY <1>4, <1>5 DEF StoreInv

LEMMA ReserveStep ==
    ASSUME StoreInv, NEW t \in Task, NEW r \in Run, Reserve(t, r)
    PROVE  StoreInv'
<1> DEFINE rec == [task[t] EXCEPT !.status = "running", !.owner = r,
                                  !.attempt = @ + 1, !.version = @ + 1]
<1>1. task[t] \in Records /\ task' = [task EXCEPT ![t] = rec]
  BY DEF StoreInv, StoreTypeOK, Reserve
<1>2. /\ rec \in Records
      /\ rec.status = "running" /\ rec.owner = r
      /\ rec.blockedBy = task[t].blockedBy /\ rec.blocks = task[t].blocks
  <2>1. task[t].attempt + 1 \in Nat /\ task[t].version + 1 \in Nat
    BY <1>1 DEF Records
  <2>2. rec \in Records
    BY <1>1, <2>1, Zenon DEF Records, Statuses
  <2> QED
    BY <1>1, <2>2 DEF Records
<1> HIDE DEF rec
<1>3. task' \in [Task -> Records] /\ issued \subseteq issued' /\ issued' \subseteq Run /\ r \in issued'
  <2>1. issued' = issued \cup {r} /\ issued \subseteq Run
    BY DEF StoreInv, StoreTypeOK, Reserve
  <2>2. task' \in [Task -> Records]
    BY <1>1, <1>2 DEF StoreInv, StoreTypeOK
  <2> QED
    BY <2>1, <2>2
<1>4. \A u \in Task : task'[u] = IF u = t THEN rec ELSE task[u]
  BY <1>1 DEF StoreInv, StoreTypeOK
<1>5. Advances(t)
  BY <1>2, <1>3, <1>4 DEF Reserve, Ready, Advances, Cancellable, Statuses
<1>6. StoreTypeOK' /\ AbsentIsFresh' /\ ValidGraph(task)' /\ DependenciesFirst'
  BY <1>3, <1>4, <1>5, AdvanceKeepsInvariant
<1>7. OneTaskPerRun'
  <2>1. \A u \in Task : task[u].owner # r
    BY NoRunAssumption, AttemptLimitsAssumption DEF StoreInv, StoreTypeOK, Reserve
  <2> QED
    BY <1>2, <1>4, <2>1 DEF StoreInv, OneTaskPerRun
<1> QED
  BY <1>6, <1>7 DEF StoreInv

(* An agent run leaves its task: settled, or never started.                *)
LEMMA LeaveStep ==
    ASSUME StoreInv, NEW t \in Task, NEW r \in Run, IsActiveRun(t, r),
           NEW s \in {"pending", "completed", "failed", "cancelled"},
           task' = [task EXCEPT ![t] = Left(@, s)],
           issued' = issued
    PROVE  StoreInv'
<1>1. task[t] \in Records /\ task' = [task EXCEPT ![t] = Left(task[t], s)]
  BY DEF StoreInv, StoreTypeOK
<1>2. /\ Left(task[t], s) \in Records
      /\ Left(task[t], s).status = s
      /\ Left(task[t], s).owner = NoRun
      /\ Left(task[t], s).blockedBy = task[t].blockedBy
      /\ Left(task[t], s).blocks = task[t].blocks
  BY <1>1, LeftRecord DEF Statuses
<1>3. Cancellable(t) /\ \A d \in task[t].blockedBy : task[d].status = "completed"
  BY DEF IsActiveRun, Cancellable, StoreInv, DependenciesFirst
<1> QED
  BY <1>1, <1>2, <1>3, LocalStep

LEMMA UpdateStep ==
    ASSUME StoreInv, NEW t \in Task, NEW key \in Key, NEW version,
           Progress(t, key, version) \/ Retry(t, key, version)
    PROVE  StoreInv'
<1>1. task[t] \in Records
  BY DEF StoreInv, StoreTypeOK
<1>2. CASE Progress(t, key, version)
  <2>1. /\ task' = [task EXCEPT ![t] = Updated(task[t], key)]
        /\ issued' = issued
        /\ Cancellable(t)
        /\ \A d \in task[t].blockedBy : task[d].status = "completed"
    BY <1>2 DEF StoreInv, StoreTypeOK, DependenciesFirst, Progress, Cancellable
  <2> QED
    BY <1>1, <2>1, UpdatedRecord, LocalStep
<1>3. CASE Retry(t, key, version)
  <2> DEFINE retried == [task[t] EXCEPT !.status = "pending"]
  <2>1. /\ retried \in Records
        /\ retried.status = "pending"
        /\ retried.owner = NoRun
        /\ retried.blockedBy = task[t].blockedBy /\ retried.blocks = task[t].blocks
    <3>1. retried \in Records
      BY <1>1, Zenon DEF Records, Statuses
    <3> QED
      BY <1>1, <1>3, <3>1 DEF Records, Retry, StoreInv, StoreTypeOK
  <2>2. /\ task' = [task EXCEPT ![t] = Updated(retried, key)]
        /\ issued' = issued
        /\ Cancellable(t)
    BY <1>3 DEF StoreInv, StoreTypeOK, Retry, Cancellable
  <2> HIDE DEF retried
  <2> QED
    BY <2>1, <2>2, UpdatedRecord, LocalStep
<1> QED
  BY <1>2, <1>3

(* cancelTasks and cancelAll: the tasks of a set that are not final.       *)
LEMMA CancelStep ==
    ASSUME StoreInv, NEW U \in SUBSET Task, NEW keys \in [Task -> SUBSET Key],
           task' = [u \in Task |-> IF u \in U /\ Cancellable(u)
                                   THEN [Left(task[u], "cancelled") EXCEPT !.keys = keys[u]]
                                   ELSE task[u]],
           issued' = issued
    PROVE  StoreInv'
<1>1. \A u \in Task : task[u] \in Records
  BY DEF StoreInv, StoreTypeOK
<1>2. ASSUME NEW u \in Task
      PROVE  LET new == [Left(task[u], "cancelled") EXCEPT !.keys = keys[u]]
             IN  /\ new \in Records
                 /\ new.status = "cancelled"
                 /\ new.owner = NoRun
                 /\ new.blockedBy = task[u].blockedBy /\ new.blocks = task[u].blocks
  <2> DEFINE left == Left(task[u], "cancelled")
  <2>1. /\ left \in Records
        /\ left.status = "cancelled" /\ left.owner = NoRun
        /\ left.blockedBy = task[u].blockedBy /\ left.blocks = task[u].blocks
    BY <1>1, LeftRecord DEF Statuses
  <2> HIDE DEF left
  <2>2. [left EXCEPT !.keys = keys[u]] \in Records
    BY <2>1, Zenon DEF Records
  <2> QED
    BY <2>1, <2>2 DEF Records, left
<1>3. task' \in [Task -> Records]
  BY <1>1, <1>2
<1>4. \A u \in Task : task'[u] = task[u] \/ (Advances(u) /\ task'[u].status = "cancelled")
  BY <1>2 DEF Advances, Statuses
<1>5. StoreTypeOK' /\ AbsentIsFresh' /\ ValidGraph(task)' /\ DependenciesFirst'
  BY <1>3, <1>4, AdvanceKeepsInvariant DEF StoreInv, StoreTypeOK
<1>6. OneTaskPerRun'
  <2>1. /\ \A u \in Task : task'[u] = task[u] \/ (task'[u].status = "cancelled" /\ task'[u].owner = NoRun)
        /\ \A u \in Task : task[u].status = "running" => task[u].owner # NoRun
    BY <1>4, NoRunAssumption, AttemptLimitsAssumption DEF StoreInv, StoreTypeOK, Advances
  <2> QED
    BY <2>1, NoNewOwner DEF StoreInv
<1> QED
  BY <1>5, <1>6 DEF StoreInv

(* New tasks and new dependencies are the steps that change the graph.     *)
(* RebuildBlocks changes nothing of a task but which tasks wait for it.    *)
LEMMA RebuiltBlocks ==
    ASSUME NEW g \in [Task -> Records]
    PROVE  /\ RebuildBlocks(g) \in [Task -> Records]
           /\ \A t \in Task :
                 LET new == RebuildBlocks(g)[t]
                 IN  /\ new = [g[t] EXCEPT !.blocks = new.blocks]
                     /\ new.status = g[t].status /\ new.owner = g[t].owner
                     /\ new.blockedBy = g[t].blockedBy /\ new.version = g[t].version
                     /\ new.blocks = {u \in Task : t \in g[u].blockedBy}
<1> DEFINE waiting(t) == {u \in Task : t \in g[u].blockedBy}
           new(t) == [g[t] EXCEPT !.blocks = waiting(t)]
<1>1. RebuildBlocks(g) = [t \in Task |-> new(t)]
  BY DEF RebuildBlocks
<1>2. ASSUME NEW t \in Task
      PROVE  /\ new(t) \in Records
             /\ new(t).blocks = waiting(t)
             /\ new(t).status = g[t].status /\ new(t).owner = g[t].owner
             /\ new(t).blockedBy = g[t].blockedBy /\ new(t).version = g[t].version
  <2>1. g[t] \in Records /\ waiting(t) \in SUBSET Task
    OBVIOUS
  <2> HIDE DEF waiting
  <2>2. new(t) \in Records
    BY <2>1, Zenon DEF Records
  <2> QED
    BY <2>1, <2>2 DEF Records
<1>3. \A t \in Task : new(t) = [g[t] EXCEPT !.blocks = new(t).blocks]
  BY <1>2
<1> HIDE DEF new
<1> QED
  BY <1>1, <1>2, <1>3

(* In a valid graph nothing waits for a task there is not.                 *)
LEMMA NothingWaitsForNothing ==
    ASSUME NEW g \in [Task -> Records], ValidGraph(RebuildBlocks(g)),
           NEW t \in Task, g[t] = Absent
    PROVE  RebuildBlocks(g)[t] = Absent
<1>0. /\ RebuildBlocks(g)[t].status = g[t].status
      /\ \A u \in Task : RebuildBlocks(g)[u].blockedBy = g[u].blockedBy
  BY RebuiltBlocks, Zenon
<1>1. \A u \in Task : t \notin g[u].blockedBy
  BY <1>0 DEF ValidGraph, Absent
<1>2. RebuildBlocks(g)[t] = [Absent EXCEPT !.blocks = {}]
  BY <1>1 DEF RebuildBlocks
<1> QED
  BY <1>2 DEF Absent

LEMMA CreateStep ==
    ASSUME StoreInv, NEW ids \in SUBSET Task, NEW limit \in AttemptLimits,
           NEW blockedBy \in [ids -> SUBSET Task], CreateBatch(ids, blockedBy, limit)
    PROVE  StoreInv'
<1> DEFINE more == [u \in Task |-> IF u \in ids THEN Created(blockedBy[u], limit) ELSE task[u]]
<1>1. \A u \in Task : more[u] = IF u \in ids THEN Created(blockedBy[u], limit) ELSE task[u]
  OBVIOUS
<1>2. ASSUME NEW u \in ids
      PROVE  /\ task[u].status = "absent"
             /\ Created(blockedBy[u], limit) \in Records
             /\ Created(blockedBy[u], limit).status = "pending"
             /\ Created(blockedBy[u], limit).owner = NoRun
  <2>1. blockedBy[u] \in SUBSET Task
    OBVIOUS
  <2> QED
    BY <2>1, CreatedRecord DEF CreateBatch, Exists
<1>3. more \in [Task -> Records]
  BY <1>2 DEF StoreInv, StoreTypeOK
<1>4. task' = RebuildBlocks(more) /\ issued' = issued /\ ValidGraph(RebuildBlocks(more))
  BY DEF CreateBatch
<1> HIDE DEF more
<1>5. /\ task' \in [Task -> Records]
      /\ \A u \in Task :
            /\ task'[u].status = IF u \in ids THEN "pending" ELSE task[u].status
            /\ task'[u].owner = IF u \in ids THEN NoRun ELSE task[u].owner
            /\ u \notin ids => task'[u].blockedBy = task[u].blockedBy
  <2>1. /\ task' \in [Task -> Records]
        /\ \A u \in Task : /\ task'[u].status = more[u].status
                           /\ task'[u].owner = more[u].owner
                           /\ task'[u].blockedBy = more[u].blockedBy
    BY <1>3, <1>4, RebuiltBlocks
  <2> QED
    BY <1>1, <1>2, <2>1
<1>6. StoreTypeOK'
  BY <1>4, <1>5 DEF StoreInv, StoreTypeOK
<1>7. AbsentIsFresh'
  <2> SUFFICES ASSUME NEW u \in Task, task'[u].status = "absent"
               PROVE  task'[u] = Absent
    BY DEF AbsentIsFresh
  <2>1. more[u] = Absent
    BY <1>1, <1>5 DEF StoreInv, AbsentIsFresh
  <2> QED
    BY <1>3, <1>4, <2>1, NothingWaitsForNothing
<1>8. DependenciesFirst'
  <2>1. \A u \in Task : task[u].blockedBy \subseteq Task
    BY DEF StoreInv, StoreTypeOK, Records
  <2>2. \A u \in Task : task[u].status = "completed" => task'[u].status = "completed"
    BY <1>2, <1>5
  <2> QED
    BY <1>5, <2>1, <2>2 DEF StoreInv, DependenciesFirst
<1>9. OneTaskPerRun'
  <2>1. \A u \in Task : task[u].status = "running" => task[u].owner # NoRun
    BY NoRunAssumption, AttemptLimitsAssumption DEF StoreInv, StoreTypeOK
  <2> QED
    BY <1>5, <2>1, NoNewOwner DEF StoreInv
<1>10. ValidGraph(task)'
  BY <1>4
<1> QED
  BY <1>6, <1>7, <1>8, <1>9, <1>10 DEF StoreInv

(* What add_dependencies does to the task it is asked for, and to others.  *)
LEMMA DependencyEffect ==
    ASSUME StoreInv, NEW t \in Task, NEW key \in Key, NEW version,
           NEW added \in SUBSET Task, AddDependencies(t, key, version, added)
    PROVE  /\ task' \in [Task -> Records] /\ issued' = issued
           /\ ValidGraph(task')
           /\ task[t].status = "pending"
           /\ task'[t].status = "pending" /\ task'[t].owner = NoRun
           /\ task'[t].version = task[t].version + 1 /\ key \in task'[t].keys
           /\ \A u \in Task :
                 /\ u # t => /\ task'[u] = [task[u] EXCEPT !.blocks = task'[u].blocks]
                             /\ task'[u].status = task[u].status /\ task'[u].owner = task[u].owner
                             /\ task'[u].blockedBy = task[u].blockedBy
                             /\ task[u] = Absent => task'[u] = Absent
                 /\ task'[u].blocks = {w \in Task : u \in task[w].blockedBy \/ (w = t /\ u \in added)}
<1> DEFINE more == [task EXCEPT ![t] = DependingOn(task[t], added)]
           linked == WithDependencies(t, added)
<1>1. /\ DependingOn(task[t], added) \in Records
      /\ DependingOn(task[t], added).status = "pending"
      /\ DependingOn(task[t], added).owner = NoRun
      /\ DependingOn(task[t], added).version = task[t].version
      /\ DependingOn(task[t], added).blockedBy = task[t].blockedBy \cup added
  <2>1. task[t] \in Records /\ task[t].blockedBy \cup added \in SUBSET Task
    BY DEF StoreInv, StoreTypeOK, Records
  <2>2. DependingOn(task[t], added) \in Records
    BY <2>1, Zenon DEF Records, DependingOn
  <2> QED
    BY <2>1, <2>2 DEF Records, DependingOn, AddDependencies, StoreInv, StoreTypeOK
<1>2. /\ more \in [Task -> Records]
      /\ \A u \in Task : more[u] = IF u = t THEN DependingOn(task[t], added) ELSE task[u]
  BY <1>1 DEF StoreInv, StoreTypeOK
<1>3. /\ linked = RebuildBlocks(more)
      /\ ValidGraph(linked)
      /\ task' = [linked EXCEPT ![t] = Updated(@, key)]
      /\ issued' = issued
      /\ task[t].status = "pending"
  BY DEF WithDependencies, AddDependencies
<1> HIDE DEF more, linked
<1>4. /\ linked \in [Task -> Records]
      /\ \A u \in Task :
            /\ linked[u] = [more[u] EXCEPT !.blocks = linked[u].blocks]
            /\ linked[u].status = more[u].status /\ linked[u].owner = more[u].owner
            /\ linked[u].blockedBy = more[u].blockedBy /\ linked[u].version = more[u].version
            /\ linked[u].blocks = {w \in Task : u \in more[w].blockedBy}
  BY <1>2, <1>3, RebuiltBlocks
<1>5. /\ Updated(linked[t], key) \in Records
      /\ Updated(linked[t], key).status = "pending"
      /\ Updated(linked[t], key).owner = NoRun
      /\ Updated(linked[t], key).blockedBy = linked[t].blockedBy
      /\ Updated(linked[t], key).blocks = linked[t].blocks
      /\ Updated(linked[t], key).version = task[t].version + 1
      /\ key \in Updated(linked[t], key).keys
  BY <1>1, <1>2, <1>4, UpdatedRecord
<1>6. /\ task' \in [Task -> Records]
      /\ \A u \in Task : task'[u] = IF u = t THEN Updated(linked[t], key) ELSE linked[u]
  BY <1>3, <1>4, <1>5
<1>7. \A u \in Task : task'[u].blockedBy = linked[u].blockedBy /\ task'[u].blocks = linked[u].blocks
  BY <1>5, <1>6
<1>8. ValidGraph(task')
  <2>1. \A u \in Task : linked[u].status # "absent" => task'[u].status # "absent"
    BY <1>5, <1>6
  <2>2. \A u \in Task : linked[u].blockedBy \subseteq Task
    BY <1>4 DEF Records
  <2> QED
    <3>1. \A u \in Task : \A d \in task'[u].blockedBy : task'[d].status # "absent"
      BY <1>3, <1>7, <2>1, <2>2 DEF ValidGraph
    <3>2. Mirrored(task')
      BY <1>3, <1>7 DEF ValidGraph, Mirrored
    <3>3. Acyclic(task')
      BY <1>3, <1>7 DEF ValidGraph, Acyclic
    <3> QED
      BY <3>1, <3>2, <3>3 DEF ValidGraph
<1>9. \A u \in Task :
         task'[u].blocks = {w \in Task : u \in task[w].blockedBy \/ (w = t /\ u \in added)}
  BY <1>1, <1>2, <1>4, <1>7
<1>10. ASSUME NEW u \in Task, u # t, task[u] = Absent
       PROVE  task'[u] = Absent
  BY <1>2, <1>3, <1>6, <1>10, NothingWaitsForNothing
<1>11. \A u \in Task : u # t =>
          /\ task'[u] = [task[u] EXCEPT !.blocks = task'[u].blocks]
          /\ task'[u].status = task[u].status /\ task'[u].owner = task[u].owner
          /\ task'[u].blockedBy = task[u].blockedBy
  BY <1>2, <1>4, <1>6
<1> QED
  BY <1>3, <1>5, <1>6, <1>8, <1>9, <1>10, <1>11

LEMMA DependencyStep ==
    ASSUME StoreInv, NEW t \in Task, NEW key \in Key, NEW version,
           NEW added \in SUBSET Task, AddDependencies(t, key, version, added)
    PROVE  StoreInv'
<1>1. /\ task' \in [Task -> Records] /\ issued' = issued
      /\ ValidGraph(task')
      /\ task[t].status = "pending"
      /\ task'[t].status = "pending" /\ task'[t].owner = NoRun
      /\ \A u \in Task : u # t =>
            /\ task'[u].status = task[u].status /\ task'[u].owner = task[u].owner
            /\ task'[u].blockedBy = task[u].blockedBy
            /\ task[u] = Absent => task'[u] = Absent
  BY DependencyEffect
<1>2. StoreTypeOK'
  BY <1>1 DEF StoreInv, StoreTypeOK
<1>3. AbsentIsFresh'
  BY <1>1 DEF StoreInv, AbsentIsFresh
<1>4. DependenciesFirst'
  <2>1. \A u \in Task : task[u].blockedBy \subseteq Task
    BY DEF StoreInv, StoreTypeOK, Records
  <2> QED
    BY <1>1, <2>1 DEF StoreInv, DependenciesFirst
<1>5. OneTaskPerRun'
  <2>1. \A u \in Task : task[u].status = "running" => task[u].owner # NoRun
    BY NoRunAssumption, AttemptLimitsAssumption DEF StoreInv, StoreTypeOK
  <2> QED
    BY <1>1, <2>1, NoNewOwner DEF StoreInv
<1> QED
  BY <1>1, <1>2, <1>3, <1>4, <1>5 DEF StoreInv

LEMMA StepKeepsInvariant ==
    ASSUME StoreInv, [StoreNext]_storeVars
    PROVE  StoreInv'
<1>1. CASE UNCHANGED storeVars
  BY <1>1 DEF storeVars, StoreInv, StoreTypeOK, AbsentIsFresh, ValidGraph, Mirrored, Acyclic,
              DependenciesFirst, OneTaskPerRun
<1>2. ASSUME NEW ids \in SUBSET Task, NEW limit \in AttemptLimits,
             NEW blockedBy \in [ids -> SUBSET Task], CreateBatch(ids, blockedBy, limit)
      PROVE  StoreInv'
  BY <1>2, CreateStep
<1>3. ASSUME NEW t \in Task, NEW r \in Run, Reserve(t, r)
      PROVE  StoreInv'
  BY <1>3, ReserveStep
<1>4. ASSUME NEW t \in Task, NEW r \in Run, ReleaseSpawnFailure(t, r)
      PROVE  StoreInv'
  <2>1. PICK s \in {"pending", "failed"} : s = AfterFailure(task[t])
    BY FailureStatus
  <2>2. task' = [task EXCEPT ![t] = Left(@, s)] /\ issued' = issued /\ IsActiveRun(t, r)
    BY <1>4, <2>1 DEF ReleaseSpawnFailure
  <2> QED
    BY <2>2, LeaveStep
<1>5. ASSUME NEW t \in Task, NEW r \in Run,
             NEW result \in {"completed", "failed", "cancelled"}, Settle(t, r, result)
      PROVE  StoreInv'
  <2>1. PICK s \in {"pending", "completed", "failed", "cancelled"} :
            s = IF result = "failed" THEN AfterFailure(task[t]) ELSE result
    BY FailureStatus
  <2>2. task' = [task EXCEPT ![t] = Left(@, s)] /\ issued' = issued /\ IsActiveRun(t, r)
    BY <1>5, <2>1 DEF Settle
  <2> QED
    BY <2>2, LeaveStep
<1>6. ASSUME NEW t \in Task, NEW key \in Key, NEW version,
             Progress(t, key, version) \/ Retry(t, key, version)
      PROVE  StoreInv'
  BY <1>6, UpdateStep
<1>7. ASSUME NEW t \in Task, NEW key \in Key, NEW version, NEW added \in SUBSET Task,
             AddDependencies(t, key, version, added)
      PROVE  StoreInv'
  BY <1>7, DependencyStep
<1>8. ASSUME NEW t \in Task, NEW key \in Key, NEW version, NEW cascade \in BOOLEAN,
             Cancel(t, key, version, cascade)
      PROVE  StoreInv'
  <2> DEFINE U == CancelTargets(t, cascade)
             keys == [u \in Task |-> task[u].keys \cup IF u = t THEN {key} ELSE {}]
  <2>1. U \in SUBSET Task /\ keys \in [Task -> SUBSET Key]
    BY DEF CancelTargets, Descendants, StoreInv, StoreTypeOK, Records
  <2>2. /\ task' = [u \in Task |-> IF u \in U /\ Cancellable(u)
                                   THEN [Left(task[u], "cancelled") EXCEPT !.keys = keys[u]]
                                   ELSE task[u]]
        /\ issued' = issued
    <3>1. \A u \in Task : Left(task[u], "cancelled").keys = task[u].keys
      BY LeftRecord DEF StoreInv, StoreTypeOK, Statuses
    <3> QED
      BY <1>8, <3>1 DEF Cancel
  <2> HIDE DEF U, keys
  <2> QED
    BY <2>1, <2>2, CancelStep
<1>9. CASE CancelAll
  <2> DEFINE keys == [u \in Task |-> task[u].keys]
  <2>1. keys \in [Task -> SUBSET Key]
    BY DEF StoreInv, StoreTypeOK, Records
  <2>2. \A u \in Task :
            Left(task[u], "cancelled") = [Left(task[u], "cancelled") EXCEPT !.keys = keys[u]]
    <3> SUFFICES ASSUME NEW u \in Task
                 PROVE  Left(task[u], "cancelled")
                          = [Left(task[u], "cancelled") EXCEPT !.keys = keys[u]]
      OBVIOUS
    <3>1. /\ Left(task[u], "cancelled") \in Records
          /\ Left(task[u], "cancelled").keys = keys[u]
      BY LeftRecord DEF StoreInv, StoreTypeOK, Statuses
    <3> QED
      BY <3>1 DEF Records
  <2>3. /\ task' = [u \in Task |-> IF u \in Task /\ Cancellable(u)
                                   THEN [Left(task[u], "cancelled") EXCEPT !.keys = keys[u]]
                                   ELSE task[u]]
        /\ issued' = issued
    BY <1>9, <2>2 DEF CancelAll
  <2> HIDE DEF keys
  <2> QED
    BY <2>1, <2>3, CancelStep
<1> QED
  BY <1>1, <1>2, <1>3, <1>4, <1>5, <1>6, <1>7, <1>8, <1>9 DEF StoreNext

LEMMA InitHasInvariant == StoreInit => StoreInv
<1> SUFFICES ASSUME StoreInit PROVE StoreInv
  OBVIOUS
<1>1. /\ Absent \in Records
      /\ Absent.status = "absent" /\ Absent.owner = NoRun
      /\ Absent.blockedBy = {} /\ Absent.blocks = {}
  BY DEF Absent, Records, Statuses
<1>2. \A t \in Task : task[t] = Absent
  BY DEF StoreInit
<1>3. StoreTypeOK
  BY <1>1, <1>2 DEF StoreInit, StoreTypeOK
<1>4. ValidGraph(task)
  BY <1>1, <1>2 DEF ValidGraph, Mirrored, Acyclic
<1> QED
  BY <1>1, <1>2, <1>3, <1>4 DEF StoreInv, AbsentIsFresh, DependenciesFirst, OneTaskPerRun

LEMMA StoreInvariant == StoreSpec => []StoreInv
<1>1. StoreInv /\ [StoreNext]_storeVars => StoreInv'
  BY StepKeepsInvariant
<1> QED
  BY InitHasInvariant, <1>1, PTL DEF StoreSpec

-----------------------------------------------------------------------------
(* The task graph is always well-typed, and a task has an owner exactly    *)
(* while it runs (reserve, releaseSpawnFailure, settleAgentRun, cancel).   *)
THEOREM TypeCorrect == StoreSpec => []StoreTypeOK
<1>1. StoreInv => StoreTypeOK
  BY DEF StoreInv
<1> QED
  BY StoreInvariant, <1>1, PTL

(* reserve starts a task only after everything it depends on, and neither  *)
(* add_dependencies nor retry can break that order afterwards.             *)
THEOREM OrderIsKept == StoreSpec => []DependenciesFirst
<1>1. StoreInv => DependenciesFirst
  BY DEF StoreInv
<1> QED
  BY StoreInvariant, <1>1, PTL

(* No agent run owns two tasks, so settleAgentRun's fence names one task.  *)
THEOREM RunsHaveOneTask == StoreSpec => []OneTaskPerRun
<1>1. StoreInv => OneTaskPerRun
  BY DEF StoreInv
<1> QED
  BY StoreInvariant, <1>1, PTL

(* The validated graph cannot deadlock: pending tasks of which none is     *)
(* ready, with nothing running, failed or cancelled, would each wait for   *)
(* another pending task, and their set would be a cycle.                   *)
THEOREM NoStall == StoreSpec => []StallsOnlyOnFailure
<1>1. StoreInv => StallsOnlyOnFailure
  <2> SUFFICES ASSUME StoreInv, NEW u \in Task, task[u].status = "pending",
                      \A t \in Task : ~Ready(task, t)
                                         /\ task[t].status \notin {"running", "failed", "cancelled"}
               PROVE  FALSE
    BY DEF StallsOnlyOnFailure
  <2> DEFINE S == {t \in Task : task[t].status = "pending"}
  <2>1. S \in SUBSET Task /\ S # {}
    OBVIOUS
  <2>2. ASSUME NEW t \in S
        PROVE  task[t].blockedBy \cap S # {}
    <3>1. task[t].owner = NoRun /\ task[t].blockedBy \subseteq Task
      BY DEF StoreInv, StoreTypeOK, Records
    <3>2. PICK d \in task[t].blockedBy : task[d].status # "completed"
      BY <3>1 DEF Ready
    <3>3. task[d].status # "absent"
      BY <3>2 DEF StoreInv, ValidGraph
    <3>4. task[d].status = "pending"
      BY <3>1, <3>2, <3>3 DEF StoreInv, StoreTypeOK, Records, Statuses
    <3> QED
      BY <3>1, <3>4
  <2> HIDE DEF S
  <2> QED
    BY <2>1, <2>2 DEF StoreInv, ValidGraph, Acyclic
<1> QED
  BY StoreInvariant, <1>1, PTL

(* Cancelling a task that is still to be done meets no running descendant: *)
(* the tasks that are pending, cancelled or absent are closed under "is    *)
(* blocked by" once the first one is not completed.                        *)
THEOREM CascadeIsQuiet == StoreSpec => []CascadeMeetsNoRun
<1>1. StoreInv => CascadeMeetsNoRun
  <2> SUFFICES ASSUME StoreInv, NEW t \in Task, Cancellable(t),
                      NEW u \in Descendants(task, t)
               PROVE  task[u].status # "running"
    BY DEF CascadeMeetsNoRun
  <2> DEFINE S == {d \in Task : task[d].status \in {"pending", "cancelled"}}
  <2>1. ASSUME NEW d \in Task, task[d].status # "completed"
        PROVE  task[d].blocks \subseteq S
    <3> SUFFICES ASSUME NEW c \in Task, d \in task[c].blockedBy
                 PROVE  c \in S
      BY DEF StoreInv, StoreTypeOK, Records, ValidGraph, Mirrored
    <3>1. task[c].status \notin {"running", "completed", "failed"}
      BY <2>1 DEF StoreInv, DependenciesFirst
    <3>2. task[c].status # "absent"
      BY DEF StoreInv, AbsentIsFresh, Absent
    <3> QED
      BY <3>1, <3>2 DEF StoreInv, StoreTypeOK, Records, Statuses
  <2>2. task[t].blocks \subseteq S /\ \A s \in S : task[s].blocks \subseteq S
    BY <2>1 DEF Cancellable
  <2>3. u \in S
    <3>1. S \in SUBSET Task
      OBVIOUS
    <3> QED
      BY <2>2, <3>1, Zenon DEF Descendants
  <2> QED
    BY <2>3
<1> QED
  BY StoreInvariant, <1>1, PTL

(* What createBatch does to the tasks there were: they block more.         *)
LEMMA BatchEffect ==
    ASSUME StoreInv, NEW ids \in SUBSET Task, NEW limit \in AttemptLimits,
           NEW blockedBy \in [ids -> SUBSET Task], CreateBatch(ids, blockedBy, limit),
           NEW t \in Task
    PROVE  \/ /\ t \in ids /\ task[t].status = "absent"
              /\ task'[t].version = 1 /\ task[t].version = 0
           \/ /\ task'[t] = [task[t] EXCEPT !.blocks = task'[t].blocks]
              /\ task[t].blocks \subseteq task'[t].blocks
              /\ task'[t].blocks \ task[t].blocks \subseteq ids
<1> DEFINE more == [u \in Task |-> IF u \in ids THEN Created(blockedBy[u], limit) ELSE task[u]]
<1>1. \A u \in Task : more[u] = IF u \in ids THEN Created(blockedBy[u], limit) ELSE task[u]
  OBVIOUS
<1>2. ASSUME NEW u \in ids
      PROVE  /\ task[u].status = "absent" /\ task[u].version = 0 /\ task[u].blockedBy = {}
             /\ Created(blockedBy[u], limit) \in Records
             /\ Created(blockedBy[u], limit).version = 1
  <2>1. blockedBy[u] \in SUBSET Task
    OBVIOUS
  <2>2. task[u] = Absent /\ task[u].status = "absent"
    BY DEF CreateBatch, Exists, StoreInv, AbsentIsFresh
  <2>3. task[u].version = 0 /\ task[u].blockedBy = {} /\ Created(blockedBy[u], limit).version = 1
    BY <2>2 DEF Absent, Created
  <2> QED
    BY <2>1, <2>2, <2>3, CreatedRecord
<1>3. task' = RebuildBlocks(more) /\ more \in [Task -> Records]
  BY <1>2 DEF CreateBatch, StoreInv, StoreTypeOK
<1>4. task[t].blocks = {u \in Task : t \in task[u].blockedBy}
  BY DEF StoreInv, StoreTypeOK, Records, ValidGraph, Mirrored
<1> HIDE DEF more
<1>5. /\ task'[t] = [more[t] EXCEPT !.blocks = task'[t].blocks]
      /\ task'[t].version = more[t].version
      /\ task'[t].blocks = {u \in Task : t \in more[u].blockedBy}
  BY <1>3, RebuiltBlocks
<1>6. CASE t \in ids
  BY <1>1, <1>2, <1>5, <1>6
<1>7. CASE t \notin ids
  <2>1. /\ task[t].blocks \subseteq task'[t].blocks
        /\ task'[t].blocks \ task[t].blocks \subseteq ids
    BY <1>1, <1>2, <1>4, <1>5
  <2> QED
    BY <1>1, <1>5, <1>7, <2>1
<1> QED
  BY <1>6, <1>7

\* A task is final.
Final(t) == task[t].status \in {"completed", "cancelled"}

\* The task is only waited for by more tasks, which are versioned themselves.
OnlyWaitedFor(t) ==
    /\ OnlyBlocksMore(t)
    /\ \A u \in task'[t].blocks \ task[t].blocks : task'[u].version > task[u].version

(* What an operation does to a task it changes: it gives it a new version, *)
(* and it is not a final task; or it makes other tasks wait for it.        *)
LEMMA StepEffect ==
    ASSUME StoreInv, StoreNext, NEW t \in Task, task'[t] # task[t]
    PROVE  (task'[t].version > task[t].version /\ ~Final(t)) \/ OnlyWaitedFor(t)
<1> DEFINE Raised == task'[t].version = task[t].version + 1 /\ ~Final(t)
<1>1. /\ task \in [Task -> Records]
      /\ \A u \in Task : task[u].version \in Nat
  BY DEF StoreInv, StoreTypeOK, Records
<1>2. ASSUME NEW ids \in SUBSET Task, NEW limit \in AttemptLimits,
             NEW blockedBy \in [ids -> SUBSET Task], CreateBatch(ids, blockedBy, limit)
      PROVE  (task'[t].version > task[t].version /\ ~Final(t)) \/ OnlyWaitedFor(t)
  <2>1. CASE /\ t \in ids /\ task[t].status = "absent"
             /\ task'[t].version = 1 /\ task[t].version = 0
    BY <2>1 DEF Final
  <2>2. CASE /\ task'[t] = [task[t] EXCEPT !.blocks = task'[t].blocks]
             /\ task[t].blocks \subseteq task'[t].blocks
             /\ task'[t].blocks \ task[t].blocks \subseteq ids
    <3>1. ASSUME NEW u \in ids PROVE task'[u].version > task[u].version
      <4>1. task[u].status = "absent" /\ task[u].version = 0
        BY <1>2 DEF CreateBatch, Exists, StoreInv, AbsentIsFresh, Absent
      <4>2. Created(blockedBy[u], limit).version = 1
        BY DEF Created, Absent
      <4>3. task'[u].version = 1
        <5> DEFINE more == [w \in Task |-> IF w \in ids THEN Created(blockedBy[w], limit) ELSE task[w]]
        <5>1. more \in [Task -> Records]
          BY <1>1, CreatedRecord
        <5>2. task' = RebuildBlocks(more) /\ more[u].version = 1
          BY <1>2, <4>2 DEF CreateBatch
        <5> HIDE DEF more
        <5> QED
          BY <5>1, <5>2, RebuiltBlocks
      <4> QED
        BY <4>1, <4>3
    <3> QED
      BY <2>2, <3>1 DEF OnlyWaitedFor, OnlyBlocksMore
  <2> QED
    BY <1>2, <2>1, <2>2, BatchEffect
<1>3. ASSUME NEW u \in Task, NEW rec, task' = [task EXCEPT ![u] = rec],
             rec.version = task[u].version + 1, ~Final(u)
      PROVE  Raised
  BY <1>1, <1>3
<1>4. \A u \in Task : \A s \in Statuses :
          Left(task[u], s).version = task[u].version + 1
  BY <1>1, LeftRecord
<1>5. ASSUME NEW u \in Task, NEW r \in Run, Reserve(u, r)
      PROVE  Raised
  <2> DEFINE rec == [task[u] EXCEPT !.status = "running", !.owner = r,
                                    !.attempt = @ + 1, !.version = @ + 1]
  <2>1. rec.version = task[u].version + 1
    BY <1>1 DEF Records
  <2>2. task' = [task EXCEPT ![u] = rec] /\ ~Final(u)
    BY <1>1, <1>5 DEF Reserve, Ready, Final
  <2> HIDE DEF rec
  <2> QED
    BY <2>1, <2>2, <1>3
<1>6. ASSUME NEW u \in Task, NEW r \in Run,
             \/ ReleaseSpawnFailure(u, r)
             \/ \E result \in {"completed", "failed", "cancelled"} : Settle(u, r, result)
      PROVE  Raised
  <2>1. ~Final(u) /\ \E s \in Statuses : task' = [task EXCEPT ![u] = Left(@, s)]
    BY <1>6, FailureStatus DEF ReleaseSpawnFailure, Settle, Statuses, IsActiveRun, Final
  <2> QED
    BY <2>1, <1>3, <1>4
<1>7. ASSUME NEW u \in Task, NEW key \in Key, NEW version,
             Progress(u, key, version) \/ Retry(u, key, version)
      PROVE  Raised
  <2>1. /\ ~Final(u)
        /\ \E rec : /\ task' = [task EXCEPT ![u] = Updated(rec, key)]
                    /\ rec \in Records /\ rec.version = task[u].version
    <3>1. task[u] \in Records
      BY <1>1
    <3>2. CASE Progress(u, key, version)
      BY <3>1, <3>2 DEF Progress, Final
    <3>3. CASE Retry(u, key, version)
      <4> DEFINE retried == [task[u] EXCEPT !.status = "pending"]
      <4>1. retried \in Records
        BY <3>1, Zenon DEF Records, Statuses
      <4>2. retried.version = task[u].version
        BY <3>1 DEF Records
      <4>3. task' = [task EXCEPT ![u] = Updated(retried, key)] /\ ~Final(u)
        BY <3>3 DEF Retry, Final
      <4> HIDE DEF retried
      <4> QED
        BY <4>1, <4>2, <4>3
    <3> QED
      BY <1>7, <3>2, <3>3
  <2> QED
    BY <2>1, <1>3, UpdatedRecord
<1>8. ASSUME NEW u \in Task, NEW key \in Key, NEW version, NEW added \in SUBSET Task,
             AddDependencies(u, key, version, added)
      PROVE  Raised \/ OnlyWaitedFor(t)
  <2>1. /\ task[u].status = "pending" /\ task'[u].version = task[u].version + 1
        /\ t # u => task'[t] = [task[t] EXCEPT !.blocks = task'[t].blocks]
        /\ task'[t].blocks = {w \in Task : t \in task[w].blockedBy \/ (w = u /\ t \in added)}
    BY <1>8, DependencyEffect
  <2>2. CASE t = u
    BY <2>1, <2>2 DEF Final
  <2>3. CASE t # u
    <3>1. task[t].blocks = {w \in Task : t \in task[w].blockedBy}
      BY DEF StoreInv, StoreTypeOK, Records, ValidGraph, Mirrored
    <3>2. task[t].blocks \subseteq task'[t].blocks /\ task'[t].blocks \ task[t].blocks \subseteq {u}
      BY <2>1, <3>1
    <3>3. task'[u].version > task[u].version
      BY <1>1, <2>1
    <3> QED
      BY <2>1, <2>3, <3>2, <3>3 DEF OnlyWaitedFor, OnlyBlocksMore
  <2> QED
    BY <2>2, <2>3
<1>9. ASSUME NEW u \in Task, NEW key \in Key, NEW version, NEW cascade \in BOOLEAN,
             Cancel(u, key, version, cascade)
      PROVE  Raised
  <2>1. \A keys : [Left(task[t], "cancelled") EXCEPT !.keys = keys].version
                    = task[t].version + 1
    BY <1>1 DEF Left, Records
  <2> QED
    BY <1>9, <2>1 DEF Cancel, Cancellable, Final
<1>10. CASE CancelAll
  <2>1. Left(task[t], "cancelled").version = task[t].version + 1
    BY <1>4 DEF Statuses
  <2>2. Cancellable(t) /\ task'[t] = Left(task[t], "cancelled")
    BY <1>10 DEF CancelAll
  <2>3. ~Final(t)
    BY <2>2 DEF Cancellable, Final
  <2>4. task'[t].version = task[t].version + 1
    BY <2>1, <2>2
  <2> QED
    BY <1>1, <2>3, <2>4
<1>11. CASE \E ids \in SUBSET Task, limit \in AttemptLimits :
                \E blockedBy \in [ids -> SUBSET Task] : CreateBatch(ids, blockedBy, limit)
  BY <1>2, <1>11
<1>12. CASE Raised
  BY <1>1, <1>12
<1> QED
  BY <1>5, <1>6, <1>7, <1>8, <1>9, <1>10, <1>11, <1>12 DEF StoreNext

(* No operation changes a completed or cancelled task again, be it a late  *)
(* settle or release of its last run, a retry or a cascade; new tasks may  *)
(* only come to wait for it.                                               *)
THEOREM FinalityHolds == StoreSpec => FinalStaysFinal
<1> DEFINE Kept == \A t \in Task :
                      task[t].status \in {"completed", "cancelled"} => OnlyBlocksMore(t)
<1>1. StoreInv /\ [StoreNext]_storeVars => [Kept]_storeVars
  <2> SUFFICES ASSUME StoreInv, StoreNext, NEW t \in Task, Final(t)
               PROVE  OnlyBlocksMore(t)
    BY DEF Final
  <2>1. CASE task'[t] = task[t]
    <3>1. task[t] = [task[t] EXCEPT !.blocks = task[t].blocks]
      BY DEF StoreInv, StoreTypeOK, Records
    <3> QED
      BY <2>1, <3>1 DEF OnlyBlocksMore
  <2>2. CASE task'[t] # task[t]
    BY <2>2, StepEffect DEF OnlyWaitedFor
  <2> QED
    BY <2>1, <2>2
<1> QED
  BY StoreInvariant, <1>1, PTL DEF StoreSpec, FinalStaysFinal

(* An operation that changes a task gives it a higher version, so an       *)
(* update with the version of an older state is refused; or it is a task   *)
(* that others, which have a higher version, now wait for (rebuildBlocks). *)
THEOREM VersionsGrow == StoreSpec => EveryChangeIsVersioned
<1> DEFINE Versioned ==
      \A t \in Task :
          task'[t] # task[t] =>
             \/ task'[t].version > task[t].version
             \/ /\ OnlyBlocksMore(t)
                /\ \A u \in task'[t].blocks \ task[t].blocks :
                      task'[u].version > task[u].version
<1>1. StoreInv /\ [StoreNext]_storeVars => [Versioned]_storeVars
  BY StepEffect DEF OnlyWaitedFor
<1> QED
  BY StoreInvariant, <1>1, PTL DEF StoreSpec, EveryChangeIsVersioned

-----------------------------------------------------------------------------
(* Attempts.                                                               *)

\* AttemptBudget, for one record.
WithinBudget(rec) ==
    /\ rec.status = "failed" => rec.attempt >= rec.maxAttempts
    /\ rec.keys = {} => rec.attempt <= rec.maxAttempts
    /\ rec.keys = {} /\ rec.status = "pending" => rec.attempt < rec.maxAttempts

LEMMA BudgetPerTask == AttemptBudget <=> \A t \in Task : WithinBudget(task[t])
  BY DEF AttemptBudget, WithinBudget

\* An attempt that ends without a result is followed by another one only if there is one.
LEMMA LeftWithinBudget ==
    ASSUME NEW rec \in Records, WithinBudget(rec),
           NEW final \in {AfterFailure(rec), "completed", "cancelled"}
    PROVE  WithinBudget(Left(rec, final))
  BY DEF WithinBudget, Left, AfterFailure, Records

\* Which tasks wait for a task does not matter to its attempts.
LEMMA BlocksWithinBudget ==
    ASSUME NEW rec \in Records, WithinBudget(rec), NEW blocks
    PROVE  WithinBudget([rec EXCEPT !.blocks = blocks])
  BY DEF WithinBudget, Records

LEMMA AttemptStep == StoreInv /\ AttemptBudget /\ [StoreNext]_storeVars => AttemptBudget'
<1> SUFFICES ASSUME StoreInv, \A t \in Task : WithinBudget(task[t]), [StoreNext]_storeVars
             PROVE  \A t \in Task : WithinBudget(task'[t])
  BY BudgetPerTask DEF AttemptBudget, WithinBudget
<1>0. task \in [Task -> Records]
  BY DEF StoreInv, StoreTypeOK
<1>1. CASE UNCHANGED storeVars
  BY <1>1 DEF storeVars
<1>2. ASSUME NEW ids \in SUBSET Task, NEW limit \in AttemptLimits,
             NEW blockedBy \in [ids -> SUBSET Task], CreateBatch(ids, blockedBy, limit)
      PROVE  \A t \in Task : WithinBudget(task'[t])
  <2>1. limit \in 1..10
    BY NoRunAssumption, AttemptLimitsAssumption
  <2> DEFINE more == [u \in Task |-> IF u \in ids THEN Created(blockedBy[u], limit) ELSE task[u]]
  <2>2. \A deps : WithinBudget(Created(deps, limit))
    BY <2>1 DEF WithinBudget, Created, Absent
  <2>3. more \in [Task -> Records] /\ \A t \in Task : WithinBudget(more[t])
    BY <1>0, <2>2, CreatedRecord
  <2>4. task' = RebuildBlocks(more)
    BY <1>2 DEF CreateBatch
  <2> HIDE DEF more
  <2>5. \A t \in Task : task'[t] = [more[t] EXCEPT !.blocks = task'[t].blocks]
    BY <2>3, <2>4, RebuiltBlocks
  <2> SUFFICES ASSUME NEW t \in Task PROVE WithinBudget(task'[t])
    OBVIOUS
  <2>6. more[t] \in Records /\ WithinBudget(more[t])
    BY <2>3
  <2>7. WithinBudget([more[t] EXCEPT !.blocks = task'[t].blocks])
    BY <2>6, BlocksWithinBudget
  <2> QED
    BY <2>5, <2>7
<1>3. ASSUME NEW t \in Task, NEW r \in Run, Reserve(t, r)
      PROVE  \A u \in Task : WithinBudget(task'[u])
  <2> DEFINE rec == [task[t] EXCEPT !.status = "running", !.owner = r,
                                    !.attempt = @ + 1, !.version = @ + 1]
  <2>1. task' = [task EXCEPT ![t] = rec] /\ task[t].status = "pending"
    BY <1>3 DEF Reserve, Ready
  <2>2. WithinBudget(rec)
    BY <1>0, <2>1 DEF WithinBudget, Records
  <2> HIDE DEF rec
  <2> QED
    BY <1>0, <2>1, <2>2
<1>4. ASSUME NEW t \in Task, NEW r \in Run,
             \/ ReleaseSpawnFailure(t, r)
             \/ \E result \in {"completed", "failed", "cancelled"} : Settle(t, r, result)
      PROVE  \A u \in Task : WithinBudget(task'[u])
  <2>1. PICK final \in {AfterFailure(task[t]), "completed", "cancelled"} :
           task' = [task EXCEPT ![t] = Left(task[t], final)]
    BY <1>0, <1>4 DEF ReleaseSpawnFailure, Settle
  <2>2. WithinBudget(Left(task[t], final))
    BY <1>0, LeftWithinBudget
  <2> QED
    BY <1>0, <2>1, <2>2
\* An update leaves a key behind, and a failed task that is retried is failed no more.
<1>5. ASSUME NEW t \in Task, NEW key \in Key, NEW version,
             Progress(t, key, version) \/ Retry(t, key, version)
      PROVE  \A u \in Task : WithinBudget(task'[u])
  <2>1. PICK rec \in {task[t], [task[t] EXCEPT !.status = "pending"]} :
           task' = [task EXCEPT ![t] = Updated(rec, key)]
    BY <1>0, <1>5 DEF Progress, Retry
  <2>2. /\ rec.status \in {task[t].status, "pending"}
        /\ rec.attempt = task[t].attempt /\ rec.maxAttempts = task[t].maxAttempts
        /\ Updated(rec, key).status = rec.status /\ key \in Updated(rec, key).keys
        /\ Updated(rec, key).attempt = rec.attempt
        /\ Updated(rec, key).maxAttempts = rec.maxAttempts
    BY <1>0 DEF Updated, Records
  <2>3. WithinBudget(Updated(rec, key))
    BY <2>2 DEF WithinBudget
  <2> QED
    BY <1>0, <2>1, <2>3
<1>5a. ASSUME NEW t \in Task, NEW key \in Key, NEW version, NEW added \in SUBSET Task,
              AddDependencies(t, key, version, added)
       PROVE  \A u \in Task : WithinBudget(task'[u])
  <2>1. /\ task'[t].status = "pending" /\ key \in task'[t].keys
        /\ \A u \in Task : u # t => task'[u] = [task[u] EXCEPT !.blocks = task'[u].blocks]
    BY <1>5a, DependencyEffect
  <2>2. WithinBudget(task'[t])
    BY <2>1 DEF WithinBudget
  <2>3. ASSUME NEW u \in Task, u # t PROVE WithinBudget(task'[u])
    <3>1. task[u] \in Records /\ WithinBudget(task[u])
      BY <1>0
    <3>2. WithinBudget([task[u] EXCEPT !.blocks = task'[u].blocks])
      BY <3>1, BlocksWithinBudget
    <3> QED
      BY <2>1, <2>3, <3>2
  <2> QED
    BY <2>2, <2>3
\* What is cancelled keeps its attempts.
<1>6. ASSUME NEW t \in Task, NEW key \in Key, NEW version, NEW cascade \in BOOLEAN,
             Cancel(t, key, version, cascade)
      PROVE  \A u \in Task : WithinBudget(task'[u])
  <2>1. \A u \in Task :
           \/ task'[u] = task[u]
           \/ \E keys \in {{}, {key}} :
                 task'[u] = [Left(task[u], "cancelled") EXCEPT !.keys = @ \cup keys]
    BY <1>6 DEF Cancel
  <2>2. ASSUME NEW u \in Task, NEW keys,
               task'[u] = [Left(task[u], "cancelled") EXCEPT !.keys = @ \cup keys]
        PROVE  WithinBudget(task'[u])
    <3>1. /\ task'[u].status = "cancelled" /\ task'[u].keys = task[u].keys \cup keys
          /\ task'[u].attempt = task[u].attempt /\ task'[u].maxAttempts = task[u].maxAttempts
      BY <1>0, <2>2 DEF Left, Records
    <3> QED
      BY <3>1 DEF WithinBudget
  <2> QED
    BY <2>1, <2>2
<1>7. CASE CancelAll
  <2>1. \A u \in Task : task'[u] \in {task[u], Left(task[u], "cancelled")}
    BY <1>7 DEF CancelAll
  <2> QED
    BY <1>0, <2>1, LeftWithinBudget
<1> QED
  BY <1>1, <1>2, <1>3, <1>4, <1>5, <1>5a, <1>6, <1>7 DEF StoreNext

(* Without a retry by the main agent no task is reserved more often than   *)
(* its limit says, and none fails with attempts left (tasks.ts:262).       *)
THEOREM AttemptsAreBounded == StoreSpec => []AttemptBudget
<1>1. StoreInit => AttemptBudget
  BY DEF StoreInit, AttemptBudget, Absent
<1> QED
  BY <1>1, AttemptStep, StoreInvariant, PTL DEF StoreSpec

-----------------------------------------------------------------------------
(* The scheduler.                                                          *)

RecordsOver(S) ==
    [status : S, owner : S, blockedBy : S, blocks : S, attempt : S, maxAttempts : S, version : S,
     keys : S]

\* The graph has a record for every task, whatever its fields hold.
Shaped == \E S : task \in [Task -> RecordsOver(S)]

TypeOK ==
    /\ Shaped
    /\ status \in [Run -> {"none", "created", "running", "cancelling"} \cup Terminal]
    /\ answer \in [Run -> {"none"} \cup Terminal]
    /\ releasing \subseteq Run
    /\ closing \in {"open", "cancelling", "stopping", "closed"}
    /\ happened \in [External -> Nat]

\* Only an agent there is can be about to be cancelled.
ReleasingHasRecord == \A r \in releasing : status[r] # "none"

\* A permission change waits for every agent that is alive.
AllAwaited == quiescing => Live \subseteq awaited

\* Nothing is pending or running once the tasks have been cancelled.
NothingLeft ==
    closing \in {"stopping", "closed"} /\ allCancelled =>
        \A t \in Task : task[t].status \notin {"running", "pending"}

\* The tasks are cancelled after the shutdown has begun.
NoneCancelled == closing \in {"open", "cancelling"} => ~allCancelled

\* The inductive invariant.
SchedInv ==
    /\ TypeOK
    /\ ReleasingHasRecord
    /\ AllAwaited
    /\ NothingLeft
    /\ NoneCancelled
    /\ closing = "closed" => Live = {}

-----------------------------------------------------------------------------
(* What the operations of the store do to the status of tasks.             *)

\* When nothing was left to do, nothing is.
NoneRevived ==
    (\A t \in Task : task[t].status \notin {"running", "pending"})
        => \A t \in Task : task'[t].status \notin {"running", "pending"}

NoneCompleted ==
    \A t \in Task : task'[t].status = "completed" => task[t].status = "completed"

\* One record is replaced.
LEMMA OneReplaced ==
  ASSUME NEW S, task \in [Task -> RecordsOver(S)], NEW t, NEW T, NEW rec \in RecordsOver(T),
         task' = [task EXCEPT ![t] = rec]
  PROVE  Shaped' /\ \A u \in Task : task'[u] = IF u = t THEN rec ELSE task[u]
<1>1. RecordsOver(S) \subseteq RecordsOver(S \cup T) /\ RecordsOver(T) \subseteq RecordsOver(S \cup T)
  BY DEF RecordsOver
<1>2. task' \in [Task -> RecordsOver(S \cup T)]
  BY <1>1
<1> QED
  BY <1>2 DEF Shaped

LEMMA ReserveEffect ==
  ASSUME Shaped, NEW t, NEW r, Reserve(t, r)
  PROVE  Shaped' /\ NoneRevived /\ NoneCompleted
<1>0. PICK S : task \in [Task -> RecordsOver(S)]
  BY DEF Shaped
<1> DEFINE rec == [task[t] EXCEPT !.status = "running", !.owner = r,
                                  !.attempt = @ + 1, !.version = @ + 1]
<1>1. task' = [task EXCEPT ![t] = rec] /\ task[t].status = "pending"
  BY <1>0 DEF Reserve, Ready
<1>2. CASE t \in Task
  <2> DEFINE T == S \cup {"running", r, task[t].attempt + 1, task[t].version + 1}
  <2>1. rec \in RecordsOver(T) /\ rec.status = "running"
    BY <1>0, <1>2 DEF RecordsOver
  <2> HIDE DEF rec, T
  <2> QED
    BY <1>0, <1>1, <2>1, OneReplaced DEF NoneRevived, NoneCompleted
<1>3. CASE t \notin Task
  <2>1. task' = task
    BY <1>0, <1>1, <1>3
  <2> QED
    BY <1>0, <2>1 DEF Shaped, NoneRevived, NoneCompleted
<1> QED
  BY <1>2, <1>3

\* An attempt ends: what settles a task is the only thing that completes it.
LEMMA LeftEffect ==
  ASSUME Shaped, NEW t, NEW r, IsActiveRun(t, r), NEW final,
         task' = [task EXCEPT ![t] = Left(@, final)]
  PROVE  /\ Shaped'
         /\ \A u \in Task : IF u = t THEN task'[u].status = final ELSE task'[u] = task[u]
<1>0. PICK S : task \in [Task -> RecordsOver(S)]
  BY DEF Shaped
<1> DEFINE rec == Left(task[t], final)
<1>1. task' = [task EXCEPT ![t] = rec]
  BY <1>0
<1>2. CASE t \in Task
  <2> DEFINE T == S \cup {final, NoRun, task[t].version + 1}
  <2>1. rec \in RecordsOver(T) /\ rec.status = final
    BY <1>0, <1>2 DEF RecordsOver, Left
  <2> HIDE DEF rec, T
  <2> QED
    BY <1>0, <1>1, <2>1, OneReplaced
<1>3. CASE t \notin Task
  <2>1. task' = task
    BY <1>0, <1>1, <1>3
  <2> QED
    BY <1>0, <1>3, <2>1 DEF Shaped
<1> QED
  BY <1>2, <1>3

LEMMA ReleaseEffect ==
  ASSUME Shaped, NEW t, NEW r, ReleaseSpawnFailure(t, r)
  PROVE  Shaped' /\ NoneRevived /\ NoneCompleted
<1> DEFINE final == AfterFailure(task[t])
<1>0. \E S : task \in [Task -> RecordsOver(S)]
  BY DEF Shaped
<1>1. /\ IsActiveRun(t, r) /\ task' = [task EXCEPT ![t] = Left(@, final)]
      /\ final \in {"pending", "failed"}
  BY <1>0 DEF ReleaseSpawnFailure, AfterFailure
<1>2. task[t].status = "running"
  BY <1>1 DEF IsActiveRun
<1> HIDE DEF final
<1>3. Shaped' /\ \A u \in Task : IF u = t THEN task'[u].status = final ELSE task'[u] = task[u]
  BY <1>1, LeftEffect
<1> QED
  BY <1>1, <1>2, <1>3 DEF NoneRevived, NoneCompleted

LEMMA SettleEffect ==
  ASSUME Shaped, NEW t, NEW r, NEW result, Settle(t, r, result)
  PROVE  /\ Shaped'
         /\ \A u \in Task :
               \/ task'[u] = task[u]
               \/ /\ u = t /\ IsActiveRun(t, r)
                  /\ task'[u].status = result \/ task'[u].status \in {"pending", "failed"}
<1> DEFINE final == IF result = "failed" THEN AfterFailure(task[t]) ELSE result
<1>0. \E S : task \in [Task -> RecordsOver(S)]
  BY DEF Shaped
<1>1. /\ IsActiveRun(t, r) /\ task' = [task EXCEPT ![t] = Left(@, final)]
      /\ final = result \/ final \in {"pending", "failed"}
  BY <1>0 DEF Settle, AfterFailure
<1> HIDE DEF final
<1>3. Shaped' /\ \A u \in Task : IF u = t THEN task'[u].status = final ELSE task'[u] = task[u]
  BY <1>1, LeftEffect
<1> QED
  BY <1>1, <1>3

\* RebuildBlocks keeps the shape of a graph, and the status of its tasks.
LEMMA RebuildEffect ==
  ASSUME NEW S, NEW g \in [Task -> RecordsOver(S)]
  PROVE  /\ RebuildBlocks(g) \in [Task -> RecordsOver(S \cup SUBSET Task)]
         /\ \A t \in Task : RebuildBlocks(g)[t].status = g[t].status
<1> DEFINE waiting(t) == {u \in Task : t \in g[u].blockedBy}
<1>1. RebuildBlocks(g) = [t \in Task |-> [g[t] EXCEPT !.blocks = waiting(t)]]
  BY DEF RebuildBlocks
<1>2. \A t \in Task : waiting(t) \in SUBSET Task
  OBVIOUS
<1> HIDE DEF waiting
<1>3. \A t \in Task : /\ [g[t] EXCEPT !.blocks = waiting(t)] \in RecordsOver(S \cup SUBSET Task)
                      /\ [g[t] EXCEPT !.blocks = waiting(t)].status = g[t].status
  BY <1>2 DEF RecordsOver
<1> QED
  BY <1>1, <1>3

\* A new dependency.
LEMMA DependencyShape ==
  ASSUME Shaped, NEW t \in Task, NEW key, NEW version, NEW added,
         AddDependencies(t, key, version, added)
  PROVE  Shaped' /\ NoneCompleted
<1>0. PICK S : task \in [Task -> RecordsOver(S)]
  BY DEF Shaped
<1> DEFINE rec == DependingOn(task[t], added)
           T == S \cup {task[t].blockedBy \cup added}
           more == [task EXCEPT ![t] = rec]
           linked == RebuildBlocks(more)
           updated == Updated(linked[t], key)
           V == (T \cup SUBSET Task) \cup {linked[t].version + 1, linked[t].keys \cup {key}}
<1>1. rec \in RecordsOver(T) /\ rec.status = task[t].status
  BY <1>0 DEF RecordsOver, DependingOn
<1>2. task' = [linked EXCEPT ![t] = updated] /\ task[t].status = "pending"
  BY <1>0 DEF AddDependencies, WithDependencies
<1>3. S \subseteq T /\ T \subseteq T \cup SUBSET Task
  OBVIOUS
<1> HIDE DEF rec, T
<1>4. more \in [Task -> RecordsOver(T)] /\ \A u \in Task : more[u].status = task[u].status
  BY <1>0, <1>1, <1>3 DEF RecordsOver
<1> HIDE DEF more
<1>5. /\ linked \in [Task -> RecordsOver(T \cup SUBSET Task)]
      /\ \A u \in Task : linked[u].status = task[u].status
  BY <1>4, RebuildEffect
<1> HIDE DEF linked
<1>6. updated \in RecordsOver(V) /\ updated.status = task[t].status
  <2>1. linked[t] \in RecordsOver(V) /\ linked[t].status = task[t].status
    BY <1>5 DEF RecordsOver
  <2>2. linked[t].version + 1 \in V /\ linked[t].keys \cup {key} \in V
    OBVIOUS
  <2> HIDE DEF V
  <2> QED
    BY <2>1, <2>2 DEF RecordsOver, Updated
<1>7. RecordsOver(T \cup SUBSET Task) \subseteq RecordsOver(V)
  BY DEF RecordsOver
<1> HIDE DEF updated, V
<1>8. task' \in [Task -> RecordsOver(V)] /\ \A u \in Task : task'[u].status = task[u].status
  BY <1>2, <1>5, <1>6, <1>7
<1> QED
  BY <1>8 DEF Shaped, NoneCompleted

\* An update: the record it starts from is the task's, or a retried one.
LEMMA UpdateEffect ==
  ASSUME Shaped, NEW t \in Task, NEW key, NEW version,
         Progress(t, key, version) \/ Retry(t, key, version)
  PROVE  /\ Shaped' /\ NoneCompleted
         /\ Progress(t, key, version) => NoneRevived
<1>0. PICK S : task \in [Task -> RecordsOver(S)]
  BY DEF Shaped
<1>1. PICK rec \in {task[t], [task[t] EXCEPT !.status = "pending"]} :
         task' = [task EXCEPT ![t] = Updated(rec, key)]
  BY <1>0 DEF Progress, Retry
<1>2. \E T : rec \in RecordsOver(T) /\ rec.status \in {task[t].status, "pending"}
  <2>1. CASE rec = task[t]
    BY <1>0, <2>1
  <2>2. CASE rec = [task[t] EXCEPT !.status = "pending"]
    <3>1. rec \in RecordsOver(S \cup {"pending"}) /\ rec.status = "pending"
      BY <1>0, <2>2 DEF RecordsOver
    <3> QED
      BY <3>1
  <2> QED
    BY <1>1, <2>1, <2>2
<1>3. PICK T : rec \in RecordsOver(T) /\ rec.status \in {task[t].status, "pending"}
  BY <1>2
<1> DEFINE updated == Updated(rec, key)
<1>4. /\ updated \in RecordsOver(T \cup {rec.version + 1, rec.keys \cup {key}})
      /\ updated.status = rec.status
  BY <1>3 DEF RecordsOver, Updated
<1>5. task' = [task EXCEPT ![t] = updated]
  BY <1>1
<1> HIDE DEF updated
<1>6. Shaped' /\ \A u \in Task : task'[u] = IF u = t THEN updated ELSE task[u]
  BY <1>0, <1>4, <1>5, OneReplaced
<1>7. ASSUME Progress(t, key, version) PROVE task[t].status = "running"
  BY <1>7 DEF Progress
<1> QED
  BY <1>3, <1>4, <1>6, <1>7 DEF NoneCompleted, NoneRevived

LEMMA CreateEffect ==
  ASSUME Shaped, NEW ids, NEW blockedBy, NEW limit, CreateBatch(ids, blockedBy, limit)
  PROVE  Shaped' /\ NoneCompleted
<1>0. PICK S : task \in [Task -> RecordsOver(S)]
  BY DEF Shaped
<1> DEFINE T == S \cup {"pending", NoRun, 0, limit, 1, {}} \cup {blockedBy[t] : t \in Task}
           more == [t \in Task |-> IF t \in ids THEN Created(blockedBy[t], limit) ELSE task[t]]
<1>1. task' = RebuildBlocks(more)
  BY DEF CreateBatch
<1>2. \A t \in Task : /\ Created(blockedBy[t], limit) \in RecordsOver(T)
                      /\ Created(blockedBy[t], limit).status = "pending"
  BY DEF RecordsOver, Created, Absent
<1>3. RecordsOver(S) \subseteq RecordsOver(T)
  BY DEF RecordsOver
<1> HIDE DEF T
<1>4. /\ more \in [Task -> RecordsOver(T)]
      /\ \A t \in Task : more[t].status \in {"pending", task[t].status}
  BY <1>0, <1>2, <1>3
<1> HIDE DEF more
<1>5. /\ task' \in [Task -> RecordsOver(T \cup SUBSET Task)]
      /\ \A t \in Task : task'[t].status \in {"pending", task[t].status}
  BY <1>1, <1>4, RebuildEffect
<1> QED
  BY <1>5 DEF Shaped, NoneCompleted

\* Tasks are cancelled, all that can be or those of a cascade.
LEMMA CancelEffect ==
  ASSUME Shaped,
         \/ CancelAll
         \/ \E t \in Task, key \in Key, cascade \in BOOLEAN : Cancel(t, key, task[t].version, cascade)
  PROVE  /\ Shaped' /\ NoneCompleted
         /\ CancelAll => \A u \in Task : task'[u].status \notin {"pending", "running"}
<1>0. PICK S : task \in [Task -> RecordsOver(S)]
  BY DEF Shaped
<1>1. task' = [u \in Task |-> task'[u]]
  BY DEF CancelAll, Cancel
<1>2. \A u \in Task :
         \/ task'[u] = task[u]
         \/ task'[u] = Left(task[u], "cancelled")
         \/ \E key \in Key, keys \in {{}} \cup {{k} : k \in Key} :
               task'[u] = [Left(task[u], "cancelled") EXCEPT !.keys = @ \cup keys]
  BY DEF CancelAll, Cancel
<1> DEFINE Added == {{}} \cup {{k} : k \in Key}
           T == S \cup {"cancelled", NoRun} \cup {task[u].version + 1 : u \in Task}
                  \cup UNION {{task[u].keys \cup keys : keys \in Added} : u \in Task}
           Cancelled(u) == Left(task[u], "cancelled")
<1>3. ASSUME NEW u \in Task
      PROVE  task'[u] \in RecordsOver(T) /\ (task'[u] = task[u] \/ task'[u].status = "cancelled")
  <2>1. S \subseteq T /\ "cancelled" \in T /\ NoRun \in T /\ task[u].version + 1 \in T
    OBVIOUS
  <2>2. ASSUME NEW keys \in Added PROVE task[u].keys \cup keys \in T
    <3> HIDE DEF Added
    <3>1. task[u].keys \cup keys \in {task[u].keys \cup k : k \in Added}
      OBVIOUS
    <3> QED
      BY <3>1
  <2>3. task[u] \in RecordsOver(S)
    BY <1>0
  <2> HIDE DEF T, Added
  <2>4. CASE task'[u] = task[u]
    BY <2>1, <2>3, <2>4 DEF RecordsOver
  <2>5. Cancelled(u) \in RecordsOver(T) /\ Cancelled(u).status = "cancelled" /\ Cancelled(u).keys = task[u].keys
    BY <2>1, <2>3 DEF RecordsOver, Left
  <2>6. ASSUME NEW keys \in Added, task'[u] = [Cancelled(u) EXCEPT !.keys = @ \cup keys]
        PROVE  task'[u] \in RecordsOver(T) /\ task'[u].status = "cancelled"
    <3>1. Cancelled(u).keys \cup keys \in T
      BY <2>2, <2>5
    <3> HIDE DEF Cancelled
    <3> QED
      BY <2>5, <2>6, <3>1 DEF RecordsOver
  <2> HIDE DEF Cancelled
  <2>7. \/ task'[u] = task[u] \/ task'[u] = Cancelled(u)
        \/ \E keys \in Added : task'[u] = [Cancelled(u) EXCEPT !.keys = @ \cup keys]
    BY <1>2 DEF Cancelled, Added
  <2> QED
    BY <2>4, <2>5, <2>6, <2>7
<1> HIDE DEF T
<1>4. task' \in [Task -> RecordsOver(T)]
  BY <1>1, <1>3
<1>5. ASSUME CancelAll, NEW u \in Task PROVE task'[u].status \notin {"pending", "running"}
  <2>1. CASE Cancellable(u)
    <3>1. task'[u] = Left(task[u], "cancelled")
      BY <1>5, <2>1 DEF CancelAll
    <3>2. Left(task[u], "cancelled").status = "cancelled"
      BY <1>0 DEF RecordsOver, Left
    <3> QED
      BY <3>1, <3>2
  <2>2. CASE ~Cancellable(u)
    <3>1. task'[u] = task[u]
      BY <1>5, <2>2 DEF CancelAll
    <3> QED
      BY <2>2, <3>1 DEF Cancellable
  <2> QED
    BY <2>1, <2>2
<1> QED
  BY <1>3, <1>4, <1>5 DEF Shaped, NoneCompleted

-----------------------------------------------------------------------------
(* The invariant is inductive.                                             *)

LEMMA SchedInit == Init => SchedInv
<1> SUFFICES ASSUME Init PROVE SchedInv
  OBVIOUS
<1>1. task \in [Task -> RecordsOver({"absent", NoRun, {}, 0, 1})]
  BY DEF Init, StoreInit, Absent, RecordsOver
<1> QED
  BY <1>1 DEF Init, SchedInv, TypeOK, Shaped, ReleasingHasRecord, AllAwaited, NothingLeft, NoneCancelled

\* No agent comes to life, and none goes but by ending.
LEMMA NoNewAgent ==
  ASSUME SchedInv, Shaped', happened' \in [External -> Nat],
         UNCHANGED controlVars, Open \/ NoneRevived,
         status' \in [Run -> {"none", "created", "running", "cancelling"} \cup Terminal],
         answer' \in [Run -> {"none"} \cup Terminal],
         releasing' \subseteq Run, Live' \subseteq Live,
         \A r \in releasing' : status'[r] # "none"
  PROVE  SchedInv'
<1>1. TypeOK' /\ ReleasingHasRecord'
  BY DEF SchedInv, TypeOK, ReleasingHasRecord, controlVars
<1>2. AllAwaited'
  BY DEF SchedInv, AllAwaited, controlVars
<1>3. NothingLeft'
  BY DEF SchedInv, NothingLeft, NoneRevived, controlVars, Open
<1>4. (closing = "closed" => Live = {})' /\ NoneCancelled'
  BY DEF SchedInv, NoneCancelled, controlVars
<1> QED
  BY <1>1, <1>2, <1>3, <1>4 DEF SchedInv

\* The agents are as they were.
LEMMA SameAgents ==
  ASSUME SchedInv, Shaped', happened' \in [External -> Nat],
         UNCHANGED <<status, answer, releasing, controlVars>>, Open \/ NoneRevived
  PROVE  SchedInv'
<1>1. Live' = Live
  BY DEF Live
<1> QED
  BY <1>1, NoNewAgent DEF SchedInv, TypeOK, ReleasingHasRecord

\* An agent asked to stop stays alive until it has stopped.
LEMMA CancellationKeeps ==
  ASSUME SchedInv, NEW runs, status' = Cancellation(runs), UNCHANGED answer
  PROVE  /\ status' \in [Run -> {"none", "created", "running", "cancelling"} \cup Terminal]
         /\ \A r \in Run : status'[r] = "none" <=> status[r] = "none"
         /\ Live' = Live
<1>1. /\ status' \in [Run -> {"none", "created", "running", "cancelling"} \cup Terminal]
      /\ \A r \in Run : status'[r] = "none" <=> status[r] = "none"
  BY DEF SchedInv, TypeOK, Cancellation, Terminal
<1> QED
  BY <1>1 DEF Live

LEMMA HappensKeeps ==
  ASSUME SchedInv, NEW what \in External, Happens(what)
  PROVE  happened' \in [External -> Nat] /\ happened' # happened
<1>1. happened \in [External -> Nat] /\ happened' = [happened EXCEPT ![what] = @ + 1]
  BY DEF SchedInv, TypeOK, Happens
<1>2. happened'[what] # happened[what] /\ happened' \in [External -> Nat]
  BY <1>1
<1> QED
  BY <1>2

LEMMA TaskUntouched ==
  ASSUME SchedInv, UNCHANGED task
  PROVE  Shaped' /\ NoneRevived /\ NoneCompleted
BY DEF SchedInv, TypeOK, Shaped, NoneRevived, NoneCompleted

-----------------------------------------------------------------------------
(* One lemma for each part of Next.                                        *)

LEMMA ScheduleKeeps ==
  ASSUME SchedInv, ScheduleStep \/ ScheduleFails \/ Timer
  PROVE  SchedInv' /\ NoneCompleted /\ UNCHANGED controlVars
<1>0. Shaped /\ happened \in [External -> Nat]
  BY DEF SchedInv, TypeOK
<1>1. CASE Look \/ List \/ EndPass \/ Timer
  <2>1. UNCHANGED <<task, status, answer, releasing, controlVars, happened>>
    BY <1>1 DEF Look, List, EndPass, Timer, storeVars, agentVars
  <2> QED
    BY <1>0, <2>1, TaskUntouched, SameAgents
<1>2. CASE ScheduleFails
  <2>1. UNCHANGED <<task, status, answer, releasing, controlVars>> /\ Happens("errors")
    BY <1>2 DEF ScheduleFails, storeVars, agentVars
  <2> QED
    BY <2>1, TaskUntouched, SameAgents, HappensKeeps DEF External
<1>3. CASE ReleaseUnspawned
  <2>1. UNCHANGED <<status, answer, releasing, controlVars, happened>>
    BY <1>3 DEF ReleaseUnspawned, agentVars
  <2>2. UNCHANGED task \/ \E r \in issued : ReleaseSpawnFailure(bound[r], r)
    BY <1>3 DEF ReleaseUnspawned, storeVars
  <2>3. Shaped' /\ NoneRevived /\ NoneCompleted
    BY <1>0, <2>2, TaskUntouched, ReleaseEffect
  <2> QED
    BY <1>0, <2>1, <2>3, SameAgents
<1>4. CASE ReserveNext
  <2>1. UNCHANGED <<answer, releasing, controlVars, happened>>
    BY <1>4 DEF ReserveNext
  <2>2. UNCHANGED task \/ \E t \in plan, r \in Run : Reserve(t, r)
    BY <1>4 DEF ReserveNext, storeVars
  <2>3. Shaped' /\ NoneRevived /\ NoneCompleted
    BY <1>0, <2>2, TaskUntouched, ReserveEffect
  <2>4. \/ UNCHANGED status
        \/ ~quiescing /\ Open /\ \E r \in Run : status' = [status EXCEPT ![r] = "created"]
    BY <1>4 DEF ReserveNext
  <2>5. CASE UNCHANGED status
    BY <1>0, <2>1, <2>3, <2>5, SameAgents
  <2>6. CASE ~quiescing /\ Open /\ \E r \in Run : status' = [status EXCEPT ![r] = "created"]
    <3>1. /\ status' \in [Run -> {"none", "created", "running", "cancelling"} \cup Terminal]
          /\ \A r \in Run : status[r] # "none" => status'[r] # "none"
      BY <2>6 DEF SchedInv, TypeOK
    <3>2. TypeOK' /\ ReleasingHasRecord'
      BY <1>0, <2>1, <2>3, <3>1 DEF SchedInv, TypeOK, ReleasingHasRecord, controlVars
    <3>3. AllAwaited' /\ NothingLeft' /\ NoneCancelled' /\ (closing = "closed" => Live = {})'
      BY <2>1, <2>6 DEF SchedInv, AllAwaited, NothingLeft, NoneCancelled, Open, controlVars
    <3> QED
      BY <2>1, <2>3, <3>2, <3>3 DEF SchedInv
  <2> QED
    BY <2>1, <2>3, <2>4, <2>5, <2>6
<1> QED
  BY <1>1, <1>2, <1>3, <1>4 DEF ScheduleStep, Look, List, EndPass, ReserveNext, ReleaseUnspawned,
     ScheduleFails, Timer

LEMMA AgentKeeps ==
  ASSUME SchedInv, NEW r \in Run,
         \/ Start(r) \/ (\E result \in Terminal : Finish(r, result)) \/ CancelReleased(r)
         \/ SettleFails(r) \/ CancelAgent(r)
  PROVE  SchedInv' /\ NoneCompleted /\ UNCHANGED controlVars
<1>0. /\ Shaped /\ happened \in [External -> Nat] /\ releasing \subseteq Run
      /\ status \in [Run -> {"none", "created", "running", "cancelling"} \cup Terminal]
      /\ answer \in [Run -> {"none"} \cup Terminal]
      /\ \A u \in releasing : status[u] # "none"
  BY DEF SchedInv, TypeOK, ReleasingHasRecord
<1>1. CASE Start(r)
  <2>1. /\ UNCHANGED <<task, answer, releasing, controlVars, happened>>
        /\ status[r] = "created" /\ status' = [status EXCEPT ![r] = "running"]
    BY <1>1 DEF Start, storeVars
  <2>2. /\ status' \in [Run -> {"none", "created", "running", "cancelling"} \cup Terminal]
        /\ \A u \in Run : status'[u] = "none" <=> status[u] = "none"
    BY <1>0, <2>1
  <2>3. Live' = Live
    BY <2>1, <2>2 DEF Live
  <2> QED
    BY <1>0, <2>1, <2>2, <2>3, TaskUntouched, NoNewAgent
<1>2. ASSUME NEW result \in Terminal, Finish(r, result)
      PROVE  SchedInv' /\ NoneCompleted /\ UNCHANGED controlVars
  <2>1. /\ UNCHANGED <<task, releasing, controlVars, happened>>
        /\ r \in Live /\ status' = [status EXCEPT ![r] = result]
        /\ answer' = [answer EXCEPT ![r] = result]
    BY <1>2 DEF Finish, storeVars
  <2>2. /\ status' \in [Run -> {"none", "created", "running", "cancelling"} \cup Terminal]
        /\ answer' \in [Run -> {"none"} \cup Terminal]
        /\ \A u \in Run : status'[u] = "none" <=> status[u] = "none"
        /\ \A u \in Run : answer'[u] = "none" => answer[u] = "none"
    BY <1>0, <2>1 DEF Live, Terminal
  <2>3. Live' \subseteq Live
    BY <2>2 DEF Live
  <2> QED
    BY <1>0, <2>1, <2>2, <2>3, TaskUntouched, NoNewAgent
<1>3. CASE CancelReleased(r)
  <2>1. /\ UNCHANGED <<answer, controlVars, happened>>
        /\ r \in releasing /\ releasing' = releasing \ {r}
        /\ status' = [status EXCEPT ![r] = "cancelling"]
    BY <1>3 DEF CancelReleased
  <2>2. UNCHANGED task \/ ReleaseSpawnFailure(bound[r], r)
    BY <1>3 DEF CancelReleased, storeVars
  <2>3. Shaped' /\ NoneRevived /\ NoneCompleted
    BY <1>0, <2>2, TaskUntouched, ReleaseEffect
  <2>4. /\ status' \in [Run -> {"none", "created", "running", "cancelling"} \cup Terminal]
        /\ \A u \in Run : status'[u] = "none" <=> status[u] = "none"
    BY <1>0, <2>1
  <2>5. Live' = Live
    BY <2>1, <2>4 DEF Live
  <2> QED
    BY <1>0, <2>1, <2>3, <2>4, <2>5, NoNewAgent
<1>4. CASE SettleFails(r)
  <2>1. UNCHANGED <<task, status, answer, releasing, controlVars>> /\ Happens("errors")
    BY <1>4 DEF SettleFails, storeVars
  <2> QED
    BY <2>1, TaskUntouched, SameAgents, HappensKeeps DEF External
<1>5. CASE CancelAgent(r)
  <2>1. /\ UNCHANGED <<task, status, answer, controlVars>> /\ Happens("cancels")
        /\ status[r] # "none" /\ releasing' = releasing \cup {r}
    BY <1>5 DEF CancelAgent, storeVars
  <2>2. Live' = Live
    BY <2>1 DEF Live
  <2>3. happened' \in [External -> Nat]
    BY <2>1, HappensKeeps DEF External
  <2> QED
    BY <1>0, <2>1, <2>2, <2>3, TaskUntouched, NoNewAgent
<1> QED
  BY <1>1, <1>2, <1>3, <1>4, <1>5

\* A result is settled: it alone can complete a task, that of its run.
LEMMA SettleKeeps ==
  ASSUME SchedInv, NEW r \in Run, SettleResult(r)
  PROVE  /\ SchedInv' /\ UNCHANGED controlVars
         /\ \A t \in Task :
               task'[t].status = "completed" /\ task[t].status # "completed" =>
                  /\ r \in unsettled \ unsettled'
                  /\ bound[r] = t /\ task[t].owner = r /\ answer[r] = "completed"
<1>0. Shaped /\ happened \in [External -> Nat]
  BY DEF SchedInv, TypeOK
<1>1. /\ UNCHANGED <<status, answer, releasing, controlVars, happened>>
      /\ r \in unsettled \ unsettled'
      /\ UNCHANGED task \/ Settle(bound[r], r, answer[r])
  BY DEF SettleResult, storeVars
<1>2. /\ Shaped'
      /\ \A u \in Task :
            \/ task'[u] = task[u]
            \/ /\ u = bound[r] /\ IsActiveRun(bound[r], r)
               /\ task'[u].status = answer[r] \/ task'[u].status \in {"pending", "failed"}
  BY <1>0, <1>1, SettleEffect, TaskUntouched
<1>3. NoneRevived
  BY <1>2 DEF NoneRevived, IsActiveRun
<1>4. SchedInv'
  BY <1>0, <1>1, <1>2, <1>3, SameAgents
<1> QED
  BY <1>1, <1>2, <1>4 DEF IsActiveRun

LEMMA MainKeeps ==
  ASSUME SchedInv,
         MainAgent \/ ReportProgress \/ SpawnOther \/ OtherEnds \/ \E t \in Task : CancelTask(t)
  PROVE  SchedInv' /\ NoneCompleted /\ UNCHANGED controlVars
<1>0. Shaped /\ happened \in [External -> Nat]
  BY DEF SchedInv, TypeOK
<1>1. CASE MainAgent
  <2>1. Open /\ UNCHANGED <<status, answer, releasing, controlVars, happened>>
    BY <1>1 DEF MainAgent, MainRuns, agentVars
  <2>2. Shaped' /\ NoneCompleted
    BY <1>0, <1>1, CreateEffect, UpdateEffect, DependencyShape DEF MainAgent
  <2> QED
    BY <1>0, <2>1, <2>2, SameAgents
<1>2. CASE ReportProgress
  <2>1. UNCHANGED <<status, answer, releasing, controlVars, happened>>
    BY <1>2 DEF ReportProgress, agentVars
  <2>2. Shaped' /\ NoneCompleted /\ NoneRevived
    BY <1>0, <1>2, UpdateEffect DEF ReportProgress
  <2> QED
    BY <1>0, <2>1, <2>2, SameAgents
<1>3. CASE SpawnOther
  <2>1. UNCHANGED <<task, status, answer, releasing, controlVars>> /\ Happens("spawns")
    BY <1>3 DEF SpawnOther, storeVars
  <2> QED
    BY <2>1, TaskUntouched, SameAgents, HappensKeeps DEF External
<1>4. CASE OtherEnds
  <2>1. UNCHANGED <<task, status, answer, releasing, controlVars, happened>>
    BY <1>4 DEF OtherEnds, storeVars
  <2> QED
    BY <1>0, <2>1, TaskUntouched, SameAgents
<1>5. ASSUME NEW t \in Task, CancelTask(t) PROVE SchedInv' /\ NoneCompleted /\ UNCHANGED controlVars
  <2>1. Open /\ UNCHANGED <<answer, releasing, controlVars, happened>>
    BY <1>5 DEF CancelTask, MainRuns
  <2>2. Shaped' /\ NoneCompleted
    BY <1>0, <1>5, CancelEffect DEF CancelTask
  <2>3. /\ status' \in [Run -> {"none", "created", "running", "cancelling"} \cup Terminal]
        /\ \A r \in Run : status'[r] = "none" <=> status[r] = "none"
        /\ Live' = Live
    BY <1>5, CancellationKeeps DEF CancelTask
  <2> QED
    BY <1>0, <2>1, <2>2, <2>3, NoNewAgent DEF SchedInv, TypeOK, ReleasingHasRecord
<1> QED
  BY <1>1, <1>2, <1>3, <1>4, <1>5

LEMMA ModeKeeps ==
  ASSUME SchedInv, Quiesce \/ Quiesced \/ ModeInForce
  PROVE  SchedInv' /\ NoneCompleted
<1>0. /\ Shaped' /\ NoneRevived /\ NoneCompleted
      /\ UNCHANGED <<answer, releasing, closing, allCancelled>>
  BY TaskUntouched DEF Quiesce, Quiesced, ModeInForce, storeVars, agentVars
<1>1. CASE Quiesce
  <2>1. /\ status' = Cancellation(NonTerminal) /\ awaited' = Live
        /\ Open /\ happened' \in [External -> Nat]
    BY <1>1, HappensKeeps DEF Quiesce, MainRuns, External
  <2>2. /\ status' \in [Run -> {"none", "created", "running", "cancelling"} \cup Terminal]
        /\ \A r \in Run : status'[r] = "none" <=> status[r] = "none"
        /\ Live' = Live
    BY <1>0, <2>1, CancellationKeeps
  <2>3. TypeOK' /\ ReleasingHasRecord'
    BY <1>0, <2>1, <2>2 DEF SchedInv, TypeOK, ReleasingHasRecord
  <2>4. AllAwaited' /\ NothingLeft' /\ NoneCancelled' /\ (closing = "closed" => Live = {})'
    BY <1>0, <2>1, <2>2 DEF SchedInv, AllAwaited, NothingLeft, NoneCancelled, Open
  <2> QED
    BY <1>0, <2>3, <2>4 DEF SchedInv
<1>2. CASE Quiesced \/ ModeInForce
  <2>1. UNCHANGED <<status, happened>> /\ (~quiescing' \/ UNCHANGED <<quiescing, awaited>>)
    BY <1>2 DEF Quiesced, ModeInForce, agentVars
  <2>2. Live' = Live
    BY <1>0, <2>1 DEF Live
  <2> QED
    BY <1>0, <2>1, <2>2
    DEF SchedInv, TypeOK, ReleasingHasRecord, AllAwaited, NothingLeft, NoneCancelled, NoneRevived
<1> QED
  BY <1>1, <1>2

LEMMA ClosingKeeps ==
  ASSUME SchedInv, Shutdown \/ ShutdownCancels \/ ShutdownEnds
  PROVE  SchedInv' /\ NoneCompleted /\ UNCHANGED quiescing
<1>0. Shaped
  BY DEF SchedInv, TypeOK
<1>1. CASE Shutdown
  <2>1. /\ UNCHANGED <<task, status, answer, releasing, awaited, quiescing, allCancelled>>
        /\ Open /\ closing' = "cancelling" /\ happened' \in [External -> Nat]
    BY <1>1, HappensKeeps DEF Shutdown, storeVars, agentVars, External
  <2>2. Live' = Live
    BY <2>1 DEF Live
  <2> QED
    BY <2>1, <2>2, TaskUntouched
    DEF SchedInv, TypeOK, ReleasingHasRecord, AllAwaited, NothingLeft, NoneCancelled, Open
<1>2. CASE ShutdownCancels
  <2>1. /\ UNCHANGED <<answer, releasing, awaited, quiescing>>
        /\ closing = "cancelling" /\ closing' = "stopping" /\ status' = Cancellation(NonTerminal)
    BY <1>2 DEF ShutdownCancels
  <2>2. /\ Shaped' /\ NoneCompleted /\ happened' \in [External -> Nat]
        /\ allCancelled' => \A u \in Task : task'[u].status \notin {"pending", "running"}
    <3>1. CASE CancelAll /\ UNCHANGED happened
      BY <1>0, <3>1, CancelEffect DEF SchedInv, TypeOK
    <3>2. CASE Happens("errors") /\ UNCHANGED <<task, allCancelled>>
      BY <2>1, <3>2, TaskUntouched, HappensKeeps DEF External, SchedInv, NoneCancelled
    <3> QED
      BY <1>2, <3>1, <3>2 DEF ShutdownCancels, storeVars
  <2>3. /\ status' \in [Run -> {"none", "created", "running", "cancelling"} \cup Terminal]
        /\ \A r \in Run : status'[r] = "none" <=> status[r] = "none"
        /\ Live' = Live
    BY <2>1, CancellationKeeps
  <2>4. TypeOK' /\ ReleasingHasRecord'
    BY <2>1, <2>2, <2>3 DEF SchedInv, TypeOK, ReleasingHasRecord
  <2>5. AllAwaited' /\ NothingLeft' /\ NoneCancelled' /\ (closing = "closed" => Live = {})'
    BY <2>1, <2>2, <2>3 DEF SchedInv, AllAwaited, NothingLeft, NoneCancelled
  <2> QED
    BY <2>1, <2>2, <2>4, <2>5 DEF SchedInv
<1>3. CASE ShutdownEnds
  <2>1. /\ UNCHANGED <<task, status, answer, releasing, awaited, quiescing, allCancelled, happened>>
        /\ closing = "stopping" /\ closing' = "closed" /\ Live = {}
    BY <1>3 DEF ShutdownEnds, storeVars, agentVars
  <2>2. Live' = Live
    BY <2>1 DEF Live
  <2> QED
    BY <2>1, <2>2, TaskUntouched DEF SchedInv, TypeOK, ReleasingHasRecord, AllAwaited, NothingLeft, NoneCancelled
<1> QED
  BY <1>1, <1>2, <1>3

LEMMA RestartKeeps ==
  ASSUME SchedInv, Restart
  PROVE  SchedInv' /\ NoneCompleted /\ happened' # happened
<1>1. /\ status' = [r \in Run |-> "none"] /\ answer' = [r \in Run |-> "none"]
      /\ releasing' = {} /\ ~quiescing' /\ closing' = "open" /\ ~allCancelled' /\ UNCHANGED task
      /\ happened' \in [External -> Nat] /\ happened' # happened
  BY HappensKeeps DEF Restart, storeVars, External
<1>2. Shaped' /\ NoneCompleted
  BY <1>1, TaskUntouched
<1> QED
  BY <1>1, <1>2 DEF SchedInv, TypeOK, ReleasingHasRecord, AllAwaited, NothingLeft, NoneCancelled

\* Every step is one of these.
LEMMA Steps ==
  ASSUME Next
  PROVE  \/ ScheduleStep \/ ScheduleFails \/ Timer
         \/ \E r \in Run :
               \/ Start(r) \/ (\E result \in Terminal : Finish(r, result)) \/ CancelReleased(r)
               \/ SettleFails(r) \/ CancelAgent(r)
         \/ \E r \in Run : SettleResult(r)
         \/ MainAgent \/ ReportProgress \/ SpawnOther \/ OtherEnds \/ \E t \in Task : CancelTask(t)
         \/ Quiesce \/ Quiesced \/ ModeInForce
         \/ Shutdown \/ ShutdownCancels \/ ShutdownEnds
         \/ Restart
BY DEF Next, AgentStep, ControlStep

LEMMA SchedStep == SchedInv /\ [Next]_vars => SchedInv'
<1> SUFFICES ASSUME SchedInv, [Next]_vars PROVE SchedInv'
  OBVIOUS
<1>1. CASE Next
  BY <1>1, Steps, ScheduleKeeps, AgentKeeps, SettleKeeps, MainKeeps, ModeKeeps, ClosingKeeps,
     RestartKeeps
<1>2. CASE UNCHANGED vars
  <2>1. UNCHANGED <<task, status, answer, releasing, controlVars, happened>>
    BY <1>2 DEF vars, storeVars, agentVars
  <2> QED
    BY <2>1, TaskUntouched, SameAgents DEF SchedInv, TypeOK
<1> QED
  BY <1>1, <1>2

LEMMA SchedInvariant == Spec => []SchedInv
BY SchedInit, SchedStep, PTL DEF Spec

-----------------------------------------------------------------------------
(* ShutdownIsQuiet: when the shutdown has ended, no agent is alive; and if *)
(* the write that cancels every task succeeded, none is left running or    *)
(* pending, whatever reservation, result or cancellation was under way     *)
(* when it began.                                                          *)
THEOREM ShutdownLeavesNothing == Spec => []ShutdownIsQuiet
<1>1. SchedInv => ShutdownIsQuiet
  BY DEF SchedInv, NothingLeft, ShutdownIsQuiet
<1> QED
  BY <1>1, SchedInvariant, PTL

(* CompletedByItsRun: a task is completed by nothing but the result of the *)
(* run that owns it.                                                       *)
THEOREM OnlyItsRunCompletes == Spec => CompletedByItsRun
<1> DEFINE ByItsRun ==
      \A t \in Task :
          task'[t].status = "completed" /\ task[t].status # "completed" =>
              \E r \in unsettled \ unsettled' :
                  bound[r] = t /\ task[t].owner = r /\ answer[r] = "completed"
<1>1. SchedInv /\ [Next]_vars => [ByItsRun]_vars
  <2> SUFFICES ASSUME SchedInv, Next PROVE ByItsRun
    OBVIOUS
  <2>1. NoneCompleted \/ \E r \in Run : SettleResult(r)
    BY Steps, ScheduleKeeps, AgentKeeps, MainKeeps, ModeKeeps, ClosingKeeps, RestartKeeps
  <2>2. CASE NoneCompleted
    BY <2>2 DEF NoneCompleted
  <2>3. ASSUME NEW r \in Run, SettleResult(r) PROVE ByItsRun
    BY <2>3, SettleKeeps
  <2> QED
    BY <2>1, <2>2, <2>3
<1> QED
  BY <1>1, SchedInvariant, PTL DEF Spec, CompletedByItsRun

-----------------------------------------------------------------------------
(* The bound on the agents: what a pass may still start was free when it   *)
(* looked, and nobody but the pass brings an agent of a task to life.      *)

Recorded == {r \in Run : status[r] # "none"}

CapInv ==
    /\ sched \in {"idle", "looking", "listing", "reserving", "releasing"}
    /\ room \in Nat /\ plan \subseteq Task /\ others \in Nat
    /\ sched # "listing" => room = 0
    /\ sched \notin {"reserving", "releasing"} => plan = {}
    /\ IsFiniteSet(Recorded)
    /\ Live \subseteq NonTerminal
    /\ Cardinality(Live) + room + Cardinality(plan) <= MaxScheduled

\* What CapInv says of the pass and of the agents the main agent spawns.
LEMMA SizesAreNumbers ==
  ASSUME CapInv
  PROVE  /\ IsFiniteSet(Live) /\ IsFiniteSet(NonTerminal) /\ IsFiniteSet(plan)
         /\ Cardinality(Live) \in Nat /\ Cardinality(NonTerminal) \in Nat
         /\ Cardinality(plan) \in Nat
         /\ Cardinality(Live) <= Cardinality(NonTerminal)
<1>1. Live \subseteq Recorded /\ NonTerminal \subseteq Recorded /\ Live \subseteq NonTerminal
  BY DEF CapInv, Recorded, Live, NonTerminal
<1>2. IsFiniteSet(Live) /\ IsFiniteSet(NonTerminal) /\ IsFiniteSet(plan)
  BY <1>1, FS_Subset, NumbersAssumption DEF CapInv
<1> QED
  BY <1>1, <1>2, FS_Subset, FS_CardinalityType

\* An agent's record is changed, and none comes to life.
NoneBorn ==
    /\ Recorded' \subseteq Recorded
    /\ Live' \subseteq Live
    /\ Live \subseteq NonTerminal => Live' \subseteq NonTerminal'

LEMMA CancellationBearsNone ==
  ASSUME SchedInv, NEW runs, status' = Cancellation(runs), UNCHANGED answer
  PROVE  NoneBorn
  BY DEF SchedInv, TypeOK, Cancellation, Terminal, NoneBorn, Recorded, Live, NonTerminal

LEMMA AgentBearsNone ==
  ASSUME SchedInv, NEW r \in Run,
         Start(r) \/ (\E result \in Terminal : Finish(r, result)) \/ CancelReleased(r)
  PROVE  NoneBorn
<1>0. /\ status \in [Run -> {"none", "created", "running", "cancelling"} \cup Terminal]
      /\ answer \in [Run -> {"none"} \cup Terminal]
      /\ \A u \in releasing : status[u] # "none"
  BY DEF SchedInv, TypeOK, ReleasingHasRecord
<1>1. CASE Start(r) \/ CancelReleased(r)
  <2>1. PICK s \in {"running", "cancelling"} : status' = [status EXCEPT ![r] = s]
    BY <1>1 DEF Start, CancelReleased
  <2>2. answer' = answer /\ status[r] # "none"
    BY <1>0, <1>1 DEF Start, CancelReleased
  <2> QED
    BY <1>0, <2>1, <2>2 DEF NoneBorn, Recorded, Live, NonTerminal
<1>2. ASSUME NEW result \in Terminal, Finish(r, result)
      PROVE  NoneBorn
  <2>1. /\ status[r] # "none" /\ status' = [status EXCEPT ![r] = result]
        /\ answer' = [answer EXCEPT ![r] = result] /\ result # "none"
    BY <1>2 DEF Finish, Live, Terminal
  <2> QED
    BY <1>0, <2>1 DEF NoneBorn, Recorded, Live, NonTerminal
<1> QED
  BY <1>1, <1>2

LEMMA OnlyTheSchedulerBears ==
  ASSUME SchedInv, [Next]_vars
  PROVE  NoneBorn \/ ReserveNext \/ Restart
<1>1. UNCHANGED <<status, answer>> => NoneBorn
  BY DEF NoneBorn, Recorded, Live, NonTerminal
<1>2. ASSUME NEW r \in Run, AgentStep(r) \/ SettleFails(r) \/ CancelAgent(r)
      PROVE  NoneBorn
  <2>1. \/ Start(r) \/ (\E result \in Terminal : Finish(r, result)) \/ CancelReleased(r)
        \/ UNCHANGED <<status, answer>>
    BY <1>2 DEF AgentStep, SettleResult, SettleFails, CancelAgent
  <2> QED
    BY <1>1, <2>1, AgentBearsNone
<1>3. CASE Quiesce \/ ShutdownCancels \/ \E t \in Task : CancelTask(t)
  <2>1. answer' = answer /\ \E runs : status' = Cancellation(runs)
    BY <1>3 DEF Quiesce, ShutdownCancels, CancelTask
  <2> QED
    BY <2>1, CancellationBearsNone
<1>4. CASE \/ (ScheduleStep /\ ~ReserveNext) \/ ScheduleFails \/ Timer
           \/ MainAgent \/ ReportProgress \/ SpawnOther \/ OtherEnds \/ Quiesced \/ ModeInForce
           \/ ShutdownEnds \/ Shutdown \/ UNCHANGED vars
  <2>1. UNCHANGED <<status, answer>>
    BY <1>4 DEF ScheduleStep, ScheduleFails, Timer, MainAgent, ReportProgress, SpawnOther, OtherEnds,
       Quiesced, ModeInForce, ShutdownEnds, Shutdown, Look, List, EndPass, ReleaseUnspawned, agentVars, vars
  <2> QED
    BY <1>1, <2>1
<1> QED
  BY <1>2, <1>3, <1>4 DEF Next, ControlStep

\* What a step other than those of the pass does to the pass.
LEMMA PassUntouched ==
  ASSUME CapInv, [Next]_vars
  PROVE  \/ ScheduleStep \/ ScheduleFails \/ Restart
         \/ /\ UNCHANGED <<room, plan>> /\ others' \in Nat
            /\ sched' = sched \/ (sched = "idle" /\ sched' = "looking")
<1> USE DEF CapInv
<1>1. ASSUME NEW r \in Run, AgentStep(r) \/ SettleFails(r) \/ CancelAgent(r)
      PROVE  /\ UNCHANGED <<room, plan>> /\ others' \in Nat
             /\ sched' = sched \/ (sched = "idle" /\ sched' = "looking")
  BY <1>1 DEF AgentStep, Start, Finish, SettleResult, CancelReleased, SettleFails, CancelAgent,
     schedVars, Requested, RequestSchedule
<1>2. CASE \/ Timer \/ MainAgent \/ ReportProgress \/ SpawnOther \/ OtherEnds
           \/ ModeInForce \/ \E t \in Task : CancelTask(t)
  BY <1>2 DEF Timer, MainAgent, ReportProgress, SpawnOther, OtherEnds, ModeInForce, CancelTask, agentVars,
     schedVars, Requested, RequestSchedule
<1>3. CASE Quiesced \/ Quiesce \/ Shutdown \/ ShutdownCancels \/ ShutdownEnds \/ UNCHANGED vars
  BY <1>3 DEF Quiesced, Quiesce, Shutdown, ShutdownCancels, ShutdownEnds, vars, agentVars, schedVars
<1> QED
  BY <1>1, <1>2, <1>3 DEF Next, ControlStep

LEMMA NoneBornKeeps ==
  ASSUME CapInv, NoneBorn, others' \in Nat, room' \in Nat, plan' \subseteq Task,
         sched' \in {"idle", "looking", "listing", "reserving", "releasing"},
         sched' # "listing" => room' = 0,
         sched' \notin {"reserving", "releasing"} => plan' = {},
         Cardinality(Live) + room' + Cardinality(plan') <= MaxScheduled
  PROVE  CapInv'
<1>1. IsFiniteSet(Recorded') /\ Live' \subseteq NonTerminal'
  BY FS_Subset DEF CapInv, NoneBorn
<1>2. IsFiniteSet(Live) /\ Cardinality(Live) \in Nat /\ IsFiniteSet(plan')
  BY SizesAreNumbers, FS_Subset, NumbersAssumption
<1>3. Cardinality(Live') <= Cardinality(Live) /\ Cardinality(Live') \in Nat
  BY <1>2, FS_Subset, FS_CardinalityType DEF NoneBorn
<1>4. Cardinality(plan') \in Nat
  BY <1>2, FS_CardinalityType
<1>5. Cardinality(Live') + room' + Cardinality(plan') <= MaxScheduled
  BY <1>2, <1>3, <1>4, MaxScheduledAssumption
<1> QED
  BY <1>1, <1>5 DEF CapInv

LEMMA PassKeeps ==
  ASSUME SchedInv, CapInv, [Next]_vars, (ScheduleStep /\ ~ReserveNext) \/ ScheduleFails
  PROVE  CapInv'
<1>1. NoneBorn /\ others' \in Nat
  <2>1. UNCHANGED <<status, answer, others>>
    BY DEF ScheduleStep, Look, List, EndPass, ReleaseUnspawned, ScheduleFails, agentVars
  <2> QED
    BY <2>1 DEF NoneBorn, Recorded, Live, NonTerminal, CapInv
<1>2. /\ Cardinality(Live) \in Nat /\ Cardinality(NonTerminal) \in Nat /\ Cardinality(plan) \in Nat
      /\ Cardinality(Live) <= Cardinality(NonTerminal)
      /\ room \in Nat /\ others \in Nat /\ MaxScheduled \in Nat
      /\ Cardinality(Live) + room + Cardinality(plan) <= MaxScheduled
      /\ sched # "listing" => room = 0
      /\ sched \notin {"reserving", "releasing"} => plan = {}
      /\ plan \subseteq Task
  BY SizesAreNumbers, MaxScheduledAssumption DEF CapInv
<1>3. Cardinality({}) = 0
  BY FS_EmptySet
<1>4. CASE Return
  <2>1. sched' \in {"idle", "looking"} /\ room' = 0 /\ plan' = {}
    BY <1>4 DEF Return
  <2> QED
    BY <1>1, <1>2, <1>3, <2>1, NoneBornKeeps
<1>5. CASE Look /\ ~Return
  <2>1. /\ sched = "looking" /\ sched' = "listing" /\ plan' = plan
        /\ room' = Capacity /\ ~(Capacity <= 0)
    BY <1>5 DEF Look
  <2>2. room' \in Nat /\ Cardinality(Live) + room' <= MaxScheduled
    BY <1>2, <2>1 DEF Capacity
  <2> QED
    BY <1>1, <1>2, <1>3, <2>1, <2>2, NoneBornKeeps
<1>6. CASE List /\ ~Return
  <2>1. PICK first \in SUBSET ReadyTasks :
           Cardinality(first) <= room /\ plan' = first /\ sched' = "reserving" /\ room' = 0
    BY <1>6 DEF List
  <2>2. plan' \subseteq Task /\ sched = "listing" /\ plan = {}
    BY <1>2, <1>6, <2>1 DEF List, ReadyTasks
  <2>3. Cardinality(plan') \in Nat /\ Cardinality(plan') <= room
    BY <2>1, <2>2, NumbersAssumption, FS_Subset, FS_CardinalityType
  <2>4. Cardinality(Live) + room' + Cardinality(plan') <= MaxScheduled
    BY <1>2, <1>3, <2>1, <2>2, <2>3
  <2>5. room' = 0 /\ sched' = "reserving"
    BY <2>1
  <2> QED
    BY <1>1, <2>2, <2>4, <2>5, NoneBornKeeps
<1>7. CASE (EndPass \/ ReleaseUnspawned) /\ ~Return
  <2>1. /\ sched \in {"reserving", "releasing"} /\ UNCHANGED <<room, plan>>
        /\ sched' \in {"looking", "reserving"}
        /\ sched' = "looking" => plan = {}
    BY <1>7 DEF EndPass, ReleaseUnspawned
  <2> QED
    BY <1>1, <1>2, <2>1, NoneBornKeeps
<1>8. CASE ScheduleFails
  BY <1>4, <1>8 DEF ScheduleFails
<1> QED
  BY <1>4, <1>5, <1>6, <1>7, <1>8 DEF ScheduleStep

\* The agent of a reservation takes the place its task had in the plan.
LEMMA ReserveKeeps ==
  ASSUME SchedInv, CapInv, ReserveNext
  PROVE  CapInv'
<1>0. PICK r : status' = status \/ status' = [status EXCEPT ![r] = "created"]
  BY DEF ReserveNext
<1>1. PICK t \in plan : plan' = plan \ {t}
  BY DEF ReserveNext
<1>2. /\ sched = "reserving" /\ sched' \in {"reserving", "releasing"}
      /\ UNCHANGED <<answer, others, room>>
  BY DEF ReserveNext
<1>3. /\ status \in [Run -> {"none", "created", "running", "cancelling"} \cup Terminal]
      /\ Live \subseteq NonTerminal /\ IsFiniteSet(Recorded) /\ room = 0
      /\ Cardinality(Live) + Cardinality(plan) <= MaxScheduled
  BY <1>2, SizesAreNumbers DEF SchedInv, TypeOK, CapInv
<1>4. Recorded' \subseteq Recorded \cup {r} /\ Live' \subseteq Live \cup {r}
      /\ Live' \subseteq NonTerminal'
  BY <1>2, <1>0, <1>3 DEF Recorded, Live, NonTerminal
<1>5. /\ Cardinality(plan') = Cardinality(plan) - 1 /\ Cardinality(plan) \in Nat
      /\ IsFiniteSet(Live) /\ Cardinality(Live) \in Nat
  BY <1>1, SizesAreNumbers, FS_RemoveElement
<1>6. /\ IsFiniteSet(Live \cup {r}) /\ Cardinality(Live \cup {r}) <= Cardinality(Live) + 1
      /\ Cardinality(Live \cup {r}) \in Nat
  <2>1. /\ IsFiniteSet(Live \cup {r})
        /\ \/ Cardinality(Live \cup {r}) = Cardinality(Live)
           \/ Cardinality(Live \cup {r}) = Cardinality(Live) + 1
    BY <1>5, FS_AddElement
  <2>2. Cardinality(Live \cup {r}) \in Nat
    BY <2>1, FS_CardinalityType
  <2> QED
    BY <1>5, <2>1, <2>2
<1>7. Cardinality(Live') <= Cardinality(Live) + 1 /\ Cardinality(Live') \in Nat
  BY <1>4, <1>5, <1>6, FS_Subset, FS_CardinalityType
<1>8. Cardinality(Live') + room' + Cardinality(plan') <= MaxScheduled
  BY <1>2, <1>3, <1>5, <1>7, MaxScheduledAssumption
<1>9. IsFiniteSet(Recorded')
  BY <1>3, <1>4, FS_AddElement, FS_Subset
<1> QED
  BY <1>1, <1>2, <1>4, <1>8, <1>9 DEF CapInv

LEMMA CapInit ==
  ASSUME Init
  PROVE  CapInv
<1>1. /\ Recorded = {} /\ Live = {} /\ others = 0 /\ sched = "idle" /\ room = 0 /\ plan = {}
  BY DEF Init, Recorded, Live
<1> QED
  BY <1>1, FS_EmptySet, MaxScheduledAssumption DEF CapInv

LEMMA CapStep ==
  ASSUME SchedInv, CapInv, [Next]_vars
  PROVE  CapInv'
<1>1. CASE Restart
  <2>1. /\ Recorded' = {} /\ Live' = {} /\ others' = 0 /\ sched' = "looking" /\ room' = 0 /\ plan' = {}
    BY <1>1 DEF Restart, Recorded, Live
  <2> QED
    BY <2>1, FS_EmptySet, MaxScheduledAssumption DEF CapInv
<1>2. CASE ReserveNext
  BY <1>2, ReserveKeeps
<1>3. CASE (ScheduleStep /\ ~ReserveNext) \/ ScheduleFails
  BY <1>3, PassKeeps
<1>4. CASE ~(Restart \/ ScheduleStep \/ ScheduleFails)
  <2>1. /\ UNCHANGED <<room, plan>> /\ others' \in Nat
        /\ sched' = sched \/ (sched = "idle" /\ sched' = "looking")
    BY <1>4, PassUntouched
  <2>2. NoneBorn
    BY <1>4, OnlyTheSchedulerBears DEF ScheduleStep
  <2> QED
    BY <2>1, <2>2, NoneBornKeeps DEF CapInv
<1> QED
  BY <1>1, <1>2, <1>3, <1>4

(***************************************************************************)
(* CapacityBound: never more agents of tasks than are allowed, although    *)
(* the task file is read, and each reservation written, between the moment *)
(* the capacity is computed and the moment an agent is spawned.            *)
(***************************************************************************)
THEOREM CapacityIsKept == Spec => []CapacityBound
<1>1. Init => CapInv
  BY CapInit
<1>2. SchedInv /\ CapInv /\ [Next]_vars => CapInv'
  BY CapStep
<1>3. CapInv => CapacityBound
  BY SizesAreNumbers, MaxScheduledAssumption DEF CapInv, CapacityBound
<1> QED
  BY <1>1, <1>2, <1>3, SchedInvariant, PTL DEF Spec

-----------------------------------------------------------------------------
(* QuiesceStopsEveryAgent: while a permission change waits no agent is     *)
(* spawned, reserved though a task may be; and it stops waiting only when  *)
(* every agent has ended, those it asked to stop being all there were.     *)
THEOREM QuiesceLeavesNoAgent == Spec => QuiesceStopsEveryAgent
<1> DEFINE Stops == quiescing /\ happened' = happened =>
                       Live' \subseteq Live /\ (~quiescing' => Live = {})
<1>1. SchedInv /\ [Next]_vars => [Stops]_vars
  <2> SUFFICES ASSUME SchedInv, Next, quiescing, happened' = happened
               PROVE  Live' \subseteq Live /\ (~quiescing' => Live = {})
    OBVIOUS
  <2>1. Live' \subseteq Live
    <3>1. CASE ReserveNext
      BY <3>1 DEF ReserveNext, Live
    <3>2. CASE NoneBorn
      BY <3>2 DEF NoneBorn
    <3> QED
      BY <3>1, <3>2, OnlyTheSchedulerBears, RestartKeeps
  <2>2. ASSUME ~quiescing' PROVE Live = {}
    <3>1. Quiesced
      BY <2>2, Steps, ScheduleKeeps, AgentKeeps, SettleKeeps, MainKeeps, ClosingKeeps, RestartKeeps
      DEF Quiesce, ModeInForce, controlVars
    <3> QED
      BY <3>1 DEF Quiesced, Paused, SchedInv, AllAwaited
  <2> QED
    BY <2>1, <2>2
<1> QED
  BY <1>1, SchedInvariant, PTL DEF Spec, QuiesceStopsEveryAgent

-----------------------------------------------------------------------------
(* The scheduler, its agents and the main agent use the store only through *)
(* its operations, each for a task and a run there is and, when it updates *)
(* a task, with a version that task has had.                               *)

GraphInv ==
    /\ SchedInv
    /\ CapInv
    /\ StoreInv
    /\ \A t \in Task : Exists(t) => task[t].version \in Nat \ {0}
    /\ \A r \in unsettled : r \in Run /\ answer[r] \in Terminal

\* What leaves its run is a task, or there is nothing to leave.
LEMMA SettlingIsAStoreStep ==
  ASSUME StoreInv, NEW r \in Run, NEW t,
         \/ ReleaseSpawnFailure(t, r)
         \/ \E result \in Terminal : Settle(t, r, result)
  PROVE  [StoreNext]_storeVars
<1>1. CASE t \in Task
  BY <1>1 DEF StoreNext, Terminal
<1>2. CASE t \notin Task
  <2>1. issued' = issued /\ \E rec : task' = [task EXCEPT ![t] = rec]
    BY DEF ReleaseSpawnFailure, Settle
  <2>2. task' = task
    BY <1>2, <2>1 DEF StoreInv, StoreTypeOK
  <2> QED
    BY <2>1, <2>2 DEF storeVars
<1> QED
  BY <1>1, <1>2

\* An update is decided on the version the task has.
LEMMA UpdateIsAStoreStep ==
  ASSUME GraphInv, NEW t \in Task, NEW key \in Key,
         \/ Progress(t, key, task[t].version)
         \/ Retry(t, key, task[t].version)
         \/ \E added \in SUBSET Task : AddDependencies(t, key, task[t].version, added)
         \/ \E cascade \in BOOLEAN : Cancel(t, key, task[t].version, cascade)
  PROVE  StoreNext
<1>1. Exists(t)
  BY DEF Progress, Retry, AddDependencies, Cancel, Expected
<1>2. task[t].version \in Nat \ {0}
  BY <1>1 DEF GraphInv
<1>3. PICK version \in 1..task[t].version : version = task[t].version
  BY <1>2
<1>4. \/ Progress(t, key, version)
      \/ Retry(t, key, version)
      \/ \E added \in SUBSET Task : AddDependencies(t, key, version, added)
      \/ \E cascade \in BOOLEAN : Cancel(t, key, version, cascade)
  BY <1>3
<1> QED
  BY <1>3, <1>4 DEF StoreNext

LEMMA StepUsesTheStore ==
  ASSUME GraphInv, [Next]_vars
  PROVE  [StoreNext]_storeVars
<1>0. StoreInv /\ releasing \subseteq Run /\ plan \subseteq Task /\ issued \subseteq Run
  BY DEF GraphInv, SchedInv, TypeOK, CapInv, StoreInv, StoreTypeOK
<1>1. CASE UNCHANGED storeVars
  BY <1>1 DEF storeVars
<1>2. CASE ReserveNext
  <2>1. UNCHANGED storeVars \/ \E t \in plan, r \in Run : Reserve(t, r)
    BY <1>2 DEF ReserveNext
  <2> QED
    BY <1>0, <1>1, <2>1 DEF StoreNext
<1>3. CASE ReleaseUnspawned
  <2>1. UNCHANGED storeVars \/ \E r \in issued : ReleaseSpawnFailure(bound[r], r)
    BY <1>3 DEF ReleaseUnspawned
  <2> QED
    BY <1>0, <1>1, <2>1, SettlingIsAStoreStep
<1>4. ASSUME NEW r \in Run, SettleResult(r)
      PROVE  [StoreNext]_storeVars
  <2>1. r \in unsettled /\ (UNCHANGED storeVars \/ Settle(bound[r], r, answer[r]))
    BY <1>4 DEF SettleResult
  <2>2. answer[r] \in Terminal
    BY <2>1 DEF GraphInv
  <2> QED
    BY <1>0, <1>1, <2>1, <2>2, SettlingIsAStoreStep
<1>5. ASSUME NEW r \in Run, CancelReleased(r)
      PROVE  [StoreNext]_storeVars
  <2>1. UNCHANGED storeVars \/ ReleaseSpawnFailure(bound[r], r)
    BY <1>5 DEF CancelReleased
  <2> QED
    BY <1>0, <1>1, <2>1, SettlingIsAStoreStep
<1>6. CASE MainAgent
  <2>1. CASE \E batch \in Batches, limit \in AttemptLimits :
                CreateBatch(DOMAIN batch, batch, limit)
    <3>1. PICK batch \in Batches, limit \in AttemptLimits :
             CreateBatch(DOMAIN batch, batch, limit)
      BY <2>1
    <3>2. DOMAIN batch \in SUBSET Task /\ batch \in [DOMAIN batch -> SUBSET Task]
      BY BatchesAssumption
    <3> QED
      BY <3>1, <3>2 DEF StoreNext
  <2>2. CASE \E t \in Task, key \in Key :
                \/ Retry(t, key, task[t].version)
                \/ \E added \in SUBSET Task :
                      AddDependencies(t, key, task[t].version, added)
    BY <2>2, UpdateIsAStoreStep
  <2> QED
    BY <1>6, <2>1, <2>2 DEF MainAgent
<1>7. CASE ReportProgress
  BY <1>7, UpdateIsAStoreStep DEF ReportProgress
<1>8. ASSUME NEW t \in Task, CancelTask(t)
      PROVE  [StoreNext]_storeVars
  BY <1>8, UpdateIsAStoreStep DEF CancelTask
<1>9. CASE ShutdownCancels
  BY <1>1, <1>9 DEF ShutdownCancels, StoreNext
<1>10. CASE \/ Look \/ List \/ EndPass \/ ScheduleFails \/ Timer
            \/ SpawnOther \/ OtherEnds \/ Quiesced \/ ModeInForce
            \/ ShutdownEnds \/ Quiesce \/ Shutdown \/ Restart
  BY <1>1, <1>10 DEF Look, List, EndPass, ScheduleFails, Timer, SpawnOther, OtherEnds,
     Quiesced, ModeInForce, ShutdownEnds, Quiesce, Shutdown, Restart
<1>11. ASSUME NEW r \in Run,
              \/ Start(r) \/ (\E result \in Terminal : Finish(r, result))
              \/ SettleFails(r) \/ CancelAgent(r)
       PROVE  [StoreNext]_storeVars
  BY <1>1, <1>11 DEF Start, Finish, SettleFails, CancelAgent
<1>12. CASE UNCHANGED vars
  BY <1>1, <1>12 DEF vars
<1> QED
  BY <1>2, <1>3, <1>4, <1>5, <1>6, <1>7, <1>8, <1>9, <1>10, <1>11, <1>12
     DEF Next, ScheduleStep, AgentStep, ControlStep

\* A result on its way to the store is one its agent ended with.
LEMMA ResultsAreReal ==
  ASSUME SchedInv, \A r \in unsettled : r \in Run /\ answer[r] \in Terminal, [Next]_vars
  PROVE  \A r \in unsettled' : r \in Run /\ answer'[r] \in Terminal
<1>0. answer \in [Run -> {"none"} \cup Terminal]
  BY DEF SchedInv, TypeOK
<1>1. CASE UNCHANGED answer /\ unsettled' \subseteq unsettled
  BY <1>1
<1>2. ASSUME NEW r \in Run, NEW result \in Terminal, Finish(r, result)
      PROVE  \A u \in unsettled' : u \in Run /\ answer'[u] \in Terminal
  BY <1>0, <1>2 DEF Finish
<1>3. CASE Restart
  BY <1>3 DEF Restart
<1>4. CASE ScheduleStep \/ ScheduleFails \/ Timer
  BY <1>1, <1>4 DEF ScheduleStep, Look, List, ReserveNext, EndPass, ReleaseUnspawned,
     ScheduleFails, Timer, agentVars
<1>5. ASSUME NEW r \in Run,
             Start(r) \/ SettleResult(r) \/ SettleFails(r) \/ CancelReleased(r) \/ CancelAgent(r)
      PROVE  UNCHANGED answer /\ unsettled' \subseteq unsettled
  BY <1>5 DEF Start, SettleResult, SettleFails, CancelReleased, CancelAgent
<1>6. CASE \/ MainAgent \/ ReportProgress \/ SpawnOther \/ (\E t \in Task : CancelTask(t))
           \/ ControlStep \/ Quiesce \/ Shutdown \/ UNCHANGED vars
  BY <1>1, <1>6 DEF MainAgent, ReportProgress, SpawnOther, CancelTask, ControlStep, OtherEnds,
     Quiesced, ModeInForce, ShutdownCancels, ShutdownEnds, Quiesce, Shutdown, agentVars, vars
<1> QED
  BY <1>1, <1>2, <1>3, <1>4, <1>5, <1>6 DEF Next, AgentStep

LEMMA GraphStep == GraphInv /\ [Next]_vars => GraphInv'
<1> SUFFICES ASSUME GraphInv, [Next]_vars PROVE GraphInv'
  OBVIOUS
<1>1. SchedInv' /\ CapInv'
  BY SchedStep, CapStep DEF GraphInv
<1>2. [StoreNext]_storeVars
  BY StepUsesTheStore
<1>3. StoreInv'
  BY <1>2, StepKeepsInvariant DEF GraphInv
<1>4. \A t \in Task : Exists(t)' => task'[t].version \in Nat \ {0}
  <2> SUFFICES ASSUME NEW t \in Task, Exists(t)'
               PROVE  task'[t].version \in Nat \ {0}
    OBVIOUS
  <2>1. task[t].version \in Nat /\ task'[t].version \in Nat
    BY <1>3 DEF GraphInv, StoreInv, StoreTypeOK, Records
  <2>2. CASE task'[t] = task[t]
    BY <2>2 DEF GraphInv, Exists
  <2>3. CASE task'[t] # task[t]
    <3>1. task'[t].version > task[t].version \/ OnlyBlocksMore(t)
      BY <1>2, <2>3, StepEffect DEF GraphInv, storeVars, OnlyWaitedFor
    <3>2. CASE task'[t].version > task[t].version
      BY <2>1, <3>2
    <3>3. CASE OnlyBlocksMore(t)
      <4>1. task[t] \in Records /\ task'[t] = [task[t] EXCEPT !.blocks = task'[t].blocks]
        BY <3>3 DEF GraphInv, StoreInv, StoreTypeOK, OnlyBlocksMore
      <4>2. task'[t].version = task[t].version /\ task'[t].status = task[t].status
        BY <4>1 DEF Records
      <4> QED
        BY <4>2 DEF GraphInv, Exists
    <3> QED
      BY <3>1, <3>2, <3>3
  <2> QED
    BY <2>2, <2>3
<1>5. \A r \in unsettled' : r \in Run /\ answer'[r] \in Terminal
  BY ResultsAreReal DEF GraphInv
<1> QED
  BY <1>1, <1>3, <1>4, <1>5 DEF GraphInv

LEMMA GraphInvariant == Spec => []GraphInv
<1>1. Init => GraphInv
  <2> SUFFICES ASSUME Init PROVE GraphInv
    OBVIOUS
  <2>1. StoreInv /\ SchedInv /\ CapInv
    BY InitHasInvariant, SchedInit, CapInit DEF Init
  <2>2. (\A t \in Task : ~Exists(t)) /\ unsettled = {}
    BY DEF Init, StoreInit, Absent, Exists
  <2> QED
    BY <2>1, <2>2 DEF GraphInv
<1> QED
  BY <1>1, GraphStep, PTL DEF Spec

(***************************************************************************)
(* The scheduler implements the store: whatever the scheduler, its agents, *)
(* a cancellation, a mode change, a shutdown or a crash do to the graph is *)
(* an operation of the store or nothing, so all that is promised of the    *)
(* store holds of the session.                                             *)
(***************************************************************************)
THEOREM SchedulerUsesTheStore == Spec => StoreSpec
<1>1. Init => StoreInit
  BY DEF Init
<1>2. GraphInv /\ [Next]_vars => [StoreNext]_storeVars
  BY StepUsesTheStore
<1> QED
  BY <1>1, <1>2, GraphInvariant, PTL DEF Spec, StoreSpec

(* In a session, too, no task is started before what it depends on, no run *)
(* works on two tasks, and no task is tried more often than its limit says *)
(* unless the main agent asked for it.                                     *)
THEOREM GraphIsKept ==
    Spec => [](DependenciesFirst /\ OneTaskPerRun /\ AttemptBudget)
  BY SchedulerUsesTheStore, OrderIsKept, RunsHaveOneTask, AttemptsAreBounded, PTL
=============================================================================
