----------------------------- MODULE TaskStore ------------------------------
(***************************************************************************)
(* PersistentTaskStore (src/src/tasks.ts): the task graph of a session and *)
(* the operations on it.  mutate() runs every operation alone, on the      *)
(* graph the last one left, and keeps its result only when the file has    *)
(* been replaced: an operation is one action, and one whose write fails    *)
(* changes nothing.                                                        *)
(*                                                                         *)
(* A run stands for the agent id and run id drawn for one reservation.     *)
(* Texts, results and times are left out; task ids are never used again.   *)
(***************************************************************************)
EXTENDS Naturals, FiniteSets

CONSTANTS Task,          \* task ids
          Run, NoRun,    \* agent runs, and the owner of an unowned task
          Key,           \* idempotency keys; each is used once per task
          AttemptLimits  \* the values of maxAttempts

ASSUME NoRunAssumption == NoRun \notin Run
ASSUME AttemptLimitsAssumption == AttemptLimits \subseteq 1..10

VARIABLES task,   \* the graph: what is known of each task
          issued  \* the runs drawn so far

storeVars == <<task, issued>>

Statuses == {"pending", "running", "completed", "failed", "cancelled"}

Records ==
    [status : Statuses \cup {"absent"}, owner : Run \cup {NoRun}, blockedBy : SUBSET Task,
     blocks : SUBSET Task, attempt : Nat, maxAttempts : 1..10, version : Nat, keys : SUBSET Key]

Absent ==
    [status |-> "absent", owner |-> NoRun, blockedBy |-> {}, blocks |-> {}, attempt |-> 0,
     maxAttempts |-> 1, version |-> 0, keys |-> {}]

Created(blockedBy, maxAttempts) ==
    [Absent EXCEPT !.status = "pending", !.blockedBy = blockedBy,
                   !.maxAttempts = maxAttempts, !.version = 1]

Exists(t) == task[t].status # "absent"

\* Wrong on purpose, for the check of the properties: only a task that waits for itself.
NoSelfDependency(g) == \A t \in Task : t \notin g[t].blockedBy

(* Every task is told again which tasks wait for it; its version stays.    *)
RebuildBlocks(g) ==
    [t \in Task |-> [g[t] EXCEPT !.blocks = {u \in Task : t \in g[u].blockedBy}]]

(***************************************************************************)
(* validateTaskGraph: every dependency exists, blocks is the inverse of    *)
(* blockedBy, and there is no cycle, which would be a set of tasks each    *)
(* waiting for another member of the set.                                  *)
(***************************************************************************)
Mirrored(g) == \A t, u \in Task : t \in g[u].blockedBy <=> u \in g[t].blocks

Acyclic(g) ==
    ~ \E S \in SUBSET Task : S # {} /\ \A t \in S : g[t].blockedBy \cap S # {}

ValidGraph(g) ==
    /\ \A t \in Task : \A d \in g[t].blockedBy : g[d].status # "absent"
    /\ Mirrored(g)
    /\ Acyclic(g)

\* Wrong on purpose, for the check of the properties: a failed dependency is good enough.
ReadyAfterFailure(g, t) ==
    /\ g[t].status = "pending"
    /\ g[t].owner = NoRun
    /\ \A d \in g[t].blockedBy : g[d].status \in {"completed", "failed"}

(* isTaskReady *)
Ready(g, t) ==
    /\ g[t].status = "pending"
    /\ g[t].owner = NoRun
    /\ \A d \in g[t].blockedBy : g[d].status = "completed"

(* collectDescendants: the least set closed under blocks. *)
Descendants(g, t) ==
    {d \in Task :
        \A S \in SUBSET Task :
            (g[t].blocks \subseteq S /\ \A s \in S : g[s].blocks \subseteq S) => d \in S}

\* Wrong on purpose, for the check of the properties: any answer about a running task.
IsRunning(t, r) == task[t].status = "running" /\ r # NoRun

(* isActiveRun: the fence every late answer of an agent run meets. *)
IsActiveRun(t, r) == task[t].status = "running" /\ task[t].owner = r

\* Wrong on purpose, for the check of the properties: one attempt too many.
AfterFailureOffByOne(rec) == IF rec.attempt <= rec.maxAttempts THEN "pending" ELSE "failed"

(***************************************************************************)
(* The status of a task whose attempt ended without a result.              *)
(***************************************************************************)
AfterFailure(rec) == IF rec.attempt < rec.maxAttempts THEN "pending" ELSE "failed"

\* Wrong on purpose, for the check of the properties: the version stays.
LeftUnversioned(rec, status) == [rec EXCEPT !.status = status, !.owner = NoRun]

Left(rec, status) ==
    [rec EXCEPT !.status = status, !.owner = NoRun, !.version = @ + 1]

-----------------------------------------------------------------------------
StoreInit ==
    /\ task = [t \in Task |-> Absent]
    /\ issued = {}

(* createBatch; a batch that does not validate is refused as a whole. *)
CreateBatch(ids, blockedBy, limit) ==
    LET graph == RebuildBlocks([t \in Task |-> IF t \in ids THEN Created(blockedBy[t], limit)
                                                            ELSE task[t]])
    IN  /\ ids # {}
        /\ \A t \in ids : ~Exists(t)
        /\ ValidGraph(graph)
        /\ task' = graph
        /\ UNCHANGED issued

(* reserve, with ids drawn for it. *)
Reserve(t, r) ==
    /\ r \notin issued
    /\ Ready(task, t)
    /\ task' = [task EXCEPT ![t].status = "running", ![t].owner = r,
                            ![t].attempt = @ + 1, ![t].version = @ + 1]
    /\ issued' = issued \cup {r}

(* releaseSpawnFailure: a reservation no agent came of. *)
ReleaseSpawnFailure(t, r) ==
    /\ IsActiveRun(t, r)
    /\ task' = [task EXCEPT ![t] = Left(@, AfterFailure(@))]
    /\ UNCHANGED issued

(* settleAgentRun: the answer of an agent run. *)
Settle(t, r, result) ==
    /\ IsActiveRun(t, r)
    /\ task' = [task EXCEPT ![t] = Left(@, IF result = "failed" THEN AfterFailure(@)
                                                               ELSE result)]
    /\ UNCHANGED issued

(***************************************************************************)
(* update: refused for a stale version; the answer to a key that was       *)
(* applied before is the task as it is.                                    *)
(***************************************************************************)
Expected(t, key, version) ==
    /\ Exists(t)
    /\ key \notin task[t].keys
    /\ version = task[t].version

Updated(rec, key) == [rec EXCEPT !.version = @ + 1, !.keys = @ \cup {key}]

(* By the main agent, or by the sub-agent that owns the task. *)
Progress(t, key, version) ==
    /\ Expected(t, key, version)
    /\ task[t].status = "running"
    /\ task' = [task EXCEPT ![t] = Updated(@, key)]
    /\ UNCHANGED issued

Retry(t, key, version) ==
    /\ Expected(t, key, version)
    /\ task[t].status = "failed"
    /\ task' = [task EXCEPT ![t] = Updated([@ EXCEPT !.status = "pending"], key)]
    /\ UNCHANGED issued

DependingOn(rec, added) == [rec EXCEPT !.blockedBy = @ \cup added]

WithDependencies(t, added) == RebuildBlocks([task EXCEPT ![t] = DependingOn(@, added)])

\* Wrong on purpose, for the check of the properties: to any task without an owner.
AddDependenciesToUnowned(t, key, version, added) ==
    /\ Expected(t, key, version)
    /\ task[t].owner = NoRun
    /\ added # {}
    /\ ValidGraph(WithDependencies(t, added))
    /\ task' = [WithDependencies(t, added) EXCEPT ![t] = Updated(@, key)]
    /\ UNCHANGED issued

AddDependencies(t, key, version, added) ==
    /\ Expected(t, key, version)
    /\ task[t].status = "pending" /\ task[t].owner = NoRun
    /\ added # {}
    /\ ValidGraph(WithDependencies(t, added))
    /\ task' = [WithDependencies(t, added) EXCEPT ![t] = Updated(@, key)]
    /\ UNCHANGED issued

\* Wrong on purpose, for the check of the properties: a completed task too.
CancellableUnlessCancelled(t) == Exists(t) /\ task[t].status # "cancelled"

(* The cancelled tasks keep everything but their status and their owner. *)
Cancellable(t) == task[t].status \in {"pending", "running", "failed"}

CancelTargets(t, cascade) == {t} \cup IF cascade THEN Descendants(task, t) ELSE {}

Cancel(t, key, version, cascade) ==
    /\ Expected(t, key, version)
    /\ Cancellable(t)
    /\ task' = [u \in Task |->
                  IF u \in CancelTargets(t, cascade) /\ Cancellable(u)
                  THEN [Left(task[u], "cancelled")
                           EXCEPT !.keys = @ \cup IF u = t THEN {key} ELSE {}]
                  ELSE task[u]]
    /\ UNCHANGED issued

\* Wrong on purpose, for the check of the properties: the running tasks are left to
\* their agents.
CancelPending ==
    /\ task' = [u \in Task |-> IF Cancellable(u) /\ task[u].status # "running"
                               THEN Left(task[u], "cancelled") ELSE task[u]]
    /\ UNCHANGED issued

(* cancelAll, at the end of the session. *)
CancelAll ==
    /\ task' = [u \in Task |-> IF Cancellable(u) THEN Left(task[u], "cancelled") ELSE task[u]]
    /\ UNCHANGED issued

StoreNext ==
    \/ \E ids \in SUBSET Task, limit \in AttemptLimits :
          \E blockedBy \in [ids -> SUBSET Task] : CreateBatch(ids, blockedBy, limit)
    \/ \E t \in Task, r \in Run :
          \/ Reserve(t, r)
          \/ ReleaseSpawnFailure(t, r)
          \/ \E result \in {"completed", "failed", "cancelled"} : Settle(t, r, result)
    \/ \E t \in Task, key \in Key :
          \E version \in 1..task[t].version :
             \/ Progress(t, key, version)
             \/ Retry(t, key, version)
             \/ \E added \in SUBSET Task : AddDependencies(t, key, version, added)
             \/ \E cascade \in BOOLEAN : Cancel(t, key, version, cascade)
    \/ CancelAll

StoreSpec == StoreInit /\ [][StoreNext]_storeVars

-----------------------------------------------------------------------------
(* The records have their types, a task is owned exactly while it runs, by *)
(* a run that was drawn for it.                                            *)
StoreTypeOK ==
    /\ task \in [Task -> Records]
    /\ issued \in SUBSET Run
    /\ \A t \in Task : task[t].owner \in IF task[t].status = "running" THEN issued ELSE {NoRun}

(* A run works on one task only.                                           *)
OneTaskPerRun ==
    \A t, u \in Task : t # u /\ task[t].status = "running" => task[t].owner # task[u].owner

(* No task is started, finished or failed before everything it depends on  *)
(* is completed, whatever dependencies are added and retries asked for in  *)
(* the meantime.                                                           *)
DependenciesFirst ==
    \A t \in Task :
        task[t].status \in {"running", "completed", "failed"} =>
            \A d \in task[t].blockedBy : task[d].status = "completed"

(* Work never stops on the graph alone: when tasks are pending, one of     *)
(* them is ready or running, or one has failed or been cancelled.          *)
StallsOnlyOnFailure ==
    (\E t \in Task : task[t].status = "pending") =>
        \E t \in Task :
            Ready(task, t) \/ task[t].status \in {"running", "failed", "cancelled"}

(* A cascade ends one agent at most: nothing that depends on a task still  *)
(* to be done is running, so cancelling it leaves no live run behind.      *)
CascadeMeetsNoRun ==
    \A t \in Task :
        Cancellable(t) => \A u \in Descendants(task, t) : task[u].status # "running"

(* The main agent alone can exceed the attempts of a task: as long as no   *)
(* update (of which a retry is one) was applied to a task, it is not       *)
(* reserved more often than its limit says; and no task fails while it has *)
(* attempts left.                                                          *)
AttemptBudget ==
    \A t \in Task :
        /\ task[t].status = "failed" => task[t].attempt >= task[t].maxAttempts
        /\ task[t].keys = {} => task[t].attempt <= task[t].maxAttempts
        /\ task[t].keys = {} /\ task[t].status = "pending"
              => task[t].attempt < task[t].maxAttempts

\* The task is as it was, but that more tasks may wait for it.
OnlyBlocksMore(t) ==
    /\ task'[t] = [task[t] EXCEPT !.blocks = task'[t].blocks]
    /\ task[t].blocks \subseteq task'[t].blocks

(* Completed and cancelled are final: no late answer, retry or             *)
(* cancellation changes such a task; all that happens to it is that new    *)
(* tasks come to wait for it.                                              *)
FinalStaysFinal ==
    [][\A t \in Task :
          task[t].status \in {"completed", "cancelled"} => OnlyBlocksMore(t)]_storeVars

(* Every change of a task has a version of its own, so an update that was  *)
(* decided on an older state of the task is refused.  A new dependency     *)
(* also changes the task it is on, whose blocks grows without a version:   *)
(* it only grows, and the task that waits has a new version.               *)
EveryChangeIsVersioned ==
    [][\A t \in Task :
          task'[t] # task[t] =>
             \/ task'[t].version > task[t].version
             \/ /\ OnlyBlocksMore(t)
                /\ \A u \in task'[t].blocks \ task[t].blocks :
                      task'[u].version > task[u].version]_storeVars
=============================================================================
