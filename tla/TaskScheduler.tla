---------------------------- MODULE TaskScheduler ----------------------------
(***************************************************************************)
(* The scheduler of a session's task graph (src/src/scheduler.ts) and the  *)
(* agents that work on the tasks (src/src/agents/manager.ts), next to the  *)
(* main agent that creates, retries and cancels tasks and agents, changes  *)
(* the permission mode and ends the session, and to agents it spawned      *)
(* itself, which only count against the capacity.                          *)
(*                                                                         *)
(* An await of the task store's file is where other code gets in between:  *)
(* what follows such an await is an action of its own, what follows        *)
(* another await is part of the action it follows.  Run numbers stand for  *)
(* the random ids drawn with a reservation, so they are drawn in order.    *)
(***************************************************************************)
EXTENDS TaskStore, SequencesExt

CONSTANTS Batches,       \* the batches of tasks the main agent may create
          MaxScheduled,  \* maxScheduledAgents
          Limits         \* the bounds considered on what happens from outside

ASSUME NumbersAssumption == Task \subseteq Nat /\ Run \subseteq Nat /\ IsFiniteSet(Task)
ASSUME BatchesAssumption ==
    \A batch \in Batches : DOMAIN batch \subseteq Task /\ batch \in [DOMAIN batch -> SUBSET Task]
ASSUME MaxScheduledAssumption == MaxScheduled \in Nat \ {0}

External == {"spawns", "cancels", "quiesces", "errors", "crashes", "shutdowns"}

ASSUME LimitsAssumption == Limits \subseteq [External -> Nat]

VARIABLES bound,         \* the task a run was drawn for, 0 if it was not drawn
          status,        \* the status of a run's agent record
          answer,        \* the result of an agent that has ended
          unsettled,     \* the runs whose result is on its way to the store
          releasing,     \* the agents cancel() is releasing the task of
          sched,         \* where schedule() is
          again,         \* rescheduleRequested
          room,          \* the capacity this pass found
          plan,          \* the tasks this pass is still going to reserve
          progress,      \* this pass started an agent
          others,        \* agents of the main agent itself
          awaited,       \* the agents a permission change waits for
          quiescing,     \* a permission change is waiting for agents to end
          switching,     \* its mode is not the scheduler's yet
          closing,       \* how far a shutdown has got
          allCancelled,  \* the shutdown's cancellation of every task was written
          happened       \* how often each thing has happened from outside

agentVars == <<bound, status, answer, unsettled, releasing, others>>
schedVars == <<sched, again, room, plan, progress>>
controlVars == <<awaited, quiescing, switching, closing, allCancelled>>
vars == <<storeVars, agentVars, schedVars, controlVars, happened>>

Terminal == {"completed", "failed", "cancelled"}

Init ==
    /\ StoreInit
    /\ bound = [r \in Run |-> 0]
    /\ status = [r \in Run |-> "none"]
    /\ answer = [r \in Run |-> "none"]
    /\ unsettled = {} /\ releasing = {}
    /\ sched = "idle" /\ again = FALSE /\ room = 0 /\ plan = {} /\ progress = FALSE
    /\ others = 0
    /\ awaited = {} /\ quiescing = FALSE /\ switching = FALSE
    /\ closing = "open" /\ allCancelled = FALSE
    /\ happened = [e \in External |-> 0]

Open == closing = "open"

Happens(what) ==
    /\ happened' = [happened EXCEPT ![what] = @ + 1]
    /\ \E limit \in Limits : \A e \in External : happened'[e] <= limit[e]

NonTerminal == {r \in Run : status[r] \in {"created", "running", "cancelling"}}

\* The agents whose runRecord has not ended (manager.running).
Live == {r \in Run : status[r] # "none" /\ answer[r] = "none"}

(* requestCancellation of the agents of a set that may be cancelled.        *)
Cancellation(runs) ==
    [r \in Run |-> IF r \in runs /\ status[r] \in {"created", "running"}
                   THEN "cancelling" ELSE status[r]]

(* A permission change waits for its agents; when the last of them has     *)
(* ended, it ends before any file operation does.                          *)
Paused == quiescing /\ (awaited \cap Live # {} \/ others > 0)

\* The main agent may be running, so its tools may be called.
MainRuns == Open /\ ~quiescing /\ ~switching

-----------------------------------------------------------------------------
\* Wrong on purpose, for the check of the properties: a request during a pass is lost.
RequestWhenIdle ==
    IF Open /\ sched = "idle" THEN sched' = "looking" /\ again' = FALSE
    ELSE UNCHANGED <<sched, again>>

(* requestSchedule, after everything that may make a task ready or a place  *)
(* free; nothing once the scheduler is stopped.                             *)
RequestSchedule ==
    IF ~Open THEN UNCHANGED <<sched, again>>
    ELSE IF sched = "idle" THEN sched' = "looking" /\ again' = FALSE
    ELSE again' = TRUE /\ UNCHANGED sched

Requested == RequestSchedule /\ UNCHANGED <<room, plan, progress>>

(* schedule() returns, and starts over if it was requested in between.      *)
Return ==
    /\ sched' = IF again /\ Open THEN "looking" ELSE "idle"
    /\ again' = FALSE
    /\ room' = 0 /\ plan' = {}
    /\ progress' = FALSE

\* The fallback timer.
Timer ==
    /\ Requested
    /\ UNCHANGED <<storeVars, agentVars, controlVars, happened>>

ReadyTasks == {t \in Task : Ready(task, t)}

\* Wrong on purpose, for the check of the properties: only agents with a slot count.
CapacityOfRunning == MaxScheduled - Cardinality({r \in Run : status[r] = "running"}) - others

(***************************************************************************)
(* The head of the loop: the capacity, which other agents may use up while *)
(* the task file is read, and then the first ready tasks by id.            *)
(***************************************************************************)
Capacity == MaxScheduled - Cardinality(NonTerminal) - others

Look ==
    /\ sched = "looking"
    /\ IF ~Open \/ Capacity <= 0 THEN Return
       ELSE /\ sched' = "listing"
            /\ room' = Capacity
            /\ UNCHANGED <<again, plan, progress>>
    /\ UNCHANGED <<storeVars, agentVars, controlVars, happened>>

List ==
    /\ sched = "listing"
    /\ IF ReadyTasks = {} THEN Return
       ELSE \E first \in SUBSET ReadyTasks :
               /\ Cardinality(first) <= room
               /\ first = ReadyTasks \/ Cardinality(first) = room
               /\ \A t \in first, u \in ReadyTasks \ first : t < u
               /\ plan' = first
               /\ sched' = "reserving"
               /\ room' = 0 /\ progress' = FALSE
               /\ UNCHANGED again
    /\ UNCHANGED <<storeVars, agentVars, controlVars, happened>>

(***************************************************************************)
(* reserve and startAgent for the next task of the pass, by id.  One that  *)
(* is not ready any more is passed over; a spawn is refused while a        *)
(* permission change waits or a shutdown is under way.                     *)
(***************************************************************************)
IsNext(t) == \A u \in plan : t <= u

IsNextRun(r) == \A s \in Run \ issued : r <= s

Drawn(t, r) == bound' = [bound EXCEPT ![r] = t]

\* Wrong on purpose, for the check of the properties: an agent is spawned although a
\* permission change waits for all agents to end.
ReserveAndSpawn ==
    /\ sched = "reserving"
    /\ \E t \in plan, r \in Run \ issued :
          /\ IsNext(t) /\ IsNextRun(r)
          /\ Reserve(t, r) /\ Drawn(t, r)
          /\ status' = [status EXCEPT ![r] = "created"]
          /\ progress' = TRUE
          /\ plan' = plan \ {t}
    /\ UNCHANGED <<answer, unsettled, releasing, others, sched, again, room, controlVars, happened>>

ReserveNext ==
    /\ sched = "reserving"
    /\ quiescing => Paused
    /\ \E t \in plan :
          /\ IsNext(t)
          /\ plan' = plan \ {t}
          /\ \/ /\ ~Ready(task, t)
                /\ UNCHANGED <<storeVars, bound, status, sched, progress>>
             \/ \E r \in Run \ issued :
                   /\ IsNextRun(r)
                   /\ Reserve(t, r) /\ Drawn(t, r)
                   /\ IF quiescing \/ ~Open
                      THEN sched' = "releasing" /\ UNCHANGED <<status, progress>>
                      ELSE /\ status' = [status EXCEPT ![r] = "created"]
                           /\ progress' = TRUE
                           /\ UNCHANGED sched
    /\ UNCHANGED <<answer, unsettled, releasing, others, again, room, controlVars, happened>>

EndPass ==
    /\ sched = "reserving"
    /\ plan = {}
    /\ IF progress THEN sched' = "looking" /\ UNCHANGED <<again, room, plan, progress>> ELSE Return
    /\ UNCHANGED <<storeVars, agentVars, controlVars, happened>>

\* Wrong on purpose, for the check of the properties: the reservation stays.
ForgetUnspawned ==
    /\ sched = "releasing"
    /\ sched' = "reserving"
    /\ UNCHANGED <<storeVars, agentVars, again, room, plan, progress, controlVars, happened>>

(* The reservation that got no agent: the run drawn last.                  *)
ReleaseUnspawned ==
    /\ sched = "releasing"
    /\ \E r \in issued :
          /\ \A s \in issued : s <= r
          /\ IF IsActiveRun(bound[r], r)
             THEN ReleaseSpawnFailure(bound[r], r) /\ again' = (again \/ Open)
             ELSE UNCHANGED <<storeVars, again>>
    /\ sched' = "reserving"
    /\ UNCHANGED <<agentVars, room, plan, progress, controlVars, happened>>

(* A failed read or write of the task file ends schedule().                *)
ScheduleFails ==
    /\ \/ sched \in {"listing", "releasing"}
       \/ sched = "reserving" /\ \E t \in plan : IsNext(t) /\ Ready(task, t)
    /\ Happens("errors")
    /\ Return
    /\ UNCHANGED <<storeVars, agentVars, controlVars>>

-----------------------------------------------------------------------------
(* runRecord: a slot is acquired; the agent ends; its result, or that of a *)
(* cancelled agent, is committed to the record and handed to the store.    *)
Start(r) ==
    /\ status[r] = "created"
    /\ status' = [status EXCEPT ![r] = "running"]
    /\ UNCHANGED <<storeVars, bound, answer, unsettled, releasing, others, schedVars,
                   controlVars, happened>>

Finish(r, result) ==
    /\ r \in Live
    /\ \/ status[r] = "running" /\ result \in {"completed", "failed"}
       \/ status[r] = "cancelling" /\ result = "cancelled"
    /\ status' = [status EXCEPT ![r] = result]
    /\ answer' = [answer EXCEPT ![r] = result]
    /\ unsettled' = unsettled \cup {r}
    /\ UNCHANGED <<storeVars, bound, releasing, others, schedVars, controlVars, happened>>

(* handleAgentResult                                                       *)
SettleResult(r) ==
    /\ r \in unsettled
    /\ unsettled' = unsettled \ {r}
    /\ IF IsActiveRun(bound[r], r)
       THEN Settle(bound[r], r, answer[r])
       ELSE UNCHANGED storeVars
    /\ Requested
    /\ UNCHANGED <<bound, status, answer, releasing, others, controlVars, happened>>

(* Its write fails: the result is dropped.                                 *)
SettleFails(r) ==
    /\ r \in unsettled
    /\ IsActiveRun(bound[r], r)
    /\ Happens("errors")
    /\ unsettled' = unsettled \ {r}
    /\ UNCHANGED <<storeVars, bound, status, answer, releasing, others, schedVars, controlVars>>

-----------------------------------------------------------------------------
(* The main agent's operations on tasks.  A refused one changes nothing.   *)
MainAgent ==
    /\ MainRuns
    /\ \/ \E batch \in Batches, limit \in AttemptLimits :
             CreateBatch(DOMAIN batch, batch, limit)
       \/ \E t \in Task, key \in Key :
             \/ Retry(t, key, task[t].version)
             \/ \E added \in SUBSET Task :
                   AddDependencies(t, key, task[t].version, added)
    /\ Requested
    /\ UNCHANGED <<agentVars, controlVars, happened>>

ReportProgress ==
    /\ \E t \in Task, key \in Key : Progress(t, key, task[t].version)
    /\ UNCHANGED <<agentVars, schedVars, controlVars, happened>>

(* cancelTask: the agents of the cancelled tasks are asked to stop.        *)
CancelTask(t) ==
    /\ MainRuns
    /\ \E key \in Key, cascade \in BOOLEAN :
          /\ Cancel(t, key, task[t].version, cascade)
          /\ status' = Cancellation({task[u].owner : u \in CancelTargets(t, cascade)})
    /\ Requested
    /\ UNCHANGED <<bound, answer, unsettled, releasing, others, controlVars, happened>>

(***************************************************************************)
(* cancel() of an agent: the record is looked at, then its task is         *)
(* released for another attempt, and when that is written the record is    *)
(* cancelled, whatever it is by then.                                      *)
(***************************************************************************)
CancelAgent(r) ==
    /\ MainRuns
    /\ status[r] \in {"created", "running"}
    /\ r \notin releasing
    /\ Happens("cancels")
    /\ releasing' = releasing \cup {r}
    /\ UNCHANGED <<storeVars, bound, status, answer, unsettled, others, schedVars, controlVars>>

CancelReleased(r) ==
    /\ r \in releasing
    /\ releasing' = releasing \ {r}
    /\ IF IsActiveRun(bound[r], r)
       THEN ReleaseSpawnFailure(bound[r], r)
       ELSE UNCHANGED storeVars
    /\ status' = [status EXCEPT ![r] = "cancelling"]
    /\ Requested
    /\ UNCHANGED <<bound, answer, unsettled, others, controlVars, happened>>

(* Agents the main agent spawns itself.                                    *)
SpawnOther ==
    /\ MainRuns
    /\ Happens("spawns")
    /\ others' = others + 1
    /\ UNCHANGED <<storeVars, bound, status, answer, unsettled, releasing, schedVars, controlVars>>

OtherEnds ==
    /\ others > 0
    /\ others' = others - 1
    /\ UNCHANGED <<storeVars, bound, status, answer, unsettled, releasing, schedVars,
                   controlVars, happened>>

-----------------------------------------------------------------------------
(* quiesceForPermissionChange, which the App asks for only while the main  *)
(* agent does not run, and during which it starts no run.                  *)
Quiesce ==
    /\ MainRuns
    /\ releasing = {}
    /\ Happens("quiesces")
    /\ quiescing' = TRUE
    /\ awaited' = Live
    /\ status' = Cancellation(NonTerminal)
    /\ UNCHANGED <<storeVars, bound, answer, unsettled, releasing, others, schedVars,
                   switching, closing, allCancelled>>

(* The wait is over, and spawns are no longer refused.                     *)
Quiesced ==
    /\ quiescing /\ ~Paused
    /\ quiescing' = FALSE /\ awaited' = {}
    /\ switching' = TRUE
    /\ UNCHANGED <<storeVars, agentVars, schedVars, closing, allCancelled, happened>>

(***************************************************************************)
(* The App has set the state with the new mode, and its effect attaches    *)
(* that state.  Until then the scheduler spawns agents under the old one.  *)
(* That the user starts a run between the two is left out.                 *)
(***************************************************************************)
ModeInForce ==
    /\ Open /\ switching
    /\ switching' = FALSE
    /\ Requested
    /\ UNCHANGED <<storeVars, agentVars, awaited, quiescing, closing, allCancelled, happened>>

(* shutdown: no new agents; the scheduler is stopped and every task        *)
(* cancelled; the agents are asked to stop; wait for them.                 *)
Shutdown ==
    /\ Open
    /\ Happens("shutdowns")
    /\ closing' = "cancelling"
    /\ UNCHANGED <<storeVars, agentVars, schedVars, awaited, quiescing, switching, allCancelled>>

(* The shutdown goes on when the write of cancelAll fails.                 *)
ShutdownCancels ==
    /\ closing = "cancelling"
    /\ \/ /\ CancelAll
          /\ allCancelled' = TRUE
          /\ UNCHANGED happened
       \/ /\ Happens("errors")
          /\ UNCHANGED <<storeVars, allCancelled>>
    /\ status' = Cancellation(NonTerminal)
    /\ closing' = "stopping"
    /\ UNCHANGED <<bound, answer, unsettled, releasing, others, schedVars,
                   awaited, quiescing, switching>>

ShutdownEnds ==
    /\ closing = "stopping"
    /\ Live = {} /\ others = 0
    /\ closing' = "closed"
    /\ UNCHANGED <<storeVars, agentVars, schedVars, awaited, quiescing, switching, allCancelled,
                   happened>>

(* The process dies; the next one opens the session, with its task file.   *)
Restart ==
    /\ Happens("crashes")
    /\ status' = [r \in Run |-> "none"]
    /\ answer' = [r \in Run |-> "none"]
    /\ unsettled' = {} /\ releasing' = {} /\ others' = 0
    /\ sched' = "looking" /\ again' = FALSE
    /\ room' = 0 /\ plan' = {} /\ progress' = FALSE
    /\ awaited' = {} /\ quiescing' = FALSE /\ switching' = FALSE
    /\ closing' = "open" /\ allCancelled' = FALSE
    /\ UNCHANGED <<storeVars, bound>>

-----------------------------------------------------------------------------
ScheduleStep == Look \/ List \/ ReserveNext \/ EndPass \/ ReleaseUnspawned

AgentStep(r) ==
    \/ Start(r)
    \/ \E result \in Terminal : Finish(r, result)
    \/ SettleResult(r)
    \/ CancelReleased(r)

ControlStep == OtherEnds \/ Quiesced \/ ModeInForce \/ ShutdownCancels \/ ShutdownEnds

Next ==
    \/ ScheduleStep \/ ScheduleFails \/ Timer
    \/ \E r \in Run : AgentStep(r) \/ SettleFails(r) \/ CancelAgent(r)
    \/ MainAgent \/ ReportProgress \/ SpawnOther
    \/ \E t \in Task : CancelTask(t)
    \/ ControlStep \/ Quiesce \/ Shutdown \/ Restart

Spec == Init /\ [][Next]_vars

(***************************************************************************)
(* A promise that can be continued is, a file operation ends, and an agent *)
(* ends (it has a bound on its turns).  Nothing is assumed of the fallback *)
(* timer here, so that a request to schedule that is missing shows.        *)
(***************************************************************************)
Fairness ==
    /\ WF_vars(ScheduleStep)
    /\ \A r \in Run : WF_vars(AgentStep(r))
    /\ WF_vars(ControlStep)

FairSpec == Spec /\ Fairness

-----------------------------------------------------------------------------

(* A task is completed only with the result of the run that owned it and   *)
(* ended well: a result that comes after its run was replaced is dropped.  *)
CompletedByItsRun ==
    [][\A t \in Task :
          task'[t].status = "completed" /\ task[t].status # "completed" =>
              \E r \in unsettled \ unsettled' :
                  bound[r] = t /\ task[t].owner = r /\ answer[r] = "completed"]_vars

(* No more agents work on tasks than were allowed, although the capacity   *)
(* of a pass is computed before its reservations are written.              *)
CapacityBound == Cardinality(Live) <= MaxScheduled

(* While a permission change waits, no agent comes to life, although the   *)
(* scheduler may be in the middle of a reservation; and the wait ends only *)
(* when no agent is alive.  (That none is made under the old mode between  *)
(* the end of the wait and the new mode is more than the code does.)       *)
QuiesceStopsEveryAgent ==
    [][quiescing /\ happened' = happened =>
          Live' \subseteq Live /\ (~quiescing' => Live = {})]_vars

(* When the shutdown has ended, no agent is alive; and no task of the      *)
(* graph is left running or pending, whatever the scheduler was in the     *)
(* middle of, unless the one write that cancels them all failed.           *)
ShutdownIsQuiet ==
    closing = "closed" =>
        /\ Live = {}
        /\ allCancelled => \A t \in Task : task[t].status \notin {"running", "pending"}

(* A ready task is reserved, or stops being ready some other way: whatever *)
(* makes a task ready or a place free asks for another pass, also when one *)
(* is under way.  Only the end of an agent that the main agent spawned     *)
(* itself does not, and its place is found by the fallback timer.          *)
ReadyTaskIsStarted ==
    \A t \in Task :
        /\ t \in ReadyTasks ~> t \notin ReadyTasks \/ happened["spawns"] > 0
        /\ WF_vars(Timer) => (t \in ReadyTasks ~> t \notin ReadyTasks)

(* A run, once started, comes to an end for its task: the task does not    *)
(* stay running.                                                           *)
RunningTaskIsSettled ==
    \A r \in Run :
        (\E t \in Task : IsActiveRun(t, r)) ~> ~ \E t \in Task : IsActiveRun(t, r)

=============================================================================
