# Verification of coding-agent-lab

TLA+ models, TLC runs and TLAPS proofs for the control plane of the coding agent
in `src/src`: how it decides that a tool call may run, how calls of several agents
are kept apart, how a session survives interruptions, and how a graph of tasks is
worked off by sub-agents. Wherever this text says "the code", a line of
`PROJECT.json`'s `map` says which.

## 1. Inventory

Everything but the sandbox helper runs in one JavaScript process. Code between two
`await`s is atomic; every `await` is a place where any other callback may run. That
is where the interleavings below come from.

| Part | State it keeps | Operations | Talks to | What is hard, and what makes it correct |
|---|---|---|---|---|
| Resource lock (`tools/resourceLock.ts`) | queue of requests, leases, abort listeners | `acquire`, release, abort, `schedule` | every tool call of every agent | aborts in the middle of the queue, fairness against throughput. Exclusion, no lost wakeup, no overtaking, no starvation |
| Tool runner (`tools/runner.ts`) | per response: prepared calls with their planned accesses | prepare, acquire, authorize again, re-plan, run, release | lock, permissions, tools | authorization and plan are stale when the lease arrives; calls that wait for agents. No write under a stale plan, none in plan mode, every call settles |
| Permissions (`tools/permissions.ts`), agent state (`state.ts`) | mode, session grants, pending approval, decision | decide, request, resolve, clear, change mode | query loop, App | decisions outlive what they were about. Nothing runs the user was not asked about |
| Query loop (`query.ts`) | the agent state of one run | ask the model, pause, resume, report | runner, App, manager | pauses and resumes at any call; ends at any failed write |
| Plan tools (`tools/planTools.ts`) | plan, previous mode | enter, update, exit | state | change the authorization of the rest of the batch |
| Session store (`sessionStore.ts`) | append-only log, index, one chain of writes per session | append, save, load | App, memory extraction | partial writes, crashes, two writers, hand-edited files. What was acknowledged stays readable, no authority is read back |
| App (`ui/App.tsx`, `ui/appLifecycle.ts`) | latest state, run in flight, permission change in flight, closing | turn, approve, `/permissions`, `/resume`, exit | all of the above | two asynchronous operations at once, a write that fails in the middle of a run |
| Task store (`tasks.ts`) | the graph in a file | create, reserve, release, settle, update, cancel | scheduler, task tools | late answers, cascades, retries. Dependencies first, final is final, no stall |
| Scheduler (`scheduler.ts`) | pass in progress, request during a pass, stopped | `requestSchedule`, pass, agent result, cancel task, shutdown | store, manager | capacity and readiness are stale across awaits. No task twice, none lost |
| Agent manager (`agents/manager.ts`) | agent records, running promises, slots, quiescing sessions | spawn, wait, send, cancel, quiesce, shutdown | scheduler, mailbox, `runAgent.ts` | cancellation racing completion, mode change racing spawns. Terminal is terminal, nothing outlives the mode or the session |
| Mailbox (`agents/mailbox.ts`), runs of sub-agents (`agents/runAgent.ts`) | queues per agent, closed flag | send, drain, close | manager, query loop, App | a message racing the end of its receiver, a slot racing a cancellation. No message lost, every end told once, no slot lost |
| Memory (`memory.ts`, `memoryExtract.ts`) | topic files, index, one chain of mutations per process, a lock database between processes | write, edit, refresh, check | tools, query loop | a crash between two files, several processes, a check without a lock. The index agrees with the topics, nobody's work is overwritten, no false "no issues" |
| Compaction, tool memory (`compact.ts`, `toolExecutionMemory.ts`) | summaries | compact, merge | query loop | a cut between a call and its result, untrusted text that loses its mark |
| MCP (`mcp/client.ts`) | connections, tools | discover, call, close | external servers | partial discovery |
| Sandbox client (`sandbox/windowsSandbox.ts`), native runner (Rust) | queue of commands, one child process, poisoned flag | execute, abort, time out | Shell tool | five ways to end racing each other, a child that does not die. Every call settles, no child is left unnoticed |
| File and search tools, model clients, UI, demos, project context | none, or only for display | - | - | single calls without protocol |

`PROJECT.json` lists every component with its status, and the hazards with the line
where each bites.

## 2. Plan

In order of importance; "done" is what is here.

1. `ResourceAccess`, `ResourceLock`, the abstract `LockService`, and
   `ResourceLockProofs` - done, every safety property proved.
2. `ToolRunner`, which composes responses of two agents with an instance of
   `ResourceLock`, and `ToolRunnerProofs`, where it is shown to work on that lock - done.
3. `ToolApproval`: permissions, agent state, query loop, App and session restore as far
   as the approval of tool calls goes, and `ToolApprovalProofs` - done, every safety
   property proved.
4. `TaskStore`; `TaskScheduler`, which extends `TaskStore` by the scheduler and the
   manager; and `TaskSchedulerProofs` for both - done, every safety property proved.
5. `SessionLog` on top of `Transcript`, with the abstract `DurableLog` it implements, and
   `SessionLogProofs` - done, the refinement and every safety property proved.
6. `AgentRuns`: slots, mailboxes, completion, the App's wake-up, and `AgentRunsProofs` -
   done, every safety property proved.
7. `MemoryStore` and `MemoryStoreProofs` - done, every property of it proved.
8. `SandboxClient` and `SandboxClientProofs` - done, the safety property proved.
9. `PlanApproval`: the pending plan, its dialog, and the mode that is restored with it.
10. `McpDiscovery`: partial discovery and reconnection; the tool execution memory as pure
    operators against a reference; the App's remaining dialogs.

Runs that ask related questions of one module are one run.

## 3. What is modelled

### ResourceAccess
The access records and the pure functions of `resourceLock.ts` and `runner.ts` on them.
A path is the sequence of its components, so "within" is "has as a prefix". The lists of
the code are sets, because they are merged by key and compared without regard to order.
The identity of a file (device and inode) is one value; a path that does not exist has
none.

### ResourceLock
`pending`, `ahead` (who is in front of whom), `active` and `accesses` are the queue and
the lease map; `aborted` and `dispatching` are the abort signals. `Acquire`, `Release`,
`Abort`, `OnAbort`, `DispatchDone` are the operations, each with the `schedule()` it ends
with. `Schedule` grants at once the set that the loop of `schedule()` ends with; the loop
itself, which grants one request per turn and starts over, is `ScheduleLoop`, and
`LoopGrantsTheGrantable` says that the two agree from every reachable queue and any part of
its requests and leases. `abort()` calls listeners one after the other in the order they
were registered, and each reschedules: they are steps, and nothing else may happen in between.
`RenewSignal` is the next run's fresh controller. An empty access set and a signal that
has fired already return before the lock is touched, so they are no steps.

`LockService` is what callers rely on: ask, be served, leave. It has no queue.

### ToolRunner
One action per step of `prepareToolCall` and `executePreparedToolCall`, over an instance
of `ResourceLock`. Two agents: the main one and a sub-agent it may spawn in the
foreground, or wait for in the background. What calls touch is one target behind a link
that a Shell command can move, or the target by its own name; this is the smallest world
in which a plan goes stale. `Prepare` of a response is in order and asynchronous; the
`map` that starts the calls, the release and reacquisition of the retry loop, and the
listeners of an abort are synchronous, and `Atomic` keeps other actions out. Approvals
are left to `ToolApproval`: only the plan mode can revoke an authorization here. Each
agent has a mode of its own, as each has a permission context of its own.

### ToolApproval
The agent state is a record held twice, by the App and by the running query, as in the
code; the log is the third copy. One action per step of the query generator between two
events the App persists; each persisted event may fail, which ends the run with the last
state the App has seen. `Crash` can happen at any moment, and `Restore` does what
`fromStoredSessionState` does with the log. A grant for the Shell tool allows its calls for
the session, but never one that bypasses the sandbox. Left out: plan mode (in `ToolRunner`), static
path boundaries (they do not depend on state), `/resume` over a running session and the
claim that makes one decision usable once (each decision starts one run here).
The reply to a user's message, streaming and compaction do not touch approvals.

### TaskStore
`mutate()` serializes the operations, each on the graph the last one left, and keeps a
result only when the file has been replaced: an operation is one action; a failed write is
an operation that did not happen. A run stands for the agent id and run id drawn for one
reservation. An idempotency key is used once per task; a replay changes nothing. `blocks`,
the inverse of `blockedBy` that is written to the file with it, is rebuilt by every operation
that adds an edge; that changes the tasks waited for without a new version of theirs, which is
why `EveryChangeIsVersioned` and `FinalStaysFinal` except it. Left
out: text, results, times, and several processes on one file.

### TaskScheduler
`TaskStore`'s graph and operations with the scheduler's pass as a small program (`Look`, `List`,
`ReserveNext`, `ReleaseUnspawned`, `EndPass`: one action per await of the task file), the
records of the agents it starts (`Start`, `Finish`, `SettleResult`), the main agent's
operations on tasks and agents, and the three things that interrupt all of it: a change
of the permission mode (`Quiesce`, `Quiesced`, `ModeInForce`), the end of the session
(`Shutdown`, `ShutdownCancels`, `ShutdownEnds`) and the end of the process (`Restart`). A
permission change ends in two steps: the manager's wait is over (`Quiesced`), and later the
App's effect attaches the state with the new mode (`ModeInForce`); in between the scheduler
has the old state and spawns again. The write of `cancelAll` may fail, and the shutdown goes
on (`ShutdownCancels`). Agents of the main agent's own are a count against the capacity. Left
out: slots (an agent may start at any time), messages, the stall notice, a write that fails
inside `cancel()` (nothing has changed then), a run the user starts between `Quiesced` and
`ModeInForce`, and the main agent's turns: its tools may be called whenever it may run.

### Transcript, SessionLog, DurableLog
`Transcript` is what is done to whole lists of messages: where `compact.ts` cuts, the
summary and its mark, and what a restored session makes of each message. A message has a
role, an identity for its text, the calls it asks for or answers, and its mark.

`SessionLog` is one session: the file as its complete lines and what follows the last
newline; `writeTails` as the queue of the two writers of a session, the run of the App and
the extraction it leaves in the background; and the App with its run, a `/resume`, its
shutdown and the restart of the process. `/plan` as first command (`EnterPlanMode`) begins a
session in memory with a message that no run ever persists. `ResumeSet` puts on the screen
what was read, whatever happened since; `resume.current` is history, and says whether a run
has begun since the file was read, or a last record without its newline was read.

An operation is a list of steps (`Open`,
`Truncate`, `Write`, `Written`, `UpdateIndex`, `Done`); each may fail and the process may
die at each, and an append that is cut off leaves nothing, a part, or all but the newline.
The query generator is what it yields until it is asked again (`NextTurn`, `Answer`,
`CallTools`, `MaxTurns`), and `Persist` hands the next event to the writer, as `runState`
does. `DurableLog` is what a log promises: what was acknowledged stays readable, in order.
Left out: sessions of the legacy formats, `saveSession` (nothing calls it), what the index
file says (nothing in this model reads it, writing it is a step that may fail), and the
approval of calls, which is in `ToolApproval`.

### AgentRuns
The agents the main agent spawns by itself; those that work on a task are in
`TaskScheduler`. The record of an agent (`status`, `background`), the place of
`runRecord()` (`at`) from the wait for a slot to the release of it, the slots (`active`, and
`waiters`, the list as the agents that wait with those that have waited longer), the mailboxes and what was read from them, the main agent's `pendingMemory`,
and the App with the effect that starts a run when mail has come (`revised` says that
React has to evaluate it again). One action per stretch between two awaits. `accepted` is
history: what `send()` has taken. Left out: `wait()` (it only reads), `receive()` and
`poll()` (nothing calls them), names and depths, and the approval dialogs, which are the
App's being "blocked".

### MemoryStore
A content stands for a valid topic file, and two topics of one content for what the code
calls duplicates. `tails` is the chain of mutations of each process, `holder` the
transaction of the lock database that excludes other processes and ends with its process.
`Mutate`, `TakeSnapshot`, `Validate`, `Recheck`, `Replace`, `Scan`, `WriteIndex` and
`Commit` are a write or an edit; a refresh begins at `Scan`; `Fail` and `Crash` can come
between any two of them, `LockTimeout` instead of the lock. An extraction makes
mutations of its own and a refresh at its end. `Outside` is the user with an editor. A content
may have a ttl (`Temporary`); when it passes (`Expire`), the next index leaves the topic out
(`Rows`), and the present one keeps its row until then.
`checkMemoryStore` takes no lock: it looks at every file, reads every file and looks at
every file again, one at a time, and decides what has expired by the time at which it began.
Left out: front matter but for the ttl, path safety, and the selection of memories for the
prompt.

### SandboxClient
`runPowerShell`'s queue (`lease`, `pending`), the child process of each call as far as the
client can see it (`helper`: exited when its code is known, closed when its pipes have
ended), and `executeNativeHelper` with what stops a child (`stopping`: the first reason,
whether it was killed, the deadline for its pipes). Abort, watchdog, overflow, an error of
the child, a failing pipe and the end of the child are actions of their own, in any order.
The child is external: it may answer or not, and end or not. Left out: what an answer
says beyond valid, invalid, or an error, and the preparation of the environment.

## 4. What the runs check

Every property of a passing run is broken by a mutant, an operator marked
"Wrong on purpose" next to the definition it replaces; nothing else uses these.

| Run | Question | Bounds, and why they are enough |
|---|---|---|
| `resource_lock` | Does the lock exclude, wake, order, starve nobody, implement `LockService`? Is `schedule()`'s loop the set the model grants? Are conflicts what they are for? | 3 callers, 2 signals (one shared), 6 access sets that conflict and do not, with subtrees. Two conflicting requests and one between them is the smallest queue with overtaking and with an abort in the middle. 20,956 states |
| `tool_runner` | Do two calls ever write one file together, does plan mode run a writer, does every response settle that can? | 3 calls of the main agent, 1 of the sub-agent: one mover, one stale plan, one competitor; mode changes; waits with the opaque call before and after. 294,838 states, about 3 minutes |
| `plan_mode` | Is nothing modified in plan mode? A sub-agent modifies | the main agent enters plan mode, the sub-agent writes |
| `tool_approval` | Can anything run without consent, be hidden, or run twice? | batches of 1 to 3 calls of every kind, 2 batches, 2 failed writes, 2 restarts, 2 mode changes. 304,207 states |
| `approval_load` | Can the session always be loaded? It cannot | 1 batch of 2 calls, 1 failed write, 2 restarts |
| `task_store` | Order, finality, versions, attempts, stalls | 3 tasks (chain, fork, join, cycle attempts), 3 runs, 1 key per task, limits 1 and 2, symmetric. 58,857 states |
| `task_scheduler` | Capacity, no result of an old run, nothing alive after a shutdown, no agent made while a mode change waits | 2 tasks, dependent or not, 3 runs, capacity 2, one of: a cancelled agent; a shutdown with a failed write, which may be that of `cancelAll`; a mode change with a failed write and a restart. 1,262,615 states |
| `scheduler_live` | Is every ready task started, does every run end? | 2 tasks, 4 runs, capacity 1, one agent of the main agent's own, and one mode change, which makes the scheduler take back what it has reserved meanwhile. 126,759 states, about 2 minutes |
| `session_log` | Does the log keep what it acknowledged, can it always be read, do App and log agree, does the model get whole turns and marks? | 3 messages, 1 failed write, 1 restart, 1 retained turn: a compaction with something before and after it, two writers, a cut-off record of either, a `/resume` that a run overtakes; `/plan` counts as a message. 1,416,100 states, about 2 minutes |
| `memory_store` | Does the index agree, does the store stay valid, is an edit lost, is a check right? | 2 processes with an agent each and one extraction, 3 topics and contents, room for 2; five scenarios: two mutations with a change by the user, a fault, or a ttl that passes; one mutation and one change or one passing ttl under a check. Every content may expire. 447,826 states, about 3 minutes |
| `sandbox_client` | Does every call settle, is a living child ever unnoticed? | 2 calls, the second behind the first; every way to end, in every order. 162,000 states |
| `agent_runs` | Is a message lost, an end reported twice or never, a slot lost, the main agent asleep over its mail? | 3 agents, 1 slot, 2 messages between any agents; messages only while at most 2 agents have been spawned (`Bound`). 1,060,000 states |

Bounds: `MaxBatches`, `MaxErrors`, `MaxCrashes`, `MaxChanges` in `ToolApproval`;
`MaxMessages`, `MaxErrors`, `MaxCrashes` in `SessionLog`; `MaxMessages` in `AgentRuns`;
`Limits` in `TaskScheduler` and in `MemoryStore` (a set of scenarios: the counts of
`happened`, or `used`, must stay within one of them); `Run` is a finite supply in both
task modules; a key can be used once per task. Attempts and versions are bounded by the
runs, keys and mutations. Runs without a deadlock check stop because a bound is used up or
everything has settled.

### Fairness
- Lock: an abort dispatch runs to its end; every lease is released. The second is strong
  because a dispatch, atomic in the code, disables a release between its steps. That tools
  end is an assumption here and is dropped in `ToolRunner`.
- Runner: while something can go on, something goes on (a promise with an outcome is
  continued by the event loop, a tool that waits for nobody ends). A response has finitely
  many steps, so no call needs fairness of its own. Nobody has to abort. A call that waits
  for a sub-agent ends only with it.
- Scheduler: promises are continued, file operations end, an agent ends (its turns are
  bounded). Nobody has to retry, cancel or shut down. The fallback timer owes nothing, or it
  would make up for every request to schedule that is missing; only for a place left by an
  agent the main agent spawned itself, of whose end the scheduler is not told,
  `ReadyTaskIsStarted` assumes that the timer fires, and says so itself.
- Sandbox: promises are continued, the watchdog and the deadline fire. The child owes
  nothing, not even to end when it is killed.

### Where the code and its documentation disagree
1. `approval_load`: a session whose batch was interrupted between two results can become
   impossible to load.
2. `plan_mode`: "no modification before the plan is approved" (`docs/usage.md:112`) holds
   for the main agent only. A sub-agent has a permission context of its own, in normal mode
   (`runAgent.ts:137`); entering plan mode neither stops the ones at work nor the scheduler.

Met while modelling, and kept as hazards or as the reason of a property's premise:
- "callers never deadlock" (`resourceLock.ts:38`) is true of locks taken in different
  orders, not of a holder that waits for another requester: an opaque call behind one that
  waits for a sub-agent holds that sub-agent back (hence `OpaqueCallsFirst`).
- A tool allowed for the session is refused in a batch that pauses for another tool
  (`permissions.ts:393`); calls of a rejected batch that need no approval run although the
  dialog says the batch does not (`App.tsx:91`).
- `cancel()` overwrites a terminal status it did not see (`manager.ts:304`).
- Attempts are used up while a permission change waits; tasks that were running when the
  process died, or whose settlement could not be written, stay running.
- A call can run twice when its batch is interrupted again after a restart; a failed write
  in a batch that needs no approval leaves calls without results in front of the next turn.
- A session file whose first record was cut off is emptied by the next append and
  has no metadata from then on (hence the premise of `ReadableOnceStarted`).
- A background run whose first write fails leaves its mail where it was and is started
  again at once (`App.tsx:818`).
- A completion notice of an agent of a task that comes after the mailbox was closed is refused:
  `send` throws (`mailbox.ts:67`), and the error is reported to listeners that are gone
  (`manager.ts:545`). No module has both tasks and mailboxes, so it is not modelled.
- Between the end of a permission change's wait (`manager.ts:343`) and the new state being
  attached (`App.tsx:780`) a pass of the scheduler that is under way starts agents in the old
  mode. "No agent of the old mode is alive when the new one is in force" is refuted by TLC in
  `TaskScheduler` (`Look`, `List`, `Quiesce`, `Quiesced`, `ReserveNext`, `ModeInForce`), although
  the change is said to keep old authorizations from going on across policies
  (`docs/releases/v0.1.1.md:9`, `docs/usage.md:106`). `QuiesceStopsEveryAgent` says what does hold.
- When the write of `cancelAll` fails at the end of a session, its tasks stay pending or running
  in the file (`manager.ts:392`), hence the premise in `ShutdownIsQuiet`.
- A dependency changes the `blocks` of the task it is on without a new version (`tasks.ts:809`).
- A `/resume` whose file was read before another run began is put on the screen all the same
  (`App.tsx:983`), and the App then goes on from an older conversation than the file's. One
  that read a last record without its newline goes on from a record the next append cuts off.
  Both are in `SessionLog`, and named in `MemoryAgreesWithLog`.
- The message "/plan" that begins a session in memory (`App.tsx:1049`, `state.ts:217`) is never
  persisted: the next run persists what comes after it (`App.tsx:731`).
- A memory topic whose ttl passes stays in the index until the next refresh (`memory.ts:1518`).
- A write that fails between the results of `ExitPlanMode` and a later `UpdatePlan` leaves
  a plan dialog with an older plan than the state (`query.ts:417`).

## 5. What is proved

TLAPS checks these for every value of the constants (any number of callers, signals,
access sets, tasks, runs, keys).

`ResourceLockProofs`, from `NoSignalAssumption` and, for `ConflictsAreSharedWrites`,
`AccessSetsAssumption`:
- `LockInv` is inductive: types and queue order (`TypeOK`), `MutualExclusion` and
  `NoLostWakeup`. Each step of the lock ends with `Schedule`, and what that leaves behind
  depends on the queue being ordered: if being ahead were not transitive, a granted
  request could be taken out of the sets `ahead` and free a request that still has to
  wait. That a waiting request has something to wait for is not implied by exclusion; it
  has to be known before the steps that do not reschedule to hold after them.
- One lemma says what `Schedule` does from any queue and any leases; the steps of
  `Acquire`, `Release` and `OnAbort` use it.
- `TypeCorrect`, `Exclusion`, `WakesAllGrantable`, `ServedInOrder` (an action property)
  and `LockRefinesService` (initial states and steps map to `LockService`) follow.
  `NormalizePreservesConflict` is the lemma that lets the lock compare merged sets.
- `ConflictsAreSharedWrites`: the overlap of two accesses is a shared path or name. The one
  case that is not a definition is that of two subtrees: two folders that hold one path are
  one within the other.
- `LoopGrants`: the loop of `schedule()` ends with what `Schedule` grants, so the other
  theorems are about the code's loop too. After each turn the requests granted so far are
  grantable, those still eligible are the grantable ones not yet granted
  (`EligibleOnTheWay`: a request that is granted conflicts with the same later ones as a
  lease that it did in the queue), and there is one more than before or none is left. It
  needs the queue to be finite, which `FiniteQueue` shows for any number of callers.

`ToolRunnerProofs`, from the assumptions of `ToolRunner` (signals, owners, responses, and that
a path is a sequence), for any calls, responses and files behind the link:
- `RunnerUsesTheLock`: every step of the runner is a step of `ResourceLock` or leaves the lock
  alone. So the lock's invariant, proved above, is one of the runner, and the rest is about
  what a lease is worth when it arrives.
- `RunnerInv` is inductive together with it: who is in the lock asked for what it planned
  (`Leases`), a plan is one for where the link was at some moment (`PlansMade`), and the
  authorization and plan of a call that goes on are those of now (`Current`). `Current` is the
  point: a tool that changes the mode writes the session, which every other call of the
  response holds for reading; only a Shell command moves the link, and it is alone behind
  the opaque-tool barrier.
- `PlanModeIsReadOnly` and `FilesHaveOneWriter` follow; the second because two plans for one
  file conflict, one of them through the identity when the names differ.

`ToolApprovalProofs`, from `BatchesAssumption` and `BoundsAssumption`:
- `ApprovalInv` is inductive: types; the states of the App and of the query are in the mode on
  the screen and grant nothing the user has not granted, and a pending approval lists every
  call that needs one in the mode it was made under (`StatesAgree`); a "no" is about a call
  that is still asked about, and while calls run the decision is the answer (`AnswersKept`);
  in the process that began the batch the results in the file are those of the state it is
  resumed with (`ResultsKept`).
- `NothingIsHidden` follows. `OnlyAuthorizedCallsRun` looks at the step that executes a call
  and finds the decision it rests on. `CompletedCallsDoNotRunAgain` needs `BatchIsLogged` besides:
  the batch in the log is the one that is at work.

`TaskSchedulerProofs` is about the store first (`StoreSpec`), from the two assumptions of
`TaskStore`. The sets of tasks and runs
need not be finite: that there is no cycle is stated as "no non-empty set of tasks each
waiting for another member", which the set of pending tasks would be if none was ready.
- `StoreInv` is inductive: `StoreTypeOK`, absent tasks are blank, the graph is valid,
  `DependenciesFirst`, `OneTaskPerRun`. `DependenciesFirst` survives `Retry` and
  `AddDependencies` only because a failed task's dependencies are completed and completed
  is final; the valid graph is what `NoStall` rests on.
- `TypeCorrect`, `OrderIsKept`, `RunsHaveOneTask`, `NoStall`, `CascadeIsQuiet`, and the
  action properties `FinalityHolds` and `VersionsGrow` follow. The last two need that the
  graph is its own mirror: rebuilding `blocks` then changes it only where an edge is new.
- `AttemptsAreBounded` needs no graph: the budget is inductive together with the types,
  since a task is pending again only while its attempts are fewer than its limit, and a
  limit is at least 1.

Then about the scheduler, without the bounds on what happens from outside:
- `SchedInv` is inductive: the types; only agents with a record are being cancelled
  (`ReleasingHasRecord`, or a late cancellation would bring one to life); a permission
  change waits for every living agent (`AllAwaited`: none is spawned while it is under way,
  so nobody is missing from the set it began with); nothing is pending or running once the
  cancellation of the tasks has been written (`NothingLeft`), and no agent lives when the
  shutdown is over, written or not.
- One lemma per operation of the store says what it does to the status of tasks: which
  complete one, and which leave a graph done that was done (`NoneRevived`). `NothingLeft`
  rests on it: a reservation, release, result or cancellation that was under way when the
  tasks were cancelled finds nothing it applies to any more.
- `ShutdownLeavesNothing`, `QuiesceLeavesNoAgent` and `OnlyItsRunCompletes` follow.
- `CapInv` adds the pass: the agents alive, the capacity found but not yet used and the tasks
  still to be reserved are together at most `MaxScheduled`. It holds because nobody else
  brings an agent of a task to life (`NoneBorn`). `CapacityIsKept` follows. It needs finitely
  many tasks (`NumbersAssumption`) and `MaxScheduledAssumption`.
- `GraphInv` joins these with `StoreInv`, so that a step of the scheduler is shown to use the
  store as the store expects it: a task and a run there are, a version the task has had, a
  result its agent ended with. `SchedulerUsesTheStore` is the refinement, `Spec =>
  StoreSpec`: the session implements `TaskStore`. `GraphIsKept` is what it gives: everything proved of the store
  holds of the session.

`AgentRunsProofs`, from `SlotsAssumption` and `MainAssumption`:
- `RunsInv` is inductive. Its first part are the records: an agent's place fits its status,
  the waiting list is ordered, and the slots in use are those of the agents that hold one.
  Its second part is the mail: what was accepted is what was read followed by what is in
  the box, and the notices of an agent are as many as its end has been told.
- `RunsInvariant`, `MessagesArrive`, `EndsAreReportedOnce`, `SlotsAreCounted` and
  `MailWakesTheMainAgent` follow.

`SandboxClientProofs`, from `NoCallAssumption`, for any number of calls:
- `HelperInv` is inductive: `TypeOK`; only the call with the lease is past the queue
  (`OneAtATime`); a child that is alive belongs to a call that is still listening, or has
  poisoned the sandbox (`AliveIsWatched`); at most one child is alive (`OneHelper`); a call
  that took its child for closed is right (`ClosedIsClosed`). `HelperNoticed` follows.
  The cardinality in the property is why `OneHelper` is stated with two calls first.

`MemoryStoreProofs`, from `CallersAssumption` and `FilesAssumption` (finitely many topics,
a natural limit), for any processes, callers and contents and without the bounds:
- `StoreInv` is inductive: `TypeOK`; whoever works on the files holds the transaction
  (`Exclusive`); `WellFormed`; there is an index wherever there are topics (`IndexFirst`);
  `IndexFollows` says what the index is while an operation is between topic and index, up to
  rows of topics that expire on the way;
  `EditIsCurrent`. `IndexIsCurrent` and `NothingIsOverwritten` follow.
- `ValidInv` adds that what has been validated is acceptable until it is written. It needs
  `Exclusive`: only the holder's own rename changes what it was validated against.
  `StoreStaysValid` follows.
- `CheckInv`: versions only grow (`SeenBefore`), so a file that has its first version at
  the second look had it all the time; `ReadsTheTruth` and `ComparesTheRest` carry this
  through the two phases. `CleanIsTrue` follows.

`SessionLogProofs`, from `NoStateAssumption` (the App can tell no session and no run from one)
and `RetainTurnsAssumption`, for any number of messages, failures and restarts, whatever the
conversation is and however many turns compaction retains:
- `LogInv` is inductive: the lines are a sequence; only the first of the queue works on the
  file (`OneWriter`); what follows the last newline while a record is being written is a
  part of that record (`TailIsWritten`), so nothing else can become a line; nothing has
  been promised beyond the complete lines. The last holds through `Truncate` because it
  removes only what follows the last newline.
- `LogIsDurable`: every step of the log is a step of `DurableLog` or none, and so
  `SessionLog` implements it.
- `FoldIs` and `ContentGrows` say what a load makes of the lines: one more record is one more
  `Apply`. The prover has no induction over data, so the iterates of the fold are built by
  hand: a number for which there are none has a smallest one, and that is refuted.
- Conversations: `InTurn` says that every result follows its call within one turn. It is
  stronger than "no orphan", and it is what compaction needs: a cut at the beginning of a
  turn takes no call from its results (`CompactKeeps`). `RestoredAppend` and `RestoredKeep`
  say that what a restored session makes of messages does not depend on when it is made.
- `FileInv` adds to `LogInv` what the records and the pending steps are: the metadata is
  written first or never and by one writer (`MetaIsFirst`); an operation adds to the
  conversation once at most, the extraction never (`OneContent`); what is read now and what
  will be read when the record that is being written is complete are both in turn
  (`ContentInTurn`); a logged message of an agent leaves a mark (`ContentIsMarked`).
- `SessionInv` joins the file to the App, and is inductive. The idea is the course of the
  events: those not yet handed to a writer lead, one after the other, from what the file will
  hold when the present operation is done to what the run goes on from (`RunCourse`, with
  `CoursesJoin` and `CourseGoesOn`), and everything in between is in turn. So an event that
  is dropped, repeated or written out of order breaks the invariant at once, long before
  the next load would show it. `IdleAgrees` is what is left of it when the run has ended: the
  file holds `Held(screen)`, all but the message of a first `/plan`. No conversation
  that is read from the file begins with that message (`Unplanned`), so it can be told apart.
  `ReadIsCurrent` carries the agreement from the moment a `/resume` has read the file to the
  moment its state is set. That a
  whole record without its newline changes nothing for a reader (`TailAgrees`) holds outside
  of a run's own append only: the extraction's record is not part of the conversation, and a
  run whose append broke off is one that has failed. A mark can be missing only while no
  message of an agent is logged, pending or to come (`RunIsMarked`).
- `SessionCanBeRead`, `MemoryIsTheLog`, `NoResultIsOrphaned` and `UntrustedIsMarked` follow.

Every safety and action property of the runs is proved. Only model-checked: liveness
(`NoStarvation`, `ResponsesSettle`, `ReadyTaskIsStarted`, `RunningTaskIsSettled`,
`EveryCallSettles`), which is beyond the prover.

## 6. What is not modelled

See the components with status `not_modelled` or `partly`. The main ones are the approval
of plans (9 in the plan), MCP discovery, the tool execution memory and the App's dialogs
(10), path safety and search tools (single calls without protocol). Formatting, prompts,
rendering and the model itself are outside: the model's answers, the user's choices, the
sandbox's helper and the outcome of every tool are nondeterministic.
