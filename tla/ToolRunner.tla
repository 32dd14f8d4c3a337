----------------------------- MODULE ToolRunner -----------------------------
(***************************************************************************)
(* runToolCalls (src/src/tools/runner.ts): the tool calls of one model     *)
(* response, prepared one after the other and then executed concurrently   *)
(* under leases of the process-wide ResourceLock, for a main agent and a   *)
(* sub-agent it may wait for.                                              *)
(*                                                                         *)
(* A call is a number; the calls of an agent's response are ordered by it. *)
(* What the calls touch is one file target, reached by a path that is a    *)
(* link (a Shell command can repoint it) or by the target's own name.      *)
(* Approvals are in ToolApproval: here whatever a mode allows has been     *)
(* approved, so the only authorization that can change is the plan mode.   *)
(***************************************************************************)
EXTENDS Naturals, FiniteSets, ResourceAccess

CONSTANTS Call,      \* the calls of the responses, numbered in order
          Main, Sub, \* the two agents
          Owner,     \* the agent whose response a call is in
          Batches,   \* the responses considered: tools for the calls
          Targets,   \* the files the link may point to
          Named,     \* the one of them that is also written by its own name
          NoSignal

ASSUME CallAssumption == Call \in SUBSET Nat
ASSUME OwnerAssumption == Main # Sub /\ Owner \in [Call -> {Main, Sub}]
ASSUME NamedAssumption == Named \in Targets
ASSUME TargetsAssumption == \A target \in Targets : target \in Seq(Range(target))

Agents == {Main, Sub}

ASSUME SignalAssumption == NoSignal \notin Agents

VARIABLES pending, ahead, active, accesses, aborted, dispatching,  \* the lock
          tool,     \* the tool each call names
          phase,    \* how far each call has got
          planned,  \* the access set a call asked its lease for
          mode,     \* the mode in each agent's state, "normal" or "plan"
          started,  \* the agents whose response is being run
          link      \* the file the link points to

lockVars == <<pending, ahead, active, accesses, aborted, dispatching>>
vars == <<lockVars, tool, phase, planned, mode, started, link>>

FileTools == {"ReadLink", "WriteLink", "WriteNamed"}
OpaqueTools == {"Shell", "Mcp"}
PlanOnlyTools == {"UpdatePlan", "ExitPlanMode"}
AgentTools == {"Spawn", "WaitAgent"}
Tools == FileTools \cup OpaqueTools \cup PlanOnlyTools \cup AgentTools \cup {"EnterPlanMode"}

ASSUME BatchesAssumption == Batches \subseteq [Call -> Tools]

SettledPhases == {"done", "failed"}
Phases == {"idle", "prepared", "waiting", "authorized", "running", "reacquiring"}
            \cup SettledPhases

(***************************************************************************)
(* authorizeToolCall, as far as the mode decides it.                       *)
(***************************************************************************)
Authorized(t, m) ==
    IF m = "plan"
    THEN t \in PlanOnlyTools \cup {"ReadLink", "EnterPlanMode", "WaitAgent"}
    ELSE t \notin PlanOnlyTools

(***************************************************************************)
(* getResourceAccesses of the tools, and planToolAccesses.  The path of a  *)
(* file tool is resolved to its canonical target, whose last component     *)
(* stands for the inode.                                                   *)
(***************************************************************************)
Workspace == <<"w">>
Sandbox == {Access("runtime", <<"windows-sandbox">>, "write", "exact")}

FileAccess(target, m) == FileResourceAccesses(target, Last(target), m, "exact")

DeclaredAccesses(t, agent, target) ==
    CASE t = "ReadLink"   -> FileAccess(target, "read")
      [] t = "WriteLink"  -> FileAccess(target, "write")
      [] t = "WriteNamed" -> FileAccess(Named, "write")
      [] t = "Shell"      -> FileResourceAccesses(Workspace, NoIdentity, "write", "subtree")
                                \cup Sandbox \cup {OpaqueToolAccess("write")}
      [] t = "Mcp"        -> {Access("mcp", <<"server">>, "write", "exact"),
                              OpaqueToolAccess("write")}
      [] t \in AgentTools -> {}
      [] OTHER            -> {SessionResourceAccess(agent, "write")}

CurrentPlan(c) == PlanToolAccesses(DeclaredAccesses(tool[c], Owner[c], link), Owner[c])

\* Everything a call may ask its lease for.
PossiblePlans ==
    {PlanToolAccesses(DeclaredAccesses(t, a, target), a) :
        t \in Tools, a \in Agents, target \in Targets}

Lock == INSTANCE ResourceLock
    WITH Caller <- Call, Signal <- Agents, SignalOf <- Owner,
         AccessSets <- PossiblePlans

-----------------------------------------------------------------------------

CallsOf(a) == {c \in Call : Owner[c] = a}
Settled(a) == \A c \in CallsOf(a) : phase[c] \in SettledPhases

(* A background sub-agent may be running already, unless this response is  *)
(* the one that spawns it.                                                 *)
Init ==
    /\ Lock!Init
    /\ tool \in Batches
    /\ phase = [c \in Call |-> "idle"]
    /\ planned = [c \in Call |-> {}]
    /\ mode \in {[a \in Agents |-> IF a = Main THEN m ELSE "normal"] : m \in {"normal", "plan"}}
    /\ started \in IF \E c \in Call : tool[c] = "Spawn" THEN {{Main}} ELSE {{Main}, Agents}
    /\ link \in Targets

(***************************************************************************)
(* Some code runs to its end before anything else can: the map() that asks *)
(* for the leases of all prepared calls, the release and reacquire of the  *)
(* retry loop, and the listeners of an abort.                              *)
(***************************************************************************)
Beginning(a) ==
    /\ \A c \in CallsOf(a) : phase[c] # "idle"
    /\ \E c \in CallsOf(a) : phase[c] = "prepared"

Atomic ==
    \/ \E a \in Agents : Beginning(a)
    \/ \E c \in Call : phase[c] = "reacquiring"
    \/ dispatching # NoSignal

Step(c, p) == phase' = [phase EXCEPT ![c] = p]

(***************************************************************************)
(* prepareToolCall, for each call in the order of the response.            *)
(***************************************************************************)
Prepare(c) ==
    /\ ~Atomic
    /\ Owner[c] \in started
    /\ phase[c] = "idle"
    /\ \A d \in CallsOf(Owner[c]) : d < c => phase[d] # "idle"
    /\ IF Authorized(tool[c], mode[Owner[c]])
       THEN Step(c, "prepared") /\ planned' = [planned EXCEPT ![c] = CurrentPlan(c)]
       ELSE Step(c, "failed") /\ UNCHANGED planned
    /\ UNCHANGED <<lockVars, tool, mode, started, link>>

(***************************************************************************)
(* lockManager.acquire in executePreparedToolCall, for a prepared call of  *)
(* a fully prepared response in order, and in the retry loop.  An aborted  *)
(* signal rejects it.                                                      *)
(***************************************************************************)
Begin(c) ==
    /\ \/ /\ phase[c] = "prepared"
          /\ Beginning(Owner[c])
          /\ \A d \in CallsOf(Owner[c]) : d < c => phase[d] # "prepared"
       \/ phase[c] = "reacquiring"
    /\ \/ /\ Owner[c] \notin aborted
          /\ Lock!Acquire(c, planned[c])
          /\ Step(c, "waiting")
       \/ /\ Owner[c] \in aborted
          /\ Step(c, "failed")
          /\ UNCHANGED lockVars
    /\ UNCHANGED <<tool, planned, mode, started, link>>

(* The request was taken out of the queue by an abort.                     *)
Rejected(c) ==
    /\ ~Atomic
    /\ phase[c] = "waiting"
    /\ c \notin pending \cup active
    /\ Step(c, "failed")
    /\ UNCHANGED <<lockVars, tool, planned, mode, started, link>>

\* Wrong on purpose, for the check of the properties: a call is not authorized again.
ReauthorizeAbortOnly(c) ==
    /\ ~Atomic
    /\ phase[c] = "waiting"
    /\ c \in active
    /\ IF Owner[c] \notin aborted
       THEN Step(c, "authorized") /\ UNCHANGED lockVars
       ELSE Step(c, "failed") /\ Lock!Release(c)
    /\ UNCHANGED <<tool, planned, mode, started, link>>

(***************************************************************************)
(* Under the lease: check for an abort and authorize again.                *)
(***************************************************************************)
Reauthorize(c) ==
    /\ ~Atomic
    /\ phase[c] = "waiting"
    /\ c \in active
    /\ IF Owner[c] \notin aborted /\ Authorized(tool[c], mode[Owner[c]])
       THEN Step(c, "authorized") /\ UNCHANGED lockVars
       ELSE Step(c, "failed") /\ Lock!Release(c)
    /\ UNCHANGED <<tool, planned, mode, started, link>>

\* Wrong on purpose, for the check of the properties: the lease of the preparation is
\* good enough.
ReplanOnce(c) ==
    /\ ~Atomic
    /\ phase[c] = "authorized"
    /\ Step(c, "running")
    /\ started' = IF tool[c] = "Spawn" THEN Agents ELSE started
    /\ UNCHANGED <<lockVars, tool, planned, mode, link>>

(***************************************************************************)
(* Plan the accesses again; go on if they are those of the lease, or give  *)
(* the lease up and ask for the new set.  Spawn starts the sub-agent.      *)
(***************************************************************************)
Replan(c) ==
    /\ ~Atomic
    /\ phase[c] = "authorized"
    /\ IF ResourceAccessSetsEqual(planned[c], CurrentPlan(c))
       THEN /\ Step(c, "running")
            /\ started' = IF tool[c] = "Spawn" THEN Agents ELSE started
            /\ UNCHANGED <<lockVars, planned>>
       ELSE /\ Step(c, "reacquiring")
            /\ planned' = [planned EXCEPT ![c] = CurrentPlan(c)]
            /\ Lock!Release(c)
            /\ UNCHANGED started
    /\ UNCHANGED <<tool, mode, link>>

(***************************************************************************)
(* A running Shell command can repoint the link at any moment.             *)
(***************************************************************************)
ShellEffect(c) ==
    /\ ~Atomic
    /\ phase[c] = "running" /\ tool[c] = "Shell"
    /\ link' \in Targets \ {link}
    /\ UNCHANGED <<lockVars, tool, phase, planned, mode, started>>

(***************************************************************************)
(* The call ends, well or with an error, and the lease is released.  A     *)
(* foreground Spawn ends with its sub-agent; WaitAgent with the sub-agent, *)
(* with an error if there is none, or on an abort.                         *)
(***************************************************************************)
CanEnd(c) ==
    CASE tool[c] = "Spawn"     -> Settled(Sub)
      [] tool[c] = "WaitAgent" -> Settled(Sub) \/ Sub \notin started \/ Owner[c] \in aborted
      [] OTHER                 -> TRUE

\* Wrong on purpose, for the check of the properties: no finally.
FinishKeepingLease(c) ==
    /\ ~Atomic
    /\ phase[c] = "running"
    /\ CanEnd(c)
    /\ \/ /\ Step(c, "done")
          /\ mode' = IF tool[c] = "EnterPlanMode"
                     THEN [mode EXCEPT ![Owner[c]] = "plan"] ELSE mode
          /\ Lock!Release(c)
       \/ /\ Step(c, "failed")
          /\ UNCHANGED <<lockVars, mode>>
    /\ UNCHANGED <<tool, planned, started, link>>

Finish(c) ==
    /\ ~Atomic
    /\ phase[c] = "running"
    /\ CanEnd(c)
    /\ \/ /\ Step(c, "done")
          /\ mode' = IF tool[c] = "EnterPlanMode"
                     THEN [mode EXCEPT ![Owner[c]] = "plan"] ELSE mode
       \/ /\ Step(c, "failed")
          /\ UNCHANGED mode
    /\ Lock!Release(c)
    /\ UNCHANGED <<tool, planned, started, link>>

(***************************************************************************)
(* The application's signal (for Main) or the sub-agent's own fires.       *)
(***************************************************************************)
Abort(a) ==
    /\ ~Atomic
    /\ a \in started
    /\ Lock!Abort(a)
    /\ UNCHANGED <<tool, phase, planned, mode, started, link>>

DispatchAbort ==
    /\ Lock!DispatchDone \/ \E c \in Call : Lock!OnAbort(c)
    /\ UNCHANGED <<tool, phase, planned, mode, started, link>>

(* Every response settled: nothing is left to run.                         *)
AllSettled == \A a \in started : Settled(a)

Finished == AllSettled /\ ~Atomic /\ UNCHANGED vars

CallStep(c) ==
    \/ Prepare(c) \/ Begin(c) \/ Rejected(c) \/ Reauthorize(c) \/ Replan(c) \/ Finish(c)

Next ==
    \/ \E c \in Call : CallStep(c) \/ ShellEffect(c)
    \/ \E a \in Agents : Abort(a)
    \/ DispatchAbort
    \/ Finished

Spec == Init /\ [][Next]_vars

(***************************************************************************)
(* While a promise has an outcome to be continued with, or a tool that     *)
(* waits for nobody is running, something goes on.  Nobody has to abort    *)
(* anything.                                                               *)
(***************************************************************************)
Fairness == WF_vars((\E c \in Call : CallStep(c)) \/ DispatchAbort)

FairSpec == Spec /\ Fairness

-----------------------------------------------------------------------------
(* Plan mode changes nothing: a tool that can write is never running while *)
(* its agent is in plan mode, although it may have been authorized when    *)
(* the response was prepared, before EnterPlanMode of the same response.   *)
PlanModeRunsNoWrite ==
    \A c \in Call :
        phase[c] = "running" /\ mode[Owner[c]] = "plan" =>
            tool[c] \in PlanOnlyTools \cup {"ReadLink", "EnterPlanMode", "WaitAgent"}

\* The files a running call works on, by where the link points now.
Touches(c) ==
    CASE tool[c] \in {"ReadLink", "WriteLink"} -> {link}
      [] tool[c] = "WriteNamed"                -> {Named}
      [] tool[c] \in OpaqueTools               -> Targets
      [] OTHER                                 -> {}

Writes(c) == IF tool[c] = "ReadLink" THEN {} ELSE Touches(c)

(* No two running calls of any agents work on the same file when one of    *)
(* them writes it.  The lease was asked for where the link pointed when    *)
(* the call was prepared; this is about where it points now.               *)
NoConcurrentWrite ==
    \A c, d \in Call :
        (c # d /\ phase[c] = "running" /\ phase[d] = "running")
        => Writes(c) \cap Touches(d) = {}

\* No opaque call waits behind one that waits for the sub-agent.
OpaqueCallsFirst ==
    \A c, d \in Call :
        tool[c] \in AgentTools /\ tool[d] \in OpaqueTools /\ Owner[c] = Owner[d] => d < c

(* Every call of every response settles, with nobody aborting anything,    *)
(* when the opaque calls of a response are in front of those that wait for *)
(* a sub-agent; and whatever waits for what, once the application's signal *)
(* has fired.  A lease that any of the ways out of a call keeps would hold *)
(* up another one for ever.                                                *)
ResponsesSettle == OpaqueCallsFirst \/ Main \in aborted ~> AllSettled

(* Plan mode is there to understand and review before anything is changed: *)
(* until the plan is approved no call of any agent changes a file.  (False *)
(* of sub-agents: they have a permission context of their own.)            *)
NothingModifiedInPlanMode ==
    \A c \in Call : phase[c] = "running" /\ mode[Main] = "plan" => Writes(c) = {}
=============================================================================
