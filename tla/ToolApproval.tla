---------------------------- MODULE ToolApproval ----------------------------
(***************************************************************************)
(* The approval of the main agent's tool calls: the query loop             *)
(* (src/src/query.ts) that pauses a batch and resumes it with the user's   *)
(* decision, the permission context it keeps (src/src/state.ts), the       *)
(* decision for one call (src/src/tools/permissions.ts), the App that runs *)
(* the query and persists its events (src/src/ui/App.tsx), and what a      *)
(* restart makes of the session (src/src/sessionStore.ts).                 *)
(*                                                                         *)
(* Of the conversation only the last batch of tool calls is kept.  A call  *)
(* is its position in the batch: call ids are unique in one batch only.    *)
(* Of its arguments only what the policy looks at is kept, its kind.  Plan *)
(* mode is in ToolRunner, static path boundaries are left out, and loading *)
(* another session over a running one is left to the App.                  *)
(***************************************************************************)
EXTENDS SequencesExt

CONSTANTS Batches,     \* the batches the model may answer with
          MaxBatches,  \* bound on the batches of one behaviour
          MaxErrors,   \* bound on failed writes to the session log
          MaxCrashes,  \* bound on exits of the process
          MaxChanges   \* bound on changes of the approval mode

Modes == {"ask", "auto", "full_access"}
Kinds == {"Read", "Write", "Shell", "BypassShell", "Mcp"}

ASSUME BatchesAssumption == Batches \subseteq Seq(Kinds) \ {<<>>}
ASSUME BoundsAssumption == {MaxBatches, MaxErrors, MaxCrashes, MaxChanges} \subseteq Nat

VARIABLES phase,     \* what the process does
          uiMode,    \* the mode the App shows
          app,       \* the agent state the App has
          query,     \* the agent state inside the running query
          log,       \* the session file
          todo,      \* the calls of the batch still to be executed
          outcome,   \* what came of each call of the batch
          consent,   \* the user's last answer about each call of the batch
          always,    \* the tools the user asked not to be asked about again
          batches, errors, crashes, changes  \* bounded counters

counters == <<batches, errors, crashes, changes>>
vars == <<phase, uiMode, app, query, log, todo, outcome, consent, always, counters>>

ToolOf(kind) == IF kind = "BypassShell" THEN "Shell" ELSE kind
Tools == {ToolOf(k) : k \in Kinds}
Phases == {"down", "idle", "model", "collecting", "executing", "reporting"}

(***************************************************************************)
(* An agent state.  There is a pending approval when calls is not empty.   *)
(***************************************************************************)
NoApproval == [calls |-> {}, requests |-> {}, decision |-> "none", revalidate |-> FALSE]

FreshState == [mode |-> "ask", grants |-> {}, batch |-> <<>>, results |-> {},
               pending |-> NoApproval]

HasPending(s) == s.pending.calls # {}

(* setApprovalMode: a switch drops what was granted under the old mode.    *)
SetApprovalMode(s, mode) ==
    IF s.mode = mode THEN s
    ELSE [s EXCEPT !.mode = mode, !.grants = {}, !.pending = NoApproval]

(* requiresInteractiveApproval of the main agent in normal mode.           *)
RequiresApproval(mode, kind) ==
    CASE mode = "full_access" -> FALSE
      [] mode = "auto"        -> kind \in {"BypassShell", "Mcp"}
      [] mode = "ask"         -> kind # "Read"

\* Wrong on purpose, for the check of the properties: a session grant covers a sandbox
\* bypass too.
ApprovalForCallAndBypass(s, i) ==
    CASE s.pending.revalidate -> "ask"
      [] ~s.pending.revalidate /\ s.pending.decision # "none" ->
            IF i \notin s.pending.calls \cap s.pending.requests THEN "ask"
            ELSE IF s.pending.decision = "deny" THEN "deny" ELSE "allow"
      [] OTHER -> IF ToolOf(s.batch[i]) \in s.grants THEN "allow" ELSE "ask"

(* approvalForCall: a decision covers the calls it was asked about; without *)
(* one a session grant covers its tool, except for a sandbox bypass.        *)
ApprovalForCall(s, i) ==
    CASE s.pending.revalidate -> "ask"
      [] ~s.pending.revalidate /\ s.pending.decision # "none" ->
            IF i \notin s.pending.calls \cap s.pending.requests THEN "ask"
            ELSE IF s.pending.decision = "deny" THEN "deny" ELSE "allow"
      [] OTHER ->
            IF ToolOf(s.batch[i]) \in s.grants /\ s.batch[i] # "BypassShell"
            THEN "allow" ELSE "ask"

(* getToolPermissionDecision                                               *)
PermissionDecision(s, i) ==
    IF RequiresApproval(s.mode, s.batch[i]) THEN ApprovalForCall(s, i) ELSE "allow"

(* collectToolApprovalRequests                                             *)
ApprovalRequests(s, calls) == {i \in calls : PermissionDecision(s, i) = "ask"}

\* Wrong on purpose, for the check of the properties: results are not looked at.
CompletedCallsForgotten(s, calls) == {}

(* completedPendingToolCallIds: the calls that have a result already, found *)
(* by the assistant message whose calls are exactly the pending ones.       *)
CompletedCalls(s, calls) == IF calls = DOMAIN s.batch THEN s.results \cap calls ELSE {}

(* clearToolApproval                                                       *)
ClearApproval(s) ==
    LET granted == IF s.pending.decision = "allow_session" /\ ~s.pending.revalidate
                   THEN {ToolOf(s.batch[i]) : i \in s.pending.requests} ELSE {}
    IN  [s EXCEPT !.grants = @ \cup granted, !.pending = NoApproval]

(***************************************************************************)
(* The session file.  Of the pending approval a snapshot keeps the calls   *)
(* and the requests; mode and grants are never written                     *)
(* (persistableToolPermissionContext).                                     *)
(***************************************************************************)
Snapshot(l, s) ==
    [l EXCEPT !.calls = s.pending.calls, !.requests = s.pending.requests]

EmptyLog == [batch |-> <<>>, results |-> {}, calls |-> {}, requests |-> {}]

(* restoredPermissionContext: loading fails unless some assistant message  *)
(* has exactly the pending calls; otherwise the calls without a result     *)
(* stay pending, to be looked at again.                                    *)
Loadable(l) == l.calls # {} => l.calls = DOMAIN l.batch

RestoredState(l) ==
    LET remaining == l.calls \ CompletedCalls(l, l.calls)
    IN  [mode |-> "ask", grants |-> {}, batch |-> l.batch, results |-> l.results,
         pending |-> IF remaining = {} THEN NoApproval
                     ELSE [calls |-> remaining, requests |-> l.requests \cap remaining,
                           decision |-> "none", revalidate |-> TRUE]]

-----------------------------------------------------------------------------

Init ==
    /\ phase = "idle"
    /\ uiMode = "ask"
    /\ app = FreshState /\ query = FreshState
    /\ log = EmptyLog
    /\ todo = {}
    /\ outcome = <<>> /\ consent = <<>>
    /\ always = {}
    /\ batches = 0 /\ errors = 0 /\ crashes = 0 /\ changes = 0

Each(batch, value) == [i \in DOMAIN batch |-> value]

(***************************************************************************)
(* The App handles a "state" event: it takes the state as its latest and   *)
(* appends a snapshot; a failed append ends the run with that state.       *)
(***************************************************************************)
EmitState(s, next) ==
    /\ app' = s /\ query' = s
    /\ \/ phase' = next /\ log' = Snapshot(log, s) /\ UNCHANGED errors
       \/ phase' = "idle" /\ UNCHANGED log /\ errors < MaxErrors /\ errors' = errors + 1

(* A failed append of a "message" event ends the run with the state of the *)
(* last "state" event; the query's own state is gone.                      *)
AppendFails ==
    /\ errors < MaxErrors
    /\ errors' = errors + 1
    /\ phase' = "idle"
    /\ UNCHANGED <<app, query, log>>

(***************************************************************************)
(* runTurn: a message of the user, refused while an approval is pending.   *)
(* The state gets the mode the App shows.                                  *)
(***************************************************************************)
StartTurn ==
    /\ phase = "idle"
    /\ ~HasPending(app)
    /\ batches < MaxBatches
    /\ EmitState(SetApprovalMode(app, uiMode), "model")
    /\ outcome' = Each(app.batch, "none") /\ consent' = Each(app.batch, "none")
    /\ UNCHANGED <<uiMode, todo, always, batches, crashes, changes>>

(***************************************************************************)
(* The model answers, with a batch of tool calls or with the final answer. *)
(***************************************************************************)
ModelAnswers ==
    /\ phase = "model"
    /\ \/ /\ batches < MaxBatches
          /\ \E b \in Batches :
                /\ log' = [log EXCEPT !.batch = b, !.results = {}]
                /\ query' = [query EXCEPT !.batch = b, !.results = {}]
                /\ outcome' = Each(b, "none") /\ consent' = Each(b, "none")
          /\ batches' = batches + 1
          /\ phase' = "collecting"
          /\ UNCHANGED <<app, errors>>
       \/ AppendFails /\ UNCHANGED <<outcome, consent, batches>>
       \/ EmitState(query, "idle") /\ UNCHANGED <<outcome, consent, batches>>
    /\ UNCHANGED <<uiMode, todo, always, crashes, changes>>

Execute(s, calls) ==
    /\ phase' = IF calls = {} THEN "reporting" ELSE "executing"
    /\ todo' = calls
    /\ outcome' = Each(s.batch, "none")

(***************************************************************************)
(* The batch pauses as a whole if one call of it has to be asked about.    *)
(***************************************************************************)
CollectRequests ==
    LET calls    == DOMAIN query.batch
        requests == ApprovalRequests(query, calls)
        paused   == [query EXCEPT !.pending = [NoApproval EXCEPT !.calls = calls,
                                                                 !.requests = requests]]
    IN  /\ phase = "collecting"
        /\ \/ requests # {} /\ EmitState(paused, "idle") /\ UNCHANGED <<todo, outcome>>
           \/ /\ requests = {}
              /\ Execute(query, calls)
              /\ UNCHANGED <<app, query, log, errors>>
        /\ UNCHANGED <<uiMode, consent, always, batches, crashes, changes>>

(***************************************************************************)
(* The user answers the request (submitToolApproval); the query resumes    *)
(* with the calls that have no result yet.  The answer is about the calls  *)
(* the request shows.                                                      *)
(***************************************************************************)
Decide(decision) ==
    LET resolved == [app EXCEPT !.pending.decision = decision]
        shown    == app.pending.requests
    IN  /\ phase = "idle"
        /\ HasPending(app) /\ ~app.pending.revalidate
        /\ app' = resolved /\ query' = resolved
        /\ Execute(resolved, app.pending.calls \ CompletedCalls(app, app.pending.calls))
        /\ consent' = [i \in DOMAIN app.batch |->
                          IF i \notin shown THEN IF i \in DOMAIN consent THEN consent[i] ELSE "none"
                          ELSE IF decision = "deny" THEN "no" ELSE "yes"]
        /\ always' = always \cup IF decision = "allow_session"
                                 THEN {ToolOf(app.batch[i]) : i \in shown} ELSE {}
        /\ UNCHANGED <<uiMode, log, counters>>

(***************************************************************************)
(* A restored approval is looked at again in a run of its own: the request *)
(* is rebuilt, or the calls run if nothing has to be asked any more.       *)
(***************************************************************************)
Revalidate ==
    LET requests == ApprovalRequests(app, app.pending.calls)
        replaced == [app EXCEPT !.pending.requests = requests, !.pending.revalidate = FALSE,
                                !.pending.decision = "none"]
        calls    == app.pending.calls
    IN  /\ phase = "idle"
        /\ app.pending.revalidate
        /\ \/ requests # {} /\ EmitState(replaced, "idle") /\ UNCHANGED <<todo, outcome>>
           \/ /\ requests = {}
              /\ query' = ClearApproval(replaced)
              /\ Execute(app, calls \ CompletedCalls(app, calls))
              /\ UNCHANGED <<app, log, errors>>
        /\ UNCHANGED <<uiMode, consent, always, batches, crashes, changes>>

(***************************************************************************)
(* The calls run concurrently; the decision is taken again under the lease.*)
(***************************************************************************)
ExecuteCall(i) ==
    /\ phase = "executing"
    /\ i \in todo
    /\ outcome' = [outcome EXCEPT ![i] =
                      CASE PermissionDecision(query, i) = "allow" -> "ran"
                        [] PermissionDecision(query, i) = "deny"  -> "denied"
                        [] PermissionDecision(query, i) = "ask"   -> "refused"]
    /\ todo' = todo \ {i}
    /\ phase' = IF todo' = {} THEN "reporting" ELSE phase
    /\ UNCHANGED <<uiMode, app, query, log, consent, always, counters>>

Unreported == {i \in DOMAIN outcome : outcome[i] # "none"} \ query.results

(***************************************************************************)
(* When all calls have ended, each result is a message and a state, in the *)
(* order of the calls.                                                     *)
(***************************************************************************)
ReportResult ==
    /\ phase = "reporting"
    /\ \E i \in Unreported :
          LET reported == [query EXCEPT !.results = @ \cup {i}]
              appended == [log EXCEPT !.results = @ \cup {i}]
          IN  /\ \A j \in Unreported : i <= j
              /\ \/ AppendFails
                 \/ /\ app' = reported /\ query' = reported
                    /\ \/ log' = Snapshot(appended, reported) /\ UNCHANGED <<phase, errors>>
                       \/ /\ log' = appended /\ phase' = "idle"
                          /\ errors < MaxErrors /\ errors' = errors + 1
    /\ UNCHANGED <<uiMode, todo, outcome, consent, always, batches, crashes, changes>>

(* The approval is over, and the next round asks the model.                *)
EndBatch ==
    /\ phase = "reporting"
    /\ Unreported = {}
    /\ EmitState(ClearApproval(query), "model")
    /\ UNCHANGED <<uiMode, todo, outcome, consent, always, batches, crashes, changes>>

(***************************************************************************)
(* /permissions, refused while a run or an approval is pending.            *)
(***************************************************************************)
ChangeMode(mode) ==
    /\ phase = "idle"
    /\ ~HasPending(app)
    /\ mode # app.mode
    /\ changes < MaxChanges
    /\ changes' = changes + 1
    /\ uiMode' = mode
    /\ app' = SetApprovalMode(app, mode)
    /\ always' = {}
    /\ UNCHANGED <<phase, query, log, todo, outcome, consent, batches, errors, crashes>>

(***************************************************************************)
(* The process ends at any moment, and is started again with the session.  *)
(* The user's answers ended with the process.                              *)
(***************************************************************************)
Crash ==
    /\ phase # "down"
    /\ crashes < MaxCrashes
    /\ crashes' = crashes + 1
    /\ phase' = "down"
    /\ todo' = {}
    /\ outcome' = Each(log.batch, "none") /\ consent' = Each(log.batch, "none")
    /\ always' = {}
    /\ app' = FreshState /\ query' = [FreshState EXCEPT !.batch = log.batch]
    /\ uiMode' = "ask"
    /\ UNCHANGED <<log, batches, errors, changes>>

Restore ==
    /\ phase = "down"
    /\ Loadable(log)
    /\ app' = RestoredState(log) /\ query' = RestoredState(log)
    /\ phase' = "idle"
    /\ UNCHANGED <<uiMode, log, todo, outcome, consent, always, counters>>

(* A session that cannot be loaded is given up for a new one.              *)
NewSession ==
    /\ phase = "down"
    /\ ~Loadable(log)
    /\ app' = FreshState /\ query' = FreshState
    /\ log' = EmptyLog
    /\ outcome' = <<>> /\ consent' = <<>>
    /\ phase' = "idle"
    /\ UNCHANGED <<uiMode, todo, always, counters>>

(* The bounds are used up.                                                 *)
Finished ==
    /\ phase = "idle" /\ ~HasPending(app)
    /\ batches = MaxBatches
    /\ UNCHANGED vars

Next ==
    \/ StartTurn \/ ModelAnswers \/ CollectRequests \/ Revalidate
    \/ \E d \in {"allow_once", "allow_session", "deny"} : Decide(d)
    \/ \E i \in todo : ExecuteCall(i)
    \/ ReportResult \/ EndBatch
    \/ \E m \in Modes : ChangeMode(m)
    \/ Crash \/ Restore \/ NewSession
    \/ Finished

Spec == Init /\ [][Next]_vars

-----------------------------------------------------------------------------
\* Call i is executed by this step.
Runs(i) == outcome[i] = "none" /\ outcome'[i] = "ran"

Executing == phase = "executing" /\ outcome # outcome'

(* Nothing the mode on the screen asks about runs without the user: a call *)
(* that runs was allowed in its own batch by this process, or its tool is  *)
(* one the user asked not to be asked about since the last mode change;    *)
(* a call whose last answer is no, never.  Modes, grants and decisions     *)
(* pass through failed writes, resumed batches and restarts on the way.    *)
ConsentStep ==
    Executing =>
        \A i \in DOMAIN outcome :
            Runs(i) =>
                /\ consent[i] # "no"
                /\ \/ ~RequiresApproval(uiMode, query.batch[i])
                   \/ consent[i] = "yes"
                   \/ ToolOf(query.batch[i]) \in always /\ query.batch[i] # "BypassShell"

NoUnauthorizedExecution == [][ConsentStep]_vars

(* The request on the screen shows every call of the paused batch that has *)
(* no result and needs an answer, after a restart too: none can hide       *)
(* behind the answer to another one, and a sandbox bypass not behind a     *)
(* session grant either.                                                   *)
NothingHidden ==
    phase = "idle" /\ HasPending(app) /\ ~app.pending.revalidate =>
        \A i \in app.pending.calls :
            \/ ~RequiresApproval(uiMode, app.batch[i])
            \/ i \in app.pending.requests
            \/ i \in app.results
            \/ ToolOf(app.batch[i]) \in app.grants /\ app.batch[i] # "BypassShell"

(* A call that has its result in the session is not executed again when    *)
(* the batch is resumed, whatever writes to the session failed, as long as *)
(* the process that ran it lives.  (After a restart only the calls left    *)
(* stay pending, CompletedCalls does not find their batch any more, and a  *)
(* second interruption can run one of them twice.)                         *)
CompletedNotRepeated ==
    [][crashes = 0 /\ Executing =>
          \A i \in DOMAIN outcome : Runs(i) => i \notin log.results]_vars

(* The session can be loaded again at every moment.                        *)
SessionStaysLoadable == Loadable(log)
=============================================================================
