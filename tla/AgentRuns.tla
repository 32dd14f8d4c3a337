------------------------------ MODULE AgentRuns ------------------------------
(***************************************************************************)
(* The sub-agents a main agent spawns (src/src/agents/manager.ts): the     *)
(* slots they run in, the mailboxes that connect them (mailbox.ts), the    *)
(* run of each in the query loop (runAgent.ts, query.ts), and the App that *)
(* wakes the main agent up for its mail (src/src/ui/App.tsx).              *)
(*                                                                         *)
(* JavaScript runs from one await to the next undisturbed; each such       *)
(* stretch is one action.  Agents that work on a task of the graph are in  *)
(* TaskScheduler, the resources their calls lock in ToolRunner.            *)
(***************************************************************************)
EXTENDS SequencesExt, FiniteSets

CONSTANTS Agent,       \* the sub-agents that may be spawned
          Main,        \* the main agent
          Slots,       \* maxConcurrentAgents
          MaxMessages  \* bound on the messages agents send each other

ASSUME SlotsAssumption == Slots \in Nat \ {0}
ASSUME MainAssumption == Main \notin Agent

VARIABLES
    status,     \* the status in an agent's record, "none" without one
    background, \* the parent does not wait for the agent's completion
    at,         \* where runRecord() of the agent is
    result,     \* the status runSubagent() has returned with
    active,     \* how many slots are taken
    waiters,    \* for each agent that waits for a slot, those that wait longer
    queue,      \* the mailboxes
    pending,    \* pendingMemory of the main agent: whose work it holds
    notified,   \* the agents whose parent has been told
    read,       \* the messages in each agent's transcript
    merged,     \* the agents whose work the main agent's state names
    main,       \* the App: "idle", "running", or "blocked" on its user
    revised,    \* the App's wake-up effect has to be evaluated again
    permission, \* a permission change waits for the agents
    runtime,    \* the manager: "open", "closed", "stopping", "stopped"
    accepted    \* history: the messages send() has taken, per receiver

agentVars == <<status, background, at, result>>
slotVars == <<active, waiters>>
mailVars == <<queue, pending, notified, accepted>>
transcripts == <<read, merged>>
appVars == <<main, revised, permission>>
vars == <<agentVars, slotVars, mailVars, transcripts, appVars, runtime>>

Terminal == {"completed", "failed", "cancelled"}
Spawned == {a \in Agent : status[a] # "none"}
Ended == {a \in Agent : status[a] \in Terminal}
Aborted(a) == status[a] = "cancelling"
Active == {a \in Agent : at[a] \notin {"none", "done"}}
Closing == runtime # "open"

Init ==
    /\ status = [a \in Agent |-> "none"] /\ background = [a \in Agent |-> FALSE]
    /\ at = [a \in Agent |-> "none"]     /\ result = [a \in Agent |-> "none"]
    /\ active = 0 /\ waiters = [a \in {} |-> {}]
    /\ queue = [x \in Agent \cup {Main} |-> <<>>] /\ accepted = queue /\ read = queue
    /\ pending = {} /\ merged = {} /\ notified = {}
    /\ main = "idle" /\ revised = FALSE /\ permission = FALSE
    /\ runtime = "open"

-----------------------------------------------------------------------------
(* Mailboxes.                                                              *)

Mail(from, says) == [from |-> from, says |-> says]

\* Wrong on purpose, for the check of the properties: nobody hears of it.
DeliverSilently(boxes, x, m) ==
    /\ queue' = [boxes EXCEPT ![x] = Append(@, m)]
    /\ accepted' = [accepted EXCEPT ![x] = Append(@, m)]
    /\ UNCHANGED revised

\* AgentMailbox.send, and the "inbox" event the App subscribes to.
Deliver(boxes, x, m) ==
    /\ queue' = [boxes EXCEPT ![x] = Append(@, m)]
    /\ accepted' = [accepted EXCEPT ![x] = Append(@, m)]
    /\ revised' = (revised \/ ~Closing)

Texts == LET count(sum, x) == sum + Len(SelectSeq(accepted[x], LAMBDA m : m.says = "message"))
         IN  FoldLeft(count, 0, SetToSeq(Agent \cup {Main}))

CanMessage(from, x) ==
    /\ x # from
    /\ x # Main => status[x] \in {"created", "running"}
    /\ runtime # "stopped"

SendMessage(from, x) ==
    /\ Texts < MaxMessages
    /\ CanMessage(from, x)
    /\ Deliver(queue, x, Mail(from, "message"))
    /\ UNCHANGED <<pending, notified>>

\* drainAgentUpdates: the mail and the work of ended agents go into the state.
Drain(x) ==
    /\ queue' = [queue EXCEPT ![x] = <<>>]
    /\ read' = [read EXCEPT ![x] = @ \o queue[x]]
    /\ IF x = Main
       THEN pending' = {} /\ merged' = merged \cup pending
       ELSE UNCHANGED <<pending, merged>>
    /\ UNCHANGED <<notified, accepted>>

-----------------------------------------------------------------------------
(* Slots.                                                                  *)

Waiting == DOMAIN waiters

\* The list of waiters without some of them.
WithoutWaiters(agents) == [a \in Waiting \ agents |-> waiters[a] \ agents]

Acquire(a) ==
    IF active < Slots
    THEN /\ active' = active + 1
         /\ at' = [at EXCEPT ![a] = "granted"]
         /\ UNCHANGED waiters
    ELSE /\ waiters' = [b \in Waiting \cup {a} |-> IF b = a THEN Waiting ELSE waiters[b]]
         /\ at' = [at EXCEPT ![a] = "waiting"]
         /\ UNCHANGED active

\* Wrong on purpose, for the check of the properties: the slot is given back to nobody.
ReleaseSlot(a) ==
    /\ active' = active - 1
    /\ at' = [at EXCEPT ![a] = "done"]
    /\ UNCHANGED waiters

\* createRelease and startNext: a free slot goes to the agent that waits longest.
Release(a) ==
    \/ /\ Waiting = {}
       /\ active' = active - 1
       /\ at' = [at EXCEPT ![a] = "done"]
       /\ UNCHANGED waiters
    \/ \E first \in Waiting :
          /\ waiters[first] = {}
          /\ at' = [at EXCEPT ![a] = "done", ![first] = "granted"]
          /\ waiters' = WithoutWaiters({first})
          /\ UNCHANGED active

-----------------------------------------------------------------------------
(* The run of an agent.                                                    *)

\* requestCancellation: the signal takes an agent that waits out of the list.
RequestCancellation(agents) ==
    /\ status' = [a \in Agent |-> IF a \in agents THEN "cancelling" ELSE status[a]]
    /\ at' = [a \in Agent |-> IF a \in agents /\ at[a] = "waiting" THEN "refused" ELSE at[a]]
    /\ waiters' = WithoutWaiters(agents)
    /\ UNCHANGED <<background, result, active>>

\* An agent that is being ended already is not ended again.
Cancellable == {a \in Spawned : ~Aborted(a) /\ a \notin Ended}

\* Wrong on purpose, for the check of the properties: the parent is told what
\* the run returned, whatever has become of it.
FinishRecordAsReturned(a, final) ==
    LET emptied == [queue EXCEPT ![a] = <<>>]
    IN  /\ status' = [status EXCEPT ![a] = final]
        /\ pending' = IF result[a] = "none" THEN pending ELSE pending \cup {a}
        /\ IF background[a] /\ a \notin notified
           THEN notified' = notified \cup {a} /\ Deliver(emptied, Main, Mail(a, IF result[a] = "none" THEN final ELSE result[a]))
           ELSE queue' = emptied /\ UNCHANGED <<notified, accepted, revised>>
        /\ UNCHANGED <<background, result, transcripts, main, permission, runtime>>

\* The record gets its final status, the mailbox is emptied, and the parent is
\* told once.  An agent that has run has work to report.
FinishRecord(a, final) ==
    LET emptied == [queue EXCEPT ![a] = <<>>]
    IN  /\ status' = [status EXCEPT ![a] = final]
        /\ pending' = IF result[a] = "none" THEN pending ELSE pending \cup {a}
        /\ IF background[a] /\ a \notin notified
           THEN notified' = notified \cup {a} /\ Deliver(emptied, Main, Mail(a, final))
           ELSE queue' = emptied /\ UNCHANGED <<notified, accepted, revised>>
        /\ UNCHANGED <<background, result, transcripts, main, permission, runtime>>

\* A slot was granted; the agent may have been cancelled since.
Start(a) ==
    /\ at[a] = "granted"
    /\ IF Aborted(a)
       THEN FinishRecord(a, "cancelled") /\ Release(a)
       ELSE /\ status' = [status EXCEPT ![a] = "running"]
            /\ at' = [at EXCEPT ![a] = "head"]
            /\ UNCHANGED <<background, result, slotVars, mailVars, transcripts, appVars, runtime>>

\* The signal was aborted before there was a slot.
Refuse(a) ==
    /\ at[a] = "refused"
    /\ FinishRecord(a, "cancelled")
    /\ at' = [at EXCEPT ![a] = "done"]
    /\ UNCHANGED slotVars

Goto(a, place) ==
    /\ at' = [at EXCEPT ![a] = place]
    /\ UNCHANGED <<status, background, result>>

Return(a, outcome) ==
    /\ at' = [at EXCEPT ![a] = "ended"]
    /\ result' = [result EXCEPT ![a] = outcome]
    /\ UNCHANGED background

\* Wrong on purpose, for the check of the properties: the agent stays addressable.
BeginNoCompletion(a) == UNCHANGED status

\* From here on the agent takes no more messages.
BeginCompletion(a) ==
    status' = IF status[a] = "running" THEN [status EXCEPT ![a] = "completing"] ELSE status

\* The head of the query loop: read the mail, unless the turns are used up.
Turn(a) ==
    /\ at[a] = "head" /\ ~Aborted(a)
    /\ Drain(a)
    /\ \/ Goto(a, "model")
       \/ BeginCompletion(a) /\ Return(a, "failed")
    /\ UNCHANGED <<slotVars, appVars, runtime>>

\* The model asks for no tool.  Late mail costs another turn.
Answer(a) ==
    /\ at[a] = "model" /\ ~Aborted(a)
    /\ Drain(a)
    /\ IF queue[a] = <<>> THEN BeginCompletion(a) /\ Return(a, "completed")
                          ELSE Goto(a, "head")
    /\ UNCHANGED <<slotVars, appVars, runtime>>

\* The model asks for tools; SendAgentMessage may be one of them.
UseTools(a) ==
    /\ at[a] = "model"
    /\ Goto(a, "head")
    /\ \/ UNCHANGED <<mailVars, revised>>
       \/ \E x \in Agent \cup {Main} : SendMessage(a, x)
    /\ UNCHANGED <<slotVars, transcripts, main, permission, runtime>>

\* The signal, an error, or an approval a sub-agent cannot ask for ends the query.
Stop(a) ==
    /\ at[a] \in {"head", "model"}
    /\ Return(a, IF Aborted(a) THEN "cancelled" ELSE "failed")
    /\ UNCHANGED <<status, slotVars, mailVars, transcripts, appVars, runtime>>

\* The rest of runRecord: a cancellation overtakes the result.
Finish(a) ==
    /\ at[a] = "ended"
    /\ FinishRecord(a, IF Aborted(a) THEN "cancelled" ELSE result[a])
    /\ Release(a)

-----------------------------------------------------------------------------
(* The main agent and the App.                                             *)

AwaitedByMain == {a \in Active : ~background[a]}

\* The head of the main agent's loop, once its batch of calls has ended.
MainTurn ==
    /\ main = "running" /\ AwaitedByMain = {} /\ ~Closing
    /\ Drain(Main)
    /\ UNCHANGED <<agentVars, slotVars, appVars, runtime>>

\* Its answer ends the run if no mail is left.
MainAnswer ==
    /\ main = "running" /\ AwaitedByMain = {} /\ ~Closing
    /\ Drain(Main)
    /\ IF queue[Main] = <<>> THEN main' = "idle" /\ revised' = TRUE
                             ELSE UNCHANGED <<main, revised>>
    /\ UNCHANGED <<agentVars, slotVars, permission, runtime>>

\* The run throws, or ends before its user: an approval, or no turns left.
MainStops ==
    /\ main = "running" /\ (AwaitedByMain = {} \/ Closing)
    /\ main' \in {"idle", "blocked"}
    /\ revised' = (revised \/ ~Closing)
    /\ UNCHANGED <<agentVars, slotVars, mailVars, transcripts, permission, runtime>>

Spawn(a) ==
    /\ main = "running" /\ runtime = "open" /\ ~permission
    /\ status[a] = "none"
    /\ status' = [status EXCEPT ![a] = "created"]
    /\ \E b \in BOOLEAN : background' = [background EXCEPT ![a] = b]
    /\ Acquire(a)
    /\ UNCHANGED <<result, mailVars, transcripts, appVars, runtime>>

Send(a) ==
    /\ main = "running"
    /\ SendMessage(Main, a)
    /\ UNCHANGED <<agentVars, slotVars, transcripts, main, permission, runtime>>

Cancel(a) ==
    /\ main = "running" /\ a \in Cancellable
    /\ RequestCancellation({a})
    /\ UNCHANGED <<mailVars, transcripts, appVars, runtime>>

\* A prompt of the user, or the answer a blocked run waits for.
UserTurn ==
    /\ main # "running" /\ ~permission /\ ~Closing
    /\ main' = "running" /\ revised' = TRUE
    /\ UNCHANGED <<agentVars, slotVars, mailVars, transcripts, permission, runtime>>

\* The effect that starts a run in the background when mail has come.
Wake ==
    /\ revised
    /\ revised' = (main = "idle" /\ ~permission /\ queue[Main] # <<>> /\ ~Closing)
    /\ main' = IF revised' THEN "running" ELSE main
    /\ UNCHANGED <<agentVars, slotVars, mailVars, transcripts, permission, runtime>>

\* quiesceForPermissionChange, started by the user of an idle App.
Quiesce ==
    /\ main # "running" /\ ~permission /\ ~Closing /\ Spawned # {}
    /\ permission' = TRUE /\ revised' = TRUE
    /\ RequestCancellation(Cancellable)
    /\ UNCHANGED <<mailVars, transcripts, main, runtime>>

\* No agent is spawned meanwhile, so the awaited ones are the active ones.
Quiesced ==
    /\ permission /\ Active = {}
    /\ permission' = FALSE /\ revised' = (revised \/ ~Closing)
    /\ UNCHANGED <<agentVars, slotVars, mailVars, transcripts, main, runtime>>

Shutdown ==
    /\ runtime = "open"
    /\ runtime' = "closed"
    /\ UNCHANGED <<agentVars, slotVars, mailVars, transcripts, appVars>>

ShutdownCancels ==
    /\ runtime = "closed"
    /\ runtime' = "stopping"
    /\ RequestCancellation(Cancellable)
    /\ UNCHANGED <<mailVars, transcripts, appVars>>

ShutdownEnds ==
    /\ runtime = "stopping" /\ Active = {}
    /\ runtime' = "stopped"
    /\ UNCHANGED <<agentVars, slotVars, mailVars, transcripts, appVars>>

AgentStep(a) ==
    Start(a) \/ Refuse(a) \/ Turn(a) \/ Answer(a) \/ UseTools(a) \/ Stop(a) \/ Finish(a)

MainStep == MainTurn \/ MainAnswer \/ MainStops \/ \E a \in Agent : Spawn(a) \/ Send(a) \/ Cancel(a)

Next ==
    \/ \E a \in Agent : AgentStep(a)
    \/ MainStep
    \/ UserTurn \/ Wake \/ Quiesce \/ Quiesced
    \/ Shutdown \/ ShutdownCancels \/ ShutdownEnds

Spec == Init /\ [][Next]_vars

-----------------------------------------------------------------------------
(* Properties.                                                             *)

\* A message an agent accepted is in its transcript, once and in order, or
\* still in its mailbox, unless the agent failed or was cancelled; an agent
\* that completed has read all of them.  A message that comes between the
\* last look into the mailbox and the end of the run is refused (query.ts:335,
\* manager.ts:260, mailbox.ts:61).
NoMessageLost ==
    \A x \in Agent \cup {Main} :
        x = Main \/ status[x] \notin {"failed", "cancelled"} =>
            /\ accepted[x] = read[x] \o queue[x]
            /\ x # Main /\ status[x] = "completed" => queue[x] = <<>>

\* What the main agent has been sent and has read or will read.
MailOfMain == read[Main] \o queue[Main]

NoticesOf(a) ==
    {i \in DOMAIN MailOfMain : MailOfMain[i].from = a /\ MailOfMain[i].says # "message"}

\* The parent of a background agent is told of its end exactly once, with the
\* status the record ended in, and gets what any agent has done exactly once,
\* however a cancellation, a permission change or the end of the session meets
\* its last steps (manager.ts:691, 730, 760).
EndIsReportedOnce ==
    /\ \A a \in Agent :
          /\ IF a \in Ended /\ background[a]
             THEN \E i \in DOMAIN MailOfMain :
                     NoticesOf(a) = {i} /\ MailOfMain[i].says = status[a]
             ELSE NoticesOf(a) = {}
          /\ a \in pending \cup merged <=> a \in Ended /\ result[a] # "none"
    /\ pending \cap merged = {}

\* The slots in use are those of the agents between the grant of a slot and
\* its release, never more than there are; no slot is free while an agent
\* waits for one; and an agent that was cancelled does not wait (manager.ts:854).
SlotsInUse ==
    /\ active = Cardinality({a \in Agent : at[a] \in {"granted", "head", "model", "ended"}})
    /\ active <= Slots
    /\ Waiting # {} => active = Slots
    /\ \A a \in Agent : a \in Waiting <=> at[a] = "waiting" /\ status[a] = "created"

\* Mail that reaches an idle main agent starts a run: there is no state in
\* which it has mail, is free to run, and nothing will look again (App.tsx:803).
IdleMainHasReadItsMail ==
    main = "idle" /\ ~permission /\ ~Closing /\ ~revised => queue[Main] = <<>>
=============================================================================
