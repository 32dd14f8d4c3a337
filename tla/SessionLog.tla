----------------------------- MODULE SessionLog -----------------------------
(***************************************************************************)
(* One session and its log file (src/src/sessionStore.ts), written by the  *)
(* App's run of the query loop and by the memory extraction it leaves in   *)
(* the background, read by /resume and by a new process                    *)
(* (src/src/ui/App.tsx, src/src/query.ts).                                 *)
(*                                                                         *)
(* The file is its complete lines and what follows the last newline.  An   *)
(* operation on it waits for the operations before it and is then a list   *)
(* of steps, each of which may fail, and at each of which the process may  *)
(* die.  What pauses and approves tool calls is in ToolApproval.           *)
(***************************************************************************)
EXTENDS Transcript

CONSTANTS NoState,      \* the App has no session yet, or no run
          MaxMessages,  \* bounds: messages of users, agents and the model,
          MaxErrors,    \* failed writes
          MaxCrashes    \* and processes that die

\* What the query loop tells the App, and a run as the App and the loop hold it.
EventKinds == {"ensure", "message", "state", "compaction", "extract"}
Events == [kind : EventKinds, messages : Conversations]
Runs ==
    [todo : Seq(Events), at : {"loop", "inbox", "model", "end"},
     query : Conversations, latest : Conversations]

ASSUME NoStateAssumption == NoState \notin Conversations \cup Runs

VARIABLES
    lines,      \* the complete records of the file
    tail,       \* what follows the last newline
    exists,     \* the file is there
    queue,      \* the writers behind the tail of writeTails, oldest first
    job,        \* what each writer has asked for and how far it is
    screen,     \* the messages of the App's agentState
    run,        \* the run in flight
    resume,     \* a /resume in progress and what it has read
    extraction, \* the memory extraction in the background
    phase,      \* the App: "open", "closing" or "closed"
    promised,   \* history: how many lines have been acknowledged
    diverged,   \* history: the App and the file have been separated
    used        \* counters of the bounds

fileVars == <<lines, tail, exists>>
writeVars == <<queue, job>>
appVars == <<screen, run, resume, extraction, phase>>
history == <<promised, diverged, used>>
vars == <<fileVars, writeVars, appVars, history>>

-----------------------------------------------------------------------------
(* Records and what a reader makes of them.                                *)

Record(type, content) == [type |-> type, content |-> content]

Meta == Record("session_meta", <<>>)
Snapshot == Record("state_snapshot", <<>>)
Extraction == Record("memory_extraction", <<>>)
Compaction(messages) == Record("context_compaction", messages)
Garbled == Record("garbled", <<>>)
Reindex == Record("session_index", <<>>)   \* a step of an operation, never in the file

MessageEventType(m) ==
    CASE m.role = "user" -> "user_message"
      [] m.role = "agent" -> "agent_message"
      [] m.role = "tool" -> "tool_result"
      [] OTHER -> "assistant_message"

MessageTypes == {"user_message", "agent_message", "assistant_message", "tool_result"}

\* A message, followed by a record of each call it asks for.
MessageEvents(m) ==
    <<Record(MessageEventType(m), <<m>>)>>
        \o (IF m.role = "assistant"
            THEN [i \in DOMAIN m.calls |-> Record("tool_call", <<Message("call", 0, <<m.calls[i]>>, FALSE)>>)] ELSE <<>>)

AllowedRoles(type) ==
    CASE type = "user_message" -> {"user"}
      [] type = "agent_message" -> {"agent"}
      [] type = "assistant_message" -> {"assistant", "system"}
      [] OTHER -> {"tool"}

Decodes(r) ==
    /\ r # Garbled
    /\ r.type \in MessageTypes =>
          /\ r.content[1].role \in AllowedRoles(r.type)
          /\ IsInjective(r.content[1].calls)

Apply(messages, r) ==
    CASE r.type \in MessageTypes -> Append(messages, r.content[1])
      [] r.type = "context_compaction" -> r.content
      [] OTHER -> messages

NoTail == [part |-> "none", record |-> Garbled]
Unfinished(part, r) == [part |-> part, record |-> r]

\* A record that only lacks its newline is read like the others.
Readable == IF tail.part = "whole" THEN Append(lines, tail.record) ELSE lines

Loadable ==
    /\ exists
    /\ Readable # <<>>
    /\ \A i \in DOMAIN Readable :
          /\ Decodes(Readable[i])
          /\ (i = 1) <=> (Readable[i] = Meta)

\* The messages the records hold, and what a session restored from them starts with.
Content(records) == FoldLeft(Apply, <<>>, records)
Replay(records) == RestoredMessages(Content(records))
Loaded == Replay(Readable)

-----------------------------------------------------------------------------
(* The writers: operations on the file, one after the other.               *)

Writers == {"run", "extraction"}
Idle == [stage |-> "idle", steps |-> <<>>]

Submit(w, steps) ==
    /\ queue' = Append(queue, w)
    /\ job' = [job EXCEPT ![w] = [stage |-> "queued", steps |-> steps]]

\* Wrong on purpose, for the check of the properties: nobody waits.
HolderIsAnyone(w) == w \in ToSet(queue)

Holder(w) == queue # <<>> /\ Head(queue) = w

AtStage(w, stage) == Holder(w) /\ job[w].stage = stage
AtStep(w) == AtStage(w, "working") /\ job[w].steps # <<>>
AtRecord(w) == AtStep(w) /\ Head(job[w].steps) # Reindex

ToStage(w, stage) == job' = [job EXCEPT ![w].stage = stage]
StepDone(w) == job' = [job EXCEPT ![w] = [stage |-> "working", steps |-> Tail(@.steps)]]

\* ensureSessionStarted comes first in every operation.
Open(w) ==
    /\ AtStage(w, "queued")
    /\ job' = [job EXCEPT ![w] = [stage |-> "working",
                    steps |-> IF exists THEN @.steps ELSE <<Meta, Reindex>> \o @.steps]]
    /\ UNCHANGED <<fileVars, queue, appVars, history>>

\* What appendFile may have written so far: nothing, a part, or all but the newline.
Unwritten(r) == {NoTail} \cup {Unfinished(part, r) : part \in {"partial", "whole"}}

\* Wrong on purpose, for the check of the properties: the newline before it goes too.
TruncateLine(w) ==
    /\ AtRecord(w)
    /\ tail # NoTail
    /\ tail' = NoTail
    /\ lines' = IF lines = <<>> THEN lines ELSE Front(lines)
    /\ UNCHANGED <<exists, writeVars, appVars, history>>

\* What follows the last newline is cut off.
Truncate(w) ==
    /\ AtRecord(w)
    /\ tail # NoTail
    /\ tail' = NoTail
    /\ UNCHANGED <<lines, exists, writeVars, appVars, history>>

\* appendFile creates the file.
Write(w) ==
    /\ AtRecord(w)
    /\ tail = NoTail
    /\ ToStage(w, "writing")
    /\ exists' = TRUE
    /\ tail' \in Unwritten(Head(job[w].steps))
    /\ UNCHANGED <<lines, queue, appVars, history>>

\* Bytes that another writer has cut off leave a line that is no record.
Written(w) ==
    /\ AtStage(w, "writing")
    /\ StepDone(w)
    /\ lines' = Append(lines, IF tail \in Unwritten(Head(job[w].steps))
                              THEN Head(job[w].steps) ELSE Garbled)
    /\ tail' = NoTail
    /\ UNCHANGED <<exists, queue, appVars, history>>

\* The index is replaced atomically, and nothing here reads it: a step that may fail.
UpdateIndex(w) ==
    /\ AtStep(w)
    /\ Head(job[w].steps) = Reindex
    /\ StepDone(w)
    /\ UNCHANGED <<fileVars, queue, appVars, history>>

\* The holder of the file is done with it.
Leave(w) ==
    /\ queue' = Tail(queue)
    /\ job' = [job EXCEPT ![w] = Idle]

-----------------------------------------------------------------------------
(* The App's run of the query loop: the generator yields events, and the   *)
(* App persists each before it asks for the next.                          *)

Event(kind, messages) == [kind |-> kind, messages |-> messages]
Ensure == Event("ensure", <<>>)
NewMessage(m) == Event("message", <<m>>)
State(messages) == Event("state", messages)

MessageEventsOf(messages) == [i \in DOMAIN messages |-> NewMessage(messages[i])]

FreshId == used.messages + 1
CanSpeak == used.messages < MaxMessages
Spend(counter) == used' = [used EXCEPT ![counter] = @ + 1]

\* runState: what it is started with is persisted from an index on.  A /resume in progress
\* does not keep it from starting.
StartRun(messages, from, at) ==
    /\ run = NoState
    /\ phase = "open"
    /\ run' = [todo |-> <<Ensure>> \o MessageEventsOf(SubSeq(messages, from + 1, Len(messages))),
               at |-> at, query |-> messages, latest |-> messages]
    /\ screen' = messages
    /\ resume' = [resume EXCEPT !.current = FALSE]

\* Wrong on purpose, for the check of the properties: the index is one too large when the
\* session is not new.
UserTurnSkipping ==
    /\ CanSpeak
    /\ screen = NoState => ~exists    \* or else it is another session
    /\ Spend("messages")
    /\ LET before == IF screen = NoState THEN <<>> ELSE screen
       IN  StartRun(Append(before, UserMessage(FreshId)), Len(before) + (IF before = <<>> THEN 0 ELSE 1), "loop")
    /\ UNCHANGED <<fileVars, writeVars, extraction, phase, promised, diverged>>

UserTurn ==
    /\ CanSpeak
    /\ screen = NoState => ~exists    \* or else it is another session
    /\ Spend("messages")
    /\ LET before == IF screen = NoState THEN <<>> ELSE screen
       IN  StartRun(Append(before, UserMessage(FreshId)), Len(before), "loop")
    /\ UNCHANGED <<fileVars, writeVars, extraction, phase, promised, diverged>>

\* /plan as the first command begins a session that nothing is written of yet: what the next
\* run persists comes after it.  In a session that has begun /plan changes no message.
PlanMessage == UserMessage(0)

EnterPlanMode ==
    /\ phase = "open"
    /\ run = NoState
    /\ screen = NoState /\ ~exists
    /\ CanSpeak
    /\ Spend("messages")
    /\ screen' = <<PlanMessage>>
    /\ UNCHANGED <<fileVars, writeVars, run, resume, extraction, phase, promised, diverged>>

\* A message of an agent waits in the mailbox of an idle session.
BackgroundTurn ==
    /\ CanSpeak
    /\ screen # NoState
    /\ StartRun(screen, Len(screen), "inbox")
    /\ UNCHANGED <<fileVars, writeVars, extraction, phase, history>>

Generating(at) ==
    /\ run # NoState
    /\ run.todo = <<>>
    /\ run.at = at

Yield(events, at, messages) ==
    /\ run' = [run EXCEPT !.todo = events, !.at = at, !.query = messages]
    /\ UNCHANGED <<fileVars, writeVars, screen, resume, extraction, phase, promised, diverged>>

\* A closing App shows nothing any more.
Shown(messages) == IF phase = "open" THEN messages ELSE screen

\* The messages drained from the mailbox, none or one.
Inbound(id) == {<<>>} \cup (IF id <= MaxMessages THEN {<<AgentMessage(id)>>} ELSE {})
InboundEvents(inbound, messages) ==
    IF inbound = <<>> THEN <<>> ELSE <<State(messages)>> \o MessageEventsOf(inbound)

\* The top of the loop: the mailbox, compaction, and the state of the next turn.
NextTurn ==
    /\ Generating("loop") \/ Generating("inbox")
    /\ \E inbound \in Inbound(FreshId), compacting \in BOOLEAN :
          LET messages  == run.query \o inbound
              compacted == IF compacting THEN Compact(messages) ELSE messages
          IN  /\ run.at = "inbox" => inbound # <<>>
              /\ compacting => Compactable(messages)
              /\ used' = [used EXCEPT !.messages = @ + Len(inbound)]
              /\ Yield(InboundEvents(inbound, messages)
                            \o (IF compacting THEN <<Event("compaction", compacted)>> ELSE <<>>)
                            \o <<State(compacted)>>,
                       "model", compacted)

\* The turn limit.
MaxTurns ==
    /\ Generating("loop")
    /\ Yield(<<State(run.query)>>, "end", run.query)
    /\ UNCHANGED used

\* An answer ends the run, unless an agent has written meanwhile.
Answer ==
    /\ Generating("model")
    /\ CanSpeak
    /\ \E inbound \in Inbound(FreshId + 1) :
          LET answer   == AssistantMessage(FreshId, <<>>)
              messages == run.query \o <<answer>> \o inbound
          IN  /\ used' = [used EXCEPT !.messages = @ + 1 + Len(inbound)]
              /\ \/ /\ inbound # <<>>
                    /\ Yield(<<NewMessage(answer)>> \o InboundEvents(inbound, messages),
                             "loop", messages)
                 \/ /\ inbound = <<>>
                    /\ \E extract \in {<<>>, <<Event("extract", <<>>)>>} :
                          Yield(<<NewMessage(answer), State(messages)>> \o extract, "end", messages)

\* The model's stream breaks off: the App keeps the last state it has seen.
ModelFails ==
    /\ Generating("model")
    /\ run' = NoState
    /\ screen' = Shown(run.latest)
    /\ UNCHANGED <<fileVars, writeVars, resume, extraction, phase, history>>

\* A batch of calls: every result is a message and a state.
CallTools ==
    /\ Generating("model")
    /\ CanSpeak
    /\ Spend("messages")
    /\ LET calls   == <<<<FreshId, 1>>, <<FreshId, 2>>>>
           request == AssistantMessage(FreshId, calls)
           After(n) == run.query \o <<request>> \o [i \in 1..n |-> ToolMessage(calls[i])]
       IN  Yield(<<NewMessage(request), NewMessage(ToolMessage(calls[1])), State(After(1)),
                   NewMessage(ToolMessage(calls[2])), State(After(2))>>, "loop", After(2))

\* The App handles the next event of the generator.
StepsOf(e) ==
    CASE e.kind = "message" -> MessageEvents(e.messages[1])
      [] e.kind = "state" -> <<Snapshot, Reindex>>
      [] e.kind = "compaction" -> <<Compaction(e.messages), Reindex>>
      [] OTHER -> <<>>

Persist ==
    /\ run # NoState
    /\ run.todo # <<>>
    /\ job["run"] = Idle
    /\ LET e == Head(run.todo)
       IN  /\ e.kind # "extract"
           /\ Submit("run", StepsOf(e))
           /\ run' = IF e.kind \in {"state", "compaction"}
                     THEN [run EXCEPT !.latest = e.messages] ELSE run
    /\ UNCHANGED <<fileVars, screen, resume, extraction, phase, history>>

\* One extraction at a time, for the sake of the bound; none when the App is closing.
RequestExtraction ==
    /\ run # NoState
    /\ run.todo # <<>>
    /\ Head(run.todo).kind = "extract"
    /\ run' = [run EXCEPT !.todo = Tail(@)]
    /\ extraction' = IF phase = "open" /\ extraction = "no" THEN "running" ELSE extraction
    /\ UNCHANGED <<fileVars, writeVars, screen, resume, phase, history>>

\* A write has been acknowledged.
Done(w) ==
    /\ AtStage(w, "working")
    /\ job[w].steps = <<>>
    /\ Leave(w)
    /\ promised' = Len(lines)
    /\ IF w = "run"
       THEN LET e == Head(run.todo)
            IN  /\ run' = [run EXCEPT !.todo = Tail(@)]
                /\ screen' = IF e.kind \in {"state", "compaction"} THEN Shown(e.messages) ELSE screen
                /\ UNCHANGED extraction
       ELSE extraction' = "no" /\ UNCHANGED <<run, screen>>
    /\ UNCHANGED <<fileVars, resume, phase, diverged, used>>

\* A step fails and its operation with it; the run ends with the last state the App has
\* seen, the outcome of an extraction goes to a file of its own.
Fail(w) ==
    /\ AtStep(w) \/ AtStage(w, "writing")
    /\ used.errors < MaxErrors
    /\ Spend("errors")
    /\ Leave(w)
    /\ IF w = "run"
       THEN /\ run' = NoState
            /\ screen' = Shown(run.latest)
            /\ diverged' = TRUE
            /\ UNCHANGED extraction
       ELSE extraction' = "no" /\ UNCHANGED <<run, screen, diverged>>
    /\ UNCHANGED <<fileVars, resume, phase, promised>>

EndRun ==
    /\ Generating("end")
    /\ run' = NoState
    /\ screen' = Shown(run.query)
    /\ UNCHANGED <<fileVars, writeVars, resume, extraction, phase, history>>

\* The extraction's agent has ended, with whatever result.
Extracted ==
    /\ extraction = "running"
    /\ extraction' = "writing"
    /\ Submit("extraction", <<Extraction>>)
    /\ UNCHANGED <<fileVars, screen, run, resume, phase, history>>

-----------------------------------------------------------------------------
(* /resume, the end of the App, and of the process.                        *)

\* current: the file still says what was read of it.
NoResume == [at |-> "none", messages |-> <<>>, current |-> FALSE]

\* A record that lacks its newline has been read, and the next append will cut it off.
ReadsUnfinished ==
    tail.part = "whole" /\ tail.record.type \in MessageTypes \cup {"context_compaction", "session_meta"}

ResumeStart ==
    /\ phase = "open"
    /\ run = NoState
    /\ resume = NoResume
    /\ exists
    /\ resume' = [NoResume EXCEPT !.at = "reading"]
    /\ UNCHANGED <<fileVars, writeVars, screen, run, extraction, phase, history>>

ResumeRead ==
    /\ resume.at = "reading"
    /\ resume' = IF Loadable
                 THEN [at |-> "read", messages |-> Loaded, current |-> run = NoState /\ ~ReadsUnfinished]
                 ELSE NoResume
    /\ UNCHANGED <<fileVars, writeVars, screen, run, extraction, phase, history>>

\* Whatever the App has done since the file was read, even another run.
ResumeSet ==
    /\ resume.at = "read"
    /\ resume' = NoResume
    /\ screen' = Shown(resume.messages)
    /\ diverged' = IF run = NoState /\ phase = "open" THEN ~resume.current ELSE diverged
    /\ UNCHANGED <<fileVars, writeVars, run, extraction, phase, promised, used>>

Shutdown ==
    /\ phase = "open"
    /\ phase' = "closing"
    /\ UNCHANGED <<fileVars, writeVars, screen, run, resume, extraction, history>>

\* The signal ends the query loop where it next looks at it.
Aborted ==
    /\ phase = "closing"
    /\ run # NoState
    /\ job["run"] = Idle
    /\ run' = NoState
    /\ UNCHANGED <<fileVars, writeVars, screen, resume, extraction, phase, history>>

Tracked == run # NoState \/ resume # NoResume \/ extraction # "no"

Closed ==
    /\ phase = "closing"
    /\ ~Tracked
    /\ phase' = "closed"
    /\ UNCHANGED <<fileVars, writeVars, screen, run, resume, extraction, history>>

\* A process dies, or has ended, and another is started.
Restart ==
    /\ used.crashes < MaxCrashes
    /\ Spend("crashes")
    /\ queue' = <<>>
    /\ job' = [w \in Writers |-> Idle]
    /\ screen' = NoState
    /\ run' = NoState
    /\ resume' = NoResume
    /\ extraction' = "no"
    /\ phase' = "open"
    /\ diverged' = FALSE
    /\ UNCHANGED <<fileVars, promised>>

-----------------------------------------------------------------------------
Init ==
    /\ lines = <<>> /\ tail = NoTail /\ exists = FALSE
    /\ queue = <<>> /\ job = [w \in Writers |-> Idle]
    /\ screen = NoState /\ run = NoState
    /\ resume = NoResume /\ extraction = "no" /\ phase = "open"
    /\ promised = 0 /\ diverged = FALSE
    /\ used = [messages |-> 0, errors |-> 0, crashes |-> 0]

WriterStep(w) ==
    \/ Open(w) \/ Truncate(w) \/ Write(w) \/ Written(w) \/ UpdateIndex(w) \/ Done(w)

AppStep ==
    \/ NextTurn \/ MaxTurns \/ Answer \/ ModelFails \/ CallTools \/ Persist \/ RequestExtraction \/ EndRun
    \/ Extracted \/ ResumeRead \/ ResumeSet \/ Aborted \/ Closed

Next ==
    \/ \E w \in Writers : WriterStep(w) \/ Fail(w)
    \/ AppStep
    \/ UserTurn \/ EnterPlanMode \/ BackgroundTurn \/ ResumeStart \/ Shutdown \/ Restart

Spec == Init /\ [][Next]_vars

-----------------------------------------------------------------------------
(* Properties.                                                             *)

(* As soon as its first record is complete a session can be read, at every *)
(* moment and after every failure: there is one metadata record, at the    *)
(* front, nothing in the middle of the file is no record, and only a last  *)
(* record may be unfinished (replaySessionEvents tolerates nothing else).  *)
ReadableOnceStarted ==
    exists /\ lines # <<>> /\ lines[1] = Meta => Loadable

(* Acknowledged records stay readable in the order they were written;      *)
(* truncateIncompleteTail removes nothing but what no caller was told to   *)
(* have been written.                                                      *)
Durable == INSTANCE DurableLog WITH durable <- Readable

ImplementsDurableLog == Durable!Spec

\* All but the message of a /plan that came first.
Logged(messages) ==
    IF messages # <<>> /\ messages[1] = PlanMessage THEN Tail(messages) ELSE messages

(* Between two runs the App goes on from what a reader of the file gets,   *)
(* whatever was compacted, drained from the mailbox, extracted or resumed, *)
(* but for the message of a /plan as first command, which no file ever     *)
(* holds, until a compaction has taken it in.  Three things separate the   *)
(* two: a write that failed, a /resume that a run has overtaken, and a     *)
(* /resume that has read a last record without its newline.                *)
MemoryAgreesWithLog ==
    screen # NoState /\ run = NoState /\ phase = "open" /\ ~diverged =>
        IF exists THEN Loadable /\ Loaded = RestoredMessages(Logged(screen))
        ELSE Logged(screen) = <<>>

\* What the next request to the model is made from.
Context ==
    CASE run # NoState -> run.query
      [] run = NoState /\ screen # NoState /\ phase = "open" -> screen
      [] OTHER -> <<>>

(* The model never gets a tool result without its call, neither in this    *)
(* process nor after a restart (compaction cuts between turns).            *)
NoOrphanResult ==
    /\ OrphanResults(Context) = {}
    /\ Loadable => OrphanResults(Loaded) = {}

(* Once a message of an agent is in the file, the context is marked as     *)
(* holding untrusted content, through compaction and through a restart, as *)
(* long as nothing has separated the App from the file.                    *)
UntrustedStaysMarked ==
    (\E i \in 1..promised : lines[i].type = "agent_message") /\ Context # <<>> /\ ~diverged
        => Marked(Context)

=============================================================================
