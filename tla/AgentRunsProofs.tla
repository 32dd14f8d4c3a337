-------------------------- MODULE AgentRunsProofs ---------------------------
(***************************************************************************)
(* Proofs about AgentRuns, for any number of agents, slots and messages.   *)
(***************************************************************************)
EXTENDS AgentRuns, FiniteSetTheorems, TLAPS

Statuses == {"none", "created", "running", "completing", "cancelling"} \cup Terminal
Places == {"none", "waiting", "granted", "refused", "head", "model", "ended", "done"}
Message == [from : Agent \cup {Main}, says : {"message"} \cup Terminal]
Boxes == [Agent \cup {Main} -> Seq(Message)]

\* The agents that hold a slot.
Holding == {a \in Agent : at[a] \in {"granted", "head", "model", "ended"}}

-----------------------------------------------------------------------------
(* Records and slots.                                                      *)

RecordsOK ==
    /\ status \in [Agent -> Statuses] /\ background \in [Agent -> BOOLEAN]
    /\ at \in [Agent -> Places] /\ result \in [Agent -> {"none"} \cup Terminal]
    /\ active \in Nat /\ Waiting \subseteq Agent

\* How far runRecord() has got and what the record says.
PlaceFitsStatus ==
    \A a \in Agent :
        /\ at[a] = "none" <=> status[a] = "none"
        /\ at[a] = "done" <=> status[a] \in Terminal
        /\ at[a] = "waiting" <=> a \in Waiting
        /\ at[a] = "waiting" => status[a] = "created"
        /\ at[a] = "granted" => status[a] \in {"created", "cancelling"}
        /\ at[a] = "refused" => status[a] = "cancelling"
        /\ at[a] \in {"head", "model"} => status[a] \in {"running", "cancelling"}
        /\ at[a] = "ended" => status[a] \in {"running", "completing", "cancelling"}
        /\ result[a] # "none" => at[a] \in {"ended", "done"}
        /\ at[a] = "ended" => result[a] # "none"

SlotsCounted ==
    /\ IsFiniteSet(Holding) /\ active = Cardinality(Holding) /\ active <= Slots
    /\ Waiting # {} => active = Slots

RecordsInv == RecordsOK /\ PlaceFitsStatus /\ SlotsCounted

-----------------------------------------------------------------------------
(* Mail and reports.                                                       *)

MailOK ==
    /\ queue \in Boxes /\ read \in Boxes /\ accepted \in Boxes
    /\ pending \subseteq Agent /\ merged \subseteq Agent

\* What an agent is sent, it reads, as long as it can complete.
MailKept ==
    \A x \in Agent \cup {Main} :
        x = Main \/ status[x] \notin {"failed", "cancelled"} => accepted[x] = read[x] \o queue[x]

\* An agent with a good result has read everything and is sent no more.
ReadAll ==
    \A a \in Agent :
        /\ result[a] = "completed" /\ status[a] # "cancelling" =>
              status[a] \notin {"created", "running"} /\ queue[a] = <<>>
        /\ status[a] = "completed" => result[a] = "completed"

\* The parent has been told of exactly the agents that ended in the background.
NotifiedOnce == notified = {a \in Ended : background[a]}

MailInv == MailOK /\ MailKept /\ ReadAll /\ NotifiedOnce /\ EndIsReportedOnce

RunsInv == RecordsInv /\ MailInv /\ IdleMainHasReadItsMail

-----------------------------------------------------------------------------
(* The records and the slots keep to their places.                         *)

\* What an agent is that may be cancelled.
LEMMA CancellableHasRecord ==
  ASSUME RecordsInv, NEW a \in Cancellable
  PROVE  a \in Agent /\ status[a] \in {"created", "running", "completing"}
         /\ at[a] \in {"waiting", "granted", "head", "model", "ended"}
BY DEF RecordsInv, RecordsOK, PlaceFitsStatus, Cancellable, Spawned, Ended, Aborted, Statuses, Places

\* The holders after one agent has moved.
LEMMA HolderAdded ==
  ASSUME IsFiniteSet(Holding), NEW a, a \notin Holding, Holding' = Holding \cup {a}
  PROVE  IsFiniteSet(Holding') /\ Cardinality(Holding') = Cardinality(Holding) + 1
BY FS_AddElement

LEMMA HolderRemoved ==
  ASSUME IsFiniteSet(Holding), NEW a \in Holding, Holding' = Holding \ {a}
  PROVE  IsFiniteSet(Holding') /\ Cardinality(Holding') = Cardinality(Holding) - 1
BY FS_RemoveElement

LEMMA HolderReplaced ==
  ASSUME IsFiniteSet(Holding), NEW a \in Holding, NEW b, b \notin Holding,
         Holding' = (Holding \ {a}) \cup {b}
  PROVE  IsFiniteSet(Holding') /\ Cardinality(Holding') = Cardinality(Holding)
<1>1. /\ IsFiniteSet(Holding \ {a}) /\ Cardinality(Holding \ {a}) = Cardinality(Holding) - 1
      /\ Cardinality(Holding) \in Nat
  BY FS_RemoveElement, FS_CardinalityType
<1>2. /\ IsFiniteSet((Holding \ {a}) \cup {b})
      /\ Cardinality((Holding \ {a}) \cup {b}) = Cardinality(Holding \ {a}) + 1
  BY <1>1, FS_AddElement
<1> QED
  BY <1>1, <1>2

\* A spawned agent takes a slot, or a place behind those that wait.
LEMMA SpawnKeeps ==
  ASSUME RecordsInv, NEW a \in Agent, Spawn(a)
  PROVE  RecordsInv'
<1> USE DEF RecordsInv
<1>1. /\ status[a] = "none" /\ status' = [status EXCEPT ![a] = "created"]
      /\ result' = result /\ at[a] = "none" /\ result[a] = "none" /\ a \notin Waiting
      /\ \E b \in BOOLEAN : background' = [background EXCEPT ![a] = b]
  BY DEF Spawn, PlaceFitsStatus, RecordsOK, Places
<1>2. CASE active < Slots
  <2>1. active' = active + 1 /\ at' = [at EXCEPT ![a] = "granted"] /\ waiters' = waiters
    BY <1>2 DEF Spawn, Acquire
  <2>2. RecordsOK' /\ PlaceFitsStatus'
    BY <1>1, <2>1 DEF RecordsOK, PlaceFitsStatus, Waiting, Statuses, Places, Terminal
  <2>3. a \notin Holding /\ Holding' = Holding \cup {a}
    BY <1>1, <2>1 DEF Holding, RecordsOK
  <2>4. SlotsCounted'
    BY <1>2, <2>1, <2>3, HolderAdded, SlotsAssumption DEF SlotsCounted, RecordsOK, Waiting
  <2> QED
    BY <2>2, <2>4
<1>3. CASE ~(active < Slots)
  <2>1. /\ active' = active /\ at' = [at EXCEPT ![a] = "waiting"]
        /\ Waiting' = Waiting \cup {a}
    BY <1>3 DEF Spawn, Acquire, Waiting
  <2>2. RecordsOK' /\ PlaceFitsStatus'
    BY <1>1, <2>1 DEF RecordsOK, PlaceFitsStatus, Statuses, Places, Terminal
  <2>3. Holding' = Holding
    BY <1>1, <2>1 DEF Holding, RecordsOK
  <2>4. SlotsCounted'
    BY <1>3, <2>1, <2>3, SlotsAssumption DEF SlotsCounted, RecordsOK
  <2> QED
    BY <2>2, <2>4
<1> QED
  BY <1>2, <1>3

\* An agent gives its slot to the one that waits longest, or back.
LEMMA ReleaseKeeps ==
  ASSUME RecordsInv, NEW a \in Holding, Release(a), NEW final \in Terminal,
         status' = [status EXCEPT ![a] = final], UNCHANGED <<background, result>>
  PROVE  RecordsInv'
<1> USE DEF RecordsInv
<1>0. a \in Agent /\ at[a] \in {"granted", "head", "model", "ended"} /\ a \notin Waiting
  BY DEF Holding, PlaceFitsStatus
<1>1. CASE Waiting = {} /\ active' = active - 1 /\ at' = [at EXCEPT ![a] = "done"] /\ waiters' = waiters
  <2>1. Holding' = Holding \ {a}
    BY <1>0, <1>1 DEF Holding, RecordsOK
  <2>2. /\ IsFiniteSet(Holding') /\ Cardinality(Holding') = Cardinality(Holding) - 1
        /\ Cardinality(Holding') \in Nat
    BY <2>1, HolderRemoved, FS_CardinalityType DEF SlotsCounted
  <2>3. SlotsCounted'
    BY <1>1, <2>2, SlotsAssumption DEF SlotsCounted, RecordsOK, Waiting
  <2>4. active' \in Nat
    BY <1>1, <2>2 DEF SlotsCounted
  <2>5. RecordsOK' /\ PlaceFitsStatus'
    BY <1>0, <1>1, <2>4 DEF RecordsOK, PlaceFitsStatus, Waiting, Statuses, Places, Terminal
  <2> QED
    BY <2>3, <2>5
<1>2. ASSUME NEW first \in Waiting, at' = [at EXCEPT ![a] = "done", ![first] = "granted"],
             waiters' = WithoutWaiters({first}), active' = active
      PROVE  RecordsInv'
  <2>1. /\ first \in Agent /\ first # a /\ at[first] = "waiting" /\ status[first] = "created"
        /\ Waiting' = Waiting \ {first}
    BY <1>0, <1>2 DEF RecordsOK, PlaceFitsStatus, Waiting, WithoutWaiters
  <2>2. RecordsOK' /\ PlaceFitsStatus'
    BY <1>0, <1>2, <2>1 DEF RecordsOK, PlaceFitsStatus, Statuses, Places, Terminal
  <2>3. first \notin Holding /\ Holding' = (Holding \ {a}) \cup {first}
    BY <1>0, <1>2, <2>1 DEF Holding, RecordsOK
  <2>4. SlotsCounted'
    BY <1>2, <2>1, <2>3, HolderReplaced DEF SlotsCounted
  <2> QED
    BY <2>2, <2>4
<1> QED
  BY <1>1, <1>2 DEF Release

\* A cancelled agent that waits leaves the list, the others keep their slots.
LEMMA CancellationKeeps ==
  ASSUME RecordsInv, NEW agents \in SUBSET Cancellable, RequestCancellation(agents)
  PROVE  RecordsInv'
<1> USE DEF RecordsInv
<1>1. /\ status' = [a \in Agent |-> IF a \in agents THEN "cancelling" ELSE status[a]]
      /\ at' = [a \in Agent |-> IF a \in agents /\ at[a] = "waiting" THEN "refused" ELSE at[a]]
      /\ Waiting' = Waiting \ agents
      /\ UNCHANGED <<background, result, active>>
  BY DEF RequestCancellation, Waiting, WithoutWaiters
<1>2. \A a \in agents : /\ a \in Agent /\ status[a] \in {"created", "running", "completing"}
                        /\ at[a] \in {"waiting", "granted", "head", "model", "ended"}
  BY CancellableHasRecord
<1>3. RecordsOK'
  BY <1>1 DEF RecordsOK, Statuses, Places
<1>4. PlaceFitsStatus'
  BY <1>1, <1>2 DEF RecordsOK, PlaceFitsStatus, Statuses, Places, Terminal
<1>5. Holding' = Holding
  BY <1>1 DEF Holding, RecordsOK
<1>6. SlotsCounted'
  BY <1>1, <1>5 DEF SlotsCounted
<1> QED
  BY <1>3, <1>4, <1>6

\* The steps of an agent between the moment it is granted a slot and its end.
LEMMA ProgressKeeps ==
  ASSUME RecordsInv, NEW a \in Agent, at[a] \in {"granted", "head", "model"},
         UNCHANGED <<background, active, waiters>>,
         \/ /\ ~Aborted(a) /\ at[a] = "granted" /\ result' = result
            /\ status' = [status EXCEPT ![a] = "running"] /\ at' = [at EXCEPT ![a] = "head"]
         \/ /\ at[a] \in {"head", "model"} /\ UNCHANGED <<status, result>>
            /\ \E place \in {"head", "model"} : at' = [at EXCEPT ![a] = place]
         \/ /\ at[a] \in {"head", "model"} /\ (status' = status \/ BeginCompletion(a))
            /\ at' = [at EXCEPT ![a] = "ended"]
            /\ \E outcome \in Terminal : result' = [result EXCEPT ![a] = outcome]
  PROVE  RecordsInv'
<1> USE DEF RecordsInv
<1>1. Holding' = Holding
  BY DEF Holding, RecordsOK
<1>2. SlotsCounted'
  BY <1>1 DEF SlotsCounted, Waiting
<1>3. RecordsOK'
  BY DEF RecordsOK, BeginCompletion, Waiting, Statuses, Places
<1>4. \A b \in Agent : b # a => /\ at'[b] = at[b] /\ status'[b] = status[b]
                                /\ result'[b] = result[b]
  BY DEF RecordsOK, BeginCompletion
<1>5. /\ at'[a] \in {"head", "model", "ended"} /\ status'[a] \notin Terminal
      /\ at'[a] \in {"head", "model"} => status'[a] \in {"running", "cancelling"} /\ result'[a] = "none"
      /\ at'[a] = "ended" => /\ status'[a] \in {"running", "completing", "cancelling"}
                             /\ result'[a] # "none"
  <2>1. /\ status[a] \in {"created", "running", "cancelling"} /\ result[a] = "none"
        /\ at[a] \in {"head", "model"} => status[a] \in {"running", "cancelling"}
    BY DEF RecordsOK, PlaceFitsStatus
  <2> QED
    BY <2>1 DEF RecordsOK, BeginCompletion, Terminal
<1>6. PlaceFitsStatus'
  BY <1>4, <1>5 DEF PlaceFitsStatus, Waiting, Terminal
<1> QED
  BY <1>2, <1>3, <1>6

-----------------------------------------------------------------------------
(* What each step does, to the records and to the mail.                    *)

\* Nobody ends, and a result is good only if everything has been read.
RecordsKept ==
    \A a \in Agent :
        /\ status[a] \in Terminal <=> status'[a] \in Terminal
        /\ status[a] \in Terminal => status'[a] = status[a] /\ result'[a] = result[a]
        /\ status[a] # "none" => background'[a] = background[a]
        /\ result'[a] = "completed" /\ status'[a] # "cancelling" =>
              \/ result[a] = "completed" /\ status'[a] = status[a]
              \/ status'[a] = "completing" /\ queue'[a] = <<>>

MailMoves ==
    \/ UNCHANGED <<mailVars, transcripts>>
    \/ \E x \in Agent \cup {Main} : Drain(x)
    \/ \E from \in Agent \cup {Main}, x \in Agent \cup {Main} :
          SendMessage(from, x) /\ UNCHANGED transcripts

\* An agent ends, well only with a good result.
Ends(a) ==
    /\ status[a] \notin Terminal /\ status[a] # "none"
    /\ \E final \in Terminal :
          /\ FinishRecord(a, final)
          /\ final = "completed" => result[a] = "completed" /\ status[a] # "cancelling"

LEMMA SameRecords ==
  ASSUME UNCHANGED <<status, result, background>>
  PROVE  RecordsKept
BY DEF RecordsKept

LEMMA AgentMoves ==
  ASSUME RecordsInv, MailOK, NEW a \in Agent,
         (Start(a) /\ ~Aborted(a)) \/ Turn(a) \/ Answer(a) \/ UseTools(a) \/ Stop(a)
  PROVE  RecordsInv' /\ RecordsKept /\ MailMoves
<1>1. CASE Start(a) /\ ~Aborted(a)
  <2>1. /\ at[a] = "granted" /\ UNCHANGED <<background, active, waiters, result>>
        /\ status' = [status EXCEPT ![a] = "running"] /\ at' = [at EXCEPT ![a] = "head"]
        /\ UNCHANGED <<mailVars, transcripts>>
    BY <1>1 DEF Start, slotVars
  <2>2. status[a] = "created" /\ result[a] = "none"
    BY <1>1, <2>1 DEF RecordsInv, RecordsOK, PlaceFitsStatus, Aborted
  <2>3. RecordsKept
    BY <2>1, <2>2 DEF RecordsKept, RecordsInv, RecordsOK, Terminal
  <2> QED
    BY <1>1, <2>1, <2>3, ProgressKeeps DEF MailMoves
<1>2. CASE UseTools(a)
  <2>1. /\ at[a] = "model" /\ at' = [at EXCEPT ![a] = "head"]
        /\ UNCHANGED <<status, background, result, active, waiters>>
    BY <1>2 DEF UseTools, Goto, slotVars
  <2>2. MailMoves
    BY <1>2 DEF UseTools, MailMoves
  <2> QED
    BY <2>1, <2>2, ProgressKeeps, SameRecords
<1>3. CASE Stop(a)
  <2>1. /\ at[a] \in {"head", "model"} /\ at' = [at EXCEPT ![a] = "ended"]
        /\ UNCHANGED <<status, background, active, waiters, mailVars, transcripts>>
    BY <1>3 DEF Stop, Return, slotVars
  <2>2. PICK outcome \in {"cancelled", "failed"} : result' = [result EXCEPT ![a] = outcome]
    BY <1>3 DEF Stop, Return
  <2>3. status[a] \notin Terminal
    BY <2>1 DEF RecordsInv, RecordsOK, PlaceFitsStatus
  <2>4. RecordsKept
    BY <2>1, <2>2, <2>3 DEF RecordsKept, RecordsInv, RecordsOK
  <2>5. outcome \in Terminal
    BY DEF Terminal
  <2> QED
    BY <2>1, <2>2, <2>4, <2>5, ProgressKeeps DEF MailMoves
<1>4. CASE Turn(a) \/ Answer(a)
  <2>1. /\ at[a] \in {"head", "model"} /\ Drain(a) /\ UNCHANGED <<background, active, waiters>>
        /\ ~Aborted(a)
    BY <1>4 DEF Turn, Answer, slotVars, Goto, Return
  <2>2. queue'[a] = <<>> /\ MailMoves
    BY <2>1 DEF Drain, MailOK, Boxes, MailMoves
  <2>3. \/ /\ UNCHANGED <<status, result>>
           /\ \E place \in {"head", "model"} : at' = [at EXCEPT ![a] = place]
        \/ /\ BeginCompletion(a) /\ at' = [at EXCEPT ![a] = "ended"]
           /\ \E outcome \in Terminal : result' = [result EXCEPT ![a] = outcome]
    BY <1>4 DEF Turn, Answer, Goto, Return, Terminal
  <2>4. RecordsInv'
    BY <2>1, <2>3, ProgressKeeps
  <2>5. status[a] = "running"
    BY <2>1 DEF RecordsInv, PlaceFitsStatus, Aborted
  <2>6. CASE UNCHANGED <<status, result>>
    BY <2>1, <2>2, <2>4, <2>6, SameRecords
  <2>7. CASE BeginCompletion(a) /\ \E outcome \in Terminal : result' = [result EXCEPT ![a] = outcome]
    <3>1. status' = [status EXCEPT ![a] = "completing"]
      BY <2>5, <2>7 DEF BeginCompletion
    <3>2. RecordsKept
      BY <2>1, <2>2, <2>5, <2>7, <3>1 DEF RecordsKept, RecordsInv, RecordsOK, Terminal
    <3> QED
      BY <2>2, <2>4, <3>2
  <2> QED
    BY <2>3, <2>6, <2>7
<1> QED
  BY <1>1, <1>2, <1>3, <1>4

LEMMA AgentEnds ==
  ASSUME RecordsInv, NEW a \in Agent, (Start(a) /\ Aborted(a)) \/ Refuse(a) \/ Finish(a)
  PROVE  RecordsInv' /\ Ends(a)
<1>1. CASE (Start(a) /\ Aborted(a)) \/ Finish(a)
  <2> DEFINE final == IF Aborted(a) THEN "cancelled" ELSE result[a]
  <2>1. at[a] \in {"granted", "ended"} /\ FinishRecord(a, final) /\ Release(a)
    BY <1>1 DEF Start, Finish
  <2>2. /\ final \in Terminal /\ status[a] \notin Terminal /\ status[a] # "none"
        /\ final = "completed" => result[a] = "completed" /\ status[a] # "cancelling"
    BY <1>1, <2>1 DEF Start, Finish, RecordsInv, RecordsOK, PlaceFitsStatus, Aborted, Terminal
  <2> HIDE DEF final
  <2>3. status' = [status EXCEPT ![a] = final] /\ UNCHANGED <<background, result>>
    BY <2>1 DEF FinishRecord
  <2>4. a \in Holding
    BY <2>1 DEF Holding
  <2> QED
    BY <2>1, <2>2, <2>3, <2>4, ReleaseKeeps DEF Ends
<1>2. CASE Refuse(a)
  <2>1. /\ at[a] = "refused" /\ FinishRecord(a, "cancelled") /\ at' = [at EXCEPT ![a] = "done"]
        /\ UNCHANGED <<active, waiters>>
    BY <1>2 DEF Refuse, slotVars
  <2>2. status' = [status EXCEPT ![a] = "cancelled"] /\ UNCHANGED <<background, result>>
    BY <2>1 DEF FinishRecord
  <2>3. status[a] = "cancelling" /\ result[a] = "none"
    BY <2>1 DEF RecordsInv, RecordsOK, PlaceFitsStatus
  <2>4. Holding' = Holding
    BY <2>1 DEF Holding, RecordsInv, RecordsOK
  <2>5. RecordsOK' /\ PlaceFitsStatus'
    BY <2>1, <2>2, <2>3
    DEF RecordsInv, RecordsOK, PlaceFitsStatus, Waiting, Statuses, Places, Terminal
  <2>6. RecordsInv'
    BY <2>1, <2>4, <2>5 DEF RecordsInv, SlotsCounted, Waiting
  <2>7. Ends(a)
    BY <2>1, <2>3 DEF Ends, Terminal
  <2> QED
    BY <2>6, <2>7
<1> QED
  BY <1>1, <1>2

LEMMA OthersMove ==
  ASSUME RecordsInv, MailOK,
         \/ MainStep \/ UserTurn \/ Wake \/ Quiesce \/ Quiesced
         \/ Shutdown \/ ShutdownCancels \/ ShutdownEnds \/ UNCHANGED vars
  PROVE  RecordsInv' /\ RecordsKept /\ MailMoves
<1>1. CASE UNCHANGED <<agentVars, slotVars>> /\ MailMoves
  <2>1. RecordsInv'
    BY <1>1 DEF RecordsInv, RecordsOK, PlaceFitsStatus, SlotsCounted, Waiting, Holding,
       agentVars, slotVars
  <2> QED
    BY <1>1, <2>1, SameRecords DEF agentVars
<1>2. CASE \/ MainTurn \/ MainAnswer \/ MainStops \/ UserTurn \/ Wake \/ Quiesced
           \/ Shutdown \/ ShutdownEnds \/ UNCHANGED vars \/ \E a \in Agent : Send(a)
  <2>1. UNCHANGED <<agentVars, slotVars>>
    BY <1>2 DEF MainTurn, MainAnswer, MainStops, UserTurn, Wake, Quiesced, Shutdown, ShutdownEnds,
       vars, Send
  <2>2. MailMoves
    BY <1>2 DEF MainTurn, MainAnswer, MainStops, UserTurn, Wake, Quiesced, Shutdown, ShutdownEnds,
       vars, Send, MailMoves
  <2> QED
    BY <1>1, <2>1, <2>2
<1>3. ASSUME NEW agents \in SUBSET Cancellable, RequestCancellation(agents),
             UNCHANGED <<mailVars, transcripts>>
      PROVE  RecordsInv' /\ RecordsKept /\ MailMoves
  <2>1. \A a \in agents : a \in Agent /\ status[a] \notin Terminal
    BY CancellableHasRecord DEF Terminal
  <2>2. RecordsKept
    BY <1>3, <2>1 DEF RequestCancellation, RecordsKept, RecordsInv, RecordsOK, Terminal
  <2> QED
    BY <1>3, <2>2, CancellationKeeps DEF MailMoves
<1>4. CASE Quiesce \/ ShutdownCancels \/ \E a \in Agent : Cancel(a)
  <2>1. /\ UNCHANGED <<mailVars, transcripts>>
        /\ \E agents \in SUBSET Cancellable : RequestCancellation(agents)
    BY <1>4 DEF Quiesce, ShutdownCancels, Cancel
  <2> QED
    BY <1>3, <2>1
<1>5. ASSUME NEW a \in Agent, Spawn(a)
      PROVE  RecordsInv' /\ RecordsKept /\ MailMoves
  <2>1. /\ status[a] = "none" /\ status' = [status EXCEPT ![a] = "created"] /\ result' = result
        /\ result[a] = "none"
        /\ \E b \in BOOLEAN : background' = [background EXCEPT ![a] = b]
    BY <1>5 DEF Spawn, RecordsInv, PlaceFitsStatus, RecordsOK, Places
  <2>2. RecordsKept
    BY <2>1 DEF RecordsKept, RecordsInv, RecordsOK, Terminal
  <2> QED
    BY <1>5, <2>2, SpawnKeeps DEF MailMoves, Spawn
<1> QED
  BY <1>2, <1>4, <1>5 DEF MainStep

-----------------------------------------------------------------------------
(* What a step does to the mail of one receiver.                           *)

SameMail(x) == accepted'[x] = accepted[x] /\ read'[x] \o queue'[x] = read[x] \o queue[x]

OneMore(x, m) ==
    /\ accepted'[x] = Append(accepted[x], m)
    /\ read'[x] \o queue'[x] = Append(read[x] \o queue[x], m)

LEMMA AppendToTheRest ==
  ASSUME NEW S, NEW r \in Seq(S), NEW q \in Seq(S), NEW m \in S
  PROVE  Append(q, m) \in Seq(S) /\ r \o Append(q, m) = Append(r \o q, m)
OBVIOUS

LEMMA DrainEffect ==
  ASSUME MailOK, NEW x \in Agent \cup {Main}, Drain(x)
  PROVE  /\ MailOK' /\ \A y \in Agent \cup {Main} : SameMail(y)
         /\ \A y \in Agent \cup {Main} : queue[y] = <<>> => queue'[y] = <<>>
         /\ pending' \cup merged' = pending \cup merged
         /\ pending \cap merged = {} => pending' \cap merged' = {}
         /\ UNCHANGED notified
<1>1. /\ queue' = [queue EXCEPT ![x] = <<>>] /\ accepted' = accepted /\ notified' = notified
      /\ read' = [read EXCEPT ![x] = @ \o queue[x]]
  BY DEF Drain
<1>2. read[x] \in Seq(Message) /\ queue[x] \in Seq(Message)
  BY DEF MailOK, Boxes
<1>3. /\ read[x] \o queue[x] \in Seq(Message)
      /\ (read[x] \o queue[x]) \o <<>> = read[x] \o queue[x]
  BY <1>2
<1>4. queue' \in Boxes /\ read' \in Boxes /\ accepted' \in Boxes
  BY <1>1, <1>3 DEF MailOK, Boxes
<1>5. \A y \in Agent \cup {Main} : SameMail(y)
  BY <1>1, <1>3 DEF SameMail, MailOK, Boxes
<1>6. \A y \in Agent \cup {Main} : queue[y] = <<>> => queue'[y] = <<>>
  BY <1>1 DEF MailOK, Boxes
<1>7. \/ pending' = {} /\ merged' = merged \cup pending
      \/ UNCHANGED <<pending, merged>>
  BY DEF Drain
<1> QED
  BY <1>1, <1>4, <1>5, <1>6, <1>7 DEF MailOK

LEMMA DeliverEffect ==
  ASSUME MailOK, NEW boxes \in Boxes, NEW x \in Agent \cup {Main}, NEW m \in Message,
         Deliver(boxes, x, m), read' = read
  PROVE  /\ queue' \in Boxes /\ accepted' \in Boxes
         /\ boxes[x] = queue[x] => OneMore(x, m)
         /\ \A y \in Agent \cup {Main} : y # x => accepted'[y] = accepted[y] /\ queue'[y] = boxes[y]
<1>1. /\ queue' = [boxes EXCEPT ![x] = Append(@, m)]
      /\ accepted' = [accepted EXCEPT ![x] = Append(@, m)]
  BY DEF Deliver
<1>2. boxes[x] \in Seq(Message) /\ accepted[x] \in Seq(Message) /\ read[x] \in Seq(Message)
  BY DEF MailOK, Boxes
<1>3. /\ Append(boxes[x], m) \in Seq(Message) /\ Append(accepted[x], m) \in Seq(Message)
      /\ read[x] \o Append(boxes[x], m) = Append(read[x] \o boxes[x], m)
  <2>1. \A r, q \in Seq(Message) :
           Append(q, m) \in Seq(Message) /\ r \o Append(q, m) = Append(r \o q, m)
    BY AppendToTheRest
  <2> QED
    BY <1>2, <2>1
<1> QED
  BY <1>1, <1>3 DEF MailOK, Boxes, OneMore

\* What is said to the main agent, and how it is found among its mail.
LEMMA SameNotices ==
  ASSUME SameMail(Main)
  PROVE  MailOfMain' = MailOfMain /\ \A a : NoticesOf(a)' = NoticesOf(a)
BY DEF SameMail, MailOfMain, NoticesOf

LEMMA OneMoreNotice ==
  ASSUME MailOK, NEW m \in Message, OneMore(Main, m)
  PROVE  /\ \A i \in DOMAIN MailOfMain : i \in DOMAIN MailOfMain' /\ MailOfMain'[i] = MailOfMain[i]
         /\ Len(MailOfMain) + 1 \in DOMAIN MailOfMain'
         /\ MailOfMain'[Len(MailOfMain) + 1] = m
         /\ \A a : NoticesOf(a)' = IF m.says # "message" /\ a = m.from
                                   THEN NoticesOf(a) \cup {Len(MailOfMain) + 1}
                                   ELSE NoticesOf(a)
<1>1. MailOfMain \in Seq(Message)
  <2>1. read[Main] \in Seq(Message) /\ queue[Main] \in Seq(Message)
    BY DEF MailOK, Boxes
  <2> QED
    BY <2>1 DEF MailOfMain
<1>2. MailOfMain' = Append(MailOfMain, m)
  BY DEF OneMore, MailOfMain
<1>3. /\ DOMAIN MailOfMain = 1 .. Len(MailOfMain) /\ Len(MailOfMain) \in Nat
      /\ DOMAIN MailOfMain' = 1 .. (Len(MailOfMain) + 1)
      /\ MailOfMain'[Len(MailOfMain) + 1] = m
      /\ \A i \in 1 .. Len(MailOfMain) : MailOfMain'[i] = MailOfMain[i]
  BY <1>1, <1>2
<1> QED
  BY <1>3 DEF NoticesOf

-----------------------------------------------------------------------------
(* The mail and the reports.                                               *)

\* Mail moves and grows, and no end is reported.
NoReport ==
    /\ MailOK' /\ notified' = notified
    /\ pending' \cup merged' = pending \cup merged
    /\ pending \cap merged = {} => pending' \cap merged' = {}
    /\ \A x \in Agent \cup {Main} :
          accepted[x] = read[x] \o queue[x] => accepted'[x] = read'[x] \o queue'[x]
    /\ \A a \in Agent :
          queue[a] = <<>> /\ status[a] \notin {"created", "running"} => queue'[a] = <<>>
    /\ \A a : NoticesOf(a)' = NoticesOf(a)
    /\ \A i \in DOMAIN MailOfMain : i \in DOMAIN MailOfMain' /\ MailOfMain'[i] = MailOfMain[i]

LEMMA MovesReportNothing ==
  ASSUME MailOK, MailMoves
  PROVE  NoReport
<1>1. ASSUME UNCHANGED <<queue, read, accepted>>
      PROVE  \A x \in Agent \cup {Main} : SameMail(x)
  BY <1>1 DEF SameMail
<1>2. CASE UNCHANGED <<mailVars, transcripts>>
  <2>1. UNCHANGED <<queue, read, accepted, pending, merged, notified>>
    BY <1>2 DEF mailVars, transcripts
  <2>2. MailOK' /\ \A a : NoticesOf(a)' = NoticesOf(a)
    BY <2>1 DEF MailOK, NoticesOf, MailOfMain
  <2>3. MailOfMain' = MailOfMain
    BY <2>1 DEF MailOfMain
  <2> QED
    BY <2>1, <2>2, <2>3 DEF NoReport
<1>3. ASSUME NEW x \in Agent \cup {Main}, Drain(x)
      PROVE  NoReport
  <2>1. /\ MailOfMain' = MailOfMain /\ \A a : NoticesOf(a)' = NoticesOf(a)
    BY <1>3, DrainEffect, SameNotices
  <2> QED
    BY <1>3, <2>1, DrainEffect DEF NoReport, SameMail
<1>4. ASSUME NEW from \in Agent \cup {Main}, NEW x \in Agent \cup {Main}, SendMessage(from, x),
             UNCHANGED transcripts
      PROVE  NoReport
  <2> DEFINE m == Mail(from, "message")
  <2>1. /\ m \in Message /\ m.says = "message" /\ Deliver(queue, x, m) /\ queue \in Boxes
        /\ UNCHANGED <<read, merged, pending, notified>>
        /\ x # Main => status[x] \in {"created", "running"}
    BY <1>4 DEF SendMessage, CanMessage, Mail, Message, transcripts, MailOK
  <2> HIDE DEF m
  <2>2. /\ queue' \in Boxes /\ accepted' \in Boxes /\ OneMore(x, m)
        /\ \A y \in Agent \cup {Main} : y # x => accepted'[y] = accepted[y] /\ queue'[y] = queue[y]
    BY <2>1, DeliverEffect
  <2>3. /\ \A a : NoticesOf(a)' = NoticesOf(a)
        /\ \A i \in DOMAIN MailOfMain : i \in DOMAIN MailOfMain' /\ MailOfMain'[i] = MailOfMain[i]
    <3>1. CASE x = Main
      BY <2>1, <2>2, <3>1, OneMoreNotice
    <3>2. CASE x # Main
      BY <2>1, <2>2, <3>2, SameNotices DEF SameMail
    <3> QED
      BY <3>1, <3>2
  <2>4. \A y \in Agent \cup {Main} :
           accepted[y] = read[y] \o queue[y] => accepted'[y] = read'[y] \o queue'[y]
    BY <2>1, <2>2 DEF OneMore
  <2>5. MailOK'
    BY <2>1, <2>2 DEF MailOK
  <2>6. \A a \in Agent :
           queue[a] = <<>> /\ status[a] \notin {"created", "running"} => queue'[a] = <<>>
    BY <2>1, <2>2, MainAssumption
  <2> QED
    BY <2>1, <2>3, <2>4, <2>5, <2>6 DEF NoReport
<1> QED
  BY <1>2, <1>3, <1>4 DEF MailMoves

\* A step that ends no agent.
LEMMA MovesKeepMail ==
  ASSUME RecordsInv, MailInv, RecordsKept, MailMoves
  PROVE  MailInv'
<1>0. NoReport /\ Ended' = Ended
  BY MovesReportNothing DEF MailInv, RecordsKept, Ended
<1> USE DEF MailInv
<1>1. MailKept'
  <2>1. \A a \in Agent : status[a] \in {"failed", "cancelled"} => status'[a] = status[a]
    BY DEF RecordsKept, Terminal
  <2> QED
    BY <1>0, <2>1, MainAssumption DEF MailKept, NoReport
<1>2. ReadAll'
  BY <1>0 DEF ReadAll, RecordsKept, NoReport, Terminal
<1>3. /\ \A a \in Ended : background'[a] = background[a] /\ status'[a] = status[a] /\ result'[a] = result[a]
      /\ Ended \subseteq Agent
  BY DEF RecordsKept, Ended, Terminal
<1>4. NotifiedOnce'
  BY <1>0, <1>3 DEF NotifiedOnce, NoReport
<1>5. \A a \in Agent : (a \in pending \cup merged <=> a \in Ended /\ result[a] # "none")'
  BY <1>0, <1>3 DEF EndIsReportedOnce, NoReport
<1>6. \A a \in Agent :
         IF a \in Ended /\ background'[a]
         THEN \E i \in DOMAIN MailOfMain' : NoticesOf(a)' = {i} /\ MailOfMain'[i].says = status'[a]
         ELSE NoticesOf(a)' = {}
  BY <1>0, <1>3 DEF EndIsReportedOnce, NoReport
<1>7. EndIsReportedOnce'
  BY <1>0, <1>5, <1>6 DEF EndIsReportedOnce, NoReport
<1> QED
  BY <1>0, <1>1, <1>2, <1>4, <1>7 DEF NoReport

\* An agent ends: its mail is thrown away, its work and its status are reported.
LEMMA EndKeepsMail ==
  ASSUME RecordsInv, MailInv, NEW a \in Agent, Ends(a)
  PROVE  MailInv'
<1> USE DEF MailInv
<1>0. /\ status[a] \notin Terminal /\ a \notin Ended /\ a # Main
      /\ status \in [Agent -> Statuses] /\ background \in [Agent -> BOOLEAN]
  BY MainAssumption DEF Ends, Ended, RecordsInv, RecordsOK
<1>1. PICK final \in Terminal :
         /\ FinishRecord(a, final)
         /\ final = "completed" => result[a] = "completed" /\ status[a] # "cancelling"
  BY DEF Ends
<1> DEFINE emptied == [queue EXCEPT ![a] = <<>>]
           m == Mail(a, final)
<1>2. /\ status' = [status EXCEPT ![a] = final] /\ UNCHANGED <<background, result, read, merged>>
      /\ pending' = IF result[a] = "none" THEN pending ELSE pending \cup {a}
      /\ IF background[a] /\ a \notin notified
         THEN notified' = notified \cup {a} /\ Deliver(emptied, Main, m)
         ELSE queue' = emptied /\ UNCHANGED <<notified, accepted>>
  BY <1>1 DEF FinishRecord, transcripts
<1>3. /\ emptied \in Boxes /\ emptied[a] = <<>> /\ m \in Message /\ m.from = a /\ m.says = final
      /\ \A y \in Agent \cup {Main} : y # a => emptied[y] = queue[y]
  <2>1. queue \in Boxes /\ <<>> \in Seq(Message)
    BY DEF MailOK
  <2>2. /\ emptied \in Boxes /\ emptied[a] = <<>>
        /\ \A y \in Agent \cup {Main} : y # a => emptied[y] = queue[y]
    BY <2>1 DEF Boxes
  <2>3. m \in Message /\ m.from = a /\ m.says = final
    BY DEF Mail, Message
  <2> QED
    BY <2>2, <2>3
<1> HIDE DEF emptied, m
<1>4. Ended' = Ended \cup {a} /\ \A b \in Agent : b # a => status'[b] = status[b]
  BY <1>0, <1>2 DEF Ended
<1>5. \A b \in Agent : (b \in pending \cup merged <=> b \in Ended /\ result[b] # "none")'
  BY <1>0, <1>2, <1>4 DEF EndIsReportedOnce
<1>6. (pending \cap merged = {})'
  BY <1>0, <1>2 DEF EndIsReportedOnce
<1>7. /\ queue' \in Boxes /\ accepted' \in Boxes /\ queue'[a] = <<>> /\ accepted'[a] = accepted[a]
      /\ \A y \in Agent : y # a => accepted'[y] = accepted[y] /\ queue'[y] = queue[y]
      /\ background[a] /\ a \notin notified => OneMore(Main, m)
      /\ ~(background[a] /\ a \notin notified) => SameMail(Main)
  <2>1. CASE background[a] /\ a \notin notified
    BY <1>0, <1>2, <1>3, <2>1, DeliverEffect, MainAssumption
  <2>2. CASE ~(background[a] /\ a \notin notified)
    BY <1>0, <1>2, <1>3, <2>2, MainAssumption DEF SameMail, MailOK
  <2> QED
    BY <2>1, <2>2
<1>8. MailOK'
  BY <1>2, <1>7 DEF MailOK
<1>9. MailKept'
  <2>1. accepted'[Main] = read'[Main] \o queue'[Main]
    BY <1>7 DEF MailKept, OneMore, SameMail
  <2>2. final = "completed" => accepted'[a] = read'[a] \o queue'[a]
    <3>1. final = "completed" => status[a] \notin {"failed", "cancelled"} /\ queue[a] = <<>>
      BY <1>0, <1>1 DEF ReadAll, Terminal
    <3> QED
      BY <1>2, <1>7, <3>1 DEF MailKept
  <2>3. \A y \in Agent : y # a /\ status[y] \notin {"failed", "cancelled"} =>
           accepted'[y] = read'[y] \o queue'[y]
    BY <1>2, <1>7 DEF MailKept
  <2>4. status'[a] = final
    BY <1>0, <1>2
  <2> QED
    BY <1>1, <1>4, <2>1, <2>2, <2>3, <2>4 DEF MailKept, Terminal
<1>10. ReadAll'
  BY <1>0, <1>1, <1>2, <1>4, <1>7 DEF ReadAll, Terminal
<1>11. a \notin notified
  BY <1>0 DEF NotifiedOnce
<1>12. NotifiedOnce'
  BY <1>0, <1>2, <1>4, <1>11 DEF NotifiedOnce
<1>13. \A b \in Agent :
          IF b \in Ended' /\ background[b]
          THEN \E i \in DOMAIN MailOfMain' : NoticesOf(b)' = {i} /\ MailOfMain'[i].says = status'[b]
          ELSE NoticesOf(b)' = {}
  <2>1. NoticesOf(a) = {} /\ status'[a] = final /\ final # "message"
    BY <1>0, <1>2 DEF EndIsReportedOnce, Terminal
  <2>2. CASE background[a]
    <3>1. /\ \A i \in DOMAIN MailOfMain : i \in DOMAIN MailOfMain' /\ MailOfMain'[i] = MailOfMain[i]
          /\ Len(MailOfMain) + 1 \in DOMAIN MailOfMain'
          /\ MailOfMain'[Len(MailOfMain) + 1] = m
          /\ NoticesOf(a)' = {Len(MailOfMain) + 1}
          /\ \A b \in Agent : b # a => NoticesOf(b)' = NoticesOf(b)
      BY <1>3, <1>7, <1>11, <2>1, <2>2, OneMoreNotice
    <3> QED
      BY <1>3, <1>4, <2>1, <2>2, <3>1 DEF EndIsReportedOnce
  <2>3. CASE ~background[a]
    BY <1>4, <1>7, <2>1, <2>3, SameNotices DEF EndIsReportedOnce
  <2> QED
    BY <1>0, <2>2, <2>3
<1>14. EndIsReportedOnce'
  BY <1>2, <1>5, <1>6, <1>13 DEF EndIsReportedOnce
<1> QED
  BY <1>8, <1>9, <1>10, <1>12, <1>14

-----------------------------------------------------------------------------
(* The invariant.                                                          *)

LEMMA InitRuns == Init => RunsInv
<1> SUFFICES ASSUME Init PROVE RunsInv
  BY DEF Init
<1>1. Holding = {} /\ Waiting = {} /\ Ended = {}
  BY DEF Init, Holding, Waiting, Ended, Terminal
<1>2. RecordsInv
  <2>1. IsFiniteSet(Holding) /\ Cardinality(Holding) = 0
    BY <1>1, FS_EmptySet
  <2>2. RecordsOK
    BY <1>1 DEF Init, RecordsOK, Statuses, Places
  <2>3. PlaceFitsStatus
    BY <1>1 DEF Init, PlaceFitsStatus, Terminal
  <2> QED
    BY <1>1, <2>1, <2>2, <2>3, SlotsAssumption DEF Init, RecordsInv, SlotsCounted
<1>3. /\ MailOK /\ MailOfMain = <<>>
      /\ \A x \in Agent \cup {Main} : queue[x] = <<>> /\ accepted[x] = read[x] \o queue[x]
  BY DEF Init, MailOK, Boxes, MailOfMain
<1>4. MailInv
  BY <1>1, <1>3 DEF Init, MailInv, MailKept, ReadAll, NotifiedOnce, EndIsReportedOnce, NoticesOf
<1>5. IdleMainHasReadItsMail
  BY <1>3 DEF IdleMainHasReadItsMail
<1> QED
  BY <1>2, <1>4, <1>5 DEF RunsInv

\* Mail for the main agent is either there already or makes the App look.
LEMMA NewMailIsNoticed ==
  ASSUME MailOK, NEW boxes \in Boxes, NEW x \in Agent \cup {Main}, NEW m,
         boxes[Main] = queue[Main], Deliver(boxes, x, m)
  PROVE  queue'[Main] = queue[Main] \/ revised' \/ Closing
BY DEF Deliver, Boxes

LEMMA IdleStep ==
  ASSUME MailOK, IdleMainHasReadItsMail, [Next]_vars
  PROVE  IdleMainHasReadItsMail'
<1> USE DEF IdleMainHasReadItsMail
\* The App does nothing, and looks when there is new mail.
<1>1. ASSUME queue'[Main] \in {<<>>, queue[Main]} \/ revised' \/ Closing,
             UNCHANGED <<main, permission, runtime>>, revised => revised'
      PROVE  IdleMainHasReadItsMail'
  BY <1>1 DEF Closing
<1>2. ASSUME NEW x \in Agent \cup {Main}, Drain(x)
      PROVE  queue'[Main] \in {<<>>, queue[Main]}
  BY <1>2 DEF Drain, MailOK, Boxes
<1>3. ASSUME NEW a \in Agent, NEW final, FinishRecord(a, final)
      PROVE  IdleMainHasReadItsMail'
  <2> DEFINE emptied == [queue EXCEPT ![a] = <<>>]
  <2>1. emptied \in Boxes /\ emptied[Main] = queue[Main]
    <3>1. queue \in Boxes /\ <<>> \in Seq(Message)
      BY DEF MailOK
    <3> QED
      BY <3>1, MainAssumption DEF Boxes
  <2>2. /\ UNCHANGED <<main, permission, runtime>>
        /\ Deliver(emptied, Main, Mail(a, final)) \/ (queue' = emptied /\ UNCHANGED revised)
    BY <1>3 DEF FinishRecord
  <2> HIDE DEF emptied
  <2>3. queue'[Main] = queue[Main] \/ revised' \/ Closing
    BY <2>1, <2>2, NewMailIsNoticed
  <2>4. revised => revised'
    BY <2>2 DEF Deliver
  <2> QED
    BY <1>1, <2>2, <2>3, <2>4
<1>4. ASSUME NEW from, NEW x \in Agent \cup {Main}, SendMessage(from, x),
             UNCHANGED <<main, permission, runtime>>
      PROVE  IdleMainHasReadItsMail'
  <2>1. Deliver(queue, x, Mail(from, "message")) /\ queue \in Boxes
    BY <1>4 DEF SendMessage, MailOK
  <2>2. queue'[Main] = queue[Main] \/ revised' \/ Closing
    BY <2>1, NewMailIsNoticed
  <2>3. revised => revised'
    BY <2>1 DEF Deliver
  <2> QED
    BY <1>1, <1>4, <2>2, <2>3
<1>5. ASSUME NEW a \in Agent, AgentStep(a)
      PROVE  IdleMainHasReadItsMail'
  <2>1. CASE \E final : FinishRecord(a, final)
    BY <1>3, <2>1
  <2>2. CASE Turn(a) \/ Answer(a)
    BY <1>1, <1>2, <2>2 DEF Turn, Answer, appVars
  <2>3. CASE UseTools(a)
    BY <1>1, <1>4, <2>3 DEF UseTools, mailVars
  <2>4. CASE UNCHANGED <<mailVars, appVars, runtime>>
    BY <1>1, <2>4 DEF mailVars, appVars
  <2> QED
    BY <1>5, <2>1, <2>2, <2>3, <2>4 DEF AgentStep, Start, Refuse, Stop, Finish
<1>6. CASE MainTurn
  BY <1>1, <1>2, <1>6 DEF MainTurn, appVars
<1>7. CASE MainAnswer
  BY <1>1, <1>2, <1>7 DEF MainAnswer
<1>8. CASE MainStops \/ Quiesced
  BY <1>8 DEF MainStops, Quiesced, mailVars, Closing
<1>9. ASSUME NEW a \in Agent, Spawn(a) \/ Send(a) \/ Cancel(a)
      PROVE  IdleMainHasReadItsMail'
  <2>1. CASE Spawn(a) \/ Cancel(a)
    BY <1>1, <2>1 DEF Spawn, Cancel, mailVars, appVars
  <2>2. CASE Send(a)
    BY <1>4, <2>2 DEF Send
  <2> QED
    BY <1>9, <2>1, <2>2
<1>10. CASE UserTurn \/ Quiesce
  BY <1>10 DEF UserTurn, Quiesce, mailVars
<1>11. CASE Wake
  BY <1>11 DEF Wake, mailVars, Closing
<1>12. CASE Shutdown \/ ShutdownCancels \/ ShutdownEnds \/ UNCHANGED vars
  BY <1>12 DEF Shutdown, ShutdownCancels, ShutdownEnds, vars, mailVars, appVars, Closing
<1> QED
  BY <1>5, <1>6, <1>7, <1>8, <1>9, <1>10, <1>11, <1>12 DEF Next, MainStep

LEMMA RunsStep == RunsInv /\ [Next]_vars => RunsInv'
<1> SUFFICES ASSUME RunsInv, [Next]_vars PROVE RunsInv'
  OBVIOUS
<1>0. RecordsInv /\ MailInv /\ MailOK
  BY DEF RunsInv, MailInv
<1>1. \/ RecordsInv' /\ RecordsKept /\ MailMoves
      \/ \E a \in Agent : RecordsInv' /\ Ends(a)
  <2>1. ASSUME NEW a \in Agent, AgentStep(a)
        PROVE  \/ RecordsInv' /\ RecordsKept /\ MailMoves
               \/ RecordsInv' /\ Ends(a)
    BY <1>0, <2>1, AgentMoves, AgentEnds DEF AgentStep
  <2> QED
    BY <1>0, <2>1, OthersMove DEF Next
<1>2. MailInv'
  BY <1>0, <1>1, MovesKeepMail, EndKeepsMail
<1>3. IdleMainHasReadItsMail'
  BY <1>0, IdleStep DEF RunsInv
<1> QED
  BY <1>1, <1>2, <1>3 DEF RunsInv

\* Records, slots, mail and reports stay related in every step.
THEOREM RunsInvariant == Spec => []RunsInv
BY InitRuns, RunsStep, PTL DEF Spec

(***************************************************************************)
(* NoMessageLost: a message send() accepted is read once and in order, or  *)
(* is still in the mailbox, and an agent that completed has read all of    *)
(* them, although messages come between its last look and its end.         *)
(***************************************************************************)
THEOREM MessagesArrive == Spec => []NoMessageLost
<1>1. RunsInv => NoMessageLost
  BY DEF RunsInv, MailInv, MailKept, ReadAll, NoMessageLost
<1> QED
  BY <1>1, RunsInvariant, PTL

(***************************************************************************)
(* EndIsReportedOnce: the parent of a background agent is told of its end  *)
(* exactly once, with the status of its record, and gets the work of every *)
(* agent that ran exactly once (finishRecord, notifyParent).               *)
(***************************************************************************)
THEOREM EndsAreReportedOnce == Spec => []EndIsReportedOnce
<1>1. RunsInv => EndIsReportedOnce
  BY DEF RunsInv, MailInv
<1> QED
  BY <1>1, RunsInvariant, PTL

(***************************************************************************)
(* SlotsInUse: whoever holds a slot is counted, nobody waits while one is  *)
(* free, and who waits can still be started (AgentSlotPool).               *)
(***************************************************************************)
THEOREM SlotsAreCounted == Spec => []SlotsInUse
<1>1. RunsInv => SlotsInUse
  BY DEF RunsInv, RecordsInv, RecordsOK, PlaceFitsStatus, SlotsCounted, SlotsInUse, Holding
<1> QED
  BY <1>1, RunsInvariant, PTL

(***************************************************************************)
(* IdleMainHasReadItsMail: whenever mail reaches a main agent that is free *)
(* to run, the effect that starts a run will look again (App.tsx).         *)
(***************************************************************************)
THEOREM MailWakesTheMainAgent == Spec => []IdleMainHasReadItsMail
<1>1. RunsInv => IdleMainHasReadItsMail
  BY DEF RunsInv
<1> QED
  BY <1>1, RunsInvariant, PTL
=============================================================================
