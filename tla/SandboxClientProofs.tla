------------------------- MODULE SandboxClientProofs -------------------------
(***************************************************************************)
(* Proofs about SandboxClient, for any number of calls: one helper at a    *)
(* time, and none left alive unless the sandbox is poisoned.               *)
(***************************************************************************)
EXTENDS SandboxClient, FiniteSetTheorems, TLAPS

Places == {"new", "checking", "waiting", "granted", "settled",
           "running", "closed", "late", "broken", "cleaning"}

Outcomes == {"none", "ok", "failed", "aborted", "timed out", "poisoned"}

TypeOK ==
    /\ poison \in BOOLEAN
    /\ call \in [Call -> [at : Places, outcome : Outcomes]]
    /\ helper \in [Call -> [state : {"none", "alive", "exited", "closed"},
                            response : Responses, failed : BOOLEAN]]

Alive(c) == helper[c].state = "alive"

\* Whoever has been granted the queue and has not settled has its lease.
OneAtATime == \A c \in Call : At(c, "granted") \/ Listening(c) => lease = c

\* While the sandbox is not poisoned, a helper that may be alive is watched.
AliveIsWatched == ~poison => \A c \in Call : Alive(c) => Listening(c)

OneHelper == \A c, d \in Call : Alive(c) /\ Alive(d) => c = d

\* A call goes to its verdict when the pipes have ended.
ClosedIsClosed == \A c \in Call : At(c, "closed") => helper[c].state = "closed"

\* The inductive invariant.
HelperInv == TypeOK /\ OneAtATime /\ AliveIsWatched /\ OneHelper /\ ClosedIsClosed

-----------------------------------------------------------------------------
LEMMA HelperInit == Init => HelperInv
<1> SUFFICES ASSUME Init PROVE HelperInv
  OBVIOUS
<1>1. TypeOK
  BY DEF Init, TypeOK, Places, Outcomes, Responses, NoHelper
<1>2. \A c \in Call : call[c].at = "new" /\ helper[c].state = "none"
  BY DEF Init, NoHelper
<1> QED
  BY <1>1, <1>2 DEF HelperInv, OneAtATime, AliveIsWatched, OneHelper, ClosedIsClosed, At, Listening, Alive

\* A call that settles leaves its helper dead or the sandbox poisoned.

CallType == [Call -> [at : Places, outcome : Outcomes]]

\* What is left to check when a call moves on and does not settle, or never had a helper.
LEMMA MoveKeeps ==
  ASSUME HelperInv, NEW c \in Call, UNCHANGED <<helper, poison>>,
         call' \in CallType, \A d \in Call \ {c} : call'[d] = call[d],
         call'[c].at = "granted" \/ Listening(c)' => lease' = c,
         UNCHANGED lease \/ lease = NoCall,
         Listening(c) => Listening(c)',
         call'[c].at = "closed" => helper[c].state = "closed"
  PROVE  HelperInv'
  BY NoCallAssumption
     DEF CallType, HelperInv, TypeOK, OneAtATime, AliveIsWatched, OneHelper, ClosedIsClosed,
         At, Listening, Alive

\* A call that settles leaves its helper dead or the sandbox poisoned.
LEMMA SettleKeeps ==
  ASSUME HelperInv, NEW c \in Call, NEW outcome \in Outcomes,
         At(c, "granted") \/ Listening(c), Settle(c, outcome), UNCHANGED helper,
         poison' \in BOOLEAN, poison => poison', ~Alive(c) \/ poison'
  PROVE  HelperInv'
<1> USE DEF At, Listening, Alive
<1>1. call' \in CallType
  BY DEF CallType, HelperInv, TypeOK, Settle, Settled, Places, Outcomes
<1>2. call'[c].at = "settled"
  BY DEF HelperInv, TypeOK, Settle, Settled
<1>3. \A d \in Call : call'[d].at # call[d].at => call'[d].at \in {"settled", "granted"}
  BY <1>2 DEF HelperInv, TypeOK, Settle, Settled
<1>4. \A d \in Call : call'[d].at = "granted" /\ call[d].at # "granted" => lease' = d
  BY <1>2 DEF HelperInv, TypeOK, Settle, Settled
<1>5. \A d \in Call : d # c => ~(At(d, "granted") \/ Listening(d))
  BY DEF HelperInv, OneAtATime
<1>6. TypeOK' /\ OneHelper'
  BY <1>1 DEF CallType, HelperInv, TypeOK, OneHelper
<1>7. OneAtATime'
  BY <1>2, <1>3, <1>4, <1>5 DEF OneAtATime
<1>8. AliveIsWatched'
  BY <1>5 DEF HelperInv, AliveIsWatched
<1>9. ClosedIsClosed'
  BY <1>3 DEF HelperInv, ClosedIsClosed
<1> QED
  BY <1>6, <1>7, <1>8, <1>9 DEF HelperInv

\* What changes when one call is moved.
LEMMA Moves ==
  ASSUME TypeOK, NEW c \in Call, NEW at \in Places, To(c, at)
  PROVE  /\ call' \in CallType /\ call'[c].at = at
         /\ \A d \in Call \ {c} : call'[d] = call[d]
  BY DEF TypeOK, CallType, To

LEMMA Settles ==
  ASSUME TypeOK, NEW c \in Call, NEW outcome \in Outcomes, call' = [call EXCEPT ![c] = Settled(outcome)]
  PROVE  /\ call' \in CallType /\ call'[c].at = "settled"
         /\ \A d \in Call \ {c} : call'[d] = call[d]
  BY DEF TypeOK, CallType, Settled, Places

-----------------------------------------------------------------------------
LEMMA HelperStep == HelperInv /\ [Next]_vars => HelperInv'
<1> SUFFICES ASSUME HelperInv, [Next]_vars PROVE HelperInv'
  OBVIOUS
<1> USE DEF At, Listening
<1>0. TypeOK /\ poison \in BOOLEAN
  BY DEF HelperInv, TypeOK
<1>1. CASE UNCHANGED vars
  BY <1>1 DEF vars, HelperInv, TypeOK, OneAtATime, AliveIsWatched, OneHelper, ClosedIsClosed, Alive
<1>2. ASSUME NEW c \in Call, Request(c) PROVE HelperInv'
  <2>1. /\ call' \in CallType /\ call'[c].at \in {"settled", "checking"}
        /\ \A d \in Call \ {c} : call'[d] = call[d]
    BY <1>0, <1>2 DEF Request, Settled, TypeOK, CallType, Places, Outcomes
  <2>2. call[c].at = "new" /\ UNCHANGED <<helper, lease, poison>>
    BY <1>2 DEF Request
  <2> QED
    BY <2>1, <2>2, MoveKeeps
<1>3. ASSUME NEW c \in Call, Enqueue(c) PROVE HelperInv'
  <2>1. call[c].at = "checking" /\ UNCHANGED <<helper, poison>>
    BY <1>3 DEF Enqueue
  <2>2. CASE call' = [call EXCEPT ![c] = Settled("aborted")] /\ UNCHANGED lease
    <3>1. /\ call' \in CallType /\ call'[c].at = "settled"
          /\ \A d \in Call \ {c} : call'[d] = call[d]
      BY <1>0, <2>2, Settles DEF Outcomes
    <3> QED
      BY <2>1, <2>2, <3>1, MoveKeeps
  <2>3. CASE lease = NoCall /\ lease' = c /\ To(c, "granted")
    <3>1. /\ call' \in CallType /\ call'[c].at = "granted"
          /\ \A d \in Call \ {c} : call'[d] = call[d]
      BY <1>0, <2>3, Moves DEF Places
    <3> QED
      BY <2>1, <2>3, <3>1, MoveKeeps
  <2>4. CASE To(c, "waiting") /\ UNCHANGED lease
    <3>1. /\ call' \in CallType /\ call'[c].at = "waiting"
          /\ \A d \in Call \ {c} : call'[d] = call[d]
      BY <1>0, <2>4, Moves DEF Places
    <3> QED
      BY <2>1, <2>4, <3>1, MoveKeeps
  <2> QED
    BY <1>3, <2>2, <2>3, <2>4 DEF Enqueue
<1>4. ASSUME NEW c \in Call, Start(c) PROVE HelperInv'
  <2>1. call[c].at = "granted" /\ UNCHANGED poison
    BY <1>4 DEF Start
  <2>2. ~Alive(c) \/ poison
    BY <2>1 DEF HelperInv, AliveIsWatched
  <2>3. ASSUME NEW outcome \in Outcomes, Settle(c, outcome), UNCHANGED helper PROVE HelperInv'
    BY <1>0, <2>1, <2>2, <2>3, SettleKeeps
  <2>4. CASE /\ To(c, "running") /\ ~poison /\ UNCHANGED lease
             /\ helper' = [helper EXCEPT ![c].state = "alive"]
    <3>1. /\ call' \in CallType /\ call'[c].at = "running"
          /\ \A d \in Call \ {c} : call'[d] = call[d]
      BY <1>0, <2>4, Moves DEF Places
    <3>2. /\ TypeOK' /\ helper'[c].state = "alive"
          /\ \A d \in Call \ {c} : helper'[d] = helper[d]
      BY <1>0, <2>1, <2>4, <3>1 DEF TypeOK, CallType
    <3>3. \A d \in Call \ {c} : ~Alive(d)
      BY <2>1, <2>4 DEF HelperInv, AliveIsWatched, OneAtATime
    <3> QED
      BY <2>1, <2>4, <3>1, <3>2, <3>3
         DEF HelperInv, OneAtATime, AliveIsWatched, OneHelper, ClosedIsClosed, Alive
  <2> QED
    BY <1>4, <2>3, <2>4 DEF Start, Outcomes
<1>5. ASSUME NEW c \in Call, Abort(c) PROVE HelperInv'
  <2>1. UNCHANGED <<helper, lease, poison>>
    BY <1>5 DEF Abort
  <2>2. CASE call[c].at = "waiting" /\ call' = [call EXCEPT ![c] = Settled("aborted")]
    <3>1. /\ call' \in CallType /\ call'[c].at = "settled"
          /\ \A d \in Call \ {c} : call'[d] = call[d]
      BY <1>0, <2>2, Settles DEF Outcomes
    <3> QED
      BY <2>1, <2>2, <3>1, MoveKeeps
  <2>3. CASE UNCHANGED call
    BY <2>1, <2>3
       DEF HelperInv, TypeOK, OneAtATime, AliveIsWatched, OneHelper, ClosedIsClosed, Alive
  <2> QED
    BY <1>5, <2>2, <2>3 DEF Abort
<1>6. ASSUME NEW c \in Call, Watchdog(c) \/ Overflow(c) PROVE HelperInv'
  BY <1>6 DEF Watchdog, Overflow, HelperInv, TypeOK, OneAtATime, AliveIsWatched, OneHelper,
              ClosedIsClosed, Alive
<1>7. ASSUME NEW c \in Call, ChildError(c) PROVE HelperInv'
  <2>1. /\ TypeOK' /\ \A d \in Call : helper'[d].state = helper[d].state
    BY <1>0, <1>7 DEF ChildError, TypeOK
  <2>2. UNCHANGED <<call, lease, poison>>
    BY <1>7 DEF ChildError
  <2> QED
    BY <2>1, <2>2 DEF HelperInv, OneAtATime, AliveIsWatched, OneHelper, ClosedIsClosed, Alive
<1>8. ASSUME NEW c \in Call, CloseDeadline(c) PROVE HelperInv'
  <2>1. Listening(c) /\ UNCHANGED <<helper, lease, poison>>
    BY <1>8 DEF CloseDeadline
  <2>2. /\ call' \in CallType /\ call'[c].at \in {"late", call[c].at}
        /\ \A d \in Call \ {c} : call'[d] = call[d]
    BY <1>0, <1>8 DEF CloseDeadline, TypeOK, CallType, Places
  <2>3. lease = c /\ (call[c].at = "closed" => helper[c].state = "closed")
    BY <2>1 DEF HelperInv, OneAtATime, ClosedIsClosed
  <2> QED
    BY <2>1, <2>2, <2>3, MoveKeeps
<1>9. ASSUME NEW c \in Call, HelperExit(c) PROVE HelperInv'
  <2>1. PICK response \in Responses :
           helper' = [helper EXCEPT ![c].state = "exited", ![c].response = response]
    BY <1>9 DEF HelperExit, Responses
  <2>2. /\ helper' \in [Call -> [state : {"none", "alive", "exited", "closed"},
                                 response : Responses, failed : BOOLEAN]]
        /\ helper'[c].state = "exited" /\ \A d \in Call \ {c} : helper'[d] = helper[d]
    BY <1>0, <2>1 DEF TypeOK
  <2>3. helper[c].state = "alive" /\ UNCHANGED <<call, lease, poison>>
    BY <1>9 DEF HelperExit
  <2> QED
    BY <2>2, <2>3
       DEF HelperInv, TypeOK, OneAtATime, AliveIsWatched, OneHelper, ClosedIsClosed, Alive
<1>10. ASSUME NEW c \in Call, HelperClose(c) PROVE HelperInv'
  <2>1. /\ call' \in CallType /\ call'[c].at \in {"closed", call[c].at}
        /\ Listening(c)' <=> Listening(c)
        /\ call'[c].at = "granted" => call[c].at = "granted"
        /\ \A d \in Call \ {c} : call'[d] = call[d]
    BY <1>0, <1>10 DEF HelperClose, TypeOK, CallType, Places
  <2>2. /\ helper' \in [Call -> [state : {"none", "alive", "exited", "closed"},
                                 response : Responses, failed : BOOLEAN]]
        /\ helper'[c].state = "closed" /\ \A d \in Call \ {c} : helper'[d] = helper[d]
    BY <1>0, <1>10 DEF HelperClose, TypeOK
  <2>3. helper[c].state = "exited" /\ UNCHANGED <<lease, poison>>
    BY <1>10 DEF HelperClose
  <2>4. TypeOK'
    BY <1>0, <2>1, <2>2, <2>3 DEF TypeOK, CallType
  <2>5. OneAtATime' /\ ClosedIsClosed'
    BY <2>1, <2>2, <2>3 DEF HelperInv, OneAtATime, ClosedIsClosed
  <2>6. AliveIsWatched' /\ OneHelper'
    BY <2>1, <2>2, <2>3 DEF HelperInv, AliveIsWatched, OneHelper, Alive
  <2> QED
    BY <2>4, <2>5, <2>6 DEF HelperInv
<1>11. ASSUME NEW c \in Call, PipeError(c) PROVE HelperInv'
  <2>1. call[c].at = "running" /\ UNCHANGED <<helper, lease, poison>> /\ lease = c
    BY <1>11 DEF PipeError, HelperInv, OneAtATime
  <2>2. /\ call' \in CallType /\ call'[c].at = "broken"
        /\ \A d \in Call \ {c} : call'[d] = call[d]
    BY <1>0, <1>11, Moves DEF PipeError, Places
  <2> QED
    BY <2>1, <2>2, MoveKeeps
<1>12. ASSUME NEW c \in Call, Conclude(c) PROVE HelperInv'
  <2>1. /\ Listening(c) /\ ~Alive(c) /\ UNCHANGED <<helper, poison>>
    BY <1>12 DEF Conclude, HelperInv, ClosedIsClosed, Alive
  <2>2. PICK outcome \in Outcomes : Settle(c, outcome)
    BY <1>12 DEF Conclude, Verdict, Outcomes
  <2> QED
    BY <1>0, <2>1, <2>2, SettleKeeps
<1>13. ASSUME NEW c \in Call, Catch(c) PROVE HelperInv'
  <2>1. /\ call[c].at \in {"late", "broken"} /\ UNCHANGED <<helper, poison>>
    BY <1>13 DEF Catch
  <2>2. CASE Settle(c, "failed") /\ ExitConfirmed(c)
    BY <1>0, <2>1, <2>2, SettleKeeps DEF ExitConfirmed, Alive, Outcomes
  <2>3. CASE To(c, "cleaning") /\ UNCHANGED lease
    <3>1. /\ call' \in CallType /\ call'[c].at = "cleaning"
          /\ \A d \in Call \ {c} : call'[d] = call[d]
      BY <1>0, <2>3, Moves DEF Places
    <3>2. lease = c
      BY <2>1 DEF HelperInv, OneAtATime
    <3> QED
      BY <2>1, <2>3, <3>1, <3>2, MoveKeeps
  <2> QED
    BY <1>13, <2>2, <2>3 DEF Catch
<1>14. ASSUME NEW c \in Call, CleanedUp(c) PROVE HelperInv'
  <2>1. /\ Listening(c) /\ ~Alive(c) /\ Settle(c, "failed") /\ UNCHANGED <<helper, poison>>
    BY <1>14 DEF CleanedUp, Alive
  <2> QED
    BY <1>0, <2>1, SettleKeeps DEF Outcomes
<1>15. ASSUME NEW c \in Call, Poison(c) PROVE HelperInv'
  <2>1. /\ Listening(c) /\ Settle(c, "poisoned") /\ UNCHANGED helper /\ poison' = TRUE
    BY <1>15 DEF Poison
  <2> QED
    BY <2>1, SettleKeeps DEF Outcomes
<1> QED
  BY <1>1, <1>2, <1>3, <1>4, <1>5, <1>6, <1>7, <1>8, <1>9, <1>10, <1>11, <1>12, <1>13,
     <1>14, <1>15 DEF Next, Progress

LEMMA HelperAlways == Spec => []HelperInv
  BY HelperInit, HelperStep, PTL DEF Spec

(* One helper at a time, and none that may still be alive after its call   *)
(* has settled without the sandbox being poisoned (windowsSandbox.ts:363). *)
THEOREM HelperNoticed == Spec => []NoHelperUnnoticed
<1>1. HelperInv => NoHelperUnnoticed
  <2> SUFFICES ASSUME HelperInv PROVE NoHelperUnnoticed
    OBVIOUS
  <2> DEFINE S == {c \in Call : helper[c].state = "alive"}
  <2>1. Cardinality(S) <= 1
    <3>1. CASE S = {}
      BY <3>1, FS_EmptySet
    <3>2. CASE S # {}
      <4>1. PICK c \in S : TRUE
        BY <3>2
      <4>2. S = {c}
        BY <4>1 DEF HelperInv, OneHelper, Alive
      <4>3. Cardinality({c}) = 1
        BY FS_Singleton
      <4> QED
        BY <4>2, <4>3
    <3> QED
      BY <3>1, <3>2
  <2>2. \A c \in Call : At(c, "settled") /\ helper[c].state = "alive" => poison
    BY DEF HelperInv, AliveIsWatched, Alive, At, Listening
  <2> QED
    BY <2>1, <2>2 DEF NoHelperUnnoticed
<1> QED
  BY <1>1, HelperAlways, PTL
=============================================================================
