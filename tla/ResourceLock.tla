---------------------------- MODULE ResourceLock ----------------------------
(***************************************************************************)
(* RuntimeResourceLock (src/src/tools/resourceLock.ts): the process-wide   *)
(* reader/writer lock every tool call of every agent goes through.  A      *)
(* request asks for its whole access set at once, waits in one queue, and  *)
(* is granted when it conflicts with no lease and with no request ahead of *)
(* it.                                                                     *)
(*                                                                         *)
(* A caller is one slot that can have a request or a lease outstanding; it *)
(* may ask again after its release, as the runner does with the next call. *)
(* Callers of one run share the run's abort signal.  The queue is the set  *)
(* pending with, for each member, the members ahead of it.                 *)
(*                                                                         *)
(* JavaScript runs schedule() and the listeners of one abort() to their    *)
(* end before any other code: Schedule is part of the action that calls    *)
(* it, and while a dispatch is under way no other action is enabled.       *)
(***************************************************************************)
EXTENDS ResourceAccess

CONSTANTS Caller,      \* slots that issue requests
          Signal,      \* abort signals
          SignalOf,    \* the signal a caller passes to acquire()
          AccessSets,  \* the access sets callers may ask for
          NoSignal     \* no dispatch is under way

ASSUME SignalOfAssumption == SignalOf \in [Caller -> Signal]
ASSUME NoSignalAssumption == NoSignal \notin Signal

\* The path or name of an access is a sequence.
IsAccess(a) ==
    /\ a \in [namespace : {a.namespace}, key : {a.key}, mode : {"read", "write"}, scope : {a.scope}]
    /\ a.key \in Seq(Range(a.key))

ASSUME AccessSetsAssumption == \A asked \in AccessSets : \A a \in asked : IsAccess(a)

VARIABLES pending,     \* the callers waiting in the queue
          ahead,       \* for a waiting caller, those queued before it
          active,      \* the callers that hold a lease
          accesses,    \* the normalized access set of each outstanding request
          aborted,     \* the signals that have fired
          dispatching  \* the signal whose listeners are being called, or NoSignal

lockVars == <<pending, ahead, active, accesses, aborted, dispatching>>

Conflict(c, d) == AccessSetsConflict(accesses[c], accesses[d])

NormalizedSets == {NormalizeAccesses(asked) : asked \in AccessSets}

(* The queue is a queue: being ahead is a strict total order on the waiting *)
(* callers, and a caller is never both waiting and holding a lease, so one  *)
(* acquire() settles once.                                                  *)
QueueOrder ==
    /\ pending \cap active = {}
    /\ \A c \in Caller : ahead[c] \subseteq pending
    /\ \A c \in Caller \ pending : ahead[c] = {}
    /\ \A c \in pending : c \notin ahead[c]
    /\ \A c, d \in pending : c # d => (c \in ahead[d] <=> d \notin ahead[c])
    /\ \A c, d \in pending : c \in ahead[d] => ahead[c] \subseteq ahead[d]

(* The variables have their types and the queue is ordered. *)
TypeOK ==
    /\ pending \in SUBSET Caller
    /\ ahead \in [Caller -> SUBSET Caller]
    /\ active \in SUBSET Caller
    /\ accesses \in [Caller -> NormalizedSets \cup {{}}]
    /\ aborted \in SUBSET Signal
    /\ dispatching \in aborted \cup {NoSignal}
    /\ QueueOrder

Init ==
    /\ pending = {}
    /\ ahead = [c \in Caller |-> {}]
    /\ active = {}
    /\ accesses = [c \in Caller |-> {}]
    /\ aborted = {}
    /\ dispatching = NoSignal

\* Wrong on purpose, for the check of the properties: a request is held back by
\* those ahead of it only, or by the leases only.
GrantableBesideLeases(queue, order, holders, acc) ==
    {c \in queue : \A d \in order[c] : ~AccessSetsConflict(acc[c], acc[d])}

GrantableOutOfOrder(queue, order, holders, acc) ==
    {c \in queue : \A d \in holders : ~AccessSetsConflict(acc[c], acc[d])}

(***************************************************************************)
(* schedule() as the code has it.  Each turn of its loop grants the first  *)
(* request that conflicts with no lease and with no request ahead of it in *)
(* the queue, and starts over; the loop ends when a turn grants nothing,   *)
(* and no turn grants more than one request.                               *)
(***************************************************************************)
Eligible(queue, order, holders, acc) ==
    {c \in queue :
        /\ \A d \in holders : ~AccessSetsConflict(acc[c], acc[d])
        /\ \A d \in order[c] \cap queue : ~AccessSetsConflict(acc[c], acc[d])}

Turn(lock, order, acc) ==
    LET eligible == Eligible(lock.queue, order, lock.holders, acc)
        first == CHOOSE c \in eligible : order[c] \cap eligible = {}
    IN  IF eligible = {} THEN lock
        ELSE [queue |-> lock.queue \ {first}, holders |-> lock.holders \cup {first}]

ScheduleLoop(queue, order, holders, acc) ==
    LET turns[n \in 0..Cardinality(queue)] ==
            IF n = 0 THEN [queue |-> queue, holders |-> holders]
            ELSE Turn(turns[n - 1], order, acc)
    IN  turns[Cardinality(queue)]

(***************************************************************************)
(* What the loop grants, at once: a request granted on the way conflicts   *)
(* with the same later requests as a lease that it did in the queue.       *)
(***************************************************************************)
Grantable(queue, order, holders, acc) ==
    {c \in queue : \A d \in holders \cup order[c] : ~AccessSetsConflict(acc[c], acc[d])}

Schedule(queue, order, holders, acc) ==
    LET granted == Grantable(queue, order, holders, acc)
    IN  /\ pending' = queue \ granted
        /\ ahead' = [c \in Caller |-> IF c \in queue \ granted
                                      THEN order[c] \ granted ELSE {}]
        /\ active' = holders \cup granted

(***************************************************************************)
(* acquire() with a live signal.  With a fired signal it rejects at once   *)
(* and with an empty access set it resolves at once; neither touches the   *)
(* lock.                                                                   *)
(***************************************************************************)
Acquire(c, asked) ==
    /\ dispatching = NoSignal
    /\ c \notin pending \cup active
    /\ asked # {}
    /\ SignalOf[c] \notin aborted
    /\ accesses' = [accesses EXCEPT ![c] = NormalizeAccesses(asked)]
    /\ Schedule(pending \cup {c}, [ahead EXCEPT ![c] = pending], active, accesses')
    /\ UNCHANGED <<aborted, dispatching>>

(***************************************************************************)
(* The release function of a lease.  A second call returns at once.        *)
(***************************************************************************)
Release(c) ==
    /\ dispatching = NoSignal
    /\ c \in active
    /\ Schedule(pending, ahead, active \ {c}, accesses)
    /\ UNCHANGED <<accesses, aborted, dispatching>>

(***************************************************************************)
(* controller.abort(): the signal fires and its listeners run in the order *)
(* they were registered, which is the order of the queue.  A listener      *)
(* whose request is still pending takes it out of the queue, rejects it    *)
(* and reschedules; that may grant a later request of the same signal, and *)
(* granting removes its listener before it is called.                      *)
(***************************************************************************)
Abort(s) ==
    /\ dispatching = NoSignal
    /\ s \notin aborted
    /\ aborted' = aborted \cup {s}
    /\ dispatching' = s
    /\ UNCHANGED <<pending, ahead, active, accesses>>

\* Wrong on purpose, for the check of the properties: an aborted request leaves the
\* queue without a new look at the rest of it.
OnAbortWithoutSchedule(c) ==
    /\ c \in pending
    /\ SignalOf[c] = dispatching
    /\ \A d \in ahead[c] : SignalOf[d] # dispatching
    /\ pending' = pending \ {c}
    /\ ahead' = [d \in Caller |-> IF d = c THEN {} ELSE ahead[d] \ {c}]
    /\ UNCHANGED <<active, accesses, aborted, dispatching>>

OnAbort(c) ==
    /\ c \in pending
    /\ SignalOf[c] = dispatching
    /\ \A d \in ahead[c] : SignalOf[d] # dispatching
    /\ Schedule(pending \ {c}, [d \in Caller |-> ahead[d] \ {c}], active, accesses)
    /\ UNCHANGED <<accesses, aborted, dispatching>>

DispatchDone ==
    /\ dispatching # NoSignal
    /\ \A c \in pending : SignalOf[c] # dispatching
    /\ dispatching' = NoSignal
    /\ UNCHANGED <<pending, ahead, active, accesses, aborted>>

(***************************************************************************)
(* The next run of the same agent: a fresh AbortController, made after     *)
(* every call of the aborted run has settled.                              *)
(***************************************************************************)
RenewSignal(s) ==
    /\ dispatching = NoSignal
    /\ s \in aborted
    /\ \A c \in pending \cup active : SignalOf[c] # s
    /\ aborted' = aborted \ {s}
    /\ UNCHANGED <<pending, ahead, active, accesses, dispatching>>

Next ==
    \/ \E c \in Caller, asked \in AccessSets : Acquire(c, asked)
    \/ \E c \in Caller : Release(c)
    \/ \E s \in Signal : Abort(s)
    \/ \E c \in Caller : OnAbort(c)
    \/ DispatchDone
    \/ \E s \in Signal : RenewSignal(s)

Spec == Init /\ [][Next]_lockVars

(***************************************************************************)
(* Fairness: a dispatch runs to its end, and every lease is released.  The *)
(* runner releases in a finally block, so the second assumption is that a  *)
(* tool call ends; ToolRunner drops it and looks at calls that do not.     *)
(* It is strong because a dispatch, one atomic piece of JavaScript split   *)
(* into steps here, disables a release that the event loop has not lost.   *)
(***************************************************************************)
Fairness ==
    /\ \A c \in Caller : SF_lockVars(Release(c))
    /\ WF_lockVars(\E c \in Caller : OnAbort(c))
    /\ WF_lockVars(DispatchDone)

FairSpec == Spec /\ Fairness

-----------------------------------------------------------------------------
(* No two leases held at the same time conflict, whatever mix of requests, *)
(* releases and aborts led there.                                          *)
MutualExclusion ==
    \A c, d \in active : c # d => ~Conflict(c, d)

(* No lost wakeup: a request waits only while it conflicts with a lease or *)
(* with a request ahead of it.  Every path that frees something (a         *)
(* release, an aborted request leaving the middle of the queue) must       *)
(* reschedule for this to hold.                                            *)
NoLostWakeup ==
    \A c \in pending : \E d \in active \cup ahead[c] : Conflict(c, d)

(* The loop of schedule() ends, with the leases and the queue that Schedule *)
(* sets in one step, whatever the order it grants in and whichever leases  *)
(* were released and requests withdrawn before it runs.                    *)
LoopGrantsTheGrantable ==
    \A waiting \in SUBSET pending, holders \in SUBSET active :
        LET order   == [c \in Caller |-> ahead[c] \cap waiting]
            granted == Grantable(waiting, order, holders, accesses)
            loop    == ScheduleLoop(waiting, order, holders, accesses)
        IN  /\ loop = [queue |-> waiting \ granted, holders |-> holders \cup granted]
            /\ Eligible(loop.queue, order, loop.holders, accesses) = {}

(* What an access is for: the resources it covers, among all those that    *)
(* anybody asks for.                                                       *)
NamedKeys == {a.key : a \in UNION AccessSets}

Covers(a) ==
    {a.namespace} \X
        IF a.namespace = "fs" /\ a.scope = "subtree"
        THEN {key \in NamedKeys : IsPrefix(a.key, key)}
        ELSE {a.key}

Touched(accs) == UNION {Covers(a) : a \in accs}
Written(accs) == UNION {Covers(a) : a \in {a \in accs : a.mode = "write"}}

(* Two requests that meet in the lock conflict exactly when some file or   *)
(* name is touched by both and written by one of them: the overlap of      *)
(* paths neither misses a subtree, on either side, nor excludes unrelated  *)
(* files.                                                                  *)
ConflictIsSharedWrite ==
    \A c, d \in Caller :
        LET l == accesses[c]
            r == accesses[d]
        IN  Conflict(c, d) <=> Written(l) \cap Touched(r) # {} \/ Touched(l) \cap Written(r) # {}

(* A request never gets its lease before a conflicting request that was    *)
(* queued ahead of it, or that was waiting when it arrived, and that is    *)
(* still waiting.                                                          *)
InOrder ==
    \A c \in active' \ active, d \in pending \cap pending' :
        (c \in pending => d \in ahead[c])
        => ~AccessSetsConflict(accesses'[c], accesses'[d])

NoOvertaking == [][InOrder]_lockVars

(* Every request leaves the queue, granted or rejected, however the other  *)
(* callers keep coming back: no stream of compatible requests starves a    *)
(* conflicting one.                                                        *)
NoStarvation ==
    \A c \in Caller : c \in pending ~> c \notin pending

(* The lock implements the exclusive service LockService promises.         *)
Service == INSTANCE LockService
    WITH waiting <- pending, holding <- active, need <- accesses,
         Needs <- NormalizedSets, Conflicts <- AccessSetsConflict

ImplementsLockService == Service!Spec
=============================================================================
