---------------------------- MODULE SandboxClient ----------------------------
(***************************************************************************)
(* Commands in the Windows sandbox (src/src/sandbox/windowsSandbox.ts):    *)
(* one helper process at a time for the whole process, behind a queue that *)
(* an abort may leave.  Abort, watchdog, too much output, an error of the  *)
(* child and the end of the helper race each other; a helper that cannot   *)
(* be confirmed stopped poisons the sandbox for good.                      *)
(*                                                                         *)
(* The helper itself is external: it answers or not, and ends or not, even *)
(* when it is killed.                                                      *)
(***************************************************************************)
EXTENDS Naturals, Sequences, FiniteSets, SequencesExt

CONSTANTS Call, NoCall, NoReason

ASSUME NoCallAssumption == NoCall \notin Call

VARIABLES
    call,       \* where runPowerShell is, and what it will settle with
    pending,    \* the waiters of sandboxProcessQueue
    lease,      \* who has been given the queue
    helper,     \* the child process of a call
    stopping,   \* executeNativeHelper: why and how far the helper is being stopped
    aborted,    \* the signals that have fired
    poison      \* sandboxPoison

vars == <<call, pending, lease, helper, stopping, aborted, poison>>

-----------------------------------------------------------------------------
(* The child process.  It has exited when its code is known, and is closed *)
(* when its pipes have ended, too.                                         *)

Responses == {"ok", "error", "invalid", "none"}

NoHelper == [state |-> "none", response |-> "none", failed |-> FALSE]

\* isChildExitConfirmed
ExitConfirmed(c) == helper[c].state \in {"exited", "closed"}

NotStopping == [reason |-> NoReason, killed |-> FALSE, deadline |-> "off"]

\* terminate(): the first reason counts, one kill, and a deadline for the pipes to close.
Terminated(c, reason) ==
    [reason   |-> IF stopping[c].reason = NoReason THEN reason ELSE stopping[c].reason,
     killed   |-> stopping[c].killed \/ ~ExitConfirmed(c),
     deadline |-> IF stopping[c].deadline = "off" THEN "set" ELSE stopping[c].deadline]

Terminate(c, reason) == stopping' = [stopping EXCEPT ![c] = Terminated(c, reason)]

At(c, at) == call[c].at = at
To(c, at) == call' = [call EXCEPT ![c].at = at]
Settled(outcome) == [at |-> "settled", outcome |-> outcome]

\* The listeners, the watchdog and the collectors are there until the call settles.
Listening(c) == call[c].at \in {"running", "closed", "late", "broken", "cleaning"}

-----------------------------------------------------------------------------
(* runPowerShell and its queue.                                            *)

\* The sandbox is healthy when the request comes in; its checks are asynchronous.
Request(c) ==
    /\ At(c, "new")
    /\ call' = [call EXCEPT ![c] = IF poison THEN Settled("poisoned") ELSE [@ EXCEPT !.at = "checking"]]
    /\ UNCHANGED <<pending, lease, helper, stopping, aborted, poison>>

Enqueue(c) ==
    /\ At(c, "checking")
    /\ \/ /\ c \in aborted
          /\ call' = [call EXCEPT ![c] = Settled("aborted")]
          /\ UNCHANGED <<pending, lease>>
       \/ /\ c \notin aborted /\ lease = NoCall
          /\ lease' = c
          /\ To(c, "granted")
          /\ UNCHANGED pending
       \/ /\ c \notin aborted /\ lease # NoCall
          /\ pending' = Append(pending, c)
          /\ To(c, "waiting")
          /\ UNCHANGED lease
    /\ UNCHANGED <<helper, stopping, aborted, poison>>

\* Wrong on purpose, for the check of the properties: the queue is left with its lease.
SettleHoldingLease(c, outcome) ==
    /\ call' = [call EXCEPT ![c] = Settled(outcome)]
    /\ stopping' = [stopping EXCEPT ![c] = NotStopping]
    /\ UNCHANGED <<lease, pending>>

\* The call settles and its lease goes to the first waiter.
Settle(c, outcome) ==
    /\ pending' = IF pending = <<>> THEN pending ELSE Tail(pending)
    /\ lease' = IF pending = <<>> THEN NoCall ELSE Head(pending)
    /\ call' = [d \in Call |->
                    CASE d = c -> Settled(outcome)
                      [] d # c /\ pending # <<>> /\ d = Head(pending) -> [call[d] EXCEPT !.at = "granted"]
                      [] OTHER -> call[d]]
    /\ stopping' = [stopping EXCEPT ![c] = NotStopping]

\* Signal and health are looked at again before the helper is started.
Start(c) ==
    /\ At(c, "granted")
    /\ \/ /\ c \in aborted
          /\ Settle(c, "aborted")
          /\ UNCHANGED helper
       \/ /\ c \notin aborted /\ poison
          /\ Settle(c, "poisoned")
          /\ UNCHANGED helper
       \/ /\ c \notin aborted /\ ~poison
          /\ Settle(c, "failed")    \* spawn throws
          /\ UNCHANGED helper
       \/ /\ c \notin aborted /\ ~poison
          /\ To(c, "running")
          /\ helper' = [helper EXCEPT ![c].state = "alive"]
          /\ UNCHANGED <<pending, lease, stopping>>
    /\ UNCHANGED <<aborted, poison>>

-----------------------------------------------------------------------------
(* What ends a helper, in any order.                                       *)

Abort(c) ==
    /\ c \notin aborted
    /\ ~At(c, "settled")
    /\ aborted' = aborted \cup {c}
    /\ \/ /\ At(c, "waiting")
          /\ pending' = SelectSeq(pending, LAMBDA x : x # c)
          /\ call' = [call EXCEPT ![c] = Settled("aborted")]
          /\ UNCHANGED stopping
       \/ /\ Listening(c)
          /\ Terminate(c, "abort")
          /\ UNCHANGED <<call, pending>>
       \/ /\ call[c].at \in {"new", "checking", "granted"}
          /\ UNCHANGED <<call, pending, stopping>>
    /\ UNCHANGED <<lease, helper, poison>>

Watchdog(c) ==
    /\ Listening(c)
    /\ "watchdog" # stopping[c].reason
    /\ Terminate(c, "watchdog")
    /\ UNCHANGED <<call, pending, lease, helper, aborted, poison>>

\* More output than the protocol allows; a pipe may outlive the process.
Overflow(c) ==
    /\ Listening(c)
    /\ helper[c].state # "closed"
    /\ Terminate(c, "protocol_overflow")
    /\ UNCHANGED <<call, pending, lease, helper, aborted, poison>>

\* The child emits an error: it could not be started, killed or written to.
ChildError(c) ==
    /\ Listening(c)
    /\ ~helper[c].failed
    /\ helper' = [helper EXCEPT ![c].failed = TRUE]
    /\ Terminate(c, "spawn_error")
    /\ UNCHANGED <<call, pending, lease, aborted, poison>>

CloseDeadline(c) ==
    /\ Listening(c)
    /\ stopping[c].deadline = "set"
    /\ stopping' = [stopping EXCEPT ![c].deadline = "fired"]
    /\ call' = [call EXCEPT ![c].at = IF @ = "running" THEN "late" ELSE @]
    /\ UNCHANGED <<pending, lease, helper, aborted, poison>>

\* The helper ends, by itself or killed; it may never do so.
HelperExit(c) ==
    /\ helper[c].state = "alive"
    /\ \E response \in IF Listening(c) THEN Responses ELSE {"none"} :
          helper' = [helper EXCEPT ![c].state = "exited", ![c].response = response]
    /\ UNCHANGED <<call, pending, lease, stopping, aborted, poison>>

\* Its pipes end, later if a descendant holds them.
HelperClose(c) ==
    /\ helper[c].state = "exited"
    /\ helper' = [helper EXCEPT ![c].state = "closed"]
    /\ call' = [call EXCEPT ![c].at = IF @ = "running" THEN "closed" ELSE @]
    /\ UNCHANGED <<pending, lease, stopping, aborted, poison>>

\* Reading a pipe fails.
PipeError(c) ==
    /\ At(c, "running")
    /\ To(c, "broken")
    /\ UNCHANGED <<pending, lease, helper, stopping, aborted, poison>>

-----------------------------------------------------------------------------
(* The end of executeNativeHelper.                                         *)

\* What a helper that has closed amounts to; parseNativeResponse takes its own answer only.
Verdict(c) ==
    CASE stopping[c].reason = "abort" -> "aborted"
      [] stopping[c].reason = "watchdog" -> "timed out"
      [] stopping[c].reason = "protocol_overflow" -> "failed"
      [] helper[c].failed -> "failed"
      [] helper[c].response = "ok" -> "ok"
      [] OTHER -> "failed"

Conclude(c) ==
    /\ At(c, "closed")
    /\ \/ Settle(c, Verdict(c))
       \/ Verdict(c) = "ok" /\ Settle(c, "failed")    \* a non-zero exit code
    /\ UNCHANGED <<helper, aborted, poison>>

\* Wrong on purpose, for the check of the properties: a failure is reported at once.
CatchAndReport(c) ==
    /\ call[c].at \in {"late", "broken"}
    /\ Settle(c, "failed")
    /\ UNCHANGED <<helper, aborted, poison>>

\* An error before the helper has closed: it is stopped, and waited for until the deadline.
Catch(c) ==
    /\ call[c].at \in {"late", "broken"}
    /\ \/ /\ ExitConfirmed(c)
          /\ Settle(c, "failed")
       \/ /\ ~ExitConfirmed(c)
          /\ Terminate(c, "failure_cleanup")
          /\ To(c, "cleaning")
          /\ UNCHANGED <<pending, lease>>
    /\ UNCHANGED <<helper, aborted, poison>>

CleanedUp(c) ==
    /\ At(c, "cleaning")
    /\ helper[c].state = "closed" \/ (helper[c].state = "exited" /\ stopping[c].deadline = "fired")
    /\ Settle(c, "failed")
    /\ UNCHANGED <<helper, aborted, poison>>

Poison(c) ==
    /\ At(c, "cleaning")
    /\ stopping[c].deadline = "fired" /\ ~ExitConfirmed(c)
    /\ poison' = TRUE
    /\ Settle(c, "poisoned")
    /\ UNCHANGED <<helper, aborted>>

-----------------------------------------------------------------------------
Init ==
    /\ call = [c \in Call |-> [at |-> "new", outcome |-> "none"]]
    /\ pending = <<>>
    /\ lease = NoCall
    /\ helper = [c \in Call |-> NoHelper]
    /\ stopping = [c \in Call |-> NotStopping]
    /\ aborted = {}
    /\ poison = FALSE

\* Continuations of promises and timers.
Progress(c) ==
    \/ Enqueue(c) \/ Start(c)
    \/ CloseDeadline(c)
    \/ Conclude(c) \/ Catch(c) \/ CleanedUp(c) \/ Poison(c)

Next ==
    \E c \in Call :
        \/ Progress(c) \/ Watchdog(c)
        \/ Request(c) \/ Abort(c) \/ Overflow(c) \/ ChildError(c)
        \/ HelperExit(c) \/ HelperClose(c) \/ PipeError(c)

Spec == Init /\ [][Next]_vars

\* The event loop continues what can go on, and timers fire; the helper owes nothing.
Fairness == \A c \in Call : WF_vars(Progress(c)) /\ WF_vars(Watchdog(c))

FairSpec == Spec /\ Fairness

-----------------------------------------------------------------------------
(* Properties.                                                             *)

(* There is one helper at a time; one that may still be alive when its     *)
(* call has settled, and whose command may still change files, has         *)
(* poisoned the sandbox.                                                   *)
NoHelperUnnoticed ==
    /\ Cardinality({c \in Call : helper[c].state = "alive"}) <= 1
    /\ \A c \in Call : At(c, "settled") /\ helper[c].state = "alive" => poison

(* Every call settles, whatever its helper does, and those behind it with  *)
(* it: even when nothing ends a helper, neither by itself nor killed.      *)
EveryCallSettles == \A c \in Call : At(c, "checking") ~> At(c, "settled")
=============================================================================
