------------------------- MODULE ResourceLockProofs -------------------------
(***************************************************************************)
(* ResourceLock for every set of callers, signals and access sets.  The    *)
(* inductive invariant is the type invariant (with the order of the queue) *)
(* together with MutualExclusion and NoLostWakeup.  Every state change of  *)
(* the lock goes through Schedule, so the proofs have one lemma about      *)
(* Schedule for each property, and one step per action that applies it.    *)
(* The last part shows that the code's loop grants what Schedule grants.   *)
(***************************************************************************)
EXTENDS ResourceLock, FiniteSetTheorems, TLAPS

(* Overlap does not depend on the order of its arguments, so neither does  *)
(* the conflict of two access sets.                                        *)
LEMMA ConflictSymmetric ==
    \A A, B : AccessSetsConflict(A, B) <=> AccessSetsConflict(B, A)
  <1>1. \A a, b : ResourcesOverlap(a, b) <=> ResourcesOverlap(b, a)
    BY DEF ResourcesOverlap
  <1>2. QED
    BY <1>1 DEF AccessSetsConflict

(* Merging accesses keeps each resource and its strongest mode, so it      *)
(* changes no conflict (normalizeAccesses against accessSetsConflict).     *)
THEOREM NormalizePreservesConflict ==
    ASSUME NEW Rec, NEW A \in SUBSET Rec, NEW B \in SUBSET Rec,
           \E Namespace, Key, Scope :
               Rec = [namespace : Namespace, key : Key, mode : {"read", "write"}, scope : Scope]
    PROVE  AccessSetsConflict(NormalizeAccesses(A), B) <=> AccessSetsConflict(A, B)
  <1> DEFINE Merge(a) ==
        [a EXCEPT !.mode = IF \E b \in A : SameResource(a, b) /\ b.mode = "write"
                           THEN "write" ELSE "read"]
  <1> PICK Namespace, Key, Scope :
             Rec = [namespace : Namespace, key : Key, mode : {"read", "write"}, scope : Scope]
    OBVIOUS
  <1>1. NormalizeAccesses(A) = {Merge(a) : a \in A}
    BY DEF NormalizeAccesses
  <1>2. ASSUME NEW a \in A
        PROVE  /\ Merge(a).namespace = a.namespace
               /\ Merge(a).key = a.key
               /\ Merge(a).scope = a.scope
               /\ Merge(a).mode = IF \E b \in A : SameResource(a, b) /\ b.mode = "write"
                                  THEN "write" ELSE "read"
    OBVIOUS
  <1>3. ASSUME NEW a \in A, NEW b \in A, NEW r \in Rec, SameResource(a, b)
        PROVE  ResourcesOverlap(a, r) <=> ResourcesOverlap(b, r)
    BY <1>3 DEF SameResource, ResourcesOverlap
  <1>4. ASSUME NEW a \in A, NEW r \in Rec
        PROVE  ResourcesOverlap(Merge(a), r) <=> ResourcesOverlap(a, r)
    <2> HIDE DEF Merge
    <2> QED BY <1>2 DEF ResourcesOverlap
  <1>5. ASSUME AccessSetsConflict(A, B) PROVE AccessSetsConflict(NormalizeAccesses(A), B)
    <2>1. PICK a \in A, r \in B : /\ a.mode = "write" \/ r.mode = "write"
                                  /\ ResourcesOverlap(a, r)
      BY <1>5 DEF AccessSetsConflict
    <2>2. SameResource(a, a)
      BY DEF SameResource
    <2>3. Merge(a).mode = "write" \/ r.mode = "write"
      BY <1>2, <2>1, <2>2
    <2>4. Merge(a) \in NormalizeAccesses(A)
      BY <1>1
    <2> HIDE DEF Merge
    <2>5. QED
      BY <1>4, <2>1, <2>3, <2>4 DEF AccessSetsConflict
  <1>6. ASSUME AccessSetsConflict(NormalizeAccesses(A), B) PROVE AccessSetsConflict(A, B)
    <2> HIDE DEF Merge
    <2>1. PICK a \in A, r \in B : /\ Merge(a).mode = "write" \/ r.mode = "write"
                                  /\ ResourcesOverlap(Merge(a), r)
      BY <1>1, <1>6 DEF AccessSetsConflict
    <2>2. ResourcesOverlap(a, r)
      BY <1>4, <2>1
    <2>3. CASE r.mode = "write"
      BY <2>2, <2>3 DEF AccessSetsConflict
    <2>4. CASE Merge(a).mode = "write"
      <3>1. PICK b \in A : SameResource(a, b) /\ b.mode = "write"
        BY <1>2, <2>4
      <3>2. ResourcesOverlap(b, r)
        BY <1>3, <2>2, <3>1
      <3>3. QED
        BY <3>1, <3>2 DEF AccessSetsConflict
    <2>5. QED
      BY <2>1, <2>3, <2>4
  <1>7. QED
    BY <1>5, <1>6
-----------------------------------------------------------------------------
(* What every call of schedule() starts from: a queue of callers that hold *)
(* no lease, in an order, and leases that do not conflict.                 *)
Schedulable(queue, order, holders) ==
    /\ queue \in SUBSET Caller
    /\ holders \in SUBSET Caller
    /\ queue \cap holders = {}
    /\ order \in [Caller -> SUBSET Caller]
    /\ \A c \in Caller : order[c] \subseteq queue
    /\ \A c \in queue : c \notin order[c]
    /\ \A c, d \in queue : c # d => (c \in order[d] <=> d \notin order[c])
    /\ \A c, d \in queue : c \in order[d] => order[c] \subseteq order[d]

LEMMA ScheduleKeepsOrder ==
    ASSUME NEW queue, NEW order, NEW holders, NEW acc,
           Schedulable(queue, order, holders), Schedule(queue, order, holders, acc)
    PROVE  /\ pending' \in SUBSET Caller
           /\ active' \in SUBSET Caller
           /\ ahead' \in [Caller -> SUBSET Caller]
           /\ QueueOrder'
  <1> DEFINE granted == Grantable(queue, order, holders, acc)
  <1>1. granted \subseteq queue
    BY DEF Grantable
  <1>2. /\ pending' = queue \ granted
        /\ active' = holders \cup granted
        /\ ahead' = [c \in Caller |-> IF c \in queue \ granted
                                      THEN order[c] \ granted ELSE {}]
    BY DEF Schedule
  <1> HIDE DEF granted
  <1>3. /\ pending' \in SUBSET Caller
        /\ active' \in SUBSET Caller
        /\ ahead' \in [Caller -> SUBSET Caller]
    BY <1>1, <1>2 DEF Schedulable
  <1>4. /\ \A c \in pending' : ahead'[c] = order[c] \ granted
        /\ \A c \in Caller \ pending' : ahead'[c] = {}
    BY <1>1, <1>2, <1>3
  <1>5. QED
    BY <1>1, <1>2, <1>3, <1>4 DEF Schedulable, QueueOrder

LEMMA ScheduleKeepsExclusion ==
    ASSUME NEW queue, NEW order, NEW holders, NEW acc,
           Schedulable(queue, order, holders), Schedule(queue, order, holders, acc),
           \A c, d \in holders : c # d => ~AccessSetsConflict(acc[c], acc[d])
    PROVE  \A c, d \in active' : c # d => ~AccessSetsConflict(acc[c], acc[d])
  <1>1. SUFFICES ASSUME NEW c \in active', NEW d \in active', c # d
                 PROVE  ~AccessSetsConflict(acc[c], acc[d])
    OBVIOUS
  <1> DEFINE granted == Grantable(queue, order, holders, acc)
  <1>2. active' = holders \cup granted
    BY DEF Schedule
  <1>3. ASSUME NEW g \in granted, NEW h \in holders \cup order[g]
        PROVE  ~AccessSetsConflict(acc[g], acc[h]) /\ ~AccessSetsConflict(acc[h], acc[g])
    BY ConflictSymmetric DEF Grantable
  <1>4. granted \subseteq queue
    BY DEF Grantable
  <1> HIDE DEF granted
  <1>5. CASE c \in holders /\ d \in holders
    BY <1>1, <1>5
  <1>6. CASE c \in granted /\ d \in holders
    BY <1>3, <1>6
  <1>7. CASE c \in holders /\ d \in granted
    BY <1>3, <1>7
  <1>8. CASE c \in granted /\ d \in granted
    <2>1. c \in order[d] \/ d \in order[c]
      BY <1>1, <1>4, <1>8 DEF Schedulable
    <2>2. QED
      BY <1>3, <1>8, <2>1
  <1>9. QED
    BY <1>2, <1>5, <1>6, <1>7, <1>8

LEMMA ScheduleLeavesNoneGrantable ==
    ASSUME NEW queue, NEW order, NEW holders, NEW acc,
           Schedulable(queue, order, holders), Schedule(queue, order, holders, acc)
    PROVE  \A c \in pending' : \E d \in active' \cup ahead'[c] :
               AccessSetsConflict(acc[c], acc[d])
  <1> DEFINE granted == Grantable(queue, order, holders, acc)
  <1>1. SUFFICES ASSUME NEW c \in pending'
                 PROVE  \E d \in active' \cup ahead'[c] : AccessSetsConflict(acc[c], acc[d])
    OBVIOUS
  <1>2. /\ c \in queue /\ c \notin granted
        /\ active' = holders \cup granted
        /\ ahead'[c] = order[c] \ granted
    BY <1>1 DEF Schedule, Schedulable
  <1>3. PICK d \in holders \cup order[c] : AccessSetsConflict(acc[c], acc[d])
    BY <1>2 DEF Grantable
  <1>4. d \in active' \cup ahead'[c]
    BY <1>2, <1>3
  <1>5. QED
    BY <1>3, <1>4
-----------------------------------------------------------------------------
(* The inductive invariant: NoLostWakeup and MutualExclusion need the      *)
(* order of the queue, which TypeOK holds.                                 *)
LockInv == TypeOK /\ MutualExclusion /\ NoLostWakeup

(* How each operation calls schedule(): the argument is schedulable.       *)
LEMMA AcquireSchedules ==
    ASSUME TypeOK, NEW c \in Caller, c \notin pending \cup active
    PROVE  Schedulable(pending \cup {c}, [ahead EXCEPT ![c] = pending], active)
  <1>1. /\ pending \cup {c} \in SUBSET Caller
        /\ active \in SUBSET Caller
        /\ (pending \cup {c}) \cap active = {}
        /\ [ahead EXCEPT ![c] = pending] \in [Caller -> SUBSET Caller]
    BY DEF TypeOK, QueueOrder
  <1> DEFINE order == [ahead EXCEPT ![c] = pending]
  <1>2. order[c] = pending /\ \A d \in Caller : d # c => order[d] = ahead[d]
    BY DEF TypeOK
  <1> HIDE DEF order
  <1>3. QED
    BY <1>1, <1>2 DEF Schedulable, TypeOK, QueueOrder, order

LEMMA RemoveSchedules ==
    ASSUME TypeOK, NEW gone
    PROVE  /\ Schedulable(pending, ahead, active \ {gone})
           /\ Schedulable(pending \ {gone}, [d \in Caller |-> ahead[d] \ {gone}], active)
  <1>1. Schedulable(pending, ahead, active \ {gone})
    BY DEF Schedulable, TypeOK, QueueOrder
  <1> DEFINE order == [d \in Caller |-> ahead[d] \ {gone}]
  <1>2. /\ order \in [Caller -> SUBSET Caller]
        /\ \A d \in Caller : order[d] = ahead[d] \ {gone}
    BY DEF TypeOK
  <1> HIDE DEF order
  <1>3. Schedulable(pending \ {gone}, order, active)
    <2>1. /\ pending \in SUBSET Caller
          /\ active \in SUBSET Caller
          /\ QueueOrder
      BY DEF TypeOK
    <2>2. /\ \A c \in Caller : order[c] \subseteq pending \ {gone}
          /\ \A c \in pending \ {gone} : c \notin order[c]
      BY <1>2, <2>1 DEF QueueOrder
    <2>3. \A c, d \in pending \ {gone} : c # d => (c \in order[d] <=> d \notin order[c])
      BY <1>2, <2>1 DEF QueueOrder
    <2>4. \A c, d \in pending \ {gone} : c \in order[d] => order[c] \subseteq order[d]
      BY <1>2, <2>1 DEF QueueOrder
    <2>5. QED
      BY <1>2, <2>1, <2>2, <2>3, <2>4 DEF Schedulable, QueueOrder
  <1>4. QED
    BY <1>1, <1>3 DEF order

(* A new request changes no access set but its own.                        *)
LEMMA AcquireAccesses ==
    ASSUME TypeOK, NEW c \in Caller, NEW asked \in AccessSets, Acquire(c, asked)
    PROVE  /\ accesses' \in [Caller -> NormalizedSets \cup {{}}]
           /\ \A d \in Caller \ {c} : accesses'[d] = accesses[d]
  BY DEF TypeOK, Acquire, NormalizedSets

LEMMA InitLockInv == Init => LockInv
  BY DEF Init, LockInv, TypeOK, QueueOrder, MutualExclusion, NoLostWakeup

(* An operation that leaves the queue and the leases alone.                *)
LEMMA QuietStep ==
    ASSUME LockInv, UNCHANGED <<pending, ahead, active, accesses>>,
           aborted' \in SUBSET Signal, dispatching' \in aborted' \cup {NoSignal}
    PROVE  LockInv'
  BY DEF LockInv, TypeOK, QueueOrder, MutualExclusion, NoLostWakeup, Conflict

(* An operation that ends in schedule().                                   *)
LEMMA SchedulingStep ==
    ASSUME LockInv, NEW queue, NEW order, NEW holders,
           Schedulable(queue, order, holders),
           Schedule(queue, order, holders, accesses'),
           accesses' \in [Caller -> NormalizedSets \cup {{}}],
           \A c, d \in holders : c # d => ~AccessSetsConflict(accesses'[c], accesses'[d]),
           UNCHANGED <<aborted, dispatching>>
    PROVE  LockInv'
  <1>1. TypeOK'
    BY ScheduleKeepsOrder DEF LockInv, TypeOK
  <1>2. MutualExclusion'
    BY ScheduleKeepsExclusion DEF MutualExclusion, Conflict
  <1>3. NoLostWakeup'
    BY ScheduleLeavesNoneGrantable DEF NoLostWakeup, Conflict
  <1>4. QED
    BY <1>1, <1>2, <1>3 DEF LockInv

LEMMA NextLockInv == LockInv /\ [Next]_lockVars => LockInv'
  <1> SUFFICES ASSUME LockInv, [Next]_lockVars PROVE LockInv'
    OBVIOUS
  <1> USE DEF LockInv
  <1>1. ASSUME NEW c \in Caller, NEW asked \in AccessSets, Acquire(c, asked)
        PROVE  LockInv'
    <2>1. \A d, e \in active : d # e => ~AccessSetsConflict(accesses'[d], accesses'[e])
      BY <1>1, AcquireAccesses DEF MutualExclusion, Conflict, TypeOK, Acquire
    <2>2. Schedulable(pending \cup {c}, [ahead EXCEPT ![c] = pending], active)
      BY <1>1, AcquireSchedules DEF Acquire
    <2>3. accesses' \in [Caller -> NormalizedSets \cup {{}}]
      BY <1>1, AcquireAccesses
    <2>4. /\ Schedule(pending \cup {c}, [ahead EXCEPT ![c] = pending], active, accesses')
          /\ UNCHANGED <<aborted, dispatching>>
      BY <1>1 DEF Acquire
    <2> HIDE DEF LockInv
    <2>5. QED
      BY <2>1, <2>2, <2>3, <2>4, SchedulingStep
  <1>2. ASSUME NEW c \in Caller, Release(c)
        PROVE  LockInv'
    <2>1. Schedulable(pending, ahead, active \ {c})
      BY RemoveSchedules
    <2>2. Schedule(pending, ahead, active \ {c}, accesses')
      BY <1>2 DEF Release
    <2>3. QED
      BY <1>2, <2>1, <2>2, SchedulingStep DEF Release, TypeOK, MutualExclusion, Conflict
  <1>3. ASSUME NEW s \in Signal, Abort(s)
        PROVE  LockInv'
    BY <1>3, QuietStep DEF Abort, TypeOK
  <1>4. ASSUME NEW c \in Caller, OnAbort(c)
        PROVE  LockInv'
    <2>1. Schedulable(pending \ {c}, [d \in Caller |-> ahead[d] \ {c}], active)
      BY RemoveSchedules
    <2>2. Schedule(pending \ {c}, [d \in Caller |-> ahead[d] \ {c}], active, accesses')
      BY <1>4 DEF OnAbort
    <2>3. QED
      BY <1>4, <2>1, <2>2, SchedulingStep DEF OnAbort, TypeOK, MutualExclusion, Conflict
  <1>5. CASE DispatchDone
    BY <1>5, QuietStep DEF DispatchDone, TypeOK
  <1>6. ASSUME NEW s \in Signal, RenewSignal(s)
        PROVE  LockInv'
    BY <1>6, NoSignalAssumption, QuietStep DEF RenewSignal, TypeOK
  <1>7. CASE UNCHANGED lockVars
    BY <1>7, QuietStep DEF lockVars, TypeOK
  <1>8. QED
    BY <1>1, <1>2, <1>3, <1>4, <1>5, <1>6, <1>7 DEF Next

LEMMA LockInvariant == Spec => []LockInv
  BY InitLockInv, NextLockInv, PTL DEF Spec

(* The types of the lock's state, and the order of its queue.              *)
THEOREM TypeCorrect == Spec => []TypeOK
  BY LockInvariant, PTL DEF LockInv

(* Two leases held together never conflict, for any number of callers.     *)
THEOREM Exclusion == Spec => []MutualExclusion
  BY LockInvariant, PTL DEF LockInv

(* Whoever waits has a reason to: no release and no abort forgets to wake  *)
(* a request that has become grantable.                                    *)
THEOREM WakesAllGrantable == Spec => []NoLostWakeup
  BY LockInvariant, PTL DEF LockInv
-----------------------------------------------------------------------------
(* The order in which requests are served.                                 *)
LEMMA ScheduleServes ==
    ASSUME NEW queue, NEW order, NEW holders, NEW acc,
           Schedulable(queue, order, holders), Schedule(queue, order, holders, acc)
    PROVE  /\ \E served \in SUBSET queue : /\ pending' = queue \ served
                                          /\ active' = holders \cup served
           /\ \A c \in active' \ holders : \A d \in order[c] :
                 c \in queue /\ ~AccessSetsConflict(acc[c], acc[d])
  <1>1. Grantable(queue, order, holders, acc) \in SUBSET queue
    BY DEF Grantable
  <1>2. \A c \in active' \ holders : \A d \in order[c] :
            c \in queue /\ ~AccessSetsConflict(acc[c], acc[d])
    BY DEF Schedule, Grantable
  <1>3. QED
    BY <1>1, <1>2 DEF Schedule

LEMMA NextInOrder == LockInv /\ [Next]_lockVars => [InOrder]_lockVars
  <1> SUFFICES ASSUME LockInv, [Next]_lockVars, ~UNCHANGED lockVars,
                      NEW c \in active' \ active, NEW d \in pending \cap pending',
                      c \in pending => d \in ahead[c]
               PROVE  ~AccessSetsConflict(accesses'[c], accesses'[d])
    BY DEF InOrder
  <1> USE DEF LockInv
  <1>1. ASSUME NEW r \in Caller, NEW asked \in AccessSets, Acquire(r, asked)
        PROVE  ~AccessSetsConflict(accesses'[c], accesses'[d])
    <2> DEFINE order == [ahead EXCEPT ![r] = pending]
    <2>1. Schedulable(pending \cup {r}, order, active)
      BY <1>1, AcquireSchedules DEF Acquire
    <2>2. Schedule(pending \cup {r}, order, active, accesses')
      BY <1>1 DEF Acquire
    <2>3. c \in pending \cup {r}
      BY <2>2 DEF Schedule, Grantable
    <2>4. order[r] = pending /\ \A x \in Caller \ {r} : order[x] = ahead[x]
      BY DEF TypeOK
    <2> HIDE DEF order
    <2>5. d \in order[c]
      BY <1>1, <2>3, <2>4 DEF TypeOK, Acquire
    <2>6. QED
      BY <2>1, <2>2, <2>5, ScheduleServes
  <1>2. ASSUME NEW r \in Caller, Release(r)
        PROVE  ~AccessSetsConflict(accesses'[c], accesses'[d])
    <2>1. Schedule(pending, ahead, active \ {r}, accesses')
      BY <1>2 DEF Release
    <2>2. c \in pending
      BY <2>1 DEF Schedule, Grantable
    <2>3. Schedulable(pending, ahead, active \ {r})
      BY RemoveSchedules
    <2>4. QED
      BY <2>1, <2>2, <2>3, ScheduleServes
  <1>3. ASSUME NEW r \in Caller, OnAbort(r)
        PROVE  ~AccessSetsConflict(accesses'[c], accesses'[d])
    <2> DEFINE order == [x \in Caller |-> ahead[x] \ {r}]
    <2>1. Schedule(pending \ {r}, order, active, accesses')
      BY <1>3 DEF OnAbort
    <2>2. Schedulable(pending \ {r}, order, active)
      BY RemoveSchedules
    <2>3. c \in pending \ {r}
      BY <2>1 DEF Schedule, Grantable
    <2>4. d \in pending \ {r}
      BY <2>1 DEF Schedule
    <2>5. d \in order[c]
      BY <2>3, <2>4 DEF TypeOK
    <2> HIDE DEF order
    <2>6. QED
      BY <2>1, <2>2, <2>5, ScheduleServes
  <1>4. CASE UNCHANGED <<active>>
    BY <1>4
  <1>5. QED
    BY <1>1, <1>2, <1>3, <1>4
       DEF Next, Abort, DispatchDone, RenewSignal, lockVars

(* A granted request overtakes no conflicting request ahead of it.         *)
THEOREM ServedInOrder == Spec => NoOvertaking
  BY LockInvariant, NextInOrder, PTL DEF Spec, NoOvertaking
-----------------------------------------------------------------------------
(* Refinement: an Acquire step asks, a Release or OnAbort step leaves, and *)
(* the requests Schedule grants are the ones served with it.               *)
LEMMA StepServes ==
    ASSUME MutualExclusion', NEW queue, NEW order, NEW holders,
           Schedulable(queue, order, holders),
           Schedule(queue, order, holders, accesses')
    PROVE  Service!Serve(queue, holders, accesses')
  BY ScheduleServes DEF Service!Serve, Service!Exclusive, MutualExclusion, Conflict

LEMMA NextServes ==
    LockInv /\ LockInv' /\ [Next]_lockVars => [Service!Next]_(Service!serviceVars)
  <1> SUFFICES ASSUME LockInv, LockInv', [Next]_lockVars
               PROVE  Service!Next \/ UNCHANGED <<pending, active, accesses>>
    BY DEF Service!serviceVars
  <1> USE DEF LockInv
  <1>1. ASSUME NEW c \in Caller, NEW asked \in AccessSets, Acquire(c, asked)
        PROVE  Service!Next
    <2>1. Schedulable(pending \cup {c}, [ahead EXCEPT ![c] = pending], active)
      BY <1>1, AcquireSchedules DEF Acquire
    <2>2. Schedule(pending \cup {c}, [ahead EXCEPT ![c] = pending], active, accesses')
      BY <1>1 DEF Acquire
    <2>3. Service!Serve(pending \cup {c}, active, accesses')
      BY <2>1, <2>2, StepServes
    <2>4. \E n \in NormalizedSets : accesses' = [accesses EXCEPT ![c] = n]
      BY <1>1 DEF Acquire, NormalizedSets
    <2>5. QED
      BY <1>1, <2>3, <2>4 DEF Service!Next, Service!Ask, Acquire
  <1>2. ASSUME NEW c \in Caller, Release(c)
        PROVE  Service!Next
    <2>1. Schedule(pending, ahead, active \ {c}, accesses')
      BY <1>2 DEF Release
    <2>2. Service!Serve(pending, active \ {c}, accesses')
      BY <2>1, RemoveSchedules, StepServes
    <2>3. pending \ {c} = pending
      BY <1>2 DEF Release, TypeOK, QueueOrder
    <2>4. QED
      BY <1>2, <2>2, <2>3 DEF Service!Next, Service!Leave, Release
  <1>3. ASSUME NEW c \in Caller, OnAbort(c)
        PROVE  Service!Next
    <2>1. Schedule(pending \ {c}, [d \in Caller |-> ahead[d] \ {c}], active, accesses')
      BY <1>3 DEF OnAbort
    <2>2. Service!Serve(pending \ {c}, active, accesses')
      BY <2>1, RemoveSchedules, StepServes
    <2>3. active \ {c} = active
      BY <1>3 DEF OnAbort, TypeOK, QueueOrder
    <2>4. QED
      BY <1>3, <2>2, <2>3 DEF Service!Next, Service!Leave, OnAbort
  <1>4. QED
    BY <1>1, <1>2, <1>3 DEF Next, Abort, DispatchDone, RenewSignal, lockVars

(* The lock is an implementation of the service its callers rely on.       *)
THEOREM LockRefinesService == Spec => ImplementsLockService
  <1>1. Init => Service!Init
    BY DEF Init, Service!Init
  <1>2. QED
    BY <1>1, LockInvariant, NextServes, PTL
       DEF Spec, ImplementsLockService, Service!Spec

-----------------------------------------------------------------------------
(* What a conflict means.                                                  *)

LEMMA PrefixElements ==
  ASSUME NEW S, NEW s \in Seq(S), NEW t \in Seq(S)
  PROVE  IsPrefix(s, t) <=> Len(s) <= Len(t) /\ \A i \in 1..Len(s) : s[i] = t[i]
  BY DEF IsPrefix

\* Of two folders that a path is in, one is in the other.
LEMMA PrefixesAreComparable ==
  ASSUME NEW S, NEW s \in Seq(S), NEW t \in Seq(S), NEW u \in Seq(S),
         IsPrefix(s, u), IsPrefix(t, u)
  PROVE  IsPrefix(s, t) \/ IsPrefix(t, s)
<1>1. CASE Len(s) <= Len(t)
  BY <1>1, PrefixElements
<1>2. CASE Len(t) <= Len(s)
  BY <1>2, PrefixElements
<1> QED
  BY <1>1, <1>2

\* Any two sequences have a common range, so any keys can be compared.
LEMMA CommonKeys ==
  ASSUME NEW a, NEW b, NEW c, IsAccess(a), IsAccess(b), IsAccess(c)
  PROVE  \E S : a.key \in Seq(S) /\ b.key \in Seq(S) /\ c.key \in Seq(S)
<1> DEFINE S == Range(a.key) \cup Range(b.key) \cup Range(c.key)
<1>1. \A T \in SUBSET S : Seq(T) \subseteq Seq(S)
  OBVIOUS
<1> QED
  BY <1>1 DEF IsAccess

Askable(a) == IsAccess(a) /\ a.key \in NamedKeys

LEMMA OverlapIsCoverage ==
  ASSUME NEW a, NEW b, Askable(a), Askable(b)
  PROVE  ResourcesOverlap(a, b) <=> Covers(a) \cap Covers(b) # {}
<1>1. PICK S : a.key \in Seq(S) /\ b.key \in Seq(S)
  BY CommonKeys DEF Askable
<1>2. IsPrefix(a.key, a.key) /\ IsPrefix(b.key, b.key)
  BY <1>1, PrefixElements
<1>3. ASSUME ResourcesOverlap(a, b)
      PROVE  <<a.namespace, a.key>> \in Covers(a) \cap Covers(b)
             \/ <<b.namespace, b.key>> \in Covers(a) \cap Covers(b)
  BY <1>2, <1>3 DEF ResourcesOverlap, IsPathWithin, Covers, Askable
<1>4. ASSUME NEW x \in Covers(a) \cap Covers(b)
      PROVE  ResourcesOverlap(a, b)
  <2>1. PICK key : x = <<a.namespace, key>> /\ x = <<b.namespace, key>>
    BY <1>4 DEF Covers
  <2>2. CASE key = a.key \/ key = b.key
    BY <1>4, <2>1, <2>2 DEF Covers, ResourcesOverlap, IsPathWithin
  <2>3. CASE key \notin {a.key, b.key}
    <3>1. /\ a.namespace = "fs" /\ a.scope = "subtree" /\ b.scope = "subtree" /\ b.namespace = "fs"
          /\ key \in NamedKeys /\ IsPrefix(a.key, key) /\ IsPrefix(b.key, key)
      BY <1>4, <2>1, <2>3 DEF Covers
    <3>2. PICK c : IsAccess(c) /\ c.key = key
      BY <3>1, AccessSetsAssumption DEF NamedKeys
    <3>3. PICK T : a.key \in Seq(T) /\ b.key \in Seq(T) /\ key \in Seq(T)
      BY <3>2, CommonKeys DEF Askable
    <3>4. IsPrefix(a.key, b.key) \/ IsPrefix(b.key, a.key)
      BY <3>1, <3>3, PrefixesAreComparable
    <3> QED
      BY <3>1, <3>4 DEF ResourcesOverlap, IsPathWithin
  <2> QED
    BY <2>2, <2>3
<1> QED
  BY <1>3, <1>4

LEMMA ConflictOfSets ==
  ASSUME NEW l, NEW r, \A a \in l : Askable(a), \A a \in r : Askable(a)
  PROVE  AccessSetsConflict(l, r)
            <=> Written(l) \cap Touched(r) # {} \/ Touched(l) \cap Written(r) # {}
<1>1. ASSUME NEW first \in l, NEW second \in r
      PROVE  ResourcesOverlap(first, second) <=> Covers(first) \cap Covers(second) # {}
  BY OverlapIsCoverage
<1>2. ASSUME AccessSetsConflict(l, r)
      PROVE  Written(l) \cap Touched(r) # {} \/ Touched(l) \cap Written(r) # {}
  <2>1. PICK first \in l, second \in r : /\ first.mode = "write" \/ second.mode = "write"
                                         /\ ResourcesOverlap(first, second)
    BY <1>2 DEF AccessSetsConflict
  <2>2. PICK x : x \in Covers(first) /\ x \in Covers(second)
    BY <1>1, <2>1
  <2> QED
    BY <2>1, <2>2 DEF Written, Touched
<1>3. ASSUME NEW first \in l, NEW second \in r, NEW x, x \in Covers(first), x \in Covers(second),
             first.mode = "write" \/ second.mode = "write"
      PROVE  AccessSetsConflict(l, r)
  <2>1. ResourcesOverlap(first, second)
    BY <1>1, <1>3
  <2> QED
    BY <1>3, <2>1 DEF AccessSetsConflict
<1>4. ASSUME NEW x, \/ (x \in Written(l) /\ x \in Touched(r))
                    \/ (x \in Touched(l) /\ x \in Written(r))
      PROVE  AccessSetsConflict(l, r)
  BY <1>3, <1>4 DEF Written, Touched
<1> QED
  BY <1>2, <1>4

\* Merging keeps the resources, so what a caller holds was asked for.
LEMMA NormalizedIsAskable ==
  ASSUME NEW accs \in NormalizedSets \cup {{}}, NEW a \in accs
  PROVE  Askable(a)
<1>1. PICK asked \in AccessSets : accs = NormalizeAccesses(asked)
  BY DEF NormalizedSets
<1>2. PICK b \in asked, m \in {"read", "write"} : a = [b EXCEPT !.mode = m]
  BY <1>1 DEF NormalizeAccesses
<1>3. IsAccess(b) /\ b.key \in NamedKeys
  BY AccessSetsAssumption DEF NamedKeys
<1>4. a.namespace = b.namespace /\ a.key = b.key /\ a.scope = b.scope /\ a.mode = m
  BY <1>2, <1>3 DEF IsAccess
<1>5. a \in [namespace : {b.namespace}, key : {b.key}, mode : {"read", "write"}, scope : {b.scope}]
  BY <1>2, <1>3 DEF IsAccess
<1> QED
  BY <1>3, <1>4, <1>5 DEF IsAccess, Askable

(* Conflicts are what they are for: for any paths and names, two requests  *)
(* exclude each other exactly when one of them writes something that both  *)
(* touch (accessSetsConflict, resourcesOverlap).                           *)
THEOREM ConflictsAreSharedWrites == Spec => []ConflictIsSharedWrite
<1>1. TypeOK => ConflictIsSharedWrite
  <2> SUFFICES ASSUME TypeOK, NEW c \in Caller, NEW d \in Caller
               PROVE  Conflict(c, d) <=> \/ Written(accesses[c]) \cap Touched(accesses[d]) # {}
                                         \/ Touched(accesses[c]) \cap Written(accesses[d]) # {}
    BY DEF ConflictIsSharedWrite
  <2>1. /\ accesses[c] \in NormalizedSets \cup {{}}
        /\ accesses[d] \in NormalizedSets \cup {{}}
    BY DEF TypeOK
  <2>2. /\ \A a \in accesses[c] : Askable(a)
        /\ \A a \in accesses[d] : Askable(a)
    BY <2>1, NormalizedIsAskable
  <2> QED
    BY <2>2, ConflictOfSets DEF Conflict
<1> QED
  BY <1>1, TypeCorrect, PTL
-----------------------------------------------------------------------------
(* The loop of schedule().                                                 *)

LEMMA LeastNumber ==
  ASSUME NEW T \in SUBSET Nat, T # {}
  PROVE  \E n \in T : \A m \in T : n <= m
<1>1. PICK n \in T : \A m \in T : ~(<<m, n>> \in OpToRel(<, Nat))
  BY NatLessThanWellFounded, WFMin
<1>2. \A m \in T : ~(m < n)
  BY <1>1 DEF OpToRel
<1> QED
  BY <1>2

\* What schedule() has made of the queue and the leases once it has granted some.
Granting(queue, holders, some) == [queue |-> queue \ some, holders |-> holders \cup some]

\* Granting a request changes what is eligible only by that request.
LEMMA EligibleOnTheWay ==
  ASSUME NEW queue, NEW order, NEW holders, NEW acc, Schedulable(queue, order, holders),
         NEW some \in SUBSET Grantable(queue, order, holders, acc)
  PROVE  Eligible(queue \ some, order, holders \cup some, acc)
            = Grantable(queue, order, holders, acc) \ some
<1> DEFINE granted == Grantable(queue, order, holders, acc)
<1>1. /\ granted \subseteq queue
      /\ \A c \in queue : c \in granted
            <=> \A d \in holders \cup order[c] : ~AccessSetsConflict(acc[c], acc[d])
  BY DEF Grantable
<1> HIDE DEF granted
<1>2. ASSUME NEW c \in granted \ some
      PROVE  /\ \A d \in holders \cup some : ~AccessSetsConflict(acc[c], acc[d])
             /\ \A d \in order[c] : ~AccessSetsConflict(acc[c], acc[d])
  <2>1. ASSUME NEW d \in some PROVE ~AccessSetsConflict(acc[c], acc[d])
    <3>1. c \in queue /\ d \in queue /\ c # d /\ d \in granted
      BY <1>1, <1>2, <2>1 DEF granted
    <3>2. d \in order[c] \/ c \in order[d]
      BY <3>1 DEF Schedulable
    <3> QED
      BY <1>1, <1>2, <3>1, <3>2, ConflictSymmetric
  <2> QED
    BY <1>1, <1>2, <2>1
<1>3. ASSUME NEW c \in queue \ some,
             \A d \in holders \cup some : ~AccessSetsConflict(acc[c], acc[d]),
             \A d \in order[c] \cap (queue \ some) : ~AccessSetsConflict(acc[c], acc[d])
      PROVE  c \in granted
  <2>1. order[c] \subseteq queue
    BY <1>3 DEF Schedulable
  <2> QED
    BY <1>1, <1>3, <2>1
<1> QED
  BY <1>1, <1>2, <1>3 DEF Eligible, granted

\* Some request of any set of waiting ones is the first of them.
LEMMA FirstExists ==
  ASSUME NEW queue, NEW order, NEW holders, Schedulable(queue, order, holders),
         IsFiniteSet(queue), NEW some \in SUBSET queue, some # {}
  PROVE  \E c \in some : order[c] \cap some = {}
<1> DEFINE rank(c) == Cardinality(order[c] \cap some)
           T == {rank(c) : c \in some}
<1>1. \A c \in some : IsFiniteSet(order[c] \cap some)
  <2>1. \A c \in some : order[c] \cap some \in SUBSET queue
    OBVIOUS
  <2> QED
    BY <2>1, FS_Subset
<1>2. \A c \in some : rank(c) \in Nat
  BY <1>1, FS_CardinalityType
<1>3. PICK c \in some : \A d \in some : rank(c) <= rank(d)
  <2>1. T \in SUBSET Nat /\ T # {}
    BY <1>2
  <2>2. PICK n \in T : \A m \in T : n <= m
    BY <2>1, LeastNumber
  <2> QED
    BY <2>2
<1>4. ASSUME NEW d \in order[c] \cap some PROVE FALSE
  <2>1. order[d] \subseteq order[c] /\ d \notin order[d]
    BY <1>4 DEF Schedulable
  <2>2. order[d] \cap some \in SUBSET (order[c] \cap some) /\ order[d] \cap some # order[c] \cap some
    BY <1>4, <2>1
  <2>3. rank(d) <= rank(c) /\ rank(c) # rank(d)
    BY <1>1, <2>2, FS_Subset
  <2> QED
    BY <1>2, <1>3, <2>3
<1> QED
  BY <1>4

\* A turn grants one more request, until all that are grantable have been granted.
LEMMA TurnGrantsOne ==
  ASSUME NEW queue, NEW order, NEW holders, NEW acc, Schedulable(queue, order, holders),
         IsFiniteSet(queue), NEW some \in SUBSET Grantable(queue, order, holders, acc)
  PROVE  \/ /\ some = Grantable(queue, order, holders, acc)
            /\ Turn(Granting(queue, holders, some), order, acc) = Granting(queue, holders, some)
         \/ \E c \in Grantable(queue, order, holders, acc) \ some :
               Turn(Granting(queue, holders, some), order, acc)
                  = Granting(queue, holders, some \cup {c})
<1> DEFINE granted == Grantable(queue, order, holders, acc)
           lock == Granting(queue, holders, some)
           first == CHOOSE c \in granted \ some : order[c] \cap (granted \ some) = {}
<1>1. granted \subseteq queue
  BY DEF Grantable
<1>2. lock.queue = queue \ some /\ lock.holders = holders \cup some
  BY DEF Granting
<1>3. Eligible(lock.queue, order, lock.holders, acc) = granted \ some
  BY <1>2, EligibleOnTheWay
<1>4. Turn(lock, order, acc) = IF granted \ some = {} THEN lock
                               ELSE [queue |-> lock.queue \ {first},
                                     holders |-> lock.holders \cup {first}]
  <2> HIDE DEF granted, lock
  <2> QED
    BY <1>3 DEF Turn
<1>5. CASE granted \ some = {}
  BY <1>4, <1>5
<1>6. CASE granted \ some # {}
  <2>1. first \in granted \ some
    <3>1. \E c \in granted \ some : order[c] \cap (granted \ some) = {}
      <4>1. \A rest \in SUBSET queue :
                rest # {} => \E c \in rest : order[c] \cap rest = {}
        BY FirstExists
      <4>2. granted \ some \in SUBSET queue
        BY <1>1
      <4> HIDE DEF granted
      <4> QED
        BY <1>6, <4>1, <4>2
    <3> QED
      BY <3>1
  <2>2. Turn(lock, order, acc) = Granting(queue, holders, some \cup {first})
    <3>1. /\ lock.queue \ {first} = queue \ (some \cup {first})
          /\ lock.holders \cup {first} = holders \cup (some \cup {first})
      BY <1>2
    <3> HIDE DEF first, lock, granted
    <3> QED
      BY <1>4, <1>6, <3>1 DEF Granting
  <2> QED
    BY <2>1, <2>2
<1> QED
  BY <1>5, <1>6

\* The turns of the loop, one after the other.
AreTurns(turns, n, queue, order, holders, acc) ==
    turns = [i \in 0..n |-> IF i = 0 THEN [queue |-> queue, holders |-> holders]
                            ELSE Turn(turns[i - 1], order, acc)]

LEMMA TurnsExist ==
  ASSUME NEW queue, NEW order, NEW holders, NEW acc, NEW n \in Nat
  PROVE  \E turns : AreTurns(turns, n, queue, order, holders, acc)
<1> DEFINE Exist(k) == \E turns : AreTurns(turns, k, queue, order, holders, acc)
           T == {k \in Nat : ~Exist(k)}
           start == [queue |-> queue, holders |-> holders]
<1>1. Exist(0)
  <2> DEFINE turns == [i \in 0..0 |-> start]
  <2>1. \A i \in 0..0 : i = 0
    OBVIOUS
  <2>2. AreTurns(turns, 0, queue, order, holders, acc)
    BY <2>1 DEF AreTurns
  <2> QED
    BY <2>2
<1>2. ASSUME NEW k \in Nat, Exist(k) PROVE Exist(k + 1)
  <2>1. PICK turns : AreTurns(turns, k, queue, order, holders, acc)
    BY <1>2
  <2> DEFINE more == [i \in 0..(k+1) |-> IF i = k + 1 THEN Turn(turns[k], order, acc) ELSE turns[i]]
  <2>2. ASSUME NEW i \in 0..(k+1)
        PROVE  more[i] = IF i = 0 THEN start ELSE Turn(more[i - 1], order, acc)
    <3>1. CASE i = k + 1
      <4>1. i # 0 /\ i - 1 = k /\ k \in 0..(k+1) /\ k # k + 1
        BY <3>1
      <4> QED
        BY <3>1, <4>1
    <3>2. CASE i # k + 1
      <4>1. i \in 0..k /\ more[i] = turns[i]
        BY <3>2
      <4>2. turns[i] = IF i = 0 THEN start ELSE Turn(turns[i - 1], order, acc)
        BY <2>1, <4>1 DEF AreTurns
      <4>3. i # 0 => i - 1 \in 0..(k+1) /\ i - 1 # k + 1
        BY <4>1
      <4> QED
        BY <4>1, <4>2, <4>3
    <3> QED
      BY <3>1, <3>2
  <2>3. AreTurns(more, k + 1, queue, order, holders, acc)
    <3>1. more = [i \in 0..(k+1) |-> more[i]]
      OBVIOUS
    <3> HIDE DEF more
    <3> QED
      BY <2>2, <3>1 DEF AreTurns
  <2> QED
    BY <2>3
<1> HIDE DEF Exist
<1>3. T = {}
  <2> SUFFICES ASSUME T # {} PROVE FALSE
    OBVIOUS
  <2>1. PICK k \in T : \A m \in T : k <= m
    BY LeastNumber
  <2>2. k \in Nat /\ k # 0 /\ k - 1 \in Nat /\ k - 1 \notin T
    BY <1>1, <2>1
  <2>3. Exist((k - 1) + 1)
    BY <1>2, <2>2
  <2> QED
    BY <2>1, <2>2, <2>3
<1> QED
  BY <1>3 DEF Exist

\* After each turn, the requests granted so far are grantable, and one more than
\* before unless they are all of them.
LEMMA TurnsGrant ==
  ASSUME NEW queue, NEW order, NEW holders, NEW acc, Schedulable(queue, order, holders),
         IsFiniteSet(queue), NEW n \in Nat, NEW turns,
         AreTurns(turns, n, queue, order, holders, acc), NEW i \in 0..n
  PROVE  \E some \in SUBSET Grantable(queue, order, holders, acc) :
            /\ turns[i] = Granting(queue, holders, some)
            /\ some = Grantable(queue, order, holders, acc) \/ Cardinality(some) = i
<1> DEFINE granted == Grantable(queue, order, holders, acc)
           Holds(k) == \E some \in SUBSET granted :
                          /\ turns[k] = Granting(queue, holders, some)
                          /\ some = granted \/ Cardinality(some) = k
           T == {k \in 0..n : ~Holds(k)}
<1>1. /\ turns[0] = [queue |-> queue, holders |-> holders]
      /\ \A k \in 1..n : turns[k] = Turn(turns[k - 1], order, acc)
  <2>1. 0 \in 0..n /\ \A k \in 1..n : k \in 0..n /\ k # 0
    OBVIOUS
  <2> QED
    BY <2>1 DEF AreTurns
<1>2. \A some \in SUBSET granted : IsFiniteSet(some)
  <2>1. granted \subseteq queue
    BY DEF Grantable
  <2> QED
    BY <2>1, FS_Subset
<1>3. Holds(0)
  <2>1. turns[0] = Granting(queue, holders, {})
    BY <1>1 DEF Granting
  <2>2. Cardinality({}) = 0
    BY FS_EmptySet
  <2> QED
    BY <2>1, <2>2
<1>4. ASSUME NEW k \in 1..n, Holds(k - 1) PROVE Holds(k)
  <2>1. PICK some \in SUBSET granted : /\ turns[k - 1] = Granting(queue, holders, some)
                                       /\ some = granted \/ Cardinality(some) = k - 1
    BY <1>4
  <2>2. turns[k] = Turn(Granting(queue, holders, some), order, acc)
    BY <1>1, <2>1
  <2>3. CASE some = granted /\ turns[k] = Granting(queue, holders, some)
    BY <2>3
  <2>4. ASSUME NEW c \in granted \ some, turns[k] = Granting(queue, holders, some \cup {c})
        PROVE  Holds(k)
    <3>1. Cardinality(some) = k - 1
      BY <2>1, <2>4
    <3>2. Cardinality(some \cup {c}) = k
      <4>1. c \notin some /\ IsFiniteSet(some)
        BY <1>2, <2>4
      <4>2. Cardinality(some \cup {c}) = Cardinality(some) + 1
        BY <4>1, FS_AddElement
      <4> QED
        BY <3>1, <4>2
    <3>3. some \cup {c} \in SUBSET granted
      BY <2>4
    <3> HIDE DEF granted
    <3> QED
      BY <2>4, <3>2, <3>3
  <2> QED
    BY <2>2, <2>3, <2>4, TurnGrantsOne
<1> HIDE DEF Holds
<1>5. T = {}
  <2> SUFFICES ASSUME T # {} PROVE FALSE
    OBVIOUS
  <2>1. PICK k \in T : \A m \in T : k <= m
    <3>1. T \in SUBSET Nat
      OBVIOUS
    <3> QED
      BY <3>1, LeastNumber
  <2>2. k \in 1..n /\ k - 1 \in 0..n /\ k - 1 \notin T
    BY <1>3, <2>1
  <2>3. Holds(k)
    BY <1>4, <2>2
  <2> QED
    BY <2>1, <2>3
<1> QED
  BY <1>5 DEF Holds

(* The loop ends, having granted what Schedule grants at once, and leaves  *)
(* nothing that another turn would grant.                                  *)
LEMMA LoopIsSchedule ==
  ASSUME NEW queue, NEW order, NEW holders, NEW acc, Schedulable(queue, order, holders),
         IsFiniteSet(queue)
  PROVE  /\ ScheduleLoop(queue, order, holders, acc)
               = Granting(queue, holders, Grantable(queue, order, holders, acc))
         /\ Eligible(ScheduleLoop(queue, order, holders, acc).queue, order,
                     ScheduleLoop(queue, order, holders, acc).holders, acc) = {}
<1> DEFINE granted == Grantable(queue, order, holders, acc)
           n == Cardinality(queue)
           turns == CHOOSE t : AreTurns(t, n, queue, order, holders, acc)
<1>1. n \in Nat
  BY FS_CardinalityType
<1>2. ScheduleLoop(queue, order, holders, acc) = turns[n]
  BY DEF ScheduleLoop, AreTurns
<1>3. AreTurns(turns, n, queue, order, holders, acc)
  BY <1>1, TurnsExist
<1> HIDE DEF turns
<1>4. PICK some \in SUBSET granted : /\ turns[n] = Granting(queue, holders, some)
                                     /\ some = granted \/ Cardinality(some) = n
  <2>1. n \in 0..n
    BY <1>1
  <2> QED
    BY <1>1, <1>3, <2>1, TurnsGrant
<1>5. some = granted
  <2>1. granted \subseteq queue
    BY DEF Grantable
  <2>2. Cardinality(some) = n => some = queue
    BY <2>1, FS_Subset
  <2> QED
    BY <1>4, <2>1, <2>2
<1>6. Eligible(queue \ granted, order, holders \cup granted, acc) = granted \ granted
  BY EligibleOnTheWay
<1>7. /\ Granting(queue, holders, granted).queue = queue \ granted
      /\ Granting(queue, holders, granted).holders = holders \cup granted
  BY DEF Granting
<1> HIDE DEF granted
<1> QED
  BY <1>2, <1>4, <1>5, <1>6, <1>7 DEF granted

\* Only finitely many requests wait, however many callers there are.
QueueIsFinite == IsFiniteSet(pending)

LEMMA NextQueueIsFinite == QueueIsFinite /\ [Next]_lockVars => QueueIsFinite'
<1> SUFFICES ASSUME QueueIsFinite, [Next]_lockVars PROVE QueueIsFinite'
  OBVIOUS
<1>1. ASSUME NEW c, pending' \subseteq pending \cup {c} PROVE QueueIsFinite'
  <2>1. IsFiniteSet(pending \cup {c})
    BY FS_AddElement DEF QueueIsFinite
  <2> QED
    BY <1>1, <2>1, FS_Subset DEF QueueIsFinite
<1>2. CASE pending' \subseteq pending
  BY <1>2, FS_Subset DEF QueueIsFinite
<1>3. ASSUME NEW c \in Caller, NEW asked \in AccessSets, Acquire(c, asked)
      PROVE  pending' \subseteq pending \cup {c}
  BY <1>3 DEF Acquire, Schedule
<1>4. ASSUME NEW c \in Caller, Release(c) \/ OnAbort(c)
      PROVE  pending' \subseteq pending
  BY <1>4 DEF Release, OnAbort, Schedule
<1>5. CASE UNCHANGED pending
  BY <1>2, <1>5
<1> QED
  BY <1>1, <1>2, <1>3, <1>4, <1>5 DEF Next, Abort, DispatchDone, RenewSignal, lockVars

LEMMA FiniteQueue == Spec => []QueueIsFinite
<1>1. Init => QueueIsFinite
  BY FS_EmptySet DEF Init, QueueIsFinite
<1> QED
  BY <1>1, NextQueueIsFinite, PTL DEF Spec

(* The code's loop, which grants one request per turn and starts over,     *)
(* ends with exactly what Schedule, and so every other theorem about the   *)
(* lock, takes it to grant (schedule, resourceLock.ts:82).                 *)
THEOREM LoopGrants == Spec => []LoopGrantsTheGrantable
<1>1. TypeOK /\ QueueIsFinite => LoopGrantsTheGrantable
  <2> SUFFICES ASSUME TypeOK, QueueIsFinite,
                      NEW waiting \in SUBSET pending, NEW holders \in SUBSET active
      PROVE  LET order   == [c \in Caller |-> ahead[c] \cap waiting]
                 granted == Grantable(waiting, order, holders, accesses)
                 loop    == ScheduleLoop(waiting, order, holders, accesses)
             IN  /\ loop = [queue |-> waiting \ granted, holders |-> holders \cup granted]
                 /\ Eligible(loop.queue, order, loop.holders, accesses) = {}
    BY DEF LoopGrantsTheGrantable
  <2> DEFINE order == [c \in Caller |-> ahead[c] \cap waiting]
  <2>1. /\ order \in [Caller -> SUBSET Caller]
        /\ \A c \in Caller : order[c] = ahead[c] \cap waiting
    BY DEF TypeOK
  <2> HIDE DEF order
  <2>2. Schedulable(waiting, order, holders)
    BY <2>1 DEF TypeOK, QueueOrder, Schedulable
  <2>3. IsFiniteSet(waiting)
    BY FS_Subset DEF QueueIsFinite
  <2> QED
    BY <2>2, <2>3, LoopIsSchedule DEF Granting, order
<1> QED
  BY <1>1, FiniteQueue, TypeCorrect, PTL
=============================================================================
