-------------------------- MODULE ToolRunnerProofs --------------------------
(***************************************************************************)
(* Proofs about ToolRunner, for any numbers of calls, any responses and    *)
(* any files behind the link.  The runner only ever takes steps of the     *)
(* lock, so the leases it works under exclude each other by what           *)
(* ResourceLockProofs shows of the lock; what is left to show is that the  *)
(* lease a running call holds covers what it touches now, and that its     *)
(* authorization still stands.                                             *)
(***************************************************************************)
EXTENDS ToolRunner, TLAPS

LockProofs == INSTANCE ResourceLockProofs
    WITH Caller <- Call, Signal <- Agents, SignalOf <- Owner,
         AccessSets <- PossiblePlans

Outstanding == {"waiting", "authorized", "running"}

Keys ==
    Targets \cup {<<Last(t)>> : t \in Targets} \cup {<<a>> : a \in Agents}
        \cup {Workspace, <<"windows-sandbox">>, <<"server">>, <<"opaque-tools">>}

Namespaces == {"fs", "fs-identity", "session", "mcp", "runtime"}
Scopes == {"exact", "subtree"}

Accesses ==
    [namespace : Namespaces, key : Keys, mode : {"read", "write"}, scope : Scopes]

\* The plan of a tool of an agent, with the link at a target.
PlanOf(t, a, target) == PlanToolAccesses(DeclaredAccesses(t, a, target), a)

TypeOK ==
    /\ tool \in [Call -> Tools]
    /\ phase \in [Call -> Phases]
    /\ mode \in [Agents -> {"normal", "plan"}]
    /\ link \in Targets
    /\ planned \in [Call -> SUBSET Accesses]

(* A call plans for where the link was at some moment.                     *)
PlansMade ==
    \A c \in Call : phase[c] \notin {"idle"} \cup SettledPhases =>
        \E target \in Targets : planned[c] = PlanOf(tool[c], Owner[c], target)

(* Who is in the lock asked for what it has planned, and only a call that  *)
(* holds its lease goes on.                                                *)
Leases ==
    /\ \A c \in Call : phase[c] \in {"authorized", "running"} => c \in active
    /\ \A c \in pending \cup active :
          phase[c] \in Outstanding /\ accesses[c] = NormalizeAccesses(planned[c])

(* The authorization of a call that goes on holds in the mode of now, and  *)
(* the plan of a running call is still that of now.                        *)
Current ==
    /\ \A c \in Call :
          phase[c] \in {"authorized", "running"} => Authorized(tool[c], mode[Owner[c]])
    /\ \A c \in Call :
          phase[c] = "running" => ResourceAccessSetsEqual(planned[c], CurrentPlan(c))

RunnerInv == TypeOK /\ PlansMade /\ Leases /\ Current

-----------------------------------------------------------------------------
(* The lock of the runner is the one ResourceLockProofs is about.          *)

LEMMA SameConflict ==
  /\ \A A, B : LockProofs!AccessSetsConflict(A, B) <=> AccessSetsConflict(A, B)
  /\ \A A, B : Lock!AccessSetsConflict(A, B) <=> AccessSetsConflict(A, B)
  BY DEF AccessSetsConflict, ResourcesOverlap, IsPathWithin, IsPrefix,
     Lock!AccessSetsConflict, Lock!ResourcesOverlap, Lock!IsPathWithin, Lock!IsPrefix,
     LockProofs!AccessSetsConflict, LockProofs!ResourcesOverlap, LockProofs!IsPathWithin,
     LockProofs!IsPrefix

LEMMA SameNormalization ==
  /\ \A A : LockProofs!NormalizeAccesses(A) = NormalizeAccesses(A)
  /\ \A A : Lock!NormalizeAccesses(A) = NormalizeAccesses(A)
  BY DEF NormalizeAccesses, SameResource, Lock!NormalizeAccesses, Lock!SameResource,
     LockProofs!NormalizeAccesses, LockProofs!SameResource

LEMMA SameLock ==
  /\ Lock!Init <=> LockProofs!Init
  /\ \A c \in Call : \A asked : Lock!Acquire(c, asked) <=> LockProofs!Acquire(c, asked)
  /\ \A c \in Call : Lock!Release(c) <=> LockProofs!Release(c)
  /\ \A c \in Call : Lock!OnAbort(c) <=> LockProofs!OnAbort(c)
  /\ \A a \in Agents : Lock!Abort(a) <=> LockProofs!Abort(a)
  /\ \A a \in Agents : Lock!RenewSignal(a) <=> LockProofs!RenewSignal(a)
  /\ Lock!DispatchDone <=> LockProofs!DispatchDone
<1>0. \A queue, order, holders, acc : Lock!Schedule(queue, order, holders, acc)
                                      <=> LockProofs!Schedule(queue, order, holders, acc)
  BY SameConflict DEF Lock!Schedule, LockProofs!Schedule, Lock!Grantable, LockProofs!Grantable
<1> USE <1>0, SameNormalization
<1>1. Lock!Init <=> LockProofs!Init
  BY DEF Lock!Init, LockProofs!Init
<1>2. \A c \in Call : \A asked : Lock!Acquire(c, asked) <=> LockProofs!Acquire(c, asked)
  BY DEF Lock!Acquire, LockProofs!Acquire
<1>3. \A c \in Call : Lock!Release(c) <=> LockProofs!Release(c)
  BY DEF Lock!Release, LockProofs!Release
<1>4. \A c \in Call : Lock!OnAbort(c) <=> LockProofs!OnAbort(c)
  BY DEF Lock!OnAbort, LockProofs!OnAbort
<1>5. /\ \A a \in Agents : Lock!Abort(a) <=> LockProofs!Abort(a)
      /\ \A a \in Agents : Lock!RenewSignal(a) <=> LockProofs!RenewSignal(a)
      /\ Lock!DispatchDone <=> LockProofs!DispatchDone
  BY DEF Lock!Abort, LockProofs!Abort, Lock!RenewSignal, LockProofs!RenewSignal,
     Lock!DispatchDone, LockProofs!DispatchDone
<1> QED
  BY <1>1, <1>2, <1>3, <1>4, <1>5

(* What the operations do to the members of the lock.                      *)
LEMMA ScheduleEffect ==
  ASSUME NEW queue, NEW order, NEW holders, NEW acc, Lock!Schedule(queue, order, holders, acc)
  PROVE  /\ pending' \cup active' = queue \cup holders
         /\ holders \subseteq active'
  BY DEF Lock!Schedule, Lock!Grantable

LEMMA AcquireEffect ==
  ASSUME LockProofs!TypeOK, NEW c \in Call, NEW asked, Lock!Acquire(c, asked)
  PROVE  /\ c \notin pending \cup active
         /\ pending' \cup active' = pending \cup active \cup {c}
         /\ active \subseteq active'
         /\ accesses'[c] = NormalizeAccesses(asked)
         /\ \A d \in Call \ {c} : accesses'[d] = accesses[d]
  BY ScheduleEffect, SameNormalization DEF Lock!Acquire, LockProofs!TypeOK

LEMMA ReleaseEffect ==
  ASSUME LockProofs!TypeOK, NEW c \in Call, Lock!Release(c)
  PROVE  /\ pending' \cup active' = (pending \cup active) \ {c}
         /\ active \ {c} \subseteq active' /\ c \in active
         /\ accesses' = accesses
  BY ScheduleEffect DEF Lock!Release, LockProofs!TypeOK, LockProofs!QueueOrder

LEMMA DispatchEffect ==
  ASSUME LockProofs!TypeOK, Lock!DispatchDone \/ \E c \in Call : Lock!OnAbort(c)
  PROVE  /\ pending' \cup active' \subseteq pending \cup active
         /\ active \subseteq active'
         /\ accesses' = accesses
<1>1. CASE Lock!DispatchDone
  BY <1>1 DEF Lock!DispatchDone
<1>2. ASSUME NEW c \in Call, Lock!OnAbort(c)
      PROVE  /\ pending' \cup active' \subseteq pending \cup active
             /\ active \subseteq active'
             /\ accesses' = accesses
  <2>1. Lock!Schedule(pending \ {c}, [d \in Call |-> ahead[d] \ {c}], active, accesses)
    BY <1>2 DEF Lock!OnAbort
  <2> QED
    BY <1>2, <2>1, ScheduleEffect DEF Lock!OnAbort
<1> QED
  BY <1>1, <1>2

-----------------------------------------------------------------------------
(* Plans.                                                                  *)

LEMMA AccessIsTyped ==
  ASSUME NEW ns \in Namespaces, NEW key \in Keys, NEW m \in {"read", "write"}, NEW scope \in Scopes
  PROVE  /\ Access(ns, key, m, scope) \in Accesses
         /\ Access(ns, key, m, scope).namespace = ns /\ Access(ns, key, m, scope).key = key
         /\ Access(ns, key, m, scope).mode = m
  BY DEF Access, Accesses

LEMMA KeysOfAccesses ==
  /\ \A f \in Targets : f \in Keys /\ <<Last(f)>> \in Keys
  /\ \A a \in Agents : <<a>> \in Keys
  /\ {Workspace, <<"windows-sandbox">>, <<"server">>, <<"opaque-tools">>} \subseteq Keys
  BY DEF Keys

LEMMA DeclaredIs ==
  ASSUME NEW a, NEW target
  PROVE  /\ DeclaredAccesses("ReadLink", a, target) = FileAccess(target, "read")
         /\ DeclaredAccesses("WriteLink", a, target) = FileAccess(target, "write")
         /\ DeclaredAccesses("WriteNamed", a, target) = FileAccess(Named, "write")
         /\ DeclaredAccesses("Shell", a, target) =
               FileResourceAccesses(Workspace, NoIdentity, "write", "subtree")
                  \cup Sandbox \cup {OpaqueToolAccess("write")}
         /\ DeclaredAccesses("Mcp", a, target) =
               {Access("mcp", <<"server">>, "write", "exact"), OpaqueToolAccess("write")}
         /\ \A t \in AgentTools : DeclaredAccesses(t, a, target) = {}
         /\ \A t \in PlanOnlyTools \cup {"EnterPlanMode"} :
               DeclaredAccesses(t, a, target) = {SessionResourceAccess(a, "write")}
  BY DEF DeclaredAccesses, PlanOnlyTools, AgentTools

LEMMA DeclaredAccessesAreTyped ==
  ASSUME NEW t \in Tools, NEW a \in Agents, NEW target \in Targets
  PROVE  DeclaredAccesses(t, a, target) \subseteq Accesses
<1>1. \A f \in Targets, m \in {"read", "write"} : FileAccess(f, m) \subseteq Accesses
  <2> SUFFICES ASSUME NEW f \in Targets, NEW m \in {"read", "write"}
               PROVE  FileAccess(f, m) \subseteq Accesses
    OBVIOUS
  <2>1. /\ Access("fs", f, m, "exact") \in Accesses
        /\ Access("fs-identity", <<Last(f)>>, m, "exact") \in Accesses
    BY AccessIsTyped, KeysOfAccesses DEF Namespaces, Scopes
  <2>2. FileAccess(f, m) \subseteq {Access("fs", f, m, "exact"),
                                   Access("fs-identity", <<Last(f)>>, m, "exact")}
    BY DEF FileAccess, FileResourceAccesses
  <2> QED
    BY <2>1, <2>2
<1>2. FileResourceAccesses(Workspace, NoIdentity, "write", "subtree") \cup Sandbox
         \cup {OpaqueToolAccess("write")} \subseteq Accesses
  BY AccessIsTyped, KeysOfAccesses DEF Namespaces, Scopes, FileResourceAccesses, Sandbox, OpaqueToolAccess
<1>3. {Access("mcp", <<"server">>, "write", "exact"), OpaqueToolAccess("write"),
       SessionResourceAccess(a, "write")} \subseteq Accesses
  BY AccessIsTyped, KeysOfAccesses DEF Namespaces, Scopes, OpaqueToolAccess, SessionResourceAccess
<1> QED
  BY <1>1, <1>2, <1>3, DeclaredIs, NamedAssumption DEF Tools, FileTools, OpaqueTools

(* Every call holds its session and the barrier, and keeps what its tool   *)
(* declares (planToolAccesses).                                            *)
LEMMA PlanHolds ==
  ASSUME NEW t \in Tools, NEW a \in Agents, NEW target \in Targets
  PROVE  /\ PlanOf(t, a, target) \subseteq Accesses
         /\ DeclaredAccesses(t, a, target) \subseteq PlanOf(t, a, target)
         /\ \E r \in PlanOf(t, a, target) : r.namespace = "session" /\ r.key = <<a>>
         /\ \E r \in PlanOf(t, a, target) : r.namespace = "runtime" /\ r.key = <<"opaque-tools">>
         /\ PlanOf(t, a, target) # {}
<1> DEFINE declared == DeclaredAccesses(t, a, target)
           barred   == WithOpaqueToolBarrier(declared)
<1>1. /\ OpaqueToolAccess("read") \in Accesses /\ SessionResourceAccess(a, "read") \in Accesses
      /\ OpaqueToolAccess("read").namespace = "runtime"
      /\ OpaqueToolAccess("read").key = <<"opaque-tools">>
      /\ SessionResourceAccess(a, "read").namespace = "session"
      /\ SessionResourceAccess(a, "read").key = <<a>>
  BY AccessIsTyped, KeysOfAccesses DEF Namespaces, Scopes, OpaqueToolAccess, SessionResourceAccess
<1>2. declared \subseteq Accesses
  BY DeclaredAccessesAreTyped
<1> HIDE DEF declared
<1>3. /\ declared \subseteq barred /\ barred \subseteq Accesses
      /\ \E r \in barred : r.namespace = "runtime" /\ r.key = <<"opaque-tools">>
  BY <1>1, <1>2 DEF WithOpaqueToolBarrier
<1> HIDE DEF barred
<1>4. /\ barred \subseteq WithSessionReadAccess(barred, a)
      /\ WithSessionReadAccess(barred, a) \subseteq Accesses
      /\ \E r \in WithSessionReadAccess(barred, a) : r.namespace = "session" /\ r.key = <<a>>
  BY <1>1, <1>3 DEF WithSessionReadAccess
<1>5. PlanOf(t, a, target) = WithSessionReadAccess(barred, a)
  BY DEF PlanOf, PlanToolAccesses, barred, declared
<1> QED
  BY <1>3, <1>4, <1>5 DEF declared

(* The constants of the lock are as it assumes.                            *)
LEMMA KeysAreSequences == \A key \in Keys : key \in Seq(Range(key))
<1>1. \A x : <<x>> \in Seq(Range(<<x>>))
  BY DEF Range
<1>2. Workspace = <<"w">>
  BY DEF Workspace
<1> QED
  BY <1>1, <1>2, TargetsAssumption DEF Keys

LEMMA LockConstants ==
  /\ Owner \in [Call -> Agents] /\ NoSignal \notin Agents
  /\ \A asked \in PossiblePlans : \A access \in asked : LockProofs!IsAccess(access)
<1>1. ASSUME NEW access \in Accesses PROVE LockProofs!IsAccess(access)
  <2>1. access \in [namespace : {access.namespace}, key : {access.key},
                    mode : {"read", "write"}, scope : {access.scope}]
    BY DEF Accesses
  <2>2. access.key \in Seq(Range(access.key))
    BY KeysAreSequences DEF Accesses
  <2> QED
    BY <2>1, <2>2 DEF LockProofs!IsAccess, LockProofs!Range, Range
<1>2. \A asked \in PossiblePlans : asked \subseteq Accesses
  BY PlanHolds DEF PlanOf, PossiblePlans
<1> QED
  BY <1>1, <1>2, OwnerAssumption, SignalAssumption DEF Agents

(* A tool that rewrites the state of a session excludes every call of it.  *)
LEMMA SessionWriterExcludes ==
  ASSUME NEW t \in Tools, NEW a \in Agents, NEW target \in Targets, NEW target2 \in Targets
  PROVE  AccessSetsConflict(PlanOf("EnterPlanMode", a, target), PlanOf(t, a, target2))
<1>1. SessionResourceAccess(a, "write") \in PlanOf("EnterPlanMode", a, target)
  <2>1. /\ "EnterPlanMode" \in Tools
        /\ DeclaredAccesses("EnterPlanMode", a, target) = {SessionResourceAccess(a, "write")}
    BY DeclaredIs DEF Tools
  <2> QED
    BY <2>1, PlanHolds
<1>2. PICK r \in PlanOf(t, a, target2) : r.namespace = "session" /\ r.key = <<a>>
  BY PlanHolds
<1>3. ResourcesOverlap(SessionResourceAccess(a, "write"), r)
  BY <1>2 DEF ResourcesOverlap, SessionResourceAccess, Access
<1> QED
  BY <1>1, <1>2, <1>3 DEF AccessSetsConflict, SessionResourceAccess, Access

(* An opaque tool excludes every other call, of any agent.                 *)
LEMMA OpaqueExcludes ==
  ASSUME NEW t \in Tools, NEW u \in OpaqueTools, NEW a \in Agents, NEW b \in Agents,
         NEW target \in Targets, NEW target2 \in Targets
  PROVE  AccessSetsConflict(PlanOf(u, a, target), PlanOf(t, b, target2))
<1>1. OpaqueToolAccess("write") \in PlanOf(u, a, target)
  <2>1. u \in Tools /\ OpaqueToolAccess("write") \in DeclaredAccesses(u, a, target)
    BY DeclaredIs DEF Tools, OpaqueTools
  <2> QED
    BY <2>1, PlanHolds
<1>2. PICK r \in PlanOf(t, b, target2) : r.namespace = "runtime" /\ r.key = <<"opaque-tools">>
  BY PlanHolds
<1>3. ResourcesOverlap(OpaqueToolAccess("write"), r)
  BY <1>2 DEF ResourcesOverlap, OpaqueToolAccess, Access
<1> QED
  BY <1>1, <1>2, <1>3 DEF AccessSetsConflict, OpaqueToolAccess, Access

\* What a tool works on, with the link at a target.
WorksOn(t, target) ==
    CASE t \in {"ReadLink", "WriteLink"} -> {target}
      [] t = "WriteNamed"                -> {Named}
      [] t \in OpaqueTools               -> Targets
      [] OTHER                           -> {}

(* Tools that work on the same file, one of them writing, exclude each     *)
(* other if they plan for the same target of the link.                     *)
LEMMA SharedFileExcludes ==
  ASSUME NEW t \in Tools, NEW u \in Tools, NEW a \in Agents, NEW b \in Agents,
         NEW target \in Targets, t # "ReadLink",
         NEW f \in WorksOn(t, target), f \in WorksOn(u, target)
  PROVE  AccessSetsConflict(PlanOf(t, a, target), PlanOf(u, b, target))
<1>1. CASE t \in OpaqueTools
  BY <1>1, OpaqueExcludes
<1>2. CASE u \in OpaqueTools
  <2>1. AccessSetsConflict(PlanOf(u, b, target), PlanOf(t, a, target))
    BY <1>2, OpaqueExcludes
  <2> QED
    BY <2>1, SameConflict, LockConstants, LockProofs!ConflictSymmetric
<1>3. CASE t \notin OpaqueTools /\ u \notin OpaqueTools
  <2>1. /\ t \in {"WriteLink", "WriteNamed"} /\ DeclaredAccesses(t, a, target) = FileAccess(f, "write")
        /\ u \in FileTools /\ f = IF u = "WriteNamed" THEN Named ELSE target
    BY <1>3, DeclaredIs DEF WorksOn, FileTools
  <2>2. PICK m \in {"read", "write"} : DeclaredAccesses(u, b, target) = FileAccess(f, m)
    BY <2>1, DeclaredIs DEF FileTools
  <2>3. /\ Access("fs", f, "write", "exact") \in PlanOf(t, a, target)
        /\ Access("fs", f, m, "exact") \in PlanOf(u, b, target)
    BY <2>1, <2>2, PlanHolds DEF FileAccess, FileResourceAccesses
  <2>4. ResourcesOverlap(Access("fs", f, "write", "exact"), Access("fs", f, m, "exact"))
    BY DEF ResourcesOverlap, Access
  <2> QED
    BY <2>3, <2>4 DEF AccessSetsConflict, Access
<1> QED
  BY <1>1, <1>2, <1>3

(* Merging changes no conflict.                                            *)
LEMMA NormalizedConflict ==
  ASSUME NEW A \in SUBSET Accesses, NEW B \in SUBSET Accesses, AccessSetsConflict(A, B)
  PROVE  AccessSetsConflict(NormalizeAccesses(A), NormalizeAccesses(B))
<1>1. \E Namespace, Key, Scope :
         Accesses = [namespace : Namespace, key : Key, mode : {"read", "write"}, scope : Scope]
  BY DEF Accesses
<1>2. \A X \in SUBSET Accesses : NormalizeAccesses(X) \in SUBSET Accesses
  BY DEF NormalizeAccesses, Accesses
<1>3. \A X, Y \in SUBSET Accesses :
         AccessSetsConflict(NormalizeAccesses(X), Y) <=> AccessSetsConflict(X, Y)
  BY <1>1, LockConstants, LockProofs!NormalizePreservesConflict, SameConflict, SameNormalization
<1>4. \A X, Y : AccessSetsConflict(X, Y) <=> AccessSetsConflict(Y, X)
  BY SameConflict, LockConstants, LockProofs!ConflictSymmetric
<1> QED
  BY <1>2, <1>3, <1>4

-----------------------------------------------------------------------------
(* The invariant is inductive.                                             *)

FullInv == RunnerInv /\ LockProofs!LockInv

LEMMA TypesOfLock ==
  ASSUME LockProofs!LockInv
  PROVE  /\ LockProofs!TypeOK /\ pending \cap active = {}
         /\ pending \subseteq Call /\ active \subseteq Call
         /\ \A c, d \in active : c # d => ~AccessSetsConflict(accesses[c], accesses[d])
  BY SameConflict DEF LockProofs!LockInv, LockProofs!TypeOK, LockProofs!QueueOrder,
     LockProofs!MutualExclusion, LockProofs!Conflict

LEMMA OwnersAndTools ==
  ASSUME TypeOK, NEW c \in Call
  PROVE  /\ Owner[c] \in Agents /\ tool[c] \in Tools /\ phase[c] \in Phases
         /\ mode[Owner[c]] \in {"normal", "plan"}
         /\ CurrentPlan(c) = PlanOf(tool[c], Owner[c], link)
         /\ CurrentPlan(c) \in SUBSET Accesses
<1>1. Owner[c] \in Agents /\ tool[c] \in Tools /\ phase[c] \in Phases
  BY OwnerAssumption DEF TypeOK, Agents
<1>2. CurrentPlan(c) = PlanOf(tool[c], Owner[c], link)
  BY DEF CurrentPlan, PlanOf
<1> QED
  BY <1>1, <1>2, PlanHolds DEF TypeOK

(* Two calls that hold their leases have plans that do not conflict.       *)
LEMMA HoldersDoNotConflict ==
  ASSUME FullInv, NEW c \in active, NEW d \in active, c # d
  PROVE  ~AccessSetsConflict(planned[c], planned[d])
<1>1. /\ c \in Call /\ d \in Call
      /\ planned[c] \in SUBSET Accesses /\ planned[d] \in SUBSET Accesses
      /\ accesses[c] = NormalizeAccesses(planned[c]) /\ accesses[d] = NormalizeAccesses(planned[d])
      /\ ~AccessSetsConflict(accesses[c], accesses[d])
  BY TypesOfLock DEF FullInv, RunnerInv, TypeOK, Leases
<1> QED
  BY <1>1, NormalizedConflict

LEMMA InitRunner == Init => FullInv
<1> SUFFICES ASSUME Init PROVE FullInv
  OBVIOUS
<1>1. LockProofs!LockInv
  BY SameLock, LockConstants, LockProofs!InitLockInv DEF Init
<1>2. TypeOK
  BY BatchesAssumption, OwnerAssumption DEF Init, TypeOK, Phases, Agents
<1>3. pending = {} /\ active = {} /\ \A c \in Call : phase[c] = "idle"
  BY DEF Init, Lock!Init
<1>4. PlansMade /\ Leases /\ Current
  BY <1>3 DEF PlansMade, Leases, Current
<1> QED
  BY <1>1, <1>2, <1>4 DEF FullInv, RunnerInv

(* What a step of one call is to the lock.                                 *)
LEMMA LockStep ==
  ASSUME RunnerInv, [Next]_vars
  PROVE  [LockProofs!Next]_(LockProofs!lockVars)
<1>1. ASSUME NEW c \in Call, Begin(c)
      PROVE  [LockProofs!Next]_(LockProofs!lockVars)
  <2>1. CASE Lock!Acquire(c, planned[c])
    <3>1. PICK target \in Targets : planned[c] = PlanOf(tool[c], Owner[c], target)
      BY <1>1 DEF Begin, RunnerInv, PlansMade, SettledPhases
    <3>2. planned[c] \in PossiblePlans
      BY <3>1, OwnersAndTools DEF RunnerInv, PlanOf, PossiblePlans
    <3>3. LockProofs!Acquire(c, planned[c])
      BY <2>1, SameLock
    <3> QED
      BY <3>2, <3>3 DEF LockProofs!Next
  <2>2. CASE UNCHANGED lockVars
    BY <2>2 DEF lockVars, LockProofs!lockVars
  <2> QED
    BY <1>1, <2>1, <2>2 DEF Begin
<1>2. ASSUME NEW c \in Call, Lock!Release(c)
      PROVE  LockProofs!Next
  BY <1>2, SameLock DEF LockProofs!Next
<1>3. ASSUME NEW c \in Call, CallStep(c) \/ ShellEffect(c)
      PROVE  [LockProofs!Next]_(LockProofs!lockVars)
  <2>1. Begin(c) \/ Lock!Release(c) \/ UNCHANGED lockVars
    BY <1>3 DEF CallStep, Prepare, Rejected, Reauthorize, Replan, Finish, ShellEffect
  <2> QED
    BY <2>1, <1>1, <1>2 DEF lockVars, LockProofs!lockVars
<1>4. ASSUME NEW a \in Agents, Abort(a)
      PROVE  LockProofs!Next
  BY <1>4, SameLock DEF LockProofs!Next, Abort
<1>5. ASSUME DispatchAbort
      PROVE  LockProofs!Next
  BY <1>5, SameLock DEF LockProofs!Next, DispatchAbort
<1>6. CASE UNCHANGED vars
  BY <1>6 DEF vars, lockVars, LockProofs!lockVars
<1> QED
  BY <1>3, <1>4, <1>5, <1>6 DEF Next, Finished

LEMMA PrepareKeeps ==
  ASSUME FullInv, NEW c \in Call, Prepare(c)
  PROVE  RunnerInv'
<1> USE DEF FullInv, RunnerInv
<1>1. /\ phase' \in [Call -> Phases] /\ phase[c] = "idle" /\ phase'[c] \in {"prepared", "failed"}
      /\ \A d \in Call \ {c} : phase'[d] = phase[d]
      /\ UNCHANGED <<lockVars, tool, mode, link>>
  BY DEF Prepare, Step, TypeOK, Phases, SettledPhases
<1>2. /\ planned' \in [Call -> SUBSET Accesses]
      /\ phase'[c] = "prepared" => planned'[c] = PlanOf(tool[c], Owner[c], link)
      /\ \A d \in Call \ {c} : planned'[d] = planned[d]
  <2>1. CASE Authorized(tool[c], mode[Owner[c]])
    <3>1. planned' = [planned EXCEPT ![c] = CurrentPlan(c)]
      BY <2>1 DEF Prepare
    <3> QED
      BY <3>1, OwnersAndTools DEF TypeOK
  <2>2. CASE ~Authorized(tool[c], mode[Owner[c]])
    BY <2>2 DEF Prepare, Step, TypeOK
  <2> QED
    BY <2>1, <2>2
<1>3. TypeOK'
  BY <1>1, <1>2 DEF TypeOK
<1>4. PlansMade'
  BY <1>1, <1>2 DEF PlansMade, TypeOK, SettledPhases
<1>5. Leases'
  BY <1>1, <1>2, TypesOfLock DEF Leases, lockVars, Outstanding
<1>6. Current'
  BY <1>1, <1>2 DEF Current, CurrentPlan
<1> QED
  BY <1>3, <1>4, <1>5, <1>6

(* A call moves on and leaves its plan, the mode and the link alone.       *)
LEMMA PhaseStepKeeps ==
  ASSUME FullInv, NEW c \in Call, NEW p \in Phases, Step(c, p),
         UNCHANGED <<tool, planned, mode, link>>,
         p \in SettledPhases \/ phase[c] \notin {"idle"} \cup SettledPhases,
         Leases',
         p \in {"authorized", "running"} => Authorized(tool[c], mode[Owner[c]]),
         p = "running" => ResourceAccessSetsEqual(planned[c], CurrentPlan(c))
  PROVE  RunnerInv'
<1> USE DEF FullInv, RunnerInv
<1>1. /\ phase' \in [Call -> Phases] /\ phase'[c] = p
      /\ \A d \in Call \ {c} : phase'[d] = phase[d]
  BY DEF Step, TypeOK
<1>2. TypeOK' /\ PlansMade'
  BY <1>1 DEF TypeOK, PlansMade
<1>3. Current'
  BY <1>1 DEF Current, CurrentPlan
<1> QED
  BY <1>2, <1>3

LEMMA BeginKeeps ==
  ASSUME FullInv, NEW c \in Call, Begin(c)
  PROVE  RunnerInv'
<1>1. phase[c] \in {"prepared", "reacquiring"} /\ UNCHANGED <<tool, planned, mode, link>>
  BY DEF Begin
<1>2. CASE Lock!Acquire(c, planned[c]) /\ Step(c, "waiting")
  <2>1. /\ phase'[c] = "waiting" /\ \A d \in Call \ {c} : phase'[d] = phase[d]
    BY <1>2 DEF Step, FullInv, RunnerInv, TypeOK
  <2>2. Leases'
    BY <1>1, <1>2, <2>1, TypesOfLock, AcquireEffect DEF FullInv, RunnerInv, Leases, Outstanding
  <2> QED
    BY <1>1, <1>2, <2>2, PhaseStepKeeps DEF Phases, SettledPhases
<1>3. CASE Step(c, "failed") /\ UNCHANGED lockVars
  <2>1. /\ phase'[c] = "failed" /\ \A d \in Call \ {c} : phase'[d] = phase[d]
    BY <1>3 DEF Step, FullInv, RunnerInv, TypeOK
  <2>2. Leases'
    BY <1>1, <1>3, <2>1, TypesOfLock DEF FullInv, RunnerInv, Leases, Outstanding, lockVars
  <2> QED
    BY <1>1, <1>3, <2>2, PhaseStepKeeps DEF Phases, SettledPhases
<1> QED
  BY <1>2, <1>3 DEF Begin

(* A call that leaves the lock is not one that goes on.                    *)
LEMMA LeavingKeepsLeases ==
  ASSUME FullInv, NEW c \in Call, NEW p \in {"done", "failed", "reacquiring"}, Step(c, p),
         Lock!Release(c), \A d \in Call \ {c} : planned'[d] = planned[d]
  PROVE  Leases'
<1>1. phase'[c] = p /\ \A d \in Call \ {c} : phase'[d] = phase[d]
  BY DEF Step, FullInv, RunnerInv, TypeOK
<1> QED
  BY <1>1, TypesOfLock, ReleaseEffect DEF FullInv, RunnerInv, Leases

LEMMA RejectedKeeps ==
  ASSUME FullInv, NEW c \in Call, Rejected(c)
  PROVE  RunnerInv'
<1>1. /\ phase'[c] = "failed" /\ \A d \in Call \ {c} : phase'[d] = phase[d]
      /\ c \notin pending \cup active /\ phase[c] = "waiting"
      /\ UNCHANGED <<lockVars, tool, planned, mode, link>>
  BY DEF Rejected, Step, FullInv, RunnerInv, TypeOK
<1>2. Leases'
  BY <1>1, TypesOfLock DEF FullInv, RunnerInv, Leases, lockVars
<1> QED
  BY <1>1, <1>2, PhaseStepKeeps DEF Rejected, Phases, SettledPhases

LEMMA ReauthorizeKeeps ==
  ASSUME FullInv, NEW c \in Call, Reauthorize(c)
  PROVE  RunnerInv'
<1>1. phase[c] = "waiting" /\ c \in active /\ UNCHANGED <<tool, planned, mode, link>>
  BY DEF Reauthorize
<1>2. CASE Authorized(tool[c], mode[Owner[c]]) /\ Step(c, "authorized") /\ UNCHANGED lockVars
  <2>1. phase'[c] = "authorized" /\ \A d \in Call \ {c} : phase'[d] = phase[d]
    BY <1>2 DEF Step, FullInv, RunnerInv, TypeOK
  <2>2. Leases'
    BY <1>1, <1>2, <2>1, TypesOfLock DEF FullInv, RunnerInv, Leases, lockVars, Outstanding
  <2> QED
    BY <1>1, <1>2, <2>2, PhaseStepKeeps DEF Phases, SettledPhases
<1>3. CASE Step(c, "failed") /\ Lock!Release(c)
  BY <1>1, <1>3, LeavingKeepsLeases, PhaseStepKeeps DEF Phases, SettledPhases
<1> QED
  BY <1>2, <1>3 DEF Reauthorize

LEMMA ReplanKeeps ==
  ASSUME FullInv, NEW c \in Call, Replan(c)
  PROVE  RunnerInv'
<1>1. phase[c] = "authorized" /\ UNCHANGED <<tool, mode, link>>
      /\ Authorized(tool[c], mode[Owner[c]])
  BY DEF Replan, FullInv, RunnerInv, Current
<1>2. CASE /\ ResourceAccessSetsEqual(planned[c], CurrentPlan(c)) /\ Step(c, "running")
           /\ UNCHANGED <<lockVars, planned>>
  <2>1. phase'[c] = "running" /\ \A d \in Call \ {c} : phase'[d] = phase[d]
    BY <1>2 DEF Step, FullInv, RunnerInv, TypeOK
  <2>2. Leases'
    BY <1>1, <1>2, <2>1, TypesOfLock DEF FullInv, RunnerInv, Leases, lockVars, Outstanding
  <2> QED
    BY <1>1, <1>2, <2>2, PhaseStepKeeps DEF Phases, SettledPhases
<1>3. CASE /\ Step(c, "reacquiring") /\ planned' = [planned EXCEPT ![c] = CurrentPlan(c)]
           /\ Lock!Release(c)
  <2>1. /\ phase' \in [Call -> Phases] /\ phase'[c] = "reacquiring"
        /\ \A d \in Call \ {c} : phase'[d] = phase[d]
    BY <1>3 DEF Step, FullInv, RunnerInv, TypeOK, Phases
  <2>2. /\ planned' \in [Call -> SUBSET Accesses] /\ planned'[c] = PlanOf(tool[c], Owner[c], link)
        /\ \A d \in Call \ {c} : planned'[d] = planned[d]
    BY <1>3, OwnersAndTools DEF FullInv, RunnerInv, TypeOK
  <2>3. Leases'
    BY <1>3, <2>2, LeavingKeepsLeases
  <2>4. TypeOK'
    BY <1>1, <2>1, <2>2 DEF FullInv, RunnerInv, TypeOK
  <2>5. PlansMade'
    BY <1>1, <2>1, <2>2 DEF FullInv, RunnerInv, TypeOK, PlansMade
  <2>6. Current'
    BY <1>1, <2>1, <2>2 DEF FullInv, RunnerInv, Current, CurrentPlan
  <2> QED
    BY <2>3, <2>4, <2>5, <2>6 DEF RunnerInv
<1> QED
  BY <1>2, <1>3 DEF Replan

(* While a Shell command runs no other call does, so that the link moves   *)
(* under nobody's lease.                                                   *)
LEMMA ShellEffectKeeps ==
  ASSUME FullInv, NEW c \in Call, ShellEffect(c)
  PROVE  RunnerInv'
<1> USE DEF FullInv, RunnerInv
<1>1. /\ phase[c] = "running" /\ tool[c] = "Shell" /\ link' \in Targets
      /\ UNCHANGED <<lockVars, tool, phase, planned, mode>>
  BY DEF ShellEffect
<1>2. ASSUME NEW d \in Call, d # c, phase[d] = "running"
      PROVE  FALSE
  <2>1. c \in active /\ d \in active
    BY <1>1, <1>2 DEF Leases
  <2>2. /\ \E target \in Targets : planned[c] = PlanOf("Shell", Owner[c], target)
        /\ \E target \in Targets : planned[d] = PlanOf(tool[d], Owner[d], target)
    BY <1>1, <1>2 DEF PlansMade, SettledPhases
  <2>3. AccessSetsConflict(planned[c], planned[d])
    BY <2>2, OwnersAndTools, OpaqueExcludes DEF OpaqueTools
  <2> QED
    BY <1>2, <2>1, <2>3, HoldersDoNotConflict
<1>3. \A target \in Targets : PlanOf("Shell", Owner[c], target) = PlanOf("Shell", Owner[c], link)
  BY DeclaredIs DEF PlanOf, TypeOK
<1>4. CurrentPlan(c)' = CurrentPlan(c)
  BY <1>1, <1>3 DEF CurrentPlan, PlanOf
<1>5. TypeOK' /\ PlansMade' /\ Leases'
  BY <1>1 DEF TypeOK, PlansMade, Leases, lockVars
<1>6. Current'
  <2>1. ASSUME NEW d \in Call, phase'[d] = "running"
        PROVE  ResourceAccessSetsEqual(planned'[d], CurrentPlan(d)')
    <3>1. d = c
      BY <1>1, <1>2, <2>1
    <3> QED
      BY <1>1, <1>4, <3>1 DEF Current
  <2> QED
    BY <1>1, <2>1 DEF Current
<1> QED
  BY <1>5, <1>6

(* While EnterPlanMode runs no other call of its agent does, so that the   *)
(* mode changes under nobody's authorization.                              *)
LEMMA FinishKeeps ==
  ASSUME FullInv, NEW c \in Call, Finish(c)
  PROVE  RunnerInv'
<1>1. /\ phase[c] = "running" /\ Lock!Release(c) /\ UNCHANGED <<tool, planned, link>>
      /\ Step(c, "done") \/ Step(c, "failed")
      /\ \/ mode' = mode
         \/ tool[c] = "EnterPlanMode" /\ mode' = [mode EXCEPT ![Owner[c]] = "plan"]
  BY DEF Finish
<1>2. PICK p \in {"done", "failed"} : Step(c, p)
  BY <1>1
<1>3. CASE mode' = mode
  BY <1>1, <1>2, <1>3, LeavingKeepsLeases, PhaseStepKeeps DEF Phases, SettledPhases
<1>4. CASE tool[c] = "EnterPlanMode" /\ mode' = [mode EXCEPT ![Owner[c]] = "plan"]
  <2> USE DEF FullInv, RunnerInv
  <2>1. /\ phase' \in [Call -> Phases] /\ phase'[c] \in SettledPhases
        /\ \A d \in Call \ {c} : phase'[d] = phase[d]
    BY <1>2 DEF Step, TypeOK, Phases, SettledPhases
  <2>2. /\ mode' \in [Agents -> {"normal", "plan"}]
        /\ \A a \in Agents \ {Owner[c]} : mode'[a] = mode[a]
    BY <1>4 DEF TypeOK
  <2>3. ASSUME NEW d \in Call \ {c}, phase[d] \in {"authorized", "running"}, Owner[d] = Owner[c]
        PROVE  FALSE
    <3>1. c \in active /\ d \in active
      BY <1>1, <2>3 DEF Leases
    <3>2. /\ \E target \in Targets : planned[c] = PlanOf("EnterPlanMode", Owner[c], target)
          /\ \E target \in Targets : planned[d] = PlanOf(tool[d], Owner[c], target)
      BY <1>1, <1>4, <2>3 DEF PlansMade, SettledPhases
    <3>3. AccessSetsConflict(planned[c], planned[d])
      BY <3>2, OwnersAndTools, SessionWriterExcludes
    <3> QED
      BY <2>3, <3>1, <3>3, HoldersDoNotConflict
  <2>4. TypeOK' /\ PlansMade'
    BY <1>1, <2>1, <2>2 DEF TypeOK, PlansMade
  <2>5. Leases'
    BY <1>1, <1>2, LeavingKeepsLeases
  <2>6. Current'
    <3>1. \A d \in Call : phase'[d] \in {"authorized", "running"} =>
             d # c /\ phase[d] = phase'[d] /\ mode'[Owner[d]] = mode[Owner[d]]
      BY <2>1, <2>2, <2>3, OwnersAndTools DEF SettledPhases
    <3> QED
      BY <1>1, <3>1 DEF Current, CurrentPlan
  <2> QED
    BY <2>4, <2>5, <2>6
<1> QED
  BY <1>1, <1>3, <1>4

LEMMA AbortKeeps ==
  ASSUME FullInv, DispatchAbort \/ (\E a \in Agents : Abort(a)) \/ UNCHANGED vars
  PROVE  RunnerInv'
<1> USE DEF FullInv, RunnerInv
<1>1. /\ UNCHANGED <<tool, phase, planned, mode, link>> /\ accesses' = accesses
      /\ pending' \cup active' \subseteq pending \cup active /\ active \subseteq active'
  <2>1. CASE DispatchAbort
    BY <2>1, TypesOfLock, DispatchEffect DEF DispatchAbort
  <2>2. CASE \E a \in Agents : Abort(a)
    BY <2>2 DEF Abort, Lock!Abort
  <2>3. CASE UNCHANGED vars
    BY <2>3 DEF vars, lockVars
  <2> QED
    BY <2>1, <2>2, <2>3
<1>2. TypeOK' /\ PlansMade'
  BY <1>1 DEF TypeOK, PlansMade
<1>3. Leases'
  BY <1>1 DEF Leases
<1>4. Current'
  BY <1>1 DEF Current, CurrentPlan
<1> QED
  BY <1>2, <1>3, <1>4

LEMMA InvariantStep == FullInv /\ [Next]_vars => FullInv'
<1> SUFFICES ASSUME FullInv, [Next]_vars
             PROVE  FullInv'
  OBVIOUS
<1>1. LockProofs!LockInv'
  BY LockStep, LockConstants, LockProofs!NextLockInv DEF FullInv
<1>2. RunnerInv'
  BY PrepareKeeps, BeginKeeps, RejectedKeeps, ReauthorizeKeeps, ReplanKeeps, FinishKeeps,
     ShellEffectKeeps, AbortKeeps DEF Next, CallStep, Finished
<1> QED
  BY <1>1, <1>2 DEF FullInv

(* Who holds a lease, what was asked for it, and what it was asked for     *)
(* stay related through retries, aborts and failures (runToolCalls).       *)
THEOREM RunnerInvariant == Spec => []FullInv
  BY InitRunner, InvariantStep, PTL DEF Spec

(***************************************************************************)
(* The runner keeps to the protocol of the lock: whatever it does is a     *)
(* step ResourceLock allows its callers, so that what is proved of the     *)
(* lock holds of the lock in the runner.                                   *)
(***************************************************************************)
THEOREM RunnerUsesTheLock == Spec => LockProofs!Spec
<1>1. Init => LockProofs!Init
  BY SameLock DEF Init
<1>2. FullInv /\ [Next]_vars => [LockProofs!Next]_(LockProofs!lockVars)
  BY LockStep DEF FullInv
<1> QED
  BY <1>1, <1>2, RunnerInvariant, PTL DEF Spec, LockProofs!Spec

(***************************************************************************)
(* No running call of an agent in plan mode can write, although it may     *)
(* have been authorized before EnterPlanMode of the same response ran      *)
(* (the second authorizeToolCall, under the lease).                        *)
(***************************************************************************)
THEOREM PlanModeIsReadOnly == Spec => []PlanModeRunsNoWrite
<1>1. FullInv => PlanModeRunsNoWrite
  BY DEF FullInv, RunnerInv, Current, Authorized, PlanModeRunsNoWrite
<1> QED
  BY <1>1, RunnerInvariant, PTL

(***************************************************************************)
(* Two running calls of any agents never work on the same file when one    *)
(* of them writes it, wherever the link points now (the plan made again    *)
(* under the lease, and the opaque-tool barrier).                          *)
(***************************************************************************)
THEOREM FilesHaveOneWriter == Spec => []NoConcurrentWrite
<1>1. ASSUME FullInv, NEW c \in Call, NEW d \in Call, c # d,
             phase[c] = "running", phase[d] = "running", Writes(c) \cap Touches(d) # {}
      PROVE  FALSE
  <2>1. TypeOK /\ Leases /\ Current
    BY <1>1 DEF FullInv, RunnerInv
  <2>2. /\ c \in active /\ d \in active /\ link \in Targets
        /\ accesses[c] = NormalizeAccesses(CurrentPlan(c))
        /\ accesses[d] = NormalizeAccesses(CurrentPlan(d))
    BY <1>1, <2>1 DEF Leases, Current, ResourceAccessSetsEqual, TypeOK
  <2>3. PICK f : f \in WorksOn(tool[c], link) /\ f \in WorksOn(tool[d], link)
                 /\ tool[c] # "ReadLink"
    BY <1>1 DEF Writes, Touches, WorksOn
  <2>4. /\ tool[c] \in Tools /\ Owner[c] \in Agents /\ tool[d] \in Tools /\ Owner[d] \in Agents
        /\ CurrentPlan(c) = PlanOf(tool[c], Owner[c], link) /\ CurrentPlan(c) \in SUBSET Accesses
        /\ CurrentPlan(d) = PlanOf(tool[d], Owner[d], link) /\ CurrentPlan(d) \in SUBSET Accesses
    BY <2>1, OwnersAndTools
  <2>5. AccessSetsConflict(PlanOf(tool[c], Owner[c], link), PlanOf(tool[d], Owner[d], link))
    BY <2>2, <2>3, <2>4, SharedFileExcludes
  <2>6. AccessSetsConflict(accesses[c], accesses[d])
    BY <2>2, <2>4, <2>5, NormalizedConflict
  <2> QED
    BY <1>1, <2>2, <2>6, TypesOfLock DEF FullInv
<1>2. FullInv => NoConcurrentWrite
  BY <1>1 DEF NoConcurrentWrite
<1> QED
  BY <1>2, RunnerInvariant, PTL
=============================================================================
