-------------------------- MODULE SessionLogProofs --------------------------
(***************************************************************************)
(* Proofs about SessionLog: for any number of messages, failed writes and  *)
(* processes that die, and whatever a conversation consists of.            *)
(***************************************************************************)
EXTENDS SessionLog, FiniteSetTheorems, TLAPS

IsSequence(s) == \E S : s \in Seq(S)

\* Nothing is said of what the records hold.
TypeOK ==
    /\ IsSequence(lines)
    /\ queue \in Seq(Writers)
    /\ job = [w \in Writers |-> [stage |-> job[w].stage, steps |-> job[w].steps]]
    /\ promised \in Nat

\* Nobody works on the file but the first of the queue.
OneWriter == \A w \in Writers : job[w].stage \in {"working", "writing"} => Holder(w)

\* What follows the last newline while a record is written is a part of this record.
TailIsWritten ==
    \A w \in Writers : job[w].stage = "writing" => tail \in Unwritten(Head(job[w].steps))

\* The inductive invariant: nothing is promised that is not a complete line.
LogInv == TypeOK /\ OneWriter /\ TailIsWritten /\ promised <= Len(lines)

-----------------------------------------------------------------------------
LEMMA Appended ==
  ASSUME NEW s, NEW e, IsSequence(s)
  PROVE  /\ IsSequence(Append(s, e)) /\ Append(s, e) # <<>>
         /\ Len(s) \in Nat /\ Len(Append(s, e)) = Len(s) + 1
         /\ Durable!Front(Append(s, e)) = s
<1>1. PICK S : s \in Seq(S)
  BY DEF IsSequence
<1>2. s \in Seq(S \cup {e}) /\ e \in S \cup {e}
  BY <1>1
<1>3. Append(s, e) \in Seq(S \cup {e}) /\ Len(Append(s, e)) = Len(s) + 1 /\ Len(s) \in Nat
  BY <1>2
<1>4. Append(s, e) # <<>>
  BY <1>3
<1>5. Durable!Front(Append(s, e)) = s
  BY <1>2, <1>3 DEF Durable!Front
<1> QED
  BY <1>3, <1>4, <1>5 DEF IsSequence

\* A last record that only lacks its newline is read, too.
LEMMA ReadableIs ==
  ASSUME LogInv
  PROVE  /\ IsSequence(Readable) /\ Len(Readable) >= Len(lines) /\ Len(lines) \in Nat
         /\ Readable # lines => Durable!Front(Readable) = lines /\ Len(Readable) = Len(lines) + 1
  BY Appended DEF LogInv, TypeOK, Readable

\* What the callers of the file are told is what they are promised.
LogStep == [Durable!Next]_<<Readable, promised>>

\* A step of the App that gives a writer something to do, or nothing.
LEMMA AppKeeps ==
  ASSUME LogInv, UNCHANGED fileVars, UNCHANGED promised,
         UNCHANGED writeVars \/ \E w \in Writers : \E steps : Submit(w, steps)
  PROVE  LogInv' /\ UNCHANGED Readable
<1>0. TypeOK
  BY DEF LogInv
<1>1. UNCHANGED Readable
  BY DEF Readable, fileVars
<1>2. CASE UNCHANGED writeVars
  <2>1. UNCHANGED <<lines, tail, queue, job>>
    BY <1>2 DEF fileVars, writeVars
  <2>2. TypeOK'
    BY <1>0, <2>1 DEF TypeOK
  <2>3. OneWriter' /\ TailIsWritten'
    BY <2>1 DEF LogInv, OneWriter, TailIsWritten, Holder
  <2> QED
    BY <1>1, <2>1, <2>2, <2>3 DEF LogInv
<1>3. ASSUME NEW w \in Writers, NEW steps, Submit(w, steps) PROVE LogInv'
  <2>1. /\ queue' = Append(queue, w)
        /\ \A v \in Writers : job'[v] = IF v = w THEN [stage |-> "queued", steps |-> steps] ELSE job[v]
        /\ job' = [v \in Writers |-> job'[v]]
    BY <1>0, <1>3 DEF Submit, TypeOK
  <2>2. TypeOK'
    BY <1>0, <2>1 DEF TypeOK, fileVars
  <2>3. \A v \in Writers : Holder(v) => Holder(v)'
    BY <1>0, <2>1 DEF TypeOK, Holder
  <2>4. OneWriter' /\ TailIsWritten'
    BY <2>1, <2>3 DEF LogInv, OneWriter, TailIsWritten, fileVars
  <2> QED
    BY <2>2, <2>4 DEF LogInv, fileVars
<1> QED
  BY <1>1, <1>2, <1>3

\* The holder goes on, and is not about to write a record.
LEMMA HolderKeeps ==
  ASSUME LogInv, NEW w \in Writers, Holder(w), UNCHANGED queue,
         \E stage, steps : stage # "writing" /\ job' = [job EXCEPT ![w] = [stage |-> stage, steps |-> steps]],
         IsSequence(lines'), promised' \in Nat, promised' <= Len(lines')
  PROVE  LogInv'
<1>1. PICK stage, steps : stage # "writing" /\ job' = [job EXCEPT ![w] = [stage |-> stage, steps |-> steps]]
  OBVIOUS
<1>2. /\ \A v \in Writers : job'[v] = IF v = w THEN [stage |-> stage, steps |-> steps] ELSE job[v]
      /\ job' = [v \in Writers |-> job'[v]]
  BY <1>1 DEF LogInv, TypeOK
<1>3. \A v \in Writers \ {w} : job[v].stage \notin {"working", "writing"}
  BY DEF LogInv, OneWriter, Holder
<1>4. TypeOK'
  BY <1>2 DEF LogInv, TypeOK
<1>5. OneWriter' /\ TailIsWritten'
  BY <1>1, <1>2, <1>3 DEF OneWriter, TailIsWritten, Holder
<1> QED
  BY <1>4, <1>5 DEF LogInv

\* The holder leaves, and its place to the next.
LEMMA LeaveKeeps ==
  ASSUME LogInv, NEW w \in Writers, Holder(w), Leave(w), UNCHANGED lines,
         promised' \in Nat, promised' <= Len(lines)
  PROVE  LogInv'
<1>1. /\ \A v \in Writers : job'[v] = IF v = w THEN Idle ELSE job[v]
      /\ job' = [v \in Writers |-> job'[v]]
      /\ queue' = Tail(queue)
  BY DEF LogInv, TypeOK, Leave
<1>2. \A v \in Writers \ {w} : job[v].stage \notin {"working", "writing"}
  BY DEF LogInv, OneWriter, Holder
<1>3. TypeOK'
  BY <1>1 DEF LogInv, TypeOK, Idle, Holder
<1>4. OneWriter' /\ TailIsWritten'
  BY <1>1, <1>2 DEF OneWriter, TailIsWritten, Idle
<1> QED
  BY <1>3, <1>4 DEF LogInv

-----------------------------------------------------------------------------
LEMMA LogInit == Init => LogInv /\ Durable!Init
<1> SUFFICES ASSUME Init PROVE LogInv /\ Durable!Init
  OBVIOUS
<1>1. lines = <<>> /\ queue = <<>> /\ promised = 0 /\ Readable = <<>> /\ job = [w \in Writers |-> Idle]
  BY DEF Init, Readable, NoTail
<1>2. IsSequence(lines) /\ Len(lines) = 0
  <2>1. <<>> \in Seq({})
    OBVIOUS
  <2> QED
    BY <1>1, <2>1 DEF IsSequence
<1>3. job = [w \in Writers |-> [stage |-> job[w].stage, steps |-> job[w].steps]]
  BY <1>1 DEF Idle
<1>4. queue \in Seq(Writers)
  BY <1>1
<1>5. OneWriter /\ TailIsWritten
  BY <1>1 DEF OneWriter, TailIsWritten, Idle
<1> QED
  BY <1>1, <1>2, <1>3, <1>4, <1>5 DEF LogInv, TypeOK, Durable!Init

LEMMA WriterKeeps ==
  ASSUME LogInv, NEW w \in Writers, WriterStep(w) \/ Fail(w)
  PROVE  LogInv' /\ LogStep
<1>0. /\ TypeOK /\ promised \in Nat /\ promised <= Len(lines) /\ IsSequence(lines)
      /\ job[w] = [stage |-> job[w].stage, steps |-> job[w].steps]
  BY DEF LogInv, TypeOK
<1>1. CASE Open(w)
  <2>1. /\ UNCHANGED <<lines, tail, queue, promised>> /\ Holder(w)
        /\ \E steps : job' = [job EXCEPT ![w] = [stage |-> "working", steps |-> steps]]
    BY <1>1 DEF Open, AtStage, fileVars, history
  <2>2. LogInv'
    BY <1>0, <2>1, HolderKeeps
  <2> QED
    BY <2>1, <2>2 DEF LogStep, Readable
<1>2. CASE Truncate(w)
  <2>1. /\ UNCHANGED <<lines, job, queue, promised>> /\ Holder(w) /\ job[w].stage = "working"
        /\ tail # NoTail /\ tail' = NoTail
    BY <1>2 DEF Truncate, AtRecord, AtStep, AtStage, writeVars, history
  <2>2. \A v \in Writers : job[v].stage # "writing"
    BY <2>1 DEF LogInv, OneWriter, Holder
  <2>3. LogInv'
    BY <2>1, <2>2 DEF LogInv, TypeOK, OneWriter, TailIsWritten, Holder
  <2>4. Readable' = lines
    BY <2>1 DEF Readable, NoTail
  <2>5. Readable # lines => Durable!Forget
    BY <1>0, <2>1, <2>4, ReadableIs DEF Durable!Forget
  <2> QED
    BY <2>1, <2>3, <2>4, <2>5 DEF LogStep, Durable!Next
<1>3. CASE Write(w)
  <2>1. /\ UNCHANGED <<lines, queue, promised>> /\ Holder(w) /\ tail = NoTail
        /\ tail' \in Unwritten(Head(job[w].steps))
        /\ job' = [job EXCEPT ![w].stage = "writing"]
    BY <1>3 DEF Write, AtRecord, AtStep, AtStage, ToStage, history
  <2>2. /\ \A v \in Writers : job'[v] = IF v = w THEN [stage |-> "writing", steps |-> job[w].steps] ELSE job[v]
        /\ job' = [v \in Writers |-> job'[v]]
    BY <1>0, <2>1 DEF TypeOK
  <2>3. \A v \in Writers \ {w} : job[v].stage \notin {"working", "writing"}
    BY <2>1 DEF LogInv, OneWriter, Holder
  <2>4. TypeOK'
    BY <1>0, <2>1, <2>2 DEF TypeOK
  <2>5. OneWriter' /\ TailIsWritten'
    BY <2>1, <2>2, <2>3 DEF OneWriter, TailIsWritten, Holder
  <2>6. LogInv'
    BY <1>0, <2>1, <2>4, <2>5 DEF LogInv
  <2>7. Readable = lines
    BY <2>1 DEF Readable, NoTail
  <2>8. Readable' = lines \/ \E r : Readable' = Append(lines, r)
    BY <2>1 DEF Readable
  <2>9. Readable' = Readable \/ Durable!Write
    BY <1>0, <2>1, <2>7, <2>8, Appended DEF Durable!Write
  <2> QED
    BY <2>1, <2>6, <2>9 DEF LogStep, Durable!Next
<1>4. CASE Written(w)
  <2> DEFINE record == IF tail \in Unwritten(Head(job[w].steps)) THEN Head(job[w].steps) ELSE Garbled
  <2>1. /\ UNCHANGED <<queue, promised>> /\ Holder(w) /\ job[w].stage = "writing"
        /\ lines' = Append(lines, record) /\ tail' = NoTail
        /\ \E steps : job' = [job EXCEPT ![w] = [stage |-> "working", steps |-> steps]]
    BY <1>4 DEF Written, AtStage, StepDone, history
  <2>2. tail \in Unwritten(Head(job[w].steps))
    BY <2>1 DEF LogInv, TailIsWritten
  <2>3. IsSequence(lines') /\ promised <= Len(lines') /\ Durable!Front(lines') = lines /\ lines' # <<>>
    BY <1>0, <2>1, Appended
  <2>4. LogInv'
    BY <1>0, <2>1, <2>3, HolderKeeps
  <2>5. Readable' = lines'
    BY <2>1 DEF Readable, NoTail
  <2>6. Readable = lines \/ Readable = lines'
    BY <2>1, <2>2 DEF Readable, Unwritten, Unfinished, NoTail
  <2>7. Readable' = Readable \/ Durable!Write
    BY <2>1, <2>3, <2>5, <2>6 DEF Durable!Write
  <2> QED
    BY <2>1, <2>4, <2>7 DEF LogStep, Durable!Next
<1>5. CASE UpdateIndex(w)
  <2>1. /\ UNCHANGED <<lines, tail, queue, promised>> /\ Holder(w)
        /\ \E steps : job' = [job EXCEPT ![w] = [stage |-> "working", steps |-> steps]]
    BY <1>5 DEF UpdateIndex, AtStep, AtStage, StepDone, fileVars, history
  <2>2. LogInv'
    BY <1>0, <2>1, HolderKeeps
  <2> QED
    BY <2>1, <2>2 DEF LogStep, Readable
<1>6. CASE Done(w)
  <2>1. UNCHANGED <<lines, tail>> /\ Holder(w) /\ Leave(w) /\ promised' = Len(lines)
    BY <1>6 DEF Done, AtStage, fileVars
  <2>2. LogInv'
    BY <1>0, <2>1, LeaveKeeps, ReadableIs
  <2>3. UNCHANGED Readable
    BY <2>1 DEF Readable
  <2>4. promised' = promised \/ Durable!Acknowledge
    BY <1>0, <2>1, <2>3, ReadableIs DEF Durable!Acknowledge
  <2> QED
    BY <2>2, <2>3, <2>4 DEF LogStep, Durable!Next
<1>7. CASE Fail(w)
  <2>1. UNCHANGED <<lines, tail, promised>> /\ Holder(w) /\ Leave(w)
    BY <1>7 DEF Fail, AtStep, AtStage, fileVars
  <2>2. LogInv'
    BY <1>0, <2>1, LeaveKeeps
  <2> QED
    BY <2>1, <2>2 DEF LogStep, Readable
<1> QED
  BY <1>1, <1>2, <1>3, <1>4, <1>5, <1>6, <1>7 DEF WriterStep

LEMMA LogNext == LogInv /\ [Next]_vars => LogInv' /\ LogStep
<1> SUFFICES ASSUME LogInv, [Next]_vars PROVE LogInv' /\ LogStep
  OBVIOUS
<1>1. ASSUME UNCHANGED fileVars, UNCHANGED promised,
             UNCHANGED writeVars \/ \E w \in Writers : \E steps : Submit(w, steps)
      PROVE  LogInv' /\ LogStep
  BY <1>1, AppKeeps DEF LogStep
<1>2. CASE UNCHANGED vars
  BY <1>1, <1>2 DEF vars, history
<1>3. CASE \E w \in Writers : WriterStep(w) \/ Fail(w)
  BY <1>3, WriterKeeps
<1>4. CASE Persist \/ Extracted
  <2>1. UNCHANGED fileVars /\ UNCHANGED promised
    BY <1>4 DEF Persist, Extracted, history
  <2>2. Submit("run", StepsOf(Head(run.todo))) \/ Submit("extraction", <<Extraction>>)
    BY <1>4 DEF Persist, Extracted
  <2>3. \E w \in Writers : \E steps : Submit(w, steps)
    BY <2>2 DEF Writers
  <2> QED
    BY <1>1, <2>1, <2>3
<1>5. CASE NextTurn \/ MaxTurns \/ Answer \/ CallTools
  BY <1>1, <1>5 DEF NextTurn, MaxTurns, Answer, CallTools, Yield
<1>6. CASE ModelFails \/ RequestExtraction \/ EndRun \/ UserTurn \/ BackgroundTurn \/ EnterPlanMode
  BY <1>1, <1>6 DEF ModelFails, RequestExtraction, EndRun, UserTurn, BackgroundTurn, EnterPlanMode, history
<1>7. CASE ResumeStart \/ ResumeRead \/ ResumeSet \/ Aborted \/ Closed \/ Shutdown
  BY <1>1, <1>7 DEF ResumeStart, ResumeRead, ResumeSet, Aborted, Closed, Shutdown, history
<1>8. CASE Restart
  <2>1. UNCHANGED <<lines, tail, promised>> /\ queue' = <<>> /\ job' = [w \in Writers |-> Idle]
    BY <1>8 DEF Restart, fileVars
  <2>2. TypeOK'
    <3>1. job' = [w \in Writers |-> [stage |-> job'[w].stage, steps |-> job'[w].steps]]
      BY <2>1 DEF Idle
    <3>2. queue' \in Seq(Writers)
      BY <2>1
    <3> QED
      BY <2>1, <3>1, <3>2 DEF LogInv, TypeOK
  <2>3. OneWriter' /\ TailIsWritten'
    BY <2>1 DEF OneWriter, TailIsWritten, Idle
  <2> QED
    BY <2>1, <2>2, <2>3 DEF LogInv, LogStep, Readable
<1> QED
  BY <1>2, <1>3, <1>4, <1>5, <1>6, <1>7, <1>8 DEF Next, AppStep

(* What a caller was told to have been written stays readable, in order    *)
(* and without a gap; a record that vanishes again was the last and no     *)
(* caller was told of it (sessionStore.ts:587, sessionStore.ts:627).       *)
THEOREM LogIsDurable == Spec => ImplementsDurableLog
<1>1. LogInv /\ [Next]_vars => [Durable!Next]_<<Readable, promised>>
  BY LogNext DEF LogStep
<1>2. Spec => []LogInv
  BY LogInit, LogNext, PTL DEF Spec
<1>3. Spec => Durable!Init /\ [][Durable!Next]_<<Readable, promised>>
  BY LogInit, <1>1, <1>2, PTL DEF Spec
<1> QED
  BY <1>3, PTL DEF ImplementsDurableLog, Durable!Spec, Durable!Init, Durable!Next

-----------------------------------------------------------------------------
(* What a reader makes of the records, one after the other.                *)

LEMMA Smallest ==
  ASSUME NEW T \in SUBSET Nat, T # {}
  PROVE  \E n \in T : \A m \in T : n <= m
<1>1. IsWellFoundedOn(OpToRel(<, Nat), Nat)
  BY NatLessThanWellFounded
<1>2. PICK n \in T : \A m \in T : ~(<<m, n>> \in OpToRel(<, Nat))
  BY <1>1, WFMin
<1>3. \A m \in T : ~(m < n)
  BY <1>2 DEF OpToRel
<1> QED
  BY <1>3

\* What FoldLeft computes on the way, for every set of indices.
IsIter(g, f, n) ==
    g = [s \in SUBSET (1..n) |->
            IF s = {} THEN <<>> ELSE Apply(g[s \ {Max(s)}], f[Max(s)])]

LEMMA Largest ==
  ASSUME NEW n \in Nat, NEW u \in SUBSET (1..n), u # {}
  PROVE  Max(u) \in u /\ \A v \in u : v <= Max(u)
<1> DEFINE T == {n - v : v \in u}
<1>1. PICK m \in T : \A k \in T : m <= k
  <2>1. \A v \in u : n - v \in Nat
    OBVIOUS
  <2>2. T \subseteq Nat /\ T # {}
    BY <2>1
  <2> QED
    BY <2>2, Smallest
<1>2. PICK v \in u : m = n - v
  OBVIOUS
<1>3. \A w \in u : v >= w
  <2> SUFFICES ASSUME NEW w \in u PROVE v >= w
    OBVIOUS
  <2>1. n - w \in T
    OBVIOUS
  <2>2. n - v <= n - w
    BY <1>1, <1>2, <2>1
  <2> QED
    BY <2>2
<1>4. \E x \in u : \A y \in u : x >= y
  BY <1>3
<1> QED
  BY <1>4 DEF Max

LEMMA LastIsMax ==
  ASSUME NEW n \in Nat, NEW s \in SUBSET (1..n), n \in s
  PROVE  Max(s) = n
<1>1. Max(s) \in s /\ \A v \in s : v <= Max(s)
  BY Largest
<1>2. Max(s) \in 1..n /\ n <= Max(s)
  BY <1>1
<1> QED
  BY <1>2

\* A set of indices below k, without one of them.
LEMMA WithoutIndex ==
  ASSUME NEW k \in Nat, NEW s \in SUBSET (1..k), NEW x
  PROVE  s \ {x} \in SUBSET (1..k) /\ s \in SUBSET (1..(k+1)) /\ s \ {x} \in SUBSET (1..(k+1))
         /\ k + 1 \notin s \ {x} /\ k + 1 \notin s
<1>1. \A y \in s : y \in 1..k
  OBVIOUS
<1>2. \A y \in 1..k : y \in 1..(k+1) /\ y # k + 1
  OBVIOUS
<1> QED
  BY <1>1, <1>2

LEMMA IterExists ==
  ASSUME NEW f, NEW n \in Nat
  PROVE  \E h : IsIter(h, f, n) /\ \A g : IsIter(g, f, n) => g = h
<1> DEFINE Exists(k) == \E h : IsIter(h, f, k) /\ \A g : IsIter(g, f, k) => g = h
           T == {k \in Nat : ~Exists(k)}
<1>1. Exists(0)
  <2>1. \A s \in SUBSET (1..0) : s = {}
    OBVIOUS
  <2>2. \A g : IsIter(g, f, 0) <=> g = [s \in SUBSET (1..0) |-> <<>>]
    BY <2>1 DEF IsIter
  <2> DEFINE none == [s \in SUBSET (1..0) |-> <<>>]
  <2>3. IsIter(none, f, 0) /\ \A g : IsIter(g, f, 0) => g = none
    BY <2>2
  <2> HIDE DEF none
  <2> QED
    BY <2>3
<1>2. ASSUME NEW k \in Nat, Exists(k) PROVE Exists(k + 1)
  <2>1. PICK h : IsIter(h, f, k) /\ \A g : IsIter(g, f, k) => g = h
    BY <1>2
  <2> DEFINE hh == [s \in SUBSET (1..(k+1)) |->
                      IF k + 1 \in s THEN Apply(h[s \ {k+1}], f[k+1]) ELSE h[s]]
  <2>2. IsIter(hh, f, k + 1)
    <3>1. ASSUME NEW s \in SUBSET (1..(k+1))
          PROVE  hh[s] = IF s = {} THEN <<>> ELSE Apply(hh[s \ {Max(s)}], f[Max(s)])
      <4>1. CASE k + 1 \in s
        <5>1. Max(s) = k + 1 /\ s # {}
          BY <4>1, LastIsMax
        <5>2. s \ {k + 1} \in SUBSET (1..(k+1)) /\ k + 1 \notin s \ {k + 1}
          OBVIOUS
        <5> QED
          BY <4>1, <5>1, <5>2
      <4>2. CASE k + 1 \notin s
        <5>0. s \in SUBSET (1..k)
          BY <4>2
        <5>1. s \in SUBSET (1..k) /\ s \ {Max(s)} \in SUBSET (1..(k+1)) /\ k + 1 \notin s \ {Max(s)}
          BY <5>0, WithoutIndex
        <5>2. h[s] = IF s = {} THEN <<>> ELSE Apply(h[s \ {Max(s)}], f[Max(s)])
          BY <2>1, <5>1 DEF IsIter
        <5> QED
          BY <4>2, <5>1, <5>2
      <4> QED
        BY <4>1, <4>2
    <3> QED
      BY <3>1 DEF IsIter
  <2>3. ASSUME NEW g, IsIter(g, f, k + 1) PROVE g = hh
    <3> DEFINE r == [s \in SUBSET (1..k) |-> g[s]]
    <3>0. \A s \in SUBSET (1..(k+1)) : g[s] = IF s = {} THEN <<>> ELSE Apply(g[s \ {Max(s)}], f[Max(s)])
      BY <2>3 DEF IsIter
    <3>1. IsIter(r, f, k)
      <4>1. ASSUME NEW s \in SUBSET (1..k)
            PROVE  r[s] = IF s = {} THEN <<>> ELSE Apply(r[s \ {Max(s)}], f[Max(s)])
        <5>1. s \in SUBSET (1..(k+1)) /\ s \ {Max(s)} \in SUBSET (1..k)
          BY WithoutIndex
        <5> QED
          BY <3>0, <5>1
      <4> QED
        BY <4>1 DEF IsIter
    <3>2. r = h
      BY <2>1, <3>1
    <3>3. ASSUME NEW s \in SUBSET (1..(k+1)) PROVE g[s] = hh[s]
      <4>1. CASE k + 1 \in s
        <5>1. Max(s) = k + 1 /\ s # {} /\ s \ {k + 1} \in SUBSET (1..k)
          BY <4>1, LastIsMax
        <5> QED
          BY <3>0, <3>2, <4>1, <5>1
      <4>2. CASE k + 1 \notin s
        <5>1. s \in SUBSET (1..k)
          BY <4>2
        <5> QED
          BY <3>2, <4>2, <5>1
      <4> QED
        BY <4>1, <4>2
    <3>4. g = [s \in SUBSET (1..(k+1)) |-> g[s]]
      BY <2>3 DEF IsIter
    <3> QED
      BY <3>3, <3>4
  <2> QED
    BY <2>2, <2>3
<1>3. T = {}
  <2>1. SUFFICES ASSUME T # {} PROVE FALSE
    OBVIOUS
  <2>2. PICK k \in T : \A m \in T : k <= m
    BY <2>1, Smallest
  <2>3. k \in Nat /\ ~Exists(k)
    OBVIOUS
  <2>4. k # 0
    BY <1>1, <2>3
  <2>5. k - 1 \in Nat /\ k - 1 \notin T
    BY <2>2, <2>3, <2>4
  <2>6. Exists(k - 1)
    BY <2>5
  <2>7. Exists((k - 1) + 1)
    BY <1>2, <2>5, <2>6
  <2> QED
    BY <2>3, <2>7
<1> QED
  BY <1>3

LEMMA FoldIs ==
  ASSUME NEW f, NEW n \in Nat, DOMAIN f = 1..n
  PROVE  \E h : IsIter(h, f, n) /\ FoldLeft(Apply, <<>>, f) = h[1..n]
<1>1. PICK h : IsIter(h, f, n) /\ \A g : IsIter(g, f, n) => g = h
  BY IterExists
<1>2. (CHOOSE g : IsIter(g, f, n)) = h
  BY <1>1
<1>3. FoldLeft(Apply, <<>>, f) = (CHOOSE g : IsIter(g, f, n))[1..n]
  BY DEF FoldLeft, MapThenFoldSet, IsIter
<1> QED
  BY <1>1, <1>2, <1>3

LEMMA NoContent == Content(<<>>) = <<>>
<1>1. PICK h : IsIter(h, <<>>, 0) /\ FoldLeft(Apply, <<>>, <<>>) = h[1..0]
  BY FoldIs
<1>2. 1..0 = {}
  OBVIOUS
<1> QED
  BY <1>1, <1>2 DEF IsIter, Content

LEMMA ContentGrows ==
  ASSUME NEW S, NEW s \in Seq(S), NEW r \in S
  PROVE  Content(Append(s, r)) = Apply(Content(s), r)
<1> DEFINE n == Len(s)
           t == Append(s, r)
<1>1. /\ n \in Nat /\ DOMAIN s = 1..n /\ DOMAIN t = 1..(n+1)
      /\ t[n+1] = r /\ \A i \in 1..n : t[i] = s[i]
  OBVIOUS
<1> HIDE DEF n, t
<1>2. PICK h : IsIter(h, t, n + 1) /\ FoldLeft(Apply, <<>>, t) = h[1..(n+1)]
  BY <1>1, FoldIs
<1>3. PICK g : IsIter(g, s, n) /\ FoldLeft(Apply, <<>>, s) = g[1..n] /\ \A e : IsIter(e, s, n) => e = g
  <2>1. PICK g : IsIter(g, s, n) /\ \A e : IsIter(e, s, n) => e = g
    BY <1>1, IterExists
  <2> QED
    BY <1>1, <2>1, FoldIs
<1> DEFINE e == [u \in SUBSET (1..n) |-> h[u]]
<1>4. \A u \in SUBSET (1..(n+1)) : h[u] = IF u = {} THEN <<>> ELSE Apply(h[u \ {Max(u)}], t[Max(u)])
  BY <1>2 DEF IsIter
<1>5. IsIter(e, s, n)
  <2>1. ASSUME NEW u \in SUBSET (1..n)
        PROVE  e[u] = IF u = {} THEN <<>> ELSE Apply(e[u \ {Max(u)}], s[Max(u)])
    <3>1. u \in SUBSET (1..(n+1)) /\ u \ {Max(u)} \in SUBSET (1..n)
      BY <1>1, WithoutIndex
    <3>2. u # {} => Max(u) \in 1..n
      BY <1>1, Largest
    <3> QED
      BY <1>1, <1>4, <3>1, <3>2
  <2> QED
    BY <2>1 DEF IsIter
<1>6. e = g
  BY <1>3, <1>5
<1>7. /\ Max(1..(n+1)) = n + 1 /\ 1..(n+1) # {} /\ (1..(n+1)) \ {n+1} = 1..n
  <2>1. n + 1 \in 1..(n+1) /\ 1..(n+1) \in SUBSET (1..(n+1)) /\ n + 1 \in Nat
    BY <1>1
  <2>2. Max(1..(n+1)) = n + 1
    BY <2>1, LastIsMax
  <2>3. (1..(n+1)) \ {n+1} = 1..n
    BY <1>1
  <2> QED
    BY <2>1, <2>2, <2>3
<1>8. h[1..(n+1)] = Apply(h[1..n], r)
  BY <1>1, <1>4, <1>7
<1> QED
  BY <1>1, <1>2, <1>3, <1>6, <1>8 DEF Content, t

-----------------------------------------------------------------------------
(* Conversations: turns, compaction, and what a restored one looks like.   *)

LEMMA OneMore ==
  ASSUME NEW S, IsFiniteSet(S), NEW x
  PROVE  Cardinality(S \cup {x}) <= Cardinality(S) + 1
<1>1. Cardinality(S) \in Nat
  BY FS_CardinalityType
<1>2. Cardinality(S \cup {x}) = IF x \in S THEN Cardinality(S) ELSE Cardinality(S) + 1
  BY FS_AddElement
<1> QED
  BY <1>1, <1>2

\* Where one of the RetainTurns last turns begins.
LEMMA RetainedTurn ==
  ASSUME NEW S, NEW messages \in Seq(S), Compactable(messages)
  PROVE  RetainedStart(messages) \in TurnStarts(messages)
<1> DEFINE U(i) == {j \in TurnStarts(messages) : j >= i}
           T == {i \in TurnStarts(messages) : Cardinality(U(i)) <= RetainTurns}
           n == Len(messages)
<1>1. n \in Nat /\ TurnStarts(messages) \in SUBSET (1..n)
  BY DEF TurnStarts
<1>2. IsFiniteSet(TurnStarts(messages))
  <2>1. IsFiniteSet(1..n)
    BY <1>1, FS_Interval
  <2> QED
    BY <1>1, <2>1, FS_Subset
<1>3. /\ Cardinality(TurnStarts(messages)) \in Nat /\ Cardinality(TurnStarts(messages)) > RetainTurns
      /\ \A i : IsFiniteSet(U(i)) /\ Cardinality(U(i)) \in Nat
  <2>1. \A i : U(i) \in SUBSET TurnStarts(messages)
    OBVIOUS
  <2> QED
    BY <1>2, <2>1, FS_Subset, FS_CardinalityType DEF Compactable
<1>4. TurnStarts(messages) # {}
  BY <1>3, FS_EmptySet, RetainTurnsAssumption
<1> HIDE DEF n
<1>5. PICK last \in TurnStarts(messages) : \A j \in TurnStarts(messages) : j <= last
  BY <1>1, <1>4, Largest
<1>6. last \in T
  <2>1. U(last) = {last}
    BY <1>1, <1>5
  <2>2. Cardinality(U(last)) = 1
    BY <2>1, FS_Singleton
  <2> QED
    BY <2>2, RetainTurnsAssumption
<1>7. PICK m \in T : \A i \in T : m <= i
  <2>1. T \in SUBSET Nat
    BY <1>1
  <2> QED
    BY <1>6, <2>1, Smallest
<1>8. m \in TurnStarts(messages) /\ Cardinality(U(m)) <= RetainTurns
  BY <1>7
<1>9. ASSUME NEW p \in TurnStarts(messages), Cardinality(U(p)) <= RetainTurns PROVE m <= p
  BY <1>7, <1>9
<1> HIDE DEF T
<1>10. Cardinality(U(m)) = RetainTurns
  <2>0. SUFFICES ASSUME Cardinality(U(m)) # RetainTurns PROVE FALSE
    OBVIOUS
  <2> DEFINE L == {j \in TurnStarts(messages) : j < m}
  <2>1. L \in SUBSET (1..n) /\ L # {}
    <3>1. L = {} => U(m) = TurnStarts(messages)
      BY <1>1, <1>8
    <3>2. Cardinality(U(m)) # Cardinality(TurnStarts(messages))
      BY <1>3, <1>8, RetainTurnsAssumption
    <3> QED
      BY <1>1, <3>1, <3>2
  <2>2. PICK p \in L : \A j \in L : j <= p
    BY <1>1, <2>1, Largest
  <2>3. U(p) = U(m) \cup {p} /\ p \in TurnStarts(messages) /\ p < m
    BY <1>1, <1>8, <2>2
  <2>4. IsFiniteSet(U(m)) /\ Cardinality(U(m)) \in Nat
    BY <1>3
  <2>5. Cardinality(U(m) \cup {p}) <= Cardinality(U(m)) + 1
    BY <2>4, OneMore
  <2>6. Cardinality(U(m)) + 1 <= RetainTurns /\ Cardinality(U(p)) \in Nat
    BY <1>3, <1>8, <2>0, <2>4, RetainTurnsAssumption
  <2>7. Cardinality(U(p)) <= RetainTurns
    <3> HIDE DEF U
    <3> QED
      BY <2>3, <2>4, <2>5, <2>6, RetainTurnsAssumption
  <2>8. m <= p
    BY <1>9, <2>3, <2>7
  <2> QED
    BY <1>1, <1>8, <2>3, <2>8
<1> QED
  BY <1>8, <1>10 DEF RetainedStart

BeginsTurn(m) == m.role \in {"user", "agent", "system"}

\* Every result follows its call within one turn.
InTurn(messages) ==
    \A i \in DOMAIN messages :
        messages[i].role = "tool" =>
            \E j \in 1..(i - 1) :
                /\ messages[j].role = "assistant"
                /\ messages[i].calls[1] \in ToSet(messages[j].calls)
                /\ \A k \in j..i : ~BeginsTurn(messages[k])

\* The message of a /plan that came first is not among them, and without it.
Unplanned(messages) == messages # <<>> => messages[1] # PlanMessage

Held(messages) == RestoredMessages(Logged(messages))

\* There is a summary among the messages.
Summarized(messages) == \E i \in DOMAIN messages : messages[i].role = "system"

LEMMA NoOrphanInTurn ==
  ASSUME NEW messages \in Conversations, InTurn(messages)
  PROVE  OrphanResults(messages) = {}
BY DEF InTurn, OrphanResults

LEMMA AppendedMessage ==
  ASSUME NEW c \in Conversations, NEW m \in Messages
  PROVE  /\ Append(c, m) \in Conversations /\ Len(Append(c, m)) = Len(c) + 1
         /\ DOMAIN c = 1..Len(c) /\ DOMAIN Append(c, m) = 1..(Len(c) + 1) /\ Len(c) \in Nat
         /\ \A i \in 1..Len(c) : Append(c, m)[i] = c[i]
         /\ Append(c, m)[Len(c) + 1] = m
BY DEF Conversations

LEMMA SaidInTurn ==
  ASSUME NEW c \in Conversations, InTurn(c), NEW m \in Messages, m.role # "tool"
  PROVE  InTurn(Append(c, m))
<1> DEFINE d == Append(c, m)
<1>1. /\ DOMAIN c = 1..Len(c) /\ DOMAIN d = 1..(Len(c) + 1) /\ Len(c) \in Nat
      /\ \A i \in 1..Len(c) : d[i] = c[i]
      /\ d[Len(c) + 1] = m
  BY AppendedMessage
<1> HIDE DEF d
<1>2. ASSUME NEW i \in DOMAIN d, d[i].role = "tool"
      PROVE  \E j \in 1..(i - 1) : /\ d[j].role = "assistant"
                                   /\ d[i].calls[1] \in ToSet(d[j].calls)
                                   /\ \A k \in j..i : ~BeginsTurn(d[k])
  <2>1. i \in 1..Len(c) /\ c[i].role = "tool"
    BY <1>1, <1>2
  <2>2. PICK j \in 1..(i - 1) : /\ c[j].role = "assistant"
                                /\ c[i].calls[1] \in ToSet(c[j].calls)
                                /\ \A k \in j..i : ~BeginsTurn(c[k])
    BY <1>1, <2>1 DEF InTurn
  <2>3. /\ j \in 1..Len(c) /\ \A k \in j..i : k \in 1..Len(c)
    BY <1>1, <2>1
  <2>4. d[j] = c[j] /\ d[i] = c[i] /\ \A k \in j..i : d[k] = c[k]
    BY <1>1, <2>1, <2>3
  <2> QED
    BY <2>2, <2>4
<1> QED
  BY <1>2 DEF InTurn, d

\* The result of a call of the last turn.
LEMMA AnsweredInTurn ==
  ASSUME NEW c \in Conversations, InTurn(c), NEW m \in Messages, m.role = "tool",
         NEW j \in 1..Len(c), c[j].role = "assistant", m.calls[1] \in ToSet(c[j].calls),
         \A k \in j..Len(c) : ~BeginsTurn(c[k])
  PROVE  InTurn(Append(c, m))
<1> DEFINE d == Append(c, m)
<1>1. /\ DOMAIN c = 1..Len(c) /\ DOMAIN d = 1..(Len(c) + 1) /\ Len(c) \in Nat
      /\ \A i \in 1..Len(c) : d[i] = c[i]
      /\ d[Len(c) + 1] = m
  BY AppendedMessage
<1> HIDE DEF d
<1>2. ASSUME NEW i \in DOMAIN d, d[i].role = "tool"
      PROVE  \E jj \in 1..(i - 1) : /\ d[jj].role = "assistant"
                                    /\ d[i].calls[1] \in ToSet(d[jj].calls)
                                    /\ \A k \in jj..i : ~BeginsTurn(d[k])
  <2>1. CASE i = Len(c) + 1
    <3>1. j \in 1..(i - 1) /\ \A k \in j..i : k = Len(c) + 1 \/ (k \in j..Len(c) /\ k \in 1..Len(c))
      BY <1>1, <2>1
    <3>2. d[j] = c[j] /\ d[i] = m /\ \A k \in j..i : ~BeginsTurn(d[k])
      BY <1>1, <2>1, <3>1 DEF BeginsTurn
    <3> QED
      BY <3>1, <3>2
  <2>2. CASE i \in 1..Len(c)
    <3>1. c[i].role = "tool"
      BY <1>1, <1>2, <2>2
    <3>2. PICK jj \in 1..(i - 1) : /\ c[jj].role = "assistant"
                                   /\ c[i].calls[1] \in ToSet(c[jj].calls)
                                   /\ \A k \in jj..i : ~BeginsTurn(c[k])
      BY <1>1, <2>2, <3>1 DEF InTurn
    <3>3. /\ jj \in 1..Len(c) /\ \A k \in jj..i : k \in 1..Len(c)
      BY <1>1, <2>2
    <3>4. d[jj] = c[jj] /\ d[i] = c[i] /\ \A k \in jj..i : d[k] = c[k]
      BY <1>1, <2>2, <3>3
    <3> QED
      BY <3>2, <3>4
  <2> QED
    BY <1>1, <2>1, <2>2
<1> QED
  BY <1>2 DEF InTurn, d

LEMMA SummaryIs ==
  ASSUME NEW untrusted \in BOOLEAN
  PROVE  /\ SummaryMessage(untrusted) \in Messages
         /\ SummaryMessage(untrusted).role = "system"
         /\ SummaryMessage(untrusted).untrusted = untrusted
<1>1. <<>> \in Seq(Calls)
  OBVIOUS
<1> QED
  BY <1>1 DEF SummaryMessage, Message, Messages, Roles

LEMMA CompactIs ==
  ASSUME NEW messages \in Conversations, Compactable(messages)
  PROVE  \E c, start :
             /\ c = Compact(messages)
             /\ start \in 1..Len(messages) /\ messages[start].role \in {"user", "agent"}
             /\ c \in Conversations /\ Len(c) = Len(messages) - start + 2
             /\ c[1].role = "system"
             /\ c[1].untrusted = Marked(SubSeq(messages, 1, start - 1))
             /\ \A i \in 2..Len(c) : c[i] = messages[i + start - 2]
<1> DEFINE start == RetainedStart(messages)
           n == Len(messages)
           summary == SummaryMessage(Marked(SubSeq(messages, 1, start - 1)))
           kept == SubSeq(messages, start, n)
<1>1. n \in Nat /\ start \in 1..n /\ messages[start].role \in {"user", "agent"}
  BY RetainedTurn DEF Conversations, TurnStarts
<1>2. /\ kept \in Conversations /\ Len(kept) = n - start + 1
      /\ \A i \in 1..Len(kept) : kept[i] = messages[i + start - 1]
  BY <1>1 DEF Conversations
<1>3. summary \in Messages /\ summary.untrusted = Marked(SubSeq(messages, 1, start - 1))
  <2>1. Marked(SubSeq(messages, 1, start - 1)) \in BOOLEAN
    BY DEF Marked
  <2> QED
    BY <2>1, SummaryIs
<1>4. summary.role = "system"
  BY SummaryIs DEF Marked
<1>5. Compact(messages) = <<summary>> \o kept
  BY DEF Compact
<1> HIDE DEF summary, kept, start, n
<1>6. /\ <<summary>> \o kept \in Conversations /\ Len(<<summary>> \o kept) = Len(kept) + 1
      /\ (<<summary>> \o kept)[1] = summary
      /\ \A i \in 2..(Len(kept) + 1) : (<<summary>> \o kept)[i] = kept[i - 1]
  BY <1>2, <1>3 DEF Conversations
<1>7. \A i \in 2..(Len(kept) + 1) : kept[i - 1] = messages[i + start - 2]
  BY <1>1, <1>2
<1>8. summary.untrusted = Marked(SubSeq(messages, 1, start - 1))
  BY <1>3
<1>9. Len(<<summary>> \o kept) = Len(messages) - start + 2
  BY <1>1, <1>2, <1>6 DEF n
<1>10. \A i \in 2..Len(<<summary>> \o kept) : (<<summary>> \o kept)[i] = messages[i + start - 2]
  BY <1>6, <1>7
<1> DEFINE c == <<summary>> \o kept
<1>11. /\ c = Compact(messages)
       /\ start \in 1..Len(messages) /\ messages[start].role \in {"user", "agent"}
       /\ c \in Conversations /\ Len(c) = Len(messages) - start + 2
       /\ c[1].role = "system"
       /\ c[1].untrusted = Marked(SubSeq(messages, 1, start - 1))
       /\ \A i \in 2..Len(c) : c[i] = messages[i + start - 2]
  BY <1>1, <1>4, <1>5, <1>6, <1>8, <1>9, <1>10 DEF n
<1> HIDE DEF c
<1> QED
  BY <1>11

\* Compaction cuts between turns, and the mark of untrusted content stays.
LEMMA CompactKeeps ==
  ASSUME NEW messages \in Conversations, Compactable(messages)
  PROVE  /\ Compact(messages) \in Conversations
         /\ Summarized(Compact(messages)) /\ Unplanned(Compact(messages))
         /\ InTurn(messages) => InTurn(Compact(messages))
         /\ Marked(messages) => Marked(Compact(messages))
<1>1. PICK c, start :
             /\ c = Compact(messages)
             /\ start \in 1..Len(messages) /\ messages[start].role \in {"user", "agent"}
             /\ c \in Conversations /\ Len(c) = Len(messages) - start + 2
             /\ c[1].role = "system"
             /\ c[1].untrusted = Marked(SubSeq(messages, 1, start - 1))
             /\ \A i \in 2..Len(c) : c[i] = messages[i + start - 2]
  BY CompactIs
<1>2. /\ Len(messages) \in Nat /\ DOMAIN messages = 1..Len(messages)
      /\ DOMAIN c = 1..Len(c) /\ 1 \in DOMAIN c
  BY <1>1 DEF Conversations
<1>3. Summarized(c) /\ Unplanned(c)
  BY <1>1, <1>2 DEF Summarized, Unplanned, PlanMessage, UserMessage, Message
<1>4. ASSUME InTurn(messages), NEW i \in DOMAIN c, c[i].role = "tool"
      PROVE  \E j \in 1..(i - 1) : /\ c[j].role = "assistant"
                                   /\ c[i].calls[1] \in ToSet(c[j].calls)
                                   /\ \A k \in j..i : ~BeginsTurn(c[k])
  <2> DEFINE e == i + start - 2
  <2>1. /\ i \in 2..Len(c) /\ e \in DOMAIN messages /\ e >= start
        /\ c[i] = messages[e] /\ messages[e].role = "tool"
    BY <1>1, <1>2, <1>4
  <2>2. PICK j \in 1..(e - 1) : /\ messages[j].role = "assistant"
                                /\ messages[e].calls[1] \in ToSet(messages[j].calls)
                                /\ \A k \in j..e : ~BeginsTurn(messages[k])
    BY <1>4, <2>1 DEF InTurn
  <2>3. j > start
    BY <1>1, <1>2, <2>1, <2>2 DEF BeginsTurn
  <2> DEFINE jj == j - start + 2
  <2>4. /\ jj \in 1..(i - 1) /\ jj \in 2..Len(c) /\ jj + start - 2 = j
        /\ \A k \in jj..i : k \in 2..Len(c) /\ k + start - 2 \in j..e
    <3>1. /\ start \in Nat /\ j \in Nat /\ i \in Nat /\ Len(c) \in Nat
          /\ i \in 2..Len(c) /\ j > start /\ j <= e - 1
      BY <1>1, <1>2, <2>1, <2>2, <2>3
    <3> QED
      BY <3>1
  <2>5. c[jj] = messages[j] /\ \A k \in jj..i : c[k] = messages[k + start - 2]
    BY <1>1, <2>4
  <2> QED
    BY <2>1, <2>2, <2>4, <2>5
<1>5. ASSUME Marked(messages) PROVE Marked(c)
  <2>1. PICK i \in DOMAIN messages : messages[i].role = "agent" \/ messages[i].untrusted
    BY <1>5 DEF Marked
  <2>2. CASE i < start
    <3>1. /\ i \in DOMAIN SubSeq(messages, 1, start - 1)
          /\ SubSeq(messages, 1, start - 1)[i] = messages[i]
      BY <1>1, <1>2, <2>1, <2>2 DEF Conversations
    <3>2. Marked(SubSeq(messages, 1, start - 1))
      BY <2>1, <3>1 DEF Marked
    <3> QED
      BY <1>1, <1>2, <3>2 DEF Marked
  <2>3. CASE i >= start
    <3>1. i - start + 2 \in 2..Len(c) /\ (i - start + 2) + start - 2 = i
      BY <1>1, <1>2, <2>1, <2>3
    <3>2. c[i - start + 2] = messages[i] /\ i - start + 2 \in DOMAIN c
      BY <1>1, <1>2, <3>1
    <3> QED
      BY <2>1, <3>2 DEF Marked
  <2> QED
    BY <1>1, <1>2, <2>1, <2>2, <2>3
<1> QED
  BY <1>1, <1>3, <1>4, <1>5 DEF InTurn

LEMMA RestoredIs ==
  ASSUME NEW m \in Messages
  PROVE  /\ RestoredMessage(m) \in Messages
         /\ RestoredMessage(m).calls = m.calls
         /\ RestoredMessage(m).role = IF m.role = "system" THEN "agent" ELSE m.role
         /\ BeginsTurn(RestoredMessage(m)) <=> BeginsTurn(m)
         /\ RestoredMessage(RestoredMessage(m)) = RestoredMessage(m)
BY DEF RestoredMessage, Messages, Roles, BeginsTurn

LEMMA RestoredAre ==
  ASSUME NEW c \in Conversations
  PROVE  /\ RestoredMessages(c) \in Conversations
         /\ Len(RestoredMessages(c)) = Len(c) /\ DOMAIN RestoredMessages(c) = DOMAIN c
         /\ DOMAIN c = 1..Len(c) /\ Len(c) \in Nat
         /\ \A i \in DOMAIN c : RestoredMessages(c)[i] = RestoredMessage(c[i]) /\ c[i] \in Messages
<1>1. DOMAIN c = 1..Len(c) /\ Len(c) \in Nat /\ \A i \in 1..Len(c) : c[i] \in Messages
  BY DEF Conversations
<1>2. \A i \in 1..Len(c) : RestoredMessage(c[i]) \in Messages
  BY <1>1, RestoredIs
<1>3. RestoredMessages(c) = [i \in 1..Len(c) |-> RestoredMessage(c[i])]
  BY <1>1 DEF RestoredMessages
<1>4. RestoredMessages(c) \in Seq(Messages) /\ Len(RestoredMessages(c)) = Len(c)
  BY <1>1, <1>2, <1>3
<1> QED
  BY <1>1, <1>3, <1>4 DEF Conversations

LEMMA RestoredKeep ==
  ASSUME NEW c \in Conversations
  PROVE  /\ RestoredMessages(RestoredMessages(c)) = RestoredMessages(c)
         /\ InTurn(c) => InTurn(RestoredMessages(c))
         /\ Summarized(c) => Marked(RestoredMessages(c))
<1> DEFINE d == RestoredMessages(c)
<1>1. /\ d \in Conversations /\ Len(d) = Len(c) /\ DOMAIN d = DOMAIN c /\ DOMAIN c = 1..Len(c)
      /\ Len(c) \in Nat
      /\ \A i \in DOMAIN c : d[i] = RestoredMessage(c[i]) /\ c[i] \in Messages
  BY RestoredAre
<1> HIDE DEF d
<1>2. /\ DOMAIN RestoredMessages(d) = DOMAIN d
      /\ \A i \in DOMAIN d : RestoredMessages(d)[i] = d[i]
  BY <1>1, RestoredAre, RestoredIs
<1>3. RestoredMessages(d) = d
  <2>1. RestoredMessages(d) = [i \in DOMAIN d |-> RestoredMessages(d)[i]]
    BY DEF RestoredMessages
  <2>2. d = [i \in DOMAIN d |-> d[i]]
    BY <1>1 DEF Conversations
  <2> QED
    BY <1>2, <2>1, <2>2
<1>4. ASSUME InTurn(c), NEW i \in DOMAIN d, d[i].role = "tool"
      PROVE  \E j \in 1..(i - 1) : /\ d[j].role = "assistant"
                                   /\ d[i].calls[1] \in ToSet(d[j].calls)
                                   /\ \A k \in j..i : ~BeginsTurn(d[k])
  <2>1. i \in DOMAIN c /\ c[i].role = "tool" /\ d[i].calls = c[i].calls
    BY <1>1, <1>4, RestoredIs
  <2>2. PICK j \in 1..(i - 1) : /\ c[j].role = "assistant"
                                /\ c[i].calls[1] \in ToSet(c[j].calls)
                                /\ \A k \in j..i : ~BeginsTurn(c[k])
    BY <1>4, <2>1 DEF InTurn
  <2>3. j \in DOMAIN c /\ \A k \in j..i : k \in DOMAIN c
    BY <1>1, <2>1
  <2>4. /\ d[j].role = "assistant" /\ d[j].calls = c[j].calls
        /\ \A k \in j..i : ~BeginsTurn(d[k])
    BY <1>1, <2>2, <2>3, RestoredIs
  <2> QED
    BY <2>1, <2>2, <2>4
<1>5. ASSUME Summarized(c) PROVE Marked(d)
  <2>1. PICK i \in DOMAIN c : c[i].role = "system"
    BY <1>5 DEF Summarized
  <2>2. i \in DOMAIN d /\ d[i].role = "agent"
    BY <1>1, <2>1, RestoredIs
  <2> QED
    BY <2>2 DEF Marked
<1> QED
  BY <1>3, <1>4, <1>5 DEF InTurn, d

LEMMA RestoredAppend ==
  ASSUME NEW c \in Conversations, NEW m \in Messages
  PROVE  RestoredMessages(Append(c, m)) = Append(RestoredMessages(c), RestoredMessage(m))
<1> DEFINE d == RestoredMessages(c)
           a == Append(c, m)
           b == Append(d, RestoredMessage(m))
           n == Len(c)
<1>1. /\ d \in Conversations /\ Len(d) = n /\ n \in Nat /\ DOMAIN c = 1..n
      /\ \A i \in 1..n : d[i] = RestoredMessage(c[i])
  BY RestoredAre
<1>2. RestoredMessage(m) \in Messages
  BY RestoredIs
<1>3. /\ a \in Conversations /\ DOMAIN a = 1..(n+1)
      /\ a[n+1] = m /\ \A i \in 1..n : a[i] = c[i]
  BY AppendedMessage
<1>4. /\ b \in Conversations /\ DOMAIN b = 1..(n+1)
      /\ b[n+1] = RestoredMessage(m) /\ \A i \in 1..n : b[i] = d[i]
  <2> DEFINE r == RestoredMessage(m)
  <2>0. d \in Conversations /\ r \in Messages /\ Len(d) = n
    BY <1>1, <1>2
  <2> HIDE DEF d, r, n
  <2>1. /\ Append(d, r) \in Conversations /\ DOMAIN Append(d, r) = 1..(Len(d) + 1)
        /\ Append(d, r)[Len(d) + 1] = r /\ \A i \in 1..Len(d) : Append(d, r)[i] = d[i]
    BY <2>0, AppendedMessage
  <2>2. /\ Append(d, r) \in Conversations /\ DOMAIN Append(d, r) = 1..(n + 1)
        /\ Append(d, r)[n + 1] = r /\ \A i \in 1..n : Append(d, r)[i] = d[i]
    BY <2>0, <2>1
  <2> QED
    BY <2>2 DEF r
<1> HIDE DEF d, a, b, n
<1>5. RestoredMessages(a) = [i \in 1..(n+1) |-> RestoredMessage(a[i])]
  BY <1>3 DEF RestoredMessages
<1>6. \A i \in 1..(n+1) : RestoredMessage(a[i]) = b[i]
  BY <1>1, <1>3, <1>4
<1>7. b = [i \in 1..(n+1) |-> b[i]]
  BY <1>4 DEF Conversations
<1>8. RestoredMessages(a) = b
  BY <1>5, <1>6, <1>7
<1> QED
  BY <1>8 DEF a, b, d

\* What the message of a /plan that came first does not change.
LEMMA HeldIs ==
  ASSUME NEW c \in Conversations
  PROVE  /\ Logged(c) \in Conversations
         /\ Unplanned(c) => Held(c) = RestoredMessages(c)
         /\ Unplanned(c) => Unplanned(RestoredMessages(c))
<1>1. Logged(c) \in Conversations
  BY DEF Logged, Conversations
<1>2. Unplanned(c) => Held(c) = RestoredMessages(c)
  BY DEF Unplanned, Held, Logged
<1>3. ASSUME Unplanned(c), RestoredMessages(c) # <<>>, RestoredMessages(c)[1] = PlanMessage
      PROVE  FALSE
  <2>1. /\ RestoredMessages(c) \in Conversations /\ DOMAIN RestoredMessages(c) = DOMAIN c
        /\ DOMAIN c = 1..Len(c) /\ Len(c) \in Nat /\ Len(RestoredMessages(c)) = Len(c)
        /\ \A i \in DOMAIN c : RestoredMessages(c)[i] = RestoredMessage(c[i]) /\ c[i] \in Messages
    BY RestoredAre
  <2>2. 1 \in DOMAIN c /\ c # <<>>
    BY <1>3, <2>1 DEF Conversations
  <2>3. RestoredMessage(c[1]) = PlanMessage /\ PlanMessage.role = "user"
    BY <1>3, <2>1, <2>2 DEF PlanMessage, UserMessage, Message
  <2>4. c[1].role = "user"
    BY <2>1, <2>2, <2>3, RestoredIs
  <2>5. c[1] = PlanMessage
    BY <2>3, <2>4 DEF RestoredMessage
  <2> QED
    BY <1>3, <2>2, <2>5 DEF Unplanned
<1> QED
  BY <1>1, <1>2, <1>3 DEF Unplanned

LEMMA HeldAppend ==
  ASSUME NEW c \in Conversations, NEW m \in Messages, m # PlanMessage
  PROVE  Held(Append(c, m)) = Append(Held(c), RestoredMessage(m))
<1> DEFINE d == Append(c, m)
<1>1. /\ d \in Conversations /\ d # <<>> /\ Len(d) = Len(c) + 1 /\ Len(c) \in Nat
      /\ DOMAIN d = 1..(Len(c) + 1) /\ d[Len(c) + 1] = m /\ \A i \in 1..Len(c) : d[i] = c[i]
  BY AppendedMessage DEF Conversations
<1>2. CASE Unplanned(c)
  <2>1. Unplanned(d)
    <3>1. CASE c = <<>>
      <4>1. Len(c) = 0
        BY <3>1
      <4> QED
        BY <1>1, <4>1 DEF Unplanned
    <3>2. CASE c # <<>>
      <4>1. 1 \in 1..Len(c)
        BY <3>2 DEF Conversations
      <4> QED
        BY <1>1, <1>2, <3>2, <4>1 DEF Unplanned
    <3> QED
      BY <3>1, <3>2
  <2>2. Held(d) = RestoredMessages(d) /\ Held(c) = RestoredMessages(c)
    BY <1>1, <1>2, <2>1, HeldIs
  <2> QED
    BY <2>2, RestoredAppend
<1>3. CASE ~Unplanned(c)
  <2>1. c # <<>> /\ c[1] = PlanMessage
    BY <1>3 DEF Unplanned
  <2>2. 1 \in 1..Len(c) /\ Len(c) >= 1
    BY <2>1 DEF Conversations
  <2>3. d[1] = PlanMessage
    BY <1>1, <2>1, <2>2
  <2>4. Logged(d) = Tail(d) /\ Logged(c) = Tail(c)
    BY <1>1, <2>1, <2>3 DEF Logged
  <2>5. Tail(c) \in Conversations /\ Tail(d) = Append(Tail(c), m)
    BY <2>1, <2>2 DEF Conversations
  <2> QED
    BY <2>4, <2>5, RestoredAppend DEF Held
<1> QED
  BY <1>2, <1>3

LEMMA MarkedGrows ==
  ASSUME NEW c \in Conversations, NEW m \in Messages
  PROVE  Marked(c) \/ m.role = "agent" => Marked(Append(c, m))
BY AppendedMessage DEF Marked

-----------------------------------------------------------------------------
(* The file and its writers.                                               *)

IsContent(r) == r.type \in MessageTypes \cup {"context_compaction"}

FileTypes ==
    MessageTypes \cup
        {"session_meta", "state_snapshot", "memory_extraction", "context_compaction", "tool_call"}

Contents ==
    Seq([role : Roles \cup {"call"}, id : Nat, calls : Seq(Calls), untrusted : BOOLEAN])

\* The records a writer appends: one message with its type, or a conversation with its summary.
FileRecords ==
    {r \in [type : FileTypes, content : Contents] :
        /\ r.type = "session_meta" => r = Meta
        /\ r.type \in MessageTypes =>
              /\ r.content = <<r.content[1]>> /\ r.content[1] \in Messages
              /\ r.content[1].role # "system" /\ r.content[1] # PlanMessage
              /\ MessageEventType(r.content[1]) = r.type
              /\ IsInjective(r.content[1].calls)
        /\ r.type = "context_compaction" =>
              r.content \in Conversations /\ Summarized(r.content) /\ Unplanned(r.content)}

Stages == {"idle", "queued", "working", "writing"}

RecordTypes ==
    /\ lines \in Seq(FileRecords)
    /\ tail \in {NoTail} \cup
          {Unfinished(part, r) : part \in {"partial", "whole"}, r \in FileRecords}
    /\ job \in [Writers -> [stage : Stages, steps : Seq(FileRecords \cup {Reindex})]]
    /\ \A w \in Writers :
          job[w].stage = "writing" => job[w].steps # <<>> /\ Head(job[w].steps) \in FileRecords

\* The metadata is written first or never, and by one writer.
MetaIsFirst ==
    /\ ~exists => lines = <<>> /\ tail = NoTail /\ \A w \in Writers : job[w].stage # "writing"
    /\ \A i \in DOMAIN lines : lines[i] = Meta => i = 1
    /\ tail.part = "whole" /\ lines # <<>> => tail.record # Meta
    /\ \A w \in Writers : \A i \in DOMAIN job[w].steps :
          job[w].steps[i] = Meta =>
              i = 1 /\ lines = <<>> /\ job[w].stage \in {"working", "writing"}

\* An operation adds to the conversation once at most, an extraction never.
OneContent ==
    /\ \A i \in DOMAIN job["extraction"].steps : ~IsContent(job["extraction"].steps[i])
    /\ \A i, j \in DOMAIN job["run"].steps :
          IsContent(job["run"].steps[i]) /\ IsContent(job["run"].steps[j]) => i = j

\* Whatever is read of the file, now or when the next record is complete.
ContentInTurn ==
    /\ Content(lines) \in Conversations /\ InTurn(Content(lines)) /\ Unplanned(Content(lines))
    /\ tail.part = "whole" => InTurn(Apply(Content(lines), tail.record))
    /\ \A i \in DOMAIN job["run"].steps :
          IsContent(job["run"].steps[i]) => InTurn(Apply(Content(lines), job["run"].steps[i]))

AgentLogged == \E i \in DOMAIN lines : lines[i].type = "agent_message"

ContentIsMarked == AgentLogged => Marked(RestoredMessages(Content(lines)))

FileInv ==
    /\ LogInv
    /\ RecordTypes
    /\ MetaIsFirst
    /\ OneContent
    /\ ContentInTurn
    /\ ContentIsMarked

LEMMA RecordIs ==
  ASSUME NEW r \in FileRecords
  PROVE  /\ Decodes(r)
         /\ r \notin {Garbled, Reindex}
         /\ r.type = "session_meta" <=> r = Meta
<1>1. r # Garbled /\ r # Reindex /\ r.type \in FileTypes
  BY DEF FileRecords, FileTypes, MessageTypes, Garbled, Reindex, Record
<1>2. r.type = "session_meta" <=> r = Meta
  BY DEF FileRecords, Meta, Record
<1>3. ASSUME r.type \in MessageTypes
      PROVE  /\ r.content[1].role \in AllowedRoles(r.type)
             /\ IsInjective(r.content[1].calls)
  <2>1. /\ r.content[1].role \in Roles \ {"system"} /\ MessageEventType(r.content[1]) = r.type
        /\ IsInjective(r.content[1].calls)
    BY <1>3 DEF FileRecords, Messages
  <2> QED
    BY <2>1 DEF Roles, MessageEventType, AllowedRoles
<1> QED
  BY <1>1, <1>2, <1>3 DEF Decodes

LEMMA AppliedIs ==
  ASSUME NEW c \in Conversations, NEW r \in FileRecords
  PROVE  /\ Apply(c, r) \in Conversations
         /\ ~IsContent(r) => Apply(c, r) = c
         /\ Unplanned(c) => Unplanned(Apply(c, r))
<1>1. CASE r.type \in MessageTypes
  <2> DEFINE m == r.content[1]
  <2>1. Apply(c, r) = Append(c, m) /\ m \in Messages /\ m # PlanMessage
    BY <1>1 DEF Apply, FileRecords, MessageTypes
  <2>2. IsContent(r)
    BY <1>1 DEF IsContent
  <2> HIDE DEF m
  <2>3. /\ Append(c, m) \in Conversations /\ Append(c, m)[Len(c) + 1] = m /\ Len(c) \in Nat
        /\ \A i \in 1..Len(c) : Append(c, m)[i] = c[i]
    BY <2>1, AppendedMessage
  <2>4. Unplanned(c) => Unplanned(Append(c, m))
    <3>1. CASE c = <<>>
      <4>1. Len(c) = 0
        BY <3>1
      <4> QED
        BY <2>1, <2>3, <4>1 DEF Unplanned
    <3>2. CASE c # <<>>
      <4>1. 1 \in 1..Len(c)
        BY <3>2 DEF Conversations
      <4> QED
        BY <2>3, <3>2, <4>1 DEF Unplanned
    <3> QED
      BY <3>1, <3>2
  <2> QED
    BY <2>1, <2>2, <2>3, <2>4
<1>2. CASE r.type = "context_compaction"
  BY <1>2 DEF Apply, FileRecords, IsContent, MessageTypes
<1>3. CASE r.type \notin MessageTypes \cup {"context_compaction"}
  BY <1>3 DEF Apply
<1> QED
  BY <1>1, <1>2, <1>3

\* The mark of a conversation that was restored stays, and a message of an agent brings it.
LEMMA AppliedMark ==
  ASSUME NEW c \in Conversations, NEW r \in FileRecords,
         Marked(RestoredMessages(c)) \/ r.type = "agent_message"
  PROVE  Marked(RestoredMessages(Apply(c, r)))
<1>1. CASE r.type \in MessageTypes
  <2> DEFINE m == r.content[1]
  <2>1. Apply(c, r) = Append(c, m) /\ m \in Messages /\ MessageEventType(m) = r.type
    BY <1>1 DEF Apply, FileRecords, MessageTypes
  <2>2. /\ RestoredMessages(Append(c, m)) = Append(RestoredMessages(c), RestoredMessage(m))
        /\ RestoredMessage(m) \in Messages /\ RestoredMessages(c) \in Conversations
    BY <2>1, RestoredAppend, RestoredIs, RestoredAre
  <2>3. r.type = "agent_message" => RestoredMessage(m).role = "agent"
    BY <2>1, RestoredIs DEF MessageEventType
  <2> HIDE DEF m
  <2>4. Marked(Append(RestoredMessages(c), RestoredMessage(m)))
    BY <2>2, <2>3, MarkedGrows
  <2> QED
    BY <2>1, <2>2, <2>4
<1>2. CASE r.type = "context_compaction"
  <2>1. Apply(c, r) = r.content /\ r.content \in Conversations /\ Summarized(r.content)
    BY <1>2 DEF Apply, FileRecords, MessageTypes
  <2> QED
    BY <2>1, RestoredKeep
<1>3. CASE r.type \notin MessageTypes \cup {"context_compaction"}
  BY <1>3, AppliedIs DEF IsContent, MessageTypes
<1> QED
  BY <1>1, <1>2, <1>3

\* What makes a file readable is that it begins with the metadata.
LEMMA BegunIsLoadable ==
  ASSUME FileInv, exists, lines # <<>>, lines[1] = Meta
  PROVE  Loadable
<1>1. /\ lines \in Seq(FileRecords)
      /\ tail.part = "whole" => tail.record \in FileRecords /\ tail.record # Meta
  <2>1. tail.part = "whole" => tail.record \in FileRecords
    BY DEF FileInv, RecordTypes, NoTail, Unfinished
  <2> QED
    BY <2>1 DEF FileInv, RecordTypes, MetaIsFirst
<1>2. \A i \in DOMAIN lines : lines[i] = Meta <=> i = 1
  BY <1>1 DEF FileInv, MetaIsFirst
<1>3. ASSUME NEW i \in DOMAIN Readable PROVE Readable[i] \in FileRecords /\ (i = 1 <=> Readable[i] = Meta)
  BY <1>1, <1>2 DEF Readable
<1>4. Readable # <<>>
  BY <1>1 DEF Readable
<1> QED
  BY <1>3, <1>4, RecordIs DEF Loadable

\* What is in the file once the operation of the run has been done.
Pending(steps) == {steps[i] : i \in {i \in DOMAIN steps : IsContent(steps[i])}}

AheadIs(c) ==
    /\ \A r \in Pending(job["run"].steps) : c = Apply(Content(lines), r)
    /\ Pending(job["run"].steps) = {} => c = Content(lines)

\* Steps a writer may have, and a tail the file may have.
StepsFine(w, stage, steps) ==
    /\ steps \in Seq(FileRecords \cup {Reindex})
    /\ stage = "writing" => steps # <<>> /\ Head(steps) \in FileRecords
    /\ \A i \in DOMAIN steps :
          steps[i] = Meta => i = 1 /\ lines = <<>> /\ stage \in {"working", "writing"}
    /\ w = "extraction" => \A i \in DOMAIN steps : ~IsContent(steps[i])
    /\ \A i, j \in DOMAIN steps : IsContent(steps[i]) /\ IsContent(steps[j]) => i = j
    /\ \A i \in DOMAIN steps :
          IsContent(steps[i]) => InTurn(Apply(Content(lines), steps[i]))

TailFine(t) ==
    /\ t \in {NoTail} \cup
          {Unfinished(part, r) : part \in {"partial", "whole"}, r \in FileRecords}
    /\ t.part = "whole" =>
          /\ lines # <<>> => t.record # Meta
          /\ InTurn(Apply(Content(lines), t.record))

LEMMA FinePresent ==
  ASSUME FileInv
  PROVE  /\ TailFine(tail)
         /\ \A w \in Writers : job[w].stage \in Stages /\ StepsFine(w, job[w].stage, job[w].steps)
<1>1. TailFine(tail)
  BY DEF FileInv, RecordTypes, MetaIsFirst, ContentInTurn, TailFine
<1>2. ASSUME NEW w \in Writers PROVE job[w].stage \in Stages /\ StepsFine(w, job[w].stage, job[w].steps)
  <2>1. w \in {"run", "extraction"}
    BY DEF Writers
  <2>2. job[w].stage \in Stages /\ job[w].steps \in Seq(FileRecords \cup {Reindex})
    BY DEF FileInv, RecordTypes
  <2> QED
    BY <2>1, <2>2 DEF FileInv, RecordTypes, MetaIsFirst, OneContent, ContentInTurn, StepsFine
<1> QED
  BY <1>1, <1>2

\* A step of a writer, or for one, that completes no record.
LEMMA FileKeeps ==
  ASSUME FileInv, LogInv', UNCHANGED lines, TailFine(tail'), exists => exists',
         ~exists' => lines = <<>> /\ tail' = NoTail,
         NEW w \in Writers, NEW stage \in Stages, NEW steps, StepsFine(w, stage, steps),
         stage = "writing" => exists',
         job' = [job EXCEPT ![w] = [stage |-> stage, steps |-> steps]]
  PROVE  FileInv'
<1>1. \A v \in Writers : job'[v] = IF v = w THEN [stage |-> stage, steps |-> steps] ELSE job[v]
  BY DEF FileInv, RecordTypes
<1>2. \A v \in Writers : StepsFine(v, job'[v].stage, job'[v].steps) /\ job'[v].stage \in Stages
  BY <1>1, FinePresent
<1>3. RecordTypes'
  <2>1. job' \in [Writers -> [stage : Stages, steps : Seq(FileRecords \cup {Reindex})]]
    BY DEF FileInv, RecordTypes, StepsFine
  <2> QED
    BY <1>2, <2>1 DEF FileInv, RecordTypes, StepsFine, TailFine
<1>4. MetaIsFirst'
  BY <1>1, <1>2 DEF FileInv, MetaIsFirst, StepsFine, TailFine
<1>5. OneContent'
  BY <1>2 DEF OneContent, StepsFine, Writers
<1>6. ContentInTurn'
  BY <1>2 DEF FileInv, ContentInTurn, StepsFine, TailFine, Writers
<1>7. ContentIsMarked'
  BY DEF FileInv, ContentIsMarked, AgentLogged
<1> QED
  BY <1>3, <1>4, <1>5, <1>6, <1>7 DEF FileInv

\* The steps that are left, or none.
LEMMA StepsLeft ==
  ASSUME NEW w, NEW stage, NEW steps, StepsFine(w, stage, steps), steps # <<>>
  PROVE  /\ Head(steps) = steps[1] /\ 1 \in DOMAIN steps
         /\ DOMAIN Tail(steps) = 1..(Len(steps) - 1) /\ DOMAIN steps = 1..Len(steps)
         /\ \A i \in DOMAIN Tail(steps) : i + 1 \in DOMAIN steps /\ Tail(steps)[i] = steps[i + 1]
         /\ StepsFine(w, "working", Tail(steps))
         /\ \A i \in DOMAIN Tail(steps) : Tail(steps)[i] # Meta
         /\ IsContent(Head(steps)) => \A i \in DOMAIN Tail(steps) : ~IsContent(Tail(steps)[i])
<1>0. steps \in Seq(FileRecords \cup {Reindex})
  BY DEF StepsFine
<1>1. /\ Head(steps) = steps[1] /\ 1 \in DOMAIN steps /\ Len(steps) \in Nat
      /\ DOMAIN Tail(steps) = 1..(Len(steps) - 1) /\ DOMAIN steps = 1..Len(steps)
      /\ \A i \in DOMAIN Tail(steps) : Tail(steps)[i] = steps[i + 1]
      /\ Tail(steps) \in Seq(FileRecords \cup {Reindex})
  BY <1>0
<1>2. \A i \in DOMAIN Tail(steps) : i + 1 \in DOMAIN steps /\ i + 1 # 1
  BY <1>1
<1>3. \A i \in DOMAIN Tail(steps) : Tail(steps)[i] # Meta
  BY <1>1, <1>2 DEF StepsFine
<1>4. IsContent(Head(steps)) => \A i \in DOMAIN Tail(steps) : ~IsContent(Tail(steps)[i])
  BY <1>1, <1>2 DEF StepsFine
<1>5. \A i, j \in DOMAIN Tail(steps) : i + 1 = j + 1 => i = j
  BY <1>1
<1>6. StepsFine(w, "working", Tail(steps))
  BY <1>1, <1>2, <1>3, <1>5 DEF StepsFine
<1> QED
  BY <1>1, <1>2, <1>3, <1>4, <1>6

LEMMA NoStepsFine ==
  ASSUME NEW w, NEW stage \in Stages, stage # "writing"
  PROVE  StepsFine(w, stage, <<>>) /\ Pending(<<>>) = {}
BY DEF StepsFine, Pending

LEMMA Joined ==
  ASSUME NEW S, NEW s \in Seq(S), NEW t \in Seq(S)
  PROVE  /\ s \o t \in Seq(S) /\ Len(s \o t) = Len(s) + Len(t)
         /\ Len(s) \in Nat /\ Len(t) \in Nat
         /\ DOMAIN s = 1..Len(s) /\ DOMAIN t = 1..Len(t) /\ DOMAIN (s \o t) = 1..(Len(s) + Len(t))
         /\ \A i \in 1..Len(s) : (s \o t)[i] = s[i]
         /\ \A i \in 1..Len(t) : (s \o t)[Len(s) + i] = t[i]
<1>1. /\ s \o t \in Seq(S) /\ Len(s \o t) = Len(s) + Len(t) /\ Len(s) \in Nat /\ Len(t) \in Nat
      /\ DOMAIN s = 1..Len(s) /\ DOMAIN t = 1..Len(t) /\ DOMAIN (s \o t) = 1..(Len(s) + Len(t))
  OBVIOUS
<1>2. ASSUME NEW i \in 1..Len(s) PROVE (s \o t)[i] = s[i]
  OBVIOUS
<1>3. ASSUME NEW i \in 1..Len(t) PROVE (s \o t)[Len(s) + i] = t[i]
  OBVIOUS
<1> QED
  BY <1>1, <1>2, <1>3

LEMMA PendingLeft ==
  ASSUME NEW w, NEW stage, NEW steps, StepsFine(w, stage, steps), steps # <<>>
  PROVE  IF IsContent(Head(steps))
         THEN Pending(steps) = {Head(steps)} /\ Pending(Tail(steps)) = {}
         ELSE Pending(Tail(steps)) = Pending(steps)
<1> DEFINE rest == Tail(steps)
<1>1. /\ Head(steps) = steps[1] /\ 1 \in DOMAIN steps /\ Len(steps) \in Nat
      /\ DOMAIN rest = 1..(Len(steps) - 1) /\ DOMAIN steps = 1..Len(steps)
      /\ \A i \in DOMAIN rest : i + 1 \in DOMAIN steps /\ rest[i] = steps[i + 1]
      /\ IsContent(Head(steps)) => \A i \in DOMAIN rest : ~IsContent(rest[i])
  BY StepsLeft DEF StepsFine
<1>2. \A i \in DOMAIN steps : i = 1 \/ (i - 1 \in DOMAIN rest /\ rest[i - 1] = steps[i])
  BY <1>1
<1> HIDE DEF rest
<1>3. ASSUME NEW r PROVE r \in Pending(steps) <=> (IsContent(Head(steps)) /\ r = Head(steps)) \/ r \in Pending(rest)
  <2>1. ASSUME r \in Pending(steps) PROVE (IsContent(Head(steps)) /\ r = Head(steps)) \/ r \in Pending(rest)
    <3>1. PICK i \in DOMAIN steps : IsContent(steps[i]) /\ r = steps[i]
      BY <2>1 DEF Pending
    <3> QED
      BY <1>1, <1>2, <3>1 DEF Pending
  <2>2. ASSUME r \in Pending(rest) PROVE r \in Pending(steps)
    BY <1>1, <2>2 DEF Pending
  <2>3. ASSUME IsContent(Head(steps)), r = Head(steps) PROVE r \in Pending(steps)
    BY <1>1, <2>3 DEF Pending
  <2> QED
    BY <2>1, <2>2, <2>3
<1>4. IsContent(Head(steps)) => Pending(rest) = {}
  BY <1>1 DEF Pending
<1>5. IsContent(Head(steps)) => Pending(steps) = {Head(steps)}
  BY <1>3, <1>4
<1>6. ~IsContent(Head(steps)) => Pending(rest) = Pending(steps)
  BY <1>3
<1> QED
  BY <1>4, <1>5, <1>6 DEF rest

\* The first operation on a file that is not there writes the metadata before its own records.
LEMMA OpenedFine ==
  ASSUME NEW w, NEW steps, StepsFine(w, "queued", steps), lines = <<>>
  PROVE  /\ StepsFine(w, "working", <<Meta, Reindex>> \o steps)
         /\ Pending(<<Meta, Reindex>> \o steps) = Pending(steps)
<1> DEFINE longer == <<Meta, Reindex>> \o steps
<1>1. Meta \in FileRecords
  <2>1. <<>> \in Contents
    BY DEF Contents
  <2>2. Meta = [type |-> "session_meta", content |-> <<>>]
    BY DEF Meta, Record
  <2> QED
    BY <2>1, <2>2 DEF FileRecords, FileTypes, MessageTypes
<1>2. ~IsContent(Meta) /\ ~IsContent(Reindex) /\ Meta # Reindex
  BY DEF Meta, Reindex, Record, IsContent, MessageTypes
<1>3. /\ longer \in Seq(FileRecords \cup {Reindex}) /\ longer # <<>> /\ Head(longer) = Meta
      /\ DOMAIN longer = 1..(Len(steps) + 2) /\ Len(steps) \in Nat /\ DOMAIN steps = 1..Len(steps)
      /\ longer[1] = Meta /\ longer[2] = Reindex
      /\ \A i \in 3..(Len(steps) + 2) : i - 2 \in DOMAIN steps /\ longer[i] = steps[i - 2]
      /\ \A i \in DOMAIN steps : i + 2 \in DOMAIN longer /\ longer[i + 2] = steps[i]
  <2> DEFINE first == <<Meta, Reindex>>
  <2>1. first \in Seq(FileRecords \cup {Reindex}) /\ Len(first) = 2 /\ first[1] = Meta /\ first[2] = Reindex
    BY <1>1
  <2>2. steps \in Seq(FileRecords \cup {Reindex}) /\ Len(steps) \in Nat /\ DOMAIN steps = 1..Len(steps)
    BY DEF StepsFine
  <2> HIDE DEF first
  <2>3. /\ first \o steps \in Seq(FileRecords \cup {Reindex})
        /\ Len(first \o steps) = Len(first) + Len(steps)
        /\ DOMAIN (first \o steps) = 1..(Len(first) + Len(steps))
        /\ \A i \in 1..Len(first) : (first \o steps)[i] = first[i]
        /\ \A i \in DOMAIN steps : (first \o steps)[Len(first) + i] = steps[i]
    <3> DEFINE R == FileRecords \cup {Reindex}
    <3>1. first \in Seq(R) /\ steps \in Seq(R)
      BY <2>1, <2>2
    <3> HIDE DEF R
    <3> QED
      BY <2>2, <3>1, Joined DEF R
  <2>5. ASSUME NEW i \in 3..(Len(steps) + 2) PROVE i - 2 \in DOMAIN steps /\ (first \o steps)[i] = steps[i - 2]
    <3>1. i - 2 \in DOMAIN steps /\ 2 + (i - 2) = i
      BY <2>2
    <3> QED
      BY <2>1, <2>3, <3>1
  <2>4. \A i \in DOMAIN steps : i + 2 \in 3..(Len(steps) + 2) /\ (i + 2) - 2 = i
    BY <2>2
  <2> QED
    BY <2>1, <2>2, <2>3, <2>4, <2>5 DEF first
<1> HIDE DEF longer
<1>4. \A i \in DOMAIN longer : i = 1 \/ i = 2 \/ i \in 3..(Len(steps) + 2)
  BY <1>3
<1>5. \A i \in DOMAIN longer :
         IsContent(longer[i]) => i \in 3..(Len(steps) + 2) /\ i - 2 \in DOMAIN steps /\ longer[i] = steps[i - 2]
  BY <1>2, <1>3, <1>4
<1>6. Pending(longer) = Pending(steps)
  BY <1>3, <1>5 DEF Pending
<1>7. \A i \in DOMAIN longer : longer[i] = Meta => i = 1
  BY <1>2, <1>3, <1>4 DEF StepsFine
<1>8. \A i, j \in DOMAIN longer : IsContent(longer[i]) /\ IsContent(longer[j]) => i = j
  <2> SUFFICES ASSUME NEW i \in DOMAIN longer, NEW j \in DOMAIN longer, IsContent(longer[i]), IsContent(longer[j])
               PROVE  i = j
    OBVIOUS
  <2>1. i - 2 = j - 2 /\ i \in Int /\ j \in Int
    BY <1>5 DEF StepsFine
  <2> QED
    BY <2>1
<1>9. StepsFine(w, "working", longer)
  BY <1>3, <1>5, <1>7, <1>8 DEF StepsFine
<1> QED
  BY <1>6, <1>9 DEF longer

LEMMA FileInit == Init => FileInv
<1> SUFFICES ASSUME Init PROVE FileInv
  OBVIOUS
<1>1. /\ lines = <<>> /\ tail = NoTail /\ job = [w \in Writers |-> Idle] /\ exists = FALSE
      /\ tail.part # "whole" /\ \A w \in Writers : job[w] = Idle
  BY DEF Init, NoTail
<1>2. lines \in Seq(FileRecords) /\ DOMAIN lines = {}
  BY <1>1
<1>3. Idle \in [stage : Stages, steps : Seq(FileRecords \cup {Reindex})] /\ DOMAIN Idle.steps = {} /\ Idle.stage = "idle"
  <2>1. <<>> \in Seq(FileRecords \cup {Reindex}) /\ DOMAIN <<>> = {}
    OBVIOUS
  <2> QED
    BY <2>1 DEF Idle, Stages
<1>4. Content(lines) = <<>> /\ <<>> \in Conversations /\ InTurn(<<>>) /\ Unplanned(<<>>)
  BY <1>1, NoContent DEF Conversations, InTurn, Unplanned
<1>5. RecordTypes
  BY <1>1, <1>2, <1>3 DEF RecordTypes
<1>6. MetaIsFirst
  BY <1>1, <1>2, <1>3 DEF MetaIsFirst
<1>7. OneContent /\ ContentInTurn /\ ContentIsMarked
  BY <1>1, <1>2, <1>3, <1>4 DEF OneContent, ContentInTurn, ContentIsMarked, AgentLogged, Writers
<1> QED
  BY <1>5, <1>6, <1>7, LogInit DEF FileInv

\* What the run has pending is not lost by a step of a writer.
AheadStays == \A c : AheadIs(c) => AheadIs(c)'

LEMMA AheadKeeps ==
  ASSUME UNCHANGED lines, Pending(job'["run"].steps) = Pending(job["run"].steps)
  PROVE  AheadStays
<1>1. ASSUME NEW c, AheadIs(c) PROVE AheadIs(c)'
  <2>1. Pending(job["run"].steps)' = Pending(job["run"].steps)
    BY DEF Pending
  <2> QED
    BY <1>1, <2>1 DEF AheadIs
<1> QED
  BY <1>1 DEF AheadStays

\* A complete record is the next of the conversation.
LEMMA WrittenKeeps ==
  ASSUME FileInv, LogInv', NEW w \in Writers, Written(w)
  PROVE  /\ FileInv' /\ AheadStays
         /\ lines' = Append(lines, Head(job[w].steps)) /\ Head(job[w].steps) \in FileRecords
<1> DEFINE steps == job[w].steps
           r == Head(steps)
<1>0. LogInv /\ RecordTypes /\ lines \in Seq(FileRecords) /\ Content(lines) \in Conversations
  BY DEF FileInv, RecordTypes, ContentInTurn
<1>1. /\ Holder(w) /\ job[w].stage = "writing" /\ tail \in Unwritten(r) /\ tail' = NoTail
      /\ lines' = Append(lines, r) /\ UNCHANGED exists
      /\ job' = [job EXCEPT ![w] = [stage |-> "working", steps |-> Tail(steps)]]
  BY <1>0 DEF Written, AtStage, StepDone, LogInv, TailIsWritten
<1>2. steps # <<>> /\ r \in FileRecords /\ exists /\ StepsFine(w, "writing", steps)
  BY <1>0, <1>1, FinePresent DEF FileInv, RecordTypes, MetaIsFirst
<1>3. /\ r = steps[1] /\ 1 \in DOMAIN steps
      /\ StepsFine(w, "working", Tail(steps))
      /\ \A i \in DOMAIN Tail(steps) : i + 1 \in DOMAIN steps /\ Tail(steps)[i] = steps[i + 1]
      /\ \A i \in DOMAIN Tail(steps) : Tail(steps)[i] # Meta
      /\ IsContent(r) => \A i \in DOMAIN Tail(steps) : ~IsContent(Tail(steps)[i])
  BY <1>2, StepsLeft
<1>4. \A v \in Writers : job'[v] = IF v = w THEN [stage |-> "working", steps |-> Tail(steps)] ELSE job[v]
  BY <1>0, <1>1 DEF RecordTypes
<1>5. job'[w].steps = Tail(steps)
  <2>1. job'[w] = [stage |-> "working", steps |-> Tail(steps)]
    BY <1>0, <1>1 DEF RecordTypes
  <2> HIDE DEF steps
  <2> QED
    BY <2>1
<1>6. \A v \in Writers \ {w} : job[v].stage \in {"idle", "queued"}
  BY <1>0, <1>1 DEF LogInv, OneWriter, Holder, RecordTypes, Stages
<1>7. Content(lines') = Apply(Content(lines), r)
  <2>1. Content(Append(lines, r)) = Apply(Content(lines), r)
    BY <1>0, <1>2, ContentGrows
  <2> QED
    BY <1>1, <2>1
<1>8. ~IsContent(r) => Content(lines') = Content(lines)
  BY <1>0, <1>2, <1>7, AppliedIs
<1>9. w = "extraction" => ~IsContent(r)
  BY <1>2, <1>3 DEF StepsFine
<1>10. /\ lines' \in Seq(FileRecords) /\ Len(lines) \in Nat /\ lines' # <<>>
      /\ DOMAIN lines = 1..Len(lines) /\ DOMAIN lines' = 1..(Len(lines) + 1)
      /\ lines'[Len(lines) + 1] = r /\ \A i \in 1..Len(lines) : lines'[i] = lines[i]
  BY <1>0, <1>1, <1>2
<1> HIDE DEF steps, r
<1>11. RecordTypes'
  <2>1. Tail(steps) \in Seq(FileRecords \cup {Reindex})
    BY <1>3 DEF StepsFine
  <2>2. job' \in [Writers -> [stage : Stages, steps : Seq(FileRecords \cup {Reindex})]]
    BY <1>0, <1>1, <2>1 DEF RecordTypes, Stages
  <2>3. \A v \in Writers : job'[v].stage # "writing"
    BY <1>4, <1>6
  <2> QED
    BY <1>1, <1>10, <2>2, <2>3 DEF RecordTypes
<1>12. MetaIsFirst'
  <2>1. ~exists' => FALSE
    BY <1>1, <1>2
  <2>2. ASSUME NEW i \in DOMAIN lines', lines'[i] = Meta PROVE i = 1
    <3>1. CASE i \in 1..Len(lines)
      BY <1>10, <2>2, <3>1 DEF FileInv, MetaIsFirst
    <3>2. CASE i = Len(lines) + 1
      <4>1. r = Meta
        BY <1>10, <2>2, <3>2
      <4>2. lines = <<>>
        BY <1>2, <1>3, <4>1 DEF StepsFine
      <4> QED
        BY <3>2, <4>2
    <3> QED
      BY <1>10, <3>1, <3>2
  <2>3. \A v \in Writers : \A i \in DOMAIN job'[v].steps : job'[v].steps[i] # Meta
    BY <1>3, <1>4, <1>6 DEF FileInv, MetaIsFirst
  <2>4. tail'.part # "whole"
    BY <1>1 DEF NoTail
  <2> QED
    BY <2>1, <2>2, <2>3, <2>4 DEF MetaIsFirst
<1>13. OneContent'
  <2>1. \A v \in Writers : v # w => job'[v].steps = job[v].steps
    BY <1>4
  <2>2. job'[w].steps = Tail(steps)
    BY <1>5
  <2>3. CASE w = "run"
    BY <1>3, <2>1, <2>2, <2>3 DEF FileInv, OneContent, StepsFine, Writers
  <2>4. CASE w = "extraction"
    BY <1>3, <2>1, <2>2, <2>4 DEF FileInv, OneContent, StepsFine, Writers
  <2> QED
    BY <2>3, <2>4 DEF Writers
<1>14. ContentInTurn'
  <2>1. Content(lines') \in Conversations /\ Unplanned(Content(lines'))
    BY <1>0, <1>2, <1>7, AppliedIs DEF FileInv, ContentInTurn
  <2>2. InTurn(Content(lines'))
    <3>1. CASE ~IsContent(r)
      BY <1>8, <3>1 DEF FileInv, ContentInTurn
    <3>2. CASE IsContent(r)
      BY <1>2, <1>3, <1>7, <3>2 DEF StepsFine
    <3> QED
      BY <3>1, <3>2
  <2>3. tail'.part # "whole"
    BY <1>1 DEF NoTail
  <2>4. ASSUME NEW i \in DOMAIN job'["run"].steps, IsContent(job'["run"].steps[i])
        PROVE  InTurn(Apply(Content(lines'), job'["run"].steps[i]))
    <3>1. CASE w = "run"
      <4>1. /\ i \in DOMAIN Tail(steps) /\ job'["run"].steps[i] = Tail(steps)[i]
        BY <1>5, <3>1, <2>4
      <4>2. ~IsContent(r)
        BY <1>3, <2>4, <4>1
      <4> QED
        BY <1>3, <1>8, <2>4, <4>1, <4>2 DEF StepsFine
    <3>2. CASE w = "extraction"
      <4>1. job'["run"] = job["run"] /\ Content(lines') = Content(lines)
        BY <1>4, <1>8, <1>9, <3>2 DEF Writers
      <4> QED
        BY <2>4, <4>1 DEF FileInv, ContentInTurn
    <3> QED
      BY <3>1, <3>2 DEF Writers
  <2>5. Content(lines)' = Content(lines')
    OBVIOUS
  <2> QED
    BY <2>1, <2>2, <2>3, <2>4 DEF ContentInTurn
<1>15. ContentIsMarked'
  <2>1. SUFFICES ASSUME AgentLogged' PROVE Marked(RestoredMessages(Content(lines')))
    BY DEF ContentIsMarked
  <2>2. AgentLogged \/ r.type = "agent_message"
    BY <1>10, <2>1 DEF AgentLogged
  <2>3. Marked(RestoredMessages(Content(lines))) \/ r.type = "agent_message"
    BY <2>2 DEF FileInv, ContentIsMarked
  <2> QED
    BY <1>0, <1>2, <1>7, <2>3, AppliedMark
<1>16. AheadStays
  <2> SUFFICES ASSUME NEW c, AheadIs(c) PROVE AheadIs(c)'
    BY DEF AheadStays
  <2>0. Pending(job["run"].steps)' = Pending(job'["run"].steps)
    BY DEF Pending
  <2>1. CASE w = "extraction"
    <3>1. job'["run"] = job["run"] /\ Content(lines') = Content(lines)
      BY <1>4, <1>8, <1>9, <2>1 DEF Writers
    <3> QED
      BY <2>0, <3>1 DEF AheadIs
  <2>2. CASE w = "run"
    <3>1. job'["run"].steps = Tail(steps) /\ job["run"].steps = steps
      BY <1>5, <2>2 DEF steps
    <3>2. CASE IsContent(r)
      <4>1. Pending(steps) = {r} /\ Pending(Tail(steps)) = {}
        BY <1>2, <3>2, PendingLeft DEF r
      <4> QED
        BY <1>7, <2>0, <3>1, <4>1 DEF AheadIs
    <3>3. CASE ~IsContent(r)
      <4>1. Pending(Tail(steps)) = Pending(steps)
        BY <1>2, <3>3, PendingLeft DEF r
      <4> QED
        BY <1>8, <2>0, <3>1, <3>3, <4>1 DEF AheadIs
    <3> QED
      BY <3>2, <3>3
  <2> QED
    BY <2>1, <2>2 DEF Writers
<1> QED
  BY <1>1, <1>2, <1>11, <1>12, <1>13, <1>14, <1>15, <1>16 DEF FileInv, r, steps

LEMMA FileWriter ==
  ASSUME FileInv, NEW w \in Writers, WriterStep(w) \/ Fail(w)
  PROVE  /\ FileInv'
         /\ WriterStep(w) \/ w = "extraction" => AheadStays
<1>0. /\ LogInv /\ LogInv' /\ TailFine(tail) /\ TailFine(NoTail)
      /\ job[w].stage \in Stages /\ StepsFine(w, job[w].stage, job[w].steps)
      /\ job \in [Writers -> [stage : Stages, steps : Seq(FileRecords \cup {Reindex})]]
      /\ "run" \in Writers
  BY WriterKeeps, FinePresent DEF FileInv, RecordTypes, TailFine, NoTail, Writers
<1>1. ASSUME NEW stage, NEW steps,
             job' = [job EXCEPT ![w] = [stage |-> stage, steps |-> steps]]
      PROVE  /\ job'["run"].steps = IF w = "run" THEN steps ELSE job["run"].steps
             /\ job'["run"].stage = IF w = "run" THEN stage ELSE job["run"].stage
  BY <1>0, <1>1 DEF Writers
<1>2. CASE Open(w)
  <2> DEFINE steps == IF exists THEN job[w].steps ELSE <<Meta, Reindex>> \o job[w].steps
  <2>1. /\ UNCHANGED <<lines, tail, exists>> /\ job[w].stage = "queued"
        /\ job' = [job EXCEPT ![w] = [stage |-> "working", steps |-> steps]]
    BY <1>2 DEF Open, AtStage, fileVars
  <2>2. StepsFine(w, "working", steps) /\ Pending(steps) = Pending(job[w].steps)
    <3>1. CASE exists
      BY <1>0, <2>1, <3>1 DEF StepsFine
    <3>2. CASE ~exists
      BY <1>0, <2>1, <3>2, OpenedFine DEF FileInv, MetaIsFirst
    <3> QED
      BY <3>1, <3>2
  <2> HIDE DEF steps
  <2>3. FileInv'
    BY <1>0, <2>1, <2>2, FileKeeps DEF Stages, FileInv, MetaIsFirst
  <2>4. Pending(job'["run"].steps) = Pending(job["run"].steps)
    BY <1>1, <2>1, <2>2
  <2> QED
    BY <2>1, <2>3, <2>4, AheadKeeps
<1>3. CASE Truncate(w)
  <2>1. /\ UNCHANGED <<lines, exists, job>> /\ tail' = NoTail /\ job[w].stage = "working"
    BY <1>3 DEF Truncate, AtRecord, AtStep, AtStage, writeVars
  <2>2. job' = [job EXCEPT ![w] = [stage |-> job[w].stage, steps |-> job[w].steps]]
    BY <1>0, <2>1
  <2>3. FileInv'
    BY <1>0, <2>1, <2>2, FileKeeps DEF FileInv, MetaIsFirst
  <2> QED
    BY <2>1, <2>3, AheadKeeps
<1>4. CASE Write(w)
  <2>1. /\ UNCHANGED lines /\ exists' = TRUE /\ tail' \in Unwritten(Head(job[w].steps))
        /\ job[w].stage = "working" /\ job[w].steps # <<>> /\ Head(job[w].steps) # Reindex
        /\ job' = [job EXCEPT ![w].stage = "writing"]
    BY <1>4 DEF Write, AtRecord, AtStep, AtStage, ToStage
  <2>2. job' = [job EXCEPT ![w] = [stage |-> "writing", steps |-> job[w].steps]]
    <3>1. \A v \in Writers :
             job'[v] = IF v = w THEN [stage |-> "writing", steps |-> job[w].steps] ELSE job[v]
      BY <1>0, <2>1
    <3> QED
      BY <1>0, <2>1, <3>1
  <2>3. /\ Head(job[w].steps) = job[w].steps[1] /\ 1 \in DOMAIN job[w].steps
        /\ Head(job[w].steps) \in FileRecords
    BY <1>0, <2>1, StepsLeft DEF StepsFine
  <2>4. StepsFine(w, "writing", job[w].steps)
    BY <1>0, <2>1, <2>3 DEF StepsFine
  <2>5. TailFine(tail')
    <3> DEFINE r == Head(job[w].steps)
    <3>1. tail' \in {NoTail} \cup {Unfinished(part, r) : part \in {"partial", "whole"}}
      BY <2>1 DEF Unwritten
    <3>2. lines # <<>> => r # Meta
      BY <1>0, <2>3 DEF StepsFine
    <3>3. InTurn(Apply(Content(lines), r))
      <4>1. IsContent(r) => InTurn(Apply(Content(lines), r))
        BY <1>0, <2>3 DEF StepsFine
      <4>2. ~IsContent(r) => Apply(Content(lines), r) = Content(lines)
        BY <2>3, AppliedIs DEF FileInv, ContentInTurn
      <4> QED
        BY <4>1, <4>2 DEF FileInv, ContentInTurn
    <3>4. r \in FileRecords
      BY <2>3
    <3> HIDE DEF r
    <3> QED
      BY <3>1, <3>2, <3>3, <3>4 DEF TailFine, Unfinished, NoTail
  <2>6. FileInv'
    BY <1>0, <2>1, <2>2, <2>4, <2>5, FileKeeps DEF Stages
  <2> QED
    BY <1>1, <2>1, <2>2, <2>6, AheadKeeps
<1>5. CASE Written(w)
  BY <1>0, <1>5, WrittenKeeps
<1>6. CASE UpdateIndex(w)
  <2>1. /\ UNCHANGED <<lines, tail, exists>> /\ job[w].steps # <<>> /\ Head(job[w].steps) = Reindex
        /\ job' = [job EXCEPT ![w] = [stage |-> "working", steps |-> Tail(job[w].steps)]]
    BY <1>0, <1>6 DEF UpdateIndex, AtStep, AtStage, StepDone, fileVars
  <2>2. StepsFine(w, "working", Tail(job[w].steps))
    BY <1>0, <2>1, StepsLeft
  <2>3. ~IsContent(Reindex)
    BY DEF IsContent, Reindex, Record, MessageTypes
  <2>4. Pending(Tail(job[w].steps)) = Pending(job[w].steps)
    BY <1>0, <2>1, <2>3, PendingLeft
  <2>5. FileInv'
    BY <1>0, <2>1, <2>2, FileKeeps DEF Stages, FileInv, MetaIsFirst
  <2>6. Pending(job'["run"].steps) = Pending(job["run"].steps)
    BY <1>1, <2>1, <2>4
  <2> QED
    BY <2>1, <2>5, <2>6, AheadKeeps
<1>7. ASSUME Leave(w), UNCHANGED <<lines, tail, exists>> PROVE FileInv'
  <2>1. job' = [job EXCEPT ![w] = [stage |-> "idle", steps |-> <<>>]]
    BY <1>7 DEF Leave, Idle
  <2>2. StepsFine(w, "idle", <<>>)
    BY NoStepsFine DEF Stages
  <2> QED
    BY <1>0, <1>7, <2>1, <2>2, FileKeeps DEF Stages, FileInv, MetaIsFirst
<1>8. CASE Done(w)
  <2>1. UNCHANGED <<lines, tail, exists>> /\ Leave(w) /\ job[w].steps = <<>>
    BY <1>8 DEF Done, fileVars
  <2>2. job' = [job EXCEPT ![w] = [stage |-> "idle", steps |-> <<>>]]
    BY <2>1 DEF Leave, Idle
  <2>3. job'["run"].steps = job["run"].steps
    BY <1>1, <2>1, <2>2
  <2> QED
    BY <1>7, <2>1, <2>3, AheadKeeps
<1>9. CASE Fail(w)
  <2>1. UNCHANGED <<lines, tail, exists>> /\ Leave(w)
    BY <1>9 DEF Fail, fileVars
  <2>2. job' = [job EXCEPT ![w] = [stage |-> "idle", steps |-> <<>>]]
    BY <2>1 DEF Leave, Idle
  <2>3. w = "extraction" => job'["run"].steps = job["run"].steps
    BY <1>1, <2>2
  <2>4. ~WriterStep(w) \/ AheadStays
    BY <1>2, <1>3, <1>4, <1>5, <1>6, <1>8 DEF WriterStep
  <2> QED
    BY <1>7, <2>1, <2>3, <2>4, AheadKeeps
<1> QED
  BY <1>2, <1>3, <1>4, <1>5, <1>6, <1>8, <1>9 DEF WriterStep

\* Everything else leaves the file alone, and may give a writer its steps.
LEMMA FileOthers ==
  ASSUME FileInv, UNCHANGED fileVars, LogInv',
         UNCHANGED writeVars \/
            \E w \in Writers : \E steps : Submit(w, steps) /\ StepsFine(w, "queued", steps)
  PROVE  FileInv'
<1>1. UNCHANGED <<lines, tail, exists>> /\ TailFine(tail)
  BY FinePresent DEF fileVars
<1>2. CASE UNCHANGED writeVars
  <2>1. UNCHANGED job
    BY <1>2 DEF writeVars
  <2> QED
    BY <1>1, <2>1 DEF FileInv, RecordTypes, MetaIsFirst, OneContent, ContentInTurn, ContentIsMarked, AgentLogged
<1>3. ASSUME NEW w \in Writers, NEW steps, Submit(w, steps), StepsFine(w, "queued", steps) PROVE FileInv'
  <2>1. job' = [job EXCEPT ![w] = [stage |-> "queued", steps |-> steps]]
    BY <1>3 DEF Submit
  <2> QED
    BY <1>1, <1>3, <2>1, FileKeeps DEF Stages, FileInv, MetaIsFirst
<1> QED
  BY <1>2, <1>3

LEMMA FileRestart ==
  ASSUME FileInv, LogInv', Restart
  PROVE  FileInv'
<1>1. UNCHANGED <<lines, tail, exists>> /\ job' = [w \in Writers |-> Idle]
  BY DEF Restart, fileVars
<1>2. /\ \A w \in Writers : job'[w].steps = <<>> /\ job'[w].stage = "idle"
      /\ job' \in [Writers -> [stage : Stages, steps : Seq(FileRecords \cup {Reindex})]]
      /\ DOMAIN <<>> = {}
  <2>1. <<>> \in Seq(FileRecords \cup {Reindex}) /\ DOMAIN <<>> = {}
    OBVIOUS
  <2> QED
    BY <1>1, <2>1 DEF Idle, Stages
<1>3. job'["run"].steps = <<>> /\ job'["extraction"].steps = <<>>
  BY <1>2 DEF Writers
<1>4. RecordTypes' /\ MetaIsFirst'
  BY <1>1, <1>2 DEF FileInv, RecordTypes, MetaIsFirst
<1>5. OneContent' /\ ContentInTurn' /\ ContentIsMarked'
  BY <1>1, <1>2, <1>3 DEF FileInv, OneContent, ContentInTurn, ContentIsMarked, AgentLogged
<1> QED
  BY <1>4, <1>5 DEF FileInv

-----------------------------------------------------------------------------
(* The events of a run and what they make of the file's conversation.      *)

\* What the loop yields: one message that can be read back, or a conversation in turn.
FineEvents ==
    {e \in Events :
        /\ e.kind = "message" =>
              /\ e.messages = <<e.messages[1]>> /\ e.messages[1] \in Messages
              /\ e.messages[1].role # "system" /\ e.messages[1] # PlanMessage
              /\ IsInjective(e.messages[1].calls)
        /\ e.kind = "compaction" => Summarized(e.messages) /\ Unplanned(e.messages)
        /\ e.kind \in {"state", "compaction"} => InTurn(e.messages)}

\* Those that bring no message of an agent.
QuietEvents == {e \in FineEvents : e.kind = "message" => e.messages[1].role # "agent"}

ApplyEvent(c, e) ==
    CASE e.kind = "message" -> Append(c, e.messages[1])
      [] e.kind = "compaction" -> e.messages
      [] OTHER -> c

\* The events lead from one conversation to the other, and what is between is in turn.
Course(first, events, last) ==
    \E d \in [1..(Len(events) + 1) -> Conversations] :
        /\ d[1] = first /\ d[Len(events) + 1] = last
        /\ \A i \in 1..Len(events) : d[i + 1] = ApplyEvent(d[i], events[i])
        /\ \A i \in 1..(Len(events) + 1) : InTurn(d[i])

LEMMA CourseIsNothing ==
  ASSUME NEW first, NEW last
  PROVE  Course(first, <<>>, last) <=> first = last /\ first \in Conversations /\ InTurn(first)
<1>1. Len(<<>>) = 0 /\ 1..(0 + 1) = {1} /\ 1..0 = {}
  OBVIOUS
<1>2. ASSUME Course(first, <<>>, last) PROVE first = last /\ first \in Conversations /\ InTurn(first)
  BY <1>1, <1>2 DEF Course
<1>3. ASSUME first = last, first \in Conversations, InTurn(first) PROVE Course(first, <<>>, last)
  <2> DEFINE d == [i \in {1} |-> first]
  <2>1. d \in [1..(Len(<<>>) + 1) -> Conversations] /\ d[1] = first
    BY <1>1, <1>3
  <2> HIDE DEF d
  <2> QED
    BY <1>1, <1>3, <2>1 DEF Course
<1> QED
  BY <1>2, <1>3

LEMMA CourseIsOne ==
  ASSUME NEW c \in Conversations, InTurn(c), NEW e,
         ApplyEvent(c, e) \in Conversations, InTurn(ApplyEvent(c, e))
  PROVE  Course(c, <<e>>, ApplyEvent(c, e))
<1> DEFINE a == ApplyEvent(c, e)
           d == [i \in 1..2 |-> IF i = 1 THEN c ELSE a]
<1>1. Len(<<e>>) = 1 /\ 1 + 1 = 2 /\ <<e>>[1] = e
  OBVIOUS
<1> HIDE DEF a
<1>2. d \in [1..2 -> Conversations] /\ d[1] = c /\ d[2] = a
  BY DEF a
<1> HIDE DEF d
<1>3. \A i \in 1..1 : d[i + 1] = ApplyEvent(d[i], <<e>>[i])
  BY <1>1, <1>2 DEF a
<1>4. \A i \in 1..2 : InTurn(d[i])
  <2>1. \A i \in 1..2 : i = 1 \/ i = 2
    OBVIOUS
  <2>2. InTurn(c) /\ InTurn(a)
    BY DEF a
  <2> QED
    BY <1>2, <2>1, <2>2
<1>5. Course(c, <<e>>, a)
  BY <1>1, <1>2, <1>3, <1>4 DEF Course
<1> QED
  BY <1>5 DEF a

LEMMA CoursesJoin ==
  ASSUME NEW S, NEW s \in Seq(S), NEW t \in Seq(S), NEW first, NEW mid, NEW last,
         Course(first, s, mid), Course(mid, t, last)
  PROVE  Course(first, s \o t, last)
<1> DEFINE n == Len(s)
           k == Len(t)
           e == s \o t
<1>1. /\ n \in Nat /\ k \in Nat /\ Len(e) = n + k
      /\ \A i \in 1..n : e[i] = s[i]
      /\ \A i \in 1..k : e[n + i] = t[i]
  BY Joined
<1>2. PICK d \in [1..(n + 1) -> Conversations] :
        /\ d[1] = first /\ d[n + 1] = mid
        /\ \A i \in 1..n : d[i + 1] = ApplyEvent(d[i], s[i])
        /\ \A i \in 1..(n + 1) : InTurn(d[i])
  BY DEF Course
<1>3. PICK g \in [1..(k + 1) -> Conversations] :
        /\ g[1] = mid /\ g[k + 1] = last
        /\ \A i \in 1..k : g[i + 1] = ApplyEvent(g[i], t[i])
        /\ \A i \in 1..(k + 1) : InTurn(g[i])
  BY DEF Course
<1> DEFINE h == [i \in 1..(n + k + 1) |-> IF i <= n THEN d[i] ELSE g[i - n]]
<1> HIDE DEF n, k, e
<1>4. h \in [1..(n + k + 1) -> Conversations] /\ \A i \in 1..(n + k + 1) : InTurn(h[i])
  <2> SUFFICES ASSUME NEW i \in 1..(n + k + 1) PROVE h[i] \in Conversations /\ InTurn(h[i])
    OBVIOUS
  <2>1. CASE i <= n
    <3>1. i \in 1..(n + 1) /\ h[i] = d[i]
      BY <1>1, <2>1
    <3> QED
      BY <1>2, <3>1
  <2>2. CASE i > n
    <3>1. i - n \in 1..(k + 1) /\ h[i] = g[i - n]
      BY <1>1, <2>2
    <3> QED
      BY <1>3, <3>1
  <2> QED
    BY <1>1, <2>1, <2>2
<1>5. h[1] = first /\ h[n + k + 1] = last
  <2>1. h[n + k + 1] = g[k + 1]
    BY <1>1
  <2>2. CASE n = 0
    BY <1>1, <1>2, <1>3, <2>2
  <2>3. CASE n # 0
    <3>1. 1 \in 1..(n + k + 1) /\ 1 <= n
      BY <1>1, <2>3
    <3>2. h[1] = d[1]
      BY <3>1
    <3> QED
      BY <1>2, <1>3, <2>1, <3>2
  <2> QED
    BY <1>3, <2>1, <2>2, <2>3
<1>6. ASSUME NEW i \in 1..(n + k) PROVE h[i + 1] = ApplyEvent(h[i], e[i])
  <2>1. CASE i < n
    <3>1. i \in 1..n /\ h[i] = d[i] /\ h[i + 1] = d[i + 1] /\ e[i] = s[i]
      BY <1>1, <2>1
    <3> QED
      BY <1>2, <3>1
  <2>2. CASE i = n
    <3>1. i \in 1..n /\ h[i] = d[i] /\ h[i + 1] = g[1] /\ e[i] = s[i]
      BY <1>1, <2>2
    <3> QED
      BY <1>2, <1>3, <2>2, <3>1
  <2>3. CASE i > n
    <3>1. i - n \in 1..k /\ n + (i - n) = i /\ (i + 1) - n = (i - n) + 1
      BY <1>1, <2>3
    <3>2. i \in 1..(n + k + 1) /\ ~(i <= n) /\ i + 1 \in 1..(n + k + 1) /\ ~(i + 1 <= n)
      BY <1>1, <2>3
    <3>3. h[i] = g[i - n] /\ h[i + 1] = g[(i + 1) - n]
      BY <3>2
    <3>4. e[i] = t[i - n]
      BY <1>1, <3>1
    <3> QED
      BY <1>3, <3>1, <3>3, <3>4
  <2> QED
    BY <1>1, <2>1, <2>2, <2>3
<1> HIDE DEF h
<1>7. /\ h \in [1..(Len(e) + 1) -> Conversations]
      /\ h[1] = first /\ h[Len(e) + 1] = last
      /\ \A i \in 1..Len(e) : h[i + 1] = ApplyEvent(h[i], e[i])
      /\ \A i \in 1..(Len(e) + 1) : InTurn(h[i])
  BY <1>1, <1>4, <1>5, <1>6
<1>8. Course(first, e, last)
  BY <1>7 DEF Course
<1> QED
  BY <1>8 DEF e

\* The first event has been handled.
LEMMA CourseGoesOn ==
  ASSUME NEW S, NEW s \in Seq(S), s # <<>>, NEW first, NEW last, Course(first, s, last)
  PROVE  /\ Course(ApplyEvent(first, Head(s)), Tail(s), last)
         /\ ApplyEvent(first, Head(s)) \in Conversations /\ InTurn(ApplyEvent(first, Head(s)))
<1> DEFINE n == Len(s)
<1>1. /\ n \in Nat /\ n >= 1 /\ Len(Tail(s)) = n - 1 /\ Head(s) = s[1]
      /\ \A i \in 1..(n - 1) : Tail(s)[i] = s[i + 1]
  OBVIOUS
<1>2. PICK d \in [1..(n + 1) -> Conversations] :
        /\ d[1] = first /\ d[n + 1] = last
        /\ \A i \in 1..n : d[i + 1] = ApplyEvent(d[i], s[i])
        /\ \A i \in 1..(n + 1) : InTurn(d[i])
  BY DEF Course
<1> HIDE DEF n
<1>3. /\ 1 \in 1..n /\ 2 \in 1..(n + 1) /\ 1 + 1 = 2 /\ (n - 1) + 1 = n
      /\ \A i \in 1..n : i + 1 \in 1..(n + 1)
      /\ \A i \in 1..(n - 1) : i + 1 \in 1..n /\ i \in 1..n
  BY <1>1
<1>4. d[2] = ApplyEvent(first, Head(s)) /\ d[2] \in Conversations /\ InTurn(d[2])
  BY <1>1, <1>2, <1>3
<1> DEFINE g == [i \in 1..n |-> d[i + 1]]
<1>5. /\ g \in [1..n -> Conversations] /\ g[1] = d[2] /\ g[n] = last
      /\ \A i \in 1..n : InTurn(g[i])
  BY <1>1, <1>2, <1>3
<1>6. \A i \in 1..(n - 1) : g[i + 1] = ApplyEvent(g[i], Tail(s)[i])
  BY <1>1, <1>2, <1>3
<1> HIDE DEF g
<1>7. Course(d[2], Tail(s), last)
  BY <1>1, <1>3, <1>5, <1>6 DEF Course
<1> QED
  BY <1>4, <1>7

-----------------------------------------------------------------------------
(* The App and its run.                                                    *)

Busy(w) == job[w].stage # "idle"

\* The events that nothing has been asked of a writer for.
Rest == IF Busy("run") THEN Tail(run.todo) ELSE run.todo

Reads == [at : {"none", "reading", "read"}, messages : Conversations, current : BOOLEAN]

AppTypes ==
    /\ screen \in Conversations \cup {NoState}
    /\ screen # NoState => InTurn(screen)
    /\ run \in Runs \cup {NoState}
    /\ run # NoState => run.todo \in Seq(FineEvents) /\ InTurn(run.query) /\ InTurn(run.latest)
    /\ resume \in Reads /\ InTurn(resume.messages)
    /\ used \in [messages : Nat, errors : Nat, crashes : Nat]

\* Who has a write going on.
WritersAreKnown ==
    /\ Busy("run") => run # NoState /\ run.todo # <<>> /\ Head(run.todo).kind # "extract"
    /\ Busy("extraction") <=> extraction = "writing"
    /\ \A w \in Writers : ~Busy(w) => job[w].steps = <<>>
    /\ screen = NoState => run = NoState /\ extraction = "no"

\* What the model is asked with is the last state the App will have seen.
AtModel ==
    run # NoState /\ run.at = "model" =>
        \/ Rest = <<>> /\ run.latest = run.query
        \/ Rest # <<>> /\ Rest[Len(Rest)] = State(run.query)

\* What is pending leads from what is in the file to what the run goes on from.
RunCourse ==
    run # NoState =>
        \E ahead, last :
            /\ AheadIs(ahead) /\ Course(ahead, Rest, last)
            /\ diverged \/ RestoredMessages(last) = Held(run.query)

Begun == exists /\ lines # <<>> /\ lines[1] = Meta

\* The first event of a new session creates the file.
Starting ==
    /\ run.todo # <<>> /\ Head(run.todo).kind = "ensure" /\ extraction = "no"
    /\ IF job["run"].stage \in {"working", "writing"}
       THEN job["run"].steps # <<>> /\ Head(job["run"].steps) = Meta
       ELSE ~exists

\* What an unfinished record leaves behind changes nothing for a reader.
Harmless ==
    tail.part = "whole" =>
        RestoredMessages(Apply(Content(lines), tail.record)) = RestoredMessages(Content(lines))

AgentComes ==
    AgentLogged \/ \E r \in Pending(job["run"].steps) : r.type = "agent_message"

\* Nothing is written before the first run.
Unbegun == ~exists /\ extraction = "no"

IdleAgrees ==
    run = NoState /\ phase = "open" /\ screen # NoState /\ ~diverged =>
        /\ Begun \/ Unbegun
        /\ RestoredMessages(Content(lines)) = Held(screen)
        /\ AgentLogged => Marked(screen)

\* Nothing has been written since the file was read that a reader would notice.
IsCurrent(messages) ==
    run = NoState /\ Begun /\ Harmless /\ messages = RestoredMessages(Content(lines))

ReadIsCurrent == resume.current => IsCurrent(resume.messages)

TailAgrees == screen # NoState /\ job["run"].stage # "writing" /\ ~diverged => Harmless

RunIsStarted == run # NoState /\ ~diverged => Begun \/ Starting

RunIsMarked ==
    run # NoState /\ ~diverged /\ ~Marked(run.query) =>
        ~AgentComes /\ run.todo \in Seq(QuietEvents)

\* The inductive invariant of the session.
SessionInv ==
    /\ FileInv
    /\ AppTypes
    /\ WritersAreKnown
    /\ AtModel
    /\ RunCourse
    /\ IdleAgrees
    /\ TailAgrees
    /\ RunIsStarted
    /\ RunIsMarked
    /\ ReadIsCurrent

LEMMA RunIsNoState ==
  /\ \A c \in Conversations : c # NoState
  /\ \A r \in Runs : r # NoState
BY NoStateAssumption

LEMMA Unmoved ==
  ASSUME UNCHANGED fileVars, UNCHANGED job
  PROVE  /\ UNCHANGED <<Begun, Harmless, AgentLogged, AgentComes>>
         /\ Content(lines)' = Content(lines)
         /\ \A c : AheadIs(c) => AheadIs(c)'
         /\ \A w : Busy(w)' <=> Busy(w)
<1>1. UNCHANGED <<lines, tail, exists, job>>
  BY DEF fileVars
<1>2. Pending(job["run"].steps)' = Pending(job["run"].steps)
  BY <1>1 DEF Pending
<1>3. UNCHANGED <<Begun, Harmless, AgentLogged>>
  BY <1>1 DEF Begun, Harmless, AgentLogged
<1>4. AgentComes' <=> AgentComes
  BY <1>2, <1>3 DEF AgentComes
<1>5. \A c : AheadIs(c) => AheadIs(c)'
  BY <1>1, <1>2 DEF AheadIs
<1> QED
  BY <1>1, <1>3, <1>4, <1>5 DEF Busy, AgentComes

\* A step of a writer that is not its last.
LEMMA WriterIsBusy ==
  ASSUME FileInv, NEW w \in Writers,
         Open(w) \/ Truncate(w) \/ Write(w) \/ Written(w) \/ UpdateIndex(w)
  PROVE  /\ Busy(w)
         /\ \A v \in Writers : Busy(v)' <=> Busy(v)
         /\ \A v \in Writers : v # w => job'[v] = job[v]
<1>0. job \in [Writers -> [stage : Stages, steps : Seq(FileRecords \cup {Reindex})]]
  BY DEF FileInv, RecordTypes
<1>1. Busy(w)
  BY DEF Open, Truncate, Write, Written, UpdateIndex, AtRecord, AtStep, AtStage, Busy
<1>2. CASE UNCHANGED job
  BY <1>1, <1>2 DEF Busy
<1>3. CASE \E stage, steps : stage # "idle" /\ job' = [job EXCEPT ![w] = [stage |-> stage, steps |-> steps]]
  <2>1. PICK stage, steps : stage # "idle" /\ job' = [job EXCEPT ![w] = [stage |-> stage, steps |-> steps]]
    BY <1>3
  <2>2. \A v \in Writers : job'[v] = IF v = w THEN [stage |-> stage, steps |-> steps] ELSE job[v]
    BY <1>0, <2>1
  <2>3. job'[w] = [stage |-> stage, steps |-> steps] /\ \A v \in Writers : v # w => job'[v] = job[v]
    BY <2>2
  <2> QED
    BY <1>1, <2>1, <2>3 DEF Busy
<1>4. CASE Write(w)
  <2>1. job' = [job EXCEPT ![w].stage = "writing"]
    BY <1>4 DEF Write, ToStage
  <2>2. \A v \in Writers : job'[v] = IF v = w THEN [stage |-> "writing", steps |-> job[w].steps] ELSE job[v]
    BY <1>0, <2>1
  <2>3. job'[w] = [stage |-> "writing", steps |-> job[w].steps] /\ \A v \in Writers : v # w => job'[v] = job[v]
    BY <2>2
  <2> QED
    BY <1>1, <2>3 DEF Busy
<1>5. CASE Truncate(w)
  BY <1>2, <1>5 DEF Truncate, writeVars
<1>6. CASE Open(w)
  <2> DEFINE steps == IF exists THEN job[w].steps ELSE <<Meta, Reindex>> \o job[w].steps
  <2>1. job' = [job EXCEPT ![w] = [stage |-> "working", steps |-> steps]]
    BY <1>0, <1>6 DEF Open
  <2> HIDE DEF steps
  <2> QED
    BY <1>3, <2>1
<1>7. CASE Written(w) \/ UpdateIndex(w)
  <2>1. job' = [job EXCEPT ![w] = [stage |-> "working", steps |-> Tail(job[w].steps)]]
    BY <1>0, <1>7 DEF Written, UpdateIndex, StepDone
  <2> QED
    BY <1>3, <2>1
<1> QED
  BY <1>4, <1>5, <1>6, <1>7

\* What a step of a writer does to what the App has to rely on.
LEMMA WriterMoves ==
  ASSUME FileInv, WritersAreKnown, NEW w \in Writers, WriterStep(w) \/ Fail(w)
  PROVE  /\ Begun => Begun'
         /\ AgentComes' => AgentComes
         /\ (WriterStep(w) \/ w = "extraction") /\ (job["run"].stage = "writing" \/ Harmless)
                => job'["run"].stage = "writing" \/ Harmless'
         /\ \A v \in Writers : ~Busy(v)' => job'[v].steps = <<>>
         /\ FileInv'
<1>0. /\ job \in [Writers -> [stage : Stages, steps : Seq(FileRecords \cup {Reindex})]]
      /\ LogInv /\ lines \in Seq(FileRecords) /\ Content(lines) \in Conversations /\ FileInv'
      /\ StepsFine(w, job[w].stage, job[w].steps) /\ "run" \in Writers
  BY FileWriter, FinePresent DEF FileInv, RecordTypes, ContentInTurn, Writers
<1>1. ASSUME UNCHANGED <<lines, exists>>,
             \A r \in Pending(job'["run"].steps) : r \in Pending(job["run"].steps)
      PROVE  (Begun => Begun') /\ (AgentComes' => AgentComes)
  <2>1. Pending(job["run"].steps)' = Pending(job'["run"].steps)
    BY DEF Pending
  <2> QED
    BY <1>1, <2>1 DEF Begun, AgentComes, AgentLogged
<1>2. ASSUME NEW steps, NEW stage, job' = [job EXCEPT ![w] = [stage |-> stage, steps |-> steps]]
      PROVE  /\ job'[w] = [stage |-> stage, steps |-> steps]
             /\ \A v \in Writers : v # w => job'[v] = job[v]
             /\ w = "run" => job'["run"].steps = steps /\ job'["run"].stage = stage
             /\ w # "run" => job'["run"] = job["run"]
  <2>1. job'[w] = [stage |-> stage, steps |-> steps] /\ \A v \in Writers : v # w => job'[v] = job[v]
    BY <1>0, <1>2
  <2> QED
    BY <1>0, <2>1
<1>3. CASE Open(w)
  <2> DEFINE steps == IF exists THEN job[w].steps ELSE <<Meta, Reindex>> \o job[w].steps
  <2>1. /\ UNCHANGED <<lines, tail, exists>> /\ job[w].stage = "queued"
        /\ job' = [job EXCEPT ![w] = [stage |-> "working", steps |-> steps]]
    BY <1>3 DEF Open, AtStage, fileVars
  <2>2. Pending(steps) = Pending(job[w].steps)
    <3>1. StepsFine(w, "queued", job[w].steps) /\ (~exists => lines = <<>>)
      BY <1>0, <2>1 DEF FileInv, MetaIsFirst
    <3>2. ~exists => Pending(<<Meta, Reindex>> \o job[w].steps) = Pending(job[w].steps)
      BY <3>1, OpenedFine
    <3> QED
      BY <3>2
  <2> HIDE DEF steps
  <2>3. Pending(job'["run"].steps) = Pending(job["run"].steps)
    BY <1>2, <2>1, <2>2
  <2>4. Harmless <=> Harmless'
    BY <2>1 DEF Harmless
  <2>5. \A v \in Writers : Busy(v)' <=> Busy(v)
    BY <1>3, WriterIsBusy
  <2>6. Busy(w) /\ (job["run"].stage = "writing" => w # "run")
    BY <2>1 DEF Busy
  <2> QED
    BY <1>0, <1>1, <1>2, <2>1, <2>3, <2>4, <2>5, <2>6 DEF WritersAreKnown
<1>4. CASE Truncate(w)
  <2>1. UNCHANGED <<lines, exists, job>> /\ tail' = NoTail
    BY <1>4 DEF Truncate, writeVars
  <2>2. Harmless'
    BY <2>1 DEF Harmless, NoTail
  <2> QED
    BY <1>0, <1>1, <2>1, <2>2 DEF WritersAreKnown, Busy
<1>5. CASE Write(w)
  <2> DEFINE r == Head(job[w].steps)
  <2>1. /\ UNCHANGED lines /\ exists' = TRUE /\ tail' \in Unwritten(r)
        /\ job[w].stage = "working" /\ job[w].steps # <<>> /\ r # Reindex
        /\ job' = [job EXCEPT ![w].stage = "writing"]
    BY <1>5 DEF Write, AtRecord, AtStep, AtStage, ToStage
  <2>2. job' = [job EXCEPT ![w] = [stage |-> "writing", steps |-> job[w].steps]]
    <3>1. \A v \in Writers :
             job'[v] = IF v = w THEN [stage |-> "writing", steps |-> job[w].steps] ELSE job[v]
      BY <1>0, <2>1
    <3> QED
      BY <1>0, <2>1, <3>1
  <2>3. Pending(job'["run"].steps) = Pending(job["run"].steps)
    BY <1>2, <2>2
  <2>4. (Begun => Begun') /\ (AgentComes' => AgentComes)
    <3>1. Pending(job["run"].steps)' = Pending(job["run"].steps)
      BY <2>3 DEF Pending
    <3> QED
      BY <2>1, <3>1 DEF Begun, AgentComes, AgentLogged
  <2>5. job'["run"].stage = "writing" \/ Harmless'
    <3>1. CASE w = "run"
      BY <1>2, <2>2, <3>1
    <3>2. CASE w = "extraction"
      <4>1. r \in FileRecords /\ ~IsContent(r)
        BY <1>0, <2>1, <3>2, StepsLeft DEF StepsFine
      <4>2. Apply(Content(lines), r) = Content(lines)
        BY <1>0, <4>1, AppliedIs
      <4>3. tail'.part = "whole" => tail'.record = r
        BY <2>1 DEF Unwritten, Unfinished, NoTail
      <4> HIDE DEF r
      <4> QED
        BY <2>1, <4>2, <4>3 DEF Harmless
    <3> QED
      BY <3>1, <3>2 DEF Writers
  <2>6. \A v \in Writers : Busy(v)' <=> Busy(v)
    BY <1>5, WriterIsBusy
  <2>7. Busy(w)
    BY <2>1 DEF Busy
  <2> QED
    BY <1>0, <1>2, <2>2, <2>4, <2>5, <2>6, <2>7 DEF WritersAreKnown
<1>6. CASE Written(w)
  <2> DEFINE r == Head(job[w].steps)
  <2>1. /\ tail' = NoTail /\ UNCHANGED exists /\ job[w].stage = "writing"
        /\ lines' = Append(lines, r) /\ r \in FileRecords
        /\ job' = [job EXCEPT ![w] = [stage |-> "working", steps |-> Tail(job[w].steps)]]
    BY <1>0, <1>6, WrittenKeeps, WriterKeeps DEF Written, AtStage, StepDone
  <2>2. job[w].steps # <<>>
    BY <2>1 DEF FileInv, RecordTypes
  <2>3. Harmless'
    BY <2>1 DEF Harmless, NoTail
  <2>4. /\ DOMAIN lines' = 1..(Len(lines) + 1) /\ DOMAIN lines = 1..Len(lines) /\ Len(lines) \in Nat
        /\ lines'[Len(lines) + 1] = r /\ \A i \in 1..Len(lines) : lines'[i] = lines[i]
    BY <1>0, <2>1
  <2> HIDE DEF r
  <2>5. Begun => Begun'
    <3> SUFFICES ASSUME Begun PROVE Begun'
      OBVIOUS
    <3>1. 1 \in 1..Len(lines) /\ lines' # <<>>
      BY <1>0, <2>1 DEF Begun
    <3> QED
      BY <2>1, <2>4, <3>1 DEF Begun
  <2>6. AgentLogged' => AgentLogged \/ r.type = "agent_message"
    BY <2>4 DEF AgentLogged
  <2>7. AgentComes' => AgentComes
    <3>0. Pending(job["run"].steps)' = Pending(job'["run"].steps)
      BY DEF Pending
    <3>1. CASE w = "run"
      <4>1. job'["run"].steps = Tail(job["run"].steps)
        BY <1>2, <2>1, <3>1
      <4>2. IF IsContent(r) THEN Pending(job["run"].steps) = {r} /\ Pending(Tail(job["run"].steps)) = {}
            ELSE Pending(Tail(job["run"].steps)) = Pending(job["run"].steps)
        BY <1>0, <2>2, <3>1, PendingLeft DEF r
      <4>3. r.type = "agent_message" => IsContent(r)
        BY DEF IsContent, MessageTypes
      <4> QED
        BY <2>6, <3>0, <4>1, <4>2, <4>3 DEF AgentComes
    <3>2. CASE w = "extraction"
      <4>1. ~IsContent(r)
        BY <1>0, <2>2, <3>2, StepsLeft DEF StepsFine, r
      <4>2. r.type # "agent_message"
        BY <4>1 DEF IsContent, MessageTypes
      <4>3. job'["run"].steps = job["run"].steps
        BY <1>2, <2>1, <3>2
      <4> QED
        BY <2>6, <3>0, <4>2, <4>3 DEF AgentComes
    <3> QED
      BY <3>1, <3>2 DEF Writers
  <2>8. \A v \in Writers : Busy(v)' <=> Busy(v)
    BY <1>6, WriterIsBusy
  <2>9. Busy(w)
    BY <2>1 DEF Busy
  <2> QED
    BY <1>0, <1>2, <2>1, <2>3, <2>5, <2>7, <2>8, <2>9 DEF WritersAreKnown
<1>7. CASE UpdateIndex(w)
  <2>1. /\ UNCHANGED <<lines, tail, exists>> /\ job[w].stage = "working"
        /\ job[w].steps # <<>> /\ Head(job[w].steps) = Reindex
        /\ job' = [job EXCEPT ![w] = [stage |-> "working", steps |-> Tail(job[w].steps)]]
    BY <1>0, <1>7 DEF UpdateIndex, AtStep, AtStage, StepDone, fileVars
  <2>2. ~IsContent(Reindex)
    BY DEF IsContent, Reindex, Record, MessageTypes
  <2>3. Pending(Tail(job[w].steps)) = Pending(job[w].steps)
    BY <1>0, <2>1, <2>2, PendingLeft
  <2>4. Pending(job'["run"].steps) = Pending(job["run"].steps)
    BY <1>2, <2>1, <2>3
  <2>5. Harmless <=> Harmless'
    BY <2>1 DEF Harmless
  <2>6. \A v \in Writers : Busy(v)' <=> Busy(v)
    BY <1>7, WriterIsBusy
  <2>7. Busy(w) /\ (job["run"].stage = "writing" => w # "run")
    BY <2>1 DEF Busy
  <2> QED
    BY <1>0, <1>1, <1>2, <2>1, <2>4, <2>5, <2>6, <2>7 DEF WritersAreKnown
<1>8. ASSUME Leave(w), UNCHANGED <<lines, tail, exists>>
      PROVE  /\ Begun => Begun'
             /\ AgentComes' => AgentComes
             /\ Harmless <=> Harmless'
             /\ w = "extraction" => job'["run"] = job["run"]
             /\ \A v \in Writers : ~Busy(v)' => job'[v].steps = <<>>
  <2>1. job' = [job EXCEPT ![w] = [stage |-> "idle", steps |-> <<>>]]
    BY <1>8 DEF Leave, Idle
  <2>2. \A v \in Writers : ~Busy(v)' => job'[v].steps = <<>>
    BY <1>2, <2>1 DEF WritersAreKnown, Busy
  <2>3. \A r \in Pending(job'["run"].steps) : r \in Pending(job["run"].steps)
    BY <1>2, <2>1 DEF Pending
  <2> QED
    BY <1>1, <1>2, <1>8, <2>1, <2>2, <2>3 DEF Harmless
<1>9. CASE Done(w)
  <2>1. UNCHANGED <<lines, tail, exists>> /\ Leave(w) /\ job[w].stage = "working"
    BY <1>9 DEF Done, AtStage, fileVars
  <2>2. w = "run" => job["run"].stage # "writing"
    BY <2>1
  <2> QED
    BY <1>0, <1>8, <2>1, <2>2 DEF Writers
<1>10. CASE Fail(w)
  <2>1. UNCHANGED <<lines, tail, exists>> /\ Leave(w)
    BY <1>10 DEF Fail, fileVars
  <2>2. WriterStep(w) /\ (job["run"].stage = "writing" \/ Harmless)
            => job'["run"].stage = "writing" \/ Harmless'
    BY <1>3, <1>4, <1>5, <1>6, <1>7, <1>9 DEF WriterStep
  <2> QED
    BY <1>0, <1>8, <2>1, <2>2 DEF Writers
<1> QED
  BY <1>3, <1>4, <1>5, <1>6, <1>7, <1>9, <1>10 DEF WriterStep

\* The first event of a new session, until the metadata is a line.
LEMMA StartingGoesOn ==
  ASSUME FileInv, WritersAreKnown, Starting, UNCHANGED <<run, extraction>>, NEW w \in Writers,
         Open(w) \/ Truncate(w) \/ Write(w) \/ Written(w) \/ UpdateIndex(w)
  PROVE  Starting' \/ Begun'
<1>1. w = "run"
  <2>1. Busy(w) /\ ~Busy("extraction")
    BY WriterIsBusy DEF WritersAreKnown, Starting
  <2> QED
    BY <2>1 DEF Writers
<1>2. /\ job \in [Writers -> [stage : Stages, steps : Seq(FileRecords \cup {Reindex})]]
      /\ lines \in Seq(FileRecords)
  BY DEF FileInv, RecordTypes
<1>3. ASSUME NEW stage, NEW steps, job' = [job EXCEPT ![w] = [stage |-> stage, steps |-> steps]]
      PROVE  job'["run"].stage = stage /\ job'["run"].steps = steps
  <2>1. job'[w] = [stage |-> stage, steps |-> steps]
    BY <1>2, <1>3
  <2> QED
    BY <1>1, <2>1
<1>4. CASE Open(w)
  <2> DEFINE steps == IF exists THEN job[w].steps ELSE <<Meta, Reindex>> \o job[w].steps
  <2>1. /\ job' = [job EXCEPT ![w] = [stage |-> "working", steps |-> steps]]
        /\ job[w].stage = "queued"
    BY <1>4 DEF Open, AtStage
  <2>2. ~exists /\ steps = <<Meta, Reindex>> \o job[w].steps /\ job[w].steps \in Seq(FileRecords \cup {Reindex})
    BY <1>1, <1>2, <2>1 DEF Starting
  <2>3. steps # <<>> /\ Head(steps) = Meta
    <3>1. StepsFine(w, "queued", job[w].steps) /\ lines = <<>>
      BY <2>1, <2>2, FinePresent DEF FileInv, MetaIsFirst
    <3>2. StepsFine(w, "working", steps)
      BY <2>2, <3>1, OpenedFine
    <3>3. <<Meta, Reindex>> \in Seq({Meta, Reindex}) /\ Len(<<Meta, Reindex>>) = 2
      OBVIOUS
    <3> DEFINE R == FileRecords \cup {Reindex, Meta}
    <3>4. <<Meta, Reindex>> \in Seq(R) /\ job[w].steps \in Seq(R) /\ <<Meta, Reindex>>[1] = Meta
      BY <2>2
    <3> HIDE DEF R
    <3>5. /\ Len(steps) = 2 + Len(job[w].steps) /\ Len(job[w].steps) \in Nat
          /\ steps[1] = Meta /\ steps \in Seq(R)
      BY <2>2, <3>3, <3>4, Joined
    <3> HIDE DEF steps
    <3> QED
      BY <3>5
  <2> HIDE DEF steps
  <2>4. job'["run"].stage = "working" /\ job'["run"].steps = steps
    BY <1>3, <2>1
  <2> QED
    BY <2>3, <2>4 DEF Starting
<1>5. CASE Truncate(w)
  BY <1>5 DEF Truncate, Starting, writeVars
<1>6. CASE Write(w)
  <2>1. job' = [job EXCEPT ![w].stage = "writing"] /\ job[w].stage = "working"
    BY <1>6 DEF Write, ToStage, AtRecord, AtStep, AtStage
  <2>2. \A v \in Writers : job'[v] = IF v = w THEN [stage |-> "writing", steps |-> job[w].steps] ELSE job[v]
    BY <1>2, <2>1
  <2>3. job'[w] = [stage |-> "writing", steps |-> job[w].steps]
    BY <2>2
  <2> QED
    BY <1>1, <2>1, <2>3 DEF Starting
<1>7. CASE Written(w)
  <2>1. /\ job["run"].steps # <<>> /\ Head(job["run"].steps) = Meta /\ job["run"].stage = "writing"
    BY <1>1, <1>7 DEF Written, AtStage, Starting
  <2>2. job["run"].steps \in Seq(FileRecords \cup {Reindex})
    BY <1>1, <1>2
  <2>3. 1 \in DOMAIN job["run"].steps /\ job["run"].steps[1] = Meta
    BY <2>1, <2>2
  <2>4. lines = <<>> /\ exists
    BY <2>1, <2>3 DEF FileInv, MetaIsFirst, Writers
  <2>5. lines' = Append(lines, Meta) /\ UNCHANGED exists
    BY <1>1, <1>7, <2>1, WrittenKeeps, WriterKeeps DEF WriterStep, FileInv, Written
  <2>6. lines' # <<>> /\ lines'[1] = Meta
    BY <2>4, <2>5
  <2> QED
    BY <2>4, <2>5, <2>6 DEF Begun
<1>8. CASE UpdateIndex(w)
  <2>1. job["run"].stage = "working" /\ Head(job["run"].steps) = Reindex
    BY <1>1, <1>8 DEF UpdateIndex, AtStep, AtStage
  <2> QED
    BY <2>1 DEF Starting, Meta, Reindex, Record
<1> QED
  BY <1>4, <1>5, <1>6, <1>7, <1>8

\* A writer that goes on, or an extraction whose record is written or fails.
LEMMA SessionWriter ==
  ASSUME SessionInv, NEW w \in Writers,
         \/ Open(w) \/ Truncate(w) \/ Write(w) \/ Written(w) \/ UpdateIndex(w)
         \/ w = "extraction" /\ (Done(w) \/ Fail(w))
  PROVE  SessionInv'
<1>0. /\ FileInv /\ AppTypes /\ WritersAreKnown
      /\ UNCHANGED <<screen, run, resume, phase, diverged>>
      /\ WriterStep(w) \/ Fail(w)
      /\ WriterStep(w) \/ w = "extraction"
  BY DEF SessionInv, Open, Truncate, Write, Written, UpdateIndex, Done, Fail, WriterStep,
         appVars, history
<1>1. /\ Begun => Begun'
      /\ AgentComes' => AgentComes
      /\ \A v \in Writers : ~Busy(v)' => job'[v].steps = <<>>
      /\ job["run"].stage = "writing" \/ Harmless => job'["run"].stage = "writing" \/ Harmless'
      /\ FileInv' /\ AheadStays
  BY <1>0, WriterMoves, FileWriter
<1>2. "run" \in Writers /\ "extraction" \in Writers
  BY DEF Writers
<1>3. ASSUME Open(w) \/ Truncate(w) \/ Write(w) \/ Written(w) \/ UpdateIndex(w)
      PROVE  AppTypes' /\ WritersAreKnown' /\ RunIsStarted' /\ (Busy("run")' <=> Busy("run"))
  <2>1. /\ UNCHANGED <<extraction, used>>
        /\ \A v \in Writers : Busy(v)' <=> Busy(v)
    BY <1>0, <1>3, WriterIsBusy DEF Open, Truncate, Write, Written, UpdateIndex, appVars, history
  <2>2. Busy("run")' <=> Busy("run")
    BY <1>2, <2>1
  <2>3. Busy("extraction")' <=> Busy("extraction")
    BY <1>2, <2>1
  <2>4. WritersAreKnown'
    BY <1>0, <1>1, <2>1, <2>2, <2>3 DEF WritersAreKnown
  <2>5. AppTypes'
    BY <1>0, <2>1 DEF AppTypes
  <2>6. RunIsStarted'
    BY <1>0, <1>1, <1>3, <2>1, StartingGoesOn DEF SessionInv, RunIsStarted
  <2> QED
    BY <2>2, <2>4, <2>5, <2>6
<1>4. ASSUME w = "extraction" /\ (Done(w) \/ Fail(w))
      PROVE  AppTypes' /\ WritersAreKnown' /\ RunIsStarted' /\ (Busy("run")' <=> Busy("run"))
  <2>1. /\ extraction' = "no" /\ job' = [job EXCEPT !["extraction"] = Idle]
        /\ Busy("extraction")
        /\ used' = used \/ used' = [used EXCEPT !["errors"] = @ + 1]
    BY <1>4 DEF Done, Fail, Leave, Spend, AtStep, AtStage, Busy
  <2>2. /\ job'["run"] = job["run"] /\ job'["extraction"] = Idle
    BY <1>0, <1>2, <2>1 DEF FileInv, RecordTypes, Writers
  <2>3. (Busy("run")' <=> Busy("run")) /\ ~Busy("extraction")'
    BY <2>2 DEF Busy, Idle
  <2>4. WritersAreKnown'
    BY <1>0, <1>1, <2>1, <2>3 DEF WritersAreKnown
  <2>5. AppTypes'
    BY <1>0, <2>1 DEF AppTypes
  <2>6. RunIsStarted'
    BY <1>0, <1>1, <2>1 DEF SessionInv, RunIsStarted, Starting, WritersAreKnown
  <2> QED
    BY <2>3, <2>4, <2>5, <2>6
<1>5. AppTypes' /\ WritersAreKnown' /\ RunIsStarted' /\ (Busy("run")' <=> Busy("run"))
  BY <1>3, <1>4
<1>6. AtModel' /\ RunCourse'
  <2>1. run # NoState => Rest' = Rest
    BY <1>0, <1>5 DEF Rest
  <2> QED
    BY <1>0, <1>1, <2>1 DEF SessionInv, AtModel, RunCourse, AheadStays
<1>7. ASSUME run = NoState
      PROVE  /\ Content(lines') = Content(lines)
             /\ AgentLogged' => AgentLogged
             /\ Harmless => Harmless'
             /\ extraction # "no"
  <2>1. /\ ~Busy("run") /\ job["run"].steps = <<>> /\ job'["run"].steps = <<>>
        /\ job'["run"].stage # "writing"
    BY <1>0, <1>1, <1>2, <1>5, <1>7 DEF WritersAreKnown, Busy
  <2>2. Pending(job["run"].steps) = {} /\ Pending(job["run"].steps)' = {}
    BY <2>1 DEF Pending
  <2>3. Content(lines') = Content(lines)
    <3>1. AheadIs(Content(lines))
      BY <2>2 DEF AheadIs
    <3>2. PICK c : c = Content(lines)
      OBVIOUS
    <3>3. AheadIs(c)'
      BY <1>1, <3>1, <3>2 DEF AheadStays
    <3> QED
      BY <2>2, <3>2, <3>3 DEF AheadIs
  <2>4. AgentLogged' => AgentLogged
    BY <1>1, <2>2 DEF AgentComes
  <2>5. Busy(w)
    BY <1>0, WriterIsBusy DEF Done, Fail, AtStep, AtStage, Busy
  <2>6. extraction # "no"
    BY <1>0, <2>1, <2>5 DEF WritersAreKnown, Writers
  <2> QED
    BY <1>1, <2>1, <2>3, <2>4, <2>6
<1>8. IdleAgrees'
  <2> SUFFICES ASSUME run = NoState, phase = "open", screen # NoState, ~diverged
               PROVE  /\ Begun'
                      /\ RestoredMessages(Content(lines')) = Held(screen)
                      /\ AgentLogged' => Marked(screen)
    BY <1>0 DEF IdleAgrees
  <2> QED
    BY <1>1, <1>7 DEF SessionInv, IdleAgrees, Unbegun
<1>9. TailAgrees' /\ RunIsMarked'
  BY <1>0, <1>1 DEF SessionInv, TailAgrees, RunIsMarked
<1>10. ReadIsCurrent'
  <2> SUFFICES ASSUME resume.current PROVE IsCurrent(resume.messages)'
    BY <1>0 DEF ReadIsCurrent
  <2>1. IsCurrent(resume.messages)
    BY DEF SessionInv, ReadIsCurrent
  <2>2. Content(lines)' = Content(lines')
    OBVIOUS
  <2> QED
    BY <1>0, <1>1, <1>7, <2>1, <2>2 DEF IsCurrent
<1> QED
  BY <1>1, <1>5, <1>6, <1>8, <1>9, <1>10 DEF SessionInv

\* The write of an event of the run has been acknowledged.
LEMMA SessionDone ==
  ASSUME SessionInv, Done("run")
  PROVE  SessionInv'
<1> DEFINE e == Head(run.todo)
<1>0. FileInv /\ AppTypes /\ WritersAreKnown /\ "run" \in Writers /\ "extraction" \in Writers
  BY DEF SessionInv, Writers
<1>1. /\ job["run"].stage = "working" /\ job["run"].steps = <<>>
      /\ job' = [job EXCEPT !["run"] = Idle]
      /\ run' = [run EXCEPT !.todo = Tail(@)]
      /\ screen' = IF e.kind \in {"state", "compaction"} THEN Shown(e.messages) ELSE screen
      /\ UNCHANGED <<lines, tail, exists, resume, extraction, phase, diverged, used>>
  BY DEF Done, AtStage, Leave, fileVars
<1>2. /\ Busy("run") /\ run # NoState /\ run \in Runs /\ run.todo # <<>> /\ screen # NoState
      /\ run.todo \in Seq(FineEvents)
  BY <1>0, <1>1 DEF Busy, WritersAreKnown, AppTypes
<1>3. /\ run' \in Runs /\ run' # NoState /\ run'.todo = Tail(run.todo)
      /\ run'.at = run.at /\ run'.query = run.query /\ run'.latest = run.latest
      /\ run'.todo \in Seq(FineEvents) /\ e \in FineEvents
  <2>1. Tail(run.todo) \in Seq(FineEvents) /\ e \in FineEvents
    BY <1>2
  <2>2. Tail(run.todo) \in Seq(Events)
    BY <1>2 DEF Runs
  <2>3. run' \in Runs
    BY <1>1, <1>2, <2>2 DEF Runs
  <2> QED
    BY <1>1, <1>2, <2>1, <2>3, RunIsNoState DEF Runs
<1>4. job'["run"] = Idle /\ job'["extraction"] = job["extraction"]
  BY <1>0, <1>1 DEF FileInv, RecordTypes
<1>5. /\ FileInv' /\ AheadStays
      /\ Begun => Begun'
      /\ AgentComes' => AgentComes
      /\ \A v \in Writers : ~Busy(v)' => job'[v].steps = <<>>
  BY <1>0, FileWriter, WriterMoves DEF WriterStep
<1>6. ~Busy("run")' /\ (Busy("extraction")' <=> Busy("extraction"))
  BY <1>4 DEF Busy, Idle
<1>7. Rest' = Rest
  BY <1>2, <1>3, <1>6 DEF Rest
<1>8. screen' \in Conversations \cup {NoState} /\ screen' # NoState /\ InTurn(screen')
  <2>1. e.kind \in {"state", "compaction"} => e.messages \in Conversations /\ InTurn(e.messages)
    BY <1>3 DEF FineEvents, Events
  <2> QED
    BY <1>0, <1>1, <1>2, <2>1, RunIsNoState DEF AppTypes, Shown
<1>9. AppTypes'
  BY <1>0, <1>1, <1>2, <1>3, <1>8 DEF AppTypes
<1>10. WritersAreKnown'
  BY <1>0, <1>1, <1>5, <1>6, <1>8 DEF WritersAreKnown
<1>11. AtModel' /\ RunCourse'
  BY <1>1, <1>2, <1>3, <1>5, <1>7 DEF SessionInv, AtModel, RunCourse, AheadStays
<1>12. IdleAgrees'
  BY <1>3 DEF IdleAgrees
<1>13. TailAgrees'
  <2>1. Harmless <=> Harmless'
    BY <1>1 DEF Harmless
  <2> QED
    BY <1>1, <1>2, <2>1 DEF SessionInv, TailAgrees
<1>14. RunIsStarted'
  BY <1>1, <1>2, <1>5 DEF SessionInv, RunIsStarted, Starting
<1>15. RunIsMarked'
  <2>1. run.todo \in Seq(QuietEvents) => run'.todo \in Seq(QuietEvents)
    BY <1>2, <1>3
  <2> QED
    BY <1>1, <1>2, <1>3, <1>5, <2>1 DEF SessionInv, RunIsMarked
<1>16. ReadIsCurrent'
  BY <1>1, <1>2 DEF SessionInv, ReadIsCurrent, IsCurrent
<1> QED
  BY <1>5, <1>9, <1>10, <1>11, <1>12, <1>13, <1>14, <1>15, <1>16 DEF SessionInv

\* The run ends, and the App keeps a conversation of it.
LEMMA SessionFails ==
  ASSUME SessionInv, Fail("run")
  PROVE  SessionInv'
<1>0. FileInv /\ AppTypes /\ WritersAreKnown /\ "run" \in Writers /\ "extraction" \in Writers
  BY DEF SessionInv, Writers
<1>1. /\ job["run"].stage \in {"working", "writing"}
      /\ job' = [job EXCEPT !["run"] = Idle]
      /\ run' = NoState /\ screen' = Shown(run.latest) /\ diverged' = TRUE
      /\ used' = [used EXCEPT !["errors"] = @ + 1]
      /\ UNCHANGED <<resume, extraction, phase>>
  BY DEF Fail, AtStep, AtStage, Leave, Spend
<1>2. Busy("run") /\ run # NoState /\ run \in Runs /\ screen # NoState
  BY <1>0, <1>1 DEF Busy, WritersAreKnown, AppTypes
<1>3. job'["run"] = Idle /\ job'["extraction"] = job["extraction"]
  BY <1>0, <1>1 DEF FileInv, RecordTypes
<1>4. FileInv' /\ \A v \in Writers : ~Busy(v)' => job'[v].steps = <<>>
  BY <1>0, FileWriter, WriterMoves
<1>5. ~Busy("run")' /\ (Busy("extraction")' <=> Busy("extraction"))
  BY <1>3 DEF Busy, Idle
<1>6. screen' \in Conversations /\ screen' # NoState /\ InTurn(screen')
  BY <1>0, <1>1, <1>2, RunIsNoState DEF AppTypes, Shown, Runs
<1>7. AppTypes'
  BY <1>0, <1>1, <1>6 DEF AppTypes
<1>8. WritersAreKnown'
  BY <1>0, <1>1, <1>4, <1>5, <1>6 DEF WritersAreKnown
<1>9. ReadIsCurrent'
  BY <1>1, <1>2 DEF SessionInv, ReadIsCurrent, IsCurrent
<1> QED
  BY <1>1, <1>4, <1>7, <1>8, <1>9
     DEF SessionInv, AtModel, RunCourse, IdleAgrees, TailAgrees, RunIsStarted, RunIsMarked

LEMMA FileStays ==
  ASSUME FileInv, UNCHANGED fileVars, UNCHANGED writeVars, UNCHANGED promised
  PROVE  /\ FileInv'
         /\ UNCHANGED <<Begun, Harmless, AgentLogged, AgentComes>>
         /\ Content(lines)' = Content(lines)
         /\ \A c : AheadIs(c) => AheadIs(c)'
         /\ \A w : Busy(w)' <=> Busy(w)
         /\ UNCHANGED job
<1>1. UNCHANGED job
  BY DEF writeVars
<1>2. LogInv'
  BY AppKeeps DEF FileInv
<1> QED
  BY <1>1, <1>2, FileOthers, Unmoved

\* What /resume reads is a conversation in turn.
LEMMA LoadedIs ==
  ASSUME FileInv
  PROVE  /\ Content(Readable) \in Conversations /\ InTurn(Content(Readable))
         /\ Loaded \in Conversations /\ InTurn(Loaded)
         /\ Harmless <=> Loaded = RestoredMessages(Content(lines))
         /\ Loadable /\ ~ReadsUnfinished => Begun /\ Harmless
<1>1. Content(lines) \in Conversations /\ InTurn(Content(lines)) /\ lines \in Seq(FileRecords)
  BY DEF FileInv, ContentInTurn, RecordTypes
<1>0. ASSUME Loadable, ~ReadsUnfinished PROVE Begun /\ Harmless
  <2>1. CASE tail.part = "whole"
    <3> DEFINE r == tail.record
    <3>1. r \in FileRecords /\ r.type \notin MessageTypes \cup {"context_compaction", "session_meta"}
      BY <1>0, <2>1 DEF FileInv, RecordTypes, NoTail, Unfinished, ReadsUnfinished
    <3>2. Readable = Append(lines, r)
      BY <2>1 DEF Readable
    <3> HIDE DEF r
    <3>3. Apply(Content(lines), r) = Content(lines)
      BY <1>1, <3>1, AppliedIs DEF IsContent
    <3>4. r # Meta
      BY <3>1, RecordIs
    <3>5. Readable[1] = Meta /\ exists
      BY <1>0, <1>1, <3>1, <3>2 DEF Loadable
    <3>6. lines # <<>> /\ lines[1] = Meta
      <4>1. Readable[Len(lines) + 1] = r /\ \A i \in 1..Len(lines) : Readable[i] = lines[i]
        BY <1>1, <3>1, <3>2
      <4>2. lines = <<>> => Len(lines) = 0
        OBVIOUS
      <4>3. lines # <<>>
        BY <3>4, <3>5, <4>1, <4>2
      <4>4. 1 \in 1..Len(lines)
        BY <1>1, <4>3
      <4> QED
        BY <3>5, <4>1, <4>3, <4>4
    <3> QED
      BY <3>3, <3>5, <3>6 DEF Begun, Harmless, r
  <2>2. CASE tail.part # "whole"
    <3>1. Readable = lines
      BY <2>2 DEF Readable
    <3>2. lines # <<>> /\ exists /\ 1 \in DOMAIN lines
      BY <1>0, <1>1, <3>1 DEF Loadable
    <3> QED
      BY <1>0, <2>2, <3>1, <3>2 DEF Loadable, Begun, Harmless
  <2> QED
    BY <2>1, <2>2
<1>2. CASE tail.part = "whole"
  <2>1. tail.record \in FileRecords
    BY <1>2 DEF FileInv, RecordTypes, NoTail, Unfinished
  <2>2. Content(Readable) = Apply(Content(lines), tail.record)
    <3>1. Content(Append(lines, tail.record)) = Apply(Content(lines), tail.record)
      BY <1>1, <2>1, ContentGrows
    <3> QED
      BY <1>2, <3>1 DEF Readable
  <2>3. Content(Readable) \in Conversations /\ InTurn(Content(Readable))
    BY <1>1, <1>2, <2>1, <2>2, AppliedIs DEF FileInv, ContentInTurn
  <2> QED
    BY <1>0, <1>2, <2>2, <2>3, RestoredAre, RestoredKeep DEF Loaded, Replay, Harmless
<1>3. CASE tail.part # "whole"
  <2>1. Readable = lines
    BY <1>3 DEF Readable
  <2> QED
    BY <1>0, <1>1, <1>3, <2>1, RestoredAre, RestoredKeep DEF Loaded, Replay, Harmless
<1> QED
  BY <1>2, <1>3

\* Neither the run nor what the App shows is touched.
LEMMA SessionStays ==
  ASSUME SessionInv, UNCHANGED fileVars, UNCHANGED writeVars,
         UNCHANGED <<screen, run, extraction, promised, diverged, used>>,
         phase' = phase \/ phase' # "open",
         resume' \in Reads, InTurn(resume'.messages),
         resume'.current => IsCurrent(resume'.messages)
  PROVE  SessionInv'
<1>1. /\ FileInv'
      /\ UNCHANGED <<Begun, Harmless, AgentLogged, AgentComes>>
      /\ Content(lines)' = Content(lines)
      /\ \A c : AheadIs(c) => AheadIs(c)'
      /\ \A w : Busy(w)' <=> Busy(w)
      /\ UNCHANGED job
  BY FileStays DEF SessionInv
<1>2. Rest' = Rest
  BY <1>1 DEF Rest
<1>3. AppTypes' /\ WritersAreKnown'
  BY <1>1 DEF SessionInv, AppTypes, WritersAreKnown
<1>4. AtModel' /\ RunCourse'
  BY <1>1, <1>2 DEF SessionInv, AtModel, RunCourse
<1>5. IdleAgrees' /\ TailAgrees' /\ RunIsMarked'
  BY <1>1 DEF SessionInv, IdleAgrees, Unbegun, TailAgrees, RunIsMarked, fileVars
<1>6. RunIsStarted'
  <2>1. Starting' <=> Starting
    BY <1>1 DEF Starting, fileVars
  <2> QED
    BY <1>1, <2>1 DEF SessionInv, RunIsStarted
<1>7. ReadIsCurrent'
  BY <1>1 DEF ReadIsCurrent, IsCurrent
<1> QED
  BY <1>1, <1>3, <1>4, <1>5, <1>6, <1>7 DEF SessionInv

\* No /resume is in progress.
LEMMA NothingRead ==
  /\ NoResume \in Reads /\ InTurn(NoResume.messages) /\ ~NoResume.current
  /\ [NoResume EXCEPT !.at = "reading"] \in Reads
  /\ [NoResume EXCEPT !.at = "reading"].messages = <<>>
  /\ [NoResume EXCEPT !.at = "reading"].current = FALSE
  /\ InTurn(<<>>)
<1>1. <<>> \in Conversations /\ InTurn(<<>>)
  BY DEF Conversations, InTurn
<1> QED
  BY <1>1 DEF NoResume, Reads

LEMMA SessionReads ==
  ASSUME SessionInv, ResumeStart \/ ResumeRead \/ Shutdown \/ Closed \/ UNCHANGED vars
  PROVE  SessionInv'
<1>1. /\ resume \in Reads /\ InTurn(resume.messages)
      /\ resume.current => IsCurrent(resume.messages)
  BY DEF SessionInv, AppTypes, ReadIsCurrent
<1>2. CASE ResumeStart
  <2>1. resume' \in Reads /\ InTurn(resume'.messages) /\ ~resume'.current
    BY <1>2, NothingRead DEF ResumeStart
  <2> QED
    BY <1>2, <2>1, SessionStays DEF ResumeStart, history
<1>3. CASE ResumeRead
  <2>1. CASE Loadable
    <3> DEFINE now == run = NoState /\ ~ReadsUnfinished
    <3>1. resume' = [at |-> "read", messages |-> Loaded, current |-> now]
      BY <1>3, <2>1 DEF ResumeRead
    <3>2. Loaded \in Conversations /\ InTurn(Loaded) /\ now \in BOOLEAN
      BY LoadedIs DEF SessionInv
    <3>3. now => IsCurrent(Loaded)
      BY <2>1, LoadedIs DEF SessionInv, IsCurrent
    <3> HIDE DEF now
    <3>4. /\ resume' \in Reads /\ InTurn(resume'.messages)
          /\ resume'.current => IsCurrent(resume'.messages)
      BY <3>1, <3>2, <3>3 DEF Reads
    <3> QED
      BY <1>3, <3>4, SessionStays DEF ResumeRead, history
  <2>2. CASE ~Loadable
    <3>1. resume' \in Reads /\ InTurn(resume'.messages) /\ ~resume'.current
      BY <1>3, <2>2, NothingRead DEF ResumeRead
    <3> QED
      BY <1>3, <3>1, SessionStays DEF ResumeRead, history
  <2> QED
    BY <2>1, <2>2
<1>4. CASE Shutdown \/ Closed
  BY <1>1, <1>4, SessionStays DEF Shutdown, Closed, history
<1>5. CASE UNCHANGED vars
  BY <1>1, <1>5, SessionStays DEF vars, appVars, history
<1> QED
  BY <1>2, <1>3, <1>4, <1>5

\* The loop goes on when all it has yielded is in the file.
LEMMA Generated ==
  ASSUME SessionInv, NEW at, Generating(at)
  PROVE  /\ run # NoState /\ run \in Runs /\ run.todo = <<>> /\ screen # NoState
         /\ ~Busy("run") /\ job["run"].steps = <<>> /\ Pending(job["run"].steps) = {} /\ Rest = <<>>
         /\ AheadIs(Content(lines))
         /\ Content(lines) \in Conversations /\ InTurn(Content(lines))
         /\ run.query \in Conversations /\ InTurn(run.query)
         /\ run.latest \in Conversations /\ InTurn(run.latest)
         /\ at = "model" => run.latest = run.query
         /\ ~diverged => /\ RestoredMessages(Content(lines)) = Held(run.query)
                         /\ Begun
                         /\ AgentComes => Marked(run.query)
                         /\ Harmless
<1>1. run # NoState /\ run.todo = <<>> /\ run.at = at
  BY DEF Generating
<1>2. run \in Runs /\ InTurn(run.query) /\ InTurn(run.latest)
  BY <1>1 DEF SessionInv, AppTypes
<1>3. run.query \in Conversations /\ run.latest \in Conversations
  BY <1>2 DEF Runs
<1>4. ~Busy("run") /\ job["run"].steps = <<>> /\ screen # NoState
  BY <1>1 DEF SessionInv, WritersAreKnown, Writers
<1>5. Pending(job["run"].steps) = {} /\ Rest = <<>>
  BY <1>1, <1>4 DEF Pending, Rest
<1>6. \A c : AheadIs(c) <=> c = Content(lines)
  BY <1>5 DEF AheadIs
<1>7. ~diverged => RestoredMessages(Content(lines)) = Held(run.query)
  <2>1. PICK ahead, last : /\ AheadIs(ahead) /\ Course(ahead, <<>>, last)
                           /\ diverged \/ RestoredMessages(last) = Held(run.query)
    BY <1>1, <1>5 DEF SessionInv, RunCourse
  <2>2. ahead = Content(lines) /\ last = ahead
    BY <1>6, <2>1, CourseIsNothing
  <2> QED
    BY <2>1, <2>2
<1>8. Content(lines) \in Conversations /\ InTurn(Content(lines))
  BY DEF SessionInv, FileInv, ContentInTurn
<1>9. at = "model" => run.latest = run.query
  BY <1>1, <1>5 DEF SessionInv, AtModel
<1>10. ~diverged => Begun /\ (AgentComes => Marked(run.query))
  BY <1>1 DEF SessionInv, RunIsStarted, RunIsMarked, Starting
<1>11. ~diverged => Harmless
  BY <1>4 DEF SessionInv, TailAgrees, Busy
<1> QED
  BY <1>1, <1>2, <1>3, <1>4, <1>5, <1>6, <1>7, <1>8, <1>9, <1>10, <1>11

\* The loop has ended, or the model has broken off.
LEMMA SessionEnds ==
  ASSUME SessionInv, EndRun \/ ModelFails
  PROVE  SessionInv'
<1>1. PICK at : Generating(at) /\ (EndRun \/ (ModelFails /\ at = "model"))
  BY DEF EndRun, ModelFails
<1>2. /\ run # NoState /\ screen # NoState
      /\ ~Busy("run")
      /\ run.query \in Conversations /\ InTurn(run.query)
      /\ at = "model" => run.latest = run.query
      /\ ~diverged => /\ RestoredMessages(Content(lines)) = Held(run.query)
                      /\ Begun
                      /\ AgentComes => Marked(run.query)
                      /\ Harmless
  BY <1>1, Generated
<1>3. /\ run' = NoState /\ screen' = Shown(run.query)
      /\ UNCHANGED fileVars /\ UNCHANGED writeVars
      /\ UNCHANGED <<resume, extraction, phase, promised, diverged, used>>
  BY <1>1, <1>2 DEF EndRun, ModelFails, history
<1>4. /\ FileInv'
      /\ UNCHANGED <<Begun, Harmless, AgentLogged, AgentComes>>
      /\ Content(lines)' = Content(lines)
      /\ \A w : Busy(w)' <=> Busy(w)
      /\ UNCHANGED job
  BY <1>3, FileStays DEF SessionInv
<1>5. screen' \in Conversations /\ screen' # NoState /\ InTurn(screen')
  BY <1>2, <1>3, RunIsNoState DEF Shown, SessionInv, AppTypes
<1>6. AppTypes' /\ WritersAreKnown'
  BY <1>2, <1>3, <1>4, <1>5 DEF SessionInv, AppTypes, WritersAreKnown
<1>7. IdleAgrees'
  BY <1>2, <1>3, <1>4 DEF IdleAgrees, Shown, AgentComes
<1>8. TailAgrees'
  BY <1>2, <1>3, <1>4 DEF TailAgrees
<1>9. ReadIsCurrent'
  BY <1>2, <1>3 DEF SessionInv, ReadIsCurrent, IsCurrent
<1> QED
  BY <1>3, <1>4, <1>6, <1>7, <1>8, <1>9 DEF SessionInv, AtModel, RunCourse, RunIsStarted, RunIsMarked

LEMMA SessionAborted ==
  ASSUME SessionInv, Aborted
  PROVE  SessionInv'
<1>1. /\ run # NoState /\ run' = NoState /\ phase = "closing" /\ job["run"] = Idle
      /\ UNCHANGED fileVars /\ UNCHANGED writeVars
      /\ UNCHANGED <<screen, resume, extraction, phase, promised, diverged, used>>
  BY DEF Aborted, history
<1>2. /\ FileInv'
      /\ UNCHANGED <<Begun, Harmless, AgentLogged, AgentComes>>
      /\ \A w : Busy(w)' <=> Busy(w)
      /\ UNCHANGED job
  BY <1>1, FileStays DEF SessionInv
<1>3. ~Busy("run")
  BY <1>1 DEF Busy, Idle
<1>4. AppTypes' /\ WritersAreKnown'
  BY <1>1, <1>2, <1>3 DEF SessionInv, AppTypes, WritersAreKnown
<1>5. TailAgrees' /\ IdleAgrees' /\ ReadIsCurrent'
  BY <1>1, <1>2 DEF SessionInv, TailAgrees, IdleAgrees, ReadIsCurrent, IsCurrent
<1> QED
  BY <1>1, <1>2, <1>4, <1>5 DEF SessionInv, AtModel, RunCourse, RunIsStarted, RunIsMarked

\* The App moves on to what it has read, or has moved on itself.
LEMMA SessionResumes ==
  ASSUME SessionInv, ResumeSet
  PROVE  SessionInv'
<1> DEFINE m == resume.messages
<1>1. /\ resume' = NoResume /\ screen' = Shown(m)
      /\ diverged' = IF run = NoState /\ phase = "open" THEN ~resume.current ELSE diverged
      /\ UNCHANGED fileVars /\ UNCHANGED writeVars
      /\ UNCHANGED <<run, extraction, phase, promised, used>>
  BY DEF ResumeSet
<1>2. m \in Conversations /\ InTurn(m) /\ m # NoState
  BY RunIsNoState DEF SessionInv, AppTypes, Reads
<1>3. /\ FileInv'
      /\ UNCHANGED <<Begun, Harmless, AgentLogged, AgentComes>>
      /\ Content(lines)' = Content(lines)
      /\ \A c : AheadIs(c) => AheadIs(c)'
      /\ \A w : Busy(w)' <=> Busy(w)
      /\ UNCHANGED job
  BY <1>1, FileStays DEF SessionInv
<1>4. (screen' = m /\ phase = "open") \/ (screen' = screen /\ phase # "open")
  BY <1>1 DEF Shown
<1>5. AppTypes' /\ ReadIsCurrent'
  BY <1>1, <1>2, <1>4, NothingRead DEF SessionInv, AppTypes, ReadIsCurrent
<1>6. WritersAreKnown'
  BY <1>1, <1>2, <1>3, <1>4 DEF SessionInv, WritersAreKnown
<1>7. Rest' = Rest
  BY <1>1, <1>3 DEF Rest
<1>8. AtModel'
  BY <1>1, <1>7 DEF SessionInv, AtModel
<1>9. Starting' <=> Starting
  BY <1>1, <1>3 DEF Starting, fileVars
<1> HIDE DEF m
<1>10. CASE run = NoState /\ phase = "open"
  <2>1. SUFFICES ASSUME ~diverged' PROVE IdleAgrees' /\ TailAgrees'
    BY <1>1, <1>3, <1>5, <1>6, <1>8, <1>10
       DEF SessionInv, RunCourse, RunIsStarted, RunIsMarked, IdleAgrees, TailAgrees
  <2>2. /\ Begun /\ Harmless /\ m = RestoredMessages(Content(lines))
    BY <1>1, <1>10, <2>1 DEF SessionInv, ReadIsCurrent, IsCurrent, m
  <2>3. Held(m) = RestoredMessages(Content(lines)) /\ (AgentLogged => Marked(m))
    <3>1. Content(lines) \in Conversations /\ Unplanned(Content(lines))
      BY DEF SessionInv, FileInv, ContentInTurn
    <3>2. Unplanned(m)
      BY <2>2, <3>1, HeldIs
    <3>3. Held(m) = RestoredMessages(m)
      BY <1>2, <3>2, HeldIs DEF m
    <3> QED
      BY <2>2, <3>1, <3>3, RestoredKeep DEF SessionInv, FileInv, ContentIsMarked
  <2>4. screen' = m
    BY <1>4, <1>10 DEF m
  <2> QED
    BY <1>3, <2>2, <2>3, <2>4 DEF IdleAgrees, TailAgrees
<1>11. CASE ~(run = NoState /\ phase = "open")
  <2>1. diverged' = diverged
    BY <1>1, <1>11
  <2>2. screen' # NoState => screen # NoState
    BY <1>4, <1>11 DEF SessionInv, WritersAreKnown
  <2>3. RunCourse' /\ RunIsStarted' /\ RunIsMarked'
    BY <1>1, <1>3, <1>7, <1>9, <2>1 DEF SessionInv, RunCourse, RunIsStarted, RunIsMarked
  <2>4. IdleAgrees' /\ TailAgrees'
    BY <1>1, <1>3, <1>11, <2>1, <2>2 DEF SessionInv, IdleAgrees, TailAgrees
  <2> QED
    BY <1>3, <1>5, <1>6, <1>8, <2>3, <2>4 DEF SessionInv
<1> QED
  BY <1>10, <1>11

LEMMA SessionRestarts ==
  ASSUME SessionInv, Restart
  PROVE  SessionInv'
<1>1. /\ job' = [w \in Writers |-> Idle] /\ screen' = NoState /\ run' = NoState
      /\ resume' = NoResume /\ extraction' = "no"
      /\ used' = [used EXCEPT !["crashes"] = @ + 1]
  BY DEF Restart, Spend
<1>2. FileInv'
  <2>1. [Next]_vars
    BY DEF Next
  <2>2. LogInv'
    BY <2>1, LogNext DEF SessionInv, FileInv
  <2> QED
    BY <2>2, FileRestart DEF SessionInv
<1>3. AppTypes' /\ ReadIsCurrent'
  BY <1>1, NothingRead DEF SessionInv, AppTypes, ReadIsCurrent
<1>4. WritersAreKnown'
  <2>1. job'["run"] = Idle /\ job'["extraction"] = Idle /\ \A w \in Writers : job'[w] = Idle
    BY <1>1 DEF Writers
  <2> QED
    BY <1>1, <2>1 DEF WritersAreKnown, Busy, Idle
<1> QED
  BY <1>1, <1>2, <1>3, <1>4
     DEF SessionInv, AtModel, RunCourse, IdleAgrees, TailAgrees, RunIsStarted, RunIsMarked

\* A writer is given its steps.
LEMMA Submitted ==
  ASSUME FileInv, NEW w \in Writers, NEW steps, Submit(w, steps), StepsFine(w, "queued", steps),
         UNCHANGED fileVars, UNCHANGED promised
  PROVE  /\ FileInv'
         /\ job'[w] = [stage |-> "queued", steps |-> steps]
         /\ \A v \in Writers : v # w => job'[v] = job[v]
<1>1. job' = [job EXCEPT ![w] = [stage |-> "queued", steps |-> steps]]
  BY DEF Submit
<1>2. LogInv'
  BY AppKeeps DEF FileInv
<1>3. FileInv'
  BY <1>2, FileOthers
<1>4. \A v \in Writers : job'[v] = IF v = w THEN [stage |-> "queued", steps |-> steps] ELSE job[v]
  BY <1>1 DEF FileInv, RecordTypes
<1>5. job'[w] = [stage |-> "queued", steps |-> steps] /\ \A v \in Writers : v # w => job'[v] = job[v]
  BY <1>4
<1> QED
  BY <1>3, <1>5

LEMMA SessionExtracted ==
  ASSUME SessionInv, Extracted
  PROVE  SessionInv'
<1>1. /\ extraction = "running" /\ extraction' = "writing"
      /\ Submit("extraction", <<Extraction>>)
      /\ UNCHANGED fileVars
      /\ UNCHANGED <<screen, run, resume, phase, promised, diverged, used>>
  BY DEF Extracted, history
<1>2. StepsFine("extraction", "queued", <<Extraction>>)
  <2>1. Extraction \in FileRecords
    <3>1. <<>> \in Contents
      BY DEF Contents
    <3>2. Extraction = [type |-> "memory_extraction", content |-> <<>>]
      BY DEF Extraction, Record
    <3> QED
      BY <3>1, <3>2 DEF FileRecords, FileTypes, MessageTypes
  <2>2. Extraction # Meta /\ ~IsContent(Extraction)
    BY DEF Extraction, Meta, Record, IsContent, MessageTypes
  <2>3. /\ <<Extraction>> \in Seq(FileRecords \cup {Reindex})
        /\ DOMAIN <<Extraction>> = {1} /\ <<Extraction>>[1] = Extraction
    BY <2>1
  <2> HIDE DEF Extraction
  <2> QED
    BY <2>2, <2>3 DEF StepsFine
<1>3. /\ FileInv'
      /\ job'["extraction"] = [stage |-> "queued", steps |-> <<Extraction>>]
      /\ job'["run"] = job["run"]
  BY <1>1, <1>2, Submitted DEF SessionInv, Writers
<1>4. /\ UNCHANGED <<Begun, Harmless, AgentLogged, AgentComes>>
      /\ Content(lines)' = Content(lines)
      /\ \A c : AheadIs(c) => AheadIs(c)'
      /\ Busy("run")' <=> Busy("run")
  <2>1. UNCHANGED <<lines, tail, exists>>
    BY <1>1 DEF fileVars
  <2>2. Pending(job["run"].steps)' = Pending(job["run"].steps)
    BY <1>3 DEF Pending
  <2>3. UNCHANGED <<Begun, Harmless, AgentLogged>>
    BY <2>1 DEF Begun, Harmless, AgentLogged
  <2>4. AgentComes' <=> AgentComes
    BY <2>2, <2>3 DEF AgentComes
  <2> QED
    BY <1>3, <2>1, <2>2, <2>3, <2>4 DEF AgentComes, AheadIs, Busy
<1>5. Busy("extraction")' /\ Rest' = Rest
  BY <1>1, <1>3, <1>4 DEF Busy, Rest
<1>6. AppTypes'
  BY <1>1 DEF SessionInv, AppTypes
<1>7. WritersAreKnown'
  BY <1>1, <1>3, <1>4, <1>5 DEF SessionInv, WritersAreKnown, Writers
<1>8. AtModel' /\ RunCourse'
  BY <1>1, <1>4, <1>5 DEF SessionInv, AtModel, RunCourse
<1>9. IdleAgrees' /\ TailAgrees' /\ RunIsMarked' /\ ReadIsCurrent'
  BY <1>1, <1>3, <1>4 DEF SessionInv, IdleAgrees, Unbegun, TailAgrees, RunIsMarked, ReadIsCurrent, IsCurrent
<1>10. RunIsStarted'
  BY <1>1, <1>4 DEF SessionInv, RunIsStarted, Starting
<1> QED
  BY <1>3, <1>6, <1>7, <1>8, <1>9, <1>10 DEF SessionInv

LEMMA LastStays ==
  ASSUME NEW S, NEW s \in Seq(S), s # <<>>
  PROVE  /\ Tail(s) \in Seq(S)
         /\ Tail(s) = <<>> => s[Len(s)] = Head(s)
         /\ Tail(s) # <<>> => Tail(s)[Len(Tail(s))] = s[Len(s)]
<1>1. /\ Len(s) \in Nat /\ Len(s) >= 1 /\ Tail(s) \in Seq(S) /\ Len(Tail(s)) = Len(s) - 1
      /\ Head(s) = s[1] /\ \A i \in 1..(Len(s) - 1) : Tail(s)[i] = s[i + 1]
  OBVIOUS
<1>2. Tail(s) = <<>> => Len(s) = 1
  <2>1. SUFFICES ASSUME Tail(s) = <<>> PROVE Len(s) = 1
    OBVIOUS
  <2>2. Len(<<>>) = 0
    OBVIOUS
  <2>3. Len(Tail(s)) = 0
    BY <2>1, <2>2, Zenon
  <2>4. Len(s) \in Nat /\ Len(s) - 1 = 0
    BY <1>1, <2>3, Zenon
  <2> DEFINE n == Len(s)
  <2>5. n \in Nat /\ n - 1 = 0
    BY <2>4
  <2> HIDE DEF n
  <2>6. n = 1
    BY <2>5
  <2> QED
    BY <2>6 DEF n
<1>3. Tail(s) # <<>> => Len(s) - 1 \in 1..(Len(s) - 1)
  BY <1>1
<1> QED
  BY <1>1, <1>2, <1>3

\* The run asks for an extraction and goes on.
LEMMA SessionRequests ==
  ASSUME SessionInv, RequestExtraction
  PROVE  SessionInv'
<1>1. /\ run # NoState /\ run.todo # <<>> /\ Head(run.todo).kind = "extract"
      /\ run' = [run EXCEPT !.todo = Tail(@)]
      /\ extraction' = IF phase = "open" /\ extraction = "no" THEN "running" ELSE extraction
      /\ UNCHANGED fileVars /\ UNCHANGED writeVars
      /\ UNCHANGED <<screen, resume, phase, promised, diverged, used>>
  BY DEF RequestExtraction, history
<1>2. run \in Runs /\ run.todo \in Seq(FineEvents) /\ ~Busy("run") /\ screen # NoState
  BY <1>1 DEF SessionInv, AppTypes, WritersAreKnown
<1>3. /\ run' \in Runs /\ run' # NoState /\ run'.todo = Tail(run.todo)
      /\ run'.at = run.at /\ run'.query = run.query /\ run'.latest = run.latest
      /\ run'.todo \in Seq(FineEvents)
  <2>1. Tail(run.todo) \in Seq(FineEvents)
    BY <1>1, <1>2
  <2>2. Tail(run.todo) \in Seq(Events)
    BY <1>1, <1>2 DEF Runs
  <2>3. run' \in Runs
    BY <1>1, <1>2, <2>2 DEF Runs
  <2> QED
    BY <1>1, <1>2, <2>1, <2>3, RunIsNoState DEF Runs
<1>4. /\ FileInv'
      /\ UNCHANGED <<Begun, Harmless, AgentLogged, AgentComes>>
      /\ Content(lines)' = Content(lines)
      /\ \A c : AheadIs(c) => AheadIs(c)'
      /\ \A w : Busy(w)' <=> Busy(w)
      /\ UNCHANGED job
  BY <1>1, FileStays DEF SessionInv
<1>5. Rest = run.todo /\ Rest' = Tail(run.todo)
  BY <1>2, <1>3, <1>4 DEF Rest
<1>6. AppTypes'
  BY <1>1, <1>2, <1>3 DEF SessionInv, AppTypes
<1>7. WritersAreKnown'
  BY <1>1, <1>2, <1>4 DEF SessionInv, WritersAreKnown
<1>8. AtModel'
  <2>1. State(run.query).kind = "state"
    BY DEF State, Event
  <2> QED
    BY <1>1, <1>2, <1>3, <1>5, <2>1, LastStays DEF SessionInv, AtModel
<1>9. RunCourse'
  <2>1. PICK ahead, last : /\ AheadIs(ahead) /\ Course(ahead, run.todo, last)
                           /\ diverged \/ RestoredMessages(last) = Held(run.query)
    BY <1>1, <1>5 DEF SessionInv, RunCourse
  <2>2. ApplyEvent(ahead, Head(run.todo)) = ahead
    BY <1>1 DEF ApplyEvent
  <2>3. Course(ahead, Tail(run.todo), last)
    BY <1>1, <1>2, <2>1, <2>2, CourseGoesOn
  <2> QED
    BY <1>1, <1>3, <1>4, <1>5, <2>1, <2>3 DEF RunCourse
<1>10. IdleAgrees' /\ TailAgrees' /\ ReadIsCurrent'
  BY <1>1, <1>3, <1>4 DEF SessionInv, IdleAgrees, TailAgrees, ReadIsCurrent, IsCurrent
<1>11. RunIsStarted'
  BY <1>1, <1>4 DEF SessionInv, RunIsStarted, Starting
<1>12. RunIsMarked'
  <2>1. run.todo \in Seq(QuietEvents) => Tail(run.todo) \in Seq(QuietEvents)
    BY <1>1
  <2> QED
    BY <1>1, <1>3, <1>4, <2>1 DEF SessionInv, RunIsMarked
<1> QED
  BY <1>4, <1>6, <1>7, <1>8, <1>9, <1>10, <1>11, <1>12 DEF SessionInv

\* The records of a message: its own, and one for each call, which tells nothing.
LEMMA MessageStepsAre ==
  ASSUME NEW m \in Messages, m.role # "system", m # PlanMessage, IsInjective(m.calls)
  PROVE  \E r \in FileRecords :
            /\ r.type = MessageEventType(m) /\ r.content = <<m>> /\ r.type \in MessageTypes
            /\ MessageEvents(m) \in Seq(FileRecords)
            /\ DOMAIN MessageEvents(m) = 1..Len(MessageEvents(m)) /\ Len(MessageEvents(m)) \in Nat
            /\ 1 \in DOMAIN MessageEvents(m) /\ MessageEvents(m)[1] = r
            /\ \A i \in DOMAIN MessageEvents(m) : i # 1 => MessageEvents(m)[i].type = "tool_call"
<1> DEFINE r == Record(MessageEventType(m), <<m>>)
           Call(i) == Record("tool_call", <<Message("call", 0, <<m.calls[i]>>, FALSE)>>)
           rest == IF m.role = "assistant" THEN [i \in DOMAIN m.calls |-> Call(i)] ELSE <<>>
<1>1. m.role \in Roles /\ m.calls \in Seq(Calls) /\ m.id \in Nat /\ m.untrusted \in BOOLEAN
  BY DEF Messages
<1>2. MessageEventType(m) \in MessageTypes
  BY <1>1 DEF MessageEventType, MessageTypes
<1>3. /\ r \in FileRecords /\ r.type = MessageEventType(m) /\ r.content = <<m>>
  <2> DEFINE type == MessageEventType(m)
             content == <<m>>
  <2>1. content \in Contents /\ content = <<content[1]>> /\ content[1] = m
    <3>1. m \in [role : Roles \cup {"call"}, id : Nat, calls : Seq(Calls), untrusted : BOOLEAN]
      BY DEF Messages
    <3> QED
      BY <3>1 DEF Contents
  <2>2. r = [type |-> type, content |-> content]
    BY DEF Record
  <2>3. type \in FileTypes /\ type # "session_meta" /\ type # "context_compaction"
    BY <1>2 DEF FileTypes, MessageTypes
  <2> HIDE DEF content, r
  <2>4. MessageEventType(content[1]) = type
    BY <2>1
  <2> HIDE DEF type
  <2> QED
    BY <1>2, <2>1, <2>2, <2>3, <2>4 DEF FileRecords, type, content
<1>4. \A i \in DOMAIN m.calls : Call(i) \in FileRecords /\ Call(i).type = "tool_call"
  <2> SUFFICES ASSUME NEW i \in DOMAIN m.calls PROVE Call(i) \in FileRecords /\ Call(i).type = "tool_call"
    OBVIOUS
  <2> DEFINE k == Message("call", 0, <<m.calls[i]>>, FALSE)
  <2>1. <<m.calls[i]>> \in Seq(Calls)
    BY <1>1
  <2>2. k \in [role : Roles \cup {"call"}, id : Nat, calls : Seq(Calls), untrusted : BOOLEAN]
    BY <2>1 DEF Message
  <2> HIDE DEF k
  <2>3. <<k>> \in Contents
    BY <2>2 DEF Contents
  <2>4. Call(i) = [type |-> "tool_call", content |-> <<k>>]
    BY DEF Record, k
  <2> QED
    BY <2>3, <2>4 DEF FileRecords, FileTypes, MessageTypes
<1>5. rest \in Seq(FileRecords) /\ \A i \in DOMAIN rest : rest[i].type = "tool_call"
  <2> HIDE DEF Call
  <2>1. DOMAIN m.calls = 1..Len(m.calls) /\ Len(m.calls) \in Nat
    BY <1>1
  <2>2. CASE m.role = "assistant"
    <3>1. rest = [i \in 1..Len(m.calls) |-> Call(i)]
      BY <2>1, <2>2
    <3>2. \A i \in 1..Len(m.calls) : Call(i) \in FileRecords /\ Call(i).type = "tool_call"
      BY <1>4, <2>1
    <3> QED
      BY <2>1, <3>1, <3>2
  <2>3. CASE m.role # "assistant"
    BY <2>3
  <2> QED
    BY <2>2, <2>3
<1>6. MessageEvents(m) = <<r>> \o rest
  BY DEF MessageEvents
<1> HIDE DEF r, rest
<1>7. <<r>> \in Seq(FileRecords) /\ Len(<<r>>) = 1 /\ <<r>>[1] = r
  BY <1>3
<1>8. /\ MessageEvents(m) \in Seq(FileRecords)
      /\ Len(MessageEvents(m)) = 1 + Len(rest) /\ Len(rest) \in Nat
      /\ DOMAIN MessageEvents(m) = 1..(1 + Len(rest)) /\ DOMAIN rest = 1..Len(rest)
      /\ MessageEvents(m)[1] = r
      /\ \A i \in 1..Len(rest) : MessageEvents(m)[1 + i] = rest[i]
  BY <1>5, <1>6, <1>7, Joined
<1>9. \A i \in DOMAIN MessageEvents(m) : i # 1 => i - 1 \in 1..Len(rest) /\ 1 + (i - 1) = i
  BY <1>8
<1>10. \A i \in DOMAIN MessageEvents(m) : i # 1 => MessageEvents(m)[i].type = "tool_call"
  BY <1>5, <1>8, <1>9
<1>11. /\ DOMAIN MessageEvents(m) = 1..Len(MessageEvents(m)) /\ Len(MessageEvents(m)) \in Nat
       /\ 1 \in DOMAIN MessageEvents(m)
  BY <1>8
<1> QED
  BY <1>2, <1>3, <1>8, <1>10, <1>11

\* What is asked of the writer for an event does to the file what the event does.
LEMMA StepsOfEvent ==
  ASSUME NEW e \in FineEvents, e.kind # "extract",
         Content(lines) \in Conversations, InTurn(ApplyEvent(Content(lines), e))
  PROVE  /\ StepsFine("run", "queued", StepsOf(e))
         /\ \A r \in Pending(StepsOf(e)) :
               /\ ApplyEvent(Content(lines), e) = Apply(Content(lines), r)
               /\ r.type = "agent_message" => e \notin QuietEvents
         /\ Pending(StepsOf(e)) = {} => ApplyEvent(Content(lines), e) = Content(lines)
<1> DEFINE c == Content(lines)
           steps == StepsOf(e)
<1>1. e.kind \in EventKinds /\ e.messages \in Conversations
  BY DEF FineEvents, Events
<1>2. CASE e.kind = "message"
  <2> DEFINE m == e.messages[1]
  <2>1. m \in Messages /\ m.role # "system" /\ m # PlanMessage /\ IsInjective(m.calls)
    BY <1>2 DEF FineEvents
  <2>2. steps = MessageEvents(m) /\ ApplyEvent(c, e) = Append(c, m)
    BY <1>2 DEF StepsOf, ApplyEvent
  <2>3. e \in QuietEvents => m.role # "agent"
    BY <1>2 DEF QuietEvents
  <2> HIDE DEF m, steps, c
  <2>4. PICK r \in FileRecords :
            /\ r.type = MessageEventType(m) /\ r.content = <<m>> /\ r.type \in MessageTypes
            /\ steps \in Seq(FileRecords)
            /\ DOMAIN steps = 1..Len(steps) /\ Len(steps) \in Nat
            /\ 1 \in DOMAIN steps /\ steps[1] = r
            /\ \A i \in DOMAIN steps : i # 1 => steps[i].type = "tool_call"
    BY <2>1, <2>2, MessageStepsAre
  <2>5. Apply(c, r) = Append(c, m) /\ IsContent(r) /\ r # Meta
    BY <2>4 DEF Apply, IsContent, Meta, Record, MessageTypes
  <2>6. \A i \in DOMAIN steps : IsContent(steps[i]) => i = 1 /\ steps[i] = r
    BY <2>4 DEF IsContent, MessageTypes
  <2>7. \A i \in DOMAIN steps : steps[i] # Meta
    BY <2>4, <2>5 DEF Meta, Record
  <2>8. Pending(steps) = {r}
    BY <2>4, <2>5, <2>6 DEF Pending
  <2>9. r.type = "agent_message" => m.role = "agent"
    BY <2>1, <2>4 DEF MessageEventType, Messages, Roles
  <2>10. StepsFine("run", "queued", steps)
    <3>1. steps \in Seq(FileRecords \cup {Reindex})
      BY <2>4
    <3>2. InTurn(Apply(Content(lines), r))
      BY <2>2, <2>5 DEF c
    <3> QED
      BY <2>6, <2>7, <3>1, <3>2 DEF StepsFine
  <2>11. \A q \in Pending(steps) : ApplyEvent(c, e) = Apply(c, q) /\ (q.type = "agent_message" => e \notin QuietEvents)
    BY <2>2, <2>3, <2>5, <2>8, <2>9
  <2> QED
    BY <2>8, <2>10, <2>11 DEF c, steps
<1>3. ASSUME NEW r \in FileRecords, steps = <<r, Reindex>>, r # Meta
      PROVE  /\ (IsContent(r) => InTurn(Apply(c, r))) => StepsFine("run", "queued", steps)
             /\ Pending(steps) = IF IsContent(r) THEN {r} ELSE {}
  <2>1. /\ steps \in Seq(FileRecords \cup {Reindex}) /\ DOMAIN steps = {1, 2}
        /\ steps[1] = r /\ steps[2] = Reindex
    BY <1>3
  <2>2. ~IsContent(Reindex) /\ Reindex # Meta
    BY DEF Reindex, Meta, Record, IsContent, MessageTypes
  <2> HIDE DEF steps
  <2>3. (IsContent(r) => InTurn(Apply(c, r))) => StepsFine("run", "queued", steps)
    BY <1>3, <2>1, <2>2 DEF StepsFine
  <2>4. Pending(steps) = IF IsContent(r) THEN {r} ELSE {}
    BY <2>1, <2>2 DEF Pending
  <2> QED
    BY <2>3, <2>4
<1>4. CASE e.kind = "state"
  <2>1. steps = <<Snapshot, Reindex>> /\ ApplyEvent(c, e) = c
    BY <1>4 DEF StepsOf, ApplyEvent
  <2>2. Snapshot \in FileRecords /\ ~IsContent(Snapshot) /\ Snapshot # Meta
    <3>1. <<>> \in Contents
      BY DEF Contents
    <3>2. Snapshot = [type |-> "state_snapshot", content |-> <<>>]
      BY DEF Snapshot, Record
    <3> QED
      BY <3>1, <3>2 DEF FileRecords, FileTypes, MessageTypes, IsContent, Meta, Record
  <2> HIDE DEF steps, c
  <2>3. StepsFine("run", "queued", steps) /\ Pending(steps) = {}
    BY <1>3, <2>1, <2>2
  <2> QED
    BY <2>1, <2>3 DEF steps, c
<1>5. CASE e.kind = "compaction"
  <2> DEFINE r == Compaction(e.messages)
  <2>1. steps = <<r, Reindex>> /\ ApplyEvent(c, e) = e.messages
    BY <1>5 DEF StepsOf, ApplyEvent
  <2>2. /\ r \in FileRecords /\ IsContent(r) /\ r # Meta /\ r.type # "agent_message"
        /\ Apply(c, r) = e.messages
    <3>1. r = [type |-> "context_compaction", content |-> e.messages]
      BY DEF Compaction, Record
    <3>2. e.messages \in Contents /\ Summarized(e.messages) /\ Unplanned(e.messages)
      <4> DEFINE R == [role : Roles \cup {"call"}, id : Nat, calls : Seq(Calls), untrusted : BOOLEAN]
      <4>1. Messages \subseteq R
        BY DEF Messages
      <4> HIDE DEF R
      <4>2. e.messages \in Seq(R)
        BY <1>1, <4>1 DEF Conversations
      <4> QED
        BY <1>5, <4>2 DEF FineEvents, Contents, R
    <3> HIDE DEF r, c
    <3>3. Apply(c, r) = e.messages
      BY <3>1 DEF Apply, MessageTypes
    <3> QED
      BY <1>1, <3>1, <3>2, <3>3 DEF FileRecords, FileTypes, MessageTypes, IsContent, Meta, Record
  <2> HIDE DEF steps, c, r
  <2>3. InTurn(Apply(c, r))
    BY <2>1, <2>2 DEF c
  <2>4. StepsFine("run", "queued", steps) /\ Pending(steps) = {r}
    BY <1>3, <2>1, <2>2, <2>3
  <2> QED
    BY <2>1, <2>2, <2>4 DEF steps, c
<1>6. CASE e.kind = "ensure"
  <2>1. steps = <<>> /\ ApplyEvent(c, e) = c
    BY <1>6 DEF StepsOf, ApplyEvent
  <2>2. StepsFine("run", "queued", <<>>) /\ Pending(<<>>) = {}
    BY NoStepsFine DEF Stages
  <2> QED
    BY <2>1, <2>2
<1> QED
  BY <1>1, <1>2, <1>4, <1>5, <1>6 DEF EventKinds

\* The App has the next event of the run written.
LEMMA SessionPersists ==
  ASSUME SessionInv, Persist
  PROVE  SessionInv'
<1> DEFINE e == Head(run.todo)
<1>0. FileInv /\ AppTypes /\ WritersAreKnown /\ "run" \in Writers /\ "extraction" \in Writers
  BY DEF SessionInv, Writers
<1>1. /\ run # NoState /\ run.todo # <<>> /\ job["run"] = Idle /\ e.kind # "extract"
      /\ Submit("run", StepsOf(e))
      /\ run' = IF e.kind \in {"state", "compaction"}
                THEN [run EXCEPT !.latest = e.messages] ELSE run
      /\ UNCHANGED fileVars
      /\ UNCHANGED <<screen, resume, extraction, phase, promised, diverged, used>>
  BY DEF Persist, history
<1>2. /\ run \in Runs /\ run.todo \in Seq(FineEvents) /\ e \in FineEvents /\ screen # NoState
      /\ InTurn(run.query) /\ InTurn(run.latest)
      /\ ~Busy("run") /\ job["run"].stage = "idle" /\ Pending(job["run"].steps) = {}
      /\ Rest = run.todo
  <2>1. run \in Runs /\ run.todo \in Seq(FineEvents) /\ InTurn(run.query) /\ InTurn(run.latest) /\ screen # NoState
    BY <1>0, <1>1 DEF AppTypes, WritersAreKnown
  <2>2. e \in FineEvents
    BY <1>1, <2>1
  <2>3. Pending(<<>>) = {}
    BY NoStepsFine DEF Stages
  <2> QED
    BY <1>1, <2>1, <2>2, <2>3 DEF Busy, Idle, Rest
<1>3. /\ run' \in Runs /\ run' # NoState /\ run'.todo = run.todo
      /\ run'.at = run.at /\ run'.query = run.query /\ InTurn(run'.latest)
      /\ e.kind = "state" => run'.latest = e.messages
  <2>1. e.messages \in Conversations /\ (e.kind \in {"state", "compaction"} => InTurn(e.messages))
    BY <1>2 DEF FineEvents, Events
  <2>2. CASE e.kind \in {"state", "compaction"}
    <3> HIDE DEF e
    <3>1. run' = [run EXCEPT !.latest = e.messages]
      BY <1>1, <2>2
    <3>2. run' \in Runs
      BY <1>2, <2>1, <3>1 DEF Runs
    <3> QED
      BY <1>2, <2>1, <2>2, <3>1, <3>2, RunIsNoState DEF Runs
  <2>3. CASE e.kind \notin {"state", "compaction"}
    BY <1>1, <1>2, <2>3
  <2> QED
    BY <2>2, <2>3
<1>4. PICK ahead, last : /\ AheadIs(ahead) /\ Course(ahead, run.todo, last)
                         /\ diverged \/ RestoredMessages(last) = Held(run.query)
  BY <1>1, <1>2 DEF SessionInv, RunCourse
<1>5. ahead = Content(lines) /\ Content(lines) \in Conversations
  BY <1>0, <1>2, <1>4 DEF AheadIs, FileInv, ContentInTurn
<1>6. /\ Course(ApplyEvent(ahead, e), Tail(run.todo), last)
      /\ InTurn(ApplyEvent(ahead, e))
  BY <1>1, <1>2, <1>4, CourseGoesOn
<1>7. /\ StepsFine("run", "queued", StepsOf(e))
      /\ \A r \in Pending(StepsOf(e)) :
            /\ ApplyEvent(Content(lines), e) = Apply(Content(lines), r)
            /\ r.type = "agent_message" => e \notin QuietEvents
      /\ Pending(StepsOf(e)) = {} => ApplyEvent(Content(lines), e) = Content(lines)
  BY <1>1, <1>2, <1>5, <1>6, StepsOfEvent
<1>8. /\ FileInv'
      /\ job'["run"] = [stage |-> "queued", steps |-> StepsOf(e)]
      /\ job'["extraction"] = job["extraction"]
  BY <1>0, <1>1, <1>7, Submitted
<1>9. /\ Busy("run")' /\ (Busy("extraction")' <=> Busy("extraction"))
      /\ Rest' = Tail(run.todo)
      /\ Pending(job["run"].steps)' = Pending(StepsOf(e))
  BY <1>3, <1>8 DEF Busy, Rest, Pending
<1>10. UNCHANGED <<Begun, Harmless, AgentLogged>> /\ Content(lines)' = Content(lines) /\ lines' = lines
  BY <1>1 DEF Begun, Harmless, AgentLogged, fileVars
<1> HIDE DEF e
<1>11. PICK next : next = ApplyEvent(ahead, e)
  OBVIOUS
<1>12. AheadIs(next)'
  BY <1>5, <1>7, <1>9, <1>10, <1>11 DEF AheadIs
<1>13. AppTypes'
  BY <1>0, <1>1, <1>2, <1>3 DEF AppTypes
<1>14. WritersAreKnown'
  BY <1>0, <1>1, <1>2, <1>3, <1>8, <1>9 DEF WritersAreKnown, Writers, e
<1>15. AtModel'
  <2>1. SUFFICES ASSUME run.at = "model"
                 PROVE  \/ Tail(run.todo) = <<>> /\ run'.latest = run.query
                        \/ Tail(run.todo) # <<>> /\ Tail(run.todo)[Len(Tail(run.todo))] = State(run.query)
    BY <1>3, <1>9 DEF AtModel
  <2>2. run.todo[Len(run.todo)] = State(run.query)
    BY <1>1, <1>2, <2>1 DEF SessionInv, AtModel
  <2>3. Tail(run.todo) = <<>> => e = State(run.query)
    BY <1>1, <1>2, <2>2, LastStays DEF e
  <2>4. State(run.query).kind = "state" /\ State(run.query).messages = run.query
    BY DEF State, Event
  <2> QED
    BY <1>1, <1>2, <1>3, <2>2, <2>3, <2>4, LastStays
<1>16. RunCourse'
  <2>1. Course(next, Rest', last)
    BY <1>6, <1>9, <1>11
  <2>2. diverged' \/ RestoredMessages(last) = Held(run.query)'
    BY <1>1, <1>3, <1>4 DEF Held, Logged
  <2> QED
    BY <1>12, <2>1, <2>2 DEF RunCourse
<1>17. IdleAgrees' /\ TailAgrees' /\ ReadIsCurrent'
  BY <1>1, <1>2, <1>3, <1>10 DEF SessionInv, IdleAgrees, TailAgrees, ReadIsCurrent, IsCurrent
<1>18. RunIsStarted'
  <2>1. Starting => Starting'
    BY <1>1, <1>2, <1>3, <1>8 DEF Starting, fileVars
  <2> QED
    BY <1>1, <1>10, <2>1 DEF SessionInv, RunIsStarted
<1>19. RunIsMarked'
  <2>1. SUFFICES ASSUME ~diverged, ~Marked(run.query) PROVE ~AgentComes' /\ run.todo \in Seq(QuietEvents)
    BY <1>1, <1>3 DEF RunIsMarked
  <2>2. ~AgentComes /\ run.todo \in Seq(QuietEvents)
    BY <1>1, <2>1 DEF SessionInv, RunIsMarked
  <2>3. e \in QuietEvents
    BY <1>1, <2>2 DEF e
  <2> QED
    BY <1>7, <1>9, <1>10, <2>2, <2>3 DEF AgentComes
<1> QED
  BY <1>8, <1>13, <1>14, <1>15, <1>16, <1>17, <1>18, <1>19 DEF SessionInv

-----------------------------------------------------------------------------
(* What the loop yields.                                                   *)

LEMMA OneMessage ==
  ASSUME NEW c \in Conversations, NEW m \in Messages
  PROVE  /\ c \o <<m>> = Append(c, m) /\ c \o <<>> = c
         /\ MessageEventsOf(<<m>>) = <<NewMessage(m)>> /\ MessageEventsOf(<<>>) = <<>>
         /\ <<m>> \in Conversations /\ <<m>> # <<>>
<1>1. c \o <<m>> = Append(c, m) /\ c \o <<>> = c
  BY DEF Conversations
<1>2. DOMAIN <<m>> = 1..1 /\ <<m>>[1] = m /\ DOMAIN <<>> = 1..0
  OBVIOUS
<1>3. MessageEventsOf(<<m>>) = <<NewMessage(m)>>
  <2> DEFINE e == NewMessage(m)
  <2>1. MessageEventsOf(<<m>>) = [i \in 1..1 |-> e]
    BY <1>2 DEF MessageEventsOf
  <2> HIDE DEF e
  <2>2. [i \in 1..1 |-> e] = <<e>>
    OBVIOUS
  <2> QED
    BY <2>1, <2>2 DEF e
<1>4. MessageEventsOf(<<>>) = <<>>
  <2>1. MessageEventsOf(<<>>) = [i \in 1..0 |-> NewMessage(<<>>[i])]
    BY <1>2 DEF MessageEventsOf
  <2>2. [i \in 1..0 |-> NewMessage(<<>>[i])] = <<>>
    OBVIOUS
  <2> QED
    BY <2>1, <2>2
<1> QED
  BY <1>1, <1>3, <1>4 DEF Conversations

LEMMA TheMessages ==
  ASSUME NEW id \in Nat
  PROVE  /\ UserMessage(id) \in Messages /\ UserMessage(id).role = "user"
         /\ AgentMessage(id) \in Messages /\ AgentMessage(id).role = "agent"
         /\ IsInjective(UserMessage(id).calls) /\ IsInjective(AgentMessage(id).calls)
         /\ UserMessage(id) = PlanMessage <=> id = 0
         /\ \A calls \in Seq(Calls) :
               /\ AssistantMessage(id, calls) \in Messages
               /\ AssistantMessage(id, calls).role = "assistant"
               /\ AssistantMessage(id, calls).calls = calls
         /\ \A call \in Calls :
               /\ ToolMessage(call) \in Messages /\ ToolMessage(call).role = "tool"
               /\ ToolMessage(call).calls = <<call>> /\ IsInjective(ToolMessage(call).calls)
<1>1. <<>> \in Seq(Calls) /\ IsInjective(<<>>)
  BY DEF IsInjective
<1>2. \A call \in Calls : <<call>> \in Seq(Calls) /\ IsInjective(<<call>>)
  BY DEF IsInjective
<1> QED
  BY <1>1, <1>2
     DEF PlanMessage, UserMessage, AgentMessage, AssistantMessage, ToolMessage, Message, Messages, Roles

LEMMA PlanIsOfTheUser == PlanMessage \in Messages /\ PlanMessage.role = "user"
BY TheMessages DEF PlanMessage

LEMMA TheEvents ==
  /\ Ensure \in QuietEvents
  /\ Event("extract", <<>>) \in QuietEvents
  /\ \A x \in Conversations :
        /\ InTurn(x) => State(x) \in QuietEvents
        /\ InTurn(x) /\ Summarized(x) /\ Unplanned(x) => Event("compaction", x) \in QuietEvents
  /\ \A m \in Messages :
        m.role # "system" /\ m # PlanMessage /\ IsInjective(m.calls) =>
            /\ NewMessage(m) \in FineEvents
            /\ m.role # "agent" => NewMessage(m) \in QuietEvents
<1>1. <<>> \in Conversations
  BY DEF Conversations
<1>2. \A kind \in EventKinds, x \in Conversations :
         /\ Event(kind, x) \in Events
         /\ Event(kind, x).kind = kind /\ Event(kind, x).messages = x
  BY DEF Event, Events
<1>3. \A kind \in EventKinds, x \in Conversations :
         kind \notin {"message", "compaction", "state"} => Event(kind, x) \in QuietEvents
  BY <1>2 DEF QuietEvents, FineEvents
<1>4. ASSUME NEW x \in Conversations, InTurn(x)
      PROVE  State(x) \in QuietEvents /\ (Summarized(x) /\ Unplanned(x) => Event("compaction", x) \in QuietEvents)
  <2>1. "state" \in EventKinds /\ "compaction" \in EventKinds
    BY DEF EventKinds
  <2>2. Event("state", x) \in QuietEvents
    BY <1>2, <1>4, <2>1 DEF QuietEvents, FineEvents
  <2>3. Summarized(x) /\ Unplanned(x) => Event("compaction", x) \in QuietEvents
    BY <1>2, <1>4, <2>1 DEF QuietEvents, FineEvents
  <2> QED
    BY <2>2, <2>3 DEF State
<1>5. ASSUME NEW m \in Messages, m.role # "system", m # PlanMessage, IsInjective(m.calls)
      PROVE  NewMessage(m) \in FineEvents /\ (m.role # "agent" => NewMessage(m) \in QuietEvents)
  <2> DEFINE x == <<m>>
  <2>1. "message" \in EventKinds /\ x \in Conversations /\ x[1] = m /\ x = <<x[1]>>
    BY DEF EventKinds, Conversations
  <2>2. NewMessage(m) = Event("message", x)
    BY DEF NewMessage
  <2> HIDE DEF x
  <2> QED
    BY <1>2, <1>5, <2>1, <2>2 DEF FineEvents, QuietEvents
<1> QED
  BY <1>1, <1>3, <1>4, <1>5 DEF Ensure, EventKinds

LEMMA SaidCourse ==
  ASSUME NEW c \in Conversations, InTurn(c), NEW m \in Messages, m.role # "tool"
  PROVE  /\ Append(c, m) \in Conversations /\ InTurn(Append(c, m))
         /\ Course(c, <<NewMessage(m)>>, Append(c, m))
<1>1. Append(c, m) \in Conversations /\ InTurn(Append(c, m))
  BY AppendedMessage, SaidInTurn
<1>2. ApplyEvent(c, NewMessage(m)) = Append(c, m)
  BY DEF ApplyEvent, NewMessage, Event
<1> QED
  BY <1>1, <1>2, CourseIsOne

\* An event that only tells of a state, of the file or of an extraction.
LEMMA ToldCourse ==
  ASSUME NEW c \in Conversations, InTurn(c), NEW e, e.kind \notin {"message", "compaction"}
  PROVE  Course(c, <<e>>, c)
<1>1. ApplyEvent(c, e) = c
  BY DEF ApplyEvent
<1> QED
  BY <1>1, CourseIsOne

\* What the mailbox adds.
LEMMA InboundCourse ==
  ASSUME NEW id \in Nat, NEW inbound \in Inbound(id), NEW c \in Conversations, InTurn(c),
         NEW x \in Conversations, InTurn(x)
  PROVE  /\ InboundEvents(inbound, x) \in Seq(FineEvents)
         /\ c \o inbound \in Conversations /\ InTurn(c \o inbound)
         /\ Course(c, InboundEvents(inbound, x), c \o inbound)
         /\ Marked(c) \/ InboundEvents(inbound, x) \notin Seq(QuietEvents) => Marked(c \o inbound)
         /\ Len(inbound) \in Nat
         /\ \A q \in Conversations : RestoredMessages(c) = Held(q)
                => RestoredMessages(c \o inbound) = Held(q \o inbound)
<1> DEFINE m == AgentMessage(id)
<1>1. inbound = <<>> \/ inbound = <<m>>
  BY DEF Inbound
<1>2. /\ m \in Messages /\ m.role = "agent" /\ m # PlanMessage /\ IsInjective(m.calls)
  <2>1. m \in Messages /\ m.role = "agent" /\ IsInjective(m.calls)
    BY TheMessages
  <2> QED
    BY <2>1, PlanIsOfTheUser
<1> HIDE DEF m
<1>3. CASE inbound = <<>>
  <2>1. InboundEvents(inbound, x) = <<>> /\ \A q \in Conversations : q \o inbound = q
    BY <1>2, <1>3, OneMessage DEF InboundEvents
  <2>2. Course(c, <<>>, c)
    BY CourseIsNothing
  <2>3. <<>> \in Seq(FineEvents) /\ <<>> \in Seq(QuietEvents) /\ Len(<<>>) = 0
    OBVIOUS
  <2> QED
    BY <1>3, <2>1, <2>2, <2>3
<1>4. CASE inbound = <<m>>
  <2>1. /\ InboundEvents(inbound, x) = <<State(x)>> \o <<NewMessage(m)>>
        /\ \A q \in Conversations : q \o inbound = Append(q, m)
    BY <1>2, <1>4, OneMessage DEF InboundEvents
  <2>2. State(x) \in FineEvents /\ NewMessage(m) \in FineEvents /\ State(x).kind = "state"
    BY <1>2, TheEvents DEF QuietEvents, State, Event
  <2>3. /\ <<State(x)>> \in Seq(FineEvents) /\ <<NewMessage(m)>> \in Seq(FineEvents)
    BY <2>2
  <2>4. InboundEvents(inbound, x) \in Seq(FineEvents)
    BY <2>1, <2>3, Joined
  <2>5. /\ Append(c, m) \in Conversations /\ InTurn(Append(c, m))
        /\ Course(c, <<NewMessage(m)>>, Append(c, m))
    BY <1>2, SaidCourse
  <2>6. Course(c, <<State(x)>>, c)
    BY <2>2, ToldCourse
  <2>7. Course(c, <<State(x)>> \o <<NewMessage(m)>>, Append(c, m))
    BY <2>3, <2>5, <2>6, CoursesJoin
  <2>8. Marked(Append(c, m))
    BY <1>2, MarkedGrows
  <2>9. \A q \in Conversations : RestoredMessages(c) = Held(q)
            => RestoredMessages(Append(c, m)) = Held(Append(q, m))
    <3>1. RestoredMessages(Append(c, m)) = Append(RestoredMessages(c), RestoredMessage(m))
      BY <1>2, RestoredAppend
    <3>2. \A q \in Conversations : Held(Append(q, m)) = Append(Held(q), RestoredMessage(m))
      BY <1>2, HeldAppend
    <3> QED
      BY <3>1, <3>2
  <2>10. Len(inbound) \in Nat
    BY <1>4
  <2> QED
    BY <2>1, <2>4, <2>5, <2>7, <2>8, <2>9, <2>10
<1> QED
  BY <1>1, <1>3, <1>4

\* A run goes on with what the loop has yielded.
LEMMA SessionYields ==
  ASSUME SessionInv, NEW before, Generating(before),
         NEW events \in Seq(FineEvents), NEW at \in {"loop", "inbox", "model", "end"},
         NEW messages \in Conversations, InTurn(messages), NEW last,
         Course(Content(lines), events, last),
         ~diverged => RestoredMessages(last) = Held(messages),
         Marked(run.query) \/ events \notin Seq(QuietEvents) => Marked(messages),
         at = "model" => events # <<>> /\ events[Len(events)] = State(messages),
         Yield(events, at, messages), used' \in [messages : Nat, errors : Nat, crashes : Nat]
  PROVE  SessionInv'
<1>1. /\ run' = [run EXCEPT !.todo = events, !.at = at, !.query = messages]
      /\ UNCHANGED fileVars /\ UNCHANGED writeVars
      /\ UNCHANGED <<screen, resume, extraction, phase, promised, diverged>>
  BY DEF Yield
<1>2. /\ run # NoState /\ run \in Runs /\ screen # NoState
      /\ ~Busy("run") /\ AheadIs(Content(lines)) /\ InTurn(run.latest)
      /\ ~diverged => Begun /\ (AgentComes => Marked(run.query))
  BY Generated
<1>3. /\ run' \in Runs /\ run' # NoState
      /\ run'.todo = events /\ run'.at = at /\ run'.query = messages /\ run'.latest = run.latest
  <2>1. events \in Seq(Events)
    <3>1. FineEvents \subseteq Events
      BY DEF FineEvents
    <3> QED
      BY <3>1
  <2>2. run' \in Runs
    BY <1>1, <1>2, <2>1 DEF Runs
  <2> QED
    BY <1>1, <1>2, <2>2, RunIsNoState DEF Runs
<1>4. /\ FileInv'
      /\ UNCHANGED <<Begun, Harmless, AgentLogged, AgentComes>>
      /\ Content(lines)' = Content(lines)
      /\ \A c : AheadIs(c) => AheadIs(c)'
      /\ \A w : Busy(w)' <=> Busy(w)
      /\ UNCHANGED job
  BY <1>1, FileStays DEF SessionInv
<1>5. Rest' = events
  BY <1>2, <1>3, <1>4 DEF Rest
<1>6. AppTypes'
  BY <1>1, <1>2, <1>3 DEF SessionInv, AppTypes
<1>7. WritersAreKnown'
  BY <1>1, <1>2, <1>4 DEF SessionInv, WritersAreKnown
<1>8. AtModel'
  BY <1>3, <1>5 DEF AtModel
<1>9. RunCourse'
  <2>1. PICK ahead : ahead = Content(lines)
    OBVIOUS
  <2>2. AheadIs(ahead)' /\ Course(ahead, Rest', last)
    BY <1>2, <1>4, <1>5, <2>1
  <2>3. diverged' \/ RestoredMessages(last) = Held(run.query)'
    BY <1>1, <1>3 DEF Held, Logged
  <2> QED
    BY <2>2, <2>3 DEF RunCourse
<1>10. IdleAgrees' /\ TailAgrees' /\ ReadIsCurrent'
  BY <1>1, <1>2, <1>3, <1>4 DEF SessionInv, IdleAgrees, TailAgrees, ReadIsCurrent, IsCurrent
<1>11. RunIsStarted' /\ RunIsMarked'
  BY <1>1, <1>2, <1>3, <1>4 DEF RunIsStarted, RunIsMarked
<1> QED
  BY <1>4, <1>6, <1>7, <1>8, <1>9, <1>10, <1>11 DEF SessionInv

LEMMA NextTurnKeeps ==
  ASSUME SessionInv, NextTurn
  PROVE  SessionInv'
<1>1. PICK at0 : Generating(at0)
  BY DEF NextTurn
<1>2. PICK inbound \in Inbound(FreshId), compacting \in BOOLEAN :
          LET messages  == run.query \o inbound
              compacted == IF compacting THEN Compact(messages) ELSE messages
          IN  /\ compacting => Compactable(messages)
              /\ used' = [used EXCEPT !.messages = @ + Len(inbound)]
              /\ Yield(InboundEvents(inbound, messages)
                            \o (IF compacting THEN <<Event("compaction", compacted)>> ELSE <<>>)
                            \o <<State(compacted)>>,
                       "model", compacted)
  BY DEF NextTurn
<1> DEFINE q == run.query
           c == Content(lines)
           messages == q \o inbound
           compacted == IF compacting THEN Compact(messages) ELSE messages
           mail == InboundEvents(inbound, messages)
           shrink == IF compacting THEN <<Event("compaction", compacted)>> ELSE <<>>
           told == <<State(compacted)>>
           mailed == c \o inbound
           last == IF compacting THEN compacted ELSE mailed
<1>3. /\ q \in Conversations /\ InTurn(q) /\ c \in Conversations /\ InTurn(c)
      /\ ~diverged => RestoredMessages(c) = Held(q)
  BY <1>1, Generated
<1>4. FreshId \in Nat /\ used \in [messages : Nat, errors : Nat, crashes : Nat]
  BY DEF SessionInv, AppTypes, FreshId
<1> HIDE DEF c, q
<1>5. /\ messages \in Conversations /\ InTurn(messages) /\ Len(inbound) \in Nat
  BY <1>3, <1>4, InboundCourse
<1> HIDE DEF messages
<1>6. /\ mail \in Seq(FineEvents) /\ Course(c, mail, mailed)
      /\ mailed \in Conversations /\ InTurn(mailed)
  BY <1>3, <1>4, <1>5, InboundCourse
<1>7. /\ ~diverged => RestoredMessages(mailed) = Held(messages)
      /\ Marked(q) \/ mail \notin Seq(QuietEvents) => Marked(messages)
  BY <1>3, <1>4, <1>5, InboundCourse DEF messages
<1> HIDE DEF mail, mailed
<1>8. /\ compacted \in Conversations /\ InTurn(compacted)
      /\ Marked(messages) => Marked(compacted)
      /\ compacting => Summarized(compacted) /\ Unplanned(compacted)
  BY <1>2, <1>5, CompactKeeps DEF messages, q
<1> HIDE DEF compacted
<1>9. shrink \in Seq(QuietEvents) /\ Course(mailed, shrink, last) /\ last \in Conversations /\ InTurn(last)
  <2>1. CASE compacting
    <3> DEFINE e == Event("compaction", compacted)
    <3>1. e \in QuietEvents /\ ApplyEvent(mailed, e) = compacted
      BY <1>8, <2>1, TheEvents DEF ApplyEvent, Event
    <3> HIDE DEF e
    <3>2. Course(mailed, <<e>>, compacted) /\ <<e>> \in Seq(QuietEvents)
      BY <1>6, <1>8, <3>1, CourseIsOne
    <3> QED
      BY <1>8, <2>1, <3>2 DEF e
  <2>2. CASE ~compacting
    <3>1. Course(mailed, <<>>, mailed) /\ <<>> \in Seq(QuietEvents)
      BY <1>6, CourseIsNothing
    <3> QED
      BY <1>6, <2>2, <3>1
  <2> QED
    BY <2>1, <2>2
<1>10. ~diverged => RestoredMessages(last) = Held(compacted)
  <2>1. CASE compacting
    BY <1>8, <2>1, HeldIs
  <2>2. CASE ~compacting
    BY <1>7, <2>2 DEF compacted
  <2> QED
    BY <2>1, <2>2
<1> HIDE DEF shrink, last
<1>11. told \in Seq(QuietEvents) /\ Course(last, told, last) /\ Len(told) = 1 /\ told[1] = State(compacted)
  <2>1. State(compacted) \in QuietEvents /\ State(compacted).kind = "state"
    BY <1>8, TheEvents DEF State, Event
  <2> QED
    BY <1>9, <2>1, ToldCourse
<1> HIDE DEF told
<1>12. QuietEvents \subseteq FineEvents
  BY DEF QuietEvents
<1> DEFINE events == (mail \o shrink) \o told
<1>13. shrink \in Seq(FineEvents) /\ told \in Seq(FineEvents)
  BY <1>9, <1>11, <1>12
<1>14. /\ mail \o shrink \in Seq(FineEvents) /\ Course(c, mail \o shrink, last)
  BY <1>6, <1>9, <1>13, CoursesJoin, Joined
<1>15. events \in Seq(FineEvents) /\ Course(c, events, last)
  BY <1>11, <1>13, <1>14, CoursesJoin, Joined
<1>16. events # <<>> /\ events[Len(events)] = State(compacted)
  <2> DEFINE s == mail \o shrink
  <2>1. /\ Len(s \o told) = Len(s) + 1 /\ (s \o told)[Len(s) + 1] = told[1] /\ Len(s) \in Nat
    <3>1. s \in Seq(FineEvents)
      BY <1>14
    <3> HIDE DEF s
    <3>2. /\ Len(s \o told) = Len(s) + Len(told) /\ Len(s) \in Nat
          /\ \A i \in 1..Len(told) : (s \o told)[Len(s) + i] = told[i]
      BY <1>13, <3>1, Joined
    <3>3. 1 \in 1..Len(told)
      BY <1>11
    <3> QED
      BY <1>11, <3>2, <3>3
  <2>2. s \o told # <<>>
    <3>1. Len(<<>>) = 0
      OBVIOUS
    <3> HIDE DEF s
    <3> QED
      BY <2>1, <3>1
  <2> QED
    BY <1>11, <2>1, <2>2
<1>17. events \notin Seq(QuietEvents) => mail \notin Seq(QuietEvents)
  BY <1>9, <1>11, Joined
<1>18. Marked(q) \/ events \notin Seq(QuietEvents) => Marked(compacted)
  BY <1>7, <1>8, <1>17
<1>19. /\ Yield(events, "model", compacted)
       /\ used' = [used EXCEPT !.messages = @ + Len(inbound)]
  BY <1>2 DEF q, messages, compacted, mail, shrink, told
<1>20. used' \in [messages : Nat, errors : Nat, crashes : Nat]
  BY <1>4, <1>5, <1>19
<1> HIDE DEF events
<1> QED
  BY <1>1, <1>8, <1>10, <1>15, <1>16, <1>18, <1>19, <1>20, SessionYields DEF q, c

LEMMA MaxTurnsKeeps ==
  ASSUME SessionInv, MaxTurns
  PROVE  SessionInv'
<1> DEFINE q == run.query
           c == Content(lines)
           events == <<State(q)>>
<1>1. Generating("loop") /\ Yield(events, "end", q) /\ used' = used
  BY DEF MaxTurns
<1>2. /\ q \in Conversations /\ InTurn(q) /\ c \in Conversations /\ InTurn(c)
      /\ ~diverged => RestoredMessages(c) = Held(q)
  BY <1>1, Generated
<1>3. used' \in [messages : Nat, errors : Nat, crashes : Nat]
  BY <1>1 DEF SessionInv, AppTypes
<1>4. State(q) \in QuietEvents /\ State(q) \in FineEvents /\ State(q).kind = "state"
  BY <1>2, TheEvents DEF QuietEvents, State, Event
<1>5. events \in Seq(QuietEvents) /\ events \in Seq(FineEvents) /\ Course(c, events, c)
  BY <1>2, <1>4, ToldCourse
<1> HIDE DEF events, c, q
<1> QED
  BY <1>1, <1>2, <1>3, <1>5, SessionYields DEF c, q

LEMMA AnswerKeeps ==
  ASSUME SessionInv, Answer
  PROVE  SessionInv'
<1> DEFINE q == run.query
           c == Content(lines)
           answer == AssistantMessage(FreshId, <<>>)
<1>1. PICK inbound \in Inbound(FreshId + 1) :
          /\ used' = [used EXCEPT !.messages = @ + 1 + Len(inbound)]
          /\ \/ /\ inbound # <<>>
                /\ Yield(<<NewMessage(answer)>> \o InboundEvents(inbound, q \o <<answer>> \o inbound),
                         "loop", q \o <<answer>> \o inbound)
             \/ /\ inbound = <<>>
                /\ \E extract \in {<<>>, <<Event("extract", <<>>)>>} :
                      Yield(<<NewMessage(answer), State(q \o <<answer>> \o inbound)>> \o extract,
                            "end", q \o <<answer>> \o inbound)
  BY DEF Answer
<1>2. Generating("model")
  BY DEF Answer
<1>3. /\ q \in Conversations /\ InTurn(q) /\ c \in Conversations /\ InTurn(c)
      /\ ~diverged => RestoredMessages(c) = Held(q)
  BY <1>2, Generated
<1>4. FreshId \in Nat /\ FreshId + 1 \in Nat /\ used \in [messages : Nat, errors : Nat, crashes : Nat]
  BY DEF SessionInv, AppTypes, FreshId
<1>5. /\ answer \in Messages /\ answer.role = "assistant" /\ answer # PlanMessage
      /\ IsInjective(answer.calls)
  <2>1. <<>> \in Seq(Calls) /\ IsInjective(<<>>)
    BY DEF IsInjective
  <2>2. \A calls \in Seq(Calls) :
           /\ AssistantMessage(FreshId, calls) \in Messages
           /\ AssistantMessage(FreshId, calls).role = "assistant"
           /\ AssistantMessage(FreshId, calls).calls = calls
    BY <1>4, TheMessages
  <2> QED
    BY <2>1, <2>2, PlanIsOfTheUser
<1> DEFINE q1 == Append(q, answer)
           c1 == Append(c, answer)
           said == <<NewMessage(answer)>>
<1> HIDE DEF q, c, answer
<1>6. /\ q1 \in Conversations /\ InTurn(q1) /\ c1 \in Conversations /\ InTurn(c1)
      /\ Course(c, said, c1) /\ q \o <<answer>> = q1
      /\ Marked(q) => Marked(q1)
  BY <1>3, <1>5, SaidCourse, OneMessage, MarkedGrows
<1>7. ~diverged => RestoredMessages(c1) = Held(q1)
  BY <1>3, <1>5, RestoredAppend, HeldAppend
<1>8. said \in Seq(QuietEvents) /\ said \in Seq(FineEvents)
  <2>1. NewMessage(answer) \in QuietEvents /\ NewMessage(answer) \in FineEvents
    BY <1>5, TheEvents
  <2> QED
    BY <2>1
<1> HIDE DEF said, q1, c1
<1>9. CASE inbound # <<>>
  <2> DEFINE messages == q1 \o inbound
             mail == InboundEvents(inbound, messages)
  <2>1. /\ messages \in Conversations /\ InTurn(messages) /\ Len(inbound) \in Nat
        /\ ~diverged => RestoredMessages(c1 \o inbound) = Held(messages)
    BY <1>4, <1>6, <1>7, InboundCourse
  <2>2. Marked(q1) \/ mail \notin Seq(QuietEvents) => Marked(messages)
    <3> HIDE DEF messages
    <3>1. Marked(q1) \/ mail \notin Seq(QuietEvents) => Marked(q1 \o inbound)
      BY <1>4, <1>6, <2>1, InboundCourse
    <3> QED
      BY <3>1 DEF messages
  <2> HIDE DEF messages
  <2>3. mail \in Seq(FineEvents) /\ Course(c1, mail, c1 \o inbound)
    BY <1>4, <1>6, <2>1, InboundCourse
  <2> HIDE DEF mail
  <2> DEFINE events == said \o mail
  <2>4. events \in Seq(FineEvents) /\ Course(c, events, c1 \o inbound)
    BY <1>6, <1>8, <2>3, CoursesJoin, Joined
  <2>5. events \notin Seq(QuietEvents) => mail \notin Seq(QuietEvents)
    BY <1>8, Joined
  <2>6. Marked(q) \/ events \notin Seq(QuietEvents) => Marked(messages)
    BY <1>6, <2>2, <2>5
  <2>7. Yield(events, "loop", messages) /\ used' = [used EXCEPT !.messages = @ + 1 + Len(inbound)]
    BY <1>1, <1>6, <1>9 DEF messages, mail, said
  <2>8. used' \in [messages : Nat, errors : Nat, crashes : Nat]
    BY <1>4, <2>1, <2>7
  <2> HIDE DEF events
  <2> QED
    BY <1>2, <2>1, <2>4, <2>6, <2>7, <2>8, SessionYields DEF q, c
<1>10. CASE inbound = <<>>
  <2>1. q \o <<answer>> \o inbound = q1 /\ Len(inbound) = 0
    BY <1>6, <1>10 DEF Conversations
  <2>2. PICK extract \in {<<>>, <<Event("extract", <<>>)>>} :
           Yield(<<NewMessage(answer), State(q1)>> \o extract, "end", q1)
    BY <1>1, <1>10, <2>1
  <2> DEFINE told == <<State(q1)>>
             events == <<NewMessage(answer), State(q1)>> \o extract
  <2>3. told \in Seq(QuietEvents) /\ Course(c1, told, c1)
    <3>1. State(q1) \in QuietEvents /\ State(q1).kind = "state"
      BY <1>6, TheEvents DEF State, Event
    <3> QED
      BY <1>6, <3>1, ToldCourse
  <2>4. extract \in Seq(QuietEvents) /\ Course(c1, extract, c1)
    <3> DEFINE e == Event("extract", <<>>)
    <3>1. e \in QuietEvents /\ e.kind = "extract"
      BY TheEvents DEF Event
    <3>2. extract = <<>> \/ extract = <<e>>
      BY <2>2
    <3> HIDE DEF e
    <3>3. <<e>> \in Seq(QuietEvents) /\ <<>> \in Seq(QuietEvents) /\ Course(c1, <<e>>, c1) /\ Course(c1, <<>>, c1)
      BY <1>6, <3>1, ToldCourse, CourseIsNothing
    <3> QED
      BY <3>2, <3>3
  <2>5. events = (said \o told) \o extract
    <3>1. <<NewMessage(answer), State(q1)>> = <<NewMessage(answer)>> \o <<State(q1)>>
      OBVIOUS
    <3> QED
      BY <3>1 DEF said
  <2> HIDE DEF events, told
  <2>6. events \in Seq(QuietEvents) /\ Course(c, events, c1)
    <3>1. said \o told \in Seq(QuietEvents) /\ Course(c, said \o told, c1)
      BY <1>6, <1>8, <2>3, CoursesJoin, Joined
    <3> QED
      BY <2>4, <2>5, <3>1, CoursesJoin, Joined
  <2>7. events \in Seq(FineEvents)
    <3>1. QuietEvents \subseteq FineEvents
      BY DEF QuietEvents
    <3> QED
      BY <2>6, <3>1
  <2>8. used' \in [messages : Nat, errors : Nat, crashes : Nat]
    BY <1>1, <1>4, <2>1
  <2>9. Yield(events, "end", q1)
    BY <2>2 DEF events
  <2> QED
    BY <1>2, <1>6, <1>7, <2>6, <2>7, <2>8, <2>9, SessionYields DEF q, c
<1> QED
  BY <1>9, <1>10

\* A request and the two results that follow it.
LEMMA CalledCourse ==
  ASSUME NEW r \in Messages, r.role = "assistant", Len(r.calls) = 2,
         NEW t1 \in Messages, t1.role = "tool", t1.calls = <<r.calls[1]>>,
         NEW t2 \in Messages, t2.role = "tool", t2.calls = <<r.calls[2]>>,
         NEW c \in Conversations, InTurn(c)
  PROVE  LET c1 == Append(c, r)
             c2 == Append(c1, t1)
             c3 == Append(c2, t2)
         IN
         /\ c1 \in Conversations /\ c2 \in Conversations /\ c3 \in Conversations
         /\ InTurn(c1) /\ InTurn(c2) /\ InTurn(c3)
         /\ Course(c, <<NewMessage(r)>>, c1)
         /\ Course(c1, <<NewMessage(t1)>>, c2)
         /\ Course(c2, <<NewMessage(t2)>>, c3)
         /\ Marked(c) => Marked(c3)
<1> DEFINE n == Len(c) + 1
           calls == r.calls
           c1 == Append(c, r)
           c2 == Append(c1, t1)
           c3 == Append(c2, t2)
<1>0. c1 = Append(c, r) /\ c2 = Append(c1, t1) /\ c3 = Append(c2, t2) /\ calls = r.calls
  OBVIOUS
<1> HIDE DEF c1, c2, c3, calls
<1>1. /\ c1 \in Conversations /\ Len(c1) = n /\ n \in Nat /\ n \in 1..n /\ c1[n] = r
      /\ InTurn(c1) /\ Course(c, <<NewMessage(r)>>, c1)
      /\ Marked(c) => Marked(c1)
  <2>1. c1 \in Conversations /\ Len(c1) = n /\ Len(c) \in Nat /\ c1[n] = r
    BY <1>0, AppendedMessage
  <2>2. InTurn(c1) /\ Course(c, <<NewMessage(r)>>, c1)
    BY <1>0, SaidCourse
  <2>3. Marked(c) => Marked(c1)
    BY <1>0, MarkedGrows
  <2>4. n \in Nat /\ n \in 1..n
    BY <2>1
  <2> QED
    BY <2>1, <2>2, <2>3, <2>4
<1>2. calls[1] \in ToSet(calls) /\ calls[2] \in ToSet(calls)
  <2>1. calls \in Seq(Calls) /\ Len(calls) = 2
    BY <1>0 DEF Messages
  <2> QED
    BY <2>1 DEF ToSet
<1>3. t1.calls[1] \in ToSet(r.calls) /\ t2.calls[1] \in ToSet(r.calls)
  BY <1>0, <1>2
<1> HIDE DEF n
<1>4. /\ c2 \in Conversations /\ Len(c2) = n + 1 /\ c2[n + 1] = t1 /\ c2[n] = r
      /\ Marked(c1) => Marked(c2)
  <2>1. /\ c2 \in Conversations /\ Len(c2) = Len(c1) + 1 /\ c2[Len(c1) + 1] = t1
        /\ \A i \in 1..Len(c1) : c2[i] = c1[i]
    <3>1. c1 \in Conversations /\ c2 = Append(c1, t1)
      BY <1>0, <1>1
    <3> QED
      BY <3>1, AppendedMessage
  <2>2. Marked(c1) => Marked(c2)
    BY <1>0, <1>1, MarkedGrows
  <2> QED
    BY <1>1, <2>1, <2>2
<1>5. InTurn(c2)
  <2>1. \A k \in n..Len(c1) : ~BeginsTurn(c1[k])
    <3>1. \A k \in n..Len(c1) : k = n
      BY <1>1
    <3> QED
      BY <1>1, <3>1 DEF BeginsTurn
  <2> QED
    BY <1>0, <1>1, <1>3, <2>1, AnsweredInTurn
<1>6. /\ c3 \in Conversations
      /\ Marked(c2) => Marked(c3)
  BY <1>0, <1>4, AppendedMessage, MarkedGrows
<1>7. InTurn(c3)
  <2>1. \A k \in n..Len(c2) : ~BeginsTurn(c2[k])
    <3>1. \A k \in n..Len(c2) : k = n \/ k = n + 1
      BY <1>1, <1>4
    <3> QED
      BY <1>4, <3>1 DEF BeginsTurn
  <2>2. n \in 1..Len(c2)
    BY <1>1, <1>4
  <2> QED
    BY <1>0, <1>3, <1>4, <1>5, <2>1, <2>2, AnsweredInTurn
<1>8. /\ ApplyEvent(c1, NewMessage(t1)) = c2 /\ ApplyEvent(c2, NewMessage(t2)) = c3
  BY <1>0 DEF ApplyEvent, NewMessage, Event
<1>9. Course(c1, <<NewMessage(t1)>>, c2) /\ Course(c2, <<NewMessage(t2)>>, c3)
  BY <1>1, <1>4, <1>5, <1>6, <1>7, <1>8, CourseIsOne
<1> QED
  BY <1>1, <1>4, <1>5, <1>6, <1>7, <1>9 DEF c1, c2, c3

LEMMA OneAndOne ==
  ASSUME NEW S, NEW x \in Seq(S), NEW y \in Seq(S), Len(x) = 1, Len(y) = 1
  PROVE  x \o y \in Seq(S) /\ Len(x \o y) = 2 /\ (x \o y)[1] = x[1] /\ (x \o y)[2] = y[1]
<1>1. x \o y \in Seq(S) /\ Len(x \o y) = 2
  OBVIOUS
<1>2. (x \o y)[1] = x[1]
  OBVIOUS
<1>3. (x \o y)[2] = y[1]
  <2>1. 1 \in 1..Len(y)
    OBVIOUS
  <2>2. (x \o y)[Len(x) + 1] = y[1]
    BY <2>1, Joined
  <2>3. Len(x) + 1 = 2
    OBVIOUS
  <2> QED
    BY <2>2, <2>3, Zenon
<1> QED
  BY <1>1, <1>2, <1>3

LEMMA TwoAre ==
  ASSUME NEW S, NEW a \in S, NEW b \in S
  PROVE  <<a, b>> = <<a>> \o <<b>>
<1> DEFINE x == <<a>>
           y == <<b>>
           s == x \o y
<1>1. x \in Seq(S) /\ Len(x) = 1 /\ x[1] = a
  OBVIOUS
<1>2. y \in Seq(S) /\ Len(y) = 1 /\ y[1] = b
  OBVIOUS
<1> HIDE DEF x, y
<1>3. s \in Seq(S) /\ Len(s) = 2 /\ s[1] = a /\ s[2] = b
  BY <1>1, <1>2, OneAndOne
<1> HIDE DEF s
<1>4. s = <<a, b>>
  BY <1>3
<1> QED
  BY <1>4 DEF s, x, y

LEMMA CallToolsKeeps ==
  ASSUME SessionInv, CallTools
  PROVE  SessionInv'
<1> DEFINE q == run.query
           c == Content(lines)
           calls == <<<<FreshId, 1>>, <<FreshId, 2>>>>
           r == AssistantMessage(FreshId, calls)
           t1 == ToolMessage(calls[1])
           t2 == ToolMessage(calls[2])
           After(n) == q \o <<r>> \o [i \in 1..n |-> ToolMessage(calls[i])]
<1>1. /\ Generating("model") /\ used' = [used EXCEPT !["messages"] = @ + 1]
      /\ Yield(<<NewMessage(r), NewMessage(t1), State(After(1)), NewMessage(t2), State(After(2))>>,
               "loop", After(2))
  BY DEF CallTools, Spend
<1>2. /\ q \in Conversations /\ InTurn(q) /\ c \in Conversations /\ InTurn(c)
      /\ ~diverged => RestoredMessages(c) = Held(q)
  BY <1>1, Generated
<1>3. FreshId \in Nat /\ used' \in [messages : Nat, errors : Nat, crashes : Nat]
  <2>1. used \in [messages : Nat, errors : Nat, crashes : Nat]
    BY DEF SessionInv, AppTypes
  <2>2. used' = [used EXCEPT !.messages = @ + 1]
    BY <1>1
  <2> QED
    BY <2>1, <2>2 DEF FreshId
<1>4. /\ calls \in Seq(Calls) /\ Len(calls) = 2 /\ calls[1] \in Calls /\ calls[2] \in Calls
      /\ IsInjective(calls)
  <2> DEFINE f == FreshId
             x == <<f, 1>>
             y == <<f, 2>>
  <2>1. x \in Calls /\ y \in Calls /\ x # y
    BY <1>3 DEF Calls
  <2> HIDE DEF x, y
  <2>2. /\ <<x, y>> \in Seq(Calls) /\ Len(<<x, y>>) = 2 /\ <<x, y>>[1] = x /\ <<x, y>>[2] = y
        /\ DOMAIN <<x, y>> = {1, 2}
    BY <2>1
  <2>3. IsInjective(<<x, y>>)
    BY <2>1, <2>2 DEF IsInjective
  <2> QED
    BY <2>1, <2>2, <2>3 DEF x, y
<1> HIDE DEF calls
<1>5. /\ r \in Messages /\ r.role = "assistant" /\ r.calls = calls
      /\ t1 \in Messages /\ t1.role = "tool" /\ t1.calls = <<calls[1]>> /\ IsInjective(t1.calls)
      /\ t2 \in Messages /\ t2.role = "tool" /\ t2.calls = <<calls[2]>> /\ IsInjective(t2.calls)
  BY <1>3, <1>4, TheMessages
<1>22. r # PlanMessage /\ t1 # PlanMessage /\ t2 # PlanMessage
  BY <1>5, PlanIsOfTheUser
<1>6. /\ [i \in 1..1 |-> ToolMessage(calls[i])] = <<t1>>
      /\ [i \in 1..2 |-> ToolMessage(calls[i])] = <<t1, t2>>
  <2>1. \A i \in 1..2 : i = 1 \/ i = 2
    OBVIOUS
  <2>2. [i \in 1..1 |-> ToolMessage(calls[i])] = [i \in 1..1 |-> t1]
    OBVIOUS
  <2>3. [i \in 1..2 |-> ToolMessage(calls[i])] = [i \in 1..2 |-> IF i = 1 THEN t1 ELSE t2]
    BY <2>1
  <2> HIDE DEF t1, t2
  <2>4. [i \in 1..1 |-> t1] = <<t1>> /\ [i \in 1..2 |-> IF i = 1 THEN t1 ELSE t2] = <<t1, t2>>
    OBVIOUS
  <2> QED
    BY <2>2, <2>3, <2>4
<1> HIDE DEF r, t1, t2, q, c
<1> DEFINE q1 == Append(q, r)
           q2 == Append(q1, t1)
           q3 == Append(q2, t2)
           c1 == Append(c, r)
           c2 == Append(c1, t1)
           c3 == Append(c2, t2)
<1>7. /\ q1 \in Conversations /\ q2 \in Conversations /\ q3 \in Conversations
      /\ InTurn(q1) /\ InTurn(q2) /\ InTurn(q3)
      /\ Marked(q) => Marked(q3)
  BY <1>2, <1>4, <1>5, CalledCourse
<1>8. /\ c1 \in Conversations /\ c2 \in Conversations /\ c3 \in Conversations
      /\ InTurn(c1) /\ InTurn(c2) /\ InTurn(c3)
      /\ Course(c, <<NewMessage(r)>>, c1)
      /\ Course(c1, <<NewMessage(t1)>>, c2)
      /\ Course(c2, <<NewMessage(t2)>>, c3)
  BY <1>2, <1>4, <1>5, CalledCourse
<1>9. After(1) = q2 /\ After(2) = q3
  <2>1. q \o <<r>> = q1 /\ q1 \o <<t1>> = q2
    BY <1>2, <1>5, <1>7, OneMessage
  <2>2. q1 \o <<t1, t2>> = Append(Append(q1, t1), t2)
    BY <1>5, <1>7 DEF Conversations
  <2> QED
    BY <1>6, <1>7, <2>1, <2>2
<1>10. ~diverged => RestoredMessages(c3) = Held(q3)
  <2> SUFFICES ASSUME ~diverged PROVE RestoredMessages(c3) = Held(q3)
    OBVIOUS
  <2>1. RestoredMessages(c1) = Held(q1)
    BY <1>2, <1>5, <1>22, RestoredAppend, HeldAppend
  <2> HIDE DEF c1, q1
  <2>2. RestoredMessages(c2) = Held(q2)
    <3>1. RestoredMessages(c2) = Append(RestoredMessages(c1), RestoredMessage(t1))
      BY <1>5, <1>8, RestoredAppend DEF c2
    <3>2. Held(q2) = Append(Held(q1), RestoredMessage(t1))
      BY <1>5, <1>7, <1>22, HeldAppend DEF q2
    <3> QED
      BY <2>1, <3>1, <3>2
  <2> HIDE DEF c2, q2
  <2>3. RestoredMessages(c3) = Append(RestoredMessages(c2), RestoredMessage(t2))
    BY <1>5, <1>8, RestoredAppend DEF c3
  <2>4. Held(q3) = Append(Held(q2), RestoredMessage(t2))
    BY <1>5, <1>7, <1>22, HeldAppend DEF q3
  <2> QED
    BY <2>2, <2>3, <2>4
<1> HIDE DEF q1, q2, q3, c1, c2, c3
<1> DEFINE a1 == NewMessage(r)
           a2 == NewMessage(t1)
           a3 == State(q2)
           a4 == NewMessage(t2)
           a5 == State(q3)
           events == <<a1, a2, a3, a4, a5>>
<1>11. /\ a1 \in QuietEvents /\ a2 \in QuietEvents /\ a3 \in QuietEvents
       /\ a4 \in QuietEvents /\ a5 \in QuietEvents
       /\ a3.kind = "state" /\ a5.kind = "state"
  BY <1>4, <1>5, <1>7, <1>22, TheEvents DEF State, Event
<1>12. Yield(events, "loop", q3)
  BY <1>1, <1>9
<1>13. Course(c2, <<a3>>, c2) /\ Course(c3, <<a5>>, c3)
  BY <1>8, <1>11, ToldCourse
<1>14. Course(c, <<a1>>, c1) /\ Course(c1, <<a2>>, c2) /\ Course(c2, <<a4>>, c3)
  BY <1>8
<1> HIDE DEF a1, a2, a3, a4, a5
<1>15. /\ <<a1>> \in Seq(QuietEvents) /\ <<a2>> \in Seq(QuietEvents) /\ <<a3>> \in Seq(QuietEvents)
       /\ <<a4>> \in Seq(QuietEvents) /\ <<a5>> \in Seq(QuietEvents)
  BY <1>11
<1>16. <<a1>> \o <<a2>> \in Seq(QuietEvents) /\ Course(c, <<a1>> \o <<a2>>, c2)
  BY <1>14, <1>15, CoursesJoin, Joined
<1>17. (<<a1>> \o <<a2>>) \o <<a3>> \in Seq(QuietEvents) /\ Course(c, (<<a1>> \o <<a2>>) \o <<a3>>, c2)
  BY <1>13, <1>15, <1>16, CoursesJoin, Joined
<1>18. /\ ((<<a1>> \o <<a2>>) \o <<a3>>) \o <<a4>> \in Seq(QuietEvents)
       /\ Course(c, ((<<a1>> \o <<a2>>) \o <<a3>>) \o <<a4>>, c3)
  BY <1>14, <1>15, <1>17, CoursesJoin, Joined
<1>19. /\ (((<<a1>> \o <<a2>>) \o <<a3>>) \o <<a4>>) \o <<a5>> \in Seq(QuietEvents)
       /\ Course(c, (((<<a1>> \o <<a2>>) \o <<a3>>) \o <<a4>>) \o <<a5>>, c3)
  BY <1>13, <1>15, <1>18, CoursesJoin, Joined
<1>20. events \in Seq(QuietEvents) /\ Course(c, events, c3)
  <2>1. events = (((<<a1>> \o <<a2>>) \o <<a3>>) \o <<a4>>) \o <<a5>>
    <3>1. <<a1, a2>> = <<a1>> \o <<a2>>
      BY <1>11, TwoAre
    <3>2. <<a1, a2, a3>> = <<a1, a2>> \o <<a3>>
      OBVIOUS
    <3>3. <<a1, a2, a3, a4>> = <<a1, a2, a3>> \o <<a4>>
      OBVIOUS
    <3>4. <<a1, a2, a3, a4, a5>> = <<a1, a2, a3, a4>> \o <<a5>>
      OBVIOUS
    <3> QED
      BY <3>1, <3>2, <3>3, <3>4, Zenon
  <2> QED
    BY <1>19, <2>1
<1> HIDE DEF events
<1>21. events \in Seq(FineEvents)
  <2>1. QuietEvents \subseteq FineEvents
    BY DEF QuietEvents
  <2> QED
    BY <1>20, <2>1
<1> QED
  BY <1>1, <1>3, <1>7, <1>10, <1>12, <1>20, <1>21, SessionYields DEF q, c

\* A run starts from what the App shows, and with it a new session its file.
LEMMA SessionStarts ==
  ASSUME SessionInv, screen = NoState => ~exists,
         NEW before, before = IF screen = NoState THEN <<>> ELSE screen,
         NEW news \in Seq(QuietEvents), NEW last, Course(Content(lines), news, last),
         NEW messages \in Conversations, InTurn(messages),
         RestoredMessages(Content(lines)) = Held(before) => RestoredMessages(last) = Held(messages),
         Marked(before) => Marked(messages),
         run = NoState, phase = "open", screen' = messages, NEW at \in {"loop", "inbox"},
         run' = [todo |-> <<Ensure>> \o news, at |-> at, query |-> messages, latest |-> messages],
         UNCHANGED fileVars, UNCHANGED writeVars,
         resume' = [resume EXCEPT !.current = FALSE],
         UNCHANGED <<extraction, phase, promised, diverged>>,
         used' \in [messages : Nat, errors : Nat, crashes : Nat]
  PROVE  SessionInv'
<1> DEFINE c == Content(lines)
           todo == <<Ensure>> \o news
<1>1. /\ FileInv'
      /\ UNCHANGED <<Begun, Harmless, AgentLogged, AgentComes>>
      /\ Content(lines)' = Content(lines)
      /\ \A a : AheadIs(a) => AheadIs(a)'
      /\ \A w : Busy(w)' <=> Busy(w)
      /\ UNCHANGED job
  BY FileStays DEF SessionInv
<1>2. ~Busy("run") /\ job["run"].steps = <<>> /\ job["run"].stage = "idle"
  BY DEF SessionInv, WritersAreKnown, Writers, Busy
<1>3. Pending(job["run"].steps) = {} /\ AheadIs(c)
  BY <1>2 DEF Pending, AheadIs
<1>4. c \in Conversations /\ InTurn(c)
  BY DEF SessionInv, FileInv, ContentInTurn
<1>5. Ensure \in QuietEvents /\ Ensure.kind = "ensure"
  BY TheEvents DEF Ensure, Event
<1> HIDE DEF c
<1>6. <<Ensure>> \in Seq(QuietEvents) /\ Len(<<Ensure>>) = 1 /\ <<Ensure>>[1] = Ensure
  BY <1>5
<1>7. todo \in Seq(QuietEvents) /\ Course(c, todo, last)
  <2>1. Course(c, <<Ensure>>, c)
    BY <1>4, <1>5, ToldCourse
  <2> QED
    BY <1>6, <2>1, CoursesJoin, Joined DEF c
<1>8. todo # <<>> /\ Head(todo) = Ensure
  <2> DEFINE e == <<Ensure>>
  <2> HIDE DEF e
  <2>1. e \in Seq(QuietEvents) /\ Len(e) = 1 /\ e[1] = Ensure /\ todo = e \o news
    BY <1>6 DEF e
  <2>2. Len(todo) = 1 + Len(news) /\ Len(news) \in Nat /\ todo[1] = Ensure
    BY <2>1, Joined
  <2> HIDE DEF todo
  <2> QED
    BY <1>7, <2>2
<1> HIDE DEF todo
<1>9. todo \in Seq(FineEvents) /\ todo \in Seq(Events)
  <2>1. QuietEvents \subseteq FineEvents /\ FineEvents \subseteq Events
    BY DEF QuietEvents, FineEvents
  <2> QED
    BY <1>7, <2>1
<1>10. /\ run' \in Runs /\ run' # NoState /\ screen' # NoState
       /\ run'.todo = todo /\ run'.at = at /\ run'.query = messages /\ run'.latest = messages
  BY <1>9, RunIsNoState DEF Runs, todo
<1>11. Rest' = todo
  BY <1>1, <1>2, <1>10 DEF Rest
<1>12. ~diverged =>
         /\ Harmless /\ RestoredMessages(c) = Held(before)
         /\ AgentComes => Marked(before)
         /\ Begun \/ Starting'
  <2>1. CASE screen = NoState
    <3>1. lines = <<>> /\ tail = NoTail /\ ~exists /\ extraction = "no"
      BY <2>1 DEF SessionInv, WritersAreKnown, FileInv, MetaIsFirst
    <3>2. Harmless /\ ~AgentLogged
      BY <3>1 DEF Harmless, AgentLogged, NoTail
    <3>3. RestoredMessages(c) = Held(before)
      <4>1. <<>> \in Conversations /\ Unplanned(<<>>) /\ before = <<>>
        BY <2>1 DEF Conversations, Unplanned
      <4> QED
        BY <3>1, <4>1, NoContent, HeldIs DEF c
    <3>4. ~AgentComes
      BY <1>3, <3>2 DEF AgentComes
    <3>5. Starting'
      BY <1>1, <1>2, <1>5, <1>8, <1>10, <3>1 DEF Starting, fileVars
    <3> QED
      BY <3>2, <3>3, <3>4, <3>5
  <2>2. CASE screen # NoState
    <3>1. ~diverged => Harmless
      BY <1>2, <2>2 DEF SessionInv, TailAgrees
    <3>2. ~diverged =>
            /\ Begun \/ Unbegun
            /\ RestoredMessages(c) = Held(before)
            /\ AgentLogged => Marked(before)
      BY <2>2 DEF SessionInv, IdleAgrees, c
    <3>3. Unbegun => Starting'
      BY <1>1, <1>2, <1>5, <1>8, <1>10 DEF Unbegun, Starting, fileVars
    <3> QED
      BY <1>3, <3>1, <3>2, <3>3 DEF AgentComes
  <2> QED
    BY <2>1, <2>2
<1>13. AppTypes' /\ AtModel' /\ ReadIsCurrent'
  <2>1. resume' \in Reads /\ resume'.messages = resume.messages /\ ~resume'.current
    BY DEF SessionInv, AppTypes, Reads
  <2> QED
    BY <1>9, <1>10, <2>1 DEF SessionInv, AppTypes, AtModel, ReadIsCurrent
<1>14. WritersAreKnown'
  BY <1>1, <1>2, <1>10 DEF SessionInv, WritersAreKnown
<1>15. RunCourse'
  <2>1. PICK ahead : ahead = c
    OBVIOUS
  <2>2. AheadIs(ahead)' /\ Course(ahead, Rest', last)
    BY <1>1, <1>3, <1>7, <1>11, <2>1
  <2>3. diverged' \/ RestoredMessages(last) = Held(run.query)'
    BY <1>10, <1>12 DEF c, Held, Logged
  <2> QED
    BY <2>2, <2>3 DEF RunCourse
<1>16. IdleAgrees' /\ TailAgrees'
  BY <1>1, <1>10, <1>12 DEF IdleAgrees, TailAgrees
<1>17. RunIsStarted' /\ RunIsMarked'
  BY <1>1, <1>7, <1>10, <1>12 DEF RunIsStarted, RunIsMarked
<1> QED
  BY <1>1, <1>13, <1>14, <1>15, <1>16, <1>17 DEF SessionInv

LEMMA UserTurnKeeps ==
  ASSUME SessionInv, UserTurn
  PROVE  SessionInv'
<1> DEFINE before == IF screen = NoState THEN <<>> ELSE screen
           u == UserMessage(FreshId)
           messages == Append(before, u)
           c == Content(lines)
<1>1. /\ screen = NoState => ~exists
      /\ StartRun(messages, Len(before), "loop")
      /\ UNCHANGED fileVars /\ UNCHANGED writeVars
      /\ UNCHANGED <<extraction, phase, promised, diverged>>
  BY DEF UserTurn
<1>2. FreshId \in Nat /\ used' \in [messages : Nat, errors : Nat, crashes : Nat]
  <2>1. used \in [messages : Nat, errors : Nat, crashes : Nat]
    BY DEF SessionInv, AppTypes
  <2>2. used' = [used EXCEPT !.messages = @ + 1]
    BY DEF UserTurn, Spend
  <2> QED
    BY <2>1, <2>2 DEF FreshId
<1>3. before \in Conversations /\ InTurn(before)
  BY DEF SessionInv, AppTypes, Conversations, InTurn
<1>4. u \in Messages /\ u.role = "user" /\ u # PlanMessage /\ IsInjective(u.calls)
  <2>1. FreshId # 0
    BY DEF SessionInv, AppTypes, FreshId
  <2> QED
    BY <1>2, <2>1, TheMessages
<1>5. c \in Conversations /\ InTurn(c)
  BY DEF SessionInv, FileInv, ContentInTurn
<1> HIDE DEF before, u, c
<1>6. /\ messages \in Conversations /\ InTurn(messages)
      /\ Len(messages) = Len(before) + 1 /\ Len(before) \in Nat
      /\ messages[Len(before) + 1] = u
      /\ Marked(before) => Marked(messages)
  BY <1>3, <1>4, AppendedMessage, SaidInTurn, MarkedGrows
<1>7. SubSeq(messages, Len(before) + 1, Len(messages)) = <<u>>
  <2> DEFINE n == Len(before) + 1
  <2>1. n \in Nat /\ n \in 1..Len(messages) /\ Len(messages) = n /\ messages[n] = u
    BY <1>6
  <2> HIDE DEF n, messages
  <2> DEFINE s == SubSeq(messages, n, n)
  <2>2. s \in Seq(Messages) /\ Len(s) = 1 /\ s[1] = messages[n]
    BY <1>6, <2>1 DEF Conversations
  <2> HIDE DEF s
  <2>3. s = <<u>>
    BY <2>1, <2>2
  <2> QED
    BY <2>1, <2>3 DEF n, s
<1> DEFINE news == <<NewMessage(u)>>
<1>8. news \in Seq(QuietEvents)
  BY <1>4, TheEvents
<1>9. Course(c, news, Append(c, u))
  BY <1>4, <1>5, SaidCourse
<1>10. RestoredMessages(c) = Held(before) => RestoredMessages(Append(c, u)) = Held(messages)
  BY <1>3, <1>4, <1>5, RestoredAppend, HeldAppend
<1>11. /\ run = NoState /\ phase = "open" /\ screen' = messages
       /\ resume' = [resume EXCEPT !.current = FALSE]
       /\ run' = [todo |-> <<Ensure>> \o news, at |-> "loop", query |-> messages, latest |-> messages]
  <2>1. MessageEventsOf(<<u>>) = news
    BY <1>3, <1>4, OneMessage
  <2> QED
    BY <1>1, <1>7, <2>1 DEF StartRun
<1> HIDE DEF news, messages
<1>12. before = IF screen = NoState THEN <<>> ELSE screen
  BY DEF before
<1> QED
  BY <1>1, <1>2, <1>6, <1>8, <1>9, <1>10, <1>11, <1>12, SessionStarts DEF c

LEMMA BackgroundTurnKeeps ==
  ASSUME SessionInv, BackgroundTurn
  PROVE  SessionInv'
<1> DEFINE c == Content(lines)
           news == <<>>
<1>1. /\ screen # NoState
      /\ StartRun(screen, Len(screen), "inbox")
      /\ UNCHANGED fileVars /\ UNCHANGED writeVars
      /\ UNCHANGED <<extraction, phase, promised, diverged, used>>
  BY DEF BackgroundTurn, history
<1>2. screen \in Conversations /\ InTurn(screen)
  BY <1>1 DEF SessionInv, AppTypes
<1>3. used' \in [messages : Nat, errors : Nat, crashes : Nat]
  BY <1>1 DEF SessionInv, AppTypes
<1>4. Course(c, news, c) /\ news \in Seq(QuietEvents)
  <2>1. c \in Conversations /\ InTurn(c)
    BY DEF SessionInv, FileInv, ContentInTurn
  <2> QED
    BY <2>1, CourseIsNothing
<1>5. SubSeq(screen, Len(screen) + 1, Len(screen)) = <<>>
  BY <1>2 DEF Conversations
<1>6. /\ run = NoState /\ phase = "open" /\ screen' = screen
      /\ resume' = [resume EXCEPT !.current = FALSE]
      /\ run' = [todo |-> <<Ensure>> \o news, at |-> "inbox", query |-> screen, latest |-> screen]
  <2>1. MessageEventsOf(<<>>) = news
    <3>1. DOMAIN <<>> = 1..0 /\ [i \in 1..0 |-> NewMessage(<<>>[i])] = <<>>
      OBVIOUS
    <3> QED
      BY <3>1 DEF MessageEventsOf
  <2> QED
    BY <1>1, <1>5, <2>1 DEF StartRun
<1> HIDE DEF news, c
<1>7. screen = IF screen = NoState THEN <<>> ELSE screen
  BY <1>1
<1> QED
  BY <1>1, <1>2, <1>3, <1>4, <1>6, <1>7, SessionStarts DEF c

\* A session that begins with /plan, and nothing of it in a file.
LEMMA EnterPlanModeKeeps ==
  ASSUME SessionInv, EnterPlanMode
  PROVE  SessionInv'
<1>1. /\ phase = "open" /\ run = NoState /\ screen = NoState /\ ~exists
      /\ screen' = <<PlanMessage>> /\ used' = [used EXCEPT !["messages"] = @ + 1]
      /\ UNCHANGED fileVars /\ UNCHANGED writeVars
      /\ UNCHANGED <<run, resume, extraction, phase, promised, diverged>>
  BY DEF EnterPlanMode, Spend
<1>2. /\ FileInv'
      /\ UNCHANGED <<Begun, Harmless, AgentLogged, AgentComes>>
      /\ Content(lines)' = Content(lines)
      /\ \A w : Busy(w)' <=> Busy(w)
      /\ UNCHANGED job
  BY <1>1, FileStays DEF SessionInv
<1>3. lines = <<>> /\ tail = NoTail /\ extraction = "no"
  BY <1>1 DEF SessionInv, FileInv, MetaIsFirst, WritersAreKnown
<1>4. Harmless /\ ~AgentLogged
  BY <1>3 DEF Harmless, AgentLogged, NoTail
<1> DEFINE s == <<PlanMessage>>
<1>5. s \in Conversations /\ InTurn(s) /\ s # <<>> /\ s[1] = PlanMessage /\ Tail(s) = <<>>
  BY PlanIsOfTheUser DEF Conversations, InTurn
<1> HIDE DEF s
<1>6. Held(s) = RestoredMessages(Content(lines))
  BY <1>3, <1>5, NoContent DEF Held, Logged
<1>7. screen' = s /\ s # NoState
  BY <1>1, <1>5, RunIsNoState DEF s
<1>8. AppTypes' /\ WritersAreKnown'
  BY <1>1, <1>2, <1>5, <1>7 DEF SessionInv, AppTypes, WritersAreKnown
<1>9. IdleAgrees' /\ TailAgrees'
  BY <1>1, <1>2, <1>3, <1>4, <1>6, <1>7 DEF IdleAgrees, Unbegun, TailAgrees, fileVars
<1>10. ReadIsCurrent'
  BY <1>1, <1>2 DEF SessionInv, ReadIsCurrent, IsCurrent
<1> QED
  BY <1>1, <1>2, <1>8, <1>9, <1>10 DEF SessionInv, AtModel, RunCourse, RunIsStarted, RunIsMarked

-----------------------------------------------------------------------------
LEMMA SessionInit == Init => SessionInv
<1> SUFFICES ASSUME Init PROVE SessionInv
  OBVIOUS
<1>1. /\ lines = <<>> /\ tail = NoTail /\ screen = NoState /\ run = NoState
      /\ resume = NoResume /\ extraction = "no"
      /\ used = [messages |-> 0, errors |-> 0, crashes |-> 0]
      /\ job["run"] = Idle /\ job["extraction"] = Idle /\ \A w \in Writers : job[w] = Idle
  BY DEF Init, Writers
<1>2. AppTypes /\ ReadIsCurrent
  BY <1>1, NothingRead DEF AppTypes, ReadIsCurrent
<1>3. WritersAreKnown
  BY <1>1 DEF WritersAreKnown, Busy, Idle
<1> QED
  BY <1>1, <1>2, <1>3, FileInit
     DEF SessionInv, AtModel, RunCourse, IdleAgrees, TailAgrees, RunIsStarted, RunIsMarked

LEMMA SessionNext == SessionInv /\ [Next]_vars => SessionInv'
<1> SUFFICES ASSUME SessionInv, [Next]_vars PROVE SessionInv'
  OBVIOUS
<1>1. ASSUME NEW w \in Writers, WriterStep(w) \/ Fail(w) PROVE SessionInv'
  <2>1. CASE w = "run"
    BY <1>1, <2>1, SessionWriter, SessionDone, SessionFails DEF WriterStep
  <2>2. CASE w = "extraction"
    BY <1>1, <2>2, SessionWriter DEF WriterStep
  <2> QED
    BY <2>1, <2>2 DEF Writers
<1>2. CASE NextTurn \/ MaxTurns \/ Answer \/ CallTools
  BY <1>2, NextTurnKeeps, MaxTurnsKeeps, AnswerKeeps, CallToolsKeeps
<1>3. CASE ModelFails \/ EndRun \/ Aborted
  BY <1>3, SessionEnds, SessionAborted
<1>4. CASE Persist \/ RequestExtraction \/ Extracted
  BY <1>4, SessionPersists, SessionRequests, SessionExtracted
<1>5. CASE ResumeStart \/ ResumeRead \/ Shutdown \/ Closed \/ UNCHANGED vars
  BY <1>5, SessionReads
<1>6. CASE ResumeSet \/ Restart
  BY <1>6, SessionResumes, SessionRestarts
<1>7. CASE UserTurn \/ BackgroundTurn \/ EnterPlanMode
  BY <1>7, UserTurnKeeps, BackgroundTurnKeeps, EnterPlanModeKeeps
<1> QED
  BY <1>1, <1>2, <1>3, <1>4, <1>5, <1>6, <1>7 DEF Next, AppStep

LEMMA SessionAlways == Spec => []SessionInv
BY SessionInit, SessionNext, PTL DEF Spec

(* A file whose first record is the metadata can be read at every moment:  *)
(* nothing in its middle is no record and only the last may be unfinished, *)
(* whichever write fails or process dies (sessionStore.ts:587,             *)
(* sessionStore.ts:627).                                                   *)
THEOREM SessionCanBeRead == Spec => []ReadableOnceStarted
<1>1. SessionInv => ReadableOnceStarted
  BY BegunIsLoadable DEF SessionInv, ReadableOnceStarted
<1> QED
  BY <1>1, SessionAlways, PTL

(* Between two runs the file gives a reader what the App goes on from,     *)
(* whatever was compacted, drained from the mailbox, extracted or resumed, *)
(* but for the message of a /plan that came first, and there is no file    *)
(* only while there is nothing else; unless a write has failed, or a       *)
(* /resume was overtaken by a run or read a record without its newline     *)
(* (App.tsx runState, query.ts).                                           *)
THEOREM MemoryIsTheLog == Spec => []MemoryAgreesWithLog
<1>1. SessionInv => MemoryAgreesWithLog
  <2> SUFFICES ASSUME SessionInv, screen # NoState, run = NoState, phase = "open", ~diverged
               PROVE  IF exists THEN Loadable /\ Loaded = RestoredMessages(Logged(screen))
                      ELSE Logged(screen) = <<>>
    BY DEF MemoryAgreesWithLog
  <2>1. /\ Begun \/ Unbegun
        /\ RestoredMessages(Content(lines)) = RestoredMessages(Logged(screen))
    BY DEF SessionInv, IdleAgrees, Held
  <2>2. Harmless
    BY DEF SessionInv, WritersAreKnown, Busy, TailAgrees, Writers
  <2>3. CASE exists
    <3>1. Begun
      BY <2>1, <2>3 DEF Unbegun
    <3> QED
      BY <2>1, <2>2, <2>3, <3>1, BegunIsLoadable, LoadedIs DEF SessionInv, Begun
  <2>4. CASE ~exists
    <3> DEFINE kept == Logged(screen)
    <3>1. kept \in Conversations
      BY HeldIs DEF SessionInv, AppTypes
    <3>2. lines = <<>>
      BY <2>4 DEF SessionInv, FileInv, MetaIsFirst
    <3>3. <<>> \in Conversations /\ Len(<<>>) = 0
      BY DEF Conversations
    <3>4. RestoredMessages(<<>>) = RestoredMessages(kept)
      BY <2>1, <3>2, NoContent
    <3> HIDE DEF kept
    <3>5. Len(kept) = 0
      <4>1. Len(RestoredMessages(kept)) = Len(kept) /\ Len(RestoredMessages(<<>>)) = Len(<<>>)
        BY <3>1, <3>3, RestoredAre
      <4> QED
        BY <3>3, <3>4, <4>1
    <3>6. kept = <<>>
      BY <3>1, <3>5 DEF Conversations
    <3> QED
      BY <2>4, <3>6 DEF kept
  <2> QED
    BY <2>3, <2>4
<1> QED
  BY <1>1, SessionAlways, PTL

(* The model is never asked with, and a reader of the file never gets, a   *)
(* tool result without the call it answers, wherever compaction cuts and   *)
(* wherever a process dies (query.ts, sessionStore.ts).                    *)
THEOREM NoResultIsOrphaned == Spec => []NoOrphanResult
<1>1. SessionInv => NoOrphanResult
  <2> SUFFICES ASSUME SessionInv PROVE NoOrphanResult
    OBVIOUS
  <2>1. <<>> \in Conversations /\ InTurn(<<>>)
    BY DEF Conversations, InTurn
  <2>2. run # NoState => run.query \in Conversations /\ InTurn(run.query)
    BY DEF SessionInv, AppTypes, Runs
  <2>3. screen # NoState => screen \in Conversations /\ InTurn(screen)
    BY DEF SessionInv, AppTypes
  <2>4. Context \in Conversations /\ InTurn(Context)
    BY <2>1, <2>2, <2>3 DEF Context
  <2>5. Loaded \in Conversations /\ InTurn(Loaded)
    BY LoadedIs DEF SessionInv
  <2> QED
    BY <2>4, <2>5, NoOrphanInTurn DEF NoOrphanResult
<1> QED
  BY <1>1, SessionAlways, PTL

(* Once a message of an agent has been acknowledged, what the model is     *)
(* asked with is marked as holding untrusted content, through compaction   *)
(* and through a restart, as long as nothing has separated the App from    *)
(* the file (query.ts, sessionStore.ts).                                   *)
THEOREM UntrustedIsMarked == Spec => []UntrustedStaysMarked
<1>1. SessionInv => UntrustedStaysMarked
  <2> SUFFICES ASSUME SessionInv, NEW i \in 1..promised, lines[i].type = "agent_message",
                      Context # <<>>, ~diverged
               PROVE  Marked(Context)
    BY DEF UntrustedStaysMarked
  <2>1. AgentLogged
    <3>1. promised \in Nat /\ promised <= Len(lines) /\ Len(lines) \in Nat /\ DOMAIN lines = 1..Len(lines)
      BY DEF SessionInv, FileInv, LogInv, TypeOK, RecordTypes
    <3>2. i \in DOMAIN lines
      BY <3>1
    <3> QED
      BY <3>2 DEF AgentLogged
  <2>2. CASE run # NoState
    <3>1. Marked(run.query)
      BY <2>1, <2>2 DEF SessionInv, RunIsMarked, AgentComes
    <3> QED
      BY <2>2, <3>1 DEF Context
  <2>3. CASE run = NoState
    <3>1. screen # NoState /\ phase = "open" /\ Context = screen
      BY <2>3 DEF Context
    <3> QED
      BY <2>1, <2>3, <3>1 DEF SessionInv, IdleAgrees
  <2> QED
    BY <2>2, <2>3
<1> QED
  BY <1>1, SessionAlways, PTL
=============================================================================
