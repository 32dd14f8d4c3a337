-------------------------- MODULE MemoryStoreProofs --------------------------
(***************************************************************************)
(* Proofs about MemoryStore, for any processes, callers, topics and        *)
(* contents, and without the bounds of Limits.                             *)
(***************************************************************************)
EXTENDS MemoryStore, FiniteSetTheorems, TLAPS

Contents == Content \cup {Nothing}
FileType == [content : Contents, version : Nat, author : {"agent", "outside"}]
IndexType == [rows : SUBSET (Topic \X Contents), version : Nat]

OpType ==
    [at : {"idle", "queued", "locked", "read", "valid", "checked", "replaced", "scanned", "indexed"},
     kind : {"none", "write", "edit", "refresh"}, topic : Topic \cup {Nothing},
     old : Contents, new : Contents, snapshot : FileType, rows : SUBSET (Topic \X Contents)]

CheckType ==
    [at : {"no", "looking", "reading", "comparing", "concurrent modification", "clean", "issues"},
     todo : SUBSET Files, seen : [Files -> Nat], topics : [Topic -> FileType],
     rows : SUBSET (Topic \X Contents), now : SUBSET Temporary, sound : BOOLEAN]

TypeOK ==
    /\ store \in [Topic -> FileType]
    /\ index \in IndexType
    /\ op \in [Caller -> OpType]
    /\ check \in CheckType
    /\ expired \in SUBSET Temporary
    /\ indexStale \in BOOLEAN

\* Whoever is at work on the files holds the transaction of the database.
Exclusive == \A c \in Caller : Working(c) => holder = c

\* An operation on a topic names one, and only an edit looks at its topic again.
WellFormed ==
    \A c \in Caller :
        /\ op[c].kind \in {"write", "edit"} => op[c].topic \in Topic
        /\ At(c, "checked") => op[c].kind = "edit"

\* There is an index wherever there are topics, and before one is written.
IndexFirst ==
    /\ IndexExists \/ Present = {}
    /\ \A c \in Caller : op[c].at \in {"valid", "checked", "replaced"} => IndexExists

\* The index is what the topics say, unless an operation is between the two.
IndexFollows ==
    ~indexStale =>
        /\ \A c \in Caller : At(c, "scanned") => Agree(op[c].rows)
        /\ (\A c \in Caller : op[c].at \notin {"replaced", "scanned"}) => Agree(index.rows)

\* What an edit has looked at last is still there, or the user has changed it.
EditIsCurrent ==
    \A c \in Caller :
        At(c, "checked") =>
            \/ store[op[c].topic].version = op[c].snapshot.version
            \/ store[op[c].topic].author = "outside"

\* The inductive invariant of the mutations.
StoreInv == TypeOK /\ Exclusive /\ WellFormed /\ IndexFirst /\ IndexFollows /\ EditIsCurrent

-----------------------------------------------------------------------------
(* The index.                                                              *)

LEMMA NoRows == Present = {} => Agree({})
  BY DEF Present, Rows, RowsAt, Agree

LEMMA RowsAgree == Agree(Rows(store))
  BY DEF Rows, RowsAt, Agree

\* What agrees with the topics does so as long as nothing but a ttl passes.
LEMMA StillAgrees ==
  ASSUME store' = store, expired \subseteq expired', NEW rows, Agree(rows)
  PROVE  Rows(store)' \subseteq rows /\ rows \subseteq RowsAt(store, {})'
  BY DEF Rows, RowsAt, Agree

LEMMA RowsType ==
  ASSUME TypeOK
  PROVE  Rows(store) \in SUBSET (Topic \X Contents)
  BY DEF TypeOK, Rows, RowsAt, FileType

LEMMA Ensured ==
  ASSUME TypeOK, IndexFirst
  PROVE  /\ EnsuredIndex \in IndexType
         /\ EnsuredIndex.version > 0
         /\ EnsuredIndex = index \/ EnsuredIndex.version > index.version
         /\ Agree(index.rows) => Agree(EnsuredIndex.rows)
<1>1. CASE IndexExists
  BY <1>1 DEF TypeOK, IndexType, EnsuredIndex, IndexExists
<1>2. CASE ~IndexExists
  <2>1. Agree({})
    BY <1>2, NoRows DEF IndexFirst
  <2> QED
    BY <1>2, <2>1 DEF TypeOK, IndexType, EnsuredIndex, IndexExists, Index
<1> QED
  BY <1>1, <1>2

-----------------------------------------------------------------------------
LEMMA StoreInit == Init => StoreInv
<1> SUFFICES ASSUME Init PROVE StoreInv
  OBVIOUS
<1>1. /\ \A c \in Caller : op[c].at = "idle" /\ op[c].kind = "none"
      /\ index = Index(Rows(store), IF Present = {} THEN 0 ELSE 1)
  BY DEF Init, Idle, Operation
<1>2. TypeOK
  <2>1. store \in [Topic -> FileType]
    BY DEF Init, FileType, File, NoSnapshot, Contents
  <2>2. Rows(store) \in SUBSET (Topic \X Contents)
    BY <2>1 DEF Rows, RowsAt, FileType
  <2>3. index \in IndexType
    BY <1>1, <2>2 DEF Index, IndexType
  <2>4. NoSnapshot \in FileType
    BY DEF NoSnapshot, File, FileType, Contents
  <2>5. Idle \in OpType
    BY <2>4 DEF Idle, Operation, OpType, Contents
  <2>6. check \in CheckType
    BY <2>4 DEF Init, NoCheck, CheckType
  <2> QED
    BY <2>1, <2>3, <2>5, <2>6 DEF Init, TypeOK
<1>3. Exclusive /\ WellFormed /\ EditIsCurrent
  BY <1>1 DEF Exclusive, Working, WellFormed, EditIsCurrent, At
<1>4. IndexFirst
  BY <1>1 DEF IndexFirst, IndexExists, Index
<1>5. IndexFollows
  BY <1>1, RowsAgree DEF IndexFollows, Index, At
<1> QED
  BY <1>2, <1>3, <1>4, <1>5 DEF StoreInv

-----------------------------------------------------------------------------
(* Steps of one caller.                                                    *)

Ats == {"idle", "queued", "locked", "read", "valid", "checked", "replaced", "scanned", "indexed"}

OthersStay(c) == \A d \in Caller \ {c} : op'[d] = op[d]

LEMMA Moves ==
  ASSUME TypeOK, NEW c \in Caller, NEW at \in Ats, To(c, at)
  PROVE  /\ op' \in [Caller -> OpType] /\ op'[c].at = at /\ OthersStay(c)
         /\ op'[c].kind = op[c].kind /\ op'[c].topic = op[c].topic
         /\ op'[c].snapshot = op[c].snapshot /\ op'[c].rows = op[c].rows
         /\ op'[c].new = op[c].new
  BY DEF TypeOK, To, Ats, OpType, OthersStay

LEMMA NoSnapshotType == NoSnapshot \in FileType
  BY DEF NoSnapshot, File, FileType, Contents

LEMMA Leaves ==
  ASSUME TypeOK, NEW c \in Caller, Leave(c)
  PROVE  /\ op' \in [Caller -> OpType] /\ op'[c].at = "idle" /\ op'[c].kind = "none"
         /\ OthersStay(c)
         /\ holder' = IF Working(c) THEN Nothing ELSE holder
<1>1. Idle \in OpType /\ Idle.at = "idle" /\ Idle.kind = "none"
  BY NoSnapshotType DEF Idle, Operation, OpType, Contents
<1>2. op' = [op EXCEPT ![c] = Idle]
  BY DEF Leave
<1> QED
  BY <1>1, <1>2 DEF TypeOK, Leave, OthersStay

\* Everything that changes neither topics nor rows of the index; a ttl may pass.
LEMMA Keeps ==
  ASSUME StoreInv, NEW c \in Caller, store' = store, index' \in {index, EnsuredIndex},
         expired \subseteq expired', expired' \in SUBSET Temporary,
         check' \in CheckType, op' \in [Caller -> OpType], OthersStay(c),
         indexStale' \in BOOLEAN, indexStale => indexStale',
         Working(c)' => holder' = c,
         holder' = holder \/ holder \in {c, Nothing},
         op'[c].kind \in {"write", "edit"} => op'[c].topic \in Topic,
         op'[c].at = "checked" =>
             op'[c].kind = "edit" /\ (\/ store[op'[c].topic].version = op'[c].snapshot.version
                                      \/ store[op'[c].topic].author = "outside"),
         op'[c].at \in {"valid", "checked", "replaced"} => index'.version > 0,
         op'[c].at = "scanned" => Agree(op'[c].rows) \/ indexStale',
         op[c].at \in {"replaced", "scanned"} =>
             op'[c].at \in {"replaced", "scanned"} \/ indexStale'
  PROVE  StoreInv'
<1>1. /\ EnsuredIndex \in IndexType
      /\ EnsuredIndex.version > 0
      /\ EnsuredIndex = index \/ EnsuredIndex.version > index.version
      /\ Agree(index.rows) => Agree(EnsuredIndex.rows)
  BY Ensured DEF StoreInv
<1>2. TypeOK'
  BY <1>1 DEF StoreInv, TypeOK
<1>3. Exclusive'
  BY CallersAssumption DEF StoreInv, Exclusive, Working, OthersStay
<1>4. WellFormed' /\ EditIsCurrent'
  BY DEF StoreInv, WellFormed, EditIsCurrent, At, OthersStay
<1>5. index.version > 0 => index'.version > 0
  BY <1>1 DEF StoreInv, TypeOK, IndexType
<1>6. IndexFirst'
  <2>1. IndexExists' \/ Present' = {}
    BY <1>5 DEF StoreInv, IndexFirst, IndexExists, Present
  <2>2. \A d \in Caller : op'[d].at \in {"valid", "checked", "replaced"} => index'.version > 0
    BY <1>5 DEF StoreInv, IndexFirst, IndexExists, OthersStay
  <2> QED
    BY <2>1, <2>2 DEF IndexFirst, IndexExists
<1>7. IndexFollows'
  <2> SUFFICES ASSUME ~indexStale'
               PROVE  /\ \A d \in Caller : op'[d].at = "scanned" => Agree(op'[d].rows)
                      /\ (\A d \in Caller : op'[d].at \notin {"replaced", "scanned"})
                            => Agree(index'.rows)
    <3>1. \A rows : Agree(rows) => Rows(store)' \subseteq rows /\ rows \subseteq RowsAt(store, {})'
      BY StillAgrees
    <3> QED
      BY <3>1 DEF IndexFollows, Agree, At
  <2>1. \A d \in Caller : op'[d].at = "scanned" => Agree(op'[d].rows)
    BY DEF StoreInv, IndexFollows, At, OthersStay
  <2>2. ASSUME \A d \in Caller : op'[d].at \notin {"replaced", "scanned"}
        PROVE  Agree(index'.rows)
    <3>1. \A d \in Caller : op[d].at \notin {"replaced", "scanned"}
      BY <2>2 DEF OthersStay
    <3>2. Agree(index.rows)
      BY <3>1 DEF StoreInv, IndexFollows
    <3> QED
      BY <1>1, <3>2
  <2> QED
    BY <2>1, <2>2
<1> QED
  BY <1>2, <1>3, <1>4, <1>6, <1>7 DEF StoreInv

-----------------------------------------------------------------------------
(* Steps of a check.                                                       *)

LEMMA VersionType ==
  ASSUME TypeOK, NEW f \in Files
  PROVE  Version(f) \in Nat
  BY DEF TypeOK, Version, Files, FileType, IndexType

LEMMA CheckTyped ==
  ASSUME TypeOK, CheckStart \/ \E f \in Files : FirstLook(f) \/ Read(f) \/ SecondLook(f)
  PROVE  check' \in CheckType
<1>1. check \in CheckType
  BY DEF TypeOK
<1>2. NoCheck \in CheckType
  BY NoSnapshotType DEF NoCheck, CheckType
<1>3. CASE CheckStart
  BY <1>2, <1>3 DEF CheckStart, CheckType, TypeOK
<1>4. ASSUME NEW f \in Files, FirstLook(f) PROVE check' \in CheckType
  <2>1. /\ Version(f) \in Nat /\ TodoAfter(f) \in SUBSET Files /\ Sound \in BOOLEAN
        /\ PhaseAfter(f, "reading") \in {"looking", "reading"}
    BY <1>1, <1>4, VersionType DEF FirstLook, TodoAfter, PhaseAfter, Sound, Clean, NoDuplicates, CheckType
  <2> QED
    BY <1>1, <1>4, <2>1 DEF FirstLook, CheckType
<1>5. ASSUME NEW f \in Files, Read(f) PROVE check' \in CheckType
  <2>1. /\ TodoAfter(f) \in SUBSET Files
        /\ PhaseAfter(f, "comparing") \in {"reading", "comparing"}
    BY <1>1, <1>5 DEF Read, TodoAfter, PhaseAfter, CheckType
  <2>2. (IF f = Nothing THEN index.rows ELSE check.rows) \in SUBSET (Topic \X Contents)
    BY <1>1 DEF TypeOK, IndexType, CheckType
  <2>3. (IF f = Nothing THEN check.topics ELSE [check.topics EXCEPT ![f] = store[f]])
           \in [Topic -> FileType]
    BY <1>1 DEF TypeOK, CheckType, Files
  <2> QED
    BY <1>1, <1>5, <2>1, <2>2, <2>3 DEF Read, CheckType
<1>6. ASSUME NEW f \in Files, SecondLook(f) PROVE check' \in CheckType
  <2>1. \A at \in {"concurrent modification", "clean", "issues"} : Report(at) \in CheckType
    BY <1>1, <1>2 DEF Report, CheckType
  <2>2. [check EXCEPT !.todo = @ \ {f}] \in CheckType
    BY <1>1 DEF CheckType
  <2> QED
    BY <1>6, <2>1, <2>2 DEF SecondLook
<1> QED
  BY <1>3, <1>4, <1>5, <1>6

-----------------------------------------------------------------------------
LEMMA StoreStep == StoreInv /\ [Next]_vars => StoreInv'
<1> SUFFICES ASSUME StoreInv, [Next]_vars PROVE StoreInv'
  OBVIOUS
<1>0. TypeOK /\ check \in CheckType /\ indexStale \in BOOLEAN /\ op \in [Caller -> OpType]
      /\ expired \in SUBSET Temporary
  BY DEF StoreInv, TypeOK
<1>1. CASE UNCHANGED vars
  BY <1>1 DEF vars, StoreInv, TypeOK, Exclusive, Working, WellFormed, IndexFirst, IndexExists,
              Present, IndexFollows, Agree, Rows, RowsAt, EditIsCurrent, At
<1>2. ASSUME NEW c \in Caller, Acquire(c) PROVE StoreInv'
  <2>1. To(c, "locked") /\ holder = Nothing /\ holder' = c
        /\ UNCHANGED <<store, index, check, indexStale, expired>> /\ op[c].at = "queued"
    BY <1>2 DEF Acquire, At
  <2>2. /\ op' \in [Caller -> OpType] /\ op'[c].at = "locked" /\ OthersStay(c)
        /\ op'[c].kind = op[c].kind /\ op'[c].topic = op[c].topic
    BY <1>0, <2>1, Moves DEF Ats
  <2> QED
    BY <1>0, <2>1, <2>2, Keeps DEF StoreInv, WellFormed
\* An operation that ends, and leaves nothing behind that it has not told of.
<1>3. ASSUME NEW c \in Caller, Leave(c), store' = store, index' \in {index, EnsuredIndex},
             check' = check, expired' = expired, indexStale' \in BOOLEAN, indexStale => indexStale',
             op[c].at \in {"replaced", "scanned"} => indexStale'
      PROVE  StoreInv'
  <2>1. /\ op' \in [Caller -> OpType] /\ op'[c].at = "idle" /\ op'[c].kind = "none"
        /\ OthersStay(c) /\ holder' = IF Working(c) THEN Nothing ELSE holder
    BY <1>0, <1>3, Leaves
  <2>2. holder' = holder \/ holder = c
    BY <2>1 DEF StoreInv, Exclusive
  <2>3. ~Working(c)'
    BY <2>1 DEF Working
  <2> QED
    BY <1>0, <1>3, <2>1, <2>2, <2>3, Keeps
<1>4. ASSUME NEW c \in Caller,
             LockTimeout(c) \/ EditConflict(c) \/ Refuse(c) \/ Commit(c) PROVE StoreInv'
  <2>1. /\ Leave(c) /\ UNCHANGED <<store, check, indexStale, expired>>
        /\ index' \in {index, EnsuredIndex} /\ op[c].at \notin {"replaced", "scanned"}
    BY <1>4 DEF LockTimeout, EditConflict, Refuse, ReadyToValidate, Commit, At
  <2> QED
    BY <1>0, <1>3, <2>1
<1>5. ASSUME NEW c \in Caller, Fail(c) PROVE StoreInv'
  <2>1. /\ Leave(c) /\ UNCHANGED <<store, index, check, expired>>
        /\ indexStale' = (indexStale \/ op[c].at \in {"replaced", "scanned"})
    BY <1>5 DEF Fail, LeftBehind
  <2> QED
    BY <1>0, <1>3, <2>1
<1>6. ASSUME NEW c \in Caller, Mutate(c) PROVE StoreInv'
  <2>1. PICK request \in Requests(c) : Submit(c, request)
    BY <1>6 DEF Mutate
  <2>2. request \in OpType /\ request.at = "queued" /\ request.topic \in Topic
    BY NoSnapshotType DEF Requests, Operation, OpType, Contents
  <2>3. /\ UNCHANGED <<store, index, check, indexStale, holder, expired>> /\ op[c].at = "idle"
        /\ op' \in [Caller -> OpType] /\ op'[c] = request /\ OthersStay(c)
    BY <1>0, <1>6, <2>1, <2>2 DEF Mutate, Submit, At, OthersStay
  <2> QED
    BY <1>0, <2>2, <2>3, Keeps DEF Working
<1>7. ASSUME NEW c \in Caller, EndExtraction(c) PROVE StoreInv'
  <2> DEFINE request == Operation("queued", "refresh", Nothing, Nothing, Nothing)
  <2>1. request \in OpType /\ request.at = "queued" /\ request.kind = "refresh"
    BY NoSnapshotType DEF Operation, OpType, Contents
  <2>2. /\ UNCHANGED <<store, index, check, indexStale, holder, expired>> /\ op[c].at = "idle"
        /\ op' \in [Caller -> OpType] /\ op'[c] = request /\ OthersStay(c)
    BY <1>0, <1>7, <2>1 DEF EndExtraction, Submit, At, OthersStay
  <2> QED
    BY <1>0, <2>1, <2>2, Keeps DEF Working
<1>8. ASSUME NEW c \in Caller, StartExtraction(c) PROVE StoreInv'
  <2>1. UNCHANGED <<store, op, check, indexStale, holder, expired>> /\ index' = EnsuredIndex
    BY <1>8 DEF StartExtraction
  <2>2. index.version > 0 => index'.version > 0
    BY <2>1, Ensured DEF StoreInv
  <2> QED
    BY <1>0, <2>1, <2>2, Keeps
       DEF StoreInv, Exclusive, Working, WellFormed, IndexFirst, IndexExists, IndexFollows,
           EditIsCurrent, At, OthersStay
<1>9. ASSUME NEW c \in Caller, TakeSnapshot(c) PROVE StoreInv'
  <2>1. /\ UNCHANGED <<store, index, check, indexStale, holder, expired>>
        /\ op[c].at = "locked" /\ op[c].kind = "edit"
        /\ op' = [op EXCEPT ![c].at = "read", ![c].snapshot = store[op[c].topic]]
    BY <1>9 DEF TakeSnapshot, At
  <2>2. op[c].topic \in Topic /\ holder = c
    BY <2>1 DEF StoreInv, WellFormed, Exclusive, Working
  <2>3. store[op[c].topic] \in FileType /\ op[c] \in OpType
    BY <1>0, <2>2 DEF TypeOK
  <2>4. [op[c] EXCEPT !.at = "read", !.snapshot = store[op[c].topic]] \in OpType
    BY <2>3 DEF OpType
  <2>5. /\ op' \in [Caller -> OpType] /\ op'[c].at = "read" /\ OthersStay(c)
        /\ op'[c].topic = op[c].topic
    BY <1>0, <2>1, <2>3, <2>4 DEF OpType, OthersStay
  <2> QED
    BY <1>0, <2>1, <2>2, <2>5, Keeps
<1>10. ASSUME NEW c \in Caller, Validate(c) PROVE StoreInv'
  <2>1. /\ UNCHANGED <<store, check, indexStale, holder, expired>> /\ index' = EnsuredIndex
        /\ op[c].at \in {"locked", "read"} /\ To(c, "valid")
    BY <1>10 DEF Validate, ReadyToValidate, At
  <2>2. /\ op' \in [Caller -> OpType] /\ op'[c].at = "valid" /\ OthersStay(c)
        /\ op'[c].kind = op[c].kind /\ op'[c].topic = op[c].topic
    BY <1>0, <2>1, Moves DEF Ats
  <2>3. holder = c /\ index'.version > 0
    BY <2>1, Ensured DEF StoreInv, Exclusive, Working
  <2> QED
    BY <1>0, <2>1, <2>2, <2>3, Keeps DEF StoreInv, WellFormed
<1>11. ASSUME NEW c \in Caller, Recheck(c) PROVE StoreInv'
  <2>1. /\ UNCHANGED <<store, index, check, indexStale, holder, expired>>
        /\ op[c].at = "valid" /\ op[c].kind = "edit" /\ To(c, "checked")
        /\ store[op[c].topic].version = op[c].snapshot.version
    BY <1>11 DEF Recheck, At
  <2>2. /\ op' \in [Caller -> OpType] /\ op'[c].at = "checked" /\ OthersStay(c)
        /\ op'[c].kind = op[c].kind /\ op'[c].topic = op[c].topic
        /\ op'[c].snapshot = op[c].snapshot
    BY <1>0, <2>1, Moves DEF Ats
  <2>3. holder = c /\ index.version > 0
    BY <2>1 DEF StoreInv, Exclusive, Working, IndexFirst, IndexExists
  <2> QED
    BY <1>0, <2>1, <2>2, <2>3, Keeps DEF StoreInv, WellFormed
<1>12. ASSUME NEW c \in Caller, Scan(c) PROVE StoreInv'
  <2>1. /\ UNCHANGED <<store, check, indexStale, holder, expired>> /\ index' = EnsuredIndex
        /\ op[c].at \in {"replaced", "locked"}
        /\ op' = [op EXCEPT ![c].at = "scanned", ![c].rows = Rows(store)]
    BY <1>12 DEF Scan, At
  <2>2. Rows(store) \in SUBSET (Topic \X Contents)
    BY <1>0, RowsType
  <2>3. op[c] \in OpType /\ [op[c] EXCEPT !.at = "scanned", !.rows = Rows(store)] \in OpType
    BY <1>0, <2>2 DEF OpType
  <2>4. /\ op' \in [Caller -> OpType] /\ op'[c].at = "scanned" /\ OthersStay(c)
        /\ op'[c].kind = op[c].kind /\ op'[c].topic = op[c].topic /\ op'[c].rows = Rows(store)
    BY <1>0, <2>1, <2>3 DEF OpType, OthersStay
  <2>5. holder = c
    BY <2>1 DEF StoreInv, Exclusive, Working
  <2> QED
    BY <1>0, <2>1, <2>4, <2>5, RowsAgree, Keeps DEF StoreInv, WellFormed
<1>13. ASSUME NEW c \in Caller, Replace(c) PROVE StoreInv'
  <2>1. /\ UNCHANGED <<index, check, indexStale, holder, expired>>
        /\ op[c].at \in {"valid", "checked"} /\ To(c, "replaced")
        /\ store' = [store EXCEPT ![op[c].topic] = File(op[c].new, @.version + 1, "agent")]
    BY <1>13 DEF Replace, At
  <2>2. /\ op' \in [Caller -> OpType] /\ op'[c].at = "replaced" /\ OthersStay(c)
        /\ op'[c].kind = op[c].kind /\ op'[c].topic = op[c].topic
    BY <1>0, <2>1, Moves DEF Ats
  <2>3. holder = c /\ index.version > 0 /\ \A d \in Caller \ {c} : ~Working(d)
    BY <2>1 DEF StoreInv, Exclusive, Working, IndexFirst, IndexExists
  <2>4. \A t \in Topic : File(op[c].new, store[t].version + 1, "agent") \in FileType
    BY <1>0 DEF TypeOK, OpType, FileType, File
  <2>5. TypeOK'
    BY <1>0, <2>1, <2>2, <2>4 DEF TypeOK
  <2>6. \A d \in Caller \ {c} : ~Working(d)'
    BY <2>2, <2>3 DEF Working, OthersStay
  <2>7. Exclusive' /\ IndexFirst' /\ IndexFollows' /\ EditIsCurrent'
    BY <2>1, <2>2, <2>3, <2>6
       DEF Exclusive, IndexFirst, IndexExists, IndexFollows, EditIsCurrent, Working, At
  <2>8. WellFormed'
    BY <2>2 DEF StoreInv, WellFormed, At, OthersStay
  <2> QED
    BY <2>5, <2>7, <2>8 DEF StoreInv
<1>14. ASSUME NEW c \in Caller, WriteIndex(c) PROVE StoreInv'
  <2>1. /\ UNCHANGED <<store, check, holder, expired>> /\ op[c].at = "scanned" /\ To(c, "indexed")
        /\ index' = Index(op[c].rows, index.version + 1)
        /\ indexStale' = (indexStale /\ ~Agree(op[c].rows))
    BY <1>14 DEF WriteIndex, At
  <2>2. /\ op' \in [Caller -> OpType] /\ op'[c].at = "indexed" /\ OthersStay(c)
        /\ op'[c].kind = op[c].kind /\ op'[c].topic = op[c].topic
    BY <1>0, <2>1, Moves DEF Ats
  <2>3. holder = c /\ \A d \in Caller \ {c} : ~Working(d)
    BY <2>1 DEF StoreInv, Exclusive, Working
  <2>4. index' \in IndexType /\ index'.version > 0 /\ index'.rows = op[c].rows
    BY <1>0, <2>1 DEF TypeOK, IndexType, OpType, Index
  <2>5. TypeOK'
    BY <1>0, <2>1, <2>2, <2>4 DEF TypeOK
  <2>6. \A d \in Caller \ {c} : ~Working(d)'
    BY <2>2, <2>3 DEF Working, OthersStay
  <2>7. Exclusive' /\ IndexFirst' /\ EditIsCurrent'
    BY <2>1, <2>2, <2>3, <2>4, <2>6 DEF Exclusive, IndexFirst, IndexExists, EditIsCurrent, Working, At
  <2>8. WellFormed'
    BY <2>2 DEF StoreInv, WellFormed, At, OthersStay
  <2>9. ~indexStale' => Agree(op[c].rows)
    BY <2>1 DEF StoreInv, IndexFollows, At
  <2>10. \A d \in Caller : ~At(d, "scanned")'
    BY <2>2, <2>6 DEF Working, At
  <2>11. \A rows : Agree(rows) => Rows(store)' \subseteq rows /\ rows \subseteq RowsAt(store, {})'
    BY <2>1, StillAgrees
  <2>12. IndexFollows'
    BY <2>4, <2>9, <2>10, <2>11 DEF IndexFollows, Agree
  <2> QED
    BY <2>5, <2>7, <2>8, <2>12 DEF StoreInv
<1>15. ASSUME NEW t \in Topic, Outside(t) PROVE StoreInv'
  <2>1. /\ UNCHANGED <<index, holder, op, check, expired>> /\ indexStale' = TRUE /\ t \in Present
    BY <1>15 DEF Outside
  <2>2. PICK content \in Contents :
           store' = [store EXCEPT ![t] = File(content, @.version + 1, "outside")]
    BY <1>15 DEF Outside, Contents
  <2>3. TypeOK'
    <3>1. File(content, store[t].version + 1, "outside") \in FileType
      BY <1>0 DEF TypeOK, FileType, File
    <3> QED
      BY <1>0, <2>1, <2>2, <3>1 DEF TypeOK
  <2>4. index.version > 0
    BY <2>1 DEF StoreInv, IndexFirst, IndexExists
  <2>5. Exclusive' /\ WellFormed' /\ IndexFirst' /\ IndexFollows'
    BY <2>1, <2>4
       DEF StoreInv, Exclusive, Working, WellFormed, IndexFirst, IndexExists, IndexFollows, At
  <2>6. \A u \in Topic : store'[u] = store[u] \/ store'[u].author = "outside"
    BY <1>0, <2>2 DEF TypeOK, File
  <2>7. EditIsCurrent'
    BY <2>1, <2>6 DEF StoreInv, EditIsCurrent, WellFormed, At
  <2> QED
    BY <2>3, <2>5, <2>7 DEF StoreInv
<1>16. ASSUME NEW p \in Process, Crash(p) PROVE StoreInv'
  <2> DEFINE callers == {c \in Caller : ProcessOf[c] = p}
  <2>1. /\ UNCHANGED <<store, index, check, expired>>
        /\ op' = [c \in Caller |-> IF c \in callers THEN Idle ELSE op[c]]
        /\ holder' = IF holder \in callers THEN Nothing ELSE holder
        /\ indexStale' = (indexStale \/ LeftBehind(callers))
    BY <1>16 DEF Crash
  <2>2. Idle \in OpType /\ Idle.at = "idle" /\ Idle.kind = "none"
    BY NoSnapshotType DEF Idle, Operation, OpType, Contents
  <2>3. TypeOK'
    BY <1>0, <2>1, <2>2 DEF TypeOK, LeftBehind
  <2>4. \A c \in Caller : \/ c \in callers /\ op'[c].at = "idle" /\ op'[c].kind = "none"
                          \/ c \notin callers /\ op'[c] = op[c]
    BY <2>1, <2>2
  <2>5. Exclusive'
    BY <2>1, <2>4 DEF StoreInv, Exclusive, Working
  <2>6. WellFormed' /\ EditIsCurrent'
    BY <2>1, <2>4 DEF StoreInv, WellFormed, EditIsCurrent, At
  <2>7. IndexFirst'
    BY <2>1, <2>4 DEF StoreInv, IndexFirst, IndexExists, Present
  <2>8. ~indexStale' => ~indexStale /\ \A c \in callers : op[c].at \notin {"replaced", "scanned"}
    BY <2>1 DEF LeftBehind
  <2>9. \A rows : Agree(rows) => Rows(store)' \subseteq rows /\ rows \subseteq RowsAt(store, {})'
    BY <2>1, StillAgrees
  <2>10. (\A c \in Caller : op'[c].at \notin {"replaced", "scanned"}) /\ ~indexStale'
            => Agree(index.rows)
    BY <2>4, <2>8 DEF StoreInv, IndexFollows
  <2>11. \A c \in Caller : op'[c].at = "scanned" /\ ~indexStale' => Agree(op'[c].rows)
    BY <2>4, <2>8 DEF StoreInv, IndexFollows, At
  <2>12. IndexFollows'
    BY <2>1, <2>9, <2>10, <2>11 DEF IndexFollows, Agree, At
  <2> QED
    BY <2>3, <2>5, <2>6, <2>7, <2>12 DEF StoreInv
<1>17. CASE CheckStart \/ \E f \in Files : FirstLook(f) \/ Read(f) \/ SecondLook(f)
  <2>1. UNCHANGED <<store, index, holder, op, indexStale, expired>>
    BY <1>17 DEF CheckStart, FirstLook, Read, SecondLook
  <2>2. check' \in CheckType
    BY <1>0, <1>17, CheckTyped
  <2> QED
    BY <1>0, <2>1, <2>2
       DEF StoreInv, TypeOK, Exclusive, Working, WellFormed, IndexFirst, IndexExists, Present,
           IndexFollows, Agree, Rows, RowsAt, EditIsCurrent, At
<1>18. ASSUME NEW content \in Content, Expire(content) PROVE StoreInv'
  <2>1. /\ UNCHANGED <<store, index, holder, op, check, indexStale>>
        /\ expired \subseteq expired' /\ expired' \in SUBSET Temporary
    BY <1>0, <1>18 DEF Expire
  <2>2. \A rows : Agree(rows) => Rows(store)' \subseteq rows /\ rows \subseteq RowsAt(store, {})'
    BY <2>1, StillAgrees
  <2>3. IndexFollows'
    BY <2>1, <2>2 DEF StoreInv, IndexFollows, Agree, At
  <2> QED
    BY <2>1, <2>3
       DEF StoreInv, TypeOK, Exclusive, Working, WellFormed, IndexFirst, IndexExists, Present,
           EditIsCurrent, At
<1> QED
  BY <1>1, <1>2, <1>4, <1>5, <1>6, <1>7, <1>8, <1>9, <1>10, <1>11, <1>12, <1>13, <1>14, <1>15,
     <1>16, <1>17, <1>18 DEF Next, Step

-----------------------------------------------------------------------------
(* The check.                                                              *)

\* Nothing is seen of a file that has not been there yet.
SeenBefore == \A f \in Files : check.seen[f] <= Version(f)

Unchanged(files) == \A f \in files : Version(f) = check.seen[f]

\* While it reads: what it has read is what is there, and so is what it has found the
\* store to be, unless some file has changed since it was looked at.
ReadsTheTruth ==
    check.at = "reading" /\ Unchanged(Files) =>
        /\ check.sound = Sound
        /\ \A t \in Topic \ check.todo : check.topics[t] = store[t]
        /\ Nothing \notin check.todo => check.rows = index.rows

\* While it compares: every file whose turn is still to come is looked at once more.
ComparesTheRest ==
    check.at = "comparing" /\ Unchanged(check.todo) /\ NoIssue => check.sound

\* The inductive invariant of a check.
CheckInv == SeenBefore /\ ReadsTheTruth /\ ComparesTheRest /\ CleanCheckIsTrue

\* A file that changes gets a newer version.
LEMMA ChangesAreNewer ==
  ASSUME StoreInv, [Next]_vars
  PROVE  /\ \A t \in Topic : store'[t] = store[t] \/ store'[t].version > store[t].version
         /\ index' = index \/ index'.version > index.version
<1>0. TypeOK /\ (EnsuredIndex = index \/ EnsuredIndex.version > index.version)
  BY Ensured DEF StoreInv
<1>1. CASE UNCHANGED store /\ (index' = index \/ index' = EnsuredIndex)
  BY <1>0, <1>1
<1>2. ASSUME NEW c \in Caller, Replace(c) PROVE \A t \in Topic : store'[t] = store[t] \/ store'[t].version > store[t].version
  BY <1>0, <1>2 DEF Replace, TypeOK, FileType, File
<1>3. ASSUME NEW c \in Caller, WriteIndex(c) PROVE index'.version > index.version
  BY <1>0, <1>3 DEF WriteIndex, TypeOK, IndexType, Index
<1>4. ASSUME NEW u \in Topic, Outside(u) PROVE \A t \in Topic : store'[t] = store[t] \/ store'[t].version > store[t].version
  BY <1>0, <1>4 DEF Outside, TypeOK, FileType, File
<1>5. ASSUME NEW c \in Caller,
             \/ Acquire(c) \/ LockTimeout(c) \/ TakeSnapshot(c) \/ EditConflict(c) \/ Validate(c)
             \/ Refuse(c) \/ Recheck(c) \/ Scan(c) \/ Commit(c)
             \/ Mutate(c) \/ StartExtraction(c) \/ EndExtraction(c) \/ Fail(c)
      PROVE  UNCHANGED store /\ (index' = index \/ index' = EnsuredIndex)
  BY <1>5 DEF Acquire, LockTimeout, TakeSnapshot, EditConflict, Validate, Refuse, Recheck, Scan,
              Commit, Mutate, StartExtraction, EndExtraction, Fail
<1>6. ASSUME \/ CheckStart \/ UNCHANGED vars \/ \E p \in Process : Crash(p)
             \/ \E content \in Content : Expire(content)
             \/ \E f \in Files : FirstLook(f) \/ Read(f) \/ SecondLook(f)
      PROVE  UNCHANGED <<store, index>>
  BY <1>6 DEF CheckStart, FirstLook, Read, SecondLook, vars, Crash, Expire
<1>7. \A c \in Caller : (Replace(c) => UNCHANGED index) /\ (WriteIndex(c) => UNCHANGED store)
  BY DEF Replace, WriteIndex
<1>8. \A t \in Topic : Outside(t) => UNCHANGED index
  BY DEF Outside
<1> QED
  BY <1>1, <1>2, <1>3, <1>4, <1>5, <1>6, <1>7, <1>8 DEF Next, Step

LEMMA CheckInit == Init => CheckInv
<1> SUFFICES ASSUME Init PROVE CheckInv
  OBVIOUS
<1>1. check.at = "no" /\ \A f \in Files : check.seen[f] = 0
  BY DEF Init, NoCheck
<1>2. TypeOK
  BY StoreInit DEF StoreInv
<1> QED
  BY <1>1, <1>2, VersionType
     DEF CheckInv, SeenBefore, ReadsTheTruth, ComparesTheRest, CleanCheckIsTrue

\* The store goes on while the check does not.
LEMMA OthersKeepCheck ==
  ASSUME StoreInv, StoreInv', CheckInv, [Next]_vars, UNCHANGED check
  PROVE  CheckInv'
<1>1. \A f \in Files : /\ Version(f) \in Nat /\ Version(f)' \in Nat /\ Version(f) <= Version(f)'
                       /\ Version(f) = Version(f)' =>
                            IF f = Nothing THEN index' = index ELSE store'[f] = store[f]
  <2>1. \A f \in Files : Version(f) \in Nat
    BY VersionType DEF StoreInv
  <2>2. \A f \in Files : Version(f)' \in Nat
    BY DEF StoreInv, TypeOK, Version, Files, FileType, IndexType
  <2> QED
    BY <2>1, <2>2, ChangesAreNewer DEF Version, Files
<1>2. \A f \in Files : check.seen[f] \in Nat
  BY DEF StoreInv, TypeOK, CheckType
<1>3. \A f \in Files : Version(f)' = check.seen[f] => Version(f) = Version(f)'
  BY <1>1, <1>2 DEF CheckInv, SeenBefore
<1>4. SeenBefore'
  BY <1>1, <1>2 DEF CheckInv, SeenBefore
<1>5. ReadsTheTruth'
  <2> SUFFICES ASSUME check.at = "reading", \A f \in Files : Version(f)' = check.seen[f]
               PROVE  /\ check.sound = Sound'
                      /\ \A t \in Topic \ check.todo : check.topics[t] = store'[t]
                      /\ Nothing \notin check.todo => check.rows = index'.rows
    BY DEF ReadsTheTruth, Unchanged
  <2>1. index' = index /\ \A t \in Topic : store'[t] = store[t]
    BY <1>1, <1>3, CallersAssumption DEF Files
  <2>2. store' = store
    BY <2>1 DEF StoreInv, TypeOK
  <2>3. Unchanged(Files) /\ Sound' = Sound
    BY <1>3, <2>1, <2>2 DEF Unchanged, Sound, Clean, RowsAt, NoDuplicates
  <2> QED
    BY <2>1, <2>2, <2>3 DEF CheckInv, ReadsTheTruth
<1>6. ComparesTheRest'
  <2>1. NoIssue' <=> NoIssue
    BY DEF NoIssue, Clean, RowsAt, NoDuplicates
  <2>2. Unchanged(check.todo)' => Unchanged(check.todo)
    BY <1>3 DEF Unchanged, StoreInv, TypeOK, CheckType
  <2> QED
    BY <2>1, <2>2 DEF CheckInv, ComparesTheRest
<1>7. CleanCheckIsTrue'
  BY DEF CheckInv, CleanCheckIsTrue
<1> QED
  BY <1>4, <1>5, <1>6, <1>7 DEF CheckInv

\* The steps of the check itself leave the files alone.
LEMMA CheckStep ==
  ASSUME StoreInv, CheckInv, CheckStart \/ \E f \in Files : FirstLook(f) \/ Read(f) \/ SecondLook(f)
  PROVE  CheckInv'
<1>0. /\ check \in CheckType /\ TypeOK
      /\ \A f \in Files : Version(f) \in Nat /\ check.seen[f] \in Nat
  BY VersionType DEF StoreInv, TypeOK, CheckType
<1>1. UNCHANGED <<store, index>>
  BY DEF CheckStart, FirstLook, Read, SecondLook
<1>2. \A f \in Files : Version(f)' = Version(f)
  BY <1>1 DEF Version
<1>3. check'.now = check.now => Sound' = Sound
  BY <1>1 DEF Sound, Clean, RowsAt, NoDuplicates
<1>4. CASE CheckStart
  <2>1. check'.at = "looking" /\ \A f \in Files : check'.seen[f] = 0
    BY <1>4 DEF CheckStart, NoCheck
  <2> QED
    BY <1>0, <1>2, <2>1
       DEF CheckInv, SeenBefore, ReadsTheTruth, ComparesTheRest, CleanCheckIsTrue
<1>5. ASSUME NEW f \in Files, FirstLook(f) PROVE CheckInv'
  <2>1. /\ check'.at = PhaseAfter(f, "reading") /\ check'.todo = TodoAfter(f)
        /\ check'.sound = Sound /\ check'.now = check.now
        /\ \A g \in Files : check'.seen[g] = IF g = f THEN Version(f) ELSE check.seen[g]
        /\ check.at = "looking"
    BY <1>0, <1>5 DEF FirstLook, CheckType
  <2>2. SeenBefore'
    BY <1>0, <1>2, <2>1 DEF CheckInv, SeenBefore
  <2>3. check'.at = "reading" => check'.todo = Files
    BY <2>1 DEF PhaseAfter, TodoAfter
  <2>4. ReadsTheTruth'
    BY <1>3, <2>1, <2>3 DEF ReadsTheTruth, Files
  <2>5. check'.at \notin {"comparing", "clean"}
    BY <2>1 DEF PhaseAfter
  <2> QED
    BY <2>2, <2>4, <2>5 DEF CheckInv, ComparesTheRest, CleanCheckIsTrue
<1>6. ASSUME NEW f \in Files, Read(f) PROVE CheckInv'
  <2>1. /\ check.at = "reading" /\ f \in check.todo
        /\ check'.at = PhaseAfter(f, "comparing") /\ check'.todo = TodoAfter(f)
        /\ check'.sound = check.sound /\ check'.seen = check.seen /\ check'.now = check.now
        /\ check'.rows = IF f = Nothing THEN index.rows ELSE check.rows
        /\ check'.topics = IF f = Nothing THEN check.topics ELSE [check.topics EXCEPT ![f] = store[f]]
    BY <1>0, <1>6 DEF Read, CheckType
  <2>2. SeenBefore'
    BY <1>2, <2>1 DEF CheckInv, SeenBefore
  <2>3. /\ check'.topics \in [Topic -> FileType]
        /\ \A t \in Topic : check'.topics[t] = IF t = f THEN store[t] ELSE check.topics[t]
    <3>1. check.topics \in [Topic -> FileType] /\ store \in [Topic -> FileType] /\ Nothing \notin Topic
      BY <1>0, CallersAssumption DEF CheckType, TypeOK
    <3>2. CASE f = Nothing
      BY <2>1, <3>1, <3>2
    <3>3. CASE f # Nothing
      <4>1. check'.topics = [check.topics EXCEPT ![f] = store[f]]
        BY <2>1, <3>3
      <4>2. f \in Topic
        BY <3>3 DEF Files
      <4> QED
        BY <3>1, <4>1, <4>2
    <3> QED
      BY <3>2, <3>3
  <2>4. ASSUME Unchanged(Files)
        PROVE  /\ check.sound = Sound
               /\ \A t \in Topic \ (check.todo \ {f}) : check'.topics[t] = store[t]
               /\ Nothing \notin check.todo \ {f} => check'.rows = index.rows
    BY <2>1, <2>3, <2>4 DEF CheckInv, ReadsTheTruth
  <2>5. Unchanged(Files)' <=> Unchanged(Files)
    BY <1>2, <2>1 DEF Unchanged
  <2>6. ReadsTheTruth'
    BY <1>1, <1>3, <2>1, <2>4, <2>5 DEF ReadsTheTruth, PhaseAfter, TodoAfter
  <2>7. ASSUME check'.at = "comparing", Unchanged(Files), NoIssue' PROVE check'.sound
    <3>1. check.todo = {f}
      BY <2>1, <2>7 DEF PhaseAfter
    <3>2. check'.rows = index.rows /\ \A t \in Topic : check'.topics[t] = store[t]
      BY <2>4, <2>7, <3>1
    <3>3. check'.topics = store
      BY <1>0, <2>3, <3>2 DEF TypeOK
    <3>4. Sound
      BY <2>1, <2>7, <3>2, <3>3 DEF NoIssue, Sound, Clean, RowsAt, NoDuplicates
    <3> QED
      BY <2>1, <2>4, <2>7, <3>4
  <2>8. check'.at = "comparing" => check'.todo = Files
    BY <2>1 DEF PhaseAfter, TodoAfter
  <2>9. ComparesTheRest'
    BY <2>5, <2>7, <2>8 DEF ComparesTheRest
  <2>10. CleanCheckIsTrue'
    BY <2>1 DEF CleanCheckIsTrue, PhaseAfter
  <2> QED
    BY <2>2, <2>6, <2>9, <2>10 DEF CheckInv
<1>7. ASSUME NEW f \in Files, SecondLook(f) PROVE CheckInv'
  <2>1. check.at = "comparing" /\ f \in check.todo
    BY <1>7 DEF SecondLook
  <2>2. \A at \in {"concurrent modification", "clean", "issues"} :
           /\ Report(at).at = at /\ Report(at).sound = check.sound
           /\ \A g \in Files : Report(at).seen[g] = 0
    BY DEF Report, NoCheck
  <2>3. CASE check' \in {Report("concurrent modification"), Report("issues")}
    <3>1. \A g \in Files : check'.seen[g] = 0
      BY <2>2, <2>3
    <3>2. check'.at # "reading" /\ check'.at # "comparing" /\ check'.at # "clean"
      BY <2>2, <2>3
    <3>3. SeenBefore'
      BY <1>0, <1>2, <3>1 DEF SeenBefore
    <3> QED
      BY <3>2, <3>3 DEF CheckInv, ReadsTheTruth, ComparesTheRest, CleanCheckIsTrue
  <2>4. CASE check.seen[f] = Version(f) /\ check.todo = {f} /\ NoIssue /\ check' = Report("clean")
    <3>1. check.sound
      BY <2>1, <2>4 DEF CheckInv, ComparesTheRest, Unchanged
    <3>2. /\ check'.at = "clean" /\ check'.sound = check.sound
          /\ \A g \in Files : check'.seen[g] = 0
      BY <2>2, <2>4
    <3> QED
      BY <1>0, <1>2, <3>1, <3>2
         DEF CheckInv, SeenBefore, ReadsTheTruth, ComparesTheRest, CleanCheckIsTrue
  <2>5. CASE check.seen[f] = Version(f) /\ check' = [check EXCEPT !.todo = @ \ {f}]
    <3>1. /\ check'.at = check.at /\ check'.todo = check.todo \ {f} /\ check'.seen = check.seen
          /\ check'.topics = check.topics /\ check'.rows = check.rows /\ check'.sound = check.sound
          /\ check'.now = check.now
      BY <1>0, <2>5 DEF CheckType
    <3>2. SeenBefore'
      BY <1>2, <3>1 DEF CheckInv, SeenBefore
    <3>3. Unchanged(check.todo)' => Unchanged(check.todo)
      BY <1>0, <1>2, <2>5, <3>1 DEF Unchanged, CheckType
    <3>4. NoIssue' <=> NoIssue
      BY <3>1 DEF NoIssue, Clean, RowsAt, NoDuplicates
    <3>5. ReadsTheTruth' /\ ComparesTheRest' /\ CleanCheckIsTrue'
      BY <2>1, <3>1, <3>3, <3>4 DEF CheckInv, ReadsTheTruth, ComparesTheRest, CleanCheckIsTrue
    <3> QED
      BY <3>2, <3>5 DEF CheckInv
  <2> QED
    BY <1>7, <2>3, <2>4, <2>5 DEF SecondLook
<1> QED
  BY <1>4, <1>5, <1>6, <1>7

-----------------------------------------------------------------------------
LEMMA StoreAlways == Spec => []StoreInv
  BY StoreInit, StoreStep, PTL DEF Spec

(* Between two mutations the index has a row for every topic that has not  *)
(* expired, with what the topic says, and no other but of topics that      *)
(* expired since, unless the user or an operation that ended between topic *)
(* and index has left it behind (memory.ts:591, memory.ts:1516).           *)
THEOREM IndexIsCurrent == Spec => []IndexAgrees
<1>1. StoreInv => IndexAgrees
  <2> SUFFICES ASSUME StoreInv, holder = Nothing, ~indexStale PROVE Agree(index.rows)
    BY DEF IndexAgrees
  <2>1. \A c \in Caller : ~Working(c)
    BY CallersAssumption DEF StoreInv, Exclusive
  <2> QED
    BY <2>1 DEF StoreInv, IndexFollows, Working, TypeOK, OpType
<1> QED
  BY <1>1, StoreAlways, PTL

(* An edit is never committed over what another agent has written since    *)
(* the edit read the topic (memory.ts:591).                                *)
THEOREM NothingIsOverwritten == Spec => EditsKeepOthersWork
<1> DEFINE Kept == \A c \in Caller :
                      op[c].at = "checked" /\ op'[c].at = "replaced" =>
                         \/ store[op[c].topic].version = op[c].snapshot.version
                         \/ store[op[c].topic].author = "outside"
<1>1. StoreInv => Kept
  BY DEF StoreInv, EditIsCurrent, At
<1>2. StoreInv /\ [Next]_vars => [Kept]_vars
  BY <1>1
<1>3. Spec => [][Kept]_vars
  BY <1>2, StoreAlways, PTL DEF Spec
<1> QED
  BY <1>3 DEF EditsKeepOthersWork

(* A check that finds nothing is right about a moment of the check         *)
(* (memory.ts:284): every file it read is what it was when the last first  *)
(* look was taken, or the second look would have told.                     *)
THEOREM CleanIsTrue == Spec => []CleanCheckIsTrue
<1>1. StoreInv /\ CheckInv /\ [Next]_vars => CheckInv'
  <2> SUFFICES ASSUME StoreInv, CheckInv, [Next]_vars PROVE CheckInv'
    OBVIOUS
  <2>1. StoreInv'
    BY StoreStep
  <2>2. CASE UNCHANGED check
    BY <2>1, <2>2, OthersKeepCheck
  <2>3. CASE CheckStart \/ \E f \in Files : FirstLook(f) \/ Read(f) \/ SecondLook(f)
    BY <2>3, CheckStep
  <2> QED
    BY <2>2, <2>3
       DEF Next, Step, vars, Acquire, LockTimeout, TakeSnapshot, EditConflict, Validate, Refuse,
           Recheck, Replace, Scan, WriteIndex, Commit, Mutate, StartExtraction, EndExtraction,
           Fail, Crash, Outside, Expire
<1>2. CheckInv => CleanCheckIsTrue
  BY DEF CheckInv
<1> QED
  BY <1>1, <1>2, CheckInit, StoreAlways, PTL DEF Spec
-----------------------------------------------------------------------------
(* What an operation was validated against.                                *)

UsedType == used \in [{"mutations", "outside", "faults", "checks", "expiries"} -> Nat]

\* The inductive invariant: as long as the user has changed nothing, the store is valid,
\* and stays so when any of the operations that have been validated is carried out.
ValidInv ==
    /\ UsedType
    /\ AgentsKeepTheStoreValid
    /\ used.outside = 0 =>
          \A c \in Caller : op[c].at \in {"valid", "checked"} => Accepts(op[c].topic, op[c].new)

LEMMA Counted ==
  ASSUME UsedType, NEW kind \in {"mutations", "outside", "faults", "checks", "expiries"}, Count(kind)
  PROVE  /\ UsedType'
         /\ used'.outside = 0 => used.outside = 0 /\ kind # "outside"
  BY DEF UsedType, Count

\* A topic of an accepted content is no duplicate, and there is room for it.
LEMMA AcceptedIsValid ==
  ASSUME TypeOK, NEW t \in Topic, NEW file, Accepts(t, file.content),
         NoDuplicates(store), FileCount <= MaxFiles,
         store' = [store EXCEPT ![t] = file]
  PROVE  NoDuplicates(store)' /\ (FileCount <= MaxFiles)'
<1>1. \A u \in Topic : store'[u] = IF u = t THEN file ELSE store[u]
  BY DEF TypeOK
<1>2. NoDuplicates(store)'
  BY <1>1 DEF Accepts, NoDuplicates, Present
<1>3. IsFiniteSet(Present) /\ Present \subseteq Topic
  BY FilesAssumption, FS_Subset DEF Present
<1>4. Present' \subseteq Present \cup {t}
  BY <1>1 DEF Present
<1>5. /\ IsFiniteSet(Present \cup {t})
      /\ Cardinality(Present \cup {t}) = IF t \in Present THEN Cardinality(Present)
                                         ELSE Cardinality(Present) + 1
  BY <1>3, FS_AddElement
<1>6. Cardinality(Present') <= Cardinality(Present \cup {t})
  BY <1>4, <1>5, FS_Subset
<1>7. Cardinality(Present) \in Nat /\ Cardinality(Present') \in Nat
  <2>1. IsFiniteSet(Present')
    BY <1>4, <1>5, FS_Subset
  <2> QED
    BY <1>3, <2>1, FS_CardinalityType
<1>8. (FileCount <= MaxFiles)'
  BY <1>5, <1>6, <1>7, FilesAssumption DEF Accepts, FileCount
<1> QED
  BY <1>2, <1>8

\* Everything that leaves the topics alone: only what has been accepted is validated.
LEMMA ValidKeeps ==
  ASSUME ValidInv, UNCHANGED store, UsedType', used'.outside = 0 => used.outside = 0,
         \A c \in Caller :
            op'[c].at \in {"valid", "checked"} =>
               \/ /\ op[c].at \in {"valid", "checked"}
                  /\ op'[c].topic = op[c].topic /\ op'[c].new = op[c].new
               \/ Accepts(op'[c].topic, op'[c].new)
  PROVE  ValidInv'
  BY DEF ValidInv, AgentsKeepTheStoreValid, NoDuplicates, FileCount, Present, Accepts

LEMMA ValidStep == StoreInv /\ ValidInv /\ [Next]_vars => ValidInv'
<1> SUFFICES ASSUME StoreInv, ValidInv, [Next]_vars PROVE ValidInv'
  OBVIOUS
<1>0. TypeOK /\ UsedType
  BY DEF StoreInv, ValidInv
\* A step of one caller that touches no topic.
<1>1. ASSUME NEW c \in Caller, UNCHANGED store, OthersStay(c), UsedType',
             used'.outside = 0 => used.outside = 0,
             op'[c].at \in {"valid", "checked"} =>
               \/ /\ op[c].at \in {"valid", "checked"}
                  /\ op'[c].topic = op[c].topic /\ op'[c].new = op[c].new
               \/ Accepts(op'[c].topic, op'[c].new)
      PROVE  ValidInv'
  BY <1>1, ValidKeeps DEF OthersStay
<1>2. ASSUME NEW c \in Caller, Leave(c), UNCHANGED store, UsedType',
             used'.outside = 0 => used.outside = 0
      PROVE  ValidInv'
  BY <1>0, <1>1, <1>2, Leaves
<1>3. ASSUME NEW c \in Caller, LockTimeout(c) \/ EditConflict(c) \/ Refuse(c) \/ Commit(c)
      PROVE  ValidInv'
  BY <1>0, <1>2, <1>3 DEF LockTimeout, EditConflict, Refuse, Commit, UsedType
<1>4. ASSUME NEW c \in Caller, Fail(c) PROVE ValidInv'
  BY <1>0, <1>2, <1>4, Counted DEF Fail
<1>5. ASSUME NEW c \in Caller, Acquire(c) \/ WriteIndex(c) PROVE ValidInv'
  <2>1. /\ UNCHANGED <<store, used>>
        /\ \E at \in {"locked", "indexed"} : To(c, at)
    BY <1>5 DEF Acquire, WriteIndex
  <2>2. OthersStay(c) /\ op'[c].at \in {"locked", "indexed"}
    BY <1>0, <2>1, Moves DEF Ats
  <2> QED
    BY <1>0, <1>1, <2>1, <2>2 DEF UsedType
<1>6. ASSUME NEW c \in Caller, Scan(c) \/ TakeSnapshot(c) PROVE ValidInv'
  <2>1. /\ UNCHANGED <<store, used>>
        /\ \/ op' = [op EXCEPT ![c].at = "scanned", ![c].rows = Rows(store)]
           \/ op' = [op EXCEPT ![c].at = "read", ![c].snapshot = store[op[c].topic]]
    BY <1>6 DEF Scan, TakeSnapshot
  <2>2. OthersStay(c) /\ op'[c].at \in {"scanned", "read"}
    BY <1>0, <2>1 DEF TypeOK, OpType, OthersStay
  <2> QED
    BY <1>0, <1>1, <2>1, <2>2 DEF UsedType
<1>7. ASSUME NEW c \in Caller, Validate(c) PROVE ValidInv'
  <2>1. /\ UNCHANGED <<store, used>> /\ To(c, "valid") /\ Accepts(op[c].topic, op[c].new)
    BY <1>7 DEF Validate
  <2>2. OthersStay(c) /\ op'[c].topic = op[c].topic /\ op'[c].new = op[c].new
    BY <1>0, <2>1, Moves DEF Ats
  <2> QED
    BY <1>0, <1>1, <2>1, <2>2 DEF UsedType
<1>8. ASSUME NEW c \in Caller, Recheck(c) PROVE ValidInv'
  <2>1. UNCHANGED <<store, used>> /\ To(c, "checked") /\ op[c].at = "valid"
    BY <1>8 DEF Recheck, At
  <2>2. OthersStay(c) /\ op'[c].topic = op[c].topic /\ op'[c].new = op[c].new
    BY <1>0, <2>1, Moves DEF Ats
  <2> QED
    BY <1>0, <1>1, <2>1, <2>2 DEF UsedType
<1>9. ASSUME NEW c \in Caller, Mutate(c) \/ EndExtraction(c) PROVE ValidInv'
  <2>1. PICK request : Submit(c, request) /\ request.at = "queued"
    BY <1>9 DEF Mutate, EndExtraction, Requests, Operation
  <2>2. OthersStay(c) /\ op'[c].at = "queued"
    BY <1>0, <2>1 DEF TypeOK, Submit, OthersStay
  <2>3. UNCHANGED store /\ (UNCHANGED used \/ Count("mutations"))
    BY <1>9 DEF Mutate, EndExtraction
  <2> QED
    BY <1>0, <1>1, <2>2, <2>3, Counted DEF UsedType
<1>10. ASSUME NEW c \in Caller, StartExtraction(c) PROVE ValidInv'
  BY <1>0, <1>10, ValidKeeps, Counted DEF StartExtraction
<1>11. ASSUME NEW c \in Caller, Replace(c) PROVE ValidInv'
  <2>1. /\ UNCHANGED used /\ op[c].at \in {"valid", "checked"} /\ To(c, "replaced")
        /\ store' = [store EXCEPT ![op[c].topic] = File(op[c].new, @.version + 1, "agent")]
    BY <1>11 DEF Replace, At
  <2>2. OthersStay(c) /\ op'[c].at = "replaced"
    BY <1>0, <2>1, Moves DEF Ats
  <2>3. \A d \in Caller : op'[d].at \notin {"valid", "checked"}
    BY <2>1, <2>2 DEF StoreInv, Exclusive, Working, OthersStay
  <2>4. ASSUME used.outside = 0 PROVE NoDuplicates(store)' /\ (FileCount <= MaxFiles)'
    <3>1. Accepts(op[c].topic, op[c].new) /\ NoDuplicates(store) /\ FileCount <= MaxFiles
      BY <2>1, <2>4 DEF ValidInv, AgentsKeepTheStoreValid
    <3>2. CASE op[c].topic \in Topic
      <4> DEFINE file == File(op[c].new, store[op[c].topic].version + 1, "agent")
      <4>1. file.content = op[c].new
        BY DEF File
      <4>2. store' = [store EXCEPT ![op[c].topic] = file]
        BY <2>1
      <4> HIDE DEF file
      <4> QED
        BY <1>0, <3>1, <3>2, <4>1, <4>2, AcceptedIsValid
    <3>3. CASE op[c].topic \notin Topic
      <4>1. store' = store
        BY <1>0, <2>1, <3>3 DEF TypeOK
      <4> QED
        BY <3>1, <4>1 DEF NoDuplicates, FileCount, Present
    <3> QED
      BY <3>2, <3>3
  <2> QED
    BY <1>0, <2>1, <2>3, <2>4 DEF ValidInv, AgentsKeepTheStoreValid, UsedType
<1>12. ASSUME NEW t \in Topic, Outside(t) PROVE ValidInv'
  BY <1>0, <1>12, Counted DEF Outside, ValidInv, AgentsKeepTheStoreValid
<1>13. ASSUME NEW p \in Process, Crash(p) PROVE ValidInv'
  <2>1. UNCHANGED store /\ Count("faults") /\ \A c \in Caller : op'[c] = op[c] \/ op'[c] = Idle
    BY <1>13 DEF Crash
  <2>2. Idle.at = "idle"
    BY DEF Idle, Operation
  <2> QED
    BY <1>0, <2>1, <2>2, ValidKeeps, Counted
<1>14. CASE \/ UNCHANGED vars \/ \E content \in Content : Expire(content)
            \/ CheckStart \/ \E f \in Files : FirstLook(f) \/ Read(f) \/ SecondLook(f)
  <2>1. UNCHANGED <<store, op>> /\ (UNCHANGED used \/ Count("checks") \/ Count("expiries"))
    BY <1>14 DEF vars, Expire, CheckStart, FirstLook, Read, SecondLook
  <2> QED
    BY <1>0, <2>1, ValidKeeps, Counted DEF UsedType
<1> QED
  BY <1>3, <1>4, <1>5, <1>6, <1>7, <1>8, <1>9, <1>10, <1>11, <1>12, <1>13, <1>14 DEF Next, Step

(* As long as the user has changed nothing, no two topics say the same and *)
(* no more files are there than there is room for, whatever agents of any  *)
(* processes write (memory.ts:457, memory.ts:596).                         *)
THEOREM StoreStaysValid == Spec => []AgentsKeepTheStoreValid
<1>1. Init => ValidInv
  BY DEF Init, ValidInv, UsedType, AgentsKeepTheStoreValid, Idle, Operation
<1>2. ValidInv => AgentsKeepTheStoreValid
  BY DEF ValidInv
<1> QED
  BY <1>1, <1>2, ValidStep, StoreAlways, PTL DEF Spec
=============================================================================
