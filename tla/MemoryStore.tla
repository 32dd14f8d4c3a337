----------------------------- MODULE MemoryStore -----------------------------
(***************************************************************************)
(* The memory of a project (src/src/memory.ts): topic files and an index   *)
(* that is made from them.  Agents of several processes write and edit     *)
(* topics, a memory extraction (src/src/memoryExtract.ts) does so in the   *)
(* background and refreshes the index at its end, the user may edit the    *)
(* files, and a check reads them without any lock.                         *)
(*                                                                         *)
(* A content stands for a valid topic file; two topics with one content    *)
(* are what the code calls duplicates (of a description or of a body).     *)
(* One that has a ttl expires at some time, also before it is written.     *)
(***************************************************************************)
EXTENDS Naturals, Sequences, FiniteSets

CONSTANTS
    Process, Caller,    \* processes; the agents in them that change the memory
    ProcessOf,          \* [Caller -> Process]
    Extractor,          \* the callers that are memory extractions
    Topic, Content,
    Temporary,          \* the contents that have a ttl
    Nothing,            \* the content of a topic that is not there, no caller
    MaxFiles,           \* MAX_MEMORY_FILES, the index included
    Limits              \* bounds: the scenarios, each with how many mutations (extractions
                        \* included), changes by the user, faults, checks and expiries
                        \* it has

ASSUME CallersAssumption ==
    /\ ProcessOf \in [Caller -> Process]
    /\ Extractor \subseteq Caller
    /\ Nothing \notin Caller \cup Content \cup Topic

ASSUME FilesAssumption == IsFiniteSet(Topic) /\ MaxFiles \in Nat /\ Temporary \subseteq Content

VARIABLES
    store,      \* the topic files: content, version, and who wrote it last
    index,      \* MEMORY.md: its rows and version, version 0 while it is missing
    tails,      \* memoryMutationTails: the callers of a process, oldest first
    holder,     \* the caller whose transaction holds the mutation database
    op,         \* what each caller is doing
    extracting, \* the extractions that are at work
    check,      \* a check of the store
    expired,    \* the contents whose ttl has passed
    indexStale, \* history: something other than a mutation left the index behind
    used        \* history: what has happened of what Limits bounds

vars == <<store, index, tails, holder, op, extracting, check, expired, indexStale, used>>

Count(kind) ==
    /\ used' = [used EXCEPT ![kind] = @ + 1]
    /\ \E limit \in Limits : \A k \in DOMAIN limit : used'[k] <= limit[k]

-----------------------------------------------------------------------------
(* The files.                                                              *)

File(content, version, author) == [content |-> content, version |-> version, author |-> author]

Present == {t \in Topic : store[t].content # Nothing}

\* formatMemoryIndex: a row for every topic that has not expired by then.
RowsAt(topics, gone) ==
    {<<t, topics[t].content>> : t \in {u \in Topic : topics[u].content \notin {Nothing} \cup gone}}

Rows(topics) == RowsAt(topics, expired)

\* Rows that say what the topics say, but for topics that expired after they were made.
Agree(rows) == Rows(store) \subseteq rows /\ rows \subseteq RowsAt(store, {})

Index(rows, version) == [rows |-> rows, version |-> version]
IndexExists == index.version > 0

\* ensureMemoryStore creates an empty index when there is none.
EnsuredIndex == IF IndexExists THEN index ELSE Index({}, 1)

\* The markdown files: the topics and the index that has been ensured.
FileCount == Cardinality(Present) + 1

NoDuplicates(topics) ==
    \A t, u \in Topic :
        t # u /\ topics[t].content = topics[u].content => topics[t].content = Nothing

\* validateMemoryWrite, for a topic that is valid by itself.
Accepts(t, content) ==
    /\ \A u \in Present \ {t} : store[u].content # content
    /\ t \in Present \/ FileCount < MaxFiles

-----------------------------------------------------------------------------
(* One operation at a time: in a process by a chain of promises, between   *)
(* processes by a transaction of a database, which ends with the process.  *)

NoSnapshot == File(Nothing, 0, "agent")

Operation(at, kind, topic, old, new) ==
    [at |-> at, kind |-> kind, topic |-> topic, old |-> old, new |-> new,
     snapshot |-> NoSnapshot, rows |-> {}]
Idle == Operation("idle", "none", Nothing, Nothing, Nothing)

At(c, at) == op[c].at = at
To(c, at) == op' = [op EXCEPT ![c].at = at]

Working(c) == op[c].at \notin {"idle", "queued"}
First(c) == tails[ProcessOf[c]] # <<>> /\ Head(tails[ProcessOf[c]]) = c

Submit(c, operation) ==
    /\ At(c, "idle")
    /\ op' = [op EXCEPT ![c] = operation]
    /\ tails' = [tails EXCEPT ![ProcessOf[c]] = Append(@, c)]

\* Wrong on purpose, for the check of the properties: one lock per process.
AcquireInProcess(c) ==
    /\ At(c, "queued") /\ First(c)
    /\ holder' = c
    /\ To(c, "locked")
    /\ UNCHANGED <<store, index, tails, extracting, check, expired, indexStale, used>>

Acquire(c) ==
    /\ At(c, "queued") /\ First(c)
    /\ holder = Nothing
    /\ holder' = c
    /\ To(c, "locked")
    /\ UNCHANGED <<store, index, tails, extracting, check, expired, indexStale, used>>

\* What every operation does last, whether it has failed or not.
Leave(c) ==
    /\ op' = [op EXCEPT ![c] = Idle]
    /\ tails' = [tails EXCEPT ![ProcessOf[c]] = SelectSeq(@, LAMBDA x : x # c)]
    /\ holder' = IF Working(c) THEN Nothing ELSE holder
    /\ extracting' = IF op[c].kind = "refresh" THEN extracting \ {c} ELSE extracting

\* Another process has held the database for ten seconds.
LockTimeout(c) ==
    /\ At(c, "queued") /\ First(c)
    /\ holder # Nothing
    /\ Leave(c)
    /\ UNCHANGED <<store, index, check, expired, indexStale, used>>

-----------------------------------------------------------------------------
(* writeValidatedMemoryFile, editValidatedMemoryFile, refreshMemoryIndex.  *)

Requests(c) ==
    {Operation("queued", "write", t, Nothing, new) : t \in Topic, new \in Content}
    \cup {Operation("queued", "edit", t, old, new) : t \in Topic, old \in Content, new \in Content}

\* The Write or Edit tool of an agent, or of an extraction.
Mutate(c) ==
    /\ c \in Extractor => c \in extracting
    /\ \E request \in Requests(c) :
          /\ request.old # request.new
          /\ Submit(c, request)
    /\ Count("mutations")
    /\ UNCHANGED <<store, index, holder, extracting, check, expired, indexStale>>

\* An edit reads the topic and looks for what it is to replace.
TakeSnapshot(c) ==
    /\ At(c, "locked") /\ op[c].kind = "edit"
    /\ store[op[c].topic].content = op[c].old
    /\ op' = [op EXCEPT ![c].at = "read", ![c].snapshot = store[op[c].topic]]
    /\ UNCHANGED <<store, index, tails, holder, extracting, check, expired, indexStale, used>>

EditConflict(c) ==
    /\ \/ At(c, "locked") /\ op[c].kind = "edit" /\ store[op[c].topic].content # op[c].old
       \/ At(c, "valid") /\ op[c].kind = "edit" /\ store[op[c].topic].version # op[c].snapshot.version
    /\ Leave(c)
    /\ UNCHANGED <<store, index, check, expired, indexStale, used>>

ReadyToValidate(c) ==
    \/ At(c, "locked") /\ op[c].kind = "write"
    \/ At(c, "read")

Validate(c) ==
    /\ ReadyToValidate(c)
    /\ Accepts(op[c].topic, op[c].new)
    /\ To(c, "valid")
    /\ index' = EnsuredIndex
    /\ UNCHANGED <<store, tails, holder, extracting, check, expired, indexStale, used>>

Refuse(c) ==
    /\ ReadyToValidate(c)
    /\ ~Accepts(op[c].topic, op[c].new)
    /\ Leave(c)
    /\ index' = EnsuredIndex
    /\ UNCHANGED <<store, check, expired, indexStale, used>>

\* assertMemoryEditSnapshotUnchanged, right before the edit is committed.
Recheck(c) ==
    /\ At(c, "valid") /\ op[c].kind = "edit"
    /\ store[op[c].topic].version = op[c].snapshot.version
    /\ To(c, "checked")
    /\ UNCHANGED <<store, index, tails, holder, extracting, check, expired, indexStale, used>>

\* A temporary file is renamed to the topic.
Replace(c) ==
    /\ At(c, IF op[c].kind = "edit" THEN "checked" ELSE "valid")
    /\ To(c, "replaced")
    /\ store' = [store EXCEPT ![op[c].topic] = File(op[c].new, @.version + 1, "agent")]
    /\ UNCHANGED <<index, tails, holder, extracting, check, expired, indexStale, used>>

Scan(c) ==
    /\ At(c, "replaced") \/ (At(c, "locked") /\ op[c].kind = "refresh")
    /\ op' = [op EXCEPT ![c].at = "scanned", ![c].rows = Rows(store)]
    /\ index' = EnsuredIndex
    /\ UNCHANGED <<store, tails, holder, extracting, check, expired, indexStale, used>>

WriteIndex(c) ==
    /\ At(c, "scanned")
    /\ To(c, "indexed")
    /\ index' = Index(op[c].rows, index.version + 1)
    /\ indexStale' = (indexStale /\ ~Agree(op[c].rows))
    /\ UNCHANGED <<store, tails, holder, extracting, check, expired, used>>

Commit(c) ==
    /\ At(c, "indexed")
    /\ Leave(c)
    /\ UNCHANGED <<store, index, check, expired, indexStale, used>>

-----------------------------------------------------------------------------
(* The extraction: its agent's own writes and edits, then a refresh, even  *)
(* when something has failed.  One at a time in each process.              *)

StartExtraction(c) ==
    /\ c \in Extractor \ extracting
    /\ extracting' = extracting \cup {c}
    /\ Count("mutations")
    /\ index' = EnsuredIndex
    /\ UNCHANGED <<store, tails, holder, op, check, expired, indexStale>>

EndExtraction(c) ==
    /\ c \in extracting
    /\ Submit(c, Operation("queued", "refresh", Nothing, Nothing, Nothing))
    /\ UNCHANGED <<store, index, holder, extracting, check, expired, indexStale, used>>

-----------------------------------------------------------------------------
(* What else happens to the store.                                         *)

\* A ttl passes.
Expire(content) ==
    /\ content \in Temporary \ expired
    /\ expired' = expired \cup {content}
    /\ Count("expiries")
    /\ UNCHANGED <<store, index, tails, holder, op, extracting, check, indexStale>>

\* The user changes or removes a topic.
Outside(t) ==
    /\ t \in Present
    /\ \E content \in Content \cup {Nothing} :
          store' = [store EXCEPT ![t] = File(content, @.version + 1, "outside")]
    /\ indexStale' = TRUE
    /\ Count("outside")
    /\ UNCHANGED <<index, tails, holder, op, extracting, check, expired>>

LeftBehind(callers) == \E c \in callers : op[c].at \in {"replaced", "scanned"}

\* A file operation fails; a temporary file that is left over is no topic.
Fail(c) ==
    /\ Working(c)
    /\ Leave(c)
    /\ indexStale' = (indexStale \/ LeftBehind({c}))
    /\ Count("faults")
    /\ UNCHANGED <<store, index, check, expired>>

Crash(p) ==
    LET callers == {c \in Caller : ProcessOf[c] = p}
    IN  /\ op' = [c \in Caller |-> IF c \in callers THEN Idle ELSE op[c]]
        /\ tails' = [tails EXCEPT ![p] = <<>>]
        /\ holder' = IF holder \in callers THEN Nothing ELSE holder
        /\ extracting' = extracting \ callers
        /\ indexStale' = (indexStale \/ LeftBehind(callers))
        /\ Count("faults")
        /\ UNCHANGED <<store, index, check, expired>>

-----------------------------------------------------------------------------
(* checkMemoryStore looks at every file's version, reads every file, and   *)
(* looks at the versions again; files in any order, without a lock.  What  *)
(* has expired it decides by the time at which it began.                   *)

Files == Topic \cup {Nothing}    \* Nothing is the index here
\* A file that comes or goes changes the version of its directory.
Version(f) == IF f = Nothing THEN index.version ELSE store[f].version

NoCheck == [at |-> "no", todo |-> {}, seen |-> [f \in Files |-> 0], topics |-> [t \in Topic |-> NoSnapshot],
            rows |-> {}, now |-> {}, sound |-> FALSE]
Report(at) == [NoCheck EXCEPT !.at = at, !.sound = check.sound]

\* There is nothing to object to: the index agrees, nothing is there twice or has expired.
Clean(rows, topics) ==
    /\ rows = RowsAt(topics, check.now)
    /\ NoDuplicates(topics)
    /\ \A t \in Topic : topics[t].content \notin check.now

Sound == Clean(index.rows, store)

\* After the last file the next phase begins.
PhaseAfter(f, next) == IF check.todo = {f} THEN next ELSE check.at
TodoAfter(f) == IF check.todo = {f} THEN Files ELSE check.todo \ {f}

CheckStart ==
    /\ check = NoCheck
    /\ IndexExists
    /\ check' = [NoCheck EXCEPT !.at = "looking", !.todo = Files, !.now = expired]
    /\ Count("checks")
    /\ UNCHANGED <<store, index, tails, holder, op, extracting, expired, indexStale>>

FirstLook(f) ==
    /\ check.at = "looking" /\ f \in check.todo
    /\ check' = [check EXCEPT !.at = PhaseAfter(f, "reading"), !.todo = TodoAfter(f),
                              !.seen[f] = Version(f), !.sound = Sound]
    /\ UNCHANGED <<store, index, tails, holder, op, extracting, expired, indexStale, used>>

Read(f) ==
    /\ check.at = "reading" /\ f \in check.todo
    /\ check' = [check EXCEPT !.at = PhaseAfter(f, "comparing"), !.todo = TodoAfter(f),
                              !.rows = IF f = Nothing THEN index.rows ELSE @,
                              !.topics = IF f = Nothing THEN @ ELSE [@ EXCEPT ![f] = store[f]]]
    /\ UNCHANGED <<store, index, tails, holder, op, extracting, expired, indexStale, used>>

\* There is no issue with index and topics as they were read.
NoIssue == Clean(check.rows, check.topics)

\* Wrong on purpose, for the check of the properties: the versions are not compared.
NoSecondLook(f) ==
    /\ check.at = "comparing" /\ f \in check.todo
    /\ check' = Report(IF NoIssue THEN "clean" ELSE "issues")
    /\ UNCHANGED <<store, index, tails, holder, op, extracting, expired, indexStale, used>>

SecondLook(f) ==
    /\ check.at = "comparing" /\ f \in check.todo
    /\ check' = IF check.seen[f] # Version(f) THEN Report("concurrent modification")
                ELSE IF check.todo # {f} THEN [check EXCEPT !.todo = @ \ {f}]
                ELSE Report(IF NoIssue THEN "clean" ELSE "issues")
    /\ UNCHANGED <<store, index, tails, holder, op, extracting, expired, indexStale, used>>

-----------------------------------------------------------------------------
\* Earlier sessions have left topics and their index, or nothing at all.
Init ==
    /\ store \in [Topic -> {NoSnapshot} \cup {File(content, 1, "agent") : content \in Content}]
    /\ NoDuplicates(store) /\ FileCount <= MaxFiles
    /\ expired = {}
    /\ index = Index(Rows(store), IF Present = {} THEN 0 ELSE 1)
    /\ tails = [p \in Process |-> <<>>]
    /\ holder = Nothing
    /\ op = [c \in Caller |-> Idle]
    /\ extracting = {}
    /\ check = NoCheck
    /\ indexStale = FALSE
    /\ used = [mutations |-> 0, outside |-> 0, faults |-> 0, checks |-> 0, expiries |-> 0]

Step(c) ==
    \/ Acquire(c) \/ LockTimeout(c)
    \/ TakeSnapshot(c) \/ EditConflict(c) \/ Validate(c) \/ Refuse(c) \/ Recheck(c) \/ Replace(c)
    \/ Scan(c) \/ WriteIndex(c) \/ Commit(c)

Next ==
    \/ \E c \in Caller :
          Step(c) \/ Mutate(c) \/ StartExtraction(c) \/ EndExtraction(c) \/ Fail(c)
    \/ \E p \in Process : Crash(p)
    \/ \E t \in Topic : Outside(t)
    \/ \E content \in Content : Expire(content)
    \/ CheckStart \/ \E f \in Files : FirstLook(f) \/ Read(f) \/ SecondLook(f)

Spec == Init /\ [][Next]_vars

-----------------------------------------------------------------------------
(* Properties.                                                             *)

(* Between two mutations the index has exactly one row for every topic     *)
(* that has not expired, with what the topic says, and no other row but of *)
(* topics that expired since the last mutation.  Only a change by the      *)
(* user, or an operation that ended between topic and index, leaves it     *)
(* behind, and the next mutation or refresh brings it back.                *)
IndexAgrees ==
    holder = Nothing /\ IndexExists /\ ~indexStale => Agree(index.rows)

(* What a write was validated against is still true when the file is       *)
(* replaced, whichever process writes: the agents never put one content in *)
(* two topics, nor more files into the store than it has room for.  Only   *)
(* the user can.                                                           *)
AgentsKeepTheStoreValid ==
    used.outside = 0 => NoDuplicates(store) /\ FileCount <= MaxFiles

(* An edit never overwrites what another agent wrote after the edit read   *)
(* the topic; the only change it may miss is the user's, between its last  *)
(* look and the rename.                                                    *)
EditsKeepOthersWork ==
    [][\A c \in Caller :
          op[c].at = "checked" /\ op'[c].at = "replaced" =>
             \/ store[op[c].topic].version = op[c].snapshot.version
             \/ store[op[c].topic].author = "outside"]_vars

(* A check that finds nothing is right about a moment of the check, though *)
(* it reads file by file while others write.                               *)
CleanCheckIsTrue == check.at = "clean" => check.sound

=============================================================================
