------------------------ MODULE ToolApprovalProofs --------------------------
(***************************************************************************)
(* Proofs about ToolApproval, for any batches, and any number of failed    *)
(* writes, restarts, mode changes and decisions.                           *)
(***************************************************************************)
EXTENDS ToolApproval, TLAPS

Decisions == {"allow_once", "allow_session", "deny"}

Approvals ==
    [calls : SUBSET Nat, requests : SUBSET Nat, decision : Decisions \cup {"none"},
     revalidate : BOOLEAN]

States ==
    [mode : Modes, grants : SUBSET Tools, batch : Seq(Kinds), results : SUBSET Nat,
     pending : Approvals]

Logs == [batch : Seq(Kinds), results : SUBSET Nat, calls : SUBSET Nat, requests : SUBSET Nat]

Active == {"model", "collecting", "executing", "reporting"}
Resumed == {"executing", "reporting"}

(***************************************************************************)
(* An approval is pending with its requests, or there is nothing of it.    *)
(* What it asks about needs an answer in the mode it was made under; what  *)
(* it does not ask about needs none or was granted, which a sandbox bypass *)
(* never is.                                                               *)
(***************************************************************************)
Hidden(s, i) ==
    /\ RequiresApproval(s.mode, s.batch[i])
    /\ i \notin s.pending.requests
    /\ ~(ToolOf(s.batch[i]) \in s.grants /\ s.batch[i] # "BypassShell")

ApprovalOK(s) ==
    /\ ~HasPending(s) => s.pending = NoApproval
    /\ s.pending.requests \subseteq s.pending.calls
    /\ s.pending.calls \subseteq DOMAIN s.batch
    /\ s.pending.revalidate => s.pending.decision = "none"
    /\ ~s.pending.revalidate =>
          /\ \A i \in s.pending.requests : RequiresApproval(s.mode, s.batch[i])
          /\ \A i \in s.pending.calls : ~Hidden(s, i)

TypeOK ==
    /\ phase \in Phases /\ uiMode \in Modes
    /\ app \in States /\ query \in States
    /\ log \in Logs
    /\ outcome \in Seq({"none", "ran", "denied", "refused"})
    /\ consent \in Seq({"none", "yes", "no"})
    /\ always \in SUBSET Tools
    /\ todo \subseteq IF phase = "executing" THEN DOMAIN outcome ELSE {}
    /\ crashes \in Nat

(* Both states are in the mode on the screen, and what they grant for the  *)
(* session the user has granted.                                           *)
Granted(s) ==
    /\ s.mode = uiMode
    /\ s.grants \subseteq always
    /\ s.pending.decision = "allow_session" =>
          \A i \in s.pending.requests : ToolOf(s.batch[i]) \in always

StatesAgree ==
    /\ ApprovalOK(app) /\ Granted(app)
    /\ phase = "down" => uiMode = "ask"
    /\ phase \in Active => ApprovalOK(query) /\ Granted(query)
    /\ phase \in {"model", "collecting"} => ~HasPending(app) /\ ~HasPending(query)
    /\ phase \in Resumed /\ HasPending(app) => app.batch = query.batch
    /\ phase \in Resumed /\ HasPending(query) =>
          query.pending.decision # "none" /\ app.pending = query.pending

(* What is known of the user's answers: a "no" is about a call that is     *)
(* still asked about, and while calls run the decision is the answer.      *)
AnswersKept ==
    /\ HasPending(app) =>
          /\ DOMAIN consent = DOMAIN app.batch
          /\ \A i \in DOMAIN consent :
                consent[i] = "no" => ~app.pending.revalidate /\ i \in app.pending.requests
    /\ phase = "down" =>
          DOMAIN consent = DOMAIN log.batch /\ \A i \in DOMAIN consent : consent[i] = "none"
    /\ phase = "collecting" =>
          DOMAIN consent = DOMAIN query.batch /\ \A i \in DOMAIN consent : consent[i] = "none"
    /\ phase = "executing" =>
          /\ DOMAIN consent = DOMAIN query.batch /\ DOMAIN outcome = DOMAIN query.batch
          /\ \A i \in DOMAIN consent :
                consent[i] = "no" => query.pending.decision = "deny" /\ i \in query.pending.requests
          /\ query.pending.decision \in {"allow_once", "allow_session"} =>
                \A i \in query.pending.requests : consent[i] = "yes"

(* In the process that began the batch, the results in the file are those  *)
(* of the state it is resumed with.                                        *)
ResultsKept ==
    crashes = 0 =>
        /\ phase # "down"
        /\ HasPending(app) =>
              /\ ~app.pending.revalidate /\ app.pending.calls = DOMAIN app.batch
              /\ app.results = log.results
        /\ phase = "collecting" => query.results = {} /\ log.results = {}
        /\ phase \in Resumed => query.results = log.results
        /\ phase = "executing" => todo \cap log.results = {}

ApprovalInv == TypeOK /\ StatesAgree /\ AnswersKept /\ ResultsKept

-----------------------------------------------------------------------------
(* Agent states and what is done to them.                                  *)

LEMMA RecordsAreTyped ==
  /\ FreshState \in States /\ NoApproval \in Approvals /\ EmptyLog \in Logs
  /\ \A s \in States : /\ s.mode \in Modes /\ s.grants \subseteq Tools /\ s.batch \in Seq(Kinds)
                       /\ s.results \subseteq Nat /\ s.pending \in Approvals
                       /\ DOMAIN s.batch \subseteq Nat
                       /\ \A i \in DOMAIN s.batch : s.batch[i] \in Kinds /\ ToolOf(s.batch[i]) \in Tools
  BY DEF FreshState, NoApproval, EmptyLog, Approvals, States, Logs, Modes, Tools, Decisions

LEMMA EachIsTyped ==
  ASSUME NEW S, NEW batch \in Seq(S), NEW T, NEW v \in T
  PROVE  /\ Each(batch, v) \in Seq(T) /\ DOMAIN Each(batch, v) = DOMAIN batch
         /\ \A i \in DOMAIN batch : Each(batch, v)[i] = v
  BY DEF Each

LEMMA SetModeEffect ==
  ASSUME NEW s \in States, NEW mode \in Modes
  PROVE  /\ SetApprovalMode(s, mode) \in States /\ SetApprovalMode(s, mode).mode = mode
         /\ s.mode = mode => SetApprovalMode(s, mode) = s
         /\ s.mode # mode => /\ SetApprovalMode(s, mode).grants = {}
                             /\ SetApprovalMode(s, mode).pending = NoApproval
  BY DEF SetApprovalMode, States, NoApproval, Approvals, Decisions

LEMMA ClearEffect ==
  ASSUME NEW s \in States, ApprovalOK(s)
  PROVE  LET c == ClearApproval(s)
         IN  /\ c \in States /\ c.pending = NoApproval
             /\ c.mode = s.mode /\ c.batch = s.batch /\ c.results = s.results
             /\ \A tool \in c.grants :
                   \/ tool \in s.grants
                   \/ /\ s.pending.decision = "allow_session"
                      /\ \E i \in s.pending.requests : tool = ToolOf(s.batch[i])
<1> DEFINE granted == IF s.pending.decision = "allow_session" /\ ~s.pending.revalidate
                      THEN {ToolOf(s.batch[i]) : i \in s.pending.requests} ELSE {}
<1>1. granted \subseteq Tools
  BY RecordsAreTyped DEF ApprovalOK
<1>2. ClearApproval(s) = [s EXCEPT !.grants = @ \cup granted, !.pending = NoApproval]
  BY DEF ClearApproval
<1>3. \A tool \in granted : s.pending.decision = "allow_session" /\ \E i \in s.pending.requests : tool = ToolOf(s.batch[i])
  OBVIOUS
<1> HIDE DEF granted
<1>4. NoApproval \in Approvals /\ s.grants \cup granted \subseteq Tools
  BY <1>1, RecordsAreTyped
<1>5. ClearApproval(s) \in States
  BY <1>2, <1>4 DEF States
<1>6. ClearApproval(s) = [mode |-> s.mode, grants |-> s.grants \cup granted, batch |-> s.batch,
                          results |-> s.results, pending |-> NoApproval]
  BY <1>2 DEF States
<1> QED
  BY <1>3, <1>5, <1>6

\* Without a decision a call is allowed or asked about, never denied.
LEMMA UndecidedIs ==
  ASSUME NEW s \in States, NEW i \in DOMAIN s.batch, s.pending.decision = "none"
  PROVE  /\ PermissionDecision(s, i) \in {"allow", "ask"}
         /\ PermissionDecision(s, i) = "ask" => RequiresApproval(s.mode, s.batch[i])
         /\ PermissionDecision(s, i) = "allow" =>
               \/ ~RequiresApproval(s.mode, s.batch[i])
               \/ ~s.pending.revalidate /\ ToolOf(s.batch[i]) \in s.grants /\ s.batch[i] # "BypassShell"
  BY RecordsAreTyped DEF PermissionDecision, ApprovalForCall, Approvals

\* With a decision the calls it was about follow it.
LEMMA DecidedIs ==
  ASSUME NEW s \in States, NEW i \in DOMAIN s.batch, s.pending.decision # "none", ApprovalOK(s)
  PROVE  PermissionDecision(s, i) = "allow" =>
               \/ ~RequiresApproval(s.mode, s.batch[i]) /\ i \notin s.pending.requests
               \/ i \in s.pending.requests /\ s.pending.decision # "deny"
  BY RecordsAreTyped DEF PermissionDecision, ApprovalForCall, Approvals, ApprovalOK

\* Nothing is hidden by a request made without a decision.
LEMMA RequestsAreComplete ==
  ASSUME NEW s \in States, NEW calls, calls \subseteq DOMAIN s.batch, s.pending.decision = "none"
  PROVE  LET requests == ApprovalRequests(s, calls)
         IN  /\ requests \subseteq calls
             /\ \A i \in requests : RequiresApproval(s.mode, s.batch[i])
             /\ \A i \in calls : \/ i \in requests \/ ~RequiresApproval(s.mode, s.batch[i])
                                 \/ ToolOf(s.batch[i]) \in s.grants /\ s.batch[i] # "BypassShell"
<1> DEFINE Covered(i) == ToolOf(s.batch[i]) \in s.grants /\ s.batch[i] # "BypassShell"
<1>1. ASSUME NEW i \in calls
      PROVE  /\ PermissionDecision(s, i) = "ask" => RequiresApproval(s.mode, s.batch[i])
             /\ \/ PermissionDecision(s, i) = "ask"
                \/ ~RequiresApproval(s.mode, s.batch[i]) \/ Covered(i)
  <2>1. i \in DOMAIN s.batch
    OBVIOUS
  <2> QED
    BY <2>1, UndecidedIs
<1> HIDE DEF Covered
<1>2. LET requests == ApprovalRequests(s, calls)
      IN  /\ requests \subseteq calls
          /\ \A i \in requests : RequiresApproval(s.mode, s.batch[i])
          /\ \A i \in calls : \/ i \in requests \/ ~RequiresApproval(s.mode, s.batch[i])
                              \/ Covered(i)
  BY <1>1 DEF ApprovalRequests
<1> QED
  BY <1>2 DEF Covered

-----------------------------------------------------------------------------
(* The invariant is inductive.                                             *)

LEMMA InitApproval == Init => ApprovalInv
<1> SUFFICES ASSUME Init PROVE ApprovalInv
  OBVIOUS
<1>1. TypeOK
  BY RecordsAreTyped DEF Init, TypeOK, Phases, Modes
<1>2. StatesAgree /\ AnswersKept /\ ResultsKept
  BY DEF Init, StatesAgree, ApprovalOK, Granted, HasPending, FreshState, NoApproval, AnswersKept,
         ResultsKept, Active, Resumed
<1> QED
  BY <1>1, <1>2 DEF ApprovalInv

LEMMA SnapshotIsTyped ==
  ASSUME NEW l \in Logs, NEW s \in States
  PROVE  /\ Snapshot(l, s) \in Logs
         /\ Snapshot(l, s).batch = l.batch /\ Snapshot(l, s).results = l.results
  BY DEF Snapshot, Logs, States, Approvals

LEMMA EmitEffect ==
  ASSUME log \in Logs, NEW s \in States, NEW next, EmitState(s, next)
  PROVE  /\ app' = s /\ query' = s /\ phase' \in {next, "idle"}
         /\ log' \in Logs /\ log'.batch = log.batch /\ log'.results = log.results
  BY SnapshotIsTyped DEF EmitState

LEMMA StartTurnKeeps ==
  ASSUME ApprovalInv, StartTurn
  PROVE  ApprovalInv'
<1>1. /\ app \in States /\ app.mode = uiMode /\ uiMode \in Modes /\ log \in Logs
      /\ ~HasPending(app) /\ app.pending = NoApproval
  BY DEF ApprovalInv, TypeOK, StatesAgree, Granted, ApprovalOK, StartTurn
<1>2. /\ app' = app /\ query' = app /\ phase' \in {"model", "idle"}
      /\ log' \in Logs /\ log'.batch = log.batch /\ log'.results = log.results
  BY <1>1, SetModeEffect, EmitEffect DEF StartTurn
<1>3. /\ UNCHANGED <<uiMode, todo, always, crashes>> /\ phase = "idle"
      /\ outcome' = Each(app.batch, "none") /\ consent' = Each(app.batch, "none")
  BY DEF StartTurn
<1>4. TypeOK'
  BY <1>1, <1>2, <1>3, RecordsAreTyped, EachIsTyped DEF ApprovalInv, TypeOK, Phases
<1>5. StatesAgree'
  BY <1>1, <1>2, <1>3 DEF ApprovalInv, StatesAgree, ApprovalOK, Granted, HasPending, Resumed
<1>6. AnswersKept' /\ ResultsKept'
  BY <1>1, <1>2, <1>3 DEF ApprovalInv, AnswersKept, ResultsKept, HasPending, Resumed
<1> QED
  BY <1>4, <1>5, <1>6 DEF ApprovalInv

LEMMA ModelAnswersKeeps ==
  ASSUME ApprovalInv, ModelAnswers
  PROVE  ApprovalInv'
<1>1. /\ app \in States /\ query \in States /\ log \in Logs
      /\ ~HasPending(app) /\ ~HasPending(query)
      /\ app.pending = NoApproval /\ query.pending = NoApproval /\ phase = "model" /\ todo = {}
      /\ UNCHANGED <<uiMode, todo, always, crashes>>
  BY DEF ApprovalInv, TypeOK, StatesAgree, ApprovalOK, ModelAnswers, Active
<1>2. ASSUME NEW b \in Batches,
             log' = [log EXCEPT !.batch = b, !.results = {}],
             query' = [query EXCEPT !.batch = b, !.results = {}],
             outcome' = Each(b, "none"), consent' = Each(b, "none"), phase' = "collecting",
             UNCHANGED app
      PROVE  ApprovalInv'
  <2>1. b \in Seq(Kinds)
    BY BatchesAssumption
  <2>2. /\ log' \in Logs /\ log'.results = {} /\ query' \in States /\ query'.results = {}
        /\ query'.batch = b /\ query'.pending = NoApproval
        /\ query'.mode = query.mode /\ query'.grants = query.grants
    BY <1>1, <1>2, <2>1 DEF Logs, States
  <2>3. /\ outcome' \in Seq({"none", "ran", "denied", "refused"})
        /\ consent' \in Seq({"none", "yes", "no"}) /\ DOMAIN consent' = DOMAIN b
        /\ \A i \in DOMAIN consent' : consent'[i] = "none"
    BY <1>2, <2>1, EachIsTyped
  <2>4. TypeOK'
    BY <1>1, <1>2, <2>2, <2>3 DEF ApprovalInv, TypeOK, Phases
  <2>5. StatesAgree'
    BY <1>1, <1>2, <2>2 DEF ApprovalInv, StatesAgree, ApprovalOK, Granted, HasPending, NoApproval,
       Resumed, Active
  <2>6. AnswersKept' /\ ResultsKept'
    BY <1>1, <1>2, <2>2, <2>3 DEF ApprovalInv, AnswersKept, ResultsKept, HasPending, Resumed
  <2> QED
    BY <2>4, <2>5, <2>6 DEF ApprovalInv
<1>3. ASSUME \/ AppendFails /\ UNCHANGED <<outcome, consent>>
             \/ EmitState(query, "idle") /\ UNCHANGED <<outcome, consent>>
      PROVE  ApprovalInv'
  <2>1. /\ app' \in {app, query} /\ query' = query /\ phase' = "idle"
        /\ log' \in Logs /\ log'.results = log.results
        /\ UNCHANGED <<outcome, consent>>
    BY <1>1, <1>3, EmitEffect DEF AppendFails
  <2>2. TypeOK'
    BY <1>1, <2>1 DEF ApprovalInv, TypeOK, Phases
  <2>3. StatesAgree' /\ AnswersKept' /\ ResultsKept'
    BY <1>1, <2>1 DEF ApprovalInv, StatesAgree, ApprovalOK, Granted, HasPending, AnswersKept,
       ResultsKept, Active, Resumed
  <2> QED
    BY <2>2, <2>3 DEF ApprovalInv
<1> QED
  BY <1>2, <1>3 DEF ModelAnswers

\* The calls of a batch, or what is left of it, begin to run.
LEMMA ExecuteEffect ==
  ASSUME NEW s \in States, NEW calls, calls \subseteq DOMAIN s.batch, Execute(s, calls)
  PROVE  /\ phase' \in Resumed /\ todo' = calls
         /\ todo' \subseteq IF phase' = "executing" THEN DOMAIN outcome' ELSE {}
         /\ DOMAIN outcome' = DOMAIN s.batch
         /\ outcome' \in Seq({"none", "ran", "denied", "refused"})
  BY RecordsAreTyped, EachIsTyped DEF Execute, Resumed

LEMMA CollectRequestsKeeps ==
  ASSUME ApprovalInv, CollectRequests
  PROVE  ApprovalInv'
<1> DEFINE calls == DOMAIN query.batch
           requests == ApprovalRequests(query, calls)
           Covered(i) == ToolOf(query.batch[i]) \in query.grants /\ query.batch[i] # "BypassShell"
           pending == [NoApproval EXCEPT !.calls = calls, !.requests = requests]
           paused == [query EXCEPT !.pending = pending]
<1>1. /\ app \in States /\ query \in States /\ log \in Logs /\ phase = "collecting" /\ todo = {}
      /\ ~HasPending(app) /\ query.pending = NoApproval /\ app.pending = NoApproval
      /\ ApprovalOK(app) /\ ApprovalOK(query) /\ Granted(app) /\ Granted(query)
      /\ UNCHANGED <<uiMode, consent, always, batches, crashes, changes>>
      /\ DOMAIN consent = DOMAIN query.batch /\ \A i \in DOMAIN consent : consent[i] = "none"
  BY DEF ApprovalInv, TypeOK, StatesAgree, AnswersKept, ApprovalOK, CollectRequests, Active
<1>2. /\ requests \subseteq calls /\ calls \subseteq Nat
      /\ \A i \in requests : RequiresApproval(query.mode, query.batch[i])
      /\ \A i \in calls : \/ i \in requests \/ ~RequiresApproval(query.mode, query.batch[i])
                          \/ ToolOf(query.batch[i]) \in query.grants /\ query.batch[i] # "BypassShell"
  <2>1. query.pending.decision = "none" /\ calls \subseteq DOMAIN query.batch /\ calls \subseteq Nat
    BY <1>1, RecordsAreTyped DEF NoApproval
  <2> HIDE DEF Covered
  <2>2. /\ requests \subseteq calls
        /\ \A i \in requests : RequiresApproval(query.mode, query.batch[i])
        /\ \A i \in calls : i \in requests \/ ~RequiresApproval(query.mode, query.batch[i]) \/ Covered(i)
    BY <1>1, <2>1, RequestsAreComplete DEF Covered
  <2> QED
    BY <2>1, <2>2 DEF Covered
<1>3. CASE requests # {} /\ EmitState(paused, "idle") /\ UNCHANGED <<todo, outcome>>
  <2> HIDE DEF requests, calls
  <2>1. /\ pending.calls = calls /\ pending.requests = requests
        /\ pending.decision = "none" /\ ~pending.revalidate
    BY DEF NoApproval
  <2>2. pending \in Approvals
    BY <1>2, RecordsAreTyped DEF Approvals
  <2> HIDE DEF pending
  <2>3. /\ paused \in States /\ paused.pending = pending /\ paused.batch = query.batch
        /\ paused.mode = query.mode /\ paused.grants = query.grants /\ paused.results = query.results
    BY <1>1, <2>2 DEF States
  <2>4. /\ app' = paused /\ query' = paused /\ phase' = "idle"
        /\ log' \in Logs /\ log'.batch = log.batch /\ log'.results = log.results
    BY <1>1, <1>3, <2>3, EmitEffect
  <2> HIDE DEF paused
  <2>5. ApprovalOK(paused)
    BY <1>2, <2>1, <2>3, <1>3 DEF ApprovalOK, HasPending, Hidden, calls
  <2>6. TypeOK'
    BY <1>1, <1>3, <2>3, <2>4 DEF ApprovalInv, TypeOK, Phases
  <2>7. StatesAgree'
    <3>1. ApprovalOK(app)'
      BY <2>4, <2>5 DEF ApprovalOK, Hidden, HasPending
    <3>2. Granted(app)'
      BY <1>1, <2>1, <2>3, <2>4 DEF Granted
    <3> QED
      BY <2>4, <3>1, <3>2 DEF StatesAgree, Active, Resumed
  <2>8. AnswersKept' /\ ResultsKept'
    BY <1>1, <2>1, <2>3, <2>4 DEF ApprovalInv, AnswersKept, ResultsKept, Resumed, calls
  <2> QED
    BY <2>6, <2>7, <2>8 DEF ApprovalInv
<1>4. CASE Execute(query, calls) /\ UNCHANGED <<app, query, log, errors>>
  <2>1. /\ phase' \in Resumed /\ todo' = calls
        /\ todo' \subseteq IF phase' = "executing" THEN DOMAIN outcome' ELSE {}
        /\ DOMAIN outcome' = DOMAIN query.batch
        /\ outcome' \in Seq({"none", "ran", "denied", "refused"})
    BY <1>1, <1>4, ExecuteEffect
  <2>2. TypeOK'
    BY <1>1, <1>4, <2>1 DEF ApprovalInv, TypeOK, Phases, Resumed
  <2>3. StatesAgree'
    BY <1>1, <1>4, <2>1 DEF StatesAgree, ApprovalOK, Hidden, HasPending, Granted, Resumed, NoApproval
  <2>4. AnswersKept'
    BY <1>1, <1>4, <2>1 DEF AnswersKept, HasPending, NoApproval, Resumed
  <2>5. ResultsKept'
    BY <1>1, <1>4, <2>1 DEF ApprovalInv, ResultsKept, HasPending, NoApproval, Resumed
  <2> QED
    BY <2>2, <2>3, <2>4, <2>5 DEF ApprovalInv
<1> QED
  BY <1>3, <1>4 DEF CollectRequests

LEMMA DecideKeeps ==
  ASSUME ApprovalInv, NEW decision \in Decisions, Decide(decision)
  PROVE  ApprovalInv'
<1> DEFINE resolved == [app EXCEPT !.pending.decision = decision]
           calls == app.pending.calls \ CompletedCalls(app, app.pending.calls)
           shown == app.pending.requests
<1>1. /\ app \in States /\ log \in Logs /\ phase = "idle" /\ HasPending(app) /\ ~app.pending.revalidate
      /\ ApprovalOK(app) /\ Granted(app)
      /\ app' = resolved /\ query' = resolved /\ Execute(resolved, calls)
      /\ UNCHANGED <<uiMode, log, counters>>
      /\ DOMAIN consent = DOMAIN app.batch
      /\ \A i \in DOMAIN consent : consent[i] = "no" => i \in shown
  BY DEF ApprovalInv, TypeOK, StatesAgree, AnswersKept, Decide
<1>2. /\ resolved \in States /\ resolved.batch = app.batch /\ resolved.mode = app.mode
      /\ resolved.grants = app.grants /\ resolved.results = app.results
      /\ resolved.pending = [calls |-> app.pending.calls, requests |-> shown, decision |-> decision,
                             revalidate |-> FALSE]
  BY <1>1 DEF States, Approvals
<1>3. /\ shown \subseteq app.pending.calls /\ app.pending.calls \subseteq DOMAIN app.batch
      /\ DOMAIN app.batch \subseteq Nat /\ \A i \in DOMAIN app.batch : ToolOf(app.batch[i]) \in Tools
  BY <1>1, RecordsAreTyped DEF ApprovalOK
<1>4. /\ phase' \in Resumed /\ todo' = calls
      /\ todo' \subseteq IF phase' = "executing" THEN DOMAIN outcome' ELSE {}
      /\ DOMAIN outcome' = DOMAIN app.batch
      /\ outcome' \in Seq({"none", "ran", "denied", "refused"})
  BY <1>1, <1>2, <1>3, ExecuteEffect
<1>5. /\ consent' \in Seq({"none", "yes", "no"}) /\ DOMAIN consent' = DOMAIN app.batch
      /\ \A i \in DOMAIN app.batch :
            consent'[i] = IF i \notin shown THEN consent[i] ELSE IF decision = "deny" THEN "no" ELSE "yes"
  <2>1. consent' = [i \in DOMAIN app.batch |->
                      IF i \notin shown THEN consent[i] ELSE IF decision = "deny" THEN "no" ELSE "yes"]
    BY <1>1 DEF Decide
  <2>2. \A i \in DOMAIN app.batch : consent[i] \in {"none", "yes", "no"}
    BY <1>1 DEF ApprovalInv, TypeOK
  <2>3. app.batch \in Seq(Kinds)
    BY <1>1, RecordsAreTyped
  <2> QED
    BY <2>1, <2>2, <2>3
<1>6. /\ always' \in SUBSET Tools /\ always \subseteq always'
      /\ decision = "allow_session" => \A i \in shown : ToolOf(app.batch[i]) \in always'
  BY <1>3 DEF ApprovalInv, TypeOK, Decide
<1> HIDE DEF resolved
<1>7. TypeOK'
  BY <1>1, <1>2, <1>4, <1>5, <1>6 DEF ApprovalInv, TypeOK, Phases, Resumed, counters
<1>8. ApprovalOK(resolved)
  BY <1>1, <1>2 DEF ApprovalOK, HasPending, Hidden
<1>9. StatesAgree'
  <2>1. ApprovalOK(app)' /\ ApprovalOK(query)'
    BY <1>1, <1>8 DEF ApprovalOK, Hidden, HasPending
  <2>2. Granted(app)' /\ Granted(query)'
    BY <1>1, <1>2, <1>6 DEF Granted
  <2> QED
    BY <1>1, <1>2, <1>4, <2>1, <2>2 DEF StatesAgree, Resumed, Decisions
<1>10. AnswersKept'
  <2>1. /\ \A i \in DOMAIN consent' : consent'[i] = "no" => decision = "deny" /\ i \in shown
        /\ decision # "deny" => \A i \in shown : consent'[i] = "yes"
    BY <1>1, <1>3, <1>5
  <2>2. phase' \notin {"down", "collecting"}
    BY <1>4 DEF Resumed
  <2> QED
    BY <1>1, <1>2, <1>4, <1>5, <2>1, <2>2 DEF AnswersKept
<1>11. ResultsKept'
  <2>1. crashes = 0 => /\ app.pending.calls = DOMAIN app.batch /\ app.results = log.results
                       /\ calls = app.pending.calls \ app.results
    BY <1>1 DEF ApprovalInv, ResultsKept, CompletedCalls
  <2> QED
    BY <1>1, <1>2, <1>4, <2>1 DEF ResultsKept, Resumed, counters
<1> QED
  BY <1>7, <1>9, <1>10, <1>11 DEF ApprovalInv

LEMMA RevalidateKeeps ==
  ASSUME ApprovalInv, Revalidate
  PROVE  ApprovalInv'
<1> DEFINE calls == app.pending.calls
           requests == ApprovalRequests(app, calls)
           replaced == [app EXCEPT !.pending.requests = requests, !.pending.revalidate = FALSE,
                                   !.pending.decision = "none"]
           left == calls \ CompletedCalls(app, calls)
<1>1. /\ app \in States /\ log \in Logs /\ phase = "idle" /\ app.pending.revalidate
      /\ ApprovalOK(app) /\ Granted(app) /\ app.pending.decision = "none"
      /\ UNCHANGED <<uiMode, consent, always, batches, crashes, changes>> /\ todo = {}
      /\ HasPending(app) /\ calls \subseteq DOMAIN app.batch
  <2>1. /\ app \in States /\ log \in Logs /\ phase = "idle" /\ app.pending.revalidate /\ todo = {}
        /\ UNCHANGED <<uiMode, consent, always, batches, crashes, changes>>
        /\ ApprovalOK(app) /\ Granted(app)
    BY DEF ApprovalInv, TypeOK, StatesAgree, Revalidate
  <2>2. app.pending.decision = "none" /\ HasPending(app) /\ calls \subseteq DOMAIN app.batch
    BY <2>1 DEF ApprovalOK, NoApproval
  <2> QED
    BY <2>1, <2>2
<1>2. /\ DOMAIN consent = DOMAIN app.batch /\ \A i \in DOMAIN consent : consent[i] # "no"
      /\ crashes # 0
  BY <1>1 DEF ApprovalInv, AnswersKept, ResultsKept
<1>3. /\ requests \subseteq calls /\ requests \subseteq Nat
      /\ \A i \in requests : RequiresApproval(app.mode, app.batch[i])
      /\ \A i \in calls : \/ i \in requests \/ ~RequiresApproval(app.mode, app.batch[i])
                          \/ ToolOf(app.batch[i]) \in app.grants /\ app.batch[i] # "BypassShell"
  BY <1>1, RequestsAreComplete, RecordsAreTyped
<1>4. /\ replaced \in States /\ replaced.batch = app.batch /\ replaced.mode = app.mode
      /\ replaced.grants = app.grants /\ replaced.results = app.results
      /\ replaced.pending.calls = calls /\ replaced.pending.requests = requests
      /\ replaced.pending.decision = "none" /\ ~replaced.pending.revalidate
  <2> HIDE DEF requests
  <2> QED
    BY <1>1, <1>3 DEF States, Approvals
<1> HIDE DEF requests, replaced
<1>5. ApprovalOK(replaced)
  BY <1>1, <1>3, <1>4 DEF ApprovalOK, Hidden, HasPending
<1>6. CASE requests # {} /\ EmitState(replaced, "idle") /\ UNCHANGED <<todo, outcome>>
  <2>1. /\ app' = replaced /\ query' = replaced /\ phase' = "idle"
        /\ log' \in Logs /\ log'.batch = log.batch /\ log'.results = log.results
    BY <1>1, <1>4, <1>6, EmitEffect
  <2>2. TypeOK'
    BY <1>1, <1>4, <1>6, <2>1 DEF ApprovalInv, TypeOK, Phases
  <2>3. StatesAgree'
    <3>1. ApprovalOK(app)' /\ Granted(app)'
      BY <1>1, <1>4, <1>5, <2>1 DEF ApprovalOK, Hidden, HasPending, Granted
    <3> QED
      BY <2>1, <3>1 DEF StatesAgree, Active, Resumed
  <2>4. AnswersKept' /\ ResultsKept'
    BY <1>1, <1>2, <1>4, <2>1 DEF AnswersKept, ResultsKept
  <2> QED
    BY <2>2, <2>3, <2>4 DEF ApprovalInv
<1>7. CASE query' = ClearApproval(replaced) /\ Execute(app, left) /\ UNCHANGED <<app, log, errors>>
  <2>1. /\ phase' \in Resumed /\ todo' = left
        /\ todo' \subseteq IF phase' = "executing" THEN DOMAIN outcome' ELSE {}
        /\ DOMAIN outcome' = DOMAIN app.batch
        /\ outcome' \in Seq({"none", "ran", "denied", "refused"})
    BY <1>1, <1>7, ExecuteEffect
  <2>2. /\ query' \in States /\ query'.pending = NoApproval /\ query'.mode = app.mode
        /\ query'.batch = app.batch /\ query'.grants \subseteq app.grants
    BY <1>4, <1>5, <1>7, ClearEffect
  <2>3. TypeOK'
    BY <1>1, <1>7, <2>1, <2>2 DEF ApprovalInv, TypeOK, Phases, Resumed
  <2>4. StatesAgree'
    <3>1. ApprovalOK(app)' /\ Granted(app)'
      BY <1>1, <1>7 DEF ApprovalOK, Hidden, HasPending, Granted
    <3>2. ApprovalOK(query)' /\ Granted(query)' /\ ~HasPending(query)'
      BY <1>1, <2>2 DEF ApprovalOK, Hidden, HasPending, Granted, NoApproval
    <3> QED
      BY <1>1, <1>7, <2>1, <2>2, <3>1, <3>2 DEF StatesAgree, Resumed
  <2>5. AnswersKept'
    BY <1>1, <1>2, <1>7, <2>1, <2>2 DEF ApprovalInv, AnswersKept, Resumed, NoApproval, HasPending
  <2>6. ResultsKept'
    BY <1>1, <1>2 DEF ResultsKept
  <2> QED
    BY <2>3, <2>4, <2>5, <2>6 DEF ApprovalInv
<1> QED
  BY <1>6, <1>7 DEF Revalidate, requests, replaced

LEMMA ExecuteCallKeeps ==
  ASSUME ApprovalInv, NEW i \in todo, ExecuteCall(i)
  PROVE  ApprovalInv'
<1>1. /\ phase = "executing" /\ i \in DOMAIN outcome
      /\ UNCHANGED <<uiMode, app, query, log, consent, always, counters>>
      /\ todo' = todo \ {i} /\ phase' = IF todo' = {} THEN "reporting" ELSE phase
  BY DEF ApprovalInv, TypeOK, ExecuteCall
<1>2. /\ outcome' \in Seq({"none", "ran", "denied", "refused"}) /\ DOMAIN outcome' = DOMAIN outcome
  <2>1. PermissionDecision(query, i) \in {"allow", "deny", "ask"}
    BY DEF PermissionDecision, ApprovalForCall
  <2>2. PICK v \in {"ran", "denied", "refused"} : outcome' = [outcome EXCEPT ![i] = v]
    BY <2>1 DEF ExecuteCall
  <2> QED
    BY <1>1, <2>2 DEF ApprovalInv, TypeOK
<1>3. TypeOK'
  BY <1>1, <1>2 DEF ApprovalInv, TypeOK, Phases, counters
<1>4. StatesAgree'
  BY <1>1 DEF ApprovalInv, StatesAgree, ApprovalOK, Hidden, HasPending, Granted, Active, Resumed
<1>5. AnswersKept'
  BY <1>1, <1>2 DEF ApprovalInv, AnswersKept, HasPending
<1>6. ResultsKept'
  BY <1>1 DEF ApprovalInv, ResultsKept, HasPending, Resumed, counters
<1> QED
  BY <1>3, <1>4, <1>5, <1>6 DEF ApprovalInv

LEMMA ReportResultKeeps ==
  ASSUME ApprovalInv, ReportResult
  PROVE  ApprovalInv'
<1>1. /\ phase = "reporting" /\ todo = {} /\ app \in States /\ query \in States /\ log \in Logs
      /\ UNCHANGED <<uiMode, todo, outcome, consent, always, batches, crashes, changes>>
  BY DEF ApprovalInv, TypeOK, ReportResult
<1>2. CASE AppendFails
  <2>1. UNCHANGED <<app, query, log>> /\ phase' = "idle"
    BY <1>2 DEF AppendFails
  <2>2. TypeOK'
    BY <1>1, <2>1 DEF ApprovalInv, TypeOK, Phases
  <2>3. StatesAgree'
    BY <1>1, <2>1 DEF ApprovalInv, StatesAgree, ApprovalOK, Hidden, HasPending, Granted, Active, Resumed
  <2>4. AnswersKept' /\ ResultsKept'
    BY <1>1, <2>1 DEF ApprovalInv, AnswersKept, ResultsKept, HasPending, Resumed
  <2> QED
    BY <2>2, <2>3, <2>4 DEF ApprovalInv
<1>3. ASSUME NEW i \in Unreported,
             app' = [query EXCEPT !.results = @ \cup {i}], query' = app',
             \/ /\ log' = Snapshot([log EXCEPT !.results = @ \cup {i}], app') /\ UNCHANGED phase
             \/ log' = [log EXCEPT !.results = @ \cup {i}] /\ phase' = "idle"
      PROVE  ApprovalInv'
  <2>1. i \in Nat
    BY <1>3 DEF Unreported, ApprovalInv, TypeOK
  <2>2. /\ app' \in States /\ app'.mode = query.mode /\ app'.grants = query.grants
        /\ app'.batch = query.batch /\ app'.pending = query.pending
        /\ app'.results = query.results \cup {i}
    BY <1>1, <1>3, <2>1 DEF States
  <2>3. /\ [log EXCEPT !.results = @ \cup {i}] \in Logs
        /\ [log EXCEPT !.results = @ \cup {i}].results = log.results \cup {i}
    BY <1>1, <2>1 DEF Logs
  <2>4. /\ log' \in Logs /\ log'.results = log.results \cup {i} /\ phase' \in {"reporting", "idle"}
    BY <1>1, <1>3, <2>2, <2>3, SnapshotIsTyped
  <2>5. TypeOK'
    BY <1>1, <1>3, <2>2, <2>4 DEF ApprovalInv, TypeOK, Phases
  <2>6. /\ ApprovalOK(query) /\ Granted(query)
        /\ HasPending(query) => /\ query.pending.decision # "none" /\ HasPending(app)
                                /\ app.pending = query.pending /\ app.batch = query.batch
    BY <1>1 DEF ApprovalInv, StatesAgree, Active, Resumed, HasPending
  <2>7. StatesAgree'
    <3>1. ApprovalOK(app)' /\ Granted(app)' /\ ApprovalOK(query)' /\ Granted(query)'
      BY <1>1, <1>3, <2>2, <2>6 DEF ApprovalOK, Hidden, HasPending, Granted
    <3> QED
      BY <1>1, <1>3, <2>2, <2>4, <2>6, <3>1 DEF StatesAgree, HasPending, Resumed
  <2>8. AnswersKept' /\ ResultsKept'
    BY <1>1, <1>3, <2>2, <2>4, <2>6 DEF ApprovalInv, AnswersKept, ResultsKept, HasPending, Resumed
  <2> QED
    BY <2>5, <2>7, <2>8 DEF ApprovalInv
<1> QED
  BY <1>2, <1>3 DEF ReportResult

LEMMA EndBatchKeeps ==
  ASSUME ApprovalInv, EndBatch
  PROVE  ApprovalInv'
<1>1. /\ phase = "reporting" /\ todo = {} /\ query \in States /\ log \in Logs
      /\ ApprovalOK(query) /\ Granted(query)
      /\ UNCHANGED <<uiMode, todo, outcome, consent, always, batches, crashes, changes>>
  BY DEF ApprovalInv, TypeOK, StatesAgree, Active, EndBatch
<1> DEFINE cleared == ClearApproval(query)
<1>2. /\ cleared \in States /\ cleared.pending = NoApproval /\ cleared.mode = query.mode
      /\ cleared.grants \subseteq always
  BY <1>1, ClearEffect DEF Granted
<1>3. /\ app' = cleared /\ query' = cleared /\ phase' \in {"model", "idle"} /\ log' \in Logs
  BY <1>1, <1>2, EmitEffect DEF EndBatch
<1> HIDE DEF cleared
<1>4. TypeOK'
  BY <1>1, <1>2, <1>3 DEF ApprovalInv, TypeOK, Phases
<1>5. StatesAgree' /\ ~HasPending(app)'
  BY <1>1, <1>2, <1>3 DEF StatesAgree, ApprovalOK, Granted, HasPending, NoApproval, Resumed
<1>6. AnswersKept' /\ ResultsKept'
  BY <1>1, <1>3, <1>5 DEF AnswersKept, ResultsKept, Resumed
<1> QED
  BY <1>4, <1>5, <1>6 DEF ApprovalInv

LEMMA ChangeModeKeeps ==
  ASSUME ApprovalInv, NEW mode \in Modes, ChangeMode(mode)
  PROVE  ApprovalInv'
<1>1. /\ phase = "idle" /\ app \in States /\ mode # app.mode
      /\ uiMode' = mode /\ app' = SetApprovalMode(app, mode) /\ always' = {}
      /\ UNCHANGED <<phase, query, log, todo, outcome, consent, crashes>>
  BY DEF ApprovalInv, TypeOK, ChangeMode
<1>2. app' \in States /\ app'.mode = mode /\ app'.grants = {} /\ app'.pending = NoApproval
  BY <1>1, SetModeEffect
<1>3. TypeOK'
  BY <1>1, <1>2 DEF ApprovalInv, TypeOK
<1>4. StatesAgree' /\ ~HasPending(app)'
  BY <1>1, <1>2 DEF StatesAgree, ApprovalOK, Granted, HasPending, NoApproval, Active, Resumed
<1>5. AnswersKept' /\ ResultsKept'
  BY <1>1, <1>4 DEF ApprovalInv, AnswersKept, ResultsKept, Resumed
<1> QED
  BY <1>3, <1>4, <1>5 DEF ApprovalInv

LEMMA CrashKeeps ==
  ASSUME ApprovalInv, Crash
  PROVE  ApprovalInv'
<1>1. /\ phase' = "down" /\ todo' = {} /\ always' = {} /\ uiMode' = "ask" /\ UNCHANGED log
      /\ outcome' = Each(log.batch, "none") /\ consent' = Each(log.batch, "none")
      /\ app' = FreshState /\ query' = [FreshState EXCEPT !.batch = log.batch]
      /\ crashes' = crashes + 1
  BY DEF Crash
<1>2. log \in Logs /\ log.batch \in Seq(Kinds) /\ crashes \in Nat
  BY DEF ApprovalInv, TypeOK, Logs
<1>3. /\ app' \in States /\ query' \in States /\ app'.pending = NoApproval
      /\ app'.mode = "ask" /\ app'.grants = {}
  BY <1>1, <1>2, RecordsAreTyped DEF States, FreshState
<1>4. TypeOK'
  BY <1>1, <1>2, <1>3, EachIsTyped DEF TypeOK, Phases, Modes
<1>5. StatesAgree' /\ ~HasPending(app)'
  BY <1>1, <1>3 DEF StatesAgree, ApprovalOK, Granted, HasPending, NoApproval, Active, Resumed
<1>6. AnswersKept' /\ ResultsKept'
  <2>1. DOMAIN consent' = DOMAIN log.batch /\ \A i \in DOMAIN consent' : consent'[i] = "none"
    BY <1>1, <1>2, EachIsTyped
  <2> QED
    BY <1>1, <1>2, <1>5, <2>1 DEF AnswersKept, ResultsKept
<1> QED
  BY <1>4, <1>5, <1>6 DEF ApprovalInv

LEMMA RestoredIs ==
  ASSUME NEW l \in Logs, Loadable(l)
  PROVE  LET s == RestoredState(l)
         IN  /\ s \in States /\ s.mode = "ask" /\ s.grants = {} /\ s.batch = l.batch
             /\ ApprovalOK(s) /\ s.pending.decision = "none"
             /\ HasPending(s) => s.pending.revalidate
<1> DEFINE remaining == l.calls \ CompletedCalls(l, l.calls)
           pending == IF remaining = {} THEN NoApproval
                      ELSE [calls |-> remaining, requests |-> l.requests \cap remaining,
                            decision |-> "none", revalidate |-> TRUE]
<1>1. remaining \subseteq Nat /\ remaining \subseteq DOMAIN l.batch
  BY DEF Logs, Loadable
<1> HIDE DEF remaining
<1>2. pending \in Approvals
  BY <1>1, RecordsAreTyped DEF Approvals, Logs
<1>3. /\ pending.calls = remaining /\ pending.requests \subseteq remaining /\ pending.decision = "none"
      /\ remaining # {} => pending.revalidate
      /\ remaining = {} => pending = NoApproval
  BY DEF NoApproval
<1>4. RestoredState(l) = [mode |-> "ask", grants |-> {}, batch |-> l.batch, results |-> l.results,
                          pending |-> pending]
  BY DEF RestoredState, remaining
<1> HIDE DEF pending
<1>5. RestoredState(l) \in States
  BY <1>2, <1>4 DEF States, Logs, Modes
<1>6. ApprovalOK(RestoredState(l))
  <2>1. CASE remaining = {}
    BY <1>3, <1>4, <2>1 DEF ApprovalOK, HasPending, NoApproval
  <2>2. CASE remaining # {}
    <3>1. RestoredState(l).pending = pending /\ RestoredState(l).batch = l.batch
      BY <1>4
    <3> QED
      BY <1>1, <1>3, <2>2, <3>1 DEF ApprovalOK, HasPending
  <2> QED
    BY <2>1, <2>2
<1> QED
  BY <1>3, <1>4, <1>5, <1>6 DEF HasPending

LEMMA RestoreKeeps ==
  ASSUME ApprovalInv, Restore \/ NewSession
  PROVE  ApprovalInv'
<1>1. CASE Restore
  <2>1. /\ phase = "down" /\ phase' = "idle" /\ log \in Logs /\ Loadable(log)
        /\ app' = RestoredState(log) /\ query' = app' /\ uiMode = "ask" /\ todo = {}
        /\ UNCHANGED <<uiMode, log, todo, outcome, consent, always, counters>>
        /\ crashes # 0
    BY <1>1 DEF ApprovalInv, TypeOK, ResultsKept, Restore, StatesAgree
  <2>2. /\ app' \in States /\ app'.mode = "ask" /\ app'.grants = {} /\ app'.batch = log.batch
        /\ app'.pending.decision = "none" /\ (app'.pending.calls # {} => app'.pending.revalidate)
    BY <2>1, RestoredIs DEF HasPending
  <2>3. TypeOK'
    BY <2>1, <2>2 DEF ApprovalInv, TypeOK, Phases, counters
  <2>4. StatesAgree'
    <3>1. ApprovalOK(app)'
      BY <2>1, RestoredIs DEF ApprovalOK, Hidden, HasPending
    <3>2. Granted(app)'
      <4>1. uiMode' = "ask"
        BY <2>1
      <4>2. app'.pending.decision # "allow_session"
        BY <2>2
      <4> QED
        BY <4>1, <4>2, <2>2 DEF Granted
    <3> QED
      BY <2>1, <3>1, <3>2 DEF StatesAgree, Active, Resumed
  <2>5. AnswersKept' /\ ResultsKept'
    BY <2>1, <2>2 DEF ApprovalInv, AnswersKept, ResultsKept, counters, HasPending
  <2> QED
    BY <2>3, <2>4, <2>5 DEF ApprovalInv
<1>2. CASE NewSession
  <2>1. /\ phase = "down" /\ phase' = "idle" /\ app' = FreshState /\ query' = FreshState
        /\ log' = EmptyLog /\ outcome' = <<>> /\ consent' = <<>> /\ uiMode = "ask" /\ todo = {}
        /\ UNCHANGED <<uiMode, todo, always, counters>> /\ crashes # 0
    BY <1>2 DEF ApprovalInv, TypeOK, ResultsKept, NewSession, StatesAgree
  <2>2. TypeOK'
    BY <2>1, RecordsAreTyped DEF ApprovalInv, TypeOK, Phases, counters
  <2>3. StatesAgree' /\ ~HasPending(app)'
    BY <2>1 DEF StatesAgree, ApprovalOK, Granted, HasPending, FreshState, NoApproval, Active, Resumed
  <2>4. AnswersKept' /\ ResultsKept'
    BY <2>1, <2>3 DEF AnswersKept, ResultsKept, counters
  <2> QED
    BY <2>2, <2>3, <2>4 DEF ApprovalInv
<1> QED
  BY <1>1, <1>2

-----------------------------------------------------------------------------
LEMMA InvariantStep == ApprovalInv /\ [Next]_vars => ApprovalInv'
<1> SUFFICES ASSUME ApprovalInv, [Next]_vars
             PROVE  ApprovalInv'
  OBVIOUS
<1>1. CASE StartTurn
  BY <1>1, StartTurnKeeps
<1>2. CASE ModelAnswers
  BY <1>2, ModelAnswersKeeps
<1>3. CASE CollectRequests
  BY <1>3, CollectRequestsKeeps
<1>4. CASE Revalidate
  BY <1>4, RevalidateKeeps
<1>5. CASE \E d \in {"allow_once", "allow_session", "deny"} : Decide(d)
  BY <1>5, DecideKeeps DEF Decisions
<1>6. CASE \E i \in todo : ExecuteCall(i)
  BY <1>6, ExecuteCallKeeps
<1>7. CASE ReportResult \/ EndBatch
  BY <1>7, ReportResultKeeps, EndBatchKeeps
<1>8. CASE \E m \in Modes : ChangeMode(m)
  BY <1>8, ChangeModeKeeps
<1>9. CASE Crash
  BY <1>9, CrashKeeps
<1>10. CASE Restore \/ NewSession
  BY <1>10, RestoreKeeps
<1>11. CASE Finished \/ UNCHANGED vars
  <2>1. UNCHANGED vars
    BY <1>11 DEF Finished
  <2>2. TypeOK'
    BY <2>1 DEF ApprovalInv, TypeOK, vars, counters
  <2>3. StatesAgree'
    BY <2>1 DEF ApprovalInv, StatesAgree, ApprovalOK, Granted, HasPending, Hidden, vars
  <2>4. AnswersKept' /\ ResultsKept'
    BY <2>1 DEF ApprovalInv, AnswersKept, ResultsKept, HasPending, vars, counters
  <2> QED
    BY <2>2, <2>3, <2>4 DEF ApprovalInv
<1> QED
  BY <1>1, <1>2, <1>3, <1>4, <1>5, <1>6, <1>7, <1>8, <1>9, <1>10, <1>11 DEF Next

(* The state of the App and that of the query, what was granted, answered  *)
(* and reported, stay related in every step (query.ts, state.ts, App.tsx). *)
THEOREM ApprovalInvariant == Spec => []ApprovalInv
<1>1. Init => ApprovalInv
  BY InitApproval
<1> QED
  BY <1>1, InvariantStep, PTL DEF Spec

(***************************************************************************)
(* However modes, grants, answers, failed writes and restarts follow each  *)
(* other, the request the user sees shows every call of the paused batch   *)
(* that still needs an answer (collectToolApprovalRequests).               *)
(***************************************************************************)
THEOREM NothingIsHidden == Spec => []NothingHidden
<1>1. ApprovalInv => NothingHidden
  BY DEF ApprovalInv, StatesAgree, ApprovalOK, Granted, Hidden, NothingHidden
<1> QED
  BY <1>1, ApprovalInvariant, PTL

(***************************************************************************)
(* A batch that is paused or runs is the last one in the session file, so  *)
(* that a restart resumes the batch that was interrupted.                  *)
(***************************************************************************)
BatchIsLogged ==
    /\ HasPending(app) => app.batch = log.batch
    /\ phase \in {"collecting"} \cup Resumed => query.batch = log.batch

LEMMA BatchIsLoggedStep ==
  ASSUME ApprovalInv, BatchIsLogged, [Next]_vars
  PROVE  BatchIsLogged'
<1> USE DEF BatchIsLogged, Resumed
<1>1. /\ app \in States /\ query \in States /\ log \in Logs /\ ApprovalOK(app)
      /\ phase \in {"model", "collecting"} => ~HasPending(app) /\ ~HasPending(query)
      /\ phase \in {"model", "collecting"} \cup Resumed => ApprovalOK(query)
  BY DEF ApprovalInv, TypeOK, StatesAgree, Active
<1>2. ~HasPending(FreshState) /\ NoApproval.calls = {}
  BY DEF HasPending, FreshState, NoApproval
<1>3. CASE StartTurn
  <2>1. /\ SetApprovalMode(app, uiMode) \in States /\ ~HasPending(SetApprovalMode(app, uiMode))
    BY <1>1, <1>2, <1>3, SetModeEffect DEF ApprovalInv, TypeOK, StartTurn, HasPending
  <2>2. app' = SetApprovalMode(app, uiMode) /\ phase' \in {"idle", "model"}
    BY <1>3 DEF StartTurn, EmitState
  <2> QED
    BY <2>1, <2>2 DEF HasPending
<1>4. CASE ModelAnswers
  <2>1. CASE phase' = "collecting"
    <3>1. PICK b \in Batches : /\ log' = [log EXCEPT !.batch = b, !.results = {}]
                               /\ query' = [query EXCEPT !.batch = b, !.results = {}]
                               /\ app' = app
      BY <1>4, <2>1 DEF ModelAnswers, AppendFails, EmitState
    <3>2. log'.batch = b /\ query'.batch = b
      BY <1>1, <3>1 DEF Logs, States
    <3> QED
      BY <1>1, <1>4, <2>1, <3>1, <3>2 DEF ModelAnswers, HasPending
  <2>2. CASE phase' # "collecting"
    <3>1. phase' = "idle" /\ app' \in {app, query}
      BY <1>4, <2>2 DEF ModelAnswers, AppendFails, EmitState
    <3> QED
      BY <1>1, <1>4, <3>1 DEF ModelAnswers, HasPending
  <2> QED
    BY <2>1, <2>2
<1>5. CASE CollectRequests
  <2> DEFINE paused == [query EXCEPT !.pending = [NoApproval EXCEPT !.calls = DOMAIN query.batch,
                                       !.requests = ApprovalRequests(query, DOMAIN query.batch)]]
  <2>1. paused.batch = query.batch
    BY <1>1 DEF States
  <2>2. \/ EmitState(paused, "idle")
        \/ phase' \in Resumed /\ UNCHANGED <<app, query, log>>
    BY <1>5 DEF CollectRequests, Execute
  <2> HIDE DEF paused
  <2>3. log'.batch = log.batch /\ query'.batch = query.batch
    BY <1>1, <2>1, <2>2 DEF EmitState, Snapshot, Logs
  <2>4. (app' = paused /\ query' = paused) \/ UNCHANGED <<app, query>>
    BY <2>2 DEF EmitState
  <2> QED
    BY <1>1, <1>5, <2>1, <2>3, <2>4 DEF CollectRequests, HasPending
<1>6. CASE Revalidate
  <2> DEFINE replaced == [app EXCEPT !.pending.requests = ApprovalRequests(app, app.pending.calls),
                                     !.pending.revalidate = FALSE, !.pending.decision = "none"]
  <2>1. replaced.batch = app.batch /\ ClearApproval(replaced).batch = app.batch /\ HasPending(app)
    BY <1>1, <1>6 DEF States, ApprovalOK, Revalidate, NoApproval, ClearApproval
  <2>2. \/ EmitState(replaced, "idle")
        \/ query' = ClearApproval(replaced) /\ UNCHANGED <<app, log>>
    BY <1>6 DEF Revalidate
  <2> HIDE DEF replaced
  <2>3. log'.batch = log.batch /\ query'.batch = app.batch /\ app'.batch = app.batch
    BY <1>1, <2>1, <2>2 DEF EmitState, Snapshot, Logs
  <2> QED
    BY <2>1, <2>3
<1>7. CASE \E d \in Decisions : Decide(d)
  <2>1. PICK d \in Decisions : Decide(d)
    BY <1>7
  <2>2. app' = [app EXCEPT !.pending.decision = d] /\ query' = app' /\ log' = log /\ HasPending(app)
    BY <2>1 DEF Decide
  <2>3. app'.batch = app.batch
    BY <1>1, <2>2 DEF States
  <2> QED
    BY <2>2, <2>3
<1>8. CASE \E i \in todo : ExecuteCall(i)
  BY <1>8 DEF ExecuteCall, HasPending
<1>9. CASE ReportResult
  <2>1. \/ UNCHANGED <<app, log>> /\ phase' = "idle"
        \/ \E i \in Unreported :
              LET reported == [query EXCEPT !.results = @ \cup {i}]
                  appended == [log EXCEPT !.results = @ \cup {i}]
              IN  /\ app' = reported /\ query' = reported
                  /\ log' \in {appended, Snapshot(appended, reported)}
    BY <1>9 DEF ReportResult, AppendFails
  <2>2. CASE UNCHANGED <<app, log>> /\ phase' = "idle"
    BY <2>2 DEF HasPending
  <2>3. ASSUME NEW i \in Unreported,
               app' = [query EXCEPT !.results = @ \cup {i}], query' = app',
               \/ log' = [log EXCEPT !.results = @ \cup {i}]
               \/ log' = Snapshot([log EXCEPT !.results = @ \cup {i}], app')
        PROVE  BatchIsLogged'
    <3>1. app'.batch = query.batch /\ query'.batch = query.batch
      BY <1>1, <2>3 DEF States
    <3>2. log'.batch = log.batch
      BY <1>1, <2>3 DEF Logs, Snapshot
    <3> QED
      BY <1>9, <3>1, <3>2 DEF ReportResult
  <2> QED
    BY <2>1, <2>2, <2>3
<1>10. CASE EndBatch
  <2>1. ClearApproval(query).pending = NoApproval
    BY <1>1, <1>10, ClearEffect DEF EndBatch
  <2> QED
    BY <1>2, <1>10, <2>1 DEF EndBatch, EmitState, HasPending
<1>11. CASE \E m \in Modes : ChangeMode(m)
  <2>1. PICK m \in Modes : ChangeMode(m)
    BY <1>11
  <2>2. app' = SetApprovalMode(app, m) /\ ~HasPending(app) /\ phase' = "idle"
    BY <2>1 DEF ChangeMode
  <2>3. ~HasPending(app')
    BY <1>1, <1>2, <2>2, SetModeEffect DEF HasPending
  <2> QED
    BY <2>2, <2>3 DEF HasPending
<1>12. CASE Crash \/ NewSession
  BY <1>2, <1>12 DEF Crash, NewSession, HasPending
<1>13. CASE Restore
  <2>1. RestoredState(log).batch = log.batch
    BY <1>1, <1>13, RestoredIs DEF Restore
  <2> QED
    BY <1>13, <2>1 DEF Restore
<1>14. CASE Finished \/ UNCHANGED vars
  BY <1>14 DEF Finished, vars, HasPending
<1> QED
  BY <1>3, <1>4, <1>5, <1>6, <1>7, <1>8, <1>9, <1>10, <1>11, <1>12, <1>13, <1>14 DEF Next, Decisions

LEMMA BatchIsLoggedInvariant == Spec => [](ApprovalInv /\ BatchIsLogged)
<1>1. Init => BatchIsLogged
  BY DEF Init, BatchIsLogged, FreshState, NoApproval, HasPending, Resumed
<1> QED
  BY <1>1, BatchIsLoggedStep, ApprovalInvariant, PTL DEF Spec

(* A step in which calls are executed is that of one call of the batch.    *)
LEMMA OnlyExecuteCallRuns ==
  ASSUME ApprovalInv, BatchIsLogged, [Next]_vars, phase = "executing",
         NEW i \in DOMAIN outcome, Runs(i)
  PROVE  i \in todo /\ PermissionDecision(query, i) = "allow"
<1>1. outcome' # outcome
  BY DEF Runs
<1>2. CASE Crash
  <2>1. DOMAIN log.batch \subseteq Nat /\ outcome' = Each(log.batch, "none")
    BY <1>2 DEF Crash, ApprovalInv, TypeOK, Logs
  <2>2. outcome'[i] # "none"
    BY DEF Runs
  <2>3. DOMAIN log.batch = DOMAIN outcome
    BY DEF ApprovalInv, AnswersKept, BatchIsLogged, Resumed
  <2> QED
    BY <2>1, <2>2, <2>3 DEF Each
<1>3. CASE \E j \in todo : ExecuteCall(j)
  <2>1. PICK j \in todo : ExecuteCall(j)
    BY <1>3
  <2>2. outcome' = [outcome EXCEPT ![j] =
                      CASE PermissionDecision(query, j) = "allow" -> "ran"
                        [] PermissionDecision(query, j) = "deny"  -> "denied"
                        [] PermissionDecision(query, j) = "ask"   -> "refused"]
    BY <2>1 DEF ExecuteCall
  <2>3. i = j
    BY <2>2 DEF Runs
  <2>4. PermissionDecision(query, i) \in {"allow", "deny", "ask"}
    BY DEF PermissionDecision, ApprovalForCall
  <2> QED
    BY <2>1, <2>2, <2>3, <2>4 DEF Runs
<1> QED
  BY <1>1, <1>2, <1>3 DEF Next, vars, StartTurn, ModelAnswers, CollectRequests, Revalidate, Decide,
     ReportResult, EndBatch, ChangeMode, Restore, NewSession, Finished

(***************************************************************************)
(* A call that runs needed no approval in the mode on the screen, or the   *)
(* user allowed it in this process, or its tool was allowed for the        *)
(* session since the last mode change; a call refused by the user does not *)
(* run (approvalForCall, submitToolApproval, setApprovalMode).             *)
(***************************************************************************)
THEOREM OnlyAuthorizedCallsRun == Spec => NoUnauthorizedExecution
<1>1. ApprovalInv /\ BatchIsLogged /\ [Next]_vars => ConsentStep
  <2> SUFFICES ASSUME ApprovalInv, BatchIsLogged, [Next]_vars, Executing,
                      NEW i \in DOMAIN outcome, Runs(i)
               PROVE  /\ consent[i] # "no"
                      /\ \/ ~RequiresApproval(uiMode, query.batch[i])
                         \/ consent[i] = "yes"
                         \/ ToolOf(query.batch[i]) \in always /\ query.batch[i] # "BypassShell"
    BY DEF ConsentStep
  <2>1. /\ query \in States /\ ApprovalOK(query) /\ Granted(query)
        /\ DOMAIN consent = DOMAIN query.batch /\ DOMAIN outcome = DOMAIN query.batch
        /\ consent[i] = "no" => query.pending.decision = "deny" /\ i \in query.pending.requests
        /\ query.pending.decision \in {"allow_once", "allow_session"} =>
              \A j \in query.pending.requests : consent[j] = "yes"
    BY DEF ApprovalInv, TypeOK, StatesAgree, AnswersKept, Executing, Active
  <2>2. i \in DOMAIN query.batch /\ PermissionDecision(query, i) = "allow"
    BY <2>1, OnlyExecuteCallRuns DEF Executing
  <2>3. query.pending.decision \in Decisions \cup {"none"}
    BY <2>1 DEF States, Approvals
  <2>4. CASE query.pending.decision = "none"
    BY <2>1, <2>2, <2>4, UndecidedIs DEF Granted
  <2>5. CASE query.pending.decision # "none"
    BY <2>1, <2>2, <2>3, <2>5, DecidedIs DEF Granted, Decisions
  <2> QED
    BY <2>4, <2>5
<1> QED
  BY <1>1, BatchIsLoggedInvariant, PTL DEF Spec, NoUnauthorizedExecution

(***************************************************************************)
(* While the process that began the batch lives, a call with a result in   *)
(* the session file is not executed again (completedPendingToolCallIds).   *)
(***************************************************************************)
THEOREM CompletedCallsDoNotRunAgain == Spec => CompletedNotRepeated
<1>1. ASSUME ApprovalInv, BatchIsLogged, [Next]_vars, crashes = 0, Executing
      PROVE  \A i \in DOMAIN outcome : Runs(i) => i \notin log.results
  BY <1>1, OnlyExecuteCallRuns DEF ApprovalInv, ResultsKept, Executing
<1>2. ApprovalInv /\ BatchIsLogged /\ [Next]_vars =>
        (crashes = 0 /\ Executing => \A i \in DOMAIN outcome : Runs(i) => i \notin log.results)
  BY <1>1
<1> QED
  BY <1>2, BatchIsLoggedInvariant, PTL DEF Spec, CompletedNotRepeated
=============================================================================
