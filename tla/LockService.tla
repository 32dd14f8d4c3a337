---------------------------- MODULE LockService -----------------------------
(***************************************************************************)
(* What a caller of the resource lock may rely on, without queue, listener *)
(* or scheduling loop: a caller asks for all it needs at once; it waits    *)
(* until it is served or gives up itself; once served it keeps everything  *)
(* it asked for until it leaves; nobody else ends its wait or its lease;   *)
(* and those served at the same time do not conflict.                      *)
(***************************************************************************)
CONSTANTS Caller, Needs, Conflicts(_, _)

VARIABLES waiting, holding, need

serviceVars == <<waiting, holding, need>>

Exclusive(holders, needs) ==
    \A c, d \in holders : c # d => ~Conflicts(needs[c], needs[d])

Init ==
    /\ waiting = {}
    /\ holding = {}
    /\ need = [c \in Caller |-> {}]

(* Some of the waiting callers are served together. *)
Serve(waiters, holders, needs) ==
    \E served \in SUBSET waiters :
        /\ waiting' = waiters \ served
        /\ holding' = holders \cup served
        /\ Exclusive(holders \cup served, needs)

Ask(c) ==
    /\ c \notin waiting \cup holding
    /\ \E n \in Needs : need' = [need EXCEPT ![c] = n]
    /\ Serve(waiting \cup {c}, holding, need')

Leave(c) ==
    /\ c \in waiting \cup holding
    /\ need' = need
    /\ Serve(waiting \ {c}, holding \ {c}, need)

Next == \E c \in Caller : Ask(c) \/ Leave(c)

Spec == Init /\ [][Next]_serviceVars
=============================================================================
