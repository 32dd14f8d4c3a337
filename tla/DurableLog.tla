----------------------------- MODULE DurableLog -----------------------------
(***************************************************************************)
(* What a session log promises: a record that was written stays readable,  *)
(* in the order of writing, and the only record that may vanish again is   *)
(* the last one, as long as nobody was told that it is there.              *)
(***************************************************************************)
EXTENDS Naturals, Sequences, SequencesExt

VARIABLES
    durable,    \* the records a reader finds
    promised    \* how many of them have been acknowledged

Init ==
    /\ durable = <<>>
    /\ promised = 0

Write ==
    /\ durable' # <<>>
    /\ Front(durable') = durable
    /\ UNCHANGED promised

Forget ==
    /\ Len(durable) > promised
    /\ durable' = Front(durable)
    /\ UNCHANGED promised

Acknowledge ==
    /\ promised' \in (promised + 1)..Len(durable)
    /\ UNCHANGED durable

Next == Write \/ Forget \/ Acknowledge

Spec == Init /\ [][Next]_<<durable, promised>>
=============================================================================
