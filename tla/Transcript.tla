----------------------------- MODULE Transcript -----------------------------
(***************************************************************************)
(* The messages of a conversation and what is done to a whole list of      *)
(* them: compaction by the query loop, and what a restored session makes   *)
(* of them.  A message has a role, an identity standing for its text, the  *)
(* calls it asks for or answers, and the mark of untrusted content.        *)
(***************************************************************************)
EXTENDS Naturals, Sequences, FiniteSets, SequencesExt

CONSTANT RetainTurns    \* DEFAULT_RETAIN_RECENT_TURNS

ASSUME RetainTurnsAssumption == RetainTurns \in Nat \ {0}

Roles == {"user", "agent", "assistant", "tool", "system"}

\* A call is told apart by the message that asks for it and its place there.
Calls == Nat \X Nat
Messages == [role : Roles, id : Nat, calls : Seq(Calls), untrusted : BOOLEAN]
Conversations == Seq(Messages)

Message(role, id, calls, untrusted) ==
    [role |-> role, id |-> id, calls |-> calls, untrusted |-> untrusted]

UserMessage(id) == Message("user", id, <<>>, FALSE)
AgentMessage(id) == Message("agent", id, <<>>, TRUE)
AssistantMessage(id, calls) == Message("assistant", id, calls, FALSE)
ToolMessage(call) == Message("tool", 0, <<call>>, FALSE)
SummaryMessage(untrusted) == Message("system", 0, <<>>, untrusted)

\* The messages a model is told to treat as untrusted data.
Marked(messages) ==
    \E i \in DOMAIN messages :
        messages[i].role = "agent" \/ messages[i].untrusted

\* A turn begins with a message of the user or of an agent.
TurnStarts(messages) ==
    {i \in DOMAIN messages : messages[i].role \in {"user", "agent"}}

Compactable(messages) == Cardinality(TurnStarts(messages)) > RetainTurns

RetainedStart(messages) ==
    CHOOSE i \in TurnStarts(messages) :
        Cardinality({j \in TurnStarts(messages) : j >= i}) = RetainTurns

\* Wrong on purpose, for the check of the properties: the summary is trusted, or what is
\* retained begins in the middle of a turn.
CompactUnmarked(messages) ==
    <<SummaryMessage(FALSE)>> \o SubSeq(messages, RetainedStart(messages), Len(messages))

CompactAnywhere(messages) ==
    <<SummaryMessage(Marked(messages))>> \o SubSeq(messages, Len(messages), Len(messages))

\* One summary stands for everything before the retained turns.
Compact(messages) ==
    LET start == RetainedStart(messages)
    IN  <<SummaryMessage(Marked(SubSeq(messages, 1, start - 1)))>>
            \o SubSeq(messages, start, Len(messages))

\* A restored system message is demoted to what an agent said.
RestoredMessage(m) ==
    IF m.role \in {"system", "agent"}
    THEN [m EXCEPT !.role = "agent", !.untrusted = TRUE] ELSE m

RestoredMessages(messages) ==
    [i \in DOMAIN messages |-> RestoredMessage(messages[i])]

\* The answers to calls that no earlier message asks for.
OrphanResults(messages) ==
    {i \in DOMAIN messages :
        /\ messages[i].role = "tool"
        /\ ~\E j \in 1..(i - 1) :
              /\ messages[j].role = "assistant"
              /\ messages[i].calls[1] \in ToSet(messages[j].calls)}
=============================================================================
