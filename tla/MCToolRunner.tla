---------------------------- MODULE MCToolRunner ----------------------------
(***************************************************************************)
(* Small instances of ToolRunner: a response of the main agent with three  *)
(* calls, and one of the sub-agent with one.                               *)
(***************************************************************************)
EXTENDS ToolRunner

MCOwner == [c \in Call |-> IF c <= 3 THEN Main ELSE Sub]
MCTargets == {<<"w", "a">>, <<"w", "b">>}
MCNamed == <<"w", "a">>

Responses(first, second, third, sub) ==
    {<<t1, t2, t3, t4>> : t1 \in first, t2 \in second, t3 \in third, t4 \in sub}

\* One Shell command that moves the link, a write through the link and a
\* third use, in every order, next to a write of the sub-agent.
MixedTools == {"ReadLink", "WriteLink", "WriteNamed", "Shell"}
ResourceBatches ==
    {b \in Responses(MixedTools, MixedTools, MixedTools, {"WriteLink"}) :
        /\ Cardinality({i \in 1..3 : b[i] = "Shell"}) = 1
        /\ \E i \in 1..3 : b[i] = "WriteLink"}

\* Plan-mode tools and MCP calls.
PlanBatches ==
    Responses({"EnterPlanMode", "UpdatePlan", "ExitPlanMode"}, {"ReadLink", "ExitPlanMode", "Mcp"},
              {"WriteLink", "Mcp", "Spawn"}, {"ReadLink"})

\* The main agent waits for a sub-agent; every opaque call comes first.
OpaqueFirst ==
    Responses({"Shell"}, {"Spawn", "WaitAgent"}, {"WriteLink"}, {"WriteNamed"})

\* An opaque call after one that waits.
OpaqueAfterWait ==
    {<<"Spawn", "Shell", "ReadLink", "WriteNamed">>, <<"WaitAgent", "Mcp", "ReadLink", "WriteNamed">>}

WaitBatches == OpaqueFirst \cup OpaqueAfterWait

MCBatches == ResourceBatches \cup PlanBatches \cup WaitBatches

\* The main agent plans next to a sub-agent that writes.
PlanNextToWriter == Responses({"EnterPlanMode", "ReadLink"}, {"ReadLink"}, {"ReadLink"}, {"WriteLink"})
=============================================================================
