---------------------------- MODULE MCMemoryStore ----------------------------
(***************************************************************************)
(* Small instances of MemoryStore: an agent and an extraction in one       *)
(* process, an agent in another.                                           *)
(***************************************************************************)
EXTENDS MemoryStore, TLC

MCProcess == {"p1", "p2"}
MCCaller == {"agent1", "extraction1", "agent2"}
MCExtractor == {"extraction1"}
MCProcessOf == [c \in MCCaller |-> IF c = "agent2" THEN "p2" ELSE "p1"]
Scenario(mutations, outside, faults, checks, expiries) ==
    [mutations |-> mutations, outside |-> outside, faults |-> faults, checks |-> checks,
     expiries |-> expiries]
MCLimits ==
    {Scenario(2, 1, 0, 0, 0), Scenario(2, 0, 1, 0, 0), Scenario(1, 1, 0, 1, 0),
     Scenario(2, 0, 0, 0, 1), Scenario(1, 0, 0, 1, 1)}
TopicsAndContents == Permutations(Topic) \cup Permutations(Content)
=============================================================================
