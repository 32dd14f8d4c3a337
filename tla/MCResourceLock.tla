--------------------------- MODULE MCResourceLock ---------------------------
(***************************************************************************)
(* A small instance of ResourceLock: two callers of one run and one of     *)
(* another, asking for the access sets of a file read, two file writes, a  *)
(* search, a Shell call and a plan tool.                                   *)
(***************************************************************************)
EXTENDS ResourceLock

CONSTANTS c1, c2, c3, s1, s2

MCSignalOf == (c1 :> s1) @@ (c2 :> s1) @@ (c3 :> s2)

Root == <<"w">>
Folder == <<"w", "d">>
File == <<"w", "d", "f">>

ReadFile == PlanToolAccesses(FileResourceAccesses(File, "i1", "read", "exact"), "s")
WriteFile == PlanToolAccesses(FileResourceAccesses(File, "i1", "write", "exact"), "s")
WriteOther == PlanToolAccesses(FileResourceAccesses(<<"w", "g">>, "i2", "write", "exact"), "s")
Search == PlanToolAccesses(FileResourceAccesses(Folder, NoIdentity, "read", "subtree"), "s")
Shell == PlanToolAccesses(
            FileResourceAccesses(Root, NoIdentity, "write", "subtree")
                \cup {OpaqueToolAccess("write")}, "s")
PlanTool == PlanToolAccesses({SessionResourceAccess("s", "write")}, "s")

MCAccessSets == {ReadFile, WriteFile, WriteOther, Search, Shell, PlanTool}

=============================================================================
