--------------------------- MODULE ResourceAccess ---------------------------
(***************************************************************************)
(* The access sets a tool call declares before it runs, and when two of    *)
(* them exclude each other (src/src/tools/resourceLock.ts), with the two   *)
(* accesses the runner adds to every call (src/src/tools/runner.ts).       *)
(*                                                                         *)
(* An access set is a set of records: the code's lists are merged by       *)
(* normalizeAccesses and compared without regard to order.  The key of an  *)
(* "fs" access is the canonical path, as the sequence of its components;   *)
(* the key of any other namespace is a sequence of one name.               *)
(***************************************************************************)
EXTENDS SequencesExt

NoIdentity == "no-identity"   \* a path that does not exist yet has no inode

Access(ns, key, mode, scope) ==
    [namespace |-> ns, key |-> key, mode |-> mode, scope |-> scope]

(***************************************************************************)
(* The accesses a tool can name.                                           *)
(***************************************************************************)
FileResourceAccesses(path, identity, mode, scope) ==
    {Access("fs", path, mode, scope)}
        \cup {Access("fs-identity", <<id>>, mode, "exact") :
                id \in IF scope = "exact" THEN {identity} \ {NoIdentity} ELSE {}}

SessionResourceAccess(sessionId, mode) == Access("session", <<sessionId>>, mode, "exact")

MemoryResourceAccess(cwd, mode) == Access("memory", cwd, mode, "exact")

OpaqueToolAccess(mode) == Access("runtime", <<"opaque-tools">>, mode, "exact")

(***************************************************************************)
(* Conflicts.                                                              *)
(***************************************************************************)
IsPathWithin(path, parent) == IsPrefix(parent, path)

\* Wrong on purpose, for the check of the properties: only the left access may
\* be a subtree.
ResourcesOverlapOneWay(left, right) ==
    /\ left.namespace = right.namespace
    /\ \/ left.key = right.key
       \/ left.namespace = "fs" /\ left.scope = "subtree" /\ IsPathWithin(right.key, left.key)

ResourcesOverlap(left, right) ==
    /\ left.namespace = right.namespace
    /\ \/ left.key = right.key
       \/ /\ left.namespace = "fs"
          /\ \/ left.scope = "subtree" /\ IsPathWithin(right.key, left.key)
             \/ right.scope = "subtree" /\ IsPathWithin(left.key, right.key)

AccessSetsConflict(left, right) ==
    \E first \in left, second \in right :
        /\ first.mode = "write" \/ second.mode = "write"
        /\ ResourcesOverlap(first, second)

(***************************************************************************)
(* One access per (namespace, key, scope); a write absorbs a read.         *)
(***************************************************************************)
SameResource(a, b) ==
    a.namespace = b.namespace /\ a.scope = b.scope /\ a.key = b.key

NormalizeAccesses(accesses) ==
    {[a EXCEPT !.mode = IF \E b \in accesses : SameResource(a, b) /\ b.mode = "write"
                        THEN "write" ELSE "read"] : a \in accesses}

ResourceAccessSetsEqual(left, right) ==
    NormalizeAccesses(left) = NormalizeAccesses(right)

(***************************************************************************)
(* planToolAccesses: what the runner adds to the declared accesses.  A     *)
(* call keeps its agent's session readable, so a tool that rewrites the    *)
(* session state cannot run beside it, and holds the read side of the      *)
(* opaque-tool barrier unless it asked for the barrier itself.             *)
(***************************************************************************)
WithOpaqueToolBarrier(accesses) ==
    IF \E a \in accesses : a.namespace = "runtime" /\ a.key = <<"opaque-tools">>
    THEN accesses
    ELSE accesses \cup {OpaqueToolAccess("read")}

WithSessionReadAccess(accesses, sessionId) ==
    IF \E a \in accesses : a.namespace = "session" /\ a.key = <<sessionId>>
    THEN accesses
    ELSE accesses \cup {SessionResourceAccess(sessionId, "read")}

PlanToolAccesses(declared, sessionId) ==
    WithSessionReadAccess(WithOpaqueToolBarrier(declared), sessionId)
=============================================================================
