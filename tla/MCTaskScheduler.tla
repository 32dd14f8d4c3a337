--------------------------- MODULE MCTaskScheduler ---------------------------
(***************************************************************************)
(* Small instances of TaskScheduler: tasks 1 and 2, created together,      *)
(* 2 waiting for 1 or not.                                                 *)
(***************************************************************************)
EXTENDS TaskScheduler

TwoTasks == {(1 :> {} @@ 2 :> {}), (1 :> {} @@ 2 :> {1})}

Allow(f) == [e \in External |-> IF e \in DOMAIN f THEN f[e] ELSE 0]

Interruptions ==
    {Allow("cancels" :> 1), Allow("shutdowns" :> 1 @@ "errors" :> 1),
     Allow("quiesces" :> 1 @@ "errors" :> 1 @@ "crashes" :> 1)}

SpawnAndQuiesce == {Allow("spawns" :> 1 @@ "quiesces" :> 1)}
=============================================================================
