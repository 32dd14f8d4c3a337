--------------------------- MODULE MCToolApproval ---------------------------
(***************************************************************************)
(* Small instances of ToolApproval.                                        *)
(***************************************************************************)
EXTENDS ToolApproval

\* A call that is never asked about, one that is in ask mode only, and the
\* two that are in auto mode, alone and with each other.
PairBatches ==
    {<<"Shell">>, <<"BypassShell">>, <<"Mcp", "Read">>, <<"Write", "Shell">>, <<"Mcp", "BypassShell">>,
     <<"Shell", "BypassShell">>, <<"Write", "Write">>}

\* With batches of three, which can be interrupted twice.
TripleBatches == {<<"Read", "Write", "Shell">>, <<"Write", "Read", "Write">>}
AllBatches == PairBatches \cup TripleBatches

\* One batch each for the runs that look for one behaviour.
OneBatch == {<<"Write", "Shell">>}
=============================================================================
