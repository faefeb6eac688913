------------------------------ MODULE MCTasks -------------------------------
(* order: ask, recover from a failure by an inline task with a timeout, and *)
(* escalate.  poll: two branches, retried; one of them has a timeout, the   *)
(* other waits for the world.  fan: branches that recover from a failing    *)
(* sub-workflow and that retry on a condition.  spawn: a sub-workflow that  *)
(* is cancelled with its parent, and one that is not waited for.            *)
EXTENDS Tasks, TLC

T(kind, subs) == [kind |-> kind, subs |-> subs]

Tree ==
     "order"   :> T("sequence", <<"ask", "guard", "alert">>)
  @@ "ask"     :> T("call", <<>>)
  @@ "guard"   :> T("recovery", <<"approve", "undo">>)
  @@ "approve" :> T("human", <<>>)
  @@ "undo"    :> T("inline", <<>>)
  @@ "alert"   :> T("escalation", <<>>)
  @@ "poll"    :> T("retry", <<"both">>)
  @@ "both"    :> T("parallel", <<"quick", "slow">>)
  @@ "quick"   :> T("inline", <<>>)
  @@ "slow"    :> T("sequence", <<"pause", "get">>)
  @@ "pause"   :> T("wait", <<>>)
  @@ "get"     :> T("call", <<>>)
  @@ "fan"     :> T("parallel", <<"lost", "maybe">>)
  @@ "lost"    :> T("recovery", <<"sub", "mend">>)
  @@ "sub"     :> T("subworkflow", <<>>)
  @@ "mend"    :> T("call", <<>>)
  @@ "maybe"   :> T("conditional", <<"again", "review">>)
  @@ "again"   :> T("retry", <<"try">>)
  @@ "try"     :> T("inline", <<>>)
  @@ "review"  :> T("human", <<>>)
  @@ "spawn"   :> T("sequence", <<"child", "notify", "rest">>)
  @@ "child"   :> T("subworkflow", <<>>)
  @@ "notify"  :> T("subworkflow", <<>>)
  @@ "rest"    :> T("wait", <<>>)

MCTask == DOMAIN Tree
MCKind == [n \in MCTask |-> Tree[n].kind]
MCSubs == [n \in MCTask |-> Tree[n].subs]
MCLimit == [n \in MCTask |-> 2]
=============================================================================
