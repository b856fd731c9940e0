---------------------------- MODULE MCAgentLoop ----------------------------
(***************************************************************************)
(* Two runs of one session that share an intervention, with short loops;   *)
(* or one run that is long enough for the steps of two approved calls to   *)
(* meet those of the turns and tools after them.                           *)
(***************************************************************************)
EXTENDS AgentLoop

CONSTANTS m1, m2

MCShort == [max_steps |-> 2,
            batches |-> {<<"approve", "auto">>, <<"invalid", "approve">>}]

MCApprovals(n) == [max_steps |-> n,
  batches |-> {<<"approve">>, <<"auto">>, <<"approve", "approve">>, <<"unavailable">>}]

MCSessions == {[runs |-> <<MCShort, MCShort>>, notes |-> {m1}],
               [runs |-> <<MCApprovals(5)>>, notes |-> {m1, m2}]}

MCQuiet == {[runs |-> <<MCApprovals(4)>>, notes |-> {}]}

MCOneNote == {[runs |-> <<MCApprovals(2)>>, notes |-> {m1}]}
=============================================================================
