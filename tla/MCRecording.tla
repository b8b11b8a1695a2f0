---------------------------- MODULE MCRecording ----------------------------
(* An instance of Recording for TLC: a plan whose second step reads the    *)
(* first and a third that stands alone.                                    *)
EXTENDS Recording

MCStep(id, position, inputs) ==
  [id |-> id, position |-> position, work |-> "l", inputs |-> inputs]

MCPlan == <<MCStep("s1", 1, {}), MCStep("s2", 2, {Reads(1)}), MCStep("s3", 3, {})>>

Q(code) == [code |-> code, options |-> {}, value |-> Null]
MCQuestions == {Q("routine-work-rerun"), Q("routine-output-unstated")}

E(kind, step, calls) == [kind |-> kind, step |-> step, calls |-> calls]

MCEdits ==
  {E("remove", "s1", <<>>), E("remove", "s2", <<>>), E("replace", "s1", <<Handle(1)>>),
   E("replace", "s3", <<Handle(1)>>), E("insert", "s1", <<Handle(1)>>),
   E("insert", "s2", <<Handle(1), Handle(2)>>), E("insert", "s4", <<Handle(1)>>),
   E("insert", "s3", <<Handle(2)>>), E("insert", "s3", <<>>)}
=============================================================================
