----------------------------- MODULE MCCompletion -----------------------------
(* Small instances of Completion: a few invocations of one FlowAgent. *)
EXTENDS Completion

CONSTANTS i1, i2, i3

Three == {i1, i2, i3}
Two == {i1, i2}
BothEngines == {"langgraph", "http"}
HttpOnly == {"http"}
SerialOnly == {"serial"}
OverlapOnly == {"overlapping"}
AnyCaller == SerialOnly \union OverlapOnly
=============================================================================
