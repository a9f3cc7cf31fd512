---------------------------- MODULE MCJobRecovery ----------------------------
(***************************************************************************)
(* Instances of JobRecovery for TLC: two ordered units.                    *)
(***************************************************************************)
EXTENDS JobRecovery

CONSTANTS a, b

DepsOrdered == {<<b, "Requires", a>>, <<b, "After", a>>}
ModeFail == [u \in Unit |-> "Fail"]
ModeReplace == [u \in Unit |-> "Replace"]
OneReport == {<<"starting">>, <<"active">>, <<"failed">>}
=============================================================================
