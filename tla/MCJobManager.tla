---------------------------- MODULE MCJobManager ----------------------------
(***************************************************************************)
(* Instances of JobManager, with its statistics, for TLC: dependency       *)
(* graphs of two and three units, the modes of OnFailure= and OnSuccess=,  *)
(* and what a start may go through before it returns.                      *)
(***************************************************************************)
EXTENDS JobStat

CONSTANTS a, b, c

\* b requires a; DepsOrdered also starts it after a.
DepsRequires == {<<b, "Requires", a>>}
DepsOrdered == DepsRequires \cup {<<b, "After", a>>}
\* When b fails or has ended, a is started.
DepsFallback == DepsOrdered \cup {<<b, "OnFailure", a>>, <<b, "OnSuccess", a>>}
\* A boot: c wants b and needs a to be there, b requires a, in this order.
DepsBoot == DepsOrdered \cup {<<c, "Wants", b>>, <<c, "After", b>>, <<c, "Requisite", a>>}
\* a is started when b has ended well.
DepsOnSuccess == {<<b, "OnSuccess", a>>}

ModeReplace == [u \in Unit |-> "Replace"]
ModeFail == [u \in Unit |-> "Fail"]
ModeIrreversible == [u \in Unit |-> "ReplaceIrreversible"]
ModeFlush == [u \in Unit |-> "Flush"]

\* A start reports one state before it returns.
OneReport == {<<"starting">>, <<"active">>, <<"failed">>}
Forks == {<<"starting">>}
=============================================================================
