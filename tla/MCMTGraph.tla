----------------------------- MODULE MCMTGraph -----------------------------
(* Two small graphs, a chain and one that forks and joins, for MTGraph.    *)
EXTENDS MTGraph

Chain == <<"csrc", "sync", "csink">>       \* csrc -e-> sync -f-> csink
Fork  == <<"src", "tee", "add", "sink">>   \* src -a-> tee =b,c=> add -d-> sink

BothInputs  == [b \in ToSet(Chain) \cup ToSet(Fork) |->
  CASE b = "sync" -> <<"e">> [] b = "csink" -> <<"f">>
    [] b = "tee" -> <<"a">>  [] b = "add" -> <<"b", "c">> [] b = "sink" -> <<"d">>
    [] OTHER -> <<>>]
BothOutputs == [b \in ToSet(Chain) \cup ToSet(Fork) |->
  CASE b = "csrc" -> <<"e">> [] b = "sync" -> <<"f">>
    [] b = "src" -> <<"a">>  [] b = "tee" -> <<"b", "c">> [] b = "add" -> <<"d">>
    [] OTHER -> <<>>]
BothCap    == [s \in {"a", "b", "c", "d", "e", "f"} |-> IF s \in {"c", "e"} THEN 2 ELSE 1]
BothTotals == [b \in {"csrc", "src"} |-> 0..3 \cup {Forever}]

Quiet(runner, order, totals) ==
  [runner |-> runner, added |-> order, totals |-> totals, slow |-> {}, idle |-> "Pending", faults |-> {}]
AllFaults == ToSet(Chain) \cup {"cancel", "refusal"}

QuietThreads  == Quiet("threads", Fork, 0..2)
ShortThreads  == Quiet("threads", Chain, 0..3)
ShortTasks    == Quiet("tasks", Chain, 0..3)
FaultyThreads == [Quiet("threads", Chain, {Forever}) EXCEPT !.faults = AllFaults]
FaultyTasks   == [Quiet("tasks", Chain, {Forever}) EXCEPT !.faults = AllFaults]
SlowThreads   == [Quiet("threads", Chain, 0..2) EXCEPT !.slow = {"csrc"}]
SlowTasks     == [Quiet("tasks", Chain, {2}) EXCEPT !.slow = {"csrc"}, !.idle = "WaitForFunc"]

AllPlans     == {QuietThreads, ShortTasks, FaultyThreads, FaultyTasks, SlowThreads, SlowTasks}
ThreadsOnly  == {ShortThreads}
TasksOnly    == {ShortTasks}
=============================================================================
