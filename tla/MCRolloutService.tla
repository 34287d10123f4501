-------------------------- MODULE MCRolloutService --------------------------
(***************************************************************************)
(* Workloads for RolloutService: a single-session task read, reported and  *)
(* run by the gateway at once; a task of two sessions with two nodes; and  *)
(* offline tasks, with each of the three builders.                         *)
(***************************************************************************)
EXTENDS RolloutService

MCCaller == {"t1", "c2", "c3", "c4"}
MCSessionName == [c \in MCCaller |-> <<"s1", "s2">>]

Rec(id, at, prompt, sampled) ==
  [id |-> id, at |-> at, prompt |-> prompt, sampled |-> sampled, partition |-> ""]

\* Captured out of order; the third follows an end-of-turn token.
MCRecord ==
  << [Rec(1, 3, <<1, 2, 3>>, <<4>>) EXCEPT !.partition = "p"],
     Rec(2, 2, <<1>>, <<2>>),
     Rec(3, 4, <<1, 2, EOT>>, <<5, 5>>) >>

Posted(partial) == [Group(<<>>, {}) EXCEPT !.partial = partial]

Submit(num) == [op |-> "submit", num |-> num, prewarm |-> TRUE, strategy |-> ""]
Offline(sources, strategy) == [op |-> "offline", sources |-> sources, strategy |-> strategy]
Read(t) == [op |-> "get", task |-> t]
Report(s, group) == [op |-> "complete", task |-> "t1", session |-> s, group |-> group]
Register(n) == [op |-> "register", node |-> n]
Heartbeat(n) == [op |-> "heartbeat", node |-> n]
Nothing == [op |-> "none"]

Calls(o1, o2, o3, o4) == [c \in MCCaller |-> CASE c = "t1" -> o1 [] c = "c2" -> o2
                                                [] c = "c3" -> o3 [] c = "c4" -> o4]

MCPlugins == <<"session-reward", "swe-bench">>
Polar == [active |-> TRUE, default |-> "prefix_merge"]
V1 == [active |-> FALSE, default |-> ""]

MCWorkload ==
  {[calls |-> Calls(Submit(0), Read("t1"), Report("", Posted(1)), Read("t1")), builder |-> Polar],
   [calls |-> Calls(Submit(2), Register(1), Register(2), Heartbeat(1)), builder |-> V1],
   [calls |-> Calls(Submit(2), Report("s1", Posted(2)), Report("unknown", NoGroup), Register(1)),
    builder |-> Polar],
   [calls |-> Calls(Offline(<<"x", "y">>, ""), Report("y", NoGroup), Nothing, Nothing),
    builder |-> Polar],
   [calls |-> Calls(Offline(<<"x">>, "per_request"), Read("t1"), Report("", Posted(1)), Nothing),
    builder |-> Polar]}

\* One of the source sessions is named twice.
TwiceWorkload ==
  {[calls |-> Calls(Offline(<<"x", "x">>, ""), Nothing, Nothing, Nothing), builder |-> Polar]}
=============================================================================
