----------------------------- MODULE MCSentinel -----------------------------
(* Up to three Sentinels, a master and two slaves.                          *)
EXTENDS Sentinel

ABC == {"A", "B", "C"}
Peers == [x \in ABC |-> ABC \ {x}]
MCAttributes == [i \in 1 .. 3 |-> [prio |-> 100, off |-> 2 * i]]

Base ==
  [name |-> "base", master |-> 1, slaves |-> {2}, quorum |-> 2, monitors |-> ABC,
   knows |-> Peers, epochs |-> 1, net |-> 2, icrash |-> {1}, iback |-> 0, blind |-> {},
   old |-> {}, scrash |-> {}, tilts |-> {}, cut |-> {}, apart |-> {}, losses |-> 0,
   cmds |-> {}]

\* Two Sentinels compete for the votes of three; the third may crash and come back.
Election == [Base EXCEPT !.name = "election", !.blind = {<<"C", 1>>}, !.scrash = {"C"},
                         !.slaves = {}, !.net = 3]

\* Two Sentinels and two slaves; A sees the master fail.
Two == [Base EXCEPT !.monitors = {"A", "B"}, !.knows = [x \in ABC |-> {"A", "B"} \ {x}],
                    !.quorum = 1, !.slaves = {2, 3}, !.blind = {<<"B", 1>>}]
Leader == [Two EXCEPT !.name = "leader", !.scrash = {"A"}, !.iback = 1]
Twice == [Two EXCEPT !.name = "twice", !.icrash = {1, 3}, !.epochs = 2,
                     !.blind = {<<"B", 1>>, <<"A", 3>>}]
Simulated == [Two EXCEPT !.name = "simulated",
                         !.cmds = {<<"simulate-failure", "A", "crash-after-election">>,
                                   <<"simulate-failure", "A", "crash-after-promotion">>}]
Manual == [Two EXCEPT !.name = "manual", !.icrash = {2}, !.cmds = {<<"failover", "A", 0>>}]
Resets == [Two EXCEPT !.name = "resets", !.cmds = {<<"reset", "B", 0>>}]
Joins == [Two EXCEPT !.name = "joins", !.slaves = {2}, !.blind = {<<"B", 1>>, <<"C", 1>>},
                     !.cmds = {<<"monitor", "C", <<1, 2>>>>, <<"flushconfig", "A", 0>>}]
Leaves == [Two EXCEPT !.name = "leaves",
                      !.cmds = {<<"remove", "B", 0>>, <<"set-quorum", "A", 2>>}]
Tilt == [Two EXCEPT !.name = "tilt", !.tilts = {"A", "B"}]
Parted == [Two EXCEPT !.name = "parted", !.icrash = {}, !.blind = {},
                      !.cut = {<<"A", 1>>}, !.apart = {<<"A", "B">>, <<"B", "A">>}]
Lossy == [Two EXCEPT !.name = "lossy", !.losses = 1, !.old = {<<"A", "B">>}]

MCScenarios == {Election, Leader, Twice, Simulated, Manual, Resets, Joins, Leaves, Tilt,
                Parted, Lossy}
=============================================================================
