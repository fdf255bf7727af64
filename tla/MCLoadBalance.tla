--------------------------- MODULE MCLoadBalance ---------------------------
(* Instances of LoadBalance for TLC. *)
EXTENDS LoadBalance

Base == [primary |-> [g1 |-> {1, 2}, g2 |-> {}],
         backup |-> [g1 |-> {}, g2 |-> {}], nested |-> {}, top |-> 0,
         byMetric |-> FALSE, random |-> FALSE, interrupt |-> FALSE,
         asked |-> FALSE, busy |-> {"g1"}, delays |-> {1},
         metrics |-> {0}, faults |-> 0, dials |-> 0, endless |-> FALSE,
         nets |-> {"tcp"},
         supports |-> [tcp |-> {1, 2, 3}, udp |-> {1, 2, 3}]]

Three == [g1 |-> {1, 2, 3}, g2 |-> {}]

MCScenario ==
    {\* hysteresis, by delay and by a metric
     [Base EXCEPT !.primary = Three, !.top = 1, !.delays = {1, 2, 3, 4}],
     [Base EXCEPT !.primary = Three, !.top = 2, !.delays = {1, 3, 4}],
     [Base EXCEPT !.primary = Three, !.top = 1, !.byMetric = TRUE,
                  !.delays = {1, 3}, !.metrics = {0, 1, 2}, !.faults = 2],
     [Base EXCEPT !.primary = Three, !.top = 2, !.byMetric = TRUE,
                  !.delays = {1, 3}, !.metrics = {0, 2}, !.faults = 2],
     \* failures and backups, two dials at a time
     [Base EXCEPT !.backup = [g1 |-> {3}, g2 |-> {}], !.faults = 2,
                  !.dials = 1],
     [Base EXCEPT !.primary = [g1 |-> {1}, g2 |-> {}],
                  !.backup = [g1 |-> {3}, g2 |-> {}], !.faults = 1,
                  !.interrupt = TRUE, !.dials = 2],
     \* members that do not support a network
     [Base EXCEPT !.backup = [g1 |-> {3}, g2 |-> {}], !.dials = 1,
                  !.nets = Net, !.supports = [tcp |-> {1, 3}, udp |-> {2}]],
     \* dials that never end, some of them refused
     [Base EXCEPT !.primary = [g1 |-> {1}, g2 |-> {}], !.faults = 1,
                  !.dials = 1, !.endless = TRUE],
     \* a group that is seldom used, unhealthy and zero delays
     [Base EXCEPT !.primary = [g1 |-> {1}, g2 |-> {}], !.faults = 1,
                  !.delays = {0, 1, 9}, !.busy = {}, !.random = TRUE,
                  !.dials = 2],
     \* nested groups
     [Base EXCEPT !.nested = {1}, !.faults = 1, !.asked = TRUE]}

MCShared ==
    {[Base EXCEPT !.primary = [g1 |-> {1}, g2 |-> {1}], !.faults = 1,
                  !.busy = {"g1", "g2"}]}
=============================================================================
