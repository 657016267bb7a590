---- MODULE MCAa24Ipc ----
(* Small mappings, each for one kind of trouble: data that does not fit and  *)
(* ordinals that run out; plans refused, revoked and retired through lanes   *)
(* of two slots; commands that expire while their completion waits; control  *)
(* that overtakes data; a backlog that is not served; and recovery.          *)
(* Beside them one lane on its own, whose endpoints do nothing: laneAlone.   *)
EXTENDS Aa24Ipc, Aa24Lane

VARIABLE laneAlone

Base == [hc |-> 2, wc |-> 2, hd |-> 1, wd |-> 1, maxPlans |-> 1, maxOutstanding |-> 1, service |-> 9,
         plans |-> 0, tokens |-> 0, expiries |-> {9}, maxSequence |-> 9, ticks |-> 1, streams |-> 1,
         uses |-> {"stop"}, badClock |-> FALSE, dies |-> FALSE]
MCSetups ==
  {[Base EXCEPT !.uses = {"raw", "stop", "refused"}, !.maxSequence = 3, !.wd = 2, !.badClock = TRUE],
   [Base EXCEPT !.uses = {"revoke", "stop"}, !.plans = 2, !.maxPlans = 2, !.hc = 3],
   [Base EXCEPT !.uses = {"revoke", "stop"}, !.plans = 2, !.badClock = TRUE],
   [Base EXCEPT !.uses = {}, !.plans = 1, !.tokens = 2, !.ticks = 2, !.maxOutstanding = 2],
   [Base EXCEPT !.uses = {"revoke", "raw"}, !.plans = 1, !.maxSequence = 4, !.wd = 2],
   [Base EXCEPT !.uses = {"revoke", "stop"}, !.plans = 1, !.service = 1, !.ticks = 2, !.expiries = {2, 9}],
   [Base EXCEPT !.plans = 2, !.tokens = 2, !.streams = 2],
   [Base EXCEPT !.plans = 2, !.tokens = 2, !.streams = 2, !.dies = TRUE]}

MCInit ==
  /\ Init /\ LaneInit
  /\ laneAlone \in BOOLEAN
  /\ laneAlone => setup = [Base EXCEPT !.plans = 2, !.tokens = 2, !.streams = 2]
MCNext ==
  \/ ~laneAlone /\ Next /\ UNCHANGED <<laneAlone, laneVars>>
  \/ laneAlone /\ LaneNext /\ UNCHANGED <<laneAlone, vars>>
\* The endpoints' fairness is for the temporal properties of the endpoints only.
MCSpec == MCInit /\ [][MCNext]_<<laneAlone, vars, laneVars>> /\ Fairness
====
