---- MODULE MCAa26Responder ----
(* Responders for one kind of trouble each: what the wire carries; plans     *)
(* superseded, revoked and fenced under a transaction; local initiators; the *)
(* subscriber's ring; faults and the next stream.  The checksum takes four   *)
(* values, two of which must be escaped.                                     *)
EXTENDS Aa26Responder

MCInitiators == {0, 1, 255}
MCTargets == {8}
MCCRCStep(c, raw) == <<0, 169, 1, 170>>[((2 * c + (raw \div 8) + raw) % 4) + 1]

Short == [sources |-> {0, 1}, pb |-> 1, sb |-> 8, data |-> <<>>, reply |-> <<0, 1>>]
Long == [sources |-> {1}, pb |-> 169, sb |-> 1, data |-> <<170>>, reply |-> <<0>>]
Base == [symbols |-> {0, 1, 8, 169, 170}, maxRequestData |-> 1, ring |-> 1, streams |-> 1, commands |-> 0, buffer |-> 0,
         plans |-> <<[address |-> 8, entries |-> {Short}]>>, uses |-> {}]
Two == <<[address |-> 8, entries |-> {Short}], [address |-> 8, entries |-> {[Short EXCEPT !.reply = <<1>>]}]>>
Quiet == [Base EXCEPT !.symbols = {0, 1, 8, 170}, !.maxRequestData = 0]
MCSetups ==
  {[Base EXCEPT !.plans = <<[address |-> 8, entries |-> {Short, Long}]>>, !.symbols = @ \cup {255}],
   [Quiet EXCEPT !.plans = Two, !.uses = {"retire"}],
   [Quiet EXCEPT !.uses = {"expire", "stop", "refuse", "gap", "clock"}, !.streams = 2],
   [Quiet EXCEPT !.commands = 2, !.uses = {"expire", "fault", "revoke", "retire"}],
   [Quiet EXCEPT !.symbols = {1, 8, 170}, !.ring = 5, !.buffer = 4]}
====
