---- MODULE MCEnhStream ----
(* Logical readers, arbitration and INFO with a RequestStart in parallel and a
   queue of one; raw and logical readers with failing dials and writes and a
   queue of two. *)
EXTENDS EnhStream

Logical == [symbols |-> {1, SymbolEscape, ebusSymbolSyn},
            operations |-> {"ReadByte", "ReadEvent", "StartArbitration", "RequestInfo", "Reconnect"},
            maxPendingEvents |-> 1, dialFails |-> FALSE, writeFails |-> FALSE, dialFunc |-> TRUE]
Raw == [symbols |-> {1, SymbolEscape}, operations |-> {"ReadByte", "ReadEventWithRawSymbol", "Init"},
        maxPendingEvents |-> 2, dialFails |-> TRUE, writeFails |-> TRUE, dialFunc |-> TRUE]
MCSetups == {[s EXCEPT !.dialFunc = d] : s \in {Logical, Raw}, d \in BOOLEAN}
====
