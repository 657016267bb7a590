---- MODULE MCAa23Plans ----
(* Two plan slots, under several bounds in turn. *)
EXTENDS Aa23Plans, TLC

CONSTANTS a1, a2, m1, s1, s2

One == [tick |-> 0, subscriber |-> 1, epoch |-> 1, source |-> 1, worker |-> 1, stream |-> 1,
        plan |-> 2, incarnation |-> 2, addresses |-> {a1}]
MCBounds == {[One EXCEPT !.worker = 2, !.plan = 1],                  \* a worker dies and another follows
             [One EXCEPT !.subscriber = 2, !.stream = 2],           \* a successor at the address, a new stream
             [One EXCEPT !.source = 2, !.epoch = 2],                \* a new source, a new registration
             [One EXCEPT !.tick = 1, !.plan = 1],                   \* expiry and renewal
             [One EXCEPT !.epoch = 2, !.plan = 1, !.incarnation = 1, !.addresses = {a1, a2}],   \* two registrations
             [One EXCEPT !.plan = 1, !.addresses = {a1, m1}]}       \* initiator addresses
Symmetry == Permutations({s1, s2})
====
