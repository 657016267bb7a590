-------------------------- MODULE MCBusTransaction --------------------------
(* A broadcast, a frame to an initiator and one to a target, with payload    *)
(* bytes that need escaping.  Beside them the telegram machine on a bus of   *)
(* its own (observing), with the shortest and the longest telegrams and      *)
(* payloads that look like an acknowledgement or a SYN.                      *)
EXTENDS BusTransaction, TelegramFsm

VARIABLE observing

MCTelegrams == {<<16, 254, 169, 170>>, <<16, 3, 170>>, <<16, 8, 170, 5>>}
MCFills == {Plain(5), Plain(NACKByte), Symbol(SynByte, TRUE)}
MCStray == MCFills \cup {RawSyn, Plain(ACKByte), Plain(16), Plain(17)}

MCInit ==
  /\ TransactionInit /\ FsmInit
  /\ observing \in BOOLEAN
  /\ observing => kind = "plain" /\ telegram = <<16, 8, 170, 5>> /\ includeSource
MCNext ==
  \/ ~observing /\ TransactionNext /\ UNCHANGED <<observing, fsmVars>>
  \/ observing /\ FsmNext /\ UNCHANGED <<observing, transactionVars>>
MCSpec == MCInit /\ [][MCNext]_<<observing, transactionVars, fsmVars>>
=============================================================================
