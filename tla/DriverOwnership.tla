-------------------------- MODULE DriverOwnership --------------------------
(***************************************************************************)
(* What transport/driver_runtime.go promises about the bus resource, with  *)
(* the protocol that keeps the promise left out: transports are opened one *)
(* at a time, a transport is published only while it is the sole one that  *)
(* may hold the bus, and nothing is published once the runtime is sealed.  *)
(***************************************************************************)
CONSTANT Transports

VARIABLES
  holding,    \* transports whose closure has not been proved
  effective,  \* the one published for use, 0 if none
  sealed      \* the process epoch is quarantined

vars == <<holding, effective, sealed>>

Init == holding = {} /\ effective = 0 /\ sealed = FALSE

Open(t) ==
  /\ holding = {} /\ effective = 0
  /\ holding' = {t}
  /\ UNCHANGED <<effective, sealed>>

Publish(t) ==
  /\ ~sealed /\ effective = 0
  /\ holding \subseteq {t}
  /\ effective' = t
  /\ UNCHANGED <<holding, sealed>>

Withdraw ==
  /\ ~sealed /\ effective # 0
  /\ effective' = 0
  /\ UNCHANGED <<holding, sealed>>

Close(t) ==
  /\ t \in holding
  /\ holding' = holding \ {t}
  /\ UNCHANGED <<effective, sealed>>

Seal ==
  /\ ~sealed
  /\ sealed' = TRUE
  /\ UNCHANGED <<holding, effective>>

Next ==
  \/ \E t \in Transports : Open(t) \/ Publish(t) \/ Close(t)
  \/ Withdraw \/ Seal

Spec == Init /\ [][Next]_vars
=============================================================================
