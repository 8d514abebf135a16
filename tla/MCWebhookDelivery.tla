-------------------------- MODULE MCWebhookDelivery --------------------------
(***************************************************************************)
(* Small instances of WebhookDelivery.                                     *)
(***************************************************************************)
EXTENDS WebhookDelivery

\* Every endpoint subscribes to every event.
WantsAll == [e \in Endpoints |-> Events]

\* A steady endpoint subscribes to the second event only.
WantsSome == [e \in Endpoints |-> IF e \in Steady THEN {2} ELSE Events]

=============================================================================
