--------------------------- MODULE DeliveryContract ---------------------------
(***************************************************************************)
(* What a merchant is promised about each webhook delivery, with endpoints,*)
(* circuits, backoff and crashes left out: it is posted, perhaps again and *)
(* again although accepted, until it is closed; it is closed as delivered  *)
(* only once accepted and given up only after MaxAttempts posts; and a     *)
(* closed one is never posted nor opened again.                            *)
(***************************************************************************)
EXTENDS Integers, Sequences

CONSTANT MaxAttempts

VARIABLE delivery

New == [state |-> "open", posts |-> 0, accepted |-> FALSE]

Init == delivery = << >>

Add == delivery' = Append(delivery, New)

Open(i) == i \in DOMAIN delivery /\ delivery[i].state = "open"

Post(i) ==
  /\ Open(i)
  /\ \E accepted \in BOOLEAN :
       delivery' = [delivery EXCEPT ![i] =
                      [@ EXCEPT !.posts = delivery[i].posts + 1,
                                !.accepted = (delivery[i].accepted \/ accepted)]]

Close(i, state) ==
  /\ Open(i)
  /\ delivery' = [delivery EXCEPT ![i].state = state]

Deliver(i) == delivery[i].accepted /\ Close(i, "delivered")
GiveUp(i)  == delivery[i].posts >= MaxAttempts /\ Close(i, "dead_lettered")

Next == Add \/ \E i \in DOMAIN delivery : Post(i) \/ Deliver(i) \/ GiveUp(i)

Spec == Init /\ [][Next]_delivery

=============================================================================
