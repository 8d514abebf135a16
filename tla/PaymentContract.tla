--------------------------- MODULE PaymentContract ---------------------------
(***************************************************************************)
(* What merchants and payers are promised about a payment, with versions,  *)
(* requests, attempts and retries left out:                                *)
(*   - it moves along waiting -> accepted -> paid -> refunded, or ends     *)
(*     failed or withdrawn, and never leaves an end;                       *)
(*   - a rail is asked for money only once the payer has accepted, and a   *)
(*     payment withdrawn by its merchant or by the clock is never asked    *)
(*     for, neither before nor afterwards;                                 *)
(*   - it is paid only after some rail was asked.                          *)
(***************************************************************************)
CONSTANT Payments

VARIABLES
  phase,   \* phase of each payment
  asked    \* whether some rail was asked to move its money

vars == <<phase, asked>>

Phases == {"waiting", "accepted", "paid", "refunded", "failed", "withdrawn"}

TypeOK == /\ phase \in [Payments -> Phases]
          /\ asked \in [Payments -> BOOLEAN]

Init == /\ phase = [p \in Payments |-> "waiting"]
        /\ asked = [p \in Payments |-> FALSE]

Move(p, from, to) ==
  /\ phase[p] \in from
  /\ phase' = [phase EXCEPT ![p] = to]
  /\ UNCHANGED asked

Accept(p)   == Move(p, {"waiting"}, "accepted")
Withdraw(p) == Move(p, {"waiting"}, "withdrawn")
Fail(p)     == Move(p, {"waiting", "accepted"}, "failed")
Settle(p)   == asked[p] /\ Move(p, {"accepted"}, "paid")
Refund(p)   == Move(p, {"paid"}, "refunded")

\* Money may be asked for again while another answer already decided the
\* payment: nothing here promises a single charge.
AskRail(p) ==
  /\ ~asked[p] /\ phase[p] \notin {"waiting", "withdrawn"}
  /\ asked' = [asked EXCEPT ![p] = TRUE]
  /\ UNCHANGED phase

Next == \E p \in Payments :
          \/ Accept(p) \/ Withdraw(p) \/ Fail(p) \/ Settle(p) \/ Refund(p)
          \/ AskRail(p)

Spec == Init /\ [][Next]_vars

=============================================================================
