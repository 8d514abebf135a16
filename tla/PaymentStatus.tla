---------------------------- MODULE PaymentStatus ----------------------------
(***************************************************************************)
(* The payment and attempt statuses of openpay-domain and the transition   *)
(* table every status change of the system goes through.                   *)
(***************************************************************************)

PaymentStatuses ==
  {"CREATED", "PENDING", "REQUIRES_ACTION", "AUTHORIZED", "PROCESSING",
   "SETTLED", "FAILED", "CANCELLED", "EXPIRED", "REFUND_PENDING", "REFUNDED",
   "PARTIALLY_REFUNDED"}

AttemptStatuses ==
  {"CREATED", "REQUIRES_ACTION", "PROCESSING", "AUTHORIZED", "SETTLED",
   "FAILED", "CANCELLED", "EXPIRED", "AMBIGUOUS"}

IsTerminal(s) == s \in {"FAILED", "CANCELLED", "EXPIRED", "REFUNDED"}

IsSettledFamily(s) ==
  s \in {"SETTLED", "REFUND_PENDING", "REFUNDED", "PARTIALLY_REFUNDED"}

\* A fault for the checks to notice: PROCESSING payments may be given up.
AllowedTargetsLax(s) ==
  CASE s = "PENDING"    -> {"PROCESSING", "FAILED", "CANCELLED", "EXPIRED"}
    [] s = "PROCESSING" -> {"SETTLED", "FAILED", "CANCELLED", "EXPIRED"}
    [] s = "SETTLED"    -> {"REFUNDED"}
    [] OTHER            -> {}

AllowedTargets(s) ==
  CASE s = "CREATED"            -> {"PENDING"}
    [] s = "PENDING"            -> {"REQUIRES_ACTION", "PROCESSING", "FAILED",
                                    "CANCELLED", "EXPIRED"}
    [] s = "REQUIRES_ACTION"    -> {"PROCESSING", "FAILED", "CANCELLED", "EXPIRED"}
    [] s = "PROCESSING"         -> {"AUTHORIZED", "SETTLED", "FAILED"}
    [] s = "AUTHORIZED"         -> {"SETTLED", "FAILED", "CANCELLED"}
    [] s = "SETTLED"            -> {"REFUND_PENDING", "PARTIALLY_REFUNDED", "REFUNDED"}
    [] s = "REFUND_PENDING"     -> {"REFUNDED", "PARTIALLY_REFUNDED", "FAILED"}
    [] s = "PARTIALLY_REFUNDED" -> {"REFUNDED", "REFUND_PENDING"}
    [] OTHER                    -> {}

CanTransitionTo(s, next) == next \in AllowedTargets(s)

\* PaymentStatus::transition succeeds on an allowed edge and, as a no-op, on
\* the status the payment already has.
TransitionOk(s, next) == s = next \/ CanTransitionTo(s, next)

\* webhook_event, with the default its callers add for RefundPending.
WebhookEvent(s) ==
  CASE s = "CREATED"                             -> "payment.created"
    [] s = "REQUIRES_ACTION"                     -> "payment.requires_action"
    [] s = "AUTHORIZED"                          -> "payment.authorized"
    [] s = "SETTLED"                             -> "payment.settled"
    [] s = "FAILED"                              -> "payment.failed"
    [] s = "CANCELLED"                           -> "payment.cancelled"
    [] s = "EXPIRED"                             -> "payment.expired"
    [] s \in {"REFUNDED", "PARTIALLY_REFUNDED"}  -> "payment.refunded"
    [] OTHER                                     -> "payment.processing"

\* A fault: the adapter's status leaks into the domain.
IntoPaymentStatusLeaking(a) == a

IntoPaymentStatus(a) ==
  CASE a = "CREATED"   -> "PENDING"
    [] a = "AMBIGUOUS" -> "PROCESSING"
    [] OTHER           -> a

=============================================================================
