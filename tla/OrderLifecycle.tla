--------------------------- MODULE OrderLifecycle ---------------------------
(***************************************************************************)
(* The legal transition table of a persisted order                         *)
(* (packages/broker-gateway/src/state-machine/transitions.ts).             *)
(*                                                                         *)
(* Here and in the modules built on this one, an operator introduced by    *)
(* "Slip" is a plausible mistake in the code that follows it: no           *)
(* specification uses it, and PROJECT.json names the property each breaks. *)
(***************************************************************************)
CONSTANTS Orders    \* client order ids

OrderState ==
  {"CREATED", "VALIDATED", "AWAITING_APPROVAL", "APPROVED", "SUBMITTING",
   "UNKNOWN", "ACKNOWLEDGED", "PARTIALLY_FILLED", "FILLED",
   "PROTECTION_PENDING", "PROTECTED", "PROTECTION_FAILED",
   "CANCEL_PENDING", "CANCELED", "REJECTED", "EXIT_PENDING", "CLOSED"}

Terminal == {"CLOSED", "CANCELED", "REJECTED"}

Successors ==
  [CREATED            |-> {"VALIDATED", "REJECTED"},
   VALIDATED          |-> {"AWAITING_APPROVAL", "APPROVED", "REJECTED"},
   AWAITING_APPROVAL  |-> {"APPROVED", "REJECTED", "CANCELED"},
   APPROVED           |-> {"SUBMITTING", "CANCELED"},
   SUBMITTING         |-> {"ACKNOWLEDGED", "REJECTED", "UNKNOWN"},
   UNKNOWN            |-> {"ACKNOWLEDGED", "REJECTED", "PARTIALLY_FILLED",
                           "FILLED", "CANCELED"},
   ACKNOWLEDGED       |-> {"PARTIALLY_FILLED", "FILLED", "CANCEL_PENDING",
                           "UNKNOWN"},
   PARTIALLY_FILLED   |-> {"PARTIALLY_FILLED", "FILLED", "CANCEL_PENDING",
                           "PROTECTION_PENDING", "UNKNOWN"},
   FILLED             |-> {"PROTECTION_PENDING", "CLOSED"},
   PROTECTION_PENDING |-> {"PROTECTED", "PROTECTION_FAILED", "UNKNOWN"},
   PROTECTION_FAILED  |-> {"PROTECTION_PENDING", "EXIT_PENDING"},
   PROTECTED          |-> {"EXIT_PENDING", "PROTECTION_PENDING"},
   CANCEL_PENDING     |-> {"CANCELED", "FILLED", "PARTIALLY_FILLED",
                           "UNKNOWN"},
   EXIT_PENDING       |-> {"CLOSED", "UNKNOWN", "PARTIALLY_FILLED"},
   CLOSED             |-> {},
   CANCELED           |-> {},
   REJECTED           |-> {}]

IsLegal(from, to) == to \in Successors[from]

=============================================================================
