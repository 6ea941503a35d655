-------------------------- MODULE SyntheticBroker --------------------------
(***************************************************************************)
(* The broker behind the gateway, as the fault-injecting SyntheticBroker   *)
(* of adapters/synthetic/synthetic-broker.ts plays it: the orders it       *)
(* holds, its queue of events not yet drained, and its id counter.         *)
(*                                                                         *)
(* A fault plan is chosen from Plans at each adapter call.  A plan names   *)
(* its fills by the cumulative quantity each one brings the order to.      *)
(***************************************************************************)
EXTENDS OrderLifecycle, Naturals, Sequences, SequencesExt

CONSTANTS Qty,      \* the quantity every intent orders
          Plans     \* the fault plans a call may meet

VARIABLES held,     \* held[o]: the first broker order accepted for o
          copies,   \* copies[o]: how many were accepted for o
          queue,    \* events emitted and not yet consumed
          lastId    \* the last event id issued

brokerVars == <<held, copies, queue, lastId>>

BrokerState == {"ACKNOWLEDGED", "PARTIALLY_FILLED", "FILLED", "CANCELED"}

BrokerOrder == [state : BrokerState, filled : Nat, prot : Nat]

Open == {"ACKNOWLEDGED", "PARTIALLY_FILLED"}

NoOrder == [state |-> "NONE", filled |-> 0, prot |-> 0]

FaultPlan ==
  [onSubmit   : {"ack", "reject", "timeout", "ack_after_timeout"},
   fills      : Seq(Nat \ {0}),
   protection : {"none", "ack", "partial", "reject"},
   cancel     : {"ack", "race_fill", "timeout"},
   duplicate  : BOOLEAN,
   outOfOrder : BOOLEAN]

ASSUME QtyAssumption == Qty \in Nat \ {0}
ASSUME PlansAssumption ==
  /\ Plans \subseteq FaultPlan
  /\ \A plan \in Plans : \A i, j \in 1..Len(plan.fills) :
       i < j => plan.fills[i] < plan.fills[j]

BrokerTypeOK ==
  /\ held \in [Orders -> BrokerOrder \cup {NoOrder}]
  /\ copies \in [Orders -> Nat]
  /\ lastId \in Nat

BrokerInit ==
  /\ held = [o \in Orders |-> NoOrder]
  /\ copies = [o \in Orders |-> 0]
  /\ queue = <<>>
  /\ lastId = 0

-----------------------------------------------------------------------------
(* emit: ids are given in creation order, before a batch is reversed; a
   duplicate carries the id of its original.                               *)
Body(kind, qty) == [kind |-> kind, qty |-> qty]

Stamped(o, bodies) ==
  [i \in 1..Len(bodies) |-> [id |-> lastId + i, order |-> o,
                             kind |-> bodies[i].kind, qty |-> bodies[i].qty]]

Twice(s) == [i \in 1..2 * Len(s) |-> s[(i + 1) \div 2]]

Delivered(s, plan) ==
  LET ordered == IF plan.outOfOrder THEN Reverse(s) ELSE s
  IN  IF plan.duplicate THEN Twice(ordered) ELSE ordered

Emit(o, bodies, plan) ==
  /\ queue' = queue \o Delivered(Stamped(o, bodies), plan)
  /\ lastId' = lastId + Len(bodies)

-----------------------------------------------------------------------------
(* accept: the plan's fills apply while the order is open, the one that
   reaches the quantity is the last; protection follows a complete fill.   *)
FillsWhileOpen(fills) ==
  LET stop == {i \in 1..Len(fills) : fills[i] >= Qty}
  IN  IF stop = {} THEN fills
      ELSE SubSeq(fills, 1, CHOOSE i \in stop : \A j \in stop : i <= j)

FillBody(total) ==
  Body(IF total >= Qty THEN "fill" ELSE "partial_fill", total)

StateOfTotal(total) ==
  IF total = 0 THEN "ACKNOWLEDGED"
  ELSE IF total >= Qty THEN "FILLED" ELSE "PARTIALLY_FILLED"

TotalOf(fills) == IF fills = <<>> THEN 0 ELSE fills[Len(fills)]

CoverOf(total, protection) ==
  IF total < Qty THEN 0
  ELSE CASE protection = "ack"     -> Qty
         [] protection = "partial" -> Qty \div 2
         [] OTHER                  -> 0

ProtectionBodies(total, protection) ==
  IF total < Qty \/ protection = "none" THEN <<>>
  ELSE IF protection = "reject" THEN <<Body("protection_reject", 0)>>
  ELSE <<Body("protection_ack", CoverOf(total, protection))>>

(* A second accept for o is a second broker order; the first one stays the
   one orderStatus reports.                                                *)
Accept(o, plan) ==
  LET fills == FillsWhileOpen(plan.fills)
      total == TotalOf(fills)
      bodies == <<Body("ack", 0)>>
                  \o [i \in 1..Len(fills) |-> FillBody(fills[i])]
                  \o ProtectionBodies(total, plan.protection)
      accepted == [state |-> StateOfTotal(total), filled |-> total,
                   prot |-> CoverOf(total, plan.protection)]
  IN  /\ held' = [held EXCEPT ![o] = IF @ = NoOrder THEN accepted ELSE @]
      /\ copies' = [copies EXCEPT ![o] = @ + 1]
      /\ Emit(o, bodies, plan)

(* submit: what the call does to the broker, and what the gateway is told. *)
BrokerSubmit(o, plan) ==
  \/ /\ plan.onSubmit \in {"ack", "ack_after_timeout"}
     /\ Accept(o, plan)
  \/ /\ plan.onSubmit = "reject"
     /\ Emit(o, <<Body("reject", 0)>>, plan)
     /\ UNCHANGED <<held, copies>>
  \/ /\ plan.onSubmit = "timeout"
     /\ UNCHANGED brokerVars

SubmitAnswer(plan) ==
  CASE plan.onSubmit = "ack"    -> "brokerOrderId"
    [] plan.onSubmit = "reject" -> "rejected"
    [] OTHER                    -> "UNKNOWN"

(* cancel: only an open order is canceled or, in a race, filled first.     *)
BrokerCancel(o, plan) ==
  LET live == held[o].state \in Open IN
  \/ /\ live /\ plan.cancel = "ack"
     /\ held' = [held EXCEPT ![o].state = "CANCELED"]
     /\ Emit(o, <<Body("cancel_ack", 0)>>, plan)
     /\ UNCHANGED copies
  \/ /\ live /\ plan.cancel = "race_fill"
     /\ held' = [held EXCEPT ![o] = [@ EXCEPT !.state = "FILLED",
                                              !.filled = Qty]]
     /\ Emit(o, <<Body("fill", Qty)>>, plan)
     /\ UNCHANGED copies
  \/ /\ ~live \/ plan.cancel = "timeout"
     /\ UNCHANGED brokerVars

CancelAnswer(o, plan) ==
  IF held[o] = NoOrder \/ plan.cancel = "timeout" THEN "UNKNOWN"
  ELSE "CANCEL_PENDING"

=============================================================================
