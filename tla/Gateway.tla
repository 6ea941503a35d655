------------------------------- MODULE Gateway -------------------------------
(***************************************************************************)
(* The broker gateway (guards/gateway.ts) over its durable store and one   *)
(* broker.  Gateway calls are asynchronous functions on one JavaScript     *)
(* thread: a call runs alone from its start to its await on the adapter,   *)
(* and again from the answer to its end, while other calls and event       *)
(* deliveries run in between.  The process may crash between any two       *)
(* store transactions; the store and the broker survive, calls do not.     *)
(***************************************************************************)
EXTENDS OrderStore, SyntheticBroker

CONSTANTS Callers,       \* concurrent callers of the gateway
          Nobody,        \* no call holds the thread
          LossyCrash,    \* a crash may take events drained but not applied
          Watchdog       \* something sends unknown_timeout events

ASSUME NobodyAssumption == Nobody \notin Callers
ASSUME SwitchesAssumption == LossyCrash \in BOOLEAN /\ Watchdog \in BOOLEAN

VARIABLES call,     \* call[c]: the call caller c has in progress
          running   \* the caller whose call holds the thread

gatewayVars == <<call, running>>
vars == <<storeVars, brokerVars, gatewayVars>>

(* Where a call is: the step it takes next.                                *)
PreSend == {"guard", "approve", "submitting", "send"}
Awaiting == {"submit_answer", "cancel_answer", "status_answer"}
Pc == {"idle", "cancel_send", "request_protection"} \cup PreSend \cup Awaiting

Answer == {"none", "brokerOrderId", "rejected", "UNKNOWN", "CANCEL_PENDING"}

(* truth is the broker snapshot a reconcile awaits: read when asked,
   used when answered.                                                     *)
Call == [pc : Pc, order : Orders, answer : Answer,
         truth : BrokerOrder \cup {NoOrder}]

Idle == [pc |-> "idle"]

TypeOK ==
  /\ StoreTypeOK
  /\ BrokerTypeOK
  /\ queue \in Seq(Event)
  /\ call \in [Callers -> Call \cup {Idle}]
  /\ running \in Callers \cup {Nobody}

Init ==
  /\ StoreInit
  /\ BrokerInit
  /\ call = [c \in Callers |-> Idle]
  /\ running = Nobody

-----------------------------------------------------------------------------
Free(c) == running = Nobody /\ call[c].pc = "idle"

At(c, pc) == running = c /\ call[c].pc = pc

Answered(c, pc) == running = Nobody /\ call[c].pc = pc

(* The call keeps the thread and continues at pc.                          *)
GoOn(c, pc) ==
  /\ running' = c
  /\ call' = [call EXCEPT ![c].pc = pc]

Begin(c, o, pc) ==
  /\ running' = c
  /\ call' = [call EXCEPT ![c] = [pc |-> pc, order |-> o, answer |-> "none",
                                  truth |-> NoOrder]]

(* The call yields the thread until its answer is read.                    *)
Await(c, o, pc, answer, truth) ==
  /\ running' = Nobody
  /\ call' = [call EXCEPT ![c] = [pc |-> pc, order |-> o,
                                  answer |-> answer, truth |-> truth]]

(* The call returns, or throws what the store threw.                       *)
End(c) ==
  /\ running' = Nobody
  /\ call' = [call EXCEPT ![c] = Idle]

NotAllowed(o, to, reconciling) ==
  /\ ~MayMove(o, to, reconciling)
  /\ UNCHANGED row

(* One store transaction, which commits or throws.                         *)
TryMove(o, to, reconciling) ==
  \/ MayMove(o, to, reconciling) /\ Move(o, to)
  \/ NotAllowed(o, to, reconciling)

-----------------------------------------------------------------------------
(* submit                                                                  *)

(* A second intent with a recorded client order id is refused.             *)
SubmitPersist(c, o, kind) ==
  /\ Free(c)
  /\ PersistIntent(o, kind)
  /\ Begin(c, o, "guard")
  /\ UNCHANGED <<seen, flagged, brokerVars>>

(* The sleeve allowlist and the hard caps refuse or pass the intent.       *)
SubmitGuard(c) ==
  LET o == call[c].order IN
  /\ At(c, "guard")
  /\ \/ Move(o, "REJECTED") /\ End(c)
     \/ Move(o, "VALIDATED") /\ GoOn(c, "approve")
  /\ UNCHANGED <<seen, flagged, brokerVars>>

SubmitApprove(c) ==
  /\ At(c, "approve")
  /\ Move(call[c].order, "APPROVED")
  /\ GoOn(c, "submitting")
  /\ UNCHANGED <<seen, flagged, brokerVars>>

SubmitMark(c) ==
  /\ At(c, "submitting")
  /\ Move(call[c].order, "SUBMITTING")
  /\ GoOn(c, "send")
  /\ UNCHANGED <<seen, flagged, brokerVars>>

(* The one broker call of an order.                                        *)
SubmitSend(c) ==
  LET o == call[c].order IN
  /\ At(c, "send")
  /\ \E plan \in Plans :
       /\ BrokerSubmit(o, plan)
       /\ Await(c, o, "submit_answer", SubmitAnswer(plan), NoOrder)
  /\ UNCHANGED storeVars

(* Slip: a lost response is taken for a rejection.                         *)
SubmitOutcomeGuessed ==
  [brokerOrderId |-> "ACKNOWLEDGED", rejected |-> "REJECTED",
   UNKNOWN |-> "REJECTED"]

SubmitOutcome ==
  [brokerOrderId |-> "ACKNOWLEDGED", rejected |-> "REJECTED",
   UNKNOWN |-> "UNKNOWN"]

SubmitReturn(c) ==
  /\ Answered(c, "submit_answer")
  /\ TryMove(call[c].order, SubmitOutcome[call[c].answer], FALSE)
  /\ End(c)
  /\ UNCHANGED <<seen, flagged, brokerVars>>

-----------------------------------------------------------------------------
(* cancel                                                                  *)

CancelLocally(c, o) ==
  /\ Free(c)
  /\ row[o].state \in {"AWAITING_APPROVAL", "APPROVED"}
  /\ Move(o, "CANCELED")
  /\ UNCHANGED <<seen, flagged, brokerVars, gatewayVars>>

CancelRequest(c, o) ==
  /\ Free(c)
  /\ MayMove(o, "CANCEL_PENDING", FALSE)
  /\ Move(o, "CANCEL_PENDING")
  /\ Begin(c, o, "cancel_send")
  /\ UNCHANGED <<seen, flagged, brokerVars>>

CancelSend(c) ==
  LET o == call[c].order IN
  /\ At(c, "cancel_send")
  /\ \E plan \in Plans :
       /\ BrokerCancel(o, plan)
       /\ Await(c, o, "cancel_answer", CancelAnswer(o, plan), NoOrder)
  /\ UNCHANGED storeVars

(* Slip: the broker's receipt of the request is taken for the cancel.      *)
CancelReturnAtOnce(c) ==
  /\ Answered(c, "cancel_answer")
  /\ \/ call[c].answer = "UNKNOWN" /\ TryMove(call[c].order, "UNKNOWN", FALSE)
     \/ /\ call[c].answer = "CANCEL_PENDING"
        /\ TryMove(call[c].order, "CANCELED", FALSE)
  /\ End(c)
  /\ UNCHANGED <<seen, flagged, brokerVars>>

CancelReturn(c) ==
  /\ Answered(c, "cancel_answer")
  /\ \/ call[c].answer = "UNKNOWN" /\ TryMove(call[c].order, "UNKNOWN", FALSE)
     \/ call[c].answer = "CANCEL_PENDING" /\ UNCHANGED row
  /\ End(c)
  /\ UNCHANGED <<seen, flagged, brokerVars>>

-----------------------------------------------------------------------------
(* reconcile                                                               *)

(* Any state but UNKNOWN returns unchanged, which is no step.              *)
ReconcileAsk(c, o) ==
  /\ Free(c)
  /\ row[o].state = "UNKNOWN"
  /\ Await(c, o, "status_answer", "none", held[o])
  /\ UNCHANGED <<storeVars, brokerVars>>

(* Whether the grace period is over depends on clocks left out here: both
   outcomes are possible.                                                  *)
ReconcileNotFound(c) ==
  /\ Answered(c, "status_answer")
  /\ call[c].truth = NoOrder
  /\ \/ TryMove(call[c].order, "REJECTED", TRUE)
     \/ UNCHANGED row
  /\ End(c)
  /\ UNCHANGED <<seen, flagged, brokerVars>>

(* The row is moved from the state it has by now; the totals written are
   those of the awaited snapshot.                                          *)
ReconcileFound(c) ==
  LET o == call[c].order
      truth == call[c].truth IN
  /\ Answered(c, "status_answer")
  /\ truth # NoOrder
  /\ \/ /\ MayMove(o, truth.state, TRUE)
        /\ MoveWithTotals(o, truth.state, truth.filled, truth.prot)
        /\ IF truth.state = "FILLED" /\ row[o].kind = "entry"
           THEN GoOn(c, "request_protection")
           ELSE End(c)
     \/ NotAllowed(o, truth.state, TRUE) /\ End(c)
  /\ UNCHANGED <<seen, flagged, brokerVars>>

RequestProtection(c) ==
  /\ At(c, "request_protection")
  /\ Move(call[c].order, "PROTECTION_PENDING")
  /\ End(c)
  /\ UNCHANGED <<seen, flagged, brokerVars>>

-----------------------------------------------------------------------------
(* Events and crashes                                                      *)

(* The drained queue is applied in emission order.                         *)
Deliver ==
  /\ running = Nobody
  /\ queue # <<>>
  /\ ApplyBrokerEvent(Head(queue))
  /\ queue' = Tail(queue)
  /\ UNCHANGED <<held, copies, lastId, gatewayVars>>

(* A watchdog's unknown_timeout event: its id is fresh and never comes
   again, so it is not remembered.  An UNKNOWN order is left as it is.     *)
UnknownTimeout(o) ==
  /\ Watchdog
  /\ running = Nobody
  /\ Recorded(o)
  /\ \/ /\ IsLegal(row[o].state, "UNKNOWN")
        /\ Move(o, "UNKNOWN")
        /\ UNCHANGED flagged
     \/ /\ ~IsLegal(row[o].state, "UNKNOWN")
        /\ row[o].state # "UNKNOWN"
        /\ flagged' = flagged \cup {o}
        /\ UNCHANGED row
  /\ UNCHANGED <<seen, brokerVars, gatewayVars>>

(* What was drained from the queue and not applied dies with the process.  *)
Crash ==
  /\ running' = Nobody
  /\ call' = [c \in Callers |-> Idle]
  /\ \E lost \in 0..(IF LossyCrash THEN Len(queue) ELSE 0) :
       queue' = SubSeq(queue, lost + 1, Len(queue))
  /\ UNCHANGED <<storeVars, held, copies, lastId>>

-----------------------------------------------------------------------------
Submit(c) ==
  \/ \E o \in Orders, kind \in Kind : SubmitPersist(c, o, kind)
  \/ SubmitGuard(c)
  \/ SubmitApprove(c)
  \/ SubmitMark(c)
  \/ SubmitSend(c)
  \/ SubmitReturn(c)

Cancel(c) ==
  \/ \E o \in Orders : CancelLocally(c, o) \/ CancelRequest(c, o)
  \/ CancelSend(c)
  \/ CancelReturn(c)

Reconcile(c) ==
  \/ \E o \in Orders : ReconcileAsk(c, o)
  \/ ReconcileNotFound(c)
  \/ ReconcileFound(c)
  \/ RequestProtection(c)

Next ==
  \/ \E c \in Callers : Submit(c) \/ Cancel(c) \/ Reconcile(c)
  \/ Deliver
  \/ \E o \in Orders : UnknownTimeout(o)
  \/ Crash

Spec == Init /\ [][Next]_vars

=============================================================================
