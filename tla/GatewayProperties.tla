-------------------------- MODULE GatewayProperties --------------------------
(***************************************************************************)
(* What the gateway, its store and its broker guarantee together.          *)
(***************************************************************************)
EXTENDS Gateway, TLC

BeforeSend == {"CREATED", "VALIDATED", "AWAITING_APPROVAL", "APPROVED"}

(* Calls that hold o between its record and its broker call.               *)
Sending(o) == \E c \in Callers : call[c].pc = "send" /\ call[c].order = o

(* A client order id never stands for two broker orders, whatever callers
   resubmit, time out or crash (gateway.ts submit, store.ts persistIntent). *)
OneBrokerOrder == \A o \in Orders : copies[o] <= 1

(* The broker never holds an order whose row is missing or has not reached
   SUBMITTING: every step of submit is on disk before the broker call.     *)
RecordedBeforeSent ==
  \A o \in Orders : held[o] # NoOrder => Recorded(o) /\ row[o].state \notin BeforeSend

(* No row ever claims more filled or more protected shares than the broker
   holds, through duplicates, reversals, stale snapshots and crashes.      *)
NeverOverstates ==
  \A o \in Orders : Recorded(o) =>
    /\ row[o].filled <= held[o].filled
    /\ row[o].prot <= held[o].prot

(* A row says PROTECTED only when the broker's protection covers every share
   the broker has filled, not only those the row knows of.                 *)
ProtectedIsCovered ==
  \A o \in Orders : row[o].state = "PROTECTED" =>
    /\ held[o].filled > 0
    /\ held[o].prot >= held[o].filled

(* An order recorded REJECTED is not held by the broker, even when the
   rejection was inferred from a status that found nothing.                *)
RejectedIsNotHeld ==
  \A o \in Orders : row[o].state = "REJECTED" => held[o] = NoOrder

(* An order recorded CANCELED is not working at the broker, and its row has
   the broker's final fill total unless the history asks for reconciliation. *)
CanceledIsSettled ==
  \A o \in Orders : row[o].state = "CANCELED" /\ held[o] # NoOrder =>
    /\ held[o].state = "CANCELED"
    /\ row[o].filled = held[o].filled \/ o \in flagged

(* The last fill of the broker's order is queued, and the store has not
   seen it.                                                                *)
FillQueued(o) ==
  \E i \in 1..Len(queue) :
    /\ queue[i].order = o /\ IsFill(queue[i])
    /\ queue[i].id \notin seen /\ queue[i].qty = held[o].filled

(* Fills the broker has made and the row lacks are on their way in an event,
   or flagged: they are never silently forgotten, whatever reconciliations
   write meanwhile.  With a lossy crash this is false.                     *)
FillsAccounted ==
  \A o \in Orders : Recorded(o) /\ row[o].filled < held[o].filled =>
    FillQueued(o) \/ o \in flagged

(* The refinement: the gateway implements the at-most-once contract.       *)
PhaseOf(o) ==
  IF ~Recorded(o) THEN "new"
  ELSE IF row[o].state \in BeforeSend \/ Sending(o) THEN "recorded" ELSE "past"

Contract == INSTANCE OrderContract WITH
  phase <- [o \in Orders |-> PhaseOf(o)],
  copies <- copies

ImplementsContract == Contract!ContractSpec

-----------------------------------------------------------------------------
(* The inductive invariants behind the theorems of GatewayProofs.          *)

(* A call in progress is about a recorded order; rows never go away.       *)
CallsRecorded ==
  \A c \in Callers : call[c].pc # "idle" => Recorded(call[c].order)

TypeInv == TypeOK /\ CallsRecorded

(* The row state in which a submit waits at each step before its send.     *)
StateAt == [guard |-> "CREATED", approve |-> "VALIDATED",
            submitting |-> "APPROVED", send |-> "SUBMITTING"]

(* A submit that has not sent holds the thread, and its order is exactly as
   its own last transaction left it, unknown to the broker.                *)
SendDiscipline ==
  \A c \in Callers : call[c].pc \in PreSend =>
    /\ running = c
    /\ row[call[c].order].state = StateAt[call[c].pc]
    /\ copies[call[c].order] = 0

(* The count of broker orders agrees with the one reported.                *)
CopiesAgree ==
  \A o \in Orders : /\ copies[o] <= 1
                    /\ copies[o] = 0 <=> held[o] = NoOrder

SendInv == TypeInv /\ SendDiscipline /\ CopiesAgree /\ RecordedBeforeSent

(* What an event or an awaited answer says of an order holds of the broker
   for good: totals only grow, a complete fill is the last, and what the
   broker does not hold by then it will never accept.                      *)
Past(o) == Recorded(o) /\ row[o].state \notin BeforeSend

NeverHeld(o) == held[o] = NoOrder /\ Past(o) /\ ~Sending(o)

Says(o, kind, qty) ==
  /\ kind = "partial_fill" => qty <= held[o].filled
  /\ kind = "fill" => held[o].state = "FILLED" /\ qty = held[o].filled
  /\ kind = "protection_ack" => qty <= held[o].prot
  /\ kind = "reject" => NeverHeld(o)

EventsAreTrue ==
  \A i \in 1..Len(queue) : Says(queue[i].order, queue[i].kind, queue[i].qty)

AnswerIsTrue(k) ==
  /\ k.truth.filled <= held[k.order].filled
  /\ k.truth.prot <= held[k.order].prot
  /\ k.truth.state = "FILLED" => k.truth = held[k.order]
  /\ k.pc = "submit_answer" => k.answer \in DOMAIN SubmitOutcome
  /\ k.answer = "rejected" => NeverHeld(k.order)
  /\ k.pc = "status_answer" /\ k.truth = NoOrder => NeverHeld(k.order)

AnswersAreTrue == \A c \in Callers : call[c].pc # "idle" => AnswerIsTrue(call[c])

(* The broker never overfills what still works, and fills something before
   it calls an order filled.                                               *)
HeldIsSound ==
  \A o \in Orders : /\ held[o].state \in Open => held[o].filled <= Qty
                    /\ held[o].state = "FILLED" => held[o].filled > 0

(* A row r agrees with the broker's order h: a row that says FILLED, or is
   being protected since, has the final total.                             *)
Filled == {"FILLED", "PROTECTION_PENDING", "PROTECTED"}

Agrees(r, h) ==
  /\ r.filled <= h.filled
  /\ r.prot <= h.prot
  /\ r.state \in Filled => h.state = "FILLED" /\ r.filled = h.filled
  /\ r.state = "PROTECTED" => h.prot >= h.filled
  /\ r.state = "REJECTED" => h = NoOrder

RowsAgree == \A o \in Orders : Recorded(o) => Agrees(row[o], held[o])

(* Protection is requested for the row that was just recorded FILLED.      *)
RequestHolds ==
  \A c \in Callers : call[c].pc = "request_protection" =>
    running = c /\ row[call[c].order].state = "FILLED"

TruthInv ==
  /\ SendInv /\ EventsAreTrue /\ AnswersAreTrue /\ HeldIsSound
  /\ RowsAgree /\ RequestHolds

(* While no crash loses an event, the last fill of an order is queued and  *)
(* unseen until the row has it or asks for a reconciliation.  A second     *)
(* caller may write the totals of an old status over those of an order     *)
(* that was filled since, and over no other.                               *)
Alone == \A c, d \in Callers : c = d

Settling(o) == Alone \/ held[o].state # "FILLED"

FillsAreQueued ==
  \A o \in Orders : Recorded(o) /\ Settling(o) /\ row[o].filled # held[o].filled =>
    FillQueued(o) \/ o \in flagged

(* What a reconcile awaits of an order that settles still holds of it.     *)
IsFresh(k) ==
  /\ k.truth = NoOrder \/ held[k.order] # NoOrder
  /\ k.truth.state = "CANCELED" => held[k.order].state = "CANCELED"
  /\ Settling(k.order) => k.truth.filled = held[k.order].filled

AnswersAreFresh ==
  \A c \in Callers : call[c].pc = "status_answer" => IsFresh(call[c])

(* An id names one event, and those to come are new.                       *)
IdsNameEvents ==
  /\ seen \subseteq 0..lastId
  /\ \A i \in 1..Len(queue) : queue[i].id \in 0..lastId
  /\ \A i, j \in 1..Len(queue) : queue[i].id = queue[j].id => queue[i] = queue[j]

(* A confirmed cancel is final, and no fill comes after it.                *)
CancelIsLast ==
  \A i \in 1..Len(queue) : queue[i].kind = "cancel_ack" =>
    /\ held[queue[i].order].state = "CANCELED"
    /\ \A j \in i..Len(queue) : queue[j].order = queue[i].order => ~IsFill(queue[j])

FillsFate ==
  /\ FillsAreQueued /\ AnswersAreFresh
  /\ IdsNameEvents /\ CancelIsLast /\ CanceledIsSettled

FillsInv == TruthInv /\ FillsFate

-----------------------------------------------------------------------------
(* A small instance: brokers that answer, refuse, time out, duplicate and
   reorder, and callers that only their names tell apart.                  *)

Plan(onSubmit, fills, protection, cancel, duplicate, outOfOrder) ==
  [onSubmit |-> onSubmit, fills |-> fills, protection |-> protection,
   cancel |-> cancel, duplicate |-> duplicate, outOfOrder |-> outOfOrder]

Troubles ==
  {Plan("timeout", <<>>, "none", "timeout", FALSE, FALSE),
   Plan("reject", <<>>, "none", "ack", TRUE, FALSE),
   Plan("ack", <<>>, "none", "ack", FALSE, FALSE),
   Plan("ack", <<1>>, "none", "race_fill", FALSE, FALSE),
   Plan("ack", <<1, 2>>, "none", "ack", FALSE, TRUE),
   Plan("ack_after_timeout", <<1, 3>>, "ack", "race_fill", TRUE, FALSE),
   Plan("ack", <<2, 4>>, "ack", "ack", FALSE, FALSE),
   Plan("ack", <<3>>, "partial", "ack", FALSE, TRUE),
   Plan("ack_after_timeout", <<2, 3>>, "ack", "timeout", FALSE, TRUE),
   Plan("ack", <<3>>, "reject", "ack", FALSE, FALSE)}

CallerSymmetry == Permutations(Callers)

=============================================================================
