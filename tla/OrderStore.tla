----------------------------- MODULE OrderStore -----------------------------
(***************************************************************************)
(* The durable order store (state-machine/store.ts): one row per client    *)
(* order id, the ids of the broker events already applied, and the orders  *)
(* whose history holds a reconciliation_needed record.  Every operator     *)
(* here is one SQLite transaction, so it is atomic and survives a crash.   *)
(*                                                                         *)
(* Prices and the broker's own order id are left out: no decision of the   *)
(* store reads them.                                                       *)
(***************************************************************************)
EXTENDS OrderLifecycle, Naturals

VARIABLES row,      \* order_states joined with the intent it belongs to
          seen,     \* broker_events_seen
          flagged   \* orders with a reconciliation_needed record

storeVars == <<row, seen, flagged>>

(* A BUY with a protective stop is an "entry"; a BUY without one is
   "plain"; a SELL is an "exit".                                           *)
Kind == {"entry", "plain", "exit"}

EventKind == {"ack", "reject", "partial_fill", "fill", "cancel_ack",
              "protection_ack", "protection_reject", "unknown_timeout"}

Row == [state : OrderState, filled : Nat, prot : Nat, kind : Kind]

NoRow == [state |-> "NONE"]

(* qty is the cumulative quantity of a fill and the covered quantity of a
   protection_ack.                                                         *)
Event == [id : Nat, order : Orders, kind : EventKind, qty : Nat]

StoreTypeOK ==
  /\ row \in [Orders -> Row \cup {NoRow}]
  /\ seen \subseteq Nat
  /\ flagged \subseteq Orders

StoreInit ==
  /\ row = [o \in Orders |-> NoRow]
  /\ seen = {}
  /\ flagged = {}

Recorded(o) == row[o] # NoRow

-----------------------------------------------------------------------------
(* Slip: only open orders are looked up, so a finished one is resubmitted. *)
MayPersistIfDone(o) == Recorded(o) => row[o].state \in Terminal

(* persistIntent refuses a client order id that already has a row.         *)
MayPersist(o) == ~Recorded(o)

PersistIntent(o, kind) ==
  /\ MayPersist(o)
  /\ row' = [row EXCEPT ![o] = [state |-> "CREATED", filled |-> 0,
                                prot |-> 0, kind |-> kind]]

(* transition throws unless the table allows the move, an UNKNOWN order
   is left by reconciliation only, and FILLED closes for a SELL only.      *)
MayMove(o, to, reconciling) ==
  /\ Recorded(o)
  /\ IsLegal(row[o].state, to)
  /\ row[o].state = "UNKNOWN" => reconciling
  /\ row[o].state = "FILLED" /\ to = "CLOSED" => row[o].kind = "exit"

Move(o, to) == row' = [row EXCEPT ![o].state = to]

MoveWithTotals(o, to, filled, prot) ==
  row' = [row EXCEPT ![o] = [@ EXCEPT !.state = to, !.filled = filled,
                                      !.prot = prot]]

-----------------------------------------------------------------------------
IsFill(e) == e.kind \in {"partial_fill", "fill"}

(* A fill whose cumulative quantity does not exceed what the row holds.    *)
IsStaleFill(r, e) == r.filled > 0 /\ e.qty <= r.filled

(* Slip: any confirmed coverage protects.                                  *)
CoversSome(r, e) == e.qty > 0 /\ r.filled > 0

Covers(r, e) == e.qty >= r.filled /\ r.filled > 0

(* Events that leave the state alone and are not a disagreement.           *)
IsNoop(r, e) ==
  \/ e.kind = "ack" /\ r.state \notin {"SUBMITTING", "UNKNOWN"}
  \/ IsFill(e) /\ IsStaleFill(r, e)
  \/ e.kind = "protection_ack" /\ r.state = "PROTECTION_PENDING"
       /\ ~Covers(r, e)
  \/ e.kind = "unknown_timeout" /\ r.state = "UNKNOWN"

Target ==
  [ack               |-> "ACKNOWLEDGED",
   reject            |-> "REJECTED",
   partial_fill      |-> "PARTIALLY_FILLED",
   fill              |-> "FILLED",
   cancel_ack        |-> "CANCELED",
   protection_ack    |-> "PROTECTED",
   protection_reject |-> "PROTECTION_FAILED",
   unknown_timeout   |-> "UNKNOWN"]

(* A filled entry awaits protection in the same transaction.               *)
StateAfter(r, e) ==
  IF e.kind = "fill" /\ r.kind = "entry" THEN "PROTECTION_PENDING"
  ELSE Target[e.kind]

(* Slips: deltas are summed; a partial fill moves the state only.          *)
FilledAfterSummed(r, e) == IF IsFill(e) THEN r.filled + e.qty ELSE r.filled

FilledAfterComplete(r, e) == IF e.kind = "fill" THEN e.qty ELSE r.filled

FilledAfter(r, e) == IF IsFill(e) THEN e.qty ELSE r.filled

ProtAfter(r, e) == IF e.kind = "protection_ack" THEN e.qty ELSE r.prot

Applied(r, e) ==
  [r EXCEPT !.state = StateAfter(r, e), !.filled = FilledAfter(r, e),
            !.prot = ProtAfter(r, e)]

(* A noop keeps the state and the filled total; an under-covering
   protection_ack still records the coverage it confirms.                  *)
Noted(r, e) == [r EXCEPT !.prot = ProtAfter(r, e)]

(* applyBrokerEvent: exactly once per event id; an event that is illegal
   for the state is only recorded.                                         *)
ApplyBrokerEvent(e) ==
  LET r == row[e.order] IN
  \/ /\ e.id \in seen
     /\ UNCHANGED storeVars
  \/ /\ e.id \notin seen
     /\ seen' = seen \cup {e.id}
     /\ \/ /\ ~Recorded(e.order)
           /\ UNCHANGED <<row, flagged>>
        \/ /\ Recorded(e.order) /\ IsNoop(r, e)
           /\ row' = [row EXCEPT ![e.order] = Noted(r, e)]
           /\ UNCHANGED flagged
        \/ /\ Recorded(e.order) /\ ~IsNoop(r, e)
           /\ IsLegal(r.state, Target[e.kind])
           /\ row' = [row EXCEPT ![e.order] = Applied(r, e)]
           /\ UNCHANGED flagged
        \/ /\ Recorded(e.order) /\ ~IsNoop(r, e)
           /\ ~IsLegal(r.state, Target[e.kind])
           /\ flagged' = flagged \cup {e.order}
           /\ UNCHANGED row

=============================================================================
