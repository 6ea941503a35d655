---------------------------- MODULE GatewayProofs ----------------------------
(***************************************************************************)
(* Theorems about the gateway for any set of orders and callers, any       *)
(* quantity and any fault plans.                                           *)
(***************************************************************************)
EXTENDS GatewayProperties, WellFoundedInduction, TLAPS

BodyType == [kind : EventKind, qty : Nat]

-----------------------------------------------------------------------------
(* The broker's batches.                                                   *)

(* A batch of stamped events stays a sequence of events when it is reversed
   and doubled.                                                            *)
LEMMA DeliveredType ==
  ASSUME NEW s \in Seq(Event), NEW plan \in FaultPlan
  PROVE  Delivered(s, plan) \in Seq(Event)
<1>1. Reverse(s) \in Seq(Event)
  BY DEF Reverse
<1>2. \A t \in Seq(Event) : Twice(t) \in Seq(Event)
  BY DEF Twice
<1>. QED
  BY <1>1, <1>2 DEF Delivered

LEMMA StampedType ==
  ASSUME NEW o \in Orders, NEW bodies \in Seq(BodyType), lastId \in Nat
  PROVE  Stamped(o, bodies) \in Seq(Event)
<1>. DEFINE ev(i) == [id |-> lastId + i, order |-> o, kind |-> bodies[i].kind,
                      qty |-> bodies[i].qty]
<1>1. \A i \in 1..Len(bodies) : bodies[i] \in BodyType
  OBVIOUS
<1>2. \A i \in 1..Len(bodies) : ev(i) \in Event
  BY <1>1 DEF Event, BodyType
<1>. HIDE DEF ev
<1>3. [i \in 1..Len(bodies) |-> ev(i)] \in Seq(Event)
  BY <1>2
<1>. QED
  BY <1>3 DEF Stamped, ev

(* Emitting well-formed bodies keeps the queue and the id counter typed.   *)
LEMMA EmitType ==
  ASSUME NEW o \in Orders, NEW plan \in FaultPlan,
         NEW bodies \in Seq(BodyType),
         queue \in Seq(Event), lastId \in Nat,
         Emit(o, bodies, plan)
  PROVE  queue' \in Seq(Event) /\ lastId' \in Nat
<1>1. Delivered(Stamped(o, bodies), plan) \in Seq(Event)
  BY StampedType, DeliveredType
<1>. QED
  BY <1>1 DEF Emit

(* A nonempty set of naturals has a least element.                         *)
LEMMA LeastNat ==
  ASSUME NEW S \in SUBSET Nat, S # {}
  PROVE  \E n \in S : \A m \in S : n <= m
<1>1. PICK n \in S : \A m \in S : ~(<<m, n>> \in OpToRel(<, Nat))
  BY WFMin, NatLessThanWellFounded, Zenon
<1>2. \A m \in S : ~(m < n)
  BY <1>1, Zenon DEF OpToRel
<1>. QED
  BY <1>2

(* The fills an order takes before it is complete are those of its plan, cut
   short: positive and increasing.                                         *)
LEMMA FillsType ==
  ASSUME NEW plan \in Plans
  PROVE  LET fills == FillsWhileOpen(plan.fills) IN
         /\ fills \in Seq(Nat \ {0})
         /\ TotalOf(fills) \in Nat
         /\ \A i \in 1..Len(fills) : fills[i] <= TotalOf(fills)
         /\ fills # <<>> => TotalOf(fills) > 0
<1>. DEFINE stop == {i \in 1..Len(plan.fills) : plan.fills[i] >= Qty}
            n == CHOOSE i \in stop : \A j \in stop : i <= j
            fills == FillsWhileOpen(plan.fills)
<1>1. plan.fills \in Seq(Nat \ {0})
  BY PlansAssumption DEF FaultPlan
<1>2. \E m \in 0..Len(plan.fills) :
        fills = SubSeq(plan.fills, 1, m)
  <2>1. CASE stop = {}
    BY <1>1, <2>1 DEF FillsWhileOpen
  <2>2. CASE stop # {}
    <3>1. \E i \in stop : \A j \in stop : i <= j
      <4>1. stop \in SUBSET Nat
        BY <1>1
      <4>. HIDE DEF stop
      <4>. QED
        BY <2>2, <4>1, LeastNat
    <3>2. n \in stop
      BY <3>1
    <3>3. fills = SubSeq(plan.fills, 1, n)
      BY <2>2 DEF FillsWhileOpen
    <3>4. n \in 0..Len(plan.fills)
      BY <1>1, <3>2
    <3>. QED
      BY <3>3, <3>4
  <2>. QED
    BY <2>1, <2>2
<1>3. PICK m \in 0..Len(plan.fills) : fills = SubSeq(plan.fills, 1, m)
  BY <1>2
<1>4. \A i, j \in 1..Len(plan.fills) : i < j => plan.fills[i] < plan.fills[j]
  BY PlansAssumption
<1>. HIDE DEF fills
<1>5. /\ fills \in Seq(Nat \ {0})
      /\ Len(fills) = m
      /\ \A i \in 1..m : fills[i] = plan.fills[i]
  BY <1>1, <1>3
<1>6. CASE m = 0
  BY <1>5, <1>6 DEF TotalOf, fills
<1>7. CASE m > 0
  <2>1. TotalOf(fills) = plan.fills[m]
    BY <1>5, <1>7 DEF TotalOf
  <2>2. plan.fills[m] \in Nat \ {0}
    BY <1>1, <1>7
  <2>3. ASSUME NEW i \in 1..m PROVE plan.fills[i] <= plan.fills[m]
    <3>1. CASE i = m
      BY <2>2, <3>1
    <3>2. CASE i < m
      <4>1. m \in 1..Len(plan.fills)
        BY <1>1, <1>7
      <4>2. i \in 1..Len(plan.fills)
        BY <1>1
      <4>3. plan.fills[i] < plan.fills[m]
        BY <1>4, <3>2, <4>1, <4>2
      <4>. QED
        BY <1>1, <2>2, <4>2, <4>3
    <3>. QED
      BY <1>1, <3>1, <3>2
  <2>. QED
    BY <1>5, <2>1, <2>2, <2>3 DEF fills
<1>. QED
  BY <1>6, <1>7

(* The event bodies an accepted order emits are well formed.               *)
LEMMA AcceptType ==
  ASSUME TypeOK, NEW o \in Orders, NEW plan \in Plans, Accept(o, plan)
  PROVE  BrokerTypeOK' /\ queue' \in Seq(Event)
<1>. DEFINE fills == FillsWhileOpen(plan.fills)
            total == TotalOf(fills)
            fillBodies == [i \in 1..Len(fills) |-> FillBody(fills[i])]
            protBodies == ProtectionBodies(total, plan.protection)
            bodies == <<Body("ack", 0)>> \o fillBodies \o protBodies
            cover == CoverOf(total, plan.protection)
            accepted == [state |-> StateOfTotal(total), filled |-> total,
                         prot |-> cover]
<1>1. plan \in FaultPlan
  BY PlansAssumption
<1>2. fills \in Seq(Nat \ {0}) /\ total \in Nat
  BY FillsType
<1>. HIDE DEF fills, total
<1>3. cover \in Nat
  BY QtyAssumption DEF CoverOf
<1>4. accepted \in BrokerOrder
  BY <1>2, <1>3 DEF BrokerOrder, BrokerState, StateOfTotal
<1>5. bodies \in Seq(BodyType)
  <2>1. <<Body("ack", 0)>> \in Seq(BodyType)
    BY DEF BodyType, Body, EventKind
  <2>2. \A t \in Nat : FillBody(t) \in BodyType
    BY DEF BodyType, FillBody, Body, EventKind
  <2>3. fillBodies \in Seq(BodyType)
    BY <1>2, <2>2
  <2>4. protBodies \in Seq(BodyType)
    <3>. HIDE DEF cover
    <3>1. /\ <<>> \in Seq(BodyType)
          /\ <<Body("protection_reject", 0)>> \in Seq(BodyType)
          /\ <<Body("protection_ack", cover)>> \in Seq(BodyType)
      BY <1>3 DEF BodyType, Body, EventKind
    <3>2. protBodies \in {<<>>, <<Body("protection_reject", 0)>>,
                          <<Body("protection_ack", cover)>>}
      BY DEF ProtectionBodies, cover
    <3>. QED
      BY <3>1, <3>2
  <2>. HIDE DEF fillBodies, protBodies, BodyType
  <2>. QED
    BY <2>1, <2>3, <2>4
<1>. HIDE DEF bodies, cover
<1>6. /\ held' = [held EXCEPT ![o] = IF @ = NoOrder THEN accepted ELSE @]
      /\ copies' = [copies EXCEPT ![o] = @ + 1]
      /\ Emit(o, bodies, plan)
  BY DEF Accept, bodies, cover, fills, total
<1>. HIDE DEF accepted
<1>7. queue' \in Seq(Event) /\ lastId' \in Nat
  BY <1>1, <1>5, <1>6, EmitType DEF TypeOK, BrokerTypeOK
<1>. QED
  BY <1>4, <1>6, <1>7 DEF TypeOK, BrokerTypeOK

LEMMA BrokerSubmitType ==
  ASSUME TypeOK, NEW o \in Orders, NEW plan \in Plans, BrokerSubmit(o, plan)
  PROVE  BrokerTypeOK' /\ queue' \in Seq(Event)
<1>1. plan \in FaultPlan
  BY PlansAssumption
<1>2. CASE Accept(o, plan)
  BY <1>2, AcceptType
<1>3. CASE Emit(o, <<Body("reject", 0)>>, plan) /\ UNCHANGED <<held, copies>>
  <2>1. <<Body("reject", 0)>> \in Seq(BodyType)
    BY DEF BodyType, Body, EventKind
  <2>. QED
    BY <1>1, <1>3, <2>1, EmitType DEF TypeOK, BrokerTypeOK
<1>4. CASE UNCHANGED brokerVars
  BY <1>4 DEF TypeOK, BrokerTypeOK, brokerVars
<1>. QED
  BY <1>2, <1>3, <1>4 DEF BrokerSubmit

LEMMA BrokerCancelType ==
  ASSUME TypeOK, NEW o \in Orders, NEW plan \in Plans, BrokerCancel(o, plan)
  PROVE  BrokerTypeOK' /\ queue' \in Seq(Event)
<1>1. plan \in FaultPlan
  BY PlansAssumption
<1>2. ASSUME NEW kind \in {"cancel_ack", "fill"}, NEW qty \in {0, Qty},
             Emit(o, <<Body(kind, qty)>>, plan)
      PROVE  queue' \in Seq(Event) /\ lastId' \in Nat
  <2>1. <<Body(kind, qty)>> \in Seq(BodyType)
    BY QtyAssumption DEF BodyType, Body, EventKind
  <2>. QED
    BY <1>1, <1>2, <2>1, EmitType DEF TypeOK, BrokerTypeOK
<1>3. held[o].state \in Open => held[o] \in BrokerOrder
  BY DEF TypeOK, BrokerTypeOK, Open, NoOrder
<1>4. CASE UNCHANGED brokerVars
  BY <1>4 DEF TypeOK, BrokerTypeOK, brokerVars
<1>5. CASE /\ held[o].state \in Open
           /\ held' = [held EXCEPT ![o].state = "CANCELED"]
           /\ Emit(o, <<Body("cancel_ack", 0)>>, plan)
           /\ UNCHANGED copies
  BY <1>2, <1>3, <1>5 DEF TypeOK, BrokerTypeOK, BrokerOrder, BrokerState
<1>6. CASE /\ held[o].state \in Open
           /\ held' = [held EXCEPT ![o] = [@ EXCEPT !.state = "FILLED",
                                                    !.filled = Qty]]
           /\ Emit(o, <<Body("fill", Qty)>>, plan)
           /\ UNCHANGED copies
  BY <1>2, <1>3, <1>6, QtyAssumption
     DEF TypeOK, BrokerTypeOK, BrokerOrder, BrokerState
<1>. QED
  BY <1>4, <1>5, <1>6 DEF BrokerCancel

-----------------------------------------------------------------------------
(* The store's transactions.                                               *)

LEMMA LegalType ==
  ASSUME NEW from \in OrderState, NEW to, IsLegal(from, to)
  PROVE  to \in OrderState
BY DEF IsLegal, Successors, OrderState

LEMMA ApplyType ==
  ASSUME StoreTypeOK, NEW e \in Event, ApplyBrokerEvent(e)
  PROVE  StoreTypeOK'
<1>. DEFINE r == row[e.order]
<1>1. e.order \in Orders /\ e.id \in Nat
  BY DEF Event
<1>2. r # NoRow => r \in Row
  BY <1>1 DEF StoreTypeOK
<1>3. r # NoRow => Noted(r, e) \in Row
  BY <1>2 DEF Noted, ProtAfter, Row, Event
<1>4. r # NoRow => Applied(r, e) \in Row
  <2>1. r # NoRow => FilledAfter(r, e) \in Nat /\ ProtAfter(r, e) \in Nat
    BY <1>2 DEF FilledAfter, ProtAfter, Row, Event
  <2>2. StateAfter(r, e) \in OrderState
    BY DEF StateAfter, Target, Event, EventKind, OrderState
  <2>. QED
    BY <1>2, <2>1, <2>2 DEF Applied, Row
<1>. QED
  BY <1>1, <1>3, <1>4 DEF ApplyBrokerEvent, StoreTypeOK, storeVars, Recorded

LEMMA MoveType ==
  ASSUME StoreTypeOK, NEW o \in Orders, Recorded(o), NEW to \in OrderState,
         Move(o, to)
  PROVE  row' \in [Orders -> Row \cup {NoRow}]
BY DEF StoreTypeOK, Recorded, Move, Row

-----------------------------------------------------------------------------
(* Type correctness.                                                       *)

(* Every step of a call keeps the call table typed.                        *)
LEMMA CallType ==
  ASSUME TypeOK, NEW c \in Callers
  PROVE  /\ call[c].pc \in Pc
         /\ call[c].pc # "idle" => call[c] \in Call /\ call[c].order \in Orders
         /\ \A pc \in Pc \ {"idle"} : call[c].pc # "idle" /\ GoOn(c, pc) =>
              /\ call' \in [Callers -> Call \cup {Idle}]
              /\ running' \in Callers \cup {Nobody}
         /\ End(c) => /\ call' \in [Callers -> Call \cup {Idle}]
                      /\ running' \in Callers \cup {Nobody}
         /\ \A o \in Orders, pc \in Pc : Begin(c, o, pc) =>
              /\ call' \in [Callers -> Call \cup {Idle}]
              /\ running' \in Callers \cup {Nobody}
         /\ \A o \in Orders, pc \in Pc, answer \in Answer,
              truth \in BrokerOrder \cup {NoOrder} :
              Await(c, o, pc, answer, truth) =>
                /\ call' \in [Callers -> Call \cup {Idle}]
                /\ running' \in Callers \cup {Nobody}
<1>1. call[c] \in Call \cup {Idle} /\ call \in [Callers -> Call \cup {Idle}]
  BY DEF TypeOK
<1>2. call[c].pc \in Pc /\ (call[c].pc # "idle" => call[c] \in Call)
  BY <1>1 DEF Call, Idle, Pc
<1>3. ASSUME NEW o \in Orders, NEW pc \in Pc, NEW answer \in Answer,
             NEW truth \in BrokerOrder \cup {NoOrder}
      PROVE  [pc |-> pc, order |-> o, answer |-> answer, truth |-> truth]
               \in Call
  BY DEF Call
<1>4. ASSUME NEW pc \in Pc, call[c] \in Call
      PROVE  [call[c] EXCEPT !.pc = pc] \in Call
  BY <1>4 DEF Call
<1>. QED
  BY <1>1, <1>2, <1>3, <1>4 DEF GoOn, End, Begin, Await, Call, Answer

LEMMA TryMoveType ==
  ASSUME StoreTypeOK, NEW o \in Orders, NEW to, NEW rec, TryMove(o, to, rec)
  PROVE  row' \in [Orders -> Row \cup {NoRow}]
<1>1. CASE MayMove(o, to, rec) /\ Move(o, to)
  <2>1. Recorded(o) /\ row[o] \in Row
    BY <1>1 DEF MayMove, Recorded, StoreTypeOK
  <2>2. to \in OrderState
    BY <1>1, <2>1, LegalType DEF MayMove, Row
  <2>. QED
    BY <1>1, <2>1, <2>2, MoveType
<1>2. CASE UNCHANGED row
  BY <1>2 DEF StoreTypeOK
<1>. QED
  BY <1>1, <1>2 DEF TryMove, NotAllowed

(* No action deletes a row.                                                *)
LEMMA RowsStay ==
  ASSUME StoreTypeOK, NEW o \in Orders, Recorded(o)
  PROVE  /\ \A p \in Orders, to \in OrderState :
              Recorded(p) /\ Move(p, to) => Recorded(o)'
         /\ \A p \in Orders : \A to, rec : TryMove(p, to, rec) => Recorded(o)'
         /\ \A p \in Orders, to \in OrderState, f, q \in Nat :
              Recorded(p) /\ MoveWithTotals(p, to, f, q) => Recorded(o)'
         /\ \A e \in Event : ApplyBrokerEvent(e) => Recorded(o)'
<1>. DEFINE named == row'[o].state \in OrderState
<1>1. row[o] \in Row
  BY DEF StoreTypeOK, Recorded
<1>2. named => Recorded(o)'
  BY DEF Recorded, NoRow, OrderState
<1>3. ASSUME NEW p \in Orders, NEW to \in OrderState, Recorded(p), Move(p, to)
      PROVE  Recorded(o)'
  <2>1. named
    BY <1>1, <1>3 DEF StoreTypeOK, Recorded, Move, Row
  <2>. QED
    BY <1>2, <2>1
<1>4. ASSUME NEW p \in Orders, NEW to, NEW rec, TryMove(p, to, rec)
      PROVE  Recorded(o)'
  <2>1. CASE MayMove(p, to, rec) /\ Move(p, to)
    <3>1. Recorded(p) /\ row[p].state \in OrderState /\ IsLegal(row[p].state, to)
      BY <2>1 DEF MayMove, Recorded, StoreTypeOK, Row
    <3>. QED
      BY <1>3, <2>1, <3>1, LegalType
  <2>2. CASE UNCHANGED row
    BY <2>2 DEF Recorded
  <2>. QED
    BY <1>4, <2>1, <2>2 DEF TryMove, NotAllowed
<1>5. ASSUME NEW p \in Orders, NEW to \in OrderState, NEW f \in Nat,
             NEW q \in Nat, Recorded(p), MoveWithTotals(p, to, f, q)
      PROVE  Recorded(o)'
  <2>1. named
    BY <1>1, <1>5 DEF StoreTypeOK, Recorded, MoveWithTotals, Row
  <2>. QED
    BY <1>2, <2>1
<1>6. ASSUME NEW e \in Event, ApplyBrokerEvent(e)
      PROVE  Recorded(o)'
  <2>. DEFINE r == row[e.order]
  <2>1. StateAfter(r, e) \in OrderState
    BY DEF StateAfter, Target, Event, EventKind, OrderState
  <2>2. e.order \in Orders
    BY DEF Event
  <2>3. \/ UNCHANGED row
        \/ row' = [row EXCEPT ![e.order] = Noted(r, e)] /\ Recorded(e.order)
        \/ row' = [row EXCEPT ![e.order] = Applied(r, e)] /\ Recorded(e.order)
    BY <1>6 DEF ApplyBrokerEvent, storeVars
  <2>4. UNCHANGED row \/ named
    BY <1>1, <2>1, <2>2, <2>3
       DEF StoreTypeOK, Recorded, Noted, Applied, Row
  <2>. QED
    BY <1>2, <2>4 DEF Recorded
<1>. QED
  BY <1>3, <1>4, <1>5, <1>6

-----------------------------------------------------------------------------
(* Type correctness.                                                       *)

THEOREM TypeInit == Init => TypeInv
<1>. SUFFICES ASSUME Init PROVE TypeInv
  OBVIOUS
<1>1. TypeOK
  BY DEF Init, StoreInit, BrokerInit, TypeOK, StoreTypeOK, BrokerTypeOK
<1>2. CallsRecorded
  BY DEF Init, CallsRecorded, Idle
<1>. QED
  BY <1>1, <1>2 DEF TypeInv

(* A call step keeps its order or begins one that has a row.               *)
LEMMA CallsKept ==
  ASSUME TypeInv, NEW c \in Callers, NEW o \in Orders,
         \A p \in Orders : Recorded(p) => Recorded(p)',
         \/ \E pc \in Pc : call[c].pc # "idle" /\ GoOn(c, pc)
         \/ End(c)
         \/ \E pc \in Pc : Begin(c, o, pc) /\ Recorded(o)'
         \/ \E pc \in Pc, answer \in Answer : \E truth :
              Await(c, o, pc, answer, truth) /\ Recorded(o)'
  PROVE  CallsRecorded'
<1>. SUFFICES ASSUME NEW d \in Callers, call'[d].pc # "idle"
              PROVE  Recorded(call[d].order)' 
  BY DEF CallsRecorded
<1>1. \A e \in Callers : call[e].pc # "idle" => call[e].order \in Orders
  BY CallType DEF TypeInv
<1>2. call \in [Callers -> Call \cup {Idle}]
  BY DEF TypeInv, TypeOK
<1>3. \/ call[d].pc # "idle" /\ call'[d].order = call[d].order
      \/ call'[d].order = o /\ Recorded(o)'
  BY <1>2 DEF GoOn, End, Begin, Await, Call, Idle
<1>. QED
  BY <1>1, <1>3 DEF CallsRecorded, TypeInv, Recorded

THEOREM TypeNext == TypeInv /\ [Next]_vars => TypeInv'
<1>. SUFFICES ASSUME TypeInv, [Next]_vars PROVE TypeInv'
  OBVIOUS
<1>. USE DEF TypeInv
<1>1. StoreTypeOK /\ BrokerTypeOK /\ queue \in Seq(Event)
  BY DEF TypeOK
<1>2. \A c \in Callers : call[c].pc # "idle" =>
        call[c] \in Call /\ call[c].order \in Orders /\ Recorded(call[c].order)
  BY CallType DEF CallsRecorded
<1>3. UNCHANGED row => \A p \in Orders : Recorded(p) => Recorded(p)'
  BY DEF Recorded
<1>4. UNCHANGED brokerVars => BrokerTypeOK' /\ queue' \in Seq(Event)
  BY <1>1 DEF BrokerTypeOK, brokerVars
<1>5. ASSUME NEW c \in Callers, NEW o \in Orders, NEW kind \in Kind,
             SubmitPersist(c, o, kind)
      PROVE  TypeInv'
  <2>1. StoreTypeOK' /\ \A p \in Orders : Recorded(p) \/ p = o => Recorded(p)'
    BY <1>1, <1>5 DEF SubmitPersist, PersistIntent, StoreTypeOK, Recorded, Row,
                      NoRow, OrderState
  <2>2. TypeOK'
    BY <1>4, <1>5, <2>1, CallType DEF SubmitPersist, TypeOK, Pc, PreSend
  <2>. QED
    BY <1>5, <2>1, <2>2, CallsKept DEF SubmitPersist, Pc, PreSend
<1>6. ASSUME NEW c \in Callers, NEW o \in Orders, NEW to \in OrderState,
             call[c].pc # "idle", call[c].order = o, Move(o, to),
             End(c) \/ \E pc \in Pc \ {"idle"} : GoOn(c, pc),
             UNCHANGED <<seen, flagged, brokerVars>>
      PROVE  TypeInv'
  <2>1. StoreTypeOK' /\ \A p \in Orders : Recorded(p) => Recorded(p)'
    BY <1>1, <1>2, <1>6, MoveType, RowsStay DEF StoreTypeOK
  <2>2. TypeOK'
    BY <1>4, <1>6, <2>1, CallType DEF TypeOK
  <2>. QED
    BY <1>6, <2>1, <2>2, CallsKept
<1>7. ASSUME NEW c \in Callers, SubmitGuard(c)
      PROVE  TypeInv'
  BY <1>2, <1>6, <1>7 DEF SubmitGuard, At, OrderState, Pc, PreSend
<1>8. ASSUME NEW c \in Callers, SubmitApprove(c) \/ SubmitMark(c)
      PROVE  TypeInv'
  BY <1>2, <1>6, <1>8
     DEF SubmitApprove, SubmitMark, At, OrderState, Pc, PreSend
<1>9. ASSUME NEW c \in Callers, RequestProtection(c)
      PROVE  TypeInv'
  BY <1>2, <1>6, <1>9 DEF RequestProtection, At, OrderState
<1>10. ASSUME NEW c \in Callers, NEW o \in Orders, NEW plan \in Plans,
              Recorded(o),
              BrokerSubmit(o, plan) \/ BrokerCancel(o, plan),
              NEW answer \in Answer,
              NEW pc \in Awaiting, Await(c, o, pc, answer, NoOrder),
              UNCHANGED storeVars
       PROVE  TypeInv'
  <2>1. BrokerTypeOK' /\ queue' \in Seq(Event)
    BY <1>10, BrokerSubmitType, BrokerCancelType
  <2>2. StoreTypeOK' /\ \A p \in Orders : Recorded(p) => Recorded(p)'
    BY <1>1, <1>3, <1>10 DEF storeVars, StoreTypeOK
  <2>3. pc \in Pc
    BY DEF Pc
  <2>4. TypeOK'
    BY <1>10, <2>1, <2>2, <2>3, CallType DEF TypeOK
  <2>. QED
    BY <1>10, <2>2, <2>3, <2>4, CallsKept
<1>11. ASSUME NEW c \in Callers, SubmitSend(c) \/ CancelSend(c)
       PROVE  TypeInv'
  <2>1. PICK plan \in Plans :
          \/ /\ BrokerSubmit(call[c].order, plan)
             /\ Await(c, call[c].order, "submit_answer", SubmitAnswer(plan), NoOrder)
          \/ /\ BrokerCancel(call[c].order, plan)
             /\ Await(c, call[c].order, "cancel_answer",
                      CancelAnswer(call[c].order, plan), NoOrder)
    BY <1>11 DEF SubmitSend, CancelSend
  <2>2. SubmitAnswer(plan) \in Answer /\ CancelAnswer(call[c].order, plan) \in Answer
    BY DEF SubmitAnswer, CancelAnswer, Answer
  <2>3. call[c].order \in Orders /\ Recorded(call[c].order)
    BY <1>2, <1>11 DEF SubmitSend, CancelSend, At
  <2>4. UNCHANGED storeVars
    BY <1>11 DEF SubmitSend, CancelSend
  <2>. QED
    BY <1>10, <2>1, <2>2, <2>3, <2>4 DEF Awaiting
<1>12. ASSUME NEW c \in Callers, NEW o \in Orders, Recorded(o) => Recorded(o)',
              row' \in [Orders -> Row \cup {NoRow}],
              \A p \in Orders : Recorded(p) => Recorded(p)', End(c),
              UNCHANGED <<seen, flagged, brokerVars>>
       PROVE  TypeInv'
  <2>1. StoreTypeOK'
    BY <1>1, <1>12 DEF StoreTypeOK
  <2>2. TypeOK'
    BY <1>4, <1>12, <2>1, CallType DEF TypeOK
  <2>. QED
    BY <1>12, <2>2, CallsKept
<1>13. ASSUME NEW c \in Callers, SubmitReturn(c) \/ CancelReturn(c)
                                 \/ ReconcileNotFound(c)
       PROVE  TypeInv'
  <2>. DEFINE o == call[c].order
  <2>1. o \in Orders
    BY <1>2, <1>13
       DEF SubmitReturn, CancelReturn, ReconcileNotFound, Answered
  <2>2. \/ UNCHANGED row
        \/ \E to, rec : TryMove(o, to, rec)
    BY <1>13 DEF SubmitReturn, CancelReturn, ReconcileNotFound
  <2>3. row' \in [Orders -> Row \cup {NoRow}]
    BY <1>1, <2>1, <2>2, TryMoveType DEF StoreTypeOK
  <2>4. \A p \in Orders : Recorded(p) => Recorded(p)'
    BY <1>1, <1>3, <2>1, <2>2, RowsStay
  <2>5. End(c) /\ UNCHANGED <<seen, flagged, brokerVars>>
    BY <1>13 DEF SubmitReturn, CancelReturn, ReconcileNotFound
  <2>. HIDE DEF o
  <2>. QED
    BY <1>12, <2>1, <2>3, <2>4, <2>5
<1>14. ASSUME NEW c \in Callers, NEW o \in Orders, CancelLocally(c, o)
       PROVE  TypeInv'
  <2>1. Recorded(o)
    BY <1>14 DEF CancelLocally, Recorded, NoRow
  <2>2. StoreTypeOK' /\ \A p \in Orders : Recorded(p) => Recorded(p)'
    BY <1>1, <1>14, <2>1, MoveType, RowsStay
       DEF CancelLocally, StoreTypeOK, OrderState
  <2>3. TypeOK'
    BY <1>4, <1>14, <2>2 DEF CancelLocally, TypeOK, gatewayVars
  <2>4. CallsRecorded'
    BY <1>2, <1>14, <2>2 DEF CancelLocally, gatewayVars, CallsRecorded, Recorded
  <2>. QED
    BY <2>3, <2>4
<1>15. ASSUME NEW c \in Callers, NEW o \in Orders, CancelRequest(c, o)
       PROVE  TypeInv'
  <2>1. Recorded(o)
    BY <1>15 DEF CancelRequest, MayMove
  <2>2. StoreTypeOK' /\ \A p \in Orders : Recorded(p) => Recorded(p)'
    BY <1>1, <1>15, <2>1, MoveType, RowsStay
       DEF CancelRequest, StoreTypeOK, OrderState
  <2>3. TypeOK'
    BY <1>4, <1>15, <2>2, CallType DEF CancelRequest, TypeOK, Pc
  <2>. QED
    BY <1>15, <2>1, <2>2, <2>3, CallsKept DEF CancelRequest, Pc
<1>16. ASSUME NEW c \in Callers, NEW o \in Orders, ReconcileAsk(c, o)
       PROVE  TypeInv'
  <2>1. Recorded(o) /\ held[o] \in BrokerOrder \cup {NoOrder}
    BY <1>1, <1>16 DEF ReconcileAsk, Recorded, NoRow, BrokerTypeOK
  <2>2. StoreTypeOK' /\ \A p \in Orders : Recorded(p) => Recorded(p)'
    BY <1>1, <1>3, <1>16 DEF ReconcileAsk, storeVars, StoreTypeOK
  <2>3. TypeOK'
    BY <1>4, <1>16, <2>1, <2>2, CallType
       DEF ReconcileAsk, TypeOK, Pc, Awaiting, Answer
  <2>. QED
    BY <1>16, <2>1, <2>2, <2>3, CallsKept
       DEF ReconcileAsk, Pc, Awaiting, Answer
<1>17. ASSUME NEW c \in Callers, ReconcileFound(c)
       PROVE  TypeInv'
  <2>. DEFINE o == call[c].order
              t == call[c].truth
  <2>1. o \in Orders /\ Recorded(o) /\ t \in BrokerOrder
    BY <1>2, <1>17 DEF ReconcileFound, Answered, Call
  <2>2. CASE MayMove(o, t.state, TRUE)
             /\ MoveWithTotals(o, t.state, t.filled, t.prot)
    <3>1. t.state \in OrderState /\ t.filled \in Nat /\ t.prot \in Nat
      BY <2>1 DEF BrokerOrder, BrokerState, OrderState
    <3>. HIDE DEF o, t
    <3>2. row' \in [Orders -> Row \cup {NoRow}]
      BY <1>1, <2>1, <2>2, <3>1 DEF MoveWithTotals, StoreTypeOK, Recorded, Row
    <3>3. \A p \in Orders : Recorded(p) => Recorded(p)'
      BY <1>1, <2>1, <2>2, <3>1, RowsStay
    <3>4. StoreTypeOK'
      BY <1>1, <1>17, <3>2 DEF ReconcileFound, StoreTypeOK
    <3>5. call[c].pc # "idle" /\ (End(c) \/ GoOn(c, "request_protection"))
      BY <1>17 DEF ReconcileFound, Answered
    <3>6. TypeOK'
      BY <1>4, <1>17, <3>4, <3>5, CallType DEF ReconcileFound, TypeOK, Pc
    <3>. QED
      BY <2>1, <3>3, <3>5, <3>6, CallsKept DEF Pc
  <2>3. CASE NotAllowed(o, t.state, TRUE) /\ End(c)
    <3>1. row' \in [Orders -> Row \cup {NoRow}]
          /\ \A p \in Orders : Recorded(p) => Recorded(p)'
      BY <1>1, <1>3, <2>3 DEF NotAllowed, StoreTypeOK
    <3>. HIDE DEF o, t
    <3>. QED
      BY <1>12, <1>17, <2>1, <2>3, <3>1 DEF ReconcileFound
  <2>. QED
    BY <1>17, <2>2, <2>3 DEF ReconcileFound
<1>18. CASE Deliver
  <2>1. Head(queue) \in Event /\ Tail(queue) \in Seq(Event)
    BY <1>1, <1>18 DEF Deliver
  <2>2. StoreTypeOK' /\ \A p \in Orders : Recorded(p) => Recorded(p)'
    BY <1>1, <1>18, <2>1, ApplyType, RowsStay DEF Deliver
  <2>3. TypeOK'
    BY <1>1, <1>18, <2>1, <2>2
       DEF Deliver, TypeOK, BrokerTypeOK, gatewayVars
  <2>4. CallsRecorded'
    BY <1>2, <1>18, <2>2 DEF Deliver, gatewayVars, CallsRecorded, Recorded
  <2>. QED
    BY <2>3, <2>4
<1>19. ASSUME NEW o \in Orders, UnknownTimeout(o)
       PROVE  TypeInv'
  <2>1. StoreTypeOK' /\ \A p \in Orders : Recorded(p) => Recorded(p)'
    BY <1>1, <1>3, <1>19, MoveType, RowsStay
       DEF UnknownTimeout, StoreTypeOK, OrderState
  <2>2. TypeOK'
    BY <1>4, <1>19, <2>1 DEF UnknownTimeout, TypeOK, gatewayVars
  <2>3. CallsRecorded'
    BY <1>2, <1>19, <2>1 DEF UnknownTimeout, gatewayVars, CallsRecorded, Recorded
  <2>. QED
    BY <2>2, <2>3
<1>20. CASE Crash
  <2>1. queue' \in Seq(Event)
    BY <1>1, <1>20 DEF Crash
  <2>2. TypeOK'
    BY <1>1, <1>20, <2>1
       DEF Crash, TypeOK, StoreTypeOK, storeVars, BrokerTypeOK
  <2>3. CallsRecorded'
    BY <1>20 DEF Crash, CallsRecorded, Idle
  <2>. QED
    BY <2>2, <2>3
<1>21. CASE UNCHANGED vars
  BY <1>1, <1>21
     DEF vars, storeVars, brokerVars, gatewayVars, TypeOK, StoreTypeOK,
         BrokerTypeOK, CallsRecorded, Recorded
<1>. QED
  BY <1>5, <1>7, <1>8, <1>9, <1>11, <1>13, <1>14, <1>15, <1>16, <1>17, <1>18,
     <1>19, <1>20, <1>21
     DEF Next, Submit, Cancel, Reconcile

(* Every reachable state is well typed, for any orders, callers and plans. *)
THEOREM TypeCorrect == Spec => []TypeOK
<1>1. Spec => []TypeInv
  BY TypeInit, TypeNext, PTL DEF Spec
<1>2. TypeInv => TypeOK
  BY DEF TypeInv
<1>. QED
  BY <1>1, <1>2, PTL

-----------------------------------------------------------------------------
(* At most one broker order, recorded before it is sent.                   *)

(* The lifecycle never returns to a state before SUBMITTING.               *)
LEMMA NoWayBack ==
  ASSUME NEW from \in OrderState \ BeforeSend, NEW to, IsLegal(from, to)
  PROVE  to \notin BeforeSend
BY DEF IsLegal, Successors, OrderState, BeforeSend

(* No transaction but the first record takes an order back before sending. *)
LEMMA PastStays ==
  ASSUME StoreTypeOK, NEW o \in Orders, Past(o)
  PROVE  /\ UNCHANGED row => Past(o)'
         /\ \A p \in Orders : \A to, rec : TryMove(p, to, rec) => Past(o)'
         /\ \A p \in Orders, to \in OrderState \ BeforeSend :
              Recorded(p) /\ Move(p, to) => Past(o)'
         /\ \A p \in Orders, to \in OrderState \ BeforeSend, f, q \in Nat :
              Recorded(p) /\ MoveWithTotals(p, to, f, q) => Past(o)'
         /\ \A e \in Event : ApplyBrokerEvent(e) => Past(o)'
<1>1. row[o] \in Row /\ row[o].state \in OrderState \ BeforeSend
  BY DEF StoreTypeOK, Recorded, Row, Past
<1>2. UNCHANGED row => Past(o)'
  BY DEF Past, Recorded
<1>3. ASSUME NEW p \in Orders, NEW to \in OrderState \ BeforeSend, Recorded(p),
             Move(p, to)
      PROVE  Past(o)'
  <2>1. Recorded(o)'
    BY <1>3, RowsStay DEF Past
  <2>2. row'[o].state \in {row[o].state, to}
    BY <1>1, <1>3 DEF Move, StoreTypeOK, Recorded, Row
  <2>. QED
    BY <1>1, <2>1, <2>2 DEF Past
<1>4. ASSUME NEW p \in Orders, NEW to, NEW rec, TryMove(p, to, rec)
      PROVE  Past(o)'
  <2>1. CASE UNCHANGED row
    BY <1>2, <2>1
  <2>2. CASE MayMove(p, to, rec) /\ Move(p, to)
    <3>1. Recorded(p) /\ row[p].state \in OrderState /\ IsLegal(row[p].state, to)
      BY <2>2 DEF MayMove, StoreTypeOK, Recorded, Row
    <3>2. Recorded(o)'
      BY <1>4, RowsStay DEF Past
    <3>3. CASE p = o
      <4>1. to \notin BeforeSend /\ to \in OrderState
        BY <1>1, <3>1, <3>3, NoWayBack, LegalType
      <4>. QED
        BY <1>3, <2>2, <3>1, <4>1
    <3>4. CASE p # o
      <4>1. row'[o] = row[o]
        BY <2>2, <3>4 DEF Move, StoreTypeOK
      <4>. QED
        BY <1>1, <3>2, <4>1 DEF Past
    <3>. QED
      BY <3>3, <3>4
  <2>. QED
    BY <1>4, <2>1, <2>2 DEF TryMove, NotAllowed
<1>5. ASSUME NEW p \in Orders, NEW to \in OrderState \ BeforeSend,
             NEW f \in Nat, NEW q \in Nat, Recorded(p),
             MoveWithTotals(p, to, f, q)
      PROVE  Past(o)'
  <2>1. Recorded(o)'
    BY <1>5, RowsStay DEF Past
  <2>2. row'[o].state \in {row[o].state, to}
    BY <1>1, <1>5 DEF MoveWithTotals, StoreTypeOK, Recorded, Row
  <2>. QED
    BY <1>1, <2>1, <2>2 DEF Past
<1>6. ASSUME NEW e \in Event, ApplyBrokerEvent(e)
      PROVE  Past(o)'
  <2>1. Recorded(o)'
    BY <1>6, RowsStay DEF Past
  <2>2. e.order \in Orders /\ StateAfter(row[e.order], e) \notin BeforeSend
    BY DEF Event, EventKind, StateAfter, Target, BeforeSend
  <2>3. \/ UNCHANGED row
        \/ row' = [row EXCEPT ![e.order] = Noted(row[e.order], e)]
        \/ row' = [row EXCEPT ![e.order] = Applied(row[e.order], e)]
    BY <1>6 DEF ApplyBrokerEvent, storeVars
  <2>4. CASE e.order = o
    BY <1>1, <2>1, <2>2, <2>3, <2>4 DEF StoreTypeOK, Noted, Applied, Row, Past
  <2>5. CASE e.order # o
    <3>1. row'[o] = row[o]
      BY <2>2, <2>3, <2>5 DEF StoreTypeOK
    <3>. QED
      BY <1>1, <2>1, <3>1 DEF Past
  <2>. QED
    BY <2>4, <2>5
<1>. QED
  BY <1>2, <1>3, <1>4, <1>5, <1>6

(* A step with no submit before or after it that has not sent, and no new
   broker order, keeps the discipline.                                     *)
LEMMA QuietStep ==
  ASSUME SendInv, TypeInv', UNCHANGED copies,
         \A o \in Orders : held'[o] = NoOrder <=> held[o] = NoOrder,
         \A c \in Callers : call'[c].pc \notin PreSend,
         \A o \in Orders : Past(o) => Past(o)'
  PROVE  SendInv'
<1>1. SendDiscipline'
  BY DEF SendDiscipline
<1>2. CopiesAgree'
  BY DEF SendInv, CopiesAgree
<1>3. RecordedBeforeSent'
  BY DEF SendInv, RecordedBeforeSent, Past
<1>. QED
  BY <1>1, <1>2, <1>3 DEF SendInv

(* While no call holds the thread, no submit is between record and send.   *)
LEMMA NobodySends ==
  ASSUME SendInv, running = Nobody
  PROVE  \A c \in Callers : call[c].pc \notin PreSend
BY NobodyAssumption DEF SendInv, SendDiscipline

(* The one caller that holds the thread is the only submit unsent.         *)
LEMMA OneSends ==
  ASSUME SendInv, NEW c \in Callers, running = c
  PROVE  \A d \in Callers \ {c} : call[d].pc \notin PreSend
BY DEF SendInv, SendDiscipline

THEOREM SendInit == Init => SendInv
<1>. SUFFICES ASSUME Init PROVE SendInv
  OBVIOUS
<1>1. SendDiscipline
  BY DEF Init, SendDiscipline, Idle, PreSend
<1>2. CopiesAgree /\ RecordedBeforeSent
  BY DEF Init, BrokerInit, CopiesAgree, RecordedBeforeSent
<1>. QED
  BY <1>1, <1>2, TypeInit DEF SendInv

THEOREM SendNext == SendInv /\ [Next]_vars => SendInv'
<1>. SUFFICES ASSUME SendInv, [Next]_vars PROVE SendInv'
  OBVIOUS
<1>1. TypeInv /\ TypeInv'
  BY TypeNext DEF SendInv
<1>2. /\ StoreTypeOK /\ BrokerTypeOK /\ queue \in Seq(Event)
      /\ call \in [Callers -> Call \cup {Idle}]
  BY <1>1 DEF TypeInv, TypeOK
<1>3. \A c \in Callers : call[c].pc # "idle" =>
        call[c] \in Call /\ call[c].order \in Orders /\ Recorded(call[c].order)
  BY <1>1, CallType DEF TypeInv, CallsRecorded
<1>4. UNCHANGED brokerVars =>
        UNCHANGED copies /\ \A o \in Orders : held'[o] = NoOrder <=> held[o] = NoOrder
  BY DEF brokerVars
<1>5. ASSUME NEW c \in Callers, NEW o \in Orders, NEW kind \in Kind,
             SubmitPersist(c, o, kind)
      PROVE  SendInv'
  <2>1. /\ ~Recorded(o) /\ running = Nobody
        /\ row' = [row EXCEPT ![o] = [state |-> "CREATED", filled |-> 0,
                                      prot |-> 0, kind |-> kind]]
        /\ call' = [call EXCEPT ![c] = [pc |-> "guard", order |-> o,
                                answer |-> "none", truth |-> NoOrder]]
        /\ running' = c /\ UNCHANGED brokerVars
    BY <1>5 DEF SubmitPersist, PersistIntent, MayPersist, Begin, Free
  <2>2. held[o] = NoOrder /\ copies[o] = 0
    BY <2>1 DEF SendInv, RecordedBeforeSent, CopiesAgree
  <2>3. SendDiscipline'
    BY <1>2, <2>1, <2>2, NobodySends
       DEF SendDiscipline, StateAt, brokerVars, PreSend, StoreTypeOK
  <2>4. RecordedBeforeSent'
    BY <1>2, <2>1, <2>2 DEF SendInv, RecordedBeforeSent, Recorded, StoreTypeOK,
                           brokerVars
  <2>5. CopiesAgree'
    BY <1>4, <2>1 DEF SendInv, CopiesAgree
  <2>. QED
    BY <1>1, <2>3, <2>4, <2>5 DEF SendInv
<1>6. ASSUME NEW c \in Callers, SubmitGuard(c) \/ SubmitApprove(c) \/ SubmitMark(c)
      PROVE  SendInv'
  <2>. DEFINE o == call[c].order
  <2>1. /\ call[c].pc \in PreSend /\ running = c /\ o \in Orders
        /\ call[c] \in Call /\ UNCHANGED brokerVars
    BY <1>3, <1>6
       DEF SubmitGuard, SubmitApprove, SubmitMark, At, PreSend
  <2>2. held[o] = NoOrder /\ copies[o] = 0 /\ Recorded(o)
    BY <1>3, <2>1 DEF SendInv, SendDiscipline, CopiesAgree, PreSend
  <2>3. PICK to \in {"REJECTED", "VALIDATED", "APPROVED", "SUBMITTING"} :
          /\ Move(o, to)
          /\ \/ End(c)
             \/ /\ to # "REJECTED"
                /\ GoOn(c, [VALIDATED |-> "approve", APPROVED |-> "submitting",
                            SUBMITTING |-> "send"][to])
    BY <1>6 DEF SubmitGuard, SubmitApprove, SubmitMark
  <2>4. row'[o].state = to /\ \A p \in Orders \ {o} : row'[p] = row[p]
    BY <1>2, <2>1, <2>2, <2>3 DEF Move, StoreTypeOK, Recorded, Row
  <2>5. SendDiscipline'
    <3>1. CASE End(c)
      BY <1>2, <2>1, <3>1, OneSends
         DEF End, SendDiscipline, Idle, PreSend, SendInv
    <3>2. CASE /\ to # "REJECTED"
               /\ GoOn(c, [VALIDATED |-> "approve", APPROVED |-> "submitting",
                           SUBMITTING |-> "send"][to])
      <4>1. /\ call'[c].order = o /\ running' = c
            /\ call'[c].pc = [VALIDATED |-> "approve", APPROVED |-> "submitting",
                              SUBMITTING |-> "send"][to]
            /\ \A d \in Callers \ {c} : call'[d] = call[d]
        BY <1>2, <2>1, <3>2 DEF GoOn, Call
      <4>2. StateAt[call'[c].pc] = to
        BY <2>3, <3>2, <4>1 DEF StateAt
      <4>. QED
        BY <2>1, <2>2, <2>4, <4>1, <4>2, OneSends DEF SendDiscipline, brokerVars
    <3>. QED
      BY <2>3, <3>1, <3>2
  <2>6. RecordedBeforeSent'
    BY <2>1, <2>2, <2>4 DEF SendInv, RecordedBeforeSent, Recorded, brokerVars
  <2>7. CopiesAgree'
    BY <1>4, <2>1 DEF SendInv, CopiesAgree
  <2>. QED
    BY <1>1, <2>5, <2>6, <2>7 DEF SendInv
<1>7. ASSUME NEW c \in Callers, SubmitSend(c)
      PROVE  SendInv'
  <2>. DEFINE o == call[c].order
  <2>1. PICK plan \in Plans :
          /\ BrokerSubmit(o, plan)
          /\ Await(c, o, "submit_answer", SubmitAnswer(plan), NoOrder)
    BY <1>7 DEF SubmitSend
  <2>2. /\ call[c].pc = "send" /\ running = c /\ o \in Orders
        /\ UNCHANGED storeVars
    BY <1>3, <1>7 DEF SubmitSend, At
  <2>3. held[o] = NoOrder /\ copies[o] = 0 /\ Past(o)
    BY <1>3, <2>2
       DEF SendInv, SendDiscipline, CopiesAgree, PreSend, StateAt, Past, BeforeSend
  <2>4. /\ \A p \in Orders \ {o} : held'[p] = held[p] /\ copies'[p] = copies[p]
        /\ \/ copies'[o] = 0 /\ held'[o] = NoOrder
           \/ copies'[o] = 1 /\ held'[o] # NoOrder
    <3>1. \A total : StateOfTotal(total) # "NONE"
      BY DEF StateOfTotal
    <3>. QED
      BY <1>2, <2>1, <2>2, <2>3, <3>1
         DEF BrokerSubmit, Accept, BrokerTypeOK, brokerVars, NoOrder
  <2>5. \A d \in Callers : call'[d].pc \notin PreSend
    BY <1>2, <2>1, <2>2, OneSends DEF Await, PreSend
  <2>6. SendDiscipline'
    BY <2>5 DEF SendDiscipline
  <2>7. CopiesAgree'
    BY <2>4 DEF SendInv, CopiesAgree
  <2>8. RecordedBeforeSent'
    BY <2>2, <2>3, <2>4
       DEF SendInv, RecordedBeforeSent, Recorded, Past, storeVars
  <2>. QED
    BY <1>1, <2>6, <2>7, <2>8 DEF SendInv
<1>8. ASSUME NEW c \in Callers, NEW o \in Orders, CancelRequest(c, o)
      PROVE  SendInv'
  <2>1. \A p \in Orders : Past(p) => Past(p)'
    BY <1>2, <1>8, PastStays
       DEF CancelRequest, MayMove, OrderState, BeforeSend
  <2>2. \A d \in Callers : call'[d].pc \notin PreSend
    BY <1>2, <1>8, NobodySends DEF CancelRequest, Free, Begin, PreSend
  <2>. QED
    BY <1>1, <1>4, <1>8, <2>1, <2>2, QuietStep DEF CancelRequest
<1>9. ASSUME NEW c \in Callers, NEW o \in Orders, CancelLocally(c, o)
      PROVE  SendInv'
  <2>1. Recorded(o)
    BY <1>9 DEF CancelLocally, Recorded, NoRow
  <2>2. \A p \in Orders : Past(p) => Past(p)'
    BY <1>2, <1>9, <2>1, PastStays DEF CancelLocally, OrderState, BeforeSend
  <2>3. \A d \in Callers : call'[d].pc \notin PreSend
    BY <1>9, NobodySends DEF CancelLocally, Free, gatewayVars
  <2>. QED
    BY <1>1, <1>4, <1>9, <2>2, <2>3, QuietStep DEF CancelLocally
<1>10. ASSUME NEW c \in Callers, CancelSend(c)
       PROVE  SendInv'
  <2>. DEFINE o == call[c].order
  <2>1. PICK plan \in Plans :
          /\ BrokerCancel(o, plan)
          /\ Await(c, o, "cancel_answer", CancelAnswer(o, plan), NoOrder)
    BY <1>10 DEF CancelSend
  <2>2. running = c /\ o \in Orders /\ UNCHANGED storeVars
    BY <1>3, <1>10 DEF CancelSend, At
  <2>3. /\ UNCHANGED copies
        /\ \A p \in Orders : held'[p] = NoOrder <=> held[p] = NoOrder
    <3>1. CASE UNCHANGED brokerVars
      BY <3>1 DEF brokerVars
    <3>2. CASE held[o].state \in Open /\ UNCHANGED copies
               /\ \E new \in BrokerOrder : held' = [held EXCEPT ![o] = new]
      BY <1>2, <2>2, <3>2
         DEF BrokerTypeOK, NoOrder, Open, BrokerOrder, BrokerState
    <3>3. held[o].state \in Open => held[o] \in BrokerOrder
      BY <1>2, <2>2 DEF BrokerTypeOK, Open, NoOrder
    <3>4. held[o].state \in Open =>
            /\ [held[o] EXCEPT !.state = "CANCELED"] \in BrokerOrder
            /\ [held[o] EXCEPT !.state = "FILLED", !.filled = Qty] \in BrokerOrder
      BY <3>3, QtyAssumption DEF BrokerOrder, BrokerState
    <3>. HIDE DEF o
    <3>5. CASE ~(UNCHANGED brokerVars)
      BY <2>1, <3>2, <3>4, <3>5 DEF BrokerCancel
    <3>. QED
      BY <3>1, <3>5
  <2>4. \A d \in Callers : call'[d].pc \notin PreSend
    BY <1>2, <2>1, <2>2, OneSends DEF Await, PreSend
  <2>5. \A p \in Orders : Past(p) => Past(p)'
    BY <1>2, <2>2, PastStays DEF storeVars
  <2>. QED
    BY <1>1, <2>3, <2>4, <2>5, QuietStep
<1>11. ASSUME NEW c \in Callers, SubmitReturn(c) \/ CancelReturn(c)
                                 \/ ReconcileNotFound(c)
       PROVE  SendInv'
  <2>1. running = Nobody /\ call[c].order \in Orders
    BY <1>3, <1>11
       DEF SubmitReturn, CancelReturn, ReconcileNotFound, Answered
  <2>2. \/ UNCHANGED row
        \/ \E to, rec : TryMove(call[c].order, to, rec)
    BY <1>11 DEF SubmitReturn, CancelReturn, ReconcileNotFound
  <2>3. \A p \in Orders : Past(p) => Past(p)'
    BY <1>2, <2>1, <2>2, PastStays
  <2>4. End(c) /\ UNCHANGED brokerVars
    BY <1>11 DEF SubmitReturn, CancelReturn, ReconcileNotFound
  <2>5. \A d \in Callers : call'[d].pc \notin PreSend
    BY <1>2, <2>1, <2>4, NobodySends DEF End, Idle, PreSend
  <2>. QED
    BY <1>1, <1>4, <2>3, <2>4, <2>5, QuietStep
<1>12. ASSUME NEW c \in Callers, NEW o \in Orders, ReconcileAsk(c, o)
       PROVE  SendInv'
  <2>1. \A d \in Callers : call'[d].pc \notin PreSend
    BY <1>2, <1>12, NobodySends DEF ReconcileAsk, Free, Await, PreSend
  <2>2. \A p \in Orders : Past(p) => Past(p)'
    BY <1>2, <1>12, PastStays DEF ReconcileAsk, storeVars
  <2>. QED
    BY <1>1, <1>4, <1>12, <2>1, <2>2, QuietStep DEF ReconcileAsk
<1>13. ASSUME NEW c \in Callers, ReconcileFound(c)
       PROVE  SendInv'
  <2>. DEFINE o == call[c].order
              t == call[c].truth
  <2>1. o \in Orders /\ Recorded(o) /\ t \in BrokerOrder /\ running = Nobody
    BY <1>3, <1>13 DEF ReconcileFound, Answered, Call
  <2>2. /\ t.state \in OrderState \ BeforeSend
        /\ t.filled \in Nat /\ t.prot \in Nat
    BY <2>1 DEF BrokerOrder, BrokerState, OrderState, BeforeSend
  <2>3. \/ UNCHANGED row
        \/ MoveWithTotals(o, t.state, t.filled, t.prot)
    BY <1>13 DEF ReconcileFound, NotAllowed
  <2>4. /\ End(c) \/ GoOn(c, "request_protection")
        /\ UNCHANGED brokerVars
    BY <1>13 DEF ReconcileFound
  <2>. HIDE DEF o, t
  <2>5. \A p \in Orders : Past(p) => Past(p)'
    BY <1>2, <2>1, <2>2, <2>3, PastStays
  <2>6. \A d \in Callers : call'[d].pc \notin PreSend
    BY <1>2, <2>1, <2>4, NobodySends DEF End, GoOn, Idle, PreSend, Call
  <2>. QED
    BY <1>1, <1>4, <2>4, <2>5, <2>6, QuietStep
<1>14. ASSUME NEW c \in Callers, RequestProtection(c)
       PROVE  SendInv'
  <2>1. running = c /\ call[c].order \in Orders /\ Recorded(call[c].order)
    BY <1>3, <1>14 DEF RequestProtection, At
  <2>2. \A p \in Orders : Past(p) => Past(p)'
    BY <1>2, <1>14, <2>1, PastStays
       DEF RequestProtection, OrderState, BeforeSend
  <2>3. \A d \in Callers : call'[d].pc \notin PreSend
    BY <1>2, <1>14, <2>1, OneSends DEF RequestProtection, End, Idle, PreSend
  <2>. QED
    BY <1>1, <1>4, <1>14, <2>2, <2>3, QuietStep DEF RequestProtection
<1>15. CASE Deliver
  <2>1. Head(queue) \in Event
    BY <1>2, <1>15 DEF Deliver
  <2>2. \A p \in Orders : Past(p) => Past(p)'
    BY <1>2, <1>15, <2>1, PastStays DEF Deliver
  <2>3. \A d \in Callers : call'[d].pc \notin PreSend
    BY <1>15, NobodySends DEF Deliver, gatewayVars
  <2>. QED
    BY <1>1, <1>15, <2>2, <2>3, QuietStep DEF Deliver
<1>16. ASSUME NEW o \in Orders, UnknownTimeout(o)
       PROVE  SendInv'
  <2>1. \A p \in Orders : Past(p) => Past(p)'
    BY <1>2, <1>16, PastStays DEF UnknownTimeout, OrderState, BeforeSend
  <2>2. \A d \in Callers : call'[d].pc \notin PreSend
    BY <1>16, NobodySends DEF UnknownTimeout, gatewayVars
  <2>. QED
    BY <1>1, <1>4, <1>16, <2>1, <2>2, QuietStep DEF UnknownTimeout
<1>17. CASE Crash
  <2>1. \A p \in Orders : Past(p) => Past(p)'
    BY <1>2, <1>17, PastStays DEF Crash, storeVars
  <2>2. \A d \in Callers : call'[d].pc \notin PreSend
    BY <1>17 DEF Crash, Idle, PreSend
  <2>. QED
    BY <1>1, <1>17, <2>1, <2>2, QuietStep DEF Crash
<1>18. CASE UNCHANGED vars
  BY <1>1, <1>18
     DEF vars, storeVars, brokerVars, gatewayVars, SendInv, SendDiscipline,
         CopiesAgree, RecordedBeforeSent, Recorded
<1>. QED
  BY <1>5, <1>6, <1>7, <1>8, <1>9, <1>10, <1>11, <1>12, <1>13, <1>14, <1>15,
     <1>16, <1>17, <1>18
     DEF Next, Submit, Cancel, Reconcile

LEMMA SendInvariant == Spec => []SendInv
BY SendInit, SendNext, PTL DEF Spec

(* No client order id ever stands for two broker orders.                   *)
THEOREM AtMostOneBrokerOrder == Spec => []OneBrokerOrder
<1>1. SendInv => OneBrokerOrder
  BY DEF SendInv, CopiesAgree, OneBrokerOrder
<1>. QED
  BY <1>1, SendInvariant, PTL

(* The broker holds no order that is not recorded and past sending.        *)
THEOREM RecordComesFirst == Spec => []RecordedBeforeSent
<1>1. SendInv => RecordedBeforeSent
  BY DEF SendInv
<1>. QED
  BY <1>1, SendInvariant, PTL

-----------------------------------------------------------------------------
(* The gateway implements the at-most-once contract.                       *)

AllPhases == [o \in Orders |-> PhaseOf(o)]

LEMMA PhaseFacts ==
  ASSUME SendInv, NEW o \in Orders
  PROVE  /\ PhaseOf(o) \in {"new", "recorded", "past"}
         /\ PhaseOf(o) = "new" <=> ~Recorded(o)
         /\ PhaseOf(o) = "past" <=> Past(o) /\ ~Sending(o)
         /\ PhaseOf(o) # "past" => copies[o] = 0
<1>1. Sending(o) => Recorded(o) /\ copies[o] = 0
  <2>. SUFFICES ASSUME Sending(o) PROVE Recorded(o) /\ copies[o] = 0
    OBVIOUS
  <2>1. PICK c \in Callers : call[c].pc = "send" /\ call[c].order = o
    BY DEF Sending
  <2>. QED
    BY <2>1 DEF SendInv, TypeInv, CallsRecorded, SendDiscipline, PreSend
<1>2. ~Past(o) => copies[o] = 0
  BY DEF SendInv, RecordedBeforeSent, CopiesAgree, Past
<1>. QED
  BY <1>1, <1>2 DEF PhaseOf, Past

(* A step that concerns one order o is a step of the contract when it takes
   no order back and no other order anywhere.                              *)
LEMMA ContractStep ==
  ASSUME SendInv, SendInv', NEW o \in Orders,
         \A p \in Orders \ {o} : PhaseOf(p)' = PhaseOf(p) /\ copies'[p] = copies[p],
         Recorded(o) => Recorded(o)',
         PhaseOf(o) = "new" => copies'[o] = copies[o] /\ PhaseOf(o)' # "past",
         PhaseOf(o) = "recorded" =>
           copies'[o] = copies[o] \/ PhaseOf(o)' = "past",
         PhaseOf(o) = "past" => PhaseOf(o)' = "past" /\ copies'[o] = copies[o]
  PROVE  [Contract!ContractNext]_<<AllPhases, copies>>
<1>1. \A p \in Orders : copies[p] \in {0, 1} /\ copies'[p] \in {0, 1}
  BY DEF SendInv, TypeInv, TypeOK, BrokerTypeOK, CopiesAgree
<1>2. copies \in [Orders -> Nat] /\ copies' \in [Orders -> Nat]
  BY DEF SendInv, TypeInv, TypeOK, BrokerTypeOK
<1>3. /\ PhaseOf(o) \in {"new", "recorded", "past"}
      /\ PhaseOf(o)' \in {"new", "recorded", "past"}
      /\ PhaseOf(o) = "new" <=> ~Recorded(o)
      /\ PhaseOf(o)' = "new" <=> ~Recorded(o)'
  BY PhaseFacts DEF PhaseOf
<1>4. CASE PhaseOf(o)' = PhaseOf(o) /\ copies'[o] = copies[o]
  <2>1. AllPhases' = AllPhases
    BY <1>4 DEF AllPhases
  <2>2. copies' = copies
    BY <1>2, <1>4
  <2>. QED
    BY <2>1, <2>2
<1>5. CASE PhaseOf(o) = "new" /\ PhaseOf(o)' = "recorded" /\ copies'[o] = copies[o]
  <2>1. AllPhases' = [AllPhases EXCEPT ![o] = "recorded"]
    BY <1>5 DEF AllPhases
  <2>2. copies' = copies
    BY <1>2, <1>5
  <2>3. Contract!Record(o)
    BY <1>5, <2>1, <2>2 DEF Contract!Record, AllPhases
  <2>. QED
    BY <2>3 DEF Contract!ContractNext
<1>6. CASE PhaseOf(o) = "recorded" /\ PhaseOf(o)' = "past"
  <2>1. AllPhases' = [AllPhases EXCEPT ![o] = "past"]
    BY <1>6 DEF AllPhases
  <2>2. copies' = [copies EXCEPT ![o] = copies'[o]]
    BY <1>2
  <2>3. Contract!Send(o)
    BY <1>1, <1>6, <2>1, <2>2 DEF Contract!Send, AllPhases
  <2>. QED
    BY <2>3 DEF Contract!ContractNext
<1>. QED
  BY <1>3, <1>4, <1>5, <1>6

(* A step that touches at most the row and the calls of o, starts no send
   and adds no broker order, is a step of the contract.                    *)
LEMMA ContractQuietStep ==
  ASSUME SendInv, SendInv', NEW o \in Orders,
         UNCHANGED copies,
         \A p \in Orders \ {o} : row'[p] = row[p],
         \A p \in Orders : Recorded(p) => Recorded(p)',
         \A p \in Orders : Past(p) => Past(p)',
         Recorded(o) \/ UNCHANGED row,
         \A p \in Orders : Sending(p)' => Sending(p),
         \A p \in Orders \ {o} : Sending(p) => Sending(p)'
  PROVE  [Contract!ContractNext]_<<AllPhases, copies>>
<1>1. \A p \in Orders \ {o} : PhaseOf(p)' = PhaseOf(p)
  BY DEF PhaseOf, Recorded
<1>2. PhaseOf(o) = "past" => PhaseOf(o)' = "past"
  BY PhaseFacts DEF PhaseOf, Past
<1>3. PhaseOf(o) = "new" => PhaseOf(o)' # "past"
  BY PhaseFacts DEF PhaseOf, Recorded
<1>. QED
  BY <1>1, <1>2, <1>3, ContractStep

THEOREM ContractInitially == Init => Contract!ContractInit
<1>. SUFFICES ASSUME Init PROVE Contract!ContractInit
  OBVIOUS
<1>1. \A o \in Orders : PhaseOf(o) = "new" /\ copies[o] = 0
  BY DEF Init, StoreInit, BrokerInit, PhaseOf, Recorded
<1>2. copies = [o \in Orders |-> 0]
  BY DEF Init, BrokerInit
<1>. QED
  BY <1>1, <1>2 DEF Contract!ContractInit

THEOREM ContractSteps ==
  SendInv /\ [Next]_vars => [Contract!ContractNext]_<<AllPhases, copies>>
<1>. SUFFICES ASSUME SendInv, [Next]_vars
              PROVE  [Contract!ContractNext]_<<AllPhases, copies>>
  OBVIOUS
<1>1. SendInv'
  BY SendNext
<1>2. /\ StoreTypeOK /\ BrokerTypeOK /\ queue \in Seq(Event)
      /\ call \in [Callers -> Call \cup {Idle}]
  BY DEF SendInv, TypeInv, TypeOK
<1>3. \A c \in Callers : call[c].pc # "idle" =>
        call[c] \in Call /\ call[c].order \in Orders /\ Recorded(call[c].order)
  BY CallType DEF SendInv, TypeInv, CallsRecorded
<1>4. ASSUME UNCHANGED <<row, copies>>, \A p \in Orders : Sending(p)' <=> Sending(p)
      PROVE  UNCHANGED <<AllPhases, copies>>
  BY <1>4 DEF AllPhases, PhaseOf, Recorded
<1>5. ASSUME NEW c \in Callers, NEW o \in Orders, NEW kind \in Kind,
             SubmitPersist(c, o, kind)
      PROVE  [Contract!ContractNext]_<<AllPhases, copies>>
  <2>1. /\ ~Recorded(o) /\ running = Nobody /\ UNCHANGED copies
        /\ row' = [row EXCEPT ![o] = [state |-> "CREATED", filled |-> 0,
                                      prot |-> 0, kind |-> kind]]
        /\ call' = [call EXCEPT ![c] = [pc |-> "guard", order |-> o,
                                answer |-> "none", truth |-> NoOrder]]
    BY <1>5 DEF SubmitPersist, PersistIntent, MayPersist, Begin, Free, brokerVars
  <2>2. \A p \in Orders : ~Sending(p) /\ ~Sending(p)'
    BY <1>2, <2>1, NobodySends DEF Sending, PreSend
  <2>3. /\ PhaseOf(o) = "new" /\ PhaseOf(o)' = "recorded"
        /\ \A p \in Orders \ {o} : PhaseOf(p)' = PhaseOf(p)
    BY <1>2, <2>1, <2>2
       DEF PhaseOf, Recorded, NoRow, BeforeSend, StoreTypeOK
  <2>. QED
    BY <1>1, <2>1, <2>3, ContractStep
<1>6. ASSUME NEW c \in Callers, SubmitGuard(c) \/ SubmitApprove(c)
      PROVE  [Contract!ContractNext]_<<AllPhases, copies>>
  <2>0. PICK o \in Orders : o = call[c].order
    BY <1>3, <1>6 DEF SubmitGuard, SubmitApprove, At
  <2>1. /\ running = c /\ o \in Orders /\ Recorded(o) /\ UNCHANGED copies
        /\ call[c].pc \in {"guard", "approve"} /\ call[c] \in Call
    BY <2>0, <1>3, <1>6 DEF SubmitGuard, SubmitApprove, At, brokerVars
  <2>2. PICK to \in {"REJECTED", "VALIDATED", "APPROVED"} : Move(o, to)
    BY <2>0, <1>6 DEF SubmitGuard, SubmitApprove
  <2>3. End(c) \/ GoOn(c, "approve") \/ GoOn(c, "submitting")
    BY <1>6 DEF SubmitGuard, SubmitApprove
  <2>4. \A p \in Orders : ~Sending(p) /\ ~Sending(p)'
    BY <1>2, <2>1, <2>3, OneSends
       DEF Sending, PreSend, End, GoOn, Idle, Call
  <2>5. row[o].state \in BeforeSend
    BY <2>0, <2>1 DEF SendInv, SendDiscipline, StateAt, PreSend, BeforeSend
  <2>6. \A p \in Orders \ {o} : row'[p] = row[p]
    BY <1>2, <2>1, <2>2 DEF Move, StoreTypeOK
  <2>7. Recorded(o)'
    BY <1>2, <2>1, <2>2, RowsStay DEF OrderState
  <2>8. PhaseOf(o) = "recorded"
    BY <2>1, <2>5 DEF PhaseOf
  <2>9. \A p \in Orders \ {o} : PhaseOf(p)' = PhaseOf(p)
    BY <2>4, <2>6 DEF PhaseOf, Recorded
  <2>. QED
    BY <1>1, <2>1, <2>7, <2>8, <2>9, ContractStep
<1>7. ASSUME NEW c \in Callers, SubmitMark(c)
      PROVE  [Contract!ContractNext]_<<AllPhases, copies>>
  <2>0. PICK o \in Orders : o = call[c].order
    BY <1>3, <1>7 DEF SubmitMark, At
  <2>1. /\ running = c /\ o \in Orders /\ Recorded(o) /\ UNCHANGED copies
        /\ call[c].pc = "submitting" /\ call[c] \in Call
        /\ Move(o, "SUBMITTING") /\ GoOn(c, "send")
    BY <2>0, <1>3, <1>7 DEF SubmitMark, At, brokerVars
  <2>2. /\ call'[c].pc = "send" /\ call'[c].order = o
        /\ \A d \in Callers \ {c} : call'[d] = call[d]
    BY <2>0, <1>2, <2>1 DEF GoOn, Call
  <2>3. /\ Sending(o)'
        /\ \A p \in Orders \ {o} : ~Sending(p) /\ ~Sending(p)'
    BY <2>1, <2>2, OneSends DEF Sending, PreSend
  <2>4. row[o].state \in BeforeSend
    BY <2>0, <2>1 DEF SendInv, SendDiscipline, StateAt, PreSend, BeforeSend
  <2>5. \A p \in Orders \ {o} : row'[p] = row[p]
    BY <1>2, <2>1 DEF Move, StoreTypeOK
  <2>6. Recorded(o)'
    BY <1>2, <2>1, RowsStay DEF OrderState
  <2>7. PhaseOf(o) = "recorded" /\ PhaseOf(o)' = "recorded"
    BY <2>1, <2>3, <2>4, <2>6 DEF PhaseOf
  <2>8. \A p \in Orders \ {o} : PhaseOf(p)' = PhaseOf(p)
    BY <2>3, <2>5 DEF PhaseOf, Recorded
  <2>. QED
    BY <1>1, <2>1, <2>6, <2>7, <2>8, ContractStep
<1>8. ASSUME NEW c \in Callers, SubmitSend(c)
      PROVE  [Contract!ContractNext]_<<AllPhases, copies>>
  <2>0. PICK o \in Orders : o = call[c].order
    BY <1>3, <1>8 DEF SubmitSend, At
  <2>1. PICK plan \in Plans :
          /\ BrokerSubmit(o, plan)
          /\ Await(c, o, "submit_answer", SubmitAnswer(plan), NoOrder)
    BY <2>0, <1>8 DEF SubmitSend
  <2>2. /\ call[c].pc = "send" /\ running = c /\ o \in Orders /\ Recorded(o)
        /\ UNCHANGED storeVars
    BY <2>0, <1>3, <1>8 DEF SubmitSend, At
  <2>3. \A p \in Orders \ {o} : copies'[p] = copies[p]
    BY <1>2, <2>1 DEF BrokerSubmit, Accept, BrokerTypeOK, brokerVars
  <2>4. /\ Sending(o) /\ ~Sending(o)'
        /\ \A p \in Orders \ {o} : ~Sending(p) /\ ~Sending(p)'
    <3>1. \A d \in Callers \ {c} : call[d].pc # "send" /\ call'[d] = call[d]
      BY <1>2, <2>1, <2>2 DEF Await, SendInv, SendDiscipline, PreSend
    <3>2. call'[c].pc = "submit_answer"
      BY <1>2, <2>1 DEF Await
    <3>. QED
      BY <2>0, <2>2, <3>1, <3>2 DEF Sending
  <2>5. row[o].state = "SUBMITTING"
    BY <2>0, <2>2 DEF SendInv, SendDiscipline, StateAt, PreSend
  <2>6. /\ PhaseOf(o) = "recorded" /\ PhaseOf(o)' = "past" /\ Recorded(o)'
        /\ \A p \in Orders \ {o} : PhaseOf(p)' = PhaseOf(p)
    BY <2>2, <2>4, <2>5 DEF PhaseOf, Recorded, storeVars, BeforeSend
  <2>. QED
    BY <1>1, <2>2, <2>3, <2>6, ContractStep
<1>9. ASSUME NEW c \in Callers, NEW o \in Orders,
             CancelRequest(c, o) \/ CancelLocally(c, o)
      PROVE  [Contract!ContractNext]_<<AllPhases, copies>>
  <2>1. Recorded(o) /\ running = Nobody /\ UNCHANGED copies
    BY <1>9
       DEF CancelRequest, CancelLocally, MayMove, Recorded, NoRow, Free, brokerVars
  <2>2. PICK to \in {"CANCEL_PENDING", "CANCELED"} : Move(o, to)
    <3>1. CASE CancelRequest(c, o)
      BY <3>1 DEF CancelRequest
    <3>2. CASE CancelLocally(c, o)
      BY <3>2 DEF CancelLocally
    <3>. QED
      BY <1>9, <3>1, <3>2
  <2>3. \A p \in Orders : ~Sending(p) /\ ~Sending(p)'
    <3>1. \A d \in Callers : call[d].pc # "send"
      BY <2>1, NobodySends DEF PreSend
    <3>2. UNCHANGED call \/ Begin(c, o, "cancel_send")
      BY <1>9 DEF CancelRequest, CancelLocally, gatewayVars
    <3>3. \A d \in Callers : call'[d].pc # "send"
      BY <1>2, <3>1, <3>2 DEF Begin
    <3>. QED
      BY <3>1, <3>3 DEF Sending
  <2>4. /\ \A p \in Orders : Recorded(p) => Recorded(p)'
        /\ \A p \in Orders : Past(p) => Past(p)'
        /\ \A p \in Orders \ {o} : row'[p] = row[p]
    BY <1>2, <2>1, <2>2, RowsStay, PastStays
       DEF Move, StoreTypeOK, OrderState, BeforeSend
  <2>. QED
    BY <1>1, <2>1, <2>3, <2>4, ContractQuietStep
<1>10. ASSUME NEW c \in Callers, CancelSend(c)
       PROVE  [Contract!ContractNext]_<<AllPhases, copies>>
  <2>1. PICK plan \in Plans :
          /\ BrokerCancel(call[c].order, plan)
          /\ Await(c, call[c].order, "cancel_answer",
                   CancelAnswer(call[c].order, plan), NoOrder)
    BY <1>10 DEF CancelSend
  <2>2. /\ running = c /\ call[c].pc = "cancel_send" /\ UNCHANGED row
        /\ UNCHANGED copies
    BY <1>10, <2>1 DEF CancelSend, At, storeVars, BrokerCancel, brokerVars
  <2>3. \A p \in Orders : ~Sending(p) /\ ~Sending(p)'
    BY <1>2, <2>1, <2>2, OneSends DEF Sending, PreSend, Await
  <2>. QED
    BY <1>4, <2>2, <2>3
<1>11. ASSUME NEW c \in Callers, SubmitReturn(c) \/ CancelReturn(c)
                                 \/ ReconcileNotFound(c)
       PROVE  [Contract!ContractNext]_<<AllPhases, copies>>
  <2>0. PICK o \in Orders : o = call[c].order
    BY <1>3, <1>11 DEF SubmitReturn, CancelReturn, ReconcileNotFound, Answered
  <2>1. running = Nobody /\ o \in Orders /\ Recorded(o)
    BY <2>0, <1>3, <1>11
       DEF SubmitReturn, CancelReturn, ReconcileNotFound, Answered
  <2>2. \/ UNCHANGED row
        \/ \E to, rec : TryMove(o, to, rec)
    BY <2>0, <1>11 DEF SubmitReturn, CancelReturn, ReconcileNotFound
  <2>3. End(c) /\ UNCHANGED copies
    BY <1>11 DEF SubmitReturn, CancelReturn, ReconcileNotFound, brokerVars
  <2>4. \A p \in Orders : ~Sending(p) /\ ~Sending(p)'
    BY <1>2, <2>1, <2>3, NobodySends DEF Sending, PreSend, End, Idle
  <2>5. /\ \A p \in Orders : Recorded(p) => Recorded(p)'
        /\ \A p \in Orders : Past(p) => Past(p)'
    BY <1>2, <2>1, <2>2, RowsStay, PastStays DEF Recorded
  <2>6. \A p \in Orders \ {o} : row'[p] = row[p]
    BY <1>2, <2>1, <2>2 DEF TryMove, NotAllowed, Move, StoreTypeOK
  <2>. QED
    BY <1>1, <2>1, <2>3, <2>4, <2>5, <2>6, ContractQuietStep
<1>12. ASSUME NEW c \in Callers, NEW o \in Orders, ReconcileAsk(c, o)
       PROVE  [Contract!ContractNext]_<<AllPhases, copies>>
  <2>1. \A p \in Orders : ~Sending(p) /\ ~Sending(p)'
    BY <1>2, <1>12, NobodySends
       DEF ReconcileAsk, Free, Await, Sending, PreSend
  <2>. QED
    BY <1>4, <1>12, <2>1 DEF ReconcileAsk, storeVars, brokerVars
<1>13. ASSUME NEW c \in Callers, ReconcileFound(c) \/ RequestProtection(c)
       PROVE  [Contract!ContractNext]_<<AllPhases, copies>>
  <2>0. PICK o \in Orders : o = call[c].order
    BY <1>3, <1>13 DEF ReconcileFound, RequestProtection, Answered, At
  <2>t. PICK t : t = call[c].truth
    OBVIOUS
  <2>1. /\ o \in Orders /\ Recorded(o) /\ call[c] \in Call
        /\ \/ running = Nobody
           \/ running = c /\ call[c].pc = "request_protection"
        /\ UNCHANGED copies
    BY <2>0, <1>3, <1>13
       DEF ReconcileFound, RequestProtection, Answered, At, brokerVars
  <2>2. \/ UNCHANGED row
        \/ t \in BrokerOrder /\ MoveWithTotals(o, t.state, t.filled, t.prot)
        \/ Move(o, "PROTECTION_PENDING")
    <3>1. CASE ReconcileFound(c)
      BY <2>0, <2>t, <2>1, <3>1 DEF ReconcileFound, NotAllowed, Call
    <3>2. CASE RequestProtection(c)
      BY <2>0, <3>2 DEF RequestProtection
    <3>. QED
      BY <1>13, <3>1, <3>2
  <2>3. End(c) \/ GoOn(c, "request_protection")
    BY <1>13 DEF ReconcileFound, RequestProtection
  <2>4. \A p \in Orders : ~Sending(p) /\ ~Sending(p)'
    BY <1>2, <2>1, <2>3, NobodySends, OneSends
       DEF Sending, PreSend, End, GoOn, Idle, Call
  <2>5. t \in BrokerOrder =>
          /\ t.state \in OrderState \ BeforeSend
          /\ t.filled \in Nat /\ t.prot \in Nat
    BY DEF BrokerOrder, BrokerState, OrderState, BeforeSend
  <2>6. /\ \A p \in Orders : Recorded(p) => Recorded(p)'
        /\ \A p \in Orders : Past(p) => Past(p)'
    BY <1>2, <2>1, <2>2, <2>5, RowsStay, PastStays
       DEF Recorded, OrderState, BeforeSend
  <2>7. \A p \in Orders \ {o} : row'[p] = row[p]
    BY <1>2, <2>1, <2>2 DEF Move, MoveWithTotals, StoreTypeOK
  <2>. QED
    BY <1>1, <2>1, <2>4, <2>6, <2>7, ContractQuietStep
<1>14. CASE Deliver
  <2>1. PICK e \in Event : e = Head(queue)
    BY <1>2, <1>14 DEF Deliver
  <2>2. /\ ApplyBrokerEvent(e) /\ UNCHANGED <<copies, gatewayVars>>
        /\ e.order \in Orders
    BY <1>14, <2>1 DEF Deliver, Event
  <2>3. \A p \in Orders : Sending(p)' = Sending(p)
    BY <2>2 DEF Sending, gatewayVars
  <2>4. /\ \A p \in Orders : Recorded(p) => Recorded(p)'
        /\ \A p \in Orders : Past(p) => Past(p)'
    BY <1>2, <2>1, <2>2, RowsStay, PastStays
  <2>0. PICK o \in Orders : o = e.order
    BY <2>2
  <2>5. /\ \A p \in Orders \ {o} : row'[p] = row[p]
        /\ Recorded(o) \/ UNCHANGED row
    BY <1>2, <2>0, <2>2 DEF ApplyBrokerEvent, StoreTypeOK, storeVars
  <2>. QED
    BY <1>1, <2>2, <2>3, <2>4, <2>5, ContractQuietStep
<1>15. ASSUME NEW o \in Orders, UnknownTimeout(o)
       PROVE  [Contract!ContractNext]_<<AllPhases, copies>>
  <2>1. Recorded(o) /\ UNCHANGED <<copies, gatewayVars>>
    BY <1>15 DEF UnknownTimeout, brokerVars
  <2>2. UNCHANGED row \/ Move(o, "UNKNOWN")
    BY <1>15 DEF UnknownTimeout
  <2>3. \A p \in Orders : Sending(p)' = Sending(p)
    BY <2>1 DEF Sending, gatewayVars
  <2>4. /\ \A p \in Orders : Recorded(p) => Recorded(p)'
        /\ \A p \in Orders : Past(p) => Past(p)'
        /\ \A p \in Orders \ {o} : row'[p] = row[p]
    BY <1>2, <2>1, <2>2, RowsStay, PastStays
       DEF Move, StoreTypeOK, OrderState, BeforeSend, Recorded
  <2>. QED
    BY <1>1, <2>1, <2>3, <2>4, ContractQuietStep
<1>16. CASE Crash
  <2>1. UNCHANGED <<row, copies>> /\ \A p \in Orders : ~Sending(p)'
    BY <1>16 DEF Crash, storeVars, Sending, Idle
  <2>2. CASE \A p \in Orders : ~Sending(p)
    BY <1>4, <2>1, <2>2
  <2>3. ASSUME NEW o \in Orders, Sending(o)
        PROVE  [Contract!ContractNext]_<<AllPhases, copies>>
    <3>1. PICK c \in Callers : call[c].pc = "send" /\ call[c].order = o
      BY <2>3 DEF Sending
    <3>2. running = c
      BY <3>1 DEF SendInv, SendDiscipline, PreSend
    <3>3. \A p \in Orders \ {o} : ~Sending(p)
      BY <3>1, <3>2, OneSends DEF Sending, PreSend
    <3>4. Recorded(o)
      BY <1>3, <3>1
    <3>5. /\ \A p \in Orders : Recorded(p) => Recorded(p)'
          /\ \A p \in Orders : Past(p) => Past(p)'
      BY <2>1 DEF Recorded, Past
    <3>. QED
      BY <1>1, <2>1, <3>3, <3>4, <3>5, ContractQuietStep
  <2>. QED
    BY <2>2, <2>3
<1>17. CASE UNCHANGED vars
  BY <1>4, <1>17 DEF vars, storeVars, brokerVars, gatewayVars, Sending
<1>. QED
  BY <1>5, <1>6, <1>7, <1>8, <1>9, <1>10, <1>11, <1>12, <1>13, <1>14, <1>15,
     <1>16, <1>17
     DEF Next, Submit, Cancel, Reconcile

(* The gateway implements the contract: for every order, record, then at
   most one send, then nothing.                                            *)
THEOREM GatewayImplementsContract == Spec => ImplementsContract
<1>1. AllPhases = [o \in Orders |-> PhaseOf(o)]
  BY DEF AllPhases
<1>2. SendInv /\ [Next]_vars =>
        [Contract!ContractNext]_<<[o \in Orders |-> PhaseOf(o)], copies>>
  BY ContractSteps DEF AllPhases
<1>. QED
  BY <1>2, ContractInitially, SendInvariant, PTL
     DEF Spec, ImplementsContract, Contract!ContractSpec

-----------------------------------------------------------------------------
(* What the gateway records is true of the broker.                         *)

(* What an order held at h may become: k.                                  *)
Grows(h, k) ==
  /\ h.filled <= k.filled
  /\ h.prot <= k.prot
  /\ h.state = "FILLED" => k = h

(* A broker that is left alone loses nothing.                              *)
LEMMA SameGrows ==
  ASSUME SendInv, UNCHANGED held
  PROVE  \A o \in Orders : Grows(held[o], held'[o])
BY DEF Grows, SendInv, TypeInv, TypeOK, BrokerTypeOK, BrokerOrder, NoOrder

(* A fill that completes the order is the last one applied.                *)
LEMMA FillsComplete ==
  ASSUME NEW plan \in Plans
  PROVE  LET fills == FillsWhileOpen(plan.fills) IN
         \A i \in 1..Len(fills) : fills[i] >= Qty => fills[i] = TotalOf(fills)
<1>. DEFINE stop == {i \in 1..Len(plan.fills) : plan.fills[i] >= Qty}
            n == CHOOSE i \in stop : \A j \in stop : i <= j
            fills == FillsWhileOpen(plan.fills)
<1>1. plan.fills \in Seq(Nat \ {0})
  BY PlansAssumption DEF FaultPlan
<1>2. CASE stop = {}
  <2>1. fills = plan.fills
    BY <1>2 DEF FillsWhileOpen
  <2>. QED
    BY <1>2, <2>1
<1>3. CASE stop # {}
  <2>1. \E i \in stop : \A j \in stop : i <= j
    <3>1. stop \in SUBSET Nat
      BY <1>1
    <3>. HIDE DEF stop
    <3>. QED
      BY <1>3, <3>1, LeastNat
  <2>2. n \in stop /\ \A j \in stop : n <= j
    BY <2>1
  <2>3. fills = SubSeq(plan.fills, 1, n)
    BY <1>3 DEF FillsWhileOpen
  <2>4. n \in 1..Len(plan.fills)
    BY <2>2
  <2>. HIDE DEF n, fills
  <2>5. Len(fills) = n /\ \A i \in 1..n : fills[i] = plan.fills[i]
    BY <1>1, <2>3, <2>4
  <2>6. TotalOf(fills) = fills[n]
    BY <2>4, <2>5 DEF TotalOf
  <2>7. ASSUME NEW i \in 1..n, fills[i] >= Qty
        PROVE  i = n
    <3>1. i \in stop
      BY <1>1, <2>4, <2>5, <2>7
    <3>2. n <= i
      BY <2>2, <3>1
    <3>. QED
      BY <2>4, <3>2
  <2>. QED
    BY <2>5, <2>6, <2>7 DEF fills
<1>. QED
  BY <1>2, <1>3

(* Reversed or doubled, a batch delivers its own events and no other.      *)
LEMMA DeliveredElements ==
  ASSUME NEW s \in Seq(Event), NEW plan \in FaultPlan,
         NEW i \in 1..Len(Delivered(s, plan))
  PROVE  \E j \in 1..Len(s) : Delivered(s, plan)[i] = s[j]
<1>. DEFINE t == IF plan.outOfOrder THEN Reverse(s) ELSE s
<1>1. /\ Len(t) = Len(s)
      /\ \A k \in 1..Len(s) : \E j \in 1..Len(s) : t[k] = s[j]
  <2>1. CASE plan.outOfOrder
    <3>1. t = [k \in 1..Len(s) |-> s[Len(s) - k + 1]]
      BY <2>1 DEF Reverse
    <3>2. \A k \in 1..Len(s) : Len(s) - k + 1 \in 1..Len(s)
      OBVIOUS
    <3>. HIDE DEF t
    <3>. QED
      BY <3>1, <3>2
  <2>2. CASE ~plan.outOfOrder
    BY <2>2
  <2>. QED
    BY <2>1, <2>2
<1>. HIDE DEF t
<1>2. CASE plan.duplicate
  <2>1. Delivered(s, plan) = [k \in 1..2 * Len(t) |-> t[(k + 1) \div 2]]
    BY <1>2 DEF Delivered, Twice, t
  <2>2. i \in 1..2 * Len(t) /\ Delivered(s, plan)[i] = t[(i + 1) \div 2]
    BY <1>1, <2>1
  <2>3. (i + 1) \div 2 \in 1..Len(s)
    BY <1>1, <2>2
  <2>. QED
    BY <1>1, <2>2, <2>3
<1>3. CASE ~plan.duplicate
  <2>1. Delivered(s, plan) = t
    BY <1>3 DEF Delivered, t
  <2>. QED
    BY <1>1, <2>1
<1>. QED
  BY <1>2, <1>3

(* True bodies make a true queue, whatever the plan does to their order.   *)
LEMMA EmitTrue ==
  ASSUME NEW o \in Orders, NEW plan \in FaultPlan, NEW bodies \in Seq(BodyType),
         queue \in Seq(Event), lastId \in Nat, Emit(o, bodies, plan),
         \A i \in 1..Len(queue) : \A e \in Event :
           e = queue[i] => Says(e.order, e.kind, e.qty)',
         \A j \in 1..Len(bodies) : Says(o, bodies[j].kind, bodies[j].qty)'
  PROVE  EventsAreTrue'
<1>. DEFINE batch == Stamped(o, bodies)
            new == Delivered(batch, plan)
<1>1. batch \in Seq(Event) /\ new \in Seq(Event)
  BY StampedType, DeliveredType
<1>2. \A j \in 1..Len(batch) :
        /\ j \in 1..Len(bodies) /\ batch[j].order = o
        /\ batch[j].kind = bodies[j].kind /\ batch[j].qty = bodies[j].qty
  BY DEF Stamped
<1>3. \A i \in 1..Len(new) : \E j \in 1..Len(batch) : new[i] = batch[j]
  BY <1>1, DeliveredElements
<1>4. queue' = queue \o new
  BY DEF Emit
<1>. HIDE DEF batch, new
<1>5. ASSUME NEW i \in 1..Len(queue') 
      PROVE  Says(queue[i].order, queue[i].kind, queue[i].qty)'
  <2>1. CASE i \in 1..Len(queue)
    <3>1. queue'[i] = queue[i] /\ queue[i] \in Event
      BY <1>1, <1>4, <2>1
    <3>2. PICK e \in Event : e = queue[i] /\ e = queue'[i]
      BY <3>1
    <3>3. Says(e.order, e.kind, e.qty)'
      BY <2>1, <3>2
    <3>. QED
      BY <3>2, <3>3
  <2>2. CASE i \notin 1..Len(queue)
    <3>1. i - Len(queue) \in 1..Len(new) /\ queue'[i] = new[i - Len(queue)]
      BY <1>1, <1>4, <2>2
    <3>2. PICK j \in 1..Len(batch) : queue'[i] = batch[j]
      BY <1>3, <3>1
    <3>3. /\ j \in 1..Len(bodies) /\ queue'[i].order = o
          /\ queue'[i].kind = bodies[j].kind /\ queue'[i].qty = bodies[j].qty
      BY <1>2, <3>2
    <3>4. Says(o, bodies[j].kind, bodies[j].qty)'
      BY <3>3
    <3>. QED
      BY <3>3, <3>4
  <2>. QED
    BY <2>1, <2>2
<1>. QED
  BY <1>5 DEF EventsAreTrue

(* What the broker has refused or never received it will never accept.     *)
LEMMA NeverHeldStays ==
  ASSUME SendInv, SendInv', [Next]_vars, NEW o \in Orders, NeverHeld(o)
  PROVE  NeverHeld(o)'
<1>1. PhaseOf(o) = "past" /\ copies[o] = 0
  BY PhaseFacts DEF NeverHeld, SendInv, CopiesAgree
<1>2. [Contract!ContractNext]_<<AllPhases, copies>>
  BY ContractSteps
<1>3. AllPhases[o] = "past"
  BY <1>1 DEF AllPhases
<1>4. AllPhases'[o] = "past" /\ copies'[o] = copies[o]
  <2>1. CASE UNCHANGED <<AllPhases, copies>>
    BY <1>3, <2>1
  <2>2. ASSUME NEW p \in Orders, Contract!Record(p) \/ Contract!Send(p)
        PROVE  AllPhases'[o] = "past" /\ copies'[o] = copies[o]
    <3>1. p # o
      BY <1>3, <2>2 DEF Contract!Record, Contract!Send, AllPhases
    <3>2. /\ \/ AllPhases' = [AllPhases EXCEPT ![p] = "recorded"]
             \/ AllPhases' = [AllPhases EXCEPT ![p] = "past"]
          /\ UNCHANGED copies \/ \E n : copies' = [copies EXCEPT ![p] = n]
      BY <2>2 DEF Contract!Record, Contract!Send, AllPhases
    <3>3. AllPhases \in [Orders -> {"new", "recorded", "past"}]
      BY PhaseFacts DEF AllPhases
    <3>4. copies \in [Orders -> Nat]
      BY DEF SendInv, TypeInv, TypeOK, BrokerTypeOK
    <3>. QED
      BY <1>3, <3>1, <3>2, <3>3, <3>4
  <2>. QED
    BY <1>2, <2>1, <2>2 DEF Contract!ContractNext
<1>5. PhaseOf(o)' = "past"
  BY <1>4 DEF AllPhases
<1>6. Past(o)' /\ ~Sending(o)'
  BY <1>5 DEF PhaseOf, Past, Recorded
<1>7. held'[o] = NoOrder
  BY <1>1, <1>4 DEF SendInv, CopiesAgree
<1>. QED
  BY <1>6, <1>7 DEF NeverHeld

(* What was true of an order stays true when the broker's totals grow.     *)
LEMMA TruthLasts ==
  ASSUME SendInv, SendInv', [Next]_vars,
         \A o \in Orders : Grows(held[o], held'[o])
  PROVE  /\ \A o \in Orders, kind \in EventKind, qty \in Nat :
              Says(o, kind, qty) => Says(o, kind, qty)'
         /\ \A k \in Call : AnswerIsTrue(k) => AnswerIsTrue(k)'
<1>1. \A o \in Orders : /\ held[o].filled \in Nat /\ held'[o].filled \in Nat
                        /\ held[o].prot \in Nat /\ held'[o].prot \in Nat
  BY DEF SendInv, TypeInv, TypeOK, BrokerTypeOK, BrokerOrder, NoOrder
<1>2. ASSUME NEW o \in Orders, NEW kind \in EventKind, NEW qty \in Nat,
             Says(o, kind, qty)
      PROVE  Says(o, kind, qty)'
  <2>1. kind = "reject" => NeverHeld(o)'
    BY <1>2, NeverHeldStays DEF Says
  <2>. QED
    BY <1>1, <1>2, <2>1 DEF Says, Grows
<1>3. ASSUME NEW k \in Call, AnswerIsTrue(k)
      PROVE  AnswerIsTrue(k)'
  <2>1. k.order \in Orders /\ k.truth.filled \in Nat /\ k.truth.prot \in Nat
    BY DEF Call, BrokerOrder, NoOrder
  <2>2. NeverHeld(k.order) => NeverHeld(k.order)'
    BY <2>1, NeverHeldStays
  <2>3. Grows(held[k.order], held'[k.order])
    BY <2>1
  <2>. QED
    BY <1>1, <1>3, <2>1, <2>2, <2>3 DEF AnswerIsTrue, Grows
<1>. QED
  BY <1>2, <1>3

(* What a call to submit makes the broker hold.                            *)
LEMMA SubmitHolds ==
  ASSUME TruthInv, NEW o \in Orders, NEW plan \in Plans, held[o] = NoOrder,
         BrokerSubmit(o, plan)
  PROVE  /\ \A p \in Orders : Grows(held[p], held'[p])
         /\ \A p \in Orders \ {o} : held'[p] = held[p]
         /\ HeldIsSound'
<1>. DEFINE total == TotalOf(FillsWhileOpen(plan.fills))
            cover == CoverOf(total, plan.protection)
            accepted == [state |-> StateOfTotal(total), filled |-> total,
                         prot |-> cover]
<1>1. held \in [Orders -> BrokerOrder \cup {NoOrder}]
  BY DEF TruthInv, SendInv, TypeInv, TypeOK, BrokerTypeOK
<1>2. total \in Nat
  BY FillsType
<1>3. cover \in Nat
  BY QtyAssumption DEF CoverOf
<1>4. UNCHANGED held \/ held' = [held EXCEPT ![o] = accepted]
  BY <1>1 DEF BrokerSubmit, Accept, brokerVars
<1>. HIDE DEF total, cover
<1>5. /\ accepted.state \in Open => accepted.filled <= Qty
      /\ accepted.state = "FILLED" => accepted.filled > 0
  BY <1>2, QtyAssumption DEF StateOfTotal, Open
<1>6. Grows(NoOrder, accepted)
  BY <1>2, <1>3 DEF Grows, NoOrder
<1>. HIDE DEF accepted
<1>7. \A p \in Orders : Grows(held[p], held[p])
  BY <1>1 DEF Grows, BrokerOrder, NoOrder
<1>8. /\ \A p \in Orders \ {o} : held'[p] = held[p]
      /\ held'[o] = held[o] \/ held'[o] = accepted
  <2>1. CASE UNCHANGED held
    BY <2>1
  <2>2. CASE held' = [held EXCEPT ![o] = accepted]
    BY <1>1, <2>2
  <2>. QED
    BY <1>4, <2>1, <2>2
<1>. QED
  BY <1>5, <1>6, <1>7, <1>8 DEF TruthInv, HeldIsSound

LEMMA SubmitTells ==
  ASSUME TruthInv, TypeOK', NEW o \in Orders, NEW plan \in Plans,
         held[o] = NoOrder, BrokerSubmit(o, plan),
         \A i \in 1..Len(queue) : \A e \in Event :
           e = queue[i] => Says(e.order, e.kind, e.qty)',
         plan.onSubmit = "reject" => NeverHeld(o)'
  PROVE  EventsAreTrue'
<1>. DEFINE fills == FillsWhileOpen(plan.fills)
            total == TotalOf(fills)
            cover == CoverOf(total, plan.protection)
            fillBodies == [i \in 1..Len(fills) |-> FillBody(fills[i])]
            protBodies == ProtectionBodies(total, plan.protection)
            bodies == <<Body("ack", 0)>> \o fillBodies \o protBodies
<1>1. plan \in FaultPlan /\ queue \in Seq(Event) /\ lastId \in Nat
      /\ held \in [Orders -> BrokerOrder \cup {NoOrder}]
  BY PlansAssumption DEF TruthInv, SendInv, TypeInv, TypeOK, BrokerTypeOK
<1>2. CASE Accept(o, plan)
  <2>1. /\ fills \in Seq(Nat \ {0}) /\ total \in Nat
        /\ \A i \in 1..Len(fills) : fills[i] <= total
    BY FillsType
  <2>2. \A i \in 1..Len(fills) : fills[i] >= Qty => fills[i] = total
    BY FillsComplete
  <2>3. held'[o] = [state |-> StateOfTotal(total), filled |-> total, prot |-> cover]
        /\ Emit(o, bodies, plan)
    BY <1>1, <1>2 DEF Accept
  <2>. HIDE DEF fills, total
  <2>4. cover \in Nat
    BY QtyAssumption DEF CoverOf
  <2>5. fillBodies \in Seq(BodyType)
    <3>1. \A t \in Nat : FillBody(t) \in BodyType
      BY DEF BodyType, FillBody, Body, EventKind
    <3>. QED
      BY <2>1, <3>1
  <2>6. \A i \in 1..Len(fillBodies) :
          Says(o, fillBodies[i].kind, fillBodies[i].qty)'
    <3>. SUFFICES ASSUME NEW i \in 1..Len(fills)
                  PROVE  Says(o, fillBodies[i].kind, fillBodies[i].qty)'
      OBVIOUS
    <3>1. fillBodies[i].qty = fills[i]
          /\ fillBodies[i].kind = IF fills[i] >= Qty THEN "fill" ELSE "partial_fill"
      BY DEF FillBody, Body
    <3>2. fills[i] >= Qty => StateOfTotal(total) = "FILLED"
      BY <2>1, <2>2, QtyAssumption DEF StateOfTotal
    <3>. QED
      BY <2>1, <2>2, <2>3, <3>1, <3>2 DEF Says
  <2>. HIDE DEF fillBodies
  <2>7. /\ protBodies \in Seq(BodyType)
        /\ \A i \in 1..Len(protBodies) :
             Says(o, protBodies[i].kind, protBodies[i].qty)'
    <3>1. protBodies \in {<<>>, <<Body("protection_reject", 0)>>,
                          <<Body("protection_ack", cover)>>}
      BY DEF ProtectionBodies
    <3>. HIDE DEF protBodies, cover
    <3>2. /\ <<>> \in Seq(BodyType)
          /\ <<Body("protection_reject", 0)>> \in Seq(BodyType)
          /\ <<Body("protection_ack", cover)>> \in Seq(BodyType)
      BY <2>4 DEF BodyType, Body, EventKind
    <3>3. Says(o, "protection_reject", 0)' /\ Says(o, "protection_ack", cover)'
      BY <2>3, <2>4 DEF Says
    <3>4. \A i \in 1..Len(protBodies) :
            protBodies[i] \in {Body("protection_reject", 0), Body("protection_ack", cover)}
      BY <3>1
    <3>5. ASSUME NEW i \in 1..Len(protBodies)
          PROVE  Says(o, protBodies[i].kind, protBodies[i].qty)'
      <4>1. CASE protBodies[i] = Body("protection_reject", 0)
        BY <3>3, <4>1 DEF Body
      <4>2. CASE protBodies[i] = Body("protection_ack", cover)
        BY <3>3, <4>2 DEF Body
      <4>. QED
        BY <3>4, <4>1, <4>2
    <3>. QED
      BY <3>1, <3>2, <3>5
  <2>. HIDE DEF protBodies, cover
  <2>8. <<Body("ack", 0)>> \in Seq(BodyType) /\ Says(o, "ack", 0)'
    BY DEF BodyType, Body, EventKind, Says
  <2>9. bodies \in Seq(BodyType)
    <3>. HIDE DEF BodyType
    <3>. QED
      BY <2>5, <2>7, <2>8
  <2>10. \A i \in 1..Len(bodies) :
           \/ bodies[i] = Body("ack", 0)
           \/ \E j \in 1..Len(fillBodies) : bodies[i] = fillBodies[j]
           \/ \E j \in 1..Len(protBodies) : bodies[i] = protBodies[j]
    <3>. SUFFICES ASSUME NEW i \in 1..Len(bodies)
                  PROVE  \/ bodies[i] = Body("ack", 0)
                         \/ \E j \in 1..Len(fillBodies) : bodies[i] = fillBodies[j]
                         \/ \E j \in 1..Len(protBodies) : bodies[i] = protBodies[j]
      OBVIOUS
    <3>. DEFINE n == Len(fillBodies)
    <3>0. n \in Nat /\ Len(bodies) = 1 + n + Len(protBodies)
      BY <2>5, <2>7, <2>8
    <3>1. CASE i = 1
      BY <2>5, <2>7, <2>8, <3>1
    <3>2. CASE i \in 2..n + 1
      <4>1. bodies[i] = fillBodies[i - 1]
        BY <2>5, <2>7, <2>8, <3>2
      <4>2. i - 1 \in 1..n
        BY <3>0, <3>2
      <4>. QED
        BY <4>1, <4>2
    <3>3. CASE i > n + 1
      <4>1. bodies[i] = protBodies[i - n - 1]
        BY <2>5, <2>7, <2>8, <3>0, <3>3
      <4>2. i - n - 1 \in 1..Len(protBodies)
        BY <3>0, <3>3
      <4>. QED
        BY <4>1, <4>2
    <3>. QED
      BY <3>0, <3>1, <3>2, <3>3
  <2>. HIDE DEF bodies
  <2>11. \A i \in 1..Len(bodies) : Says(o, bodies[i].kind, bodies[i].qty)'
    BY <2>6, <2>7, <2>8, <2>10 DEF Body
  <2>. QED
    BY <1>1, <2>3, <2>9, <2>11, EmitTrue
<1>3. CASE plan.onSubmit = "reject" /\ Emit(o, <<Body("reject", 0)>>, plan)
  <2>. DEFINE one == <<Body("reject", 0)>>
  <2>1. one \in Seq(BodyType) /\ Len(one) = 1 /\ one[1] = Body("reject", 0)
    BY DEF BodyType, Body, EventKind
  <2>2. Says(o, "reject", 0)'
    BY <1>3 DEF Says
  <2>. HIDE DEF one
  <2>3. \A j \in 1..Len(one) : Says(o, one[j].kind, one[j].qty)'
    BY <2>1, <2>2 DEF Body
  <2>. QED
    BY <1>1, <1>3, <2>1, <2>3, EmitTrue DEF one
<1>4. CASE UNCHANGED queue
  <2>1. \A i \in 1..Len(queue) : queue[i] \in Event
    BY <1>1
  <2>. QED
    BY <1>4, <2>1 DEF EventsAreTrue
<1>. QED
  BY <1>2, <1>3, <1>4 DEF BrokerSubmit, brokerVars

(* What a call to cancel makes the broker hold, and what it tells of it.   *)
LEMMA CancelHolds ==
  ASSUME TruthInv, NEW o \in Orders, NEW plan \in Plans, BrokerCancel(o, plan)
  PROVE  /\ \A p \in Orders : Grows(held[p], held'[p])
         /\ \A p \in Orders : held[p] = NoOrder => held'[p] = NoOrder
         /\ HeldIsSound'
<1>. DEFINE canceled == [held[o] EXCEPT !.state = "CANCELED"]
            filled == [held[o] EXCEPT !.state = "FILLED", !.filled = Qty]
<1>1. held \in [Orders -> BrokerOrder \cup {NoOrder}]
  BY DEF TruthInv, SendInv, TypeInv, TypeOK, BrokerTypeOK
<1>2. \/ UNCHANGED held
      \/ held[o].state \in Open /\ held' = [held EXCEPT ![o] = canceled]
      \/ held[o].state \in Open /\ held' = [held EXCEPT ![o] = filled]
  BY <1>1 DEF BrokerCancel, brokerVars
<1>3. \A p \in Orders : Grows(held[p], held[p])
  BY <1>1 DEF Grows, BrokerOrder, NoOrder
<1>4. CASE UNCHANGED held
  BY <1>3, <1>4 DEF TruthInv, HeldIsSound
<1>5. CASE held[o].state \in Open /\ held' = [held EXCEPT ![o] = canceled]
  <2>1. held[o] \in BrokerOrder /\ held[o] # NoOrder
    BY <1>1, <1>5 DEF Open, NoOrder
  <2>2. Grows(held[o], canceled) /\ canceled.state \notin Open \cup {"FILLED"}
    BY <1>5, <2>1 DEF Grows, BrokerOrder, Open
  <2>3. held'[o] = canceled /\ \A p \in Orders \ {o} : held'[p] = held[p]
    BY <1>1, <1>5
  <2>. HIDE DEF canceled
  <2>. QED
    BY <1>3, <2>1, <2>2, <2>3 DEF TruthInv, HeldIsSound
<1>6. CASE held[o].state \in Open /\ held' = [held EXCEPT ![o] = filled]
  <2>1. held[o] \in BrokerOrder /\ held[o] # NoOrder /\ held[o].filled <= Qty
    BY <1>1, <1>6 DEF Open, NoOrder, TruthInv, HeldIsSound
  <2>2. /\ Grows(held[o], filled)
        /\ filled.state \notin Open /\ filled.filled > 0
    BY <1>6, <2>1, QtyAssumption DEF Grows, BrokerOrder, Open
  <2>3. held'[o] = filled /\ \A p \in Orders \ {o} : held'[p] = held[p]
    BY <1>1, <1>6
  <2>. HIDE DEF filled
  <2>. QED
    BY <1>3, <2>1, <2>2, <2>3 DEF TruthInv, HeldIsSound
<1>. QED
  BY <1>2, <1>4, <1>5, <1>6

LEMMA CancelTells ==
  ASSUME TruthInv, NEW o \in Orders, NEW plan \in Plans, BrokerCancel(o, plan),
         \A i \in 1..Len(queue) : \A e \in Event :
           e = queue[i] => Says(e.order, e.kind, e.qty)'
  PROVE  EventsAreTrue'
<1>1. plan \in FaultPlan /\ queue \in Seq(Event) /\ lastId \in Nat
      /\ held \in [Orders -> BrokerOrder \cup {NoOrder}]
  BY PlansAssumption DEF TruthInv, SendInv, TypeInv, TypeOK, BrokerTypeOK
<1>2. ASSUME NEW kind \in {"cancel_ack", "fill"}, NEW qty \in {0, Qty},
             Emit(o, <<Body(kind, qty)>>, plan), Says(o, kind, qty)'
      PROVE  EventsAreTrue'
  <2>. DEFINE one == <<Body(kind, qty)>>
  <2>1. one \in Seq(BodyType) /\ Len(one) = 1 /\ one[1] = Body(kind, qty)
    BY QtyAssumption DEF BodyType, Body, EventKind
  <2>. HIDE DEF one
  <2>2. \A j \in 1..Len(one) : Says(o, one[j].kind, one[j].qty)'
    BY <1>2, <2>1 DEF Body
  <2>. QED
    BY <1>1, <1>2, <2>1, <2>2, EmitTrue DEF one
<1>3. CASE Emit(o, <<Body("cancel_ack", 0)>>, plan)
  <2>1. Says(o, "cancel_ack", 0)'
    BY DEF Says
  <2>. QED
    BY <1>2, <1>3, <2>1
<1>4. CASE /\ held[o].state \in Open
           /\ held' = [held EXCEPT ![o] = [@ EXCEPT !.state = "FILLED", !.filled = Qty]]
           /\ Emit(o, <<Body("fill", Qty)>>, plan)
  <2>1. held[o] \in BrokerOrder
    BY <1>1, <1>4 DEF Open, NoOrder
  <2>2. held'[o].state = "FILLED" /\ held'[o].filled = Qty
    BY <1>1, <1>4, <2>1 DEF BrokerOrder
  <2>3. Says(o, "fill", Qty)'
    BY <2>2 DEF Says
  <2>. QED
    BY <1>2, <1>4, <2>3
<1>5. CASE UNCHANGED queue
  <2>1. \A i \in 1..Len(queue) : queue[i] \in Event
    BY <1>1
  <2>. QED
    BY <1>5, <2>1 DEF EventsAreTrue
<1>. QED
  BY <1>3, <1>4, <1>5 DEF BrokerCancel, brokerVars

(* A step of one call keeps what the other calls await true.               *)
LEMMA CallsTrue ==
  ASSUME TruthInv, SendInv', [Next]_vars,
         \A o \in Orders : Grows(held[o], held'[o]),
         NEW c \in Callers, NEW k \in Call \cup {Idle},
         call' = [call EXCEPT ![c] = k],
         k.pc # "idle" => AnswerIsTrue(k)'
  PROVE  AnswersAreTrue'
<1>1. call \in [Callers -> Call \cup {Idle}]
  BY DEF TruthInv, SendInv, TypeInv, TypeOK
<1>. SUFFICES ASSUME NEW d \in Callers, call'[d].pc # "idle"
              PROVE  AnswerIsTrue(call[d])'
  BY DEF AnswersAreTrue
<1>2. CASE d = c
  <2>1. call'[d] = k
    BY <1>1, <1>2
  <2>. QED
    BY <2>1
<1>3. CASE d # c
  <2>1. call'[d] = call[d] /\ call[d] \in Call
    BY <1>1, <1>3 DEF Idle
  <2>2. AnswerIsTrue(call[d])
    BY <2>1 DEF TruthInv, AnswersAreTrue
  <2>3. PICK j \in Call : j = call[d] /\ j = call'[d]
    BY <2>1
  <2>4. AnswerIsTrue(j)'
    BY <2>2, <2>3, TruthLasts DEF TruthInv
  <2>. QED
    BY <2>3, <2>4
<1>. QED
  BY <1>2, <1>3

(* Who holds the thread elsewhere is not about to request protection, and
   nobody else is.                                                         *)
LEMMA RequestsRest ==
  ASSUME TruthInv, TypeInv', NEW c \in Callers, NEW k \in Call \cup {Idle},
         call' = [call EXCEPT ![c] = k], k.pc # "request_protection",
         running = Nobody \/ running = c
  PROVE  RequestHolds'
<1>1. call \in [Callers -> Call \cup {Idle}]
  BY DEF TruthInv, SendInv, TypeInv, TypeOK
<1>2. \A d \in Callers \ {c} : call'[d] = call[d] /\ call[d].pc # "request_protection"
  BY <1>1, NobodyAssumption DEF TruthInv, RequestHolds
<1>3. call'[c] = k
  BY <1>1
<1>. QED
  BY <1>2, <1>3 DEF RequestHolds

-----------------------------------------------------------------------------
(* The rows.                                                               *)

LEMMA RowStays ==
  ASSUME TruthInv, TypeInv', UNCHANGED row,
         \A o \in Orders : Grows(held[o], held'[o]),
         \A o \in Orders : row[o].state = "REJECTED" => held'[o] = held[o]
  PROVE  RowsAgree'
<1>. SUFFICES ASSUME NEW o \in Orders, Recorded(o)'
              PROVE  Agrees(row[o], held[o])'
  BY DEF RowsAgree
<1>1. row'[o] = row[o] /\ row[o] \in Row /\ Agrees(row[o], held[o])
  BY DEF TruthInv, SendInv, TypeInv, TypeOK, StoreTypeOK, Recorded, RowsAgree
<1>2. held[o] \in BrokerOrder \cup {NoOrder} /\ held'[o] \in BrokerOrder \cup {NoOrder}
  BY DEF TruthInv, SendInv, TypeInv, TypeOK, BrokerTypeOK
<1>3. Grows(held[o], held'[o]) /\ (row[o].state = "REJECTED" => held'[o] = held[o])
  OBVIOUS
<1>4. held[o].state = "FILLED" => held'[o] = held[o]
  BY <1>3 DEF Grows
<1>. QED
  BY <1>1, <1>2, <1>3, <1>4 DEF Agrees, Grows, Row, BrokerOrder, NoOrder, Filled

(* One row changes, to what agrees with the broker.                        *)
LEMMA RowChanges ==
  ASSUME TruthInv, TypeInv', UNCHANGED held, NEW o \in Orders, NEW r \in Row,
         row' = [row EXCEPT ![o] = r], Agrees(r, held[o])
  PROVE  RowsAgree'
<1>. SUFFICES ASSUME NEW p \in Orders, Recorded(p)'
              PROVE  Agrees(row[p], held[p])'
  BY DEF RowsAgree
<1>1. row \in [Orders -> Row \cup {NoRow}]
  BY DEF TruthInv, SendInv, TypeInv, TypeOK, StoreTypeOK
<1>2. held'[p] = held[p]
  OBVIOUS
<1>3. CASE p = o
  <2>1. row'[p] = r
    BY <1>1, <1>3
  <2>. QED
    BY <1>2, <1>3, <2>1 DEF Agrees
<1>4. CASE p # o
  <2>1. row'[p] = row[p]
    BY <1>1, <1>4
  <2>2. Agrees(row[p], held[p])
    BY <2>1 DEF TruthInv, RowsAgree, Recorded
  <2>. QED
    BY <1>2, <2>1, <2>2 DEF Agrees
<1>. QED
  BY <1>3, <1>4

(* The states a move may reach without a word of the broker.               *)
Plain == OrderState \ (Filled \cup {"REJECTED"})

LEMMA MoveTrue ==
  ASSUME TruthInv, TypeInv', UNCHANGED held, NEW o \in Orders, Recorded(o),
         NEW to \in OrderState, Move(o, to),
         \/ to \in Plain
         \/ to = "PROTECTION_PENDING" /\ row[o].state = "FILLED"
         \/ to = "REJECTED" /\ held[o] = NoOrder
  PROVE  RowsAgree'
<1>. DEFINE r == [row[o] EXCEPT !.state = to]
<1>1. row[o] \in Row /\ Agrees(row[o], held[o])
  BY DEF TruthInv, SendInv, TypeInv, TypeOK, StoreTypeOK, Recorded, RowsAgree
<1>2. r \in Row /\ row' = [row EXCEPT ![o] = r]
  BY <1>1 DEF Row, Move
<1>3. Agrees(r, held[o])
  BY <1>1 DEF Agrees, Row, Plain, Filled
<1>. HIDE DEF r
<1>. QED
  BY <1>2, <1>3, RowChanges

LEMMA TryTrue ==
  ASSUME TruthInv, TypeInv', UNCHANGED held, NEW o \in Orders, NEW to, NEW rec,
         TryMove(o, to, rec),
         to \in Plain \/ (to = "REJECTED" /\ held[o] = NoOrder)
  PROVE  RowsAgree'
<1>1. \A p \in Orders : Grows(held[p], held'[p])
  BY SameGrows DEF TruthInv
<1>2. CASE UNCHANGED row
  BY <1>1, <1>2, RowStays
<1>3. CASE MayMove(o, to, rec) /\ Move(o, to)
  <2>1. Recorded(o) /\ to \in OrderState
    BY <1>3 DEF MayMove, Plain, OrderState
  <2>. QED
    BY <1>3, <2>1, MoveTrue
<1>. QED
  BY <1>2, <1>3 DEF TryMove, NotAllowed

(* What a true event makes of a row that agrees.                           *)
LEMMA AppliedAgrees ==
  ASSUME NEW r \in Row, NEW h \in BrokerOrder \cup {NoOrder}, NEW e \in Event,
         Agrees(r, h), ~IsNoop(r, e), IsLegal(r.state, Target[e.kind]),
         e.kind = "partial_fill" => e.qty <= h.filled,
         e.kind = "fill" => h.state = "FILLED" /\ e.qty = h.filled,
         e.kind = "protection_ack" => e.qty <= h.prot,
         e.kind = "reject" => h = NoOrder
  PROVE  Applied(r, e) \in Row /\ Agrees(Applied(r, e), h)
<1>. DEFINE s == Applied(r, e)
<1>1. /\ e.qty \in Nat /\ e.kind \in EventKind
      /\ r.filled \in Nat /\ r.prot \in Nat /\ r.state \in OrderState /\ r.kind \in Kind
      /\ h.filled \in Nat /\ h.prot \in Nat
  BY DEF Event, Row, BrokerOrder, NoOrder
<1>2. /\ s.state = StateAfter(r, e)
      /\ s.filled = FilledAfter(r, e)
      /\ s.prot = ProtAfter(r, e)
  BY DEF Applied, Row
<1>3. s \in Row
  <2>1. FilledAfter(r, e) \in Nat /\ ProtAfter(r, e) \in Nat
    BY <1>1 DEF FilledAfter, ProtAfter
  <2>2. StateAfter(r, e) \in OrderState
    BY <1>1 DEF StateAfter, Target, EventKind, OrderState
  <2>. QED
    BY <2>1, <2>2 DEF Applied, Row
<1>. SUFFICES Agrees(s, h)
  BY <1>3
<1>. HIDE DEF s
<1>4. s.filled <= h.filled
  BY <1>1, <1>2 DEF Agrees, FilledAfter, IsFill
<1>5. s.prot <= h.prot
  BY <1>1, <1>2 DEF Agrees, ProtAfter
<1>6. CASE e.kind = "fill"
  <2>1. s.state \in {"FILLED", "PROTECTION_PENDING"} /\ s.filled = e.qty
    BY <1>2, <1>6 DEF StateAfter, Target, FilledAfter, IsFill
  <2>. QED
    BY <1>4, <1>5, <1>6, <2>1 DEF Agrees
<1>7. CASE e.kind = "protection_ack"
  <2>1. s.state = "PROTECTED" /\ s.filled = r.filled /\ s.prot = e.qty
    BY <1>2, <1>7 DEF StateAfter, Target, FilledAfter, ProtAfter, IsFill
  <2>2. r.state = "PROTECTION_PENDING"
    BY <1>1, <1>7 DEF IsLegal, Successors, Target, OrderState
  <2>3. h.state = "FILLED" /\ r.filled = h.filled
    BY <2>2 DEF Agrees, Filled
  <2>4. e.qty >= r.filled
    BY <1>7, <2>2 DEF IsNoop, Covers
  <2>. QED
    BY <1>1, <1>4, <1>5, <1>7, <2>1, <2>3, <2>4 DEF Agrees
<1>8. CASE e.kind = "reject"
  <2>1. s.state = "REJECTED"
    BY <1>2, <1>8 DEF StateAfter, Target
  <2>. QED
    BY <1>4, <1>5, <1>8, <2>1 DEF Agrees, Filled
<1>9. CASE e.kind \notin {"fill", "protection_ack", "reject"}
  <2>1. s.state \notin Filled \cup {"REJECTED"}
    BY <1>1, <1>2, <1>9 DEF StateAfter, Target, EventKind, Filled
  <2>. QED
    BY <1>4, <1>5, <2>1 DEF Agrees, Filled
<1>. QED
  BY <1>6, <1>7, <1>8, <1>9

(* A true event, in whatever order it comes, leaves the row agreeing.      *)
LEMMA ApplyTrue ==
  ASSUME TruthInv, TypeInv', UNCHANGED held, NEW e \in Event,
         Says(e.order, e.kind, e.qty), ApplyBrokerEvent(e)
  PROVE  RowsAgree'
<1>1. \A p \in Orders : Grows(held[p], held'[p])
  BY SameGrows DEF TruthInv
<1>2. CASE UNCHANGED row
  BY <1>1, <1>2, RowStays
<1>3. PICK o \in Orders : o = e.order
  BY DEF Event
<1>4. PICK h \in BrokerOrder \cup {NoOrder} : h = held[o]
  BY DEF TruthInv, SendInv, TypeInv, TypeOK, BrokerTypeOK
<1>5. /\ e.kind = "partial_fill" => e.qty <= h.filled
      /\ e.kind = "fill" => h.state = "FILLED" /\ e.qty = h.filled
      /\ e.kind = "protection_ack" => e.qty <= h.prot
      /\ e.kind = "reject" => h = NoOrder
  BY <1>3, <1>4 DEF Says, NeverHeld
<1>6. ASSUME Recorded(o)
      PROVE  row[o] \in Row /\ Agrees(row[o], h)
  BY <1>4, <1>6 DEF TruthInv, SendInv, TypeInv, TypeOK, StoreTypeOK, Recorded, RowsAgree
<1>7. CASE Recorded(o) /\ row' = [row EXCEPT ![o] = Noted(row[o], e)]
  <2>1. PICK r \in Row : r = row[o] /\ Agrees(r, h)
    BY <1>6, <1>7
  <2>2. Noted(r, e) \in Row /\ Agrees(Noted(r, e), h)
    BY <1>5, <2>1 DEF Noted, ProtAfter, Agrees, Row, Event
  <2>. QED
    BY <1>4, <1>7, <2>1, <2>2, RowChanges
<1>8. CASE /\ Recorded(o) /\ ~IsNoop(row[o], e) /\ IsLegal(row[o].state, Target[e.kind])
           /\ row' = [row EXCEPT ![o] = Applied(row[o], e)]
  <2>1. PICK r \in Row : r = row[o] /\ Agrees(r, h)
    BY <1>6, <1>8
  <2>2. Applied(r, e) \in Row /\ Agrees(Applied(r, e), h)
    BY <1>5, <1>8, <2>1, AppliedAgrees
  <2>. QED
    BY <1>4, <1>8, <2>1, <2>2, RowChanges
<1>. QED
  BY <1>2, <1>3, <1>7, <1>8 DEF ApplyBrokerEvent, storeVars

-----------------------------------------------------------------------------
(* Steps that leave the broker as it is.                                   *)

(* Queued events stay true, whichever of them are left.                    *)
LEMMA QuietBroker ==
  ASSUME TruthInv, SendInv', [Next]_vars, UNCHANGED held,
         \A i \in 1..Len(queue') : \E j \in 1..Len(queue) : queue'[i] = queue[j]
  PROVE  /\ \A o \in Orders : Grows(held[o], held'[o])
         /\ HeldIsSound'
         /\ EventsAreTrue'
<1>1. \A o \in Orders : Grows(held[o], held'[o])
  BY SameGrows DEF TruthInv
<1>2. HeldIsSound'
  BY DEF TruthInv, HeldIsSound
<1>3. ASSUME NEW i \in 1..Len(queue')
      PROVE  Says(queue[i].order, queue[i].kind, queue[i].qty)'
  <2>1. PICK j \in 1..Len(queue) : queue'[i] = queue[j]
    BY <1>3
  <2>2. PICK e \in Event : e = queue[j] /\ e = queue'[i]
    BY <2>1 DEF TruthInv, SendInv, TypeInv, TypeOK
  <2>3. Says(e.order, e.kind, e.qty)
    BY <2>2 DEF TruthInv, EventsAreTrue
  <2>4. Says(e.order, e.kind, e.qty)'
    BY <1>1, <2>3, TruthLasts DEF Event, TruthInv
  <2>. QED
    BY <2>2, <2>4
<1>. QED
  BY <1>1, <1>2, <1>3 DEF EventsAreTrue

(* A step of a call that is not about to request protection.               *)
LEMMA QuietCall ==
  ASSUME TruthInv, SendInv', [Next]_vars, UNCHANGED brokerVars,
         NEW c \in Callers, NEW k \in Call \cup {Idle},
         call' = [call EXCEPT ![c] = k], k.pc # "request_protection",
         running = Nobody \/ running = c,
         k.pc # "idle" => AnswerIsTrue(k),
         RowsAgree'
  PROVE  TruthInv'
<1>1. /\ \A o \in Orders : Grows(held[o], held'[o])
      /\ HeldIsSound' /\ EventsAreTrue'
  BY QuietBroker DEF brokerVars
<1>2. k.pc # "idle" => AnswerIsTrue(k)'
  BY <1>1, TruthLasts DEF TruthInv, Idle
<1>3. AnswersAreTrue'
  BY <1>1, <1>2, CallsTrue
<1>4. RequestHolds'
  BY RequestsRest DEF SendInv
<1>. QED
  BY <1>1, <1>3, <1>4 DEF TruthInv

(* The end of a call.                                                      *)
LEMMA QuietEnd ==
  ASSUME TruthInv, SendInv', [Next]_vars, UNCHANGED brokerVars,
         NEW c \in Callers, End(c), running = Nobody \/ running = c, RowsAgree'
  PROVE  TruthInv'
<1>1. PICK k \in Call \cup {Idle} : k = Idle
  OBVIOUS
<1>2. k.pc = "idle" /\ call' = [call EXCEPT ![c] = k]
  BY <1>1 DEF End, Idle
<1>3. k.pc # "request_protection"
  BY <1>2
<1>. QED
  BY <1>2, <1>3, QuietCall

(* A step of no call, while no call holds the thread.                      *)
LEMMA QuietElse ==
  ASSUME TruthInv, SendInv', [Next]_vars, UNCHANGED <<held, gatewayVars>>,
         \A i \in 1..Len(queue') : \E j \in 1..Len(queue) : queue'[i] = queue[j],
         running = Nobody, RowsAgree'
  PROVE  TruthInv'
<1>1. /\ \A o \in Orders : Grows(held[o], held'[o])
      /\ HeldIsSound' /\ EventsAreTrue'
  BY QuietBroker
<1>2. ASSUME NEW c \in Callers, call'[c].pc # "idle"
      PROVE  AnswerIsTrue(call[c])'
  <2>1. PICK k \in Call : k = call[c] /\ k = call'[c]
    BY <1>2 DEF gatewayVars, TruthInv, SendInv, TypeInv, TypeOK, Idle
  <2>2. AnswerIsTrue(k)
    BY <1>2, <2>1 DEF TruthInv, AnswersAreTrue
  <2>3. AnswerIsTrue(k)'
    BY <1>1, <2>2, TruthLasts DEF TruthInv
  <2>. QED
    BY <2>1, <2>3
<1>3. RequestHolds'
  BY NobodyAssumption DEF TruthInv, RequestHolds, gatewayVars
<1>. QED
  BY <1>1, <1>2, <1>3 DEF TruthInv, AnswersAreTrue

(* The invariant is inductive: events, awaited answers and rows say only
   what the broker's totals, which never shrink, keep true.               *)
THEOREM TruthInit == Init => TruthInv
<1>. SUFFICES ASSUME Init PROVE TruthInv
  OBVIOUS
<1>1. EventsAreTrue /\ HeldIsSound
  BY DEF Init, BrokerInit, EventsAreTrue, HeldIsSound, NoOrder, Open
<1>2. AnswersAreTrue /\ RequestHolds
  BY DEF Init, AnswersAreTrue, RequestHolds, Idle
<1>3. RowsAgree
  BY DEF Init, StoreInit, RowsAgree, Recorded
<1>. QED
  BY <1>1, <1>2, <1>3, SendInit DEF TruthInv

(* Every action keeps rows, events and awaited answers true of the broker. *)
THEOREM TruthNext == TruthInv /\ [Next]_vars => TruthInv'
<1>. SUFFICES ASSUME TruthInv, [Next]_vars PROVE TruthInv'
  OBVIOUS
<1>1. SendInv /\ SendInv' /\ TypeInv'
  BY SendNext DEF TruthInv, SendInv
<1>2. /\ row \in [Orders -> Row \cup {NoRow}] /\ queue \in Seq(Event)
      /\ held \in [Orders -> BrokerOrder \cup {NoOrder}]
      /\ call \in [Callers -> Call \cup {Idle}]
  BY <1>1 DEF SendInv, TypeInv, TypeOK, StoreTypeOK, BrokerTypeOK
<1>3. \A c \in Callers : call[c].pc # "idle" =>
        /\ call[c] \in Call /\ call[c].order \in Orders /\ Recorded(call[c].order)
        /\ AnswerIsTrue(call[c])
  BY <1>1, CallType DEF SendInv, TypeInv, CallsRecorded, TruthInv, AnswersAreTrue
<1>4. UNCHANGED brokerVars =>
        /\ UNCHANGED held
        /\ \A i \in 1..Len(queue') : \E j \in 1..Len(queue) : queue'[i] = queue[j]
  BY DEF brokerVars
<1>5. UNCHANGED held /\ UNCHANGED row => RowsAgree'
  BY DEF TruthInv, RowsAgree, Recorded, Agrees
<1>6. NoOrder \in BrokerOrder \cup {NoOrder}
      /\ NoOrder.filled = 0 /\ NoOrder.prot = 0 /\ NoOrder.state # "FILLED"
  BY DEF NoOrder
<1>7. \A o \in Orders : held[o].filled \in Nat /\ held[o].prot \in Nat
  BY <1>2 DEF BrokerOrder, NoOrder
<1>8. ASSUME NEW pc \in Pc, NEW o \in Orders, NEW answer \in Answer,
             NEW truth \in BrokerOrder \cup {NoOrder}
      PROVE  [pc |-> pc, order |-> o, answer |-> answer, truth |-> truth] \in Call
  BY DEF Call
<1>9. ASSUME NEW c \in Callers, NEW o \in Orders, NEW kind \in Kind,
             SubmitPersist(c, o, kind)
      PROVE  TruthInv'
  <2>1. /\ running = Nobody /\ UNCHANGED brokerVars
        /\ row' = [row EXCEPT ![o] = [state |-> "CREATED", filled |-> 0,
                                      prot |-> 0, kind |-> kind]]
        /\ call' = [call EXCEPT ![c] = [pc |-> "guard", order |-> o,
                                answer |-> "none", truth |-> NoOrder]]
    BY <1>9 DEF SubmitPersist, PersistIntent, Begin, Free
  <2>2. PICK k \in Call : /\ k = [pc |-> "guard", order |-> o,
                                  answer |-> "none", truth |-> NoOrder]
    BY <1>6, <1>8 DEF Pc, PreSend, Answer
  <2>3. AnswerIsTrue(k) /\ k.pc # "request_protection"
    BY <1>6, <1>7, <2>2 DEF AnswerIsTrue
  <2>4. RowsAgree'
    <3>. DEFINE r == [state |-> "CREATED", filled |-> 0, prot |-> 0, kind |-> kind]
    <3>1. r \in Row /\ Agrees(r, held[o])
      BY <1>7 DEF Row, OrderState, Agrees, Filled
    <3>2. row' = [row EXCEPT ![o] = r]
      BY <2>1
    <3>. HIDE DEF r
    <3>. QED
      BY <1>1, <1>4, <2>1, <3>1, <3>2, RowChanges
  <2>5. call' = [call EXCEPT ![c] = k]
    BY <2>1, <2>2
  <2>. QED
    BY <1>1, <2>1, <2>3, <2>4, <2>5, QuietCall
<1>10. ASSUME NEW c \in Callers, SubmitGuard(c) \/ SubmitApprove(c) \/ SubmitMark(c)
       PROVE  TruthInv'
  <2>1. PICK o \in Orders : o = call[c].order
    BY <1>3, <1>10 DEF SubmitGuard, SubmitApprove, SubmitMark, At
  <2>2. /\ call[c].pc \in PreSend /\ running = c /\ call[c] \in Call
        /\ Recorded(o) /\ UNCHANGED brokerVars /\ AnswerIsTrue(call[c])
    BY <1>3, <1>10, <2>1 DEF SubmitGuard, SubmitApprove, SubmitMark, At, PreSend
  <2>3. held[o] = NoOrder
    BY <1>1, <2>1, <2>2 DEF SendInv, SendDiscipline, CopiesAgree
  <2>4. PICK to \in {"REJECTED", "VALIDATED", "APPROVED", "SUBMITTING"} : Move(o, to)
    BY <1>10, <2>1 DEF SubmitGuard, SubmitApprove, SubmitMark
  <2>5. RowsAgree'
    <3>1. to \in OrderState /\ (to \in Plain \/ to = "REJECTED")
      BY <2>4 DEF OrderState, Plain, Filled
    <3>. QED
      BY <1>1, <1>4, <2>2, <2>3, <2>4, <3>1, MoveTrue
  <2>6. CASE End(c)
    BY <1>1, <2>2, <2>5, <2>6, QuietEnd
  <2>7. ASSUME NEW pc \in {"approve", "submitting", "send"}, GoOn(c, pc)
        PROVE  TruthInv'
    <3>1. PICK k \in Call : k = [call[c] EXCEPT !.pc = pc]
      BY <2>2, <2>7 DEF Call, Pc, PreSend
    <3>2. k.pc = pc /\ k.order = call[c].order /\ k.answer = call[c].answer
          /\ k.truth = call[c].truth
      BY <2>2, <3>1 DEF Call
    <3>3. AnswerIsTrue(k)
      BY <2>2, <2>7, <3>2 DEF AnswerIsTrue
    <3>4. call' = [call EXCEPT ![c] = k]
      BY <2>7, <3>1 DEF GoOn
    <3>. QED
      BY <1>1, <2>2, <2>5, <2>7, <3>2, <3>3, <3>4, QuietCall
  <2>. QED
    BY <1>10, <2>6, <2>7 DEF SubmitGuard, SubmitApprove, SubmitMark
<1>11. ASSUME NEW c \in Callers, SubmitSend(c)
       PROVE  TruthInv'
  <2>1. PICK o \in Orders : o = call[c].order
    BY <1>3, <1>11 DEF SubmitSend, At
  <2>2. PICK plan \in Plans :
          /\ BrokerSubmit(o, plan)
          /\ Await(c, o, "submit_answer", SubmitAnswer(plan), NoOrder)
    BY <1>11, <2>1 DEF SubmitSend
  <2>3. call[c].pc = "send" /\ running = c /\ UNCHANGED storeVars
    BY <1>11 DEF SubmitSend, At
  <2>4. held[o] = NoOrder /\ row[o].state = "SUBMITTING" /\ Recorded(o)
    BY <1>1, <1>3, <2>1, <2>3
       DEF SendInv, SendDiscipline, CopiesAgree, PreSend, StateAt
  <2>5. /\ \A p \in Orders : Grows(held[p], held'[p])
        /\ \A p \in Orders \ {o} : held'[p] = held[p]
        /\ HeldIsSound'
    BY <2>2, <2>4, SubmitHolds
  <2>6. plan.onSubmit = "reject" => NeverHeld(o)'
    <3>1. plan.onSubmit = "reject" => held'[o] = NoOrder
      BY <2>2, <2>4 DEF BrokerSubmit, brokerVars
    <3>2. Past(o)'
      BY <2>3, <2>4 DEF Past, Recorded, BeforeSend, storeVars
    <3>3. ~Sending(o)'
      BY <1>1, <1>2, <2>2, <2>3, OneSends DEF Sending, Await, PreSend
    <3>. QED
      BY <3>1, <3>2, <3>3 DEF NeverHeld
  <2>7. \A i \in 1..Len(queue) : \A e \in Event :
          e = queue[i] => Says(e.order, e.kind, e.qty)'
    BY <1>1, <2>5, TruthLasts DEF Event, TruthInv, EventsAreTrue
  <2>8. EventsAreTrue'
    BY <1>1, <2>2, <2>4, <2>6, <2>7, SubmitTells DEF TypeInv
  <2>9. RowsAgree'
    BY <1>1, <2>3, <2>4, <2>5, RowStays DEF storeVars
  <2>10. PICK k \in Call : k = [pc |-> "submit_answer", order |-> o,
                                answer |-> SubmitAnswer(plan), truth |-> NoOrder]
    BY <1>6, <1>8 DEF Pc, Awaiting, Answer, SubmitAnswer
  <2>11. AnswerIsTrue(k)'
    <3>1. k.pc = "submit_answer" /\ k.order = o /\ k.answer = SubmitAnswer(plan)
          /\ k.truth = NoOrder
      BY <2>10
    <3>2. SubmitAnswer(plan) \in DOMAIN SubmitOutcome
      BY DEF SubmitAnswer, SubmitOutcome
    <3>3. k.answer = "rejected" => NeverHeld(o)'
      BY <2>6, <3>1 DEF SubmitAnswer
    <3>4. held'[o].filled \in Nat /\ held'[o].prot \in Nat
      BY <1>1 DEF SendInv, TypeInv, TypeOK, BrokerTypeOK, BrokerOrder, NoOrder
    <3>. QED
      BY <1>6, <3>1, <3>2, <3>3, <3>4 DEF AnswerIsTrue
  <2>12. call' = [call EXCEPT ![c] = k]
    BY <2>2, <2>10 DEF Await
  <2>13. AnswersAreTrue'
    BY <1>1, <2>5, <2>11, <2>12, CallsTrue
  <2>14. k.pc # "request_protection"
    BY <2>10
  <2>15. RequestHolds'
    BY <1>1, <2>3, <2>12, <2>14, RequestsRest
  <2>. QED
    BY <1>1, <2>5, <2>8, <2>9, <2>13, <2>15 DEF TruthInv
<1>12. ASSUME NEW c \in Callers, SubmitReturn(c) \/ CancelReturn(c) \/ ReconcileNotFound(c)
       PROVE  TruthInv'
  <2>1. PICK o \in Orders : o = call[c].order
    BY <1>3, <1>12 DEF SubmitReturn, CancelReturn, ReconcileNotFound, Answered
  <2>2. running = Nobody /\ End(c) /\ UNCHANGED brokerVars /\ AnswerIsTrue(call[c])
    BY <1>3, <1>12 DEF SubmitReturn, CancelReturn, ReconcileNotFound, Answered
  <2>3. RowsAgree'
    <3>1. CASE UNCHANGED row
      BY <1>4, <1>5, <2>2, <3>1
    <3>2. ASSUME NEW to \in Plain \cup {"REJECTED"}, NEW rec, TryMove(o, to, rec),
                 to = "REJECTED" => NeverHeld(o)
          PROVE  RowsAgree'
      BY <1>1, <1>4, <2>2, <3>2, TryTrue DEF NeverHeld
    <3>3. CASE SubmitReturn(c)
      <4>1. call[c].answer \in {"brokerOrderId", "rejected", "UNKNOWN"}
        BY <2>2, <3>3 DEF SubmitReturn, Answered, AnswerIsTrue, SubmitOutcome
      <4>2. PICK to \in Plain \cup {"REJECTED"} : to = SubmitOutcome[call[c].answer]
        BY <4>1 DEF SubmitOutcome, Plain, OrderState, Filled
      <4>3. to = "REJECTED" => NeverHeld(o)
        BY <2>1, <2>2, <4>1, <4>2 DEF AnswerIsTrue, SubmitOutcome
      <4>. QED
        BY <2>1, <3>2, <3>3, <4>2, <4>3 DEF SubmitReturn
    <3>4. CASE CancelReturn(c)
      <4>1. "UNKNOWN" \in Plain
        BY DEF Plain, OrderState, Filled
      <4>. QED
        BY <2>1, <3>1, <3>2, <3>4, <4>1 DEF CancelReturn
    <3>5. CASE ReconcileNotFound(c)
      <4>1. NeverHeld(o)
        BY <2>1, <2>2, <3>5 DEF ReconcileNotFound, Answered, AnswerIsTrue
      <4>. QED
        BY <2>1, <3>1, <3>2, <3>5, <4>1 DEF ReconcileNotFound
    <3>. QED
      BY <1>12, <3>3, <3>4, <3>5
  <2>. QED
    BY <1>1, <2>2, <2>3, QuietEnd
<1>13. ASSUME NEW c \in Callers, NEW o \in Orders, CancelLocally(c, o)
       PROVE  TruthInv'
  <2>1. Recorded(o) /\ "CANCELED" \in Plain
    BY <1>13 DEF CancelLocally, Recorded, NoRow, Plain, OrderState, Filled
  <2>2. UNCHANGED brokerVars /\ UNCHANGED gatewayVars /\ running = Nobody
    BY <1>13 DEF CancelLocally, Free
  <2>3. RowsAgree'
    BY <1>1, <1>4, <1>13, <2>1, <2>2, MoveTrue DEF CancelLocally, Plain
  <2>. QED
    BY <1>1, <1>4, <2>2, <2>3, QuietElse
<1>14. ASSUME NEW c \in Callers, NEW o \in Orders, CancelRequest(c, o)
       PROVE  TruthInv'
  <2>1. /\ Recorded(o) /\ Move(o, "CANCEL_PENDING") /\ UNCHANGED brokerVars
        /\ running = Nobody
        /\ call' = [call EXCEPT ![c] = [pc |-> "cancel_send", order |-> o,
                                answer |-> "none", truth |-> NoOrder]]
    BY <1>14 DEF CancelRequest, MayMove, Free, Begin
  <2>2. RowsAgree'
    BY <1>1, <1>4, <2>1, MoveTrue DEF Plain, OrderState, Filled
  <2>3. PICK k \in Call : k = [pc |-> "cancel_send", order |-> o,
                               answer |-> "none", truth |-> NoOrder]
    BY <1>6, <1>8 DEF Pc, Answer
  <2>4. AnswerIsTrue(k) /\ k.pc # "request_protection"
    BY <1>6, <1>7, <2>3 DEF AnswerIsTrue
  <2>5. call' = [call EXCEPT ![c] = k]
    BY <2>1, <2>3
  <2>. QED
    BY <1>1, <2>1, <2>2, <2>4, <2>5, QuietCall
<1>15. ASSUME NEW c \in Callers, CancelSend(c)
       PROVE  TruthInv'
  <2>1. PICK o \in Orders : o = call[c].order
    BY <1>3, <1>15 DEF CancelSend, At
  <2>2. PICK plan \in Plans :
          /\ BrokerCancel(o, plan)
          /\ Await(c, o, "cancel_answer", CancelAnswer(o, plan), NoOrder)
    BY <1>15, <2>1 DEF CancelSend
  <2>3. running = c /\ UNCHANGED storeVars
    BY <1>15 DEF CancelSend, At
  <2>4. /\ \A p \in Orders : Grows(held[p], held'[p])
        /\ \A p \in Orders : held[p] = NoOrder => held'[p] = NoOrder
        /\ HeldIsSound'
    BY <2>2, CancelHolds
  <2>5. \A i \in 1..Len(queue) : \A e \in Event :
          e = queue[i] => Says(e.order, e.kind, e.qty)'
    BY <1>1, <2>4, TruthLasts DEF Event, TruthInv, EventsAreTrue
  <2>6. EventsAreTrue'
    BY <2>2, <2>5, CancelTells
  <2>7. \A p \in Orders : row[p].state = "REJECTED" => held[p] = NoOrder
    BY <1>2 DEF TruthInv, RowsAgree, Agrees, Recorded, NoRow
  <2>8. RowsAgree'
    BY <1>1, <2>3, <2>4, <2>7, RowStays DEF storeVars
  <2>9. PICK k \in Call : k = [pc |-> "cancel_answer", order |-> o,
                               answer |-> CancelAnswer(o, plan), truth |-> NoOrder]
    BY <1>6, <1>8 DEF Pc, Awaiting, Answer, CancelAnswer
  <2>10. AnswerIsTrue(k)'
    <3>1. k.pc = "cancel_answer" /\ k.order = o /\ k.truth = NoOrder
          /\ k.answer \in {"UNKNOWN", "CANCEL_PENDING"}
      BY <2>9 DEF CancelAnswer
    <3>2. held'[o].filled \in Nat /\ held'[o].prot \in Nat
      BY <1>1 DEF SendInv, TypeInv, TypeOK, BrokerTypeOK, BrokerOrder, NoOrder
    <3>. QED
      BY <1>6, <3>1, <3>2 DEF AnswerIsTrue
  <2>11. call' = [call EXCEPT ![c] = k]
    BY <2>2, <2>9 DEF Await
  <2>12. AnswersAreTrue'
    BY <1>1, <2>4, <2>10, <2>11, CallsTrue
  <2>13. k.pc # "request_protection"
    BY <2>9
  <2>14. RequestHolds'
    BY <1>1, <2>3, <2>11, <2>13, RequestsRest
  <2>. QED
    BY <1>1, <2>4, <2>6, <2>8, <2>12, <2>14 DEF TruthInv
<1>16. ASSUME NEW c \in Callers, NEW o \in Orders, ReconcileAsk(c, o)
       PROVE  TruthInv'
  <2>1. /\ running = Nobody /\ row[o].state = "UNKNOWN"
        /\ UNCHANGED storeVars /\ UNCHANGED brokerVars
        /\ call' = [call EXCEPT ![c] = [pc |-> "status_answer", order |-> o,
                                answer |-> "none", truth |-> held[o]]]
    BY <1>16 DEF ReconcileAsk, Free, Await
  <2>2. PICK k \in Call : k = [pc |-> "status_answer", order |-> o,
                               answer |-> "none", truth |-> held[o]]
    BY <1>2, <1>8 DEF Pc, Awaiting, Answer
  <2>3. held[o] = NoOrder => NeverHeld(o)
    <3>1. Past(o)
      BY <2>1 DEF Past, Recorded, NoRow, BeforeSend
    <3>2. ~Sending(o)
      BY <1>1, <2>1, NobodySends DEF Sending, PreSend
    <3>. QED
      BY <3>1, <3>2 DEF NeverHeld
  <2>4. AnswerIsTrue(k) /\ k.pc # "request_protection"
    BY <1>7, <2>2, <2>3 DEF AnswerIsTrue
  <2>5. RowsAgree'
    BY <1>4, <1>5, <2>1 DEF storeVars
  <2>6. call' = [call EXCEPT ![c] = k]
    BY <2>1, <2>2
  <2>. QED
    BY <1>1, <2>1, <2>4, <2>5, <2>6, QuietCall
<1>17. ASSUME NEW c \in Callers, ReconcileFound(c)
       PROVE  TruthInv'
  <2>1. PICK o \in Orders : o = call[c].order
    BY <1>3, <1>17 DEF ReconcileFound, Answered
  <2>2. PICK t \in BrokerOrder : t = call[c].truth
    BY <1>3, <1>17 DEF ReconcileFound, Answered, Call
  <2>3. /\ running = Nobody /\ UNCHANGED brokerVars /\ call[c] \in Call /\ Recorded(o)
        /\ AnswerIsTrue(call[c])
    BY <1>3, <1>17, <2>1 DEF ReconcileFound, Answered
  <2>4. \/ /\ MoveWithTotals(o, t.state, t.filled, t.prot)
           /\ \/ t.state = "FILLED" /\ GoOn(c, "request_protection")
              \/ End(c)
        \/ UNCHANGED row /\ End(c)
    BY <1>17, <2>1, <2>2 DEF ReconcileFound, NotAllowed
  <2>5. /\ t.state \in BrokerState /\ t.filled \in Nat /\ t.prot \in Nat
        /\ t.filled <= held[o].filled /\ t.prot <= held[o].prot
        /\ t.state = "FILLED" => t = held[o]
    BY <2>1, <2>2, <2>3 DEF BrokerOrder, AnswerIsTrue
  <2>6. PICK r \in Row : r = row[o]
    BY <1>2, <2>3 DEF Recorded
  <2>. DEFINE s == [r EXCEPT !.state = t.state, !.filled = t.filled, !.prot = t.prot]
  <2>7. /\ s \in Row /\ s.state = t.state /\ s.filled = t.filled /\ s.prot = t.prot
    BY <2>5, <2>6 DEF Row, BrokerState, OrderState
  <2>8. MoveWithTotals(o, t.state, t.filled, t.prot) => row' = [row EXCEPT ![o] = s]
    BY <2>6 DEF MoveWithTotals
  <2>. HIDE DEF s
  <2>9. Agrees(s, held[o])
    BY <2>5, <2>7 DEF Agrees, BrokerState, Filled
  <2>10. RowsAgree'
    BY <1>1, <1>4, <1>5, <2>3, <2>4, <2>7, <2>8, <2>9, RowChanges
  <2>11. CASE End(c)
    BY <1>1, <2>3, <2>10, <2>11, QuietEnd
  <2>12. CASE /\ MoveWithTotals(o, t.state, t.filled, t.prot)
              /\ t.state = "FILLED" /\ GoOn(c, "request_protection")
    <3>1. PICK k \in Call : k = [call[c] EXCEPT !.pc = "request_protection"]
      BY <2>3 DEF Call, Pc
    <3>2. k.pc = "request_protection" /\ k.order = o /\ k.answer = call[c].answer
          /\ k.truth = call[c].truth
      BY <2>1, <2>3, <3>1 DEF Call
    <3>3. AnswerIsTrue(k)
      BY <2>1, <2>3, <3>2 DEF AnswerIsTrue
    <3>4. call' = [call EXCEPT ![c] = k] /\ running' = c
      BY <2>12, <3>1 DEF GoOn
    <3>5. /\ \A p \in Orders : Grows(held[p], held'[p])
          /\ HeldIsSound' /\ EventsAreTrue'
      BY <1>1, <1>4, <2>3, QuietBroker
    <3>6. AnswersAreTrue'
      BY <1>1, <3>2, <3>3, <3>4, <3>5, TruthLasts, CallsTrue
    <3>7. row'[o].state = "FILLED"
      BY <1>2, <2>7, <2>8, <2>12
    <3>8. RequestHolds'
      <4>1. \A d \in Callers \ {c} : call'[d] = call[d] /\ call[d].pc # "request_protection"
        BY <1>2, <2>3, <3>4, NobodyAssumption DEF TruthInv, RequestHolds
      <4>2. call'[c] = k
        BY <1>2, <3>4
      <4>. QED
        BY <3>2, <3>4, <3>7, <4>1, <4>2 DEF RequestHolds
    <3>. QED
      BY <1>1, <2>10, <3>5, <3>6, <3>8 DEF TruthInv
  <2>. QED
    BY <2>4, <2>11, <2>12
<1>18. ASSUME NEW c \in Callers, RequestProtection(c)
       PROVE  TruthInv'
  <2>1. PICK o \in Orders : o = call[c].order
    BY <1>3, <1>18 DEF RequestProtection, At
  <2>2. /\ running = c /\ End(c) /\ UNCHANGED brokerVars /\ Recorded(o)
        /\ Move(o, "PROTECTION_PENDING") /\ row[o].state = "FILLED"
    BY <1>3, <1>18, <2>1 DEF RequestProtection, At, TruthInv, RequestHolds
  <2>3. RowsAgree'
    BY <1>1, <1>4, <2>2, MoveTrue DEF OrderState
  <2>. QED
    BY <1>1, <2>2, <2>3, QuietEnd
<1>19. CASE Deliver
  <2>1. /\ running = Nobody /\ UNCHANGED <<held, gatewayVars>>
        /\ Len(queue) > 0 /\ queue' = Tail(queue) /\ ApplyBrokerEvent(Head(queue))
    BY <1>2, <1>19 DEF Deliver
  <2>2. PICK e \in Event : e = Head(queue) /\ e = queue[1]
    BY <1>2, <2>1
  <2>3. Says(e.order, e.kind, e.qty)
    BY <1>2, <2>1, <2>2 DEF TruthInv, EventsAreTrue
  <2>4. RowsAgree'
    BY <1>1, <2>1, <2>2, <2>3, ApplyTrue
  <2>5. \A i \in 1..Len(queue') : i + 1 \in 1..Len(queue) /\ queue'[i] = queue[i + 1]
    BY <1>2, <2>1
  <2>. QED
    BY <1>1, <2>1, <2>4, <2>5, QuietElse
<1>20. ASSUME NEW o \in Orders, UnknownTimeout(o)
       PROVE  TruthInv'
  <2>1. /\ running = Nobody /\ UNCHANGED gatewayVars /\ UNCHANGED brokerVars /\ Recorded(o)
        /\ UNCHANGED row \/ Move(o, "UNKNOWN")
    BY <1>20 DEF UnknownTimeout
  <2>2. RowsAgree'
    BY <1>1, <1>4, <1>5, <2>1, MoveTrue DEF Plain, OrderState, Filled
  <2>. QED
    BY <1>1, <1>4, <2>1, <2>2, QuietElse
<1>21. CASE Crash
  <2>1. UNCHANGED held /\ UNCHANGED row
    BY <1>21 DEF Crash, storeVars
  <2>2. PICK lost \in 0..Len(queue) : queue' = SubSeq(queue, lost + 1, Len(queue))
    BY <1>2, <1>21 DEF Crash
  <2>3. \A i \in 1..Len(queue') : lost + i \in 1..Len(queue) /\ queue'[i] = queue[lost + i]
    BY <1>2, <2>2
  <2>4. \A i \in 1..Len(queue') : \E j \in 1..Len(queue) : queue'[i] = queue[j]
    BY <2>3
  <2>5. HeldIsSound' /\ EventsAreTrue'
    BY <1>1, <2>1, <2>4, QuietBroker
  <2>6. AnswersAreTrue' /\ RequestHolds'
    BY <1>21 DEF Crash, AnswersAreTrue, RequestHolds, Idle
  <2>. QED
    BY <1>1, <1>5, <2>1, <2>5, <2>6 DEF TruthInv
<1>22. CASE UNCHANGED vars
  <2>1. UNCHANGED <<row, held, queue, call, running>>
    BY <1>22 DEF vars, storeVars, brokerVars, gatewayVars
  <2>2. HeldIsSound' /\ EventsAreTrue'
    BY <1>1, <2>1, QuietBroker
  <2>3. AnswersAreTrue'
    BY <2>1 DEF TruthInv, AnswersAreTrue, AnswerIsTrue, NeverHeld, Past, Recorded, Sending
  <2>4. RequestHolds'
    BY <2>1 DEF TruthInv, RequestHolds
  <2>. QED
    BY <1>1, <1>5, <2>1, <2>2, <2>3, <2>4 DEF TruthInv
<1>. QED
  BY <1>9, <1>10, <1>11, <1>12, <1>13, <1>14, <1>15, <1>16, <1>17, <1>18, <1>19,
     <1>20, <1>21, <1>22
     DEF Next, Submit, Cancel, Reconcile

LEMMA TruthInvariant == Spec => []TruthInv
BY TruthInit, TruthNext, PTL DEF Spec

(* No row ever claims more shares filled or protected than the broker has.  *)
THEOREM NoOverstatement == Spec => []NeverOverstates
<1>1. TruthInv => NeverOverstates
  BY DEF TruthInv, RowsAgree, Agrees, NeverOverstates
<1>. QED
  BY <1>1, TruthInvariant, PTL

(* A row that says PROTECTED is covered at the broker, share for share.     *)
THEOREM ProtectionCovers == Spec => []ProtectedIsCovered
<1>1. ASSUME TruthInv, NEW o \in Orders, row[o].state = "PROTECTED"
      PROVE  held[o].filled > 0 /\ held[o].prot >= held[o].filled
  <2>1. Recorded(o)
    BY <1>1 DEF Recorded, NoRow
  <2>2. held[o].state = "FILLED" /\ held[o].prot >= held[o].filled
    BY <1>1, <2>1 DEF TruthInv, RowsAgree, Agrees, Filled
  <2>. QED
    BY <1>1, <2>2 DEF TruthInv, HeldIsSound
<1>2. TruthInv => ProtectedIsCovered
  BY <1>1 DEF ProtectedIsCovered
<1>. QED
  BY <1>2, TruthInvariant, PTL

(* The broker holds no order that is recorded REJECTED.                     *)
THEOREM RejectedNotHeld == Spec => []RejectedIsNotHeld
<1>1. ASSUME TruthInv, NEW o \in Orders, row[o].state = "REJECTED"
      PROVE  held[o] = NoOrder
  <2>1. Recorded(o)
    BY <1>1 DEF Recorded, NoRow
  <2>. QED
    BY <1>1, <2>1 DEF TruthInv, RowsAgree, Agrees
<1>2. TruthInv => RejectedIsNotHeld
  BY <1>1 DEF RejectedIsNotHeld
<1>. QED
  BY <1>2, TruthInvariant, PTL

-----------------------------------------------------------------------------
(* Fills, while no crash loses an event.                                   *)

(* What a batch holds is delivered, reversed or doubled.                   *)
LEMMA DeliversAll ==
  ASSUME NEW s \in Seq(Event), NEW plan \in FaultPlan, NEW j \in 1..Len(s)
  PROVE  \E i \in 1..Len(Delivered(s, plan)) : Delivered(s, plan)[i] = s[j]
<1>. DEFINE t == IF plan.outOfOrder THEN Reverse(s) ELSE s
<1>1. Len(t) = Len(s) /\ \E k \in 1..Len(s) : t[k] = s[j]
  <2>1. CASE plan.outOfOrder
    <3>1. t = [k \in 1..Len(s) |-> s[Len(s) - k + 1]]
      BY <2>1 DEF Reverse
    <3>2. Len(s) - j + 1 \in 1..Len(s) /\ Len(s) - (Len(s) - j + 1) + 1 = j
      OBVIOUS
    <3>. HIDE DEF t
    <3>. QED
      BY <3>1, <3>2
  <2>2. CASE ~plan.outOfOrder
    BY <2>2
  <2>. QED
    BY <2>1, <2>2
<1>. HIDE DEF t
<1>2. CASE plan.duplicate
  <2>1. Delivered(s, plan) = [k \in 1..2 * Len(t) |-> t[(k + 1) \div 2]]
    BY <1>2 DEF Delivered, Twice, t
  <2>2. PICK k \in 1..Len(s) : t[k] = s[j]
    BY <1>1
  <2>3. 2 * k \in 1..2 * Len(t) /\ (2 * k + 1) \div 2 = k
    BY <1>1
  <2>4. 2 * k \in 1..Len(Delivered(s, plan)) /\ Delivered(s, plan)[2 * k] = t[k]
    BY <1>1, <2>1, <2>3
  <2>. QED
    BY <2>2, <2>4
<1>3. CASE ~plan.duplicate
  <2>1. Delivered(s, plan) = t
    BY <1>3 DEF Delivered, t
  <2>. QED
    BY <1>1, <2>1
<1>. QED
  BY <1>2, <1>3

(* What is emitted is stamped, and all of it is queued last.               *)
LEMMA EmitQueues ==
  ASSUME NEW o \in Orders, NEW plan \in FaultPlan, NEW bodies \in Seq(BodyType),
         queue \in Seq(Event), lastId \in Nat, Emit(o, bodies, plan)
  PROVE  \E new \in Seq(Event) :
           /\ queue' = queue \o new
           /\ \A i \in 1..Len(new) : \E j \in 1..Len(bodies) :
                new[i] = [id |-> lastId + j, order |-> o, kind |-> bodies[j].kind,
                          qty |-> bodies[j].qty]
           /\ \A j \in 1..Len(bodies) : \E i \in 1..Len(new) :
                new[i] = [id |-> lastId + j, order |-> o, kind |-> bodies[j].kind,
                          qty |-> bodies[j].qty]
<1>1. PICK batch \in Seq(Event) : batch = Stamped(o, bodies)
  BY StampedType
<1>2. PICK new \in Seq(Event) : new = Delivered(batch, plan)
  BY DeliveredType
<1>3. Len(batch) = Len(bodies) /\ \A j \in 1..Len(bodies) :
        batch[j] = [id |-> lastId + j, order |-> o, kind |-> bodies[j].kind,
                    qty |-> bodies[j].qty]
  BY <1>1 DEF Stamped
<1>4. \A i \in 1..Len(new) : \E j \in 1..Len(bodies) : new[i] = batch[j]
  BY <1>2, <1>3, DeliveredElements
<1>5. \A j \in 1..Len(bodies) : \E i \in 1..Len(new) : new[i] = batch[j]
  BY <1>2, <1>3, DeliversAll
<1>6. queue' = queue \o new
  BY <1>1, <1>2 DEF Emit
<1>7. ASSUME NEW i \in 1..Len(new)
      PROVE  \E j \in 1..Len(bodies) :
               new[i] = [id |-> lastId + j, order |-> o, kind |-> bodies[j].kind,
                         qty |-> bodies[j].qty]
  BY <1>3, <1>4
<1>8. ASSUME NEW j \in 1..Len(bodies)
      PROVE  \E i \in 1..Len(new) :
               new[i] = [id |-> lastId + j, order |-> o, kind |-> bodies[j].kind,
                         qty |-> bodies[j].qty]
  <2>1. PICK i \in 1..Len(new) : new[i] = batch[j]
    BY <1>5
  <2>2. new[i] = [id |-> lastId + j, order |-> o, kind |-> bodies[j].kind,
                  qty |-> bodies[j].qty]
    BY <1>3, <2>1
  <2>. QED
    BY <2>2
<1>. QED
  BY <1>6, <1>7, <1>8

(* Fresh stamps keep every id the name of one event.                       *)
LEMMA EmitNames ==
  ASSUME NEW o \in Orders, NEW plan \in FaultPlan, NEW bodies \in Seq(BodyType),
         queue \in Seq(Event), lastId \in Nat, Emit(o, bodies, plan),
         IdsNameEvents, UNCHANGED seen
  PROVE  IdsNameEvents'
<1>1. PICK new \in Seq(Event) :
        /\ queue' = queue \o new
        /\ \A i \in 1..Len(new) : \E j \in 1..Len(bodies) :
             new[i] = [id |-> lastId + j, order |-> o, kind |-> bodies[j].kind,
                       qty |-> bodies[j].qty]
  BY EmitQueues
<1>2. PICK n \in Nat : n = Len(bodies)
  OBVIOUS
<1>3. /\ lastId' = lastId + n /\ 0..lastId \subseteq 0..lastId'
      /\ \A x \in 0..lastId : x <= lastId
      /\ \A j \in 1..n : lastId + j \in 0..lastId' /\ ~(lastId + j <= lastId)
      /\ \A j, k \in 1..n : lastId + j = lastId + k => j = k
  BY <1>2 DEF Emit
<1>4. ASSUME NEW i \in 1..Len(queue')
      PROVE  \/ i \in 1..Len(queue) /\ queue'[i] = queue[i]
             \/ \E j \in 1..n : queue'[i] = [id |-> lastId + j, order |-> o,
                                  kind |-> bodies[j].kind, qty |-> bodies[j].qty]
  <2>1. CASE i \in 1..Len(queue)
    BY <1>1, <2>1
  <2>2. CASE i \notin 1..Len(queue)
    <3>1. i - Len(queue) \in 1..Len(new) /\ queue'[i] = new[i - Len(queue)]
      BY <1>1, <2>2
    <3>. QED
      BY <1>1, <1>2, <3>1
  <2>. QED
    BY <2>1, <2>2
<1>5. ASSUME NEW i \in 1..Len(queue')
      PROVE  \E x \in 0..lastId' :
               /\ queue'[i].id = x
               /\ \/ x <= lastId /\ i \in 1..Len(queue) /\ queue'[i] = queue[i]
                  \/ \E j \in 1..n :
                       /\ x = lastId + j
                       /\ queue'[i] = [id |-> lastId + j, order |-> o,
                                       kind |-> bodies[j].kind, qty |-> bodies[j].qty]
  <2>1. CASE i \in 1..Len(queue) /\ queue'[i] = queue[i]
    <3>1. PICK x \in 0..lastId : x = queue'[i].id
      BY <2>1 DEF IdsNameEvents
    <3>2. x \in 0..lastId' /\ x <= lastId
      BY <1>3
    <3>. QED
      BY <2>1, <3>1, <3>2
  <2>2. ASSUME NEW j \in 1..n,
               queue'[i] = [id |-> lastId + j, order |-> o,
                            kind |-> bodies[j].kind, qty |-> bodies[j].qty]
        PROVE  lastId + j \in 0..lastId' /\ queue'[i].id = lastId + j
    <3>1. lastId + j \in 0..lastId'
      BY <1>3
    <3>2. queue'[i].id = lastId + j
      BY <2>2
    <3>. QED
      BY <3>1, <3>2
  <2>. QED
    BY <1>4, <2>1, <2>2
<1>6. ASSUME NEW i \in 1..Len(queue'), NEW k \in 1..Len(queue'),
             queue'[i].id = queue'[k].id
      PROVE  queue'[i] = queue'[k]
  <2>1. PICK x \in 0..lastId' :
          /\ queue'[i].id = x
          /\ \/ x <= lastId /\ i \in 1..Len(queue) /\ queue'[i] = queue[i]
             \/ \E j \in 1..n :
                  /\ x = lastId + j
                  /\ queue'[i] = [id |-> lastId + j, order |-> o,
                                  kind |-> bodies[j].kind, qty |-> bodies[j].qty]
    BY <1>5
  <2>2. PICK y \in 0..lastId' :
          /\ queue'[k].id = y
          /\ \/ y <= lastId /\ k \in 1..Len(queue) /\ queue'[k] = queue[k]
             \/ \E j \in 1..n :
                  /\ y = lastId + j
                  /\ queue'[k] = [id |-> lastId + j, order |-> o,
                                  kind |-> bodies[j].kind, qty |-> bodies[j].qty]
    BY <1>5
  <2>3. x = y
    BY <1>6, <2>1, <2>2
  <2>4. CASE x <= lastId
    <3>1. /\ i \in 1..Len(queue) /\ queue'[i] = queue[i]
          /\ k \in 1..Len(queue) /\ queue'[k] = queue[k]
      BY <1>3, <2>1, <2>2, <2>3, <2>4
    <3>. QED
      BY <1>6, <3>1 DEF IdsNameEvents
  <2>5. CASE ~(x <= lastId)
    <3>1. PICK j \in 1..n :
            /\ x = lastId + j
            /\ queue'[i] = [id |-> lastId + j, order |-> o,
                            kind |-> bodies[j].kind, qty |-> bodies[j].qty]
      BY <2>1, <2>5
    <3>2. PICK h \in 1..n :
            /\ y = lastId + h
            /\ queue'[k] = [id |-> lastId + h, order |-> o,
                            kind |-> bodies[h].kind, qty |-> bodies[h].qty]
      BY <2>2, <2>3, <2>5
    <3>3. j = h
      BY <1>3, <2>3, <3>1, <3>2
    <3>. QED
      BY <3>1, <3>2, <3>3
  <2>. QED
    BY <2>4, <2>5
<1>. QED
  BY <1>3, <1>5, <1>6 DEF IdsNameEvents

(* What the broker makes of an order it does not hold for good, it tells:  *)
(* the last of the new fills is among the bodies it emits, and a cancel is *)
(* alone.                                                                  *)
TellsFills(o, plan, bodies) ==
  /\ Emit(o, bodies, plan)
  /\ held[o].state \notin {"FILLED", "CANCELED"}
  /\ \/ held'[o].filled = held[o].filled
     \/ \E j \in 1..Len(bodies) : IsFill(bodies[j]) /\ bodies[j].qty = held'[o].filled
  /\ \A j \in 1..Len(bodies) : bodies[j].kind = "cancel_ack" =>
       held'[o].state = "CANCELED" /\ \A k \in 1..Len(bodies) : ~IsFill(bodies[k])

LEMMA OneBody ==
  ASSUME NEW kind \in EventKind, NEW qty \in Nat
  PROVE  \E bodies \in Seq(BodyType) :
           /\ bodies = <<Body(kind, qty)>>
           /\ \A j \in 1..Len(bodies) : bodies[j].kind = kind
           /\ 1 \in 1..Len(bodies) /\ bodies[1].kind = kind /\ bodies[1].qty = qty
<1>1. PICK b \in BodyType : b = Body(kind, qty) /\ b.kind = kind /\ b.qty = qty
  <2>1. /\ Body(kind, qty) \in BodyType
        /\ Body(kind, qty).kind = kind /\ Body(kind, qty).qty = qty
    BY DEF BodyType, Body
  <2>. QED
    BY <2>1
<1>. HIDE DEF BodyType
<1>2. /\ <<b>> \in Seq(BodyType) /\ Len(<<b>>) = 1 /\ <<b>>[1] = b
  OBVIOUS
<1>3. PICK bodies \in Seq(BodyType) : bodies = <<b>> /\ Len(bodies) = 1 /\ bodies[1] = b
  BY <1>2
<1>4. \A j \in 1..Len(bodies) : bodies[j] = b
  BY <1>3
<1>5. 1 \in 1..Len(bodies)
  BY <1>3
<1>6. bodies = <<Body(kind, qty)>>
  BY <1>1, <1>3, Zenon
<1>. QED
  BY <1>1, <1>3, <1>4, <1>5, <1>6, Zenon

LEMMA SubmitTellsFills ==
  ASSUME TypeOK, NEW o \in Orders, NEW plan \in Plans, held[o] = NoOrder,
         BrokerSubmit(o, plan), ~UNCHANGED brokerVars
  PROVE  \E bodies \in Seq(BodyType) : TellsFills(o, plan, bodies)
<1>1. held \in [Orders -> BrokerOrder \cup {NoOrder}]
  BY DEF TypeOK, BrokerTypeOK
<1>2. held[o].state \notin {"FILLED", "CANCELED"} /\ held[o].filled = 0
  BY DEF NoOrder
<1>3. ASSUME Accept(o, plan)
      PROVE  \E bodies \in Seq(BodyType) : TellsFills(o, plan, bodies)
  <2>1. PICK fills \in Seq(Nat \ {0}) : fills = FillsWhileOpen(plan.fills)
    BY FillsType
  <2>2. PICK total \in Nat : total = TotalOf(fills)
    BY <2>1, FillsType
  <2>3. PICK cover \in Nat : cover = CoverOf(total, plan.protection)
    BY QtyAssumption DEF CoverOf
  <2>4. PICK fillBodies \in Seq(BodyType) :
          fillBodies = [i \in 1..Len(fills) |-> FillBody(fills[i])]
    <3>1. \A t \in Nat : FillBody(t) \in BodyType
      BY DEF BodyType, FillBody, Body, EventKind
    <3>2. \A i \in 1..Len(fills) : FillBody(fills[i]) \in BodyType
      BY <3>1
    <3>. HIDE DEF BodyType
    <3>3. [i \in 1..Len(fills) |-> FillBody(fills[i])] \in Seq(BodyType)
      BY <3>2
    <3>. QED
      BY <3>3
  <2>5. PICK protBodies \in Seq(BodyType) :
          /\ protBodies = ProtectionBodies(total, plan.protection)
          /\ \A i \in 1..Len(protBodies) : protBodies[i].kind # "cancel_ack"
    <3>1. ProtectionBodies(total, plan.protection) \in
            {<<>>, <<Body("protection_reject", 0)>>, <<Body("protection_ack", cover)>>}
      BY <2>3 DEF ProtectionBodies
    <3>2. <<>> \in Seq(BodyType) /\ \A i \in 1..Len(<<>>) : <<>>[i].kind # "cancel_ack"
      OBVIOUS
    <3>3. ASSUME NEW kind \in {"protection_reject", "protection_ack"}, NEW qty \in Nat
          PROVE  \E s \in Seq(BodyType) : /\ s = <<Body(kind, qty)>>
                   /\ \A i \in 1..Len(s) : s[i].kind # "cancel_ack"
      <4>1. kind \in EventKind /\ kind # "cancel_ack"
        BY DEF EventKind
      <4>2. PICK s \in Seq(BodyType) : /\ s = <<Body(kind, qty)>>
              /\ \A i \in 1..Len(s) : s[i].kind = kind
        BY <4>1, OneBody
      <4>. HIDE DEF BodyType
      <4>. QED
        BY <4>1, <4>2
    <3>. HIDE DEF BodyType
    <3>. QED
      BY <3>1, <3>2, <3>3
  <2>6. PICK ackBodies \in Seq(BodyType) :
          /\ ackBodies = <<Body("ack", 0)>> /\ Len(ackBodies) = 1
          /\ ackBodies[1].kind = "ack"
    <3>1. "ack" \in EventKind
      BY DEF EventKind
    <3>2. PICK s \in Seq(BodyType) : s = <<Body("ack", 0)>> /\ s[1].kind = "ack"
      BY <3>1, OneBody
    <3>. QED
      BY <3>2
  <2>7. PICK bodies \in Seq(BodyType) : bodies = ackBodies \o fillBodies \o protBodies
    <3>. HIDE DEF BodyType
    <3>1. ackBodies \o fillBodies \o protBodies \in Seq(BodyType)
      OBVIOUS
    <3>. QED
      BY <3>1
  <2>8. /\ held'[o].filled = total
        /\ Emit(o, bodies, plan)
    BY <1>1, <1>3, <2>1, <2>2, <2>4, <2>5, <2>6, <2>7 DEF Accept
  <2>9. PICK n \in Nat, m \in Nat : n = Len(fillBodies) /\ m = Len(protBodies)
    OBVIOUS
  <2>10. /\ Len(bodies) = 1 + n + m
         /\ \A i \in 1..n : bodies[1 + i] = fillBodies[i]
         /\ \A i \in 1..m : bodies[1 + n + i] = protBodies[i]
         /\ bodies[1] = ackBodies[1]
    BY <2>6, <2>7, <2>9
  <2>11. n = Len(fills) /\ \A i \in 1..n : fillBodies[i] = FillBody(fills[i])
    BY <2>4, <2>9
  <2>12. \A t \in Nat : /\ FillBody(t).kind \in {"fill", "partial_fill"}
                        /\ FillBody(t).qty = t
    BY DEF FillBody, Body
  <2>13. ASSUME NEW i \in 1..Len(bodies)
         PROVE  bodies[i].kind # "cancel_ack"
    <3>1. CASE i = 1
      BY <2>6, <2>10, <3>1
    <3>2. CASE i \in 2..(1 + n)
      <4>1. i - 1 \in 1..n /\ 1 + (i - 1) = i
        BY <3>2
      <4>2. bodies[i] = FillBody(fills[i - 1]) /\ fills[i - 1] \in Nat
        BY <2>10, <2>11, <4>1
      <4>. QED
        BY <2>12, <4>2
    <3>3. CASE i \notin 1..(1 + n)
      <4>1. i - 1 - n \in 1..m /\ 1 + n + (i - 1 - n) = i
        BY <2>10, <3>3
      <4>2. bodies[i] = protBodies[i - 1 - n]
        BY <2>10, <4>1
      <4>. QED
        BY <2>5, <2>9, <4>1, <4>2
    <3>. QED
      BY <3>1, <3>2, <3>3
  <2>14. CASE total = 0
    BY <1>2, <2>8, <2>13, <2>14 DEF TellsFills
  <2>15. CASE total # 0
    <3>1. fills # <<>> /\ total = fills[Len(fills)]
      BY <2>2, <2>15 DEF TotalOf
    <3>2. n # 0 /\ n \in 1..n /\ 1 + n \in 1..Len(bodies)
      <4>1. n # 0
        BY <2>1, <2>11, <3>1
      <4>2. Len(bodies) = 1 + n + m
        BY <2>10
      <4>. QED
        BY <4>1, <4>2
    <3>3. bodies[1 + n] = FillBody(total)
      BY <2>10, <2>11, <3>1, <3>2
    <3>4. IsFill(bodies[1 + n]) /\ bodies[1 + n].qty = held'[o].filled
      BY <2>8, <2>12, <3>3 DEF IsFill
    <3>. QED
      BY <1>2, <2>8, <2>13, <3>2, <3>4 DEF TellsFills
  <2>. QED
    BY <2>14, <2>15
<1>4. ASSUME Emit(o, <<Body("reject", 0)>>, plan), UNCHANGED held
      PROVE  \E bodies \in Seq(BodyType) : TellsFills(o, plan, bodies)
  <2>1. PICK bodies \in Seq(BodyType) :
          /\ bodies = <<Body("reject", 0)>>
          /\ \A j \in 1..Len(bodies) : bodies[j].kind = "reject"
    BY OneBody DEF EventKind
  <2>2. \A j \in 1..Len(bodies) : bodies[j].kind # "cancel_ack"
    BY <2>1
  <2>3. Emit(o, bodies, plan)
    BY <1>4, <2>1
  <2>. QED
    BY <1>2, <1>4, <2>2, <2>3 DEF TellsFills
<1>. QED
  BY <1>3, <1>4 DEF BrokerSubmit

LEMMA CancelTellsFills ==
  ASSUME TypeOK, NEW o \in Orders, NEW plan \in Plans, BrokerCancel(o, plan),
         ~UNCHANGED brokerVars
  PROVE  /\ held[o] # NoOrder
         /\ \A p \in Orders \ {o} : held'[p] = held[p]
         /\ held'[o].state \in {"CANCELED", "FILLED"}
         /\ held'[o].filled = held[o].filled \/ held'[o].state = "FILLED"
         /\ \E bodies \in Seq(BodyType) : TellsFills(o, plan, bodies)
<1>1. held \in [Orders -> BrokerOrder \cup {NoOrder}]
  BY DEF TypeOK, BrokerTypeOK
<1>2. /\ held[o].state \in Open
      /\ \/ /\ held' = [held EXCEPT ![o].state = "CANCELED"]
            /\ Emit(o, <<Body("cancel_ack", 0)>>, plan)
         \/ /\ held' = [held EXCEPT ![o] = [@ EXCEPT !.state = "FILLED", !.filled = Qty]]
            /\ Emit(o, <<Body("fill", Qty)>>, plan)
  BY DEF BrokerCancel
<1>3. /\ held[o] \in BrokerOrder /\ held[o] # NoOrder
      /\ held[o].state \notin {"FILLED", "CANCELED"}
  BY <1>1, <1>2 DEF Open, NoOrder
<1>4. \A p \in Orders \ {o} : held'[p] = held[p]
  BY <1>1, <1>2
<1>5. ASSUME held' = [held EXCEPT ![o].state = "CANCELED"],
             Emit(o, <<Body("cancel_ack", 0)>>, plan)
      PROVE  /\ held'[o].filled = held[o].filled /\ held'[o].state = "CANCELED"
             /\ \E bodies \in Seq(BodyType) : TellsFills(o, plan, bodies)
  <2>1. held'[o].filled = held[o].filled /\ held'[o].state = "CANCELED"
    BY <1>1, <1>3, <1>5 DEF BrokerOrder
  <2>2. PICK bodies \in Seq(BodyType) :
          /\ bodies = <<Body("cancel_ack", 0)>>
          /\ \A j \in 1..Len(bodies) : bodies[j].kind = "cancel_ack"
    BY OneBody DEF EventKind
  <2>3. \A k \in 1..Len(bodies) : ~IsFill(bodies[k])
    BY <2>2 DEF IsFill
  <2>4. Emit(o, bodies, plan)
    BY <1>5, <2>2
  <2>. QED
    BY <1>3, <2>1, <2>3, <2>4 DEF TellsFills
<1>6. ASSUME held' = [held EXCEPT ![o] = [@ EXCEPT !.state = "FILLED", !.filled = Qty]],
             Emit(o, <<Body("fill", Qty)>>, plan)
      PROVE  /\ held'[o].state = "FILLED"
             /\ \E bodies \in Seq(BodyType) : TellsFills(o, plan, bodies)
  <2>1. held'[o].filled = Qty /\ held'[o].state = "FILLED"
    BY <1>1, <1>3, <1>6 DEF BrokerOrder
  <2>2. PICK bodies \in Seq(BodyType) :
          /\ bodies = <<Body("fill", Qty)>>
          /\ \A j \in 1..Len(bodies) : bodies[j].kind = "fill"
          /\ 1 \in 1..Len(bodies) /\ bodies[1].kind = "fill" /\ bodies[1].qty = Qty
    <3>1. "fill" \in EventKind /\ Qty \in Nat
      BY QtyAssumption DEF EventKind
    <3>2. PICK s \in Seq(BodyType) :
            /\ s = <<Body("fill", Qty)>>
            /\ \A j \in 1..Len(s) : s[j].kind = "fill"
            /\ 1 \in 1..Len(s) /\ s[1].kind = "fill" /\ s[1].qty = Qty
      BY <3>1, OneBody
    <3>. HIDE DEF BodyType
    <3>. QED
      BY <3>2
  <2>3. IsFill(bodies[1]) /\ \A k \in 1..Len(bodies) : bodies[k].kind # "cancel_ack"
    BY <2>2 DEF IsFill
  <2>4. Emit(o, bodies, plan)
    BY <1>6, <2>2
  <2>. QED
    BY <1>3, <2>1, <2>2, <2>3, <2>4 DEF TellsFills
<1>. QED
  BY <1>2, <1>3, <1>4, <1>5, <1>6

(* A batch is new to the store, so that the fill it tells of waits there;  *)
(* nothing of an order that was filled or canceled is told again.          *)
LEMMA BrokerMovesFills ==
  ASSUME FillsInv, TypeInv', UNCHANGED storeVars,
         NEW o \in Orders, NEW plan \in FaultPlan, NEW bodies \in Seq(BodyType),
         TellsFills(o, plan, bodies),
         held[o] = NoOrder => row[o].state # "CANCELED",
         \A p \in Orders \ {o} : held'[p] = held[p],
         AnswersAreFresh'
  PROVE  FillsFate'
<1>1. /\ queue \in Seq(Event) /\ lastId \in Nat /\ queue' \in Seq(Event)
      /\ UNCHANGED <<row, seen, flagged>>
  BY DEF FillsInv, TruthInv, SendInv, TypeInv, TypeOK, BrokerTypeOK, storeVars
<1>2. /\ FillsAreQueued /\ IdsNameEvents /\ CancelIsLast /\ CanceledIsSettled
  BY DEF FillsInv, FillsFate
<1>3. Emit(o, bodies, plan)
  BY DEF TellsFills
<1>4. IdsNameEvents'
  BY <1>1, <1>2, <1>3, EmitNames
<1>5. PICK new \in Seq(Event) :
        /\ queue' = queue \o new
        /\ \A i \in 1..Len(new) : \E j \in 1..Len(bodies) :
             new[i] = [id |-> lastId + j, order |-> o, kind |-> bodies[j].kind,
                       qty |-> bodies[j].qty]
        /\ \A j \in 1..Len(bodies) : \E i \in 1..Len(new) :
             new[i] = [id |-> lastId + j, order |-> o, kind |-> bodies[j].kind,
                       qty |-> bodies[j].qty]
  BY <1>1, <1>3, EmitQueues
<1>6. PICK n \in Nat, m \in Nat : n = Len(queue) /\ m = Len(new)
  BY <1>1
<1>7. /\ Len(queue') = n + m
      /\ \A i \in 1..n : i \in 1..Len(queue') /\ queue'[i] = queue[i]
      /\ \A i \in 1..m : n + i \in 1..Len(queue') /\ queue'[n + i] = new[i]
  BY <1>1, <1>5, <1>6
<1>8. ASSUME NEW i \in 1..Len(queue'), i \notin 1..n
      PROVE  \E j \in 1..Len(bodies) : queue'[i].order = o /\ queue'[i].kind = bodies[j].kind
  <2>1. PICK h \in 1..m : n + h = i
    <3>1. i - n \in 1..m /\ n + (i - n) = i
      BY <1>7, <1>8
    <3>. QED
      BY <3>1
  <2>2. queue'[i] = new[h]
    BY <1>7, <2>1
  <2>3. PICK j \in 1..Len(bodies) :
          new[h] = [id |-> lastId + j, order |-> o, kind |-> bodies[j].kind,
                    qty |-> bodies[j].qty]
    BY <1>5, <1>6
  <2>4. queue'[i].order = o /\ queue'[i].kind = bodies[j].kind
    BY <2>2, <2>3
  <2>. QED
    BY <2>4
<1>9. ASSUME NEW p \in Orders, FillQueued(p), held'[p].filled = held[p].filled
      PROVE  FillQueued(p)'
  <2>1. PICK i \in 1..n : /\ queue[i].order = p /\ IsFill(queue[i])
                          /\ queue[i].id \notin seen /\ queue[i].qty = held[p].filled
    BY <1>6, <1>9 DEF FillQueued
  <2>2. i \in 1..Len(queue') /\ queue'[i] = queue[i]
    BY <1>7
  <2>. QED
    BY <1>1, <1>9, <2>1, <2>2 DEF FillQueued, IsFill
<1>10. ASSUME NEW j \in 1..Len(bodies), IsFill(bodies[j]), bodies[j].qty = held'[o].filled
       PROVE  FillQueued(o)'
  <2>1. PICK i \in 1..m :
          new[i] = [id |-> lastId + j, order |-> o, kind |-> bodies[j].kind,
                    qty |-> bodies[j].qty]
    BY <1>5, <1>6
  <2>2. n + i \in 1..Len(queue') /\ queue'[n + i] = new[i]
    BY <1>7
  <2>3. lastId + j \notin seen
    <3>1. j \in Nat \ {0}
      OBVIOUS
    <3>2. lastId + j \notin 0..lastId
      BY <1>1, <3>1
    <3>. QED
      BY <1>2, <3>2 DEF IdsNameEvents
  <2>4. /\ new[i].id \notin seen /\ new[i].order = o /\ new[i].kind = bodies[j].kind
        /\ new[i].qty = held'[o].filled
    BY <1>10, <2>1, <2>3
  <2>. QED
    BY <1>1, <1>10, <2>2, <2>4 DEF FillQueued, IsFill
<1>11. FillsAreQueued'
  <2>. SUFFICES ASSUME NEW p \in Orders, Recorded(p)', Settling(p)',
                       (row[p].filled # held[p].filled)'
                PROVE  FillQueued(p)' \/ p \in flagged'
    BY DEF FillsAreQueued
  <2>1. CASE held'[p].filled = held[p].filled
    <3>1. Settling(p)
      BY DEF Settling, TellsFills
    <3>2. Recorded(p) /\ row[p].filled # held[p].filled
      BY <1>1, <2>1 DEF Recorded
    <3>3. FillQueued(p) \/ p \in flagged
      BY <1>2, <3>1, <3>2 DEF FillsAreQueued
    <3>. QED
      BY <1>1, <1>9, <2>1, <3>3
  <2>2. CASE held'[p].filled # held[p].filled
    BY <1>10, <2>2 DEF TellsFills
  <2>. QED
    BY <2>1, <2>2
<1>12. CancelIsLast'
  <2>. SUFFICES ASSUME NEW i \in 1..Len(queue'), queue'[i].kind = "cancel_ack"
                PROVE  /\ held'[queue'[i].order].state = "CANCELED"
                       /\ \A j \in i..Len(queue') :
                            queue'[j].order = queue'[i].order => ~IsFill(queue'[j])
    BY DEF CancelIsLast, IsFill
  <2>1. CASE i \in 1..n
    <3>1. /\ queue'[i] = queue[i] /\ i \in 1..Len(queue)
          /\ queue[i].order \in Orders
      <4>1. queue'[i] = queue[i] /\ i \in 1..Len(queue)
        BY <1>6, <1>7, <2>1
      <4>2. queue[i] \in Event
        BY <1>1, <4>1
      <4>. QED
        BY <4>1, <4>2 DEF Event
    <3>2. /\ held[queue[i].order].state = "CANCELED"
          /\ \A j \in i..n : queue[j].order = queue[i].order => ~IsFill(queue[j])
      BY <1>2, <1>6, <3>1 DEF CancelIsLast
    <3>3. queue[i].order # o /\ held'[queue[i].order].state = "CANCELED"
      BY <3>1, <3>2 DEF TellsFills
    <3>4. ASSUME NEW j \in i..Len(queue'), queue'[j].order = queue'[i].order
          PROVE  ~IsFill(queue'[j])
      <4>1. j \in 1..Len(queue') /\ (j \in 1..n => j \in i..n)
        BY <1>7, <2>1
      <4>2. j \in 1..n
        BY <1>8, <3>1, <3>3, <3>4, <4>1
      <4>3. queue'[j] = queue[j]
        BY <1>7, <4>2
      <4>. QED
        BY <3>1, <3>2, <3>4, <4>1, <4>2, <4>3
    <3>. QED
      BY <3>1, <3>3, <3>4
  <2>2. CASE i \notin 1..n
    <3>1. PICK h \in 1..Len(bodies) : queue'[i].order = o /\ queue'[i].kind = bodies[h].kind
      BY <1>8, <2>2
    <3>2. /\ held'[o].state = "CANCELED"
          /\ \A k \in 1..Len(bodies) : ~IsFill(bodies[k])
      BY <3>1 DEF TellsFills
    <3>3. ASSUME NEW j \in i..Len(queue')
          PROVE  ~IsFill(queue'[j])
      <4>1. j \in 1..Len(queue') /\ j \notin 1..n
        BY <1>7, <2>2
      <4>. QED
        BY <1>8, <3>2, <4>1 DEF IsFill
    <3>. QED
      BY <3>1, <3>2, <3>3
  <2>. QED
    BY <2>1, <2>2
<1>13. CanceledIsSettled'
  <2>. SUFFICES ASSUME NEW p \in Orders, (row[p].state = "CANCELED" /\ held[p] # NoOrder)'
                PROVE  (/\ held[p].state = "CANCELED"
                        /\ row[p].filled = held[p].filled \/ p \in flagged)'
    BY DEF CanceledIsSettled
  <2>1. row[p].state = "CANCELED"
    BY <1>1
  <2>2. CASE p = o
    BY <1>2, <2>1, <2>2 DEF CanceledIsSettled, TellsFills
  <2>3. CASE p # o
    <3>1. held'[p] = held[p]
      BY <2>3
    <3>. QED
      BY <1>1, <1>2, <2>1, <3>1 DEF CanceledIsSettled
  <2>. QED
    BY <2>2, <2>3
<1>. QED
  BY <1>4, <1>11, <1>12, <1>13 DEF FillsFate

(* A row keeps its total or takes the broker's, and becomes CANCELED only  *)
(* when the broker's order is.                                             *)
LEMMA StoreMovesFills ==
  ASSUME FillsInv, TypeInv', UNCHANGED <<held, queue, lastId, seen>>,
         flagged \subseteq flagged',
         \A o \in Orders : Recorded(o)' =>
           \/ /\ Recorded(o) /\ row'[o].filled = row[o].filled
              /\ row'[o].state = "CANCELED" => row[o].state = "CANCELED" \/ held[o] = NoOrder
           \/ /\ Settling(o) => row'[o].filled = held[o].filled
              /\ row'[o].state = "CANCELED" =>
                   held[o].state = "CANCELED" \/ held[o] = NoOrder,
         AnswersAreFresh'
  PROVE  FillsFate'
<1>1. FillsAreQueued /\ IdsNameEvents /\ CancelIsLast /\ CanceledIsSettled
  BY DEF FillsInv, FillsFate
<1>2. IdsNameEvents' /\ CancelIsLast'
  BY <1>1 DEF IdsNameEvents, CancelIsLast
<1>3. \A o \in Orders : /\ FillQueued(o) => FillQueued(o)'
                        /\ Settling(o)' => Settling(o)
  BY DEF FillQueued, Settling
<1>4. FillsAreQueued'
  <2>. SUFFICES ASSUME NEW p \in Orders, Recorded(p)', Settling(p)',
                       (row[p].filled # held[p].filled)'
                PROVE  FillQueued(p)' \/ p \in flagged'
    BY DEF FillsAreQueued
  <2>1. Settling(p) /\ Recorded(p) /\ row[p].filled # held[p].filled
    BY <1>3
  <2>2. FillQueued(p) \/ p \in flagged
    BY <1>1, <2>1 DEF FillsAreQueued
  <2>. QED
    BY <1>3, <2>2
<1>5. CanceledIsSettled'
  <2>. SUFFICES ASSUME NEW p \in Orders, (row[p].state = "CANCELED" /\ held[p] # NoOrder)'
                PROVE  (/\ held[p].state = "CANCELED"
                        /\ row[p].filled = held[p].filled \/ p \in flagged)'
    BY DEF CanceledIsSettled
  <2>1. Recorded(p)' /\ held[p] # NoOrder
    BY DEF Recorded, NoRow
  <2>2. held[p].state = "CANCELED" => Settling(p)
    BY DEF Settling
  <2>. QED
    BY <1>1, <2>1, <2>2 DEF CanceledIsSettled
<1>. QED
  BY <1>2, <1>4, <1>5 DEF FillsFate

(* Whatever event is applied, the fill a row lacks is still to come, is in *)
(* the row now, or was refused and flagged.                                *)
LEMMA DeliverFills ==
  ASSUME FillsInv, TypeInv', Deliver
  PROVE  FillsFate'
<1>1. /\ queue \in Seq(Event) /\ queue # <<>> /\ queue' = Tail(queue)
      /\ row \in [Orders -> Row \cup {NoRow}]
      /\ UNCHANGED <<held, lastId, call>> /\ ApplyBrokerEvent(Head(queue))
  BY DEF Deliver, FillsInv, TruthInv, SendInv, TypeInv, TypeOK, StoreTypeOK, gatewayVars
<1>2. /\ FillsAreQueued /\ AnswersAreFresh /\ IdsNameEvents /\ CancelIsLast
      /\ CanceledIsSettled /\ EventsAreTrue /\ RowsAgree
  BY DEF FillsInv, FillsFate, TruthInv
<1>3. \A p \in Orders : held[p].filled \in Nat
  BY DEF FillsInv, TruthInv, SendInv, TypeInv, TypeOK, BrokerTypeOK, BrokerOrder, NoOrder
<1>4. PICK n \in Nat : n = Len(queue) /\ n >= 1
  BY <1>1
<1>5. PICK e \in Event : e = Head(queue) /\ e = queue[1]
  BY <1>1
<1>6. /\ Len(queue') = n - 1
      /\ \A i \in 1..(n - 1) : i + 1 \in 1..n /\ queue'[i] = queue[i + 1]
      /\ \A i \in 2..n : i - 1 \in 1..(n - 1) /\ queue'[i - 1] = queue[i]
  BY <1>1, <1>4
<1>7. PICK o \in Orders : o = e.order
  BY DEF Event
<1>8. /\ Says(o, e.kind, e.qty)
      /\ e.kind = "cancel_ack" =>
           /\ held[o].state = "CANCELED"
           /\ \A j \in 1..n : queue[j].order = o => ~IsFill(queue[j])
  BY <1>2, <1>4, <1>5, <1>7 DEF EventsAreTrue, CancelIsLast
<1>9. seen' = seen \cup {e.id}
  BY <1>1, <1>5 DEF ApplyBrokerEvent, storeVars
<1>10. PICK r : r = row[o]
  OBVIOUS
<1>11. \/ /\ UNCHANGED row
          /\ Recorded(o) /\ e.id \notin seen /\ ~IsNoop(r, e) => o \in flagged'
       \/ /\ Recorded(o) /\ UNCHANGED flagged /\ e.id \notin seen
          /\ \/ IsNoop(r, e) /\ row' = [row EXCEPT ![o] = Noted(r, e)]
             \/ /\ ~IsNoop(r, e) /\ IsLegal(r.state, Target[e.kind])
                /\ row' = [row EXCEPT ![o] = Applied(r, e)]
  BY <1>1, <1>5, <1>7, <1>10 DEF ApplyBrokerEvent, storeVars
<1>12. flagged \subseteq flagged'
  BY <1>1, <1>5 DEF ApplyBrokerEvent, storeVars
<1>13. \A p \in Orders : p # o => row'[p] = row[p]
  BY <1>1, <1>11
<1>14. ASSUME Recorded(o)
       PROVE  /\ r \in Row /\ r.filled \in Nat /\ r.filled <= held[o].filled
              /\ \/ row'[o] = r
                 \/ /\ e.id \notin seen /\ IsNoop(r, e)
                    /\ row'[o].state = r.state /\ row'[o].filled = r.filled
                 \/ /\ e.id \notin seen /\ ~IsNoop(r, e) /\ IsLegal(r.state, Target[e.kind])
                    /\ row'[o].state = StateAfter(r, e)
                    /\ row'[o].filled = FilledAfter(r, e)
  <2>1. r \in Row /\ Agrees(r, held[o])
    BY <1>1, <1>2, <1>10, <1>14 DEF Recorded, RowsAgree
  <2>2. /\ Noted(r, e).state = r.state /\ Noted(r, e).filled = r.filled
        /\ Applied(r, e).state = StateAfter(r, e)
        /\ Applied(r, e).filled = FilledAfter(r, e)
    BY <2>1 DEF Noted, Applied, Row
  <2>3. /\ row' = [row EXCEPT ![o] = Noted(r, e)] => row'[o] = Noted(r, e)
        /\ row' = [row EXCEPT ![o] = Applied(r, e)] => row'[o] = Applied(r, e)
    BY <1>1
  <2>. QED
    BY <1>10, <1>11, <2>1, <2>2, <2>3 DEF Agrees, Row
<1>15. \A p \in Orders : Recorded(p)' => Recorded(p)
  BY <1>1, <1>11, <1>13 DEF Recorded
<1>16. \A p \in Orders : Settling(p)' <=> Settling(p)
  BY <1>1 DEF Settling
<1>17. IdsNameEvents'
  <2>1. seen' \subseteq 0..lastId'
    <3>1. e.id \in 0..lastId
      BY <1>2, <1>4, <1>5 DEF IdsNameEvents
    <3>. QED
      BY <1>1, <1>2, <1>9, <3>1 DEF IdsNameEvents
  <2>2. \A i \in 1..Len(queue') : queue'[i].id \in 0..lastId'
    BY <1>1, <1>2, <1>4, <1>6 DEF IdsNameEvents
  <2>3. ASSUME NEW i \in 1..Len(queue'), NEW j \in 1..Len(queue'),
               queue'[i].id = queue'[j].id
        PROVE  queue'[i] = queue'[j]
    <3>1. PICK a \in 1..n, b \in 1..n : queue'[i] = queue[a] /\ queue'[j] = queue[b]
      BY <1>6
    <3>. QED
      BY <1>2, <1>4, <2>3, <3>1 DEF IdsNameEvents
  <2>. QED
    BY <2>1, <2>2, <2>3 DEF IdsNameEvents
<1>18. CancelIsLast'
  <2>. SUFFICES ASSUME NEW i \in 1..Len(queue'), queue'[i].kind = "cancel_ack"
                PROVE  /\ held'[queue'[i].order].state = "CANCELED"
                       /\ \A j \in i..Len(queue') :
                            queue'[j].order = queue'[i].order => ~IsFill(queue'[j])
    BY DEF CancelIsLast, IsFill
  <2>1. i + 1 \in 1..n /\ queue'[i] = queue[i + 1]
    BY <1>6
  <2>2. /\ held[queue[i + 1].order].state = "CANCELED"
        /\ \A j \in (i + 1)..n : queue[j].order = queue[i + 1].order => ~IsFill(queue[j])
    BY <1>2, <1>4, <2>1 DEF CancelIsLast
  <2>3. ASSUME NEW j \in i..Len(queue'), queue'[j].order = queue'[i].order
        PROVE  ~IsFill(queue'[j])
    <3>1. j + 1 \in (i + 1)..n /\ queue'[j] = queue[j + 1]
      BY <1>6
    <3>. QED
      BY <2>1, <2>2, <2>3, <3>1
  <2>. QED
    BY <1>1, <2>1, <2>2, <2>3
<1>19. ASSUME NEW p \in Orders, FillQueued(p)
       PROVE  FillQueued(p)' \/ (p = o /\ IsFill(e) /\ e.id \notin seen /\ e.qty = held[p].filled)
  <2>1. PICK i \in 1..n : /\ queue[i].order = p /\ IsFill(queue[i])
                          /\ queue[i].id \notin seen /\ queue[i].qty = held[p].filled
    BY <1>4, <1>19 DEF FillQueued
  <2>2. CASE queue[i].id = e.id
    <3>1. queue[i] = e
      BY <1>2, <1>4, <1>5, <2>2 DEF IdsNameEvents
    <3>. QED
      BY <1>7, <2>1, <3>1
  <2>3. CASE queue[i].id # e.id
    <3>1. i \in 2..n
      BY <1>5, <2>3
    <3>2. i - 1 \in 1..Len(queue') /\ queue'[i - 1] = queue[i]
      BY <1>6, <3>1
    <3>3. queue[i].id \notin seen'
      BY <1>9, <2>1, <2>3
    <3>. QED
      BY <1>1, <2>1, <3>2, <3>3 DEF FillQueued, IsFill
  <2>. QED
    BY <2>2, <2>3
<1>20. FillsAreQueued'
  <2>. SUFFICES ASSUME NEW p \in Orders, Recorded(p)', Settling(p)',
                       (row[p].filled # held[p].filled)'
                PROVE  FillQueued(p)' \/ p \in flagged'
    BY DEF FillsAreQueued
  <2>1. Recorded(p) /\ Settling(p) /\ row'[p].filled # held[p].filled
    BY <1>1, <1>15, <1>16
  <2>2. CASE p # o
    <3>1. row[p].filled # held[p].filled
      BY <1>13, <2>1, <2>2
    <3>. QED
      BY <1>2, <1>12, <1>19, <2>1, <2>2, <3>1 DEF FillsAreQueued
  <2>3. CASE p = o
    <3>1. PICK h \in Nat, f \in Nat : h = held[o].filled /\ f = r.filled /\ f <= h
      BY <1>3, <1>14, <2>1, <2>3
    <3>2. f # h
      <4>1. CASE row'[o].filled = f
        BY <2>1, <2>3, <3>1, <4>1
      <4>2. CASE row'[o].filled # f
        <5>1. IsFill(e) /\ ~IsNoop(r, e) /\ row'[o].filled = e.qty
          BY <1>14, <2>1, <2>3, <3>1, <4>2 DEF FilledAfter
        <5>2. e.qty \in Nat /\ e.qty <= h
          BY <1>8, <3>1, <5>1 DEF IsFill, Says, Event
        <5>3. e.qty # h
          BY <2>1, <2>3, <3>1, <5>1
        <5>4. f > 0 => e.qty > f
          BY <3>1, <5>1, <5>2 DEF IsNoop, IsStaleFill
        <5>. QED
          BY <3>1, <5>2, <5>3, <5>4
      <4>. QED
        BY <4>1, <4>2
    <3>3. FillQueued(o) \/ o \in flagged
      BY <1>2, <1>10, <2>1, <2>3, <3>1, <3>2 DEF FillsAreQueued
    <3>4. ASSUME IsFill(e), e.id \notin seen, e.qty = h
          PROVE  o \in flagged'
      <4>1. ~IsNoop(r, e)
        <5>1. ~IsStaleFill(r, e)
          BY <3>1, <3>2, <3>4 DEF IsStaleFill
        <5>. QED
          BY <3>4, <5>1 DEF IsNoop, IsFill
      <4>2. row'[o].filled # e.qty
        BY <2>1, <2>3, <3>1, <3>4
      <4>3. row' # [row EXCEPT ![o] = Applied(r, e)]
        <5>1. FilledAfter(r, e) = e.qty
          BY <3>4 DEF FilledAfter
        <5>2. r \in Row
          BY <1>14, <2>1, <2>3
        <5>3. row' = [row EXCEPT ![o] = Applied(r, e)] => row'[o].filled = e.qty
          BY <1>1, <5>1, <5>2 DEF Applied, Row
        <5>. QED
          BY <4>2, <5>3
      <4>. QED
        BY <1>11, <2>1, <2>3, <3>4, <4>1, <4>3
    <3>. QED
      BY <1>12, <1>19, <2>3, <3>1, <3>3, <3>4
  <2>. QED
    BY <2>2, <2>3
<1>21. CanceledIsSettled'
  <2>. SUFFICES ASSUME NEW p \in Orders, (row[p].state = "CANCELED" /\ held[p] # NoOrder)'
                PROVE  (/\ held[p].state = "CANCELED"
                        /\ row[p].filled = held[p].filled \/ p \in flagged)'
    BY DEF CanceledIsSettled
  <2>1. row'[p].state = "CANCELED" /\ held[p] # NoOrder /\ Recorded(p)
    BY <1>1, <1>15 DEF Recorded, NoRow
  <2>2. CASE row[p].state = "CANCELED" /\ row'[p].filled = row[p].filled
    BY <1>1, <1>2, <1>12, <2>1, <2>2 DEF CanceledIsSettled
  <2>3. CASE ~(row[p].state = "CANCELED" /\ row'[p].filled = row[p].filled)
    <3>1. p = o
      BY <1>13, <2>1, <2>3
    <3>2. /\ IsLegal(r.state, Target[e.kind])
          /\ StateAfter(r, e) = "CANCELED" /\ row'[o].filled = FilledAfter(r, e)
      BY <1>10, <1>14, <2>1, <2>3, <3>1
    <3>3. e.kind = "cancel_ack"
      BY <3>2 DEF StateAfter, Target, Event, EventKind
    <3>4. held[o].state = "CANCELED" /\ row'[o].filled = row[o].filled
      BY <1>8, <1>10, <3>2, <3>3 DEF FilledAfter, IsFill
    <3>5. ~FillQueued(o)
      BY <1>4, <1>8, <3>3 DEF FillQueued
    <3>6. row[o].filled = held[o].filled \/ o \in flagged
      BY <1>2, <2>1, <3>1, <3>4, <3>5 DEF FillsAreQueued, Settling
    <3>. QED
      BY <1>1, <1>12, <3>1, <3>4, <3>6
  <2>. QED
    BY <2>2, <2>3
<1>22. AnswersAreFresh'
  BY <1>1, <1>2, <1>16 DEF AnswersAreFresh, IsFresh, Settling
<1>. QED
  BY <1>17, <1>18, <1>20, <1>21, <1>22 DEF FillsFate

(* No caller begins to await a status.                                     *)
NobodyAsks ==
  \A d \in Callers : call'[d].pc = "status_answer" => call'[d] = call[d]

LEMMA CallsMove ==
  ASSUME TypeOK, NEW c \in Callers
  PROVE  /\ UNCHANGED call \/ End(c) => NobodyAsks
         /\ \A pc \in Pc \ {"status_answer"} :
              call[c].pc # "idle" /\ GoOn(c, pc) => NobodyAsks
         /\ \A o \in Orders, pc \in Pc \ {"status_answer"} : Begin(c, o, pc) => NobodyAsks
         /\ \A o \in Orders, pc \in Pc \ {"status_answer"}, answer \in Answer :
              Await(c, o, pc, answer, NoOrder) => NobodyAsks /\ call'[c].pc = pc
<1>1. call \in [Callers -> Call \cup {Idle}]
  BY DEF TypeOK
<1>2. ASSUME NEW k, k.pc # "status_answer", call' = [call EXCEPT ![c] = k]
      PROVE  NobodyAsks /\ call'[c] = k
  BY <1>1, <1>2 DEF NobodyAsks
<1>3. UNCHANGED call => NobodyAsks
  BY DEF NobodyAsks
<1>4. End(c) => NobodyAsks
  BY <1>2 DEF End, Idle
<1>5. ASSUME NEW pc \in Pc \ {"status_answer"}, call[c].pc # "idle", GoOn(c, pc)
      PROVE  NobodyAsks
  <2>1. call[c] \in Call
    BY <1>1, <1>5 DEF Idle
  <2>2. PICK k : k = [call[c] EXCEPT !.pc = pc] /\ k.pc = pc
    <3>1. [call[c] EXCEPT !.pc = pc].pc = pc
      BY <2>1 DEF Call
    <3>. QED
      BY <3>1
  <2>3. call' = [call EXCEPT ![c] = k]
    BY <1>5, <2>2 DEF GoOn
  <2>. QED
    BY <1>2, <2>2, <2>3
<1>6. ASSUME NEW o \in Orders, NEW pc \in Pc \ {"status_answer"}, Begin(c, o, pc)
      PROVE  NobodyAsks
  <2>1. PICK k : k = [pc |-> pc, order |-> o, answer |-> "none", truth |-> NoOrder]
                 /\ k.pc = pc
    <3>1. [pc |-> pc, order |-> o, answer |-> "none", truth |-> NoOrder].pc = pc
      OBVIOUS
    <3>. QED
      BY <3>1
  <2>. QED
    BY <1>2, <1>6, <2>1 DEF Begin
<1>7. ASSUME NEW o \in Orders, NEW pc \in Pc \ {"status_answer"}, NEW answer \in Answer,
             Await(c, o, pc, answer, NoOrder)
      PROVE  NobodyAsks /\ call'[c].pc = pc
  <2>1. PICK k : k = [pc |-> pc, order |-> o, answer |-> answer, truth |-> NoOrder]
                 /\ k.pc = pc
    <3>1. [pc |-> pc, order |-> o, answer |-> answer, truth |-> NoOrder].pc = pc
      OBVIOUS
    <3>. QED
      BY <3>1
  <2>2. call' = [call EXCEPT ![c] = k]
    BY <1>7, <2>1 DEF Await
  <2>. QED
    BY <1>2, <2>1, <2>2
<1>. QED
  BY <1>3, <1>4, <1>5, <1>6, <1>7

(* A move that is no cancel, or of an order the broker does not hold.      *)
LEMMA QuietFills ==
  ASSUME FillsInv, TypeInv', NEW o \in Orders, NEW to,
         UNCHANGED row \/ (Recorded(o) /\ Move(o, to)),
         to # "CANCELED" \/ held[o] = NoOrder,
         UNCHANGED brokerVars, UNCHANGED seen, flagged \subseteq flagged', NobodyAsks
  PROVE  FillsFate'
<1>1. row \in [Orders -> Row \cup {NoRow}] /\ UNCHANGED <<held, queue, lastId>>
  BY DEF FillsInv, TruthInv, SendInv, TypeInv, TypeOK, StoreTypeOK, brokerVars
<1>2. AnswersAreFresh'
  BY <1>1 DEF FillsInv, FillsFate, AnswersAreFresh, IsFresh, Settling, NobodyAsks
<1>3. ASSUME NEW p \in Orders, Recorded(p)'
      PROVE  /\ Recorded(p) /\ row'[p].filled = row[p].filled
             /\ row'[p].state = "CANCELED" => row[p].state = "CANCELED" \/ held[p] = NoOrder
  <2>1. CASE UNCHANGED row
    BY <1>3, <2>1 DEF Recorded
  <2>2. CASE Recorded(o) /\ Move(o, to)
    <3>1. row[o] \in Row
      BY <1>1, <2>2 DEF Recorded
    <3>2. p # o => row'[p] = row[p]
      BY <1>1, <2>2 DEF Move
    <3>3. row'[o].filled = row[o].filled /\ row'[o].state = to
      BY <1>1, <2>2, <3>1 DEF Move, Row
    <3>. QED
      BY <1>3, <2>2, <3>2, <3>3 DEF Recorded
  <2>. QED
    BY <2>1, <2>2
<1>. QED
  BY <1>1, <1>2, <1>3, StoreMovesFills

(* What a status is awaited for stays fresh: an order asked for is past its *)
(* send, and whoever cancels one alone asks for none.                      *)
LEMMA SendKeepsFresh ==
  ASSUME FillsInv, NEW c \in Callers, NEW o \in Orders, call[c].pc = "send",
         call[c].order = o, held[o] = NoOrder, NobodyAsks,
         \A p \in Orders \ {o} : held'[p] = held[p]
  PROVE  AnswersAreFresh'
<1>. SUFFICES ASSUME NEW d \in Callers, call'[d].pc = "status_answer"
              PROVE  IsFresh(call[d])'
  BY DEF AnswersAreFresh
<1>1. call'[d] = call[d] /\ call[d].pc = "status_answer"
  BY DEF NobodyAsks
<1>2. call[d].order \in Orders /\ AnswerIsTrue(call[d]) /\ IsFresh(call[d])
  BY <1>1, CallType DEF FillsInv, FillsFate, AnswersAreFresh, TruthInv, AnswersAreTrue, SendInv, TypeInv
<1>3. call[d].order # o
  BY <1>1, <1>2 DEF AnswerIsTrue, IsFresh, NeverHeld, Sending
<1>4. PICK k : k = call[d] /\ k = call'[d]
  BY <1>1
<1>5. held'[k.order] = held[k.order] /\ IsFresh(k)
  BY <1>2, <1>3, <1>4
<1>6. IsFresh(k)'
  BY <1>5 DEF IsFresh, Settling
<1>. QED
  BY <1>4, <1>6

LEMMA CancelKeepsFresh ==
  ASSUME FillsInv, NEW c \in Callers, NEW o \in Orders, call'[c].pc = "cancel_answer",
         NobodyAsks, held[o] # NoOrder, held[o].state \notin {"FILLED", "CANCELED"},
         held'[o].state \in {"CANCELED", "FILLED"},
         held'[o].filled = held[o].filled \/ held'[o].state = "FILLED",
         \A p \in Orders \ {o} : held'[p] = held[p]
  PROVE  AnswersAreFresh'
<1>. SUFFICES ASSUME NEW d \in Callers, call'[d].pc = "status_answer"
              PROVE  IsFresh(call[d])'
  BY DEF AnswersAreFresh
<1>1. call'[d] = call[d] /\ call[d].pc = "status_answer" /\ ~Alone
  BY DEF NobodyAsks, Alone
<1>2. call[d].order \in Orders /\ IsFresh(call[d])
  BY <1>1, CallType DEF FillsInv, FillsFate, AnswersAreFresh, TruthInv, SendInv, TypeInv
<1>3. PICK k : k = call[d] /\ k = call'[d]
  BY <1>1
<1>4. CASE k.order # o
  <2>1. held'[k.order] = held[k.order] /\ IsFresh(k)
    BY <1>2, <1>3, <1>4
  <2>. QED
    BY <1>3, <2>1 DEF IsFresh, Settling
<1>5. CASE k.order = o
  <2>1. held'[o] # NoOrder
    BY DEF NoOrder
  <2>2. /\ k.truth.state # "CANCELED"
        /\ k.truth.filled = held[o].filled
    BY <1>2, <1>3, <1>5 DEF IsFresh, Settling
  <2>3. IsFresh(k)'
    BY <1>1, <1>5, <2>1, <2>2 DEF IsFresh, Settling
  <2>. QED
    BY <1>3, <2>3
<1>. QED
  BY <1>4, <1>5

THEOREM FillsInit == Init => FillsInv
<1>. SUFFICES ASSUME Init PROVE FillsInv
  OBVIOUS
<1>1. FillsAreQueued /\ CanceledIsSettled
  BY DEF Init, StoreInit, FillsAreQueued, CanceledIsSettled, Recorded, NoRow
<1>2. AnswersAreFresh
  BY DEF Init, AnswersAreFresh, Idle
<1>3. IdsNameEvents /\ CancelIsLast
  BY DEF Init, StoreInit, BrokerInit, IdsNameEvents, CancelIsLast
<1>. QED
  BY <1>1, <1>2, <1>3, TruthInit DEF FillsInv, FillsFate

(* While crashes lose no event, no action loses track of a fill.           *)
THEOREM FillsNext == ASSUME ~LossyCrash PROVE FillsInv /\ [Next]_vars => FillsInv'
<1>. SUFFICES ASSUME FillsInv, [Next]_vars PROVE FillsInv'
  OBVIOUS
<1>1. TruthInv /\ SendInv /\ TypeInv /\ TypeInv' /\ TypeOK /\ FillsFate
  BY TypeNext DEF FillsInv, TruthInv, SendInv, TypeInv
<1>2. TruthInv'
  BY <1>1, TruthNext
<1>. SUFFICES FillsFate'
  BY <1>2 DEF FillsInv
<1>3. /\ row \in [Orders -> Row \cup {NoRow}] /\ queue \in Seq(Event)
      /\ held \in [Orders -> BrokerOrder \cup {NoOrder}]
      /\ call \in [Callers -> Call \cup {Idle}]
  BY <1>1 DEF TypeOK, StoreTypeOK, BrokerTypeOK
<1>4. \A c \in Callers : call[c].pc # "idle" =>
        /\ call[c] \in Call /\ call[c].order \in Orders /\ Recorded(call[c].order)
  BY <1>1, CallType DEF TypeInv, CallsRecorded
<1>5. Plans \subseteq FaultPlan
  BY PlansAssumption
<1>6. ASSUME NEW c \in Callers, NEW o \in Orders, NEW kind \in Kind,
             SubmitPersist(c, o, kind)
      PROVE  FillsFate'
  <2>1. /\ ~Recorded(o) /\ Begin(c, o, "guard")
        /\ row' = [row EXCEPT ![o] = [state |-> "CREATED", filled |-> 0,
                                      prot |-> 0, kind |-> kind]]
        /\ UNCHANGED <<held, queue, lastId, seen, flagged>>
    BY <1>6 DEF SubmitPersist, PersistIntent, MayPersist, brokerVars
  <2>2. NobodyAsks
    BY <1>1, <2>1, CallsMove DEF Pc, PreSend
  <2>3. AnswersAreFresh'
    BY <1>1, <2>1, <2>2 DEF FillsFate, AnswersAreFresh, IsFresh, Settling, NobodyAsks
  <2>4. held[o] = NoOrder /\ held[o].filled = 0
    BY <1>1, <2>1 DEF SendInv, RecordedBeforeSent, NoOrder
  <2>5. row'[o].filled = 0 /\ row'[o].state = "CREATED"
        /\ \A p \in Orders : p # o => row'[p] = row[p]
    BY <1>3, <2>1
  <2>6. \A p \in Orders : Recorded(p)' =>
           \/ /\ Recorded(p) /\ row'[p].filled = row[p].filled
              /\ row'[p].state = "CANCELED" => row[p].state = "CANCELED" \/ held[p] = NoOrder
           \/ /\ Settling(p) => row'[p].filled = held[p].filled
              /\ row'[p].state = "CANCELED" =>
                   held[p].state = "CANCELED" \/ held[p] = NoOrder
    BY <2>4, <2>5 DEF Recorded
  <2>. QED
    BY <1>1, <2>1, <2>3, <2>6, StoreMovesFills
<1>7. ASSUME NEW c \in Callers, SubmitGuard(c) \/ SubmitApprove(c) \/ SubmitMark(c)
      PROVE  FillsFate'
  <2>1. PICK o \in Orders : o = call[c].order /\ Recorded(o) /\ call[c].pc # "idle"
    BY <1>4, <1>7 DEF SubmitGuard, SubmitApprove, SubmitMark, At
  <2>2. UNCHANGED <<seen, flagged>> /\ UNCHANGED brokerVars
    BY <1>7 DEF SubmitGuard, SubmitApprove, SubmitMark
  <2>3. PICK to \in {"REJECTED", "VALIDATED", "APPROVED", "SUBMITTING"} : Move(o, to)
    BY <1>7, <2>1 DEF SubmitGuard, SubmitApprove, SubmitMark
  <2>4. End(c) \/ \E pc \in Pc \ {"status_answer"} : GoOn(c, pc)
    BY <1>7 DEF SubmitGuard, SubmitApprove, SubmitMark, Pc, PreSend
  <2>5. NobodyAsks
    BY <1>1, <2>1, <2>4, CallsMove
  <2>. QED
    BY <1>1, <2>1, <2>2, <2>3, <2>5, QuietFills
<1>8. ASSUME NEW c \in Callers, SubmitSend(c)
      PROVE  FillsFate'
  <2>1. PICK o \in Orders : o = call[c].order
    BY <1>4, <1>8 DEF SubmitSend, At
  <2>2. PICK plan \in Plans :
          /\ BrokerSubmit(o, plan)
          /\ Await(c, o, "submit_answer", SubmitAnswer(plan), NoOrder)
    BY <1>8, <2>1 DEF SubmitSend
  <2>3. call[c].pc = "send" /\ UNCHANGED storeVars /\ UNCHANGED <<row, seen, flagged>>
    BY <1>8 DEF SubmitSend, At, storeVars
  <2>4. held[o] = NoOrder /\ row[o].state = "SUBMITTING"
    BY <1>1, <2>1, <2>3 DEF SendInv, SendDiscipline, CopiesAgree, PreSend, StateAt
  <2>5. NobodyAsks
    <3>1. SubmitAnswer(plan) \in Answer /\ "submit_answer" \in Pc \ {"status_answer"}
      BY DEF SubmitAnswer, Answer, Pc, Awaiting
    <3>. QED
      BY <1>1, <2>2, <3>1, CallsMove
  <2>6. CASE UNCHANGED brokerVars
    BY <1>1, <2>3, <2>4, <2>5, <2>6, QuietFills
  <2>7. CASE ~UNCHANGED brokerVars
    <3>1. PICK bodies \in Seq(BodyType) : TellsFills(o, plan, bodies)
      BY <1>1, <2>2, <2>4, <2>7, SubmitTellsFills
    <3>2. \A p \in Orders \ {o} : held'[p] = held[p]
      BY <1>1, <2>2, <2>4, SubmitHolds
    <3>3. AnswersAreFresh'
      BY <2>1, <2>3, <2>4, <2>5, <3>2, SendKeepsFresh
    <3>. QED
      BY <1>1, <1>5, <2>3, <2>4, <3>1, <3>2, <3>3, BrokerMovesFills
  <2>. QED
    BY <2>6, <2>7
<1>9. ASSUME NEW c \in Callers, SubmitReturn(c) \/ CancelReturn(c) \/ ReconcileNotFound(c)
      PROVE  FillsFate'
  <2>1. PICK o \in Orders : o = call[c].order /\ Recorded(o)
    BY <1>4, <1>9 DEF SubmitReturn, CancelReturn, ReconcileNotFound, Answered
  <2>2. End(c) /\ UNCHANGED brokerVars /\ UNCHANGED <<seen, flagged>>
    BY <1>9 DEF SubmitReturn, CancelReturn, ReconcileNotFound
  <2>3. NobodyAsks
    BY <1>1, <2>2, CallsMove
  <2>4. PICK to : to # "CANCELED" /\ (UNCHANGED row \/ Move(o, to))
    <3>1. CASE SubmitReturn(c)
      <4>1. call[c].answer \in DOMAIN SubmitOutcome
        BY <1>1, <3>1 DEF SubmitReturn, Answered, TruthInv, AnswersAreTrue, AnswerIsTrue
      <4>2. SubmitOutcome[call[c].answer] # "CANCELED"
        BY <4>1 DEF SubmitOutcome
      <4>. QED
        BY <2>1, <3>1, <4>2 DEF SubmitReturn, TryMove, NotAllowed
    <3>2. CASE CancelReturn(c) \/ ReconcileNotFound(c)
      <4>1. UNCHANGED row \/ Move(o, "UNKNOWN") \/ Move(o, "REJECTED")
        BY <2>1, <3>2 DEF CancelReturn, ReconcileNotFound, TryMove, NotAllowed
      <4>. QED
        BY <4>1
    <3>. QED
      BY <1>9, <3>1, <3>2
  <2>. QED
    BY <1>1, <2>1, <2>2, <2>3, <2>4, QuietFills
<1>10. ASSUME NEW c \in Callers, NEW o \in Orders, CancelLocally(c, o)
       PROVE  FillsFate'
  <2>1. /\ row[o].state \in {"AWAITING_APPROVAL", "APPROVED"} /\ Move(o, "CANCELED")
        /\ UNCHANGED brokerVars /\ UNCHANGED <<seen, flagged, call>>
    BY <1>10 DEF CancelLocally, gatewayVars
  <2>2. Recorded(o) /\ held[o] = NoOrder
    BY <1>1, <2>1 DEF SendInv, RecordedBeforeSent, BeforeSend, Recorded, NoRow
  <2>3. NobodyAsks
    BY <2>1 DEF NobodyAsks
  <2>. QED
    BY <1>1, <2>1, <2>2, <2>3, QuietFills
<1>11. ASSUME NEW c \in Callers, NEW o \in Orders, CancelRequest(c, o)
       PROVE  FillsFate'
  <2>1. /\ Recorded(o) /\ Move(o, "CANCEL_PENDING") /\ Begin(c, o, "cancel_send")
        /\ UNCHANGED brokerVars /\ UNCHANGED <<seen, flagged>>
    BY <1>11 DEF CancelRequest, MayMove
  <2>2. NobodyAsks
    BY <1>1, <2>1, CallsMove DEF Pc
  <2>. QED
    BY <1>1, <2>1, <2>2, QuietFills
<1>12. ASSUME NEW c \in Callers, CancelSend(c)
       PROVE  FillsFate'
  <2>1. PICK o \in Orders : o = call[c].order
    BY <1>4, <1>12 DEF CancelSend, At
  <2>2. PICK plan \in Plans :
          /\ BrokerCancel(o, plan)
          /\ Await(c, o, "cancel_answer", CancelAnswer(o, plan), NoOrder)
    BY <1>12, <2>1 DEF CancelSend
  <2>3. UNCHANGED storeVars /\ UNCHANGED <<row, seen, flagged>>
    BY <1>12 DEF CancelSend, storeVars
  <2>4. NobodyAsks /\ call'[c].pc = "cancel_answer"
    <3>1. CancelAnswer(o, plan) \in Answer /\ "cancel_answer" \in Pc \ {"status_answer"}
      BY DEF CancelAnswer, Answer, Pc, Awaiting
    <3>. QED
      BY <1>1, <2>2, <3>1, CallsMove
  <2>5. CASE UNCHANGED brokerVars
    <3>1. "UNKNOWN" # "CANCELED"
      OBVIOUS
    <3>. QED
      BY <1>1, <2>3, <2>4, <2>5, <3>1, QuietFills
  <2>6. CASE ~UNCHANGED brokerVars
    <3>1. /\ held[o] # NoOrder
          /\ \A p \in Orders \ {o} : held'[p] = held[p]
          /\ held'[o].state \in {"CANCELED", "FILLED"}
          /\ held'[o].filled = held[o].filled \/ held'[o].state = "FILLED"
          /\ \E bodies \in Seq(BodyType) : TellsFills(o, plan, bodies)
      BY <1>1, <2>2, <2>6, CancelTellsFills
    <3>2. PICK bodies \in Seq(BodyType) : TellsFills(o, plan, bodies)
      BY <3>1
    <3>3. AnswersAreFresh'
      BY <2>4, <3>1, <3>2, CancelKeepsFresh DEF TellsFills
    <3>. QED
      BY <1>1, <1>5, <2>3, <3>1, <3>2, <3>3, BrokerMovesFills
  <2>. QED
    BY <2>5, <2>6
<1>13. ASSUME NEW c \in Callers, NEW o \in Orders, ReconcileAsk(c, o)
       PROVE  FillsFate'
  <2>1. /\ UNCHANGED <<row, seen, flagged, held, queue, lastId>>
        /\ call' = [call EXCEPT ![c] = [pc |-> "status_answer", order |-> o,
                                answer |-> "none", truth |-> held[o]]]
    BY <1>13 DEF ReconcileAsk, Await, storeVars, brokerVars
  <2>2. AnswersAreFresh'
    <3>. SUFFICES ASSUME NEW d \in Callers, call'[d].pc = "status_answer"
                  PROVE  IsFresh(call[d])'
      BY DEF AnswersAreFresh
    <3>1. CASE d = c
      <4>1. call'[d].order = o /\ call'[d].truth = held[o]
        BY <1>3, <2>1, <3>1
      <4>. QED
        BY <2>1, <4>1 DEF IsFresh
    <3>2. CASE d # c
      <4>1. call'[d] = call[d]
        BY <1>3, <2>1, <3>2
      <4>2. IsFresh(call[d])
        BY <1>1, <4>1 DEF FillsFate, AnswersAreFresh
      <4>. QED
        BY <2>1, <4>1, <4>2 DEF IsFresh, Settling
    <3>. QED
      BY <3>1, <3>2
  <2>3. \A p \in Orders : Recorded(p)' =>
          /\ Recorded(p) /\ row'[p].filled = row[p].filled
          /\ row'[p].state = "CANCELED" => row[p].state = "CANCELED"
    BY <2>1 DEF Recorded
  <2>. QED
    BY <1>1, <2>1, <2>2, <2>3, StoreMovesFills
<1>14. ASSUME NEW c \in Callers, ReconcileFound(c)
       PROVE  FillsFate'
  <2>1. PICK o \in Orders : o = call[c].order /\ Recorded(o)
    BY <1>4, <1>14 DEF ReconcileFound, Answered
  <2>2. /\ call[c].pc = "status_answer" /\ call[c].truth # NoOrder /\ call[c] \in Call
        /\ UNCHANGED brokerVars /\ UNCHANGED <<held, queue, lastId, seen, flagged>>
    BY <1>4, <1>14 DEF ReconcileFound, Answered, brokerVars
  <2>3. PICK t \in BrokerOrder : t = call[c].truth
    BY <2>2 DEF Call
  <2>4. /\ held[o] # NoOrder /\ (t.state = "CANCELED" => held[o].state = "CANCELED")
        /\ Settling(o) => t.filled = held[o].filled
    BY <1>1, <2>1, <2>2, <2>3 DEF FillsFate, AnswersAreFresh, IsFresh
  <2>5. \/ MoveWithTotals(o, t.state, t.filled, t.prot)
        \/ UNCHANGED row
    BY <1>14, <2>1, <2>3 DEF ReconcileFound, NotAllowed
  <2>6. End(c) \/ GoOn(c, "request_protection")
    BY <1>14 DEF ReconcileFound
  <2>7. NobodyAsks
    BY <1>1, <2>2, <2>6, CallsMove DEF Pc
  <2>8. AnswersAreFresh'
    BY <1>1, <2>2, <2>7 DEF FillsFate, AnswersAreFresh, IsFresh, Settling, NobodyAsks
  <2>9. \A p \in Orders : p # o => row'[p] = row[p]
    BY <1>3, <2>5 DEF MoveWithTotals
  <2>10. row'[o] = row[o] \/ (row'[o].state = t.state /\ row'[o].filled = t.filled)
    <3>1. row[o] \in Row
      BY <1>3, <2>1 DEF Recorded
    <3>. QED
      BY <1>3, <2>5, <3>1 DEF MoveWithTotals, Row
  <2>11. \A p \in Orders : Recorded(p)' =>
           \/ /\ Recorded(p) /\ row'[p].filled = row[p].filled
              /\ row'[p].state = "CANCELED" => row[p].state = "CANCELED" \/ held[p] = NoOrder
           \/ /\ Settling(p) => row'[p].filled = held[p].filled
              /\ row'[p].state = "CANCELED" =>
                   held[p].state = "CANCELED" \/ held[p] = NoOrder
    BY <2>4, <2>9, <2>10 DEF Recorded
  <2>. QED
    BY <1>1, <2>2, <2>8, <2>11, StoreMovesFills
<1>15. ASSUME NEW c \in Callers, RequestProtection(c)
       PROVE  FillsFate'
  <2>1. PICK o \in Orders : o = call[c].order /\ Recorded(o)
    BY <1>4, <1>15 DEF RequestProtection, At
  <2>2. /\ Move(o, "PROTECTION_PENDING") /\ End(c)
        /\ UNCHANGED brokerVars /\ UNCHANGED <<seen, flagged>>
    BY <1>15, <2>1 DEF RequestProtection
  <2>3. NobodyAsks
    BY <1>1, <2>2, CallsMove
  <2>. QED
    BY <1>1, <2>1, <2>2, <2>3, QuietFills
<1>16. CASE Deliver
  BY <1>1, <1>16, DeliverFills
<1>17. ASSUME NEW o \in Orders, UnknownTimeout(o)
       PROVE  FillsFate'
  <2>1. /\ Recorded(o) /\ (UNCHANGED row \/ Move(o, "UNKNOWN"))
        /\ UNCHANGED brokerVars /\ UNCHANGED <<seen, call>> /\ flagged \subseteq flagged'
    BY <1>17 DEF UnknownTimeout, gatewayVars
  <2>2. NobodyAsks
    BY <2>1 DEF NobodyAsks
  <2>. QED
    BY <1>1, <2>1, <2>2, QuietFills
<1>18. CASE Crash
  <2>1. /\ UNCHANGED <<row, seen, flagged, held, lastId>>
        /\ queue' = SubSeq(queue, 0 + 1, Len(queue))
        /\ call' = [c \in Callers |-> Idle]
    BY <1>18 DEF Crash, storeVars
  <2>2. UNCHANGED queue
    BY <1>3, <2>1
  <2>3. AnswersAreFresh'
    BY <2>1 DEF AnswersAreFresh, Idle
  <2>4. \A p \in Orders : Recorded(p)' =>
          /\ Recorded(p) /\ row'[p].filled = row[p].filled
          /\ row'[p].state = "CANCELED" => row[p].state = "CANCELED"
    BY <2>1 DEF Recorded
  <2>. QED
    BY <1>1, <2>1, <2>2, <2>3, <2>4, StoreMovesFills
<1>19. CASE UNCHANGED vars
  <2>1. UNCHANGED <<row, seen, flagged, held, queue, lastId, call>>
    BY <1>19 DEF vars, storeVars, brokerVars, gatewayVars
  <2>2. AnswersAreFresh'
    BY <1>1, <2>1 DEF FillsFate, AnswersAreFresh, IsFresh, Settling
  <2>3. \A p \in Orders : Recorded(p)' =>
          /\ Recorded(p) /\ row'[p].filled = row[p].filled
          /\ row'[p].state = "CANCELED" => row[p].state = "CANCELED"
    BY <2>1 DEF Recorded
  <2>. QED
    BY <1>1, <2>1, <2>2, <2>3, StoreMovesFills
<1>. QED
  BY <1>6, <1>7, <1>8, <1>9, <1>10, <1>11, <1>12, <1>13, <1>14, <1>15, <1>16, <1>17,
     <1>18, <1>19
     DEF Next, Submit, Cancel, Reconcile

LEMMA FillsInvariant == ASSUME ~LossyCrash PROVE Spec => []FillsInv
<1>. QED
  BY FillsInit, FillsNext, PTL DEF Spec

(* A canceled row has the broker's final total or says that it may not,    *)
(* for any number of callers, while no crash loses what was drained from   *)
(* the broker's queue.                                                     *)
THEOREM CanceledRowsAreSettled == ASSUME ~LossyCrash PROVE Spec => []CanceledIsSettled
<1>1. FillsInv => CanceledIsSettled
  BY DEF FillsInv, FillsFate
<1>. QED
  BY <1>1, FillsInvariant, PTL

(* For callers that take turns, every fill a row lacks is on its way or    *)
(* flagged.                                                                *)
THEOREM FillsAreAccounted == ASSUME ~LossyCrash, Alone PROVE Spec => []FillsAccounted
<1>1. FillsInv => FillsAccounted
  <2>. SUFFICES ASSUME FillsInv, NEW o \in Orders, Recorded(o),
                       row[o].filled < held[o].filled
                PROVE  FillQueued(o) \/ o \in flagged
    BY DEF FillsAccounted
  <2>1. row[o].filled \in Nat /\ held[o].filled \in Nat
    BY DEF FillsInv, TruthInv, SendInv, TypeInv, TypeOK, StoreTypeOK, BrokerTypeOK,
           Recorded, Row, BrokerOrder, NoOrder
  <2>2. row[o].filled # held[o].filled /\ Settling(o)
    BY <2>1 DEF Settling
  <2>. QED
    BY <2>2 DEF FillsInv, FillsFate, FillsAreQueued
<1>. QED
  BY <1>1, FillsInvariant, PTL

=============================================================================
