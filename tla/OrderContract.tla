---------------------------- MODULE OrderContract ----------------------------
(***************************************************************************)
(* What the gateway promises about one client order id, with no store, no  *)
(* calls and no broker protocol: the order is recorded before it is sent,  *)
(* it is sent at most once, and once it is past sending it never reaches   *)
(* the broker again (PRODUCT_SPEC section 10, "Invariants").               *)
(***************************************************************************)
EXTENDS Naturals

CONSTANTS Orders

VARIABLES phase,    \* phase[o]: "new", "recorded" or "past" sending
          copies    \* copies[o]: broker orders that exist for o

ContractInit ==
  /\ phase = [o \in Orders |-> "new"]
  /\ copies = [o \in Orders |-> 0]

Record(o) ==
  /\ phase[o] = "new"
  /\ phase' = [phase EXCEPT ![o] = "recorded"]
  /\ UNCHANGED copies

(* The send may reach the broker or not; the gateway may never learn.      *)
Send(o) ==
  /\ phase[o] = "recorded"
  /\ phase' = [phase EXCEPT ![o] = "past"]
  /\ \E n \in {0, 1} : copies' = [copies EXCEPT ![o] = n]

ContractNext == \E o \in Orders : Record(o) \/ Send(o)

ContractSpec == ContractInit /\ [][ContractNext]_<<phase, copies>>

=============================================================================
