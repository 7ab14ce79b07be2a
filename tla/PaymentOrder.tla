---------------------------- MODULE PaymentOrder ----------------------------
(***************************************************************************)
(* What a payment promises, without handlers, balances or calls.  An order *)
(* is placed, the provider delivers it at most once, and it settles for    *)
(* good: as COMPLETED only if it was delivered, as FAILED only if it was   *)
(* not, as long as nothing has gone wrong.  After trouble a delivery can   *)
(* be lost sight of, and the order fail although it was delivered.         *)
(***************************************************************************)
CONSTANT Order      \* the orders that can be placed

VARIABLES
    status,     \* of every order: UNPLACED until it is placed
    delivered,  \* the orders the provider delivered
    trouble     \* a process, a call or a transaction has failed

orderVars == <<status, delivered, trouble>>

OrderInit ==
    /\ status = [o \in Order |-> "UNPLACED"]
    /\ delivered = {}
    /\ trouble = FALSE

Becomes(o, from, to) ==
    /\ status[o] = from
    /\ status' = [status EXCEPT ![o] = to]
    /\ UNCHANGED delivered

Place(o) == Becomes(o, "UNPLACED", "PENDING")

Deliver(o) ==
    /\ status[o] = "PENDING"
    /\ o \notin delivered
    /\ delivered' = delivered \cup {o}
    /\ UNCHANGED status

Complete(o) == o \in delivered /\ Becomes(o, "PENDING", "COMPLETED")

Refuse(o) == (o \in delivered => trouble) /\ Becomes(o, "PENDING", "FAILED")

Progress == \E o \in Order : Place(o) \/ Deliver(o) \/ Complete(o) \/ Refuse(o)

OrderNext ==
    /\ trouble => trouble'
    /\ Progress \/ UNCHANGED <<status, delivered>>

OrderSpec == OrderInit /\ [][OrderNext]_orderVars
=============================================================================
