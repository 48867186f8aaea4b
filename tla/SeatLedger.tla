----------------------------- MODULE SeatLedger -----------------------------
(***************************************************************************)
(* The PostgreSQL rows the engine sells from: Seat.status and Order.status.*)
(* Every operator is one transaction (or one single-statement update) of   *)
(* the services; each row update is conditional on the row's status, which *)
(* PostgreSQL evaluates on the row it has locked.                          *)
(***************************************************************************)
EXTENDS TicketBase

VARIABLES seat,     \* seat[s]: Seat.status
          order     \* order[c]: status of the order whose holdId is c, or
                    \* "NONE" when there is no such row

SeatStatus  == {"AVAILABLE", "HELD", "SOLD"}
OrderStatus == {"NONE", "PROCESSING", "BOOKED"}

LedgerTypeOK ==
    /\ seat \in [Seat -> SeatStatus]
    /\ order \in [Call -> OrderStatus]

LedgerInit ==
    /\ seat = [s \in Seat |-> "AVAILABLE"]
    /\ order = [c \in Call |-> "NONE"]

\* createOrder's transaction: AVAILABLE -> HELD and the new PROCESSING order,
\* both or neither.
\* (Faulty variants: the WHERE clause only excludes SOLD; it is left out.)
CanPersistUnsold(s) == seat[s] # "SOLD"
CanPersistAlways(s) == TRUE

CanPersist(s) == seat[s] = "AVAILABLE"

PersistOrder(c, s) ==
    /\ CanPersist(s)
    /\ seat' = [seat EXCEPT ![s] = "HELD"]
    /\ order' = [order EXCEPT ![c] = "PROCESSING"]

\* The two updates of settleOrder's transaction: HELD -> SOLD (or it throws)
\* and the order to BOOKED.
\* (A faulty variant: the seat is updated by id alone.)
CanSettleAlways(s) == TRUE

CanSettle(s) == seat[s] = "HELD"

SettleOrder(c, s) ==
    /\ CanSettle(s)
    /\ seat' = [seat EXCEPT ![s] = "SOLD"]
    /\ order' = [order EXCEPT ![c] = "BOOKED"]

\* (A faulty variant: the release makes the seat AVAILABLE by id alone.)
FreeSeatAlways(s) ==
    /\ seat' = [seat EXCEPT ![s] = "AVAILABLE"]
    /\ UNCHANGED order

\* releaseSeat's updateMany, whatever the number of rows it matches.
FreeSeat(s) ==
    /\ seat' = [seat EXCEPT ![s] = IF @ = "HELD" THEN "AVAILABLE" ELSE @]
    /\ UNCHANGED order
=============================================================================
