-------------------------------- MODULE Stock --------------------------------
(***************************************************************************)
(* One stock item, that is one material in one warehouse: its inventory    *)
(* row, the rows that book it on work orders, and the inventory_           *)
(* transactions ledger.  The handlers are executeTransaction of the        *)
(* inventory service and addMaterial and removeMaterial of the work-order  *)
(* service.                                                                *)
(*                                                                         *)
(* executeTransaction and addMaterial lock the inventory row before they   *)
(* read it and keep the lock until they commit: everything they read and   *)
(* write stays as it is meanwhile, so each is one step.  removeMaterial    *)
(* locks nothing: its two reads and its writes are three steps, and other  *)
(* transactions may commit in between.  Its UPDATE waits for the row lock  *)
(* and then writes the quantity computed from the earlier read.            *)
(***************************************************************************)
EXTENDS Integers

CONSTANTS
  Returners,
  Orders,
  Quantities,   \* what one request imports, exports or books
  MaxStock,     \* bound: no import raises the stock above this
  MaxRows,      \* bound: booking rows one work order has had
  NoRow

Booking == [id : Nat, quantity : Nat]

Return == [order : Orders, row : Booking, seen : Int \union {NoRow}, ready : BOOLEAN]

ASSUME QuantityAssumption == Quantities \subseteq Nat \ {0}
ASSUME BoundAssumption == MaxStock \in Nat /\ MaxRows \in Nat
ASSUME NullAssumption == NoRow \notin Int /\ NoRow \notin Booking /\ NoRow \notin Return

VARIABLES
  stock,        \* quantity of the inventory row, NoRow before the first import
  booked,       \* work_order_materials: the row of each work order
  created,      \* how many booking rows each work order has had: their ids
  ledger,       \* IMPORT minus EXPORT over all transaction rows
  charged,      \* of that, what addMaterial and removeMaterial wrote for an order
  returns,      \* removeMaterial calls in progress
  staleReturn   \* history: a return was written from values no longer true

stockVars == <<stock, booked, created, ledger, charged, returns, staleReturn>>

Quantity(q) == IF q = NoRow THEN 0 ELSE q
BookedOn(o) == IF booked[o] = NoRow THEN 0 ELSE booked[o].quantity

StockTypeOK ==
  /\ stock \in Int \union {NoRow}
  /\ booked \in [Orders -> Booking \union {NoRow}]
  /\ created \in [Orders -> Nat]
  /\ ledger \in Int
  /\ charged \in [Orders -> Int]
  /\ returns \in [Returners -> Return \union {NoRow}]
  /\ staleReturn \in BOOLEAN

StockInit ==
  /\ stock = NoRow
  /\ booked = [o \in Orders |-> NoRow]
  /\ created = [o \in Orders |-> 0]
  /\ ledger = 0
  /\ charged = [o \in Orders |-> 0]
  /\ returns = [c \in Returners |-> NoRow]
  /\ staleReturn = FALSE

\* executeTransaction: IMPORT creates the row when there is none.
Import(q) ==
  /\ Quantity(stock) + q <= MaxStock
  /\ stock' = Quantity(stock) + q
  /\ ledger' = ledger + q
  /\ UNCHANGED <<booked, created, charged, returns, staleReturn>>

\* Variant: the row is saved before the check.
ExportUnchecked(q) ==
  /\ stock # NoRow
  /\ stock' = stock - q
  /\ ledger' = ledger - q
  /\ UNCHANGED <<booked, created, charged, returns, staleReturn>>

\* executeTransaction: EXPORT needs the row and enough on it.
Export(q) ==
  /\ stock # NoRow
  /\ stock >= q
  /\ stock' = stock - q
  /\ ledger' = ledger - q
  /\ UNCHANGED <<booked, created, charged, returns, staleReturn>>

\* Variant: a second booking overwrites the first.
NewBookingOnly(o, q) == [id |-> created[o] + 1, quantity |-> q]

\* The row addMaterial saves: the order's row with more on it, or a new one.
RowWith(o, q) ==
  IF booked[o] = NoRow
    THEN [id |-> created[o] + 1, quantity |-> q]
    ELSE [booked[o] EXCEPT !.quantity = @ + q]

\* addMaterial
AddMaterial(o, q) ==
  /\ stock # NoRow
  /\ stock >= q
  /\ booked[o] = NoRow => created[o] < MaxRows
  /\ stock' = stock - q
  /\ ledger' = ledger - q
  /\ charged' = [charged EXCEPT ![o] = @ + q]
  /\ booked' = [booked EXCEPT ![o] = RowWith(o, q)]
  /\ created' = IF booked[o] = NoRow THEN [created EXCEPT ![o] = @ + 1] ELSE created
  /\ UNCHANGED <<returns, staleReturn>>

\* removeMaterial finds the booking row ...
FindBooking(c, o) ==
  /\ returns[c] = NoRow
  /\ booked[o] # NoRow
  /\ returns' = [returns EXCEPT ![c] =
                   [order |-> o, row |-> booked[o], seen |-> NoRow, ready |-> FALSE]]
  /\ UNCHANGED <<stock, booked, created, ledger, charged, staleReturn>>

\* ... reads the inventory row ...
ReadInventory(c) ==
  /\ returns[c] # NoRow
  /\ ~returns[c].ready
  /\ returns' = [returns EXCEPT ![c] = [@ EXCEPT !.seen = stock, !.ready = TRUE]]
  /\ UNCHANGED <<stock, booked, created, ledger, charged, staleReturn>>

\* What was read is still so.
Fresh(r) == booked[r.order] = r.row /\ stock = r.seen

\* ... and writes stock, ledger and the deletion, which finds nothing when the
\* row is gone.
ReturnMaterial(c) ==
  LET r == returns[c]
      o == r.order
  IN /\ r # NoRow
     /\ r.ready
     /\ stock' = IF r.seen = NoRow THEN stock ELSE r.seen + r.row.quantity
     /\ ledger' = ledger + r.row.quantity
     /\ charged' = [charged EXCEPT ![o] = @ - r.row.quantity]
     /\ booked' = IF booked[o] # NoRow /\ booked[o].id = r.row.id
                    THEN [booked EXCEPT ![o] = NoRow] ELSE booked
     /\ staleReturn' = (staleReturn \/ ~Fresh(r))
     /\ returns' = [returns EXCEPT ![c] = NoRow]
     /\ UNCHANGED created

\* The call fails or the process dies before the commit.
AbandonReturn(c) ==
  /\ returns[c] # NoRow
  /\ returns' = [returns EXCEPT ![c] = NoRow]
  /\ UNCHANGED <<stock, booked, created, ledger, charged, staleReturn>>

StockNext ==
  \/ \E q \in Quantities : \/ Import(q)
                           \/ Export(q)
                           \/ \E o \in Orders : AddMaterial(o, q)
  \/ \E c \in Returners : \/ \E o \in Orders : FindBooking(c, o)
                        \/ ReadInventory(c)
                        \/ ReturnMaterial(c)
                        \/ AbandonReturn(c)

StockSpec == StockInit /\ [][StockNext]_stockVars

-----------------------------------------------------------------------------
(* Properties *)

\* As long as no return was written from a stale read, the inventory row says
\* what the ledger adds up to: bookings, imports, exports and returns, by any
\* number of people and in any order, neither lose nor invent stock.
StockIsTheLedger == ~staleReturn => Quantity(stock) = ledger

\* On the same condition a work order is charged for exactly what is booked
\* on it, through repeated bookings, returns and rows that are created again.
OrdersPayForTheirRows == ~staleReturn => \A o \in Orders : charged[o] = BookedOn(o)

\* Stock, ledger, bookings and charges tell one story until a return is stale.
BooksBalance == StockIsTheLedger /\ OrdersPayForTheirRows

\* The inventory row never goes below zero, stale returns or not: the checks
\* of exports and bookings are made on the locked row.
NeverOverdrawn == Quantity(stock) >= 0

=============================================================================
