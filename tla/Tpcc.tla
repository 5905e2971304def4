-------------------------------- MODULE Tpcc --------------------------------
(***************************************************************************)
(* sysbench-tpcc: the transactions of tpcc_run.lua that write, under row   *)
(* locks and consistent reads, and the conditions of tpcc_check.lua.       *)
(*                                                                         *)
(* One warehouse and one set of tables: no transaction touches another,    *)
(* for other_ware returns its argument.  InnoDB is external.  A write is   *)
(* kept in `writes' until COMMIT, a row lock until the transaction ends.   *)
(* The lines of an order are one row; a line and a payment amount to one;  *)
(* stock matters for its locks.  orderstatus and stocklevel only read;     *)
(* purge is off unless asked for.                                          *)
(***************************************************************************)
EXTENDS Integers, Sequences, FiniteSets, FiniteSetsExt

CONSTANTS
  Threads, Customers, Items,
  DIST_PER_WARE,
  Undelivered,   \* the orders of each district without a carrier at the start
  Levels,        \* trx_level: "RR" or "RC"
  MaxLines,      \* bound: lines of an order
  MaxEvents,     \* bound: events of the run
  NoItem,        \* the item number -1
  NoRow          \* no such row, or no value

Districts == 1..DIST_PER_WARE

OrderRows == [c : Customers, cnt : Nat, carrier : BOOLEAN]
LineRows  == [n : Nat, amount : Nat, delivered : BOOLEAN]

ASSUME TpccAssumption ==
  /\ DIST_PER_WARE \in Nat \ {0} /\ MaxLines \in Nat \ {0} /\ MaxEvents \in Nat
  /\ IsFiniteSet(Customers)
  /\ Undelivered \in [Districts -> 0..Cardinality(Customers)]
  /\ Levels \subseteq {"RR", "RC"}
  /\ NoItem \notin Items
  /\ NoRow \notin BOOLEAN \cup OrderRows \cup LineRows

\* load_tables gives each customer of a district one order
Loaded  == Cardinality(Customers)
Numbers == 1..(Loaded + MaxEvents)

Warehouse      == <<"warehouse">>
District(d)    == <<"district", d>>
Customer(d, c) == <<"customer", d, c>>
Order(d, o)    == <<"orders", d, o>>
NewOrder(d, o) == <<"new_orders", d, o>>
Lines(d, o)    == <<"order_line", d, o>>
History(d, e, c) == <<"history", d, e, c>>  \* h_d_id, h_c_d_id, h_c_id: the sum
Stock(i)       == <<"stock", i>>
Gap(d)         == <<"gap", d>>              \* the end of new_orders of a district

VARIABLES
  level,         \* the isolation level of all connections
  db,            \* what is committed, by row
  writes,        \* of each thread: the rows it has written since BEGIN
  locks,         \* <<thread, row, mode>>
  view,          \* of each thread: the orders its consistent reads see, or NoRow
  pc, tx,        \* where each thread is, and the values it works with
  events         \* how many have begun

vars == <<level, db, writes, locks, view, pc, tx, events>>
-----------------------------------------------------------------------------
(***************************************************************************)
(* InnoDB                                                                  *)
(***************************************************************************)
\* "S" is shared, also when it is a lock on a gap; "I" inserts into a gap
Incompatible(m, n) == m = "X" \/ n = "X" \/ (m = "I" /\ n = "S")

Row(r, v) == [x \in {r} |-> v]

\* f, where g does not say otherwise
Over(g, f) == [x \in DOMAIN g \cup DOMAIN f |-> IF x \in DOMAIN g THEN g[x] ELSE f[x]]

\* the row as a locking read or an update finds it
Latest(t, r) == IF r \in DOMAIN writes[t] THEN writes[t][r] ELSE db[r]

Exists(r) == db[r] # NoRow \/ \E t \in Threads : r \in DOMAIN writes[t]

\* mutant: the newest order of the district
Oldest_Newest(s) == Max(s)

\* ORDER BY no_o_id ASC LIMIT 1
Oldest(s) == Min(s)

NewOrders(d) == {o \in Numbers : Exists(NewOrder(d, o))}

\* mutant: the payment reads the customer without FOR UPDATE
PaidCustomer_NoLock(t) == {}

\* SELECT ... FOR UPDATE, then UPDATE
PaidCustomer(t) == {<<Customer(tx[t].e, tx[t].c), "X">>}

\* The locks that the thread's next statement takes
Wants(t) ==
  CASE pc[t] \in {"next_o_id", "d_ytd"} -> {<<District(tx[t].d), "X">>}
    [] pc[t] = "orders"     -> {<<Customer(tx[t].d, tx[t].c), "S">>}  \* its foreign key
    [] pc[t] = "new_orders" -> {<<Gap(tx[t].d), "I">>, <<NewOrder(tx[t].d, tx[t].o), "X">>}
    [] pc[t] = "item" /\ Head(tx[t].items) # NoItem -> {<<Stock(Head(tx[t].items)), "X">>}
    [] pc[t] = "w_ytd"      -> {<<Warehouse, "X">>}
    [] pc[t] = "customer"   -> PaidCustomer(t)
    [] pc[t] = "no_o_id" /\ NewOrders(tx[t].d) # {} ->
         {<<NewOrder(tx[t].d, Oldest(NewOrders(tx[t].d))), "X">>}
    [] pc[t] = "no_o_id" /\ NewOrders(tx[t].d) = {} /\ level = "RR" -> {<<Gap(tx[t].d), "S">>}
    [] pc[t] = "balance"    -> {<<Customer(tx[t].d, tx[t].c), "X">>}
    [] OTHER -> {}

Granted(t) ==
  \A w \in Wants(t) : \A l \in locks :
    l[1] # t /\ l[2] = w[1] => ~Incompatible(w[2], l[3])

\* The next statement of t: it gets its locks, writes w, and t goes on at `to'
Statement(t, from, to, w) ==
  /\ pc[t] = from /\ Granted(t)
  /\ locks' = locks \cup {<<t, l[1], l[2]>> : l \in Wants(t)}
  /\ pc' = [pc EXCEPT ![t] = to]
  /\ writes' = [writes EXCEPT ![t] = Over(w, @)]
  /\ UNCHANGED <<level, db, events>>

EndTrx(t, to) ==
  /\ pc' = [pc EXCEPT ![t] = to]
  /\ writes' = [writes EXCEPT ![t] = <<>>]
  /\ locks' = {l \in locks : l[1] # t}
  /\ view' = [view EXCEPT ![t] = NoRow]
  /\ tx' = [tx EXCEPT ![t] = NoRow]
  /\ UNCHANGED <<level, events>>

Commit(t) ==
  /\ pc[t] = "commit"
  /\ db' = [r \in DOMAIN db |-> Latest(t, r)]
  /\ EndTrx(t, "idle")

\* mutant: without the hook
Restart_NoRollback(t) ==
  /\ ~Granted(t)
  /\ pc' = [pc EXCEPT ![t] = "idle"]
  /\ UNCHANGED <<level, db, writes, locks, view, tx, events>>

\* A thread that waits is told of a deadlock or a timeout; sysbench has the hook
\* roll back, and calls event() again
Restart(t) ==
  /\ ~Granted(t)
  /\ EndTrx(t, "idle") /\ UNCHANGED db

Begin(t, to, values) ==
  /\ pc[t] = "idle" /\ events < MaxEvents
  /\ events' = events + 1
  /\ pc' = [pc EXCEPT ![t] = to]
  /\ tx' = [tx EXCEPT ![t] = values]
  /\ UNCHANGED <<level, db, writes, locks, view>>
-----------------------------------------------------------------------------
(***************************************************************************)
(* new_order                                                               *)
(***************************************************************************)
Baskets == UNION {[1..n -> Items] : n \in 1..MaxLines}

\* one order in a hundred asks for an item that does not exist, as its last but one
WithMissing(s) == [s EXCEPT ![Len(s) - 1] = NoItem]

BeginNewOrder(t) ==
  \E d \in Districts, c \in Customers, s \in Baskets :
    \E items \in {s} \cup (IF Len(s) > 1 THEN {WithMissing(s)} ELSE {}) :
      Begin(t, "next_o_id", [d |-> d, c |-> c, items |-> items, cnt |-> Len(s)])

TakeNextOid(t) ==
  LET d == Latest(t, District(tx[t].d))
  IN  /\ Statement(t, "next_o_id", "orders",
                   Row(District(tx[t].d), [d EXCEPT !.next = @ + 1]))
      /\ tx' = [tx EXCEPT ![t] = Over([o |-> d.next], @)]
      /\ UNCHANGED view

InsertOrder(t) ==
  /\ Statement(t, "orders", "new_orders",
               Row(Order(tx[t].d, tx[t].o), [c |-> tx[t].c, cnt |-> tx[t].cnt, carrier |-> FALSE]))
  /\ UNCHANGED <<view, tx>>

InsertNewOrder(t) ==
  /\ Statement(t, "new_orders", "item", Row(NewOrder(tx[t].d, tx[t].o), TRUE))
  /\ UNCHANGED <<view, tx>>

\* the item exists: its stock is locked and updated, the line inserted
OrderLine(t) ==
  LET r == Lines(tx[t].d, tx[t].o)
      sofar == IF Latest(t, r) = NoRow THEN 0 ELSE Latest(t, r).n
  IN  /\ pc[t] = "item" /\ Head(tx[t].items) # NoItem
      /\ Statement(t, "item", IF Len(tx[t].items) = 1 THEN "commit" ELSE "item",
                   Row(r, [n |-> sofar + 1, amount |-> sofar + 1, delivered |-> FALSE]))
      /\ tx' = [tx EXCEPT ![t].items = Tail(@)]
      /\ UNCHANGED view

\* mutant: the event returns without ROLLBACK, and the next one commits for it
MissingItem_Kept(t) ==
  /\ pc[t] = "item" /\ Head(tx[t].items) = NoItem
  /\ pc' = [pc EXCEPT ![t] = "commit"]
  /\ UNCHANGED <<level, db, writes, locks, view, tx, events>>

MissingItem(t) ==
  /\ pc[t] = "item" /\ Head(tx[t].items) = NoItem
  /\ EndTrx(t, "idle") /\ UNCHANGED db
-----------------------------------------------------------------------------
(***************************************************************************)
(* payment: by a customer of any district of the warehouse                 *)
(***************************************************************************)
BeginPayment(t) ==
  \E d \in Districts, e \in Districts, c \in Customers :
    Begin(t, "w_ytd", [d |-> d, e |-> e, c |-> c])

PayWarehouse(t) ==
  /\ Statement(t, "w_ytd", "d_ytd", Row(Warehouse, Latest(t, Warehouse) + 1))
  /\ UNCHANGED <<view, tx>>

\* mutant: the district of the customer
PaidDistrict_Customers(t) == tx[t].e

PaidDistrict(t) == tx[t].d

PayDistrict(t) ==
  LET r == District(PaidDistrict(t))
  IN  /\ Statement(t, "d_ytd", "customer", Row(r, [Latest(t, r) EXCEPT !.ytd = @ + 1]))
      /\ UNCHANGED <<view, tx>>

PayCustomer(t) ==
  LET r == Customer(tx[t].e, tx[t].c)
      h == History(tx[t].d, tx[t].e, tx[t].c)
  IN  /\ Statement(t, "customer", "commit",
                   Over(Row(r, [balance |-> Latest(t, r).balance - 1, ytd |-> Latest(t, r).ytd + 1]),
                        Row(h, Latest(t, h) + 1)))
      /\ UNCHANGED <<view, tx>>
-----------------------------------------------------------------------------
(***************************************************************************)
(* delivery: the oldest new order of each district                         *)
(***************************************************************************)
BeginDelivery(t) == Begin(t, "no_o_id", [d |-> 1])

NextDistrict(t) == IF tx[t].d < DIST_PER_WARE THEN "no_o_id" ELSE "commit"

\* the locking read, and the DELETE of what it found
TakeOldest(t) ==
  LET new == NewOrders(tx[t].d)
  IN  /\ pc[t] = "no_o_id"
      /\ \/ /\ new # {}
            /\ Statement(t, "no_o_id", "o_c_id", Row(NewOrder(tx[t].d, Oldest(new)), NoRow))
            /\ tx' = [tx EXCEPT ![t] = Over([o |-> Oldest(new)], @)]
         \/ /\ new = {}
            /\ Statement(t, "no_o_id", NextDistrict(t), <<>>)
            /\ tx' = [tx EXCEPT ![t].d = @ + 1]
      /\ UNCHANGED view

Committed == {r \in DOMAIN db : r[1] = "orders" /\ db[r] # NoRow}

\* mutant: the read view of the first read is kept at either level
Sees_First(t) == IF view[t] # NoRow THEN view[t] ELSE Committed

\* A consistent read sees what was committed at the first one of the transaction,
\* or, at READ-COMMITTED, what is committed now
Sees(t) == IF level = "RR" /\ view[t] # NoRow THEN view[t] ELSE Committed

\* SELECT o_c_id.  query_row cannot unpack a row that is not there: the event ends
\* with an error, which is no reason to restart it, and sysbench disconnects
ReadOrder(t) ==
  LET r == Order(tx[t].d, tx[t].o)
  IN  /\ pc[t] = "o_c_id"
      /\ \/ /\ r \in Sees(t)
            /\ view' = [view EXCEPT ![t] = Sees(t)]
            /\ pc' = [pc EXCEPT ![t] = "carrier"]
            /\ tx' = [tx EXCEPT ![t] = Over([c |-> db[r].c], @)]
            /\ UNCHANGED <<level, db, writes, locks, events>>
         \/ /\ r \notin Sees(t)
            /\ EndTrx(t, "failed") /\ UNCHANGED db

\* o_carrier_id and ol_delivery_d
SetCarrier(t) ==
  LET o == Order(tx[t].d, tx[t].o)
      l == Lines(tx[t].d, tx[t].o)
  IN  /\ pc[t] = "carrier"
      /\ Statement(t, "carrier", "balance",
                   Over(Row(o, [Latest(t, o) EXCEPT !.carrier = TRUE]),
                        Row(l, [Latest(t, l) EXCEPT !.delivered = TRUE])))
      /\ UNCHANGED <<view, tx>>

\* SUM(ol_amount) goes to the customer
AddBalance(t) ==
  LET r == Customer(tx[t].d, tx[t].c)
      sum == Latest(t, Lines(tx[t].d, tx[t].o)).amount
  IN  /\ pc[t] = "balance"
      /\ Statement(t, "balance", NextDistrict(t), Row(r, [Latest(t, r) EXCEPT !.balance = @ + sum]))
      /\ tx' = [tx EXCEPT ![t] = [d |-> @.d + 1]]
      /\ UNCHANGED view
-----------------------------------------------------------------------------
(***************************************************************************)
(* load_tables, and the deliveries of earlier runs: the orders up to some  *)
(* number of each district have a carrier, and their amount is zero        *)
(***************************************************************************)
Rows == {Warehouse}
          \cup {District(d) : d \in Districts}
          \cup {Customer(d, c) : d \in Districts, c \in Customers}
          \cup {History(d, e, c) : d, e \in Districts, c \in Customers}
          \cup UNION {{Order(d, o), NewOrder(d, o), Lines(d, o)} : d \in Districts, o \in Numbers}

LoadedRow(r, tab) ==
  LET d == r[2]
      o == r[3]
      delivered == o <= Loaded - Undelivered[d]
  IN  CASE r[1] = "warehouse" -> DIST_PER_WARE * Loaded
        [] r[1] = "district"  -> [next |-> Loaded + 1, ytd |-> Loaded]
        [] r[1] = "customer"  -> [balance |-> -1, ytd |-> 1]
        [] r[1] = "history"   -> IF r[2] = r[3] THEN 1 ELSE 0
        [] OTHER -> IF o > Loaded THEN NoRow
                    ELSE CASE r[1] = "orders" -> [c |-> tab[o], cnt |-> 1, carrier |-> delivered]
                           [] r[1] = "new_orders" -> IF delivered THEN NoRow ELSE TRUE
                           [] r[1] = "order_line" ->
                                [n |-> 1, amount |-> IF delivered THEN 0 ELSE 1, delivered |-> delivered]

Init ==
  /\ level \in Levels
  /\ \E tab \in [1..Loaded -> Customers] :
       /\ \A c \in Customers : \E o \in 1..Loaded : tab[o] = c
       /\ db = [r \in Rows |-> LoadedRow(r, tab)]
  /\ writes = [t \in Threads |-> <<>>] /\ locks = {}
  /\ view = [t \in Threads |-> NoRow]
  /\ pc = [t \in Threads |-> "idle"] /\ tx = [t \in Threads |-> NoRow]
  /\ events = 0

Step(t) ==
  \/ BeginNewOrder(t) \/ TakeNextOid(t) \/ InsertOrder(t) \/ InsertNewOrder(t)
  \/ OrderLine(t) \/ MissingItem(t)
  \/ BeginPayment(t) \/ PayWarehouse(t) \/ PayDistrict(t) \/ PayCustomer(t)
  \/ BeginDelivery(t) \/ TakeOldest(t) \/ ReadOrder(t) \/ SetCarrier(t) \/ AddBalance(t)
  \/ Commit(t) \/ Restart(t)

Next == \E t \in Threads : Step(t)

Spec == Init /\ [][Next]_vars
-----------------------------------------------------------------------------
\* The sum of what f gives, all of them numbers of units: how many units there are.
Total(f) == Cardinality(UNION {{x} \X (1..f[x]) : x \in DOMAIN f})

TypeOK ==
  /\ DOMAIN db = Rows /\ events \in 0..MaxEvents
  /\ \A d \in Districts : db[District(d)].next \in (Loaded + 1)..(Loaded + MaxEvents + 1)
  /\ \A t \in Threads : /\ DOMAIN writes[t] \subseteq Rows
                        /\ view[t] = NoRow \/ view[t] \subseteq Rows
                        /\ pc[t] \in {"idle", "failed"} =>
                             tx[t] = NoRow /\ writes[t] = <<>> /\ \A l \in locks : l[1] # t
  /\ \A l \in locks : l[1] \in Threads /\ l[3] \in {"S", "X", "I"}

\* tpcc_check.lua, checks 1, 8 and 9: the warehouse's year to date is the sum of
\* its districts', and each district's is the sum of the payments in history.
MoneyAgrees ==
  /\ db[Warehouse] = Total([d \in Districts |-> db[District(d)].ytd])
  /\ \A d \in Districts :
       db[District(d)].ytd
         = Total([p \in Districts \X Customers |-> db[History(d, p[1], p[2])]])

\* Checks 2 and 3: d_next_o_id is one more than the last order, which is also the
\* last of the new ones if there are any, and the new ones leave no gap.
OrdersAgree ==
  \A d \in Districts :
    LET last == db[District(d)].next - 1
        new  == {o \in Numbers : db[NewOrder(d, o)] # NoRow}
    IN  /\ {o \in Numbers : db[Order(d, o)] # NoRow} = 1..last
        /\ new # {} => new = Min(new)..last

\* Checks 4, 5 and 7: an order has all its lines, it has a carrier unless it is a
\* new order, and its lines are delivered when it has one.
DeliveryAgrees ==
  \A d \in Districts : \A o \in 1..(db[District(d)].next - 1) :
    LET order == db[Order(d, o)]
        lines == db[Lines(d, o)]
    IN  /\ lines # NoRow /\ lines.n = order.cnt
        /\ order.carrier <=> db[NewOrder(d, o)] = NoRow
        /\ lines.delivered <=> order.carrier

\* Checks 10 and 12: a customer's balance is what was delivered to him less what
\* he has paid, by his own row and by history.
BalancesAgree ==
  \A e \in Districts, c \in Customers :
    LET mine == {o \in 1..(db[District(e)].next - 1) :
                   db[Order(e, o)].c = c /\ db[Lines(e, o)].delivered}
        due  == Total([o \in mine |-> db[Lines(e, o)].amount])
        customer == db[Customer(e, c)]
    IN  /\ customer.balance + customer.ytd = due
        /\ customer.ytd = Total([d \in Districts |-> db[History(d, e, c)]])

\* No event ends for want of a row at READ-COMMITTED.  At REPEATABLE-READ one may:
\* the new order of a later district is younger than the transaction's read view.
NoRowMissing == level = "RC" => \A t \in Threads : pc[t] # "failed"
=============================================================================
