----------------------------- MODULE TpccProofs -----------------------------
(***************************************************************************)
(* Theorems about Tpcc, for any number of threads, districts, customers,   *)
(* items and events, and both isolation levels.                            *)
(***************************************************************************)
EXTENDS Tpcc, FiniteSetTheorems, TLAPS

\* t has the exclusive lock on r.
Held(t, r) == <<t, r, "X">> \in locks

NextId(d) == db[District(d)].next

LockInv ==
  /\ \A l \in locks : l = <<l[1], l[2], l[3]>> /\ l[1] \in Threads /\ l[3] \in {"S", "X", "I"}
  /\ \A l, k \in locks : l[2] = k[2] /\ l[3] = "X" => l[1] = k[1]
  /\ \A l \in locks : pc[l[1]] \notin {"idle", "failed"}

\* The committed rows; the new orders of a district are the last of its orders.
DbTypes ==
  /\ DOMAIN db = Rows /\ db[Warehouse] \in Nat
  /\ \A d \in Districts :
       /\ db[District(d)] \in [next : Nat, ytd : Nat] /\ NextId(d) > Loaded
       /\ \A c \in Customers : db[Customer(d, c)] \in [balance : Int, ytd : Nat]
       /\ \A e \in Districts, c \in Customers : db[History(d, e, c)] \in Nat
       /\ \A o \in Numbers :
            /\ o < NextId(d) => db[Order(d, o)] \in OrderRows /\ db[Lines(d, o)] \in LineRows
            /\ o >= NextId(d) => db[Order(d, o)] = NoRow /\ db[Lines(d, o)] = NoRow
            /\ db[NewOrder(d, o)] \in {TRUE, NoRow}
       /\ \E first \in 1..NextId(d) :
            \A o \in Numbers : db[NewOrder(d, o)] # NoRow <=> first <= o /\ o < NextId(d)

DbInv == DbTypes /\ MoneyAgrees /\ DeliveryAgrees /\ BalancesAgree

\* Each order number that was given away, and each that may be, is an event's.
Active == {t \in Threads : pc[t] \notin {"idle", "failed"}}

EventInv ==
  /\ events \in 0..MaxEvents /\ IsFiniteSet(Active)
  /\ \A d \in Districts : NextId(d) + Cardinality(Active) <= Loaded + 1 + events

\* What a new order has written, and why nobody else can have written it.
NewOrdering(t) ==
  LET d == tx[t].d
      o == tx[t].o
      left == Len(tx[t].items)
  IN  /\ "items" \in DOMAIN tx[t]
      /\ d \in Districts /\ tx[t].c \in Customers /\ tx[t].cnt \in Nat
      /\ tx[t].items \in Seq(Items \cup {NoItem}) /\ left <= tx[t].cnt /\ tx[t].cnt > 0
      /\ \/ /\ pc[t] = "next_o_id" /\ DOMAIN tx[t] = {"d", "c", "items", "cnt"}
            /\ DOMAIN writes[t] = {} /\ left = tx[t].cnt
         \/ /\ pc[t] \in {"orders", "new_orders", "item", "commit"}
            /\ DOMAIN tx[t] = {"o", "d", "c", "items", "cnt"}
            /\ o = NextId(d) /\ o \in Numbers /\ Held(t, District(d))
            /\ pc[t] \in {"orders", "new_orders"} => left = tx[t].cnt
            /\ pc[t] = "item" => left > 0
            /\ pc[t] = "commit" => left = 0
            /\ DOMAIN writes[t] = {District(d)}
                 \cup {r \in {Order(d, o)} : pc[t] # "orders"}
                 \cup {r \in {NewOrder(d, o)} : pc[t] \in {"item", "commit"}}
                 \cup {r \in {Lines(d, o)} : left < tx[t].cnt}
            /\ writes[t][District(d)] = [db[District(d)] EXCEPT !.next = @ + 1]
            /\ pc[t] # "orders" =>
                 writes[t][Order(d, o)] = [c |-> tx[t].c, cnt |-> tx[t].cnt, carrier |-> FALSE]
            /\ pc[t] \in {"item", "commit"} =>
                 Held(t, NewOrder(d, o)) /\ writes[t][NewOrder(d, o)] = TRUE
            /\ left < tx[t].cnt =>
                 writes[t][Lines(d, o)] = [n |-> tx[t].cnt - left, amount |-> tx[t].cnt - left,
                                           delivered |-> FALSE]

Paying(t) ==
  LET d == tx[t].d
      r == Customer(tx[t].e, tx[t].c)
      h == History(d, tx[t].e, tx[t].c)
  IN  /\ DOMAIN tx[t] = {"d", "e", "c"}
      /\ d \in Districts /\ tx[t].e \in Districts /\ tx[t].c \in Customers
      /\ pc[t] \in {"w_ytd", "d_ytd", "customer", "commit"}
      /\ DOMAIN writes[t] = {x \in {Warehouse} : pc[t] # "w_ytd"}
           \cup {x \in {District(d)} : pc[t] \in {"customer", "commit"}}
           \cup {x \in {r, h} : pc[t] = "commit"}
      /\ pc[t] # "w_ytd" => Held(t, Warehouse) /\ writes[t][Warehouse] = db[Warehouse] + 1
      /\ pc[t] \in {"customer", "commit"} =>
           /\ Held(t, District(d))
           /\ writes[t][District(d)] = [db[District(d)] EXCEPT !.ytd = @ + 1]
      /\ pc[t] = "commit" =>
           /\ Held(t, r) /\ writes[t][h] = db[h] + 1
           /\ writes[t][r] = [balance |-> db[r].balance - 1, ytd |-> db[r].ytd + 1]

\* A delivery's order o of district x was the oldest, and is as long as it has the lock.
Took(t, x, o, rows) ==
  /\ {r \in DOMAIN writes[t] : r[2] = x} = rows
  /\ Held(t, NewOrder(x, o)) /\ writes[t][NewOrder(x, o)] = NoRow
  /\ o \in Numbers /\ o < NextId(x) /\ db[NewOrder(x, o)] # NoRow
  /\ \A p \in Numbers : p < o => db[NewOrder(x, p)] = NoRow

CarrierSet(t, x, o) ==
  /\ writes[t][Order(x, o)] = [db[Order(x, o)] EXCEPT !.carrier = TRUE]
  /\ writes[t][Lines(x, o)] = [db[Lines(x, o)] EXCEPT !.delivered = TRUE]

Delivered(t, x, o) ==
  LET r == Customer(x, db[Order(x, o)].c)
  IN  /\ Took(t, x, o, {NewOrder(x, o), Order(x, o), Lines(x, o), r})
      /\ CarrierSet(t, x, o) /\ Held(t, r)
      /\ writes[t][r] = [db[r] EXCEPT !.balance = @ + db[Lines(x, o)].amount]

Untouched(t, x) == \A r \in DOMAIN writes[t] : r[2] # x

Delivering(t) ==
  LET d == tx[t].d
      o == tx[t].o
  IN  /\ \/ pc[t] \in {"no_o_id", "o_c_id", "carrier", "balance"} /\ d \in Districts
         \/ pc[t] = "commit" /\ d = DIST_PER_WARE + 1
      /\ DOMAIN tx[t] = {"d"} \cup {x \in {"o"} : pc[t] \in {"o_c_id", "carrier", "balance"}}
                          \cup {x \in {"c"} : pc[t] \in {"carrier", "balance"}}
      /\ \A r \in DOMAIN writes[t] :
           r[1] \in {"new_orders", "orders", "order_line", "customer"} /\ r[2] \in Districts
      /\ pc[t] = "no_o_id" => Untouched(t, d)
      /\ pc[t] \in {"o_c_id", "carrier"} => Took(t, d, o, {NewOrder(d, o)})
      /\ pc[t] = "balance" => /\ Took(t, d, o, {NewOrder(d, o), Order(d, o), Lines(d, o)})
                              /\ CarrierSet(t, d, o)
      /\ pc[t] \in {"carrier", "balance"} => tx[t].c = db[Order(d, o)].c
      /\ \A x \in Districts :
           /\ x > d => Untouched(t, x)
           /\ x < d => Untouched(t, x) \/ \E p \in Numbers : Delivered(t, x, p)

AtRest(t) == pc[t] \in {"idle", "failed"} /\ tx[t] = NoRow /\ writes[t] = <<>>

ThreadInv(t) ==
  /\ view[t] = NoRow \/ view[t] \subseteq Rows
  /\ level = "RC" => pc[t] # "failed"
  /\ AtRest(t) \/ NewOrdering(t) \/ Paying(t) \/ Delivering(t)

Shape ==
  /\ level \in {"RR", "RC"}
  /\ DOMAIN pc = Threads /\ DOMAIN tx = Threads /\ DOMAIN writes = Threads /\ DOMAIN view = Threads

IInv == Shape /\ LockInv /\ DbInv /\ EventInv /\ \A t \in Threads : ThreadInv(t)

-----------------------------------------------------------------------------
(***************************************************************************)
(* Sums of natural numbers                                                 *)
(***************************************************************************)
Units(f)   == UNION {{x} \X (1..f[x]) : x \in DOMAIN f}
Summands(f) == IsFiniteSet(DOMAIN f) /\ \A x \in DOMAIN f : f[x] \in Nat

LEMMA Strip ==
  ASSUME NEW z, NEW S, IsFiniteSet(S)
  PROVE  IsFiniteSet({z} \X S) /\ Cardinality({z} \X S) = Cardinality(S)
<1>1. IsFiniteSet({z}) /\ Cardinality({z}) = 1 /\ Cardinality(S) \in Nat
  BY FS_Singleton, FS_CardinalityType
<1>2. IsFiniteSet({z} \X S) /\ Cardinality({z} \X S) = Cardinality({z}) * Cardinality(S)
  BY <1>1, FS_Product
<1> QED BY <1>1, <1>2

LEMMA Run ==
  ASSUME NEW b \in Int, NEW e \in Int, b <= e + 1
  PROVE  IsFiniteSet(b..e) /\ Cardinality(b..e) = e + 1 - b
BY FS_Interval

LEMMA Apart ==
  ASSUME NEW S, NEW T, IsFiniteSet(S), IsFiniteSet(T), \A x \in S : x \notin T
  PROVE  /\ IsFiniteSet(S \cup T) /\ Cardinality(S) \in Nat /\ Cardinality(T) \in Nat
         /\ Cardinality(S \cup T) = Cardinality(S) + Cardinality(T)
<1>1. S \cap T = {}
  OBVIOUS
<1>2. Cardinality(S \cap T) = 0
  BY <1>1, FS_EmptySet
<1>3. /\ IsFiniteSet(S \cup T)
      /\ Cardinality(S \cup T) = Cardinality(S) + Cardinality(T) - Cardinality(S \cap T)
  BY FS_Union
<1>4. Cardinality(S) \in Nat /\ Cardinality(T) \in Nat
  BY FS_CardinalityType
<1> QED BY <1>2, <1>3, <1>4

\* What is counted to make the sum, and that there is an end to it.
LEMMA UnitsAre ==
  ASSUME NEW f, Summands(f)
  PROVE  /\ Total(f) = Cardinality(Units(f))
         /\ \A u : u \in Units(f) <=> \E x \in DOMAIN f : \E k \in 1..f[x] : u = <<x, k>>
         /\ IsFiniteSet(Units(f)) /\ Total(f) \in Nat
<1> DEFINE of  == [x \in DOMAIN f |-> {x} \X (1..f[x])]
           all == {{x} \X (1..f[x]) : x \in DOMAIN f}
<1>1. IsFiniteSet(all)
  <2>1. of \in Surjection(DOMAIN f, all)
    BY DEF Surjection
  <2> QED BY <2>1, FS_Surjection DEF Summands
<1>2. ASSUME NEW x \in DOMAIN f PROVE IsFiniteSet({x} \X (1..f[x]))
  <2>0. 1 \in Int /\ f[x] \in Int
    BY DEF Summands
  <2>1. IsFiniteSet({x}) /\ IsFiniteSet(1..f[x])
    BY <2>0, FS_Singleton, FS_Interval
  <2> QED BY <2>1, FS_Product
<1>3. IsFiniteSet(Units(f))
  BY <1>1, <1>2, FS_UNION DEF Units
<1>4. \A u : u \in Units(f) <=> \E x \in DOMAIN f : \E k \in 1..f[x] : u = <<x, k>>
  BY DEF Units
<1>5. Total(f) = Cardinality(Units(f))
  BY DEF Total, Units
<1> QED BY <1>3, <1>4, <1>5, FS_CardinalityType

LEMMA TotalSame ==
  ASSUME NEW f, NEW g, Summands(f), DOMAIN g = DOMAIN f, \A x \in DOMAIN f : g[x] = f[x]
  PROVE  Total(g) = Total(f)
<1>1. Summands(g)
  BY DEF Summands
<1>2. \A u : u \in Units(g) <=> u \in Units(f)
  BY <1>1, UnitsAre
<1>3. Units(g) = Units(f)
  BY <1>2
<1> QED BY <1>1, <1>3, UnitsAre

\* One summand is n more, or there is one more, of n.
More(f, g, z, n) ==
  /\ DOMAIN g = DOMAIN f \cup {z} /\ \A x \in DOMAIN f : x # z => g[x] = f[x]
  /\ g[z] = IF z \in DOMAIN f THEN f[z] + n ELSE n

LEMMA TotalMore ==
  ASSUME NEW f, NEW g, NEW n \in Nat, NEW z, Summands(f), More(f, g, z, n)
  PROVE  Total(g) = Total(f) + n
<1>0. PICK was : was = IF z \in DOMAIN f THEN f[z] ELSE 0
  OBVIOUS
<1>1. /\ Summands(g) /\ was \in Nat /\ DOMAIN g = DOMAIN f \cup {z} /\ g[z] = was + n
      /\ \A x \in DOMAIN f : x # z => g[x] = f[x]
      /\ z \in DOMAIN f => was = f[z]
      /\ z \notin DOMAIN f => was = 0
  BY <1>0, FS_AddElement DEF Summands, More
<1> DEFINE more == {z} \X (was + 1..was + n)
<1>2. IsFiniteSet(more) /\ Cardinality(more) = n
  <2>1. IsFiniteSet(was + 1..was + n)
    BY <1>1, Run
  <2>3. Cardinality(was + 1..was + n) = n
    BY ONLY <1>1, n \in Nat, Run
  <2>2. IsFiniteSet(more) /\ Cardinality(more) = Cardinality(was + 1..was + n)
    BY <2>1, Strip
  <2> QED BY <2>1, <2>2, <2>3
<1>3. ASSUME NEW u PROVE u \in Units(g) <=> u \in Units(f) \cup more
  <2>1. u \in more <=> \E k \in was + 1..was + n : u = <<z, k>>
    OBVIOUS
  <2>2. u \in Units(f) <=> \E x \in DOMAIN f : \E k \in 1..f[x] : u = <<x, k>>
    BY UnitsAre
  <2>3. u \in Units(g) <=> \E x \in DOMAIN g : \E k \in 1..g[x] : u = <<x, k>>
    BY <1>1, UnitsAre
  <2>4. ASSUME NEW k PROVE k \in 1..(was + n) <=> k \in 1..was \/ k \in was + 1..was + n
    BY <1>1
  <2>5. CASE z \in DOMAIN f
    BY <1>1, <2>1, <2>2, <2>3, <2>4, <2>5
  <2>6. CASE z \notin DOMAIN f
    BY <1>1, <2>1, <2>2, <2>3, <2>4, <2>6
  <2> QED BY <2>5, <2>6
<1>4. ASSUME NEW u \in Units(f), u \in more PROVE FALSE
  <2>1. PICK x \in DOMAIN f : \E j \in 1..f[x] : u = <<x, j>>
    BY UnitsAre
  <2>2. PICK k \in 1..f[x] : u = <<x, k>>
    BY <2>1
  <2>3. x = z /\ k \in was + 1..was + n
    BY <1>4, <2>2
  <2> QED BY <1>1, <2>1, <2>2, <2>3
<1>5. Units(g) = Units(f) \cup more
  BY <1>3
<1>6. IsFiniteSet(Units(f))
  BY UnitsAre
<1> HIDE DEF more
<1>7. Cardinality(Units(g)) = Cardinality(Units(f)) + n
  BY <1>2, <1>4, <1>5, <1>6, Apart
<1> QED BY <1>1, <1>7, UnitsAre

\* As many units as times a summand of n.
LEMMA TotalEach ==
  ASSUME NEW f, NEW n \in Nat, IsFiniteSet(DOMAIN f), \A x \in DOMAIN f : f[x] = n
  PROVE  Total(f) = Cardinality(DOMAIN f) * n
<1>1. Summands(f)
  BY DEF Summands
<1>2. Units(f) = (DOMAIN f) \X (1..n)
  <2>1. \A u : u \in Units(f) <=> \E x \in DOMAIN f : \E k \in 1..f[x] : u = <<x, k>>
    BY <1>1, UnitsAre
  <2>2. \A u : u \in Units(f) <=> \E x \in DOMAIN f : \E k \in 1..n : u = <<x, k>>
    BY <2>1
  <2>3. ASSUME NEW u \in (DOMAIN f) \X (1..n) PROVE u \in Units(f)
    <3>1. u[1] \in DOMAIN f /\ u[2] \in 1..n /\ u = <<u[1], u[2]>>
      OBVIOUS
    <3> QED BY <2>2, <3>1
  <2>4. ASSUME NEW u \in Units(f) PROVE u \in (DOMAIN f) \X (1..n)
    <3>1. PICK x \in DOMAIN f : \E k \in 1..n : u = <<x, k>>
      BY <2>2
    <3> QED BY <3>1
  <2> QED BY <2>3, <2>4
<1>3. IsFiniteSet(1..n) /\ Cardinality(1..n) = n
  <2>1. 1 \in Int /\ n \in Int
    OBVIOUS
  <2> QED BY <2>1, FS_Interval
<1> QED BY <1>1, <1>2, <1>3, UnitsAre, FS_Product

-----------------------------------------------------------------------------
(***************************************************************************)
(* Rows, statements and locks                                              *)
(***************************************************************************)
LEMMA RowKinds ==
  /\ Warehouse[1] = "warehouse"
  /\ \A d : District(d)[1] = "district" /\ District(d)[2] = d
  /\ \A d, c : Customer(d, c)[1] = "customer" /\ Customer(d, c)[2] = d /\ Customer(d, c)[3] = c
  /\ \A d, o : Order(d, o)[1] = "orders" /\ Order(d, o)[2] = d /\ Order(d, o)[3] = o
  /\ \A d, o : NewOrder(d, o)[1] = "new_orders" /\ NewOrder(d, o)[2] = d /\ NewOrder(d, o)[3] = o
  /\ \A d, o : Lines(d, o)[1] = "order_line" /\ Lines(d, o)[2] = d /\ Lines(d, o)[3] = o
  /\ \A d, e, c : /\ History(d, e, c)[1] = "history" /\ History(d, e, c)[2] = d
                  /\ History(d, e, c)[3] = e /\ History(d, e, c)[4] = c
BY DEF Warehouse, District, Customer, Order, NewOrder, Lines, History

LEMMA RowsAre ==
  /\ Warehouse \in Rows
  /\ \A d \in Districts :
       /\ District(d) \in Rows
       /\ \A c \in Customers : Customer(d, c) \in Rows
       /\ \A e \in Districts, c \in Customers : History(d, e, c) \in Rows
       /\ \A o \in Numbers : Order(d, o) \in Rows /\ NewOrder(d, o) \in Rows /\ Lines(d, o) \in Rows
<1> DEFINE districts == {District(d) : d \in Districts}
           customers == {Customer(d, c) : d \in Districts, c \in Customers}
           payments  == {History(d, e, c) : d, e \in Districts, c \in Customers}
           orders    == {{Order(d, o), NewOrder(d, o), Lines(d, o)} : d \in Districts, o \in Numbers}
<1>1. Rows = {Warehouse} \cup districts \cup customers \cup payments \cup UNION orders
  BY DEF Rows
<1>2. ASSUME NEW d \in Districts PROVE District(d) \in districts
  OBVIOUS
<1>3. ASSUME NEW d \in Districts, NEW c \in Customers PROVE Customer(d, c) \in customers
  OBVIOUS
<1>4. ASSUME NEW d \in Districts, NEW e \in Districts, NEW c \in Customers
      PROVE  History(d, e, c) \in payments
  OBVIOUS
<1>5. ASSUME NEW d \in Districts, NEW o \in Numbers
      PROVE  {Order(d, o), NewOrder(d, o), Lines(d, o)} \in orders
  OBVIOUS
<1> HIDE DEF districts, customers, payments, orders
<1>6. ASSUME NEW d \in Districts, NEW o \in Numbers
      PROVE  Order(d, o) \in Rows /\ NewOrder(d, o) \in Rows /\ Lines(d, o) \in Rows
  BY <1>1, <1>5
<1> QED BY <1>1, <1>2, <1>3, <1>4, <1>6

LEMMA LoadedType == Loaded \in Nat /\ MaxEvents \in Nat /\ IsFiniteSet(Customers)
BY TpccAssumption, FS_CardinalityType DEF Loaded

LEMMA NoRowIs == NoRow # TRUE /\ NoRow \notin OrderRows /\ NoRow \notin LineRows
BY TpccAssumption

LEMMA OverIs ==
  ASSUME NEW g, NEW f
  PROVE  /\ DOMAIN Over(g, f) = DOMAIN g \cup DOMAIN f
         /\ \A r \in DOMAIN g : Over(g, f)[r] = g[r]
         /\ \A r \in DOMAIN f : r \notin DOMAIN g => Over(g, f)[r] = f[r]
BY DEF Over

LEMMA RowIs ==
  ASSUME NEW r, NEW v
  PROVE  DOMAIN Row(r, v) = {r} /\ Row(r, v)[r] = v
BY DEF Row

LEMMA WantsAre ==
  ASSUME NEW t \in Threads
  PROVE  /\ pc[t] \in {"next_o_id", "d_ytd"} => Wants(t) = {<<District(tx[t].d), "X">>}
         /\ pc[t] = "orders" => Wants(t) = {<<Customer(tx[t].d, tx[t].c), "S">>}
         /\ pc[t] = "new_orders" =>
              Wants(t) = {<<Gap(tx[t].d), "I">>, <<NewOrder(tx[t].d, tx[t].o), "X">>}
         /\ pc[t] = "w_ytd" => Wants(t) = {<<Warehouse, "X">>}
         /\ pc[t] = "customer" => Wants(t) = {<<Customer(tx[t].e, tx[t].c), "X">>}
         /\ pc[t] = "no_o_id" /\ NewOrders(tx[t].d) # {} =>
              Wants(t) = {<<NewOrder(tx[t].d, Oldest(NewOrders(tx[t].d))), "X">>}
         /\ pc[t] = "balance" => Wants(t) = {<<Customer(tx[t].d, tx[t].c), "X">>}
         /\ \A w \in Wants(t) : w[2] \in {"S", "X", "I"}
BY DEF Wants, PaidCustomer

LEMMA StatementStep ==
  ASSUME Shape, NEW t \in Threads, NEW from, NEW to, NEW w, Statement(t, from, to, w)
  PROVE  /\ pc[t] = from /\ pc'[t] = to /\ Granted(t) /\ UNCHANGED <<level, db, events>>
         /\ DOMAIN pc' = Threads /\ DOMAIN writes' = Threads
         /\ DOMAIN writes'[t] = DOMAIN w \cup DOMAIN writes[t]
         /\ \A r \in DOMAIN w : writes'[t][r] = w[r]
         /\ \A r \in DOMAIN writes[t] : r \notin DOMAIN w => writes'[t][r] = writes[t][r]
         /\ \A u \in Threads : u # t => pc'[u] = pc[u] /\ writes'[u] = writes[u]
         /\ locks' = locks \cup {<<t, l[1], l[2]>> : l \in Wants(t)}
         /\ \A r : <<r, "X">> \in Wants(t) => Held(t, r)'
         /\ \A u, r : Held(u, r) => Held(u, r)'
<1>1. /\ pc[t] = from /\ Granted(t)
      /\ locks' = locks \cup {<<t, l[1], l[2]>> : l \in Wants(t)}
      /\ pc' = [pc EXCEPT ![t] = to]
      /\ writes' = [writes EXCEPT ![t] = Over(w, writes[t])]
      /\ UNCHANGED <<level, db, events>>
  BY DEF Statement
<1>2. writes'[t] = Over(w, writes[t])
  BY <1>1 DEF Shape
<1>3. \A r : <<r, "X">> \in Wants(t) => Held(t, r)'
  <2> SUFFICES ASSUME NEW r, <<r, "X">> \in Wants(t) PROVE <<t, r, "X">> \in locks'
    BY DEF Held
  <2>1. <<r, "X">>[1] = r /\ <<r, "X">>[2] = "X"
    OBVIOUS
  <2> QED BY <1>1, <2>1
<1>4. \A u, r : Held(u, r) => Held(u, r)'
  BY <1>1 DEF Held
<1>5. /\ DOMAIN writes'[t] = DOMAIN w \cup DOMAIN writes[t]
      /\ \A r \in DOMAIN w : writes'[t][r] = w[r]
      /\ \A r \in DOMAIN writes[t] : r \notin DOMAIN w => writes'[t][r] = writes[t][r]
  BY ONLY <1>2 DEF Over
<1>6. /\ pc'[t] = to /\ DOMAIN pc' = Threads /\ DOMAIN writes' = Threads
      /\ \A u \in Threads : u # t => pc'[u] = pc[u] /\ writes'[u] = writes[u]
  BY <1>1 DEF Shape
<1> QED BY <1>1, <1>3, <1>4, <1>5, <1>6, Zenon

\* Two threads never have a row locked when one of them has it exclusively.
LEMMA LocksGrow ==
  ASSUME Shape, LockInv, NEW t \in Threads, NEW from, NEW to, NEW w, Statement(t, from, to, w),
         from \notin {"idle", "failed"}, to \notin {"idle", "failed"}
  PROVE  LockInv'
<1>1. /\ Granted(t) /\ locks' = locks \cup {<<t, l[1], l[2]>> : l \in Wants(t)}
      /\ pc[t] = from /\ pc'[t] = to /\ \A u \in Threads : u # t => pc'[u] = pc[u]
  BY StatementStep
<1>2. \A w1 \in Wants(t) : w1[2] \in {"S", "X", "I"}
  BY WantsAre
<1>3. ASSUME NEW l \in locks', l \notin locks
      PROVE  /\ l = <<l[1], l[2], l[3]>> /\ l[1] = t /\ l[3] \in {"S", "X", "I"}
             /\ \A k \in locks : k[1] # t /\ k[2] = l[2] => ~ Incompatible(l[3], k[3])
  <2>1. PICK x \in Wants(t) : l = <<t, x[1], x[2]>>
    BY <1>1, <1>3
  <2>2. l[1] = t /\ l[2] = x[1] /\ l[3] = x[2]
    BY <2>1
  <2> QED BY <1>1, <1>2, <2>1, <2>2 DEF Granted
<1>4. ASSUME NEW l \in locks', NEW k \in locks', l[2] = k[2], l[3] = "X" PROVE l[1] = k[1]
  <2>1. CASE l \in locks /\ k \in locks
    BY <1>4, <2>1 DEF LockInv
  <2>2. CASE l \notin locks /\ k \notin locks
    BY <1>3, <2>2
  <2>3. CASE l \notin locks /\ k \in locks
    BY <1>3, <1>4, <2>3 DEF Incompatible
  <2>4. CASE l \in locks /\ k \notin locks
    BY <1>3, <1>4, <2>4 DEF Incompatible
  <2> QED BY <2>1, <2>2, <2>3, <2>4
<1>5. \A l \in locks' : l = <<l[1], l[2], l[3]>> /\ l[1] \in Threads /\ l[3] \in {"S", "X", "I"}
  BY <1>3 DEF LockInv
<1>6. \A l \in locks' : pc'[l[1]] \notin {"idle", "failed"}
  BY <1>1, <1>3 DEF LockInv
<1> QED BY <1>4, <1>5, <1>6 DEF LockInv

\* A row that one thread has exclusively no other has.
LEMMA HeldOnce ==
  ASSUME LockInv, NEW t, NEW u, NEW r, Held(t, r), Held(u, r)
  PROVE  t = u
<1>1. /\ <<t, r, "X">>[1] = t /\ <<t, r, "X">>[2] = r /\ <<t, r, "X">>[3] = "X"
      /\ <<u, r, "X">>[1] = u /\ <<u, r, "X">>[2] = r
  OBVIOUS
<1> QED BY <1>1 DEF Held, LockInv

\* Nor can it have got what it wants when another has it.
LEMMA GrantedAlone ==
  ASSUME NEW t \in Threads, NEW u, NEW r, Granted(t), <<r, "X">> \in Wants(t), Held(u, r)
  PROVE  t = u
<1>1. /\ <<r, "X">>[1] = r /\ <<r, "X">>[2] = "X"
      /\ <<u, r, "X">>[1] = u /\ <<u, r, "X">>[2] = r /\ <<u, r, "X">>[3] = "X"
  OBVIOUS
<1> QED BY <1>1 DEF Granted, Held, Incompatible

-----------------------------------------------------------------------------
(***************************************************************************)
(* A thread while another one takes a step                                 *)
(***************************************************************************)
\* The step is t's: the others go on from where they are, with their locks.
OnlyBy(t) ==
  /\ Shape' /\ level' = level
  /\ \A u \in Threads : u # t =>
       /\ pc'[u] = pc[u] /\ tx'[u] = tx[u] /\ writes'[u] = writes[u] /\ view'[u] = view[u]
       /\ \A r : Held(u, r) => Held(u, r)'

\* What u has locked, by its own lock or by the one on what it belongs to, stays as it is.
Kept(u) ==
  /\ Held(u, Warehouse) => db'[Warehouse] = db[Warehouse]
  /\ \A x \in Districts :
       /\ Held(u, District(x)) =>
            /\ db'[District(x)] = db[District(x)]
            /\ \A e \in Districts, c \in Customers : db'[History(x, e, c)] = db[History(x, e, c)]
       /\ \A c \in Customers :
            Held(u, Customer(x, c)) => db'[Customer(x, c)] = db[Customer(x, c)]
       /\ \A o \in Numbers : o < NextId(x) =>
            /\ o < NextId(x)'
            /\ db[NewOrder(x, o)] = NoRow => db'[NewOrder(x, o)] = NoRow
            /\ Held(u, NewOrder(x, o)) =>
                 /\ db'[NewOrder(x, o)] = db[NewOrder(x, o)]
                 /\ db'[Order(x, o)] = db[Order(x, o)] /\ db'[Lines(x, o)] = db[Lines(x, o)]

LEMMA KeptSame ==
  ASSUME DbTypes, db' = db, NEW u
  PROVE  Kept(u)
<1>1. \A x \in Districts : NextId(x) \in Nat
  BY DEF DbTypes, NextId
<1> QED BY <1>1 DEF Kept, NextId

LEMMA OtherNewOrder ==
  ASSUME NEW t, NEW u \in Threads, u # t, OnlyBy(t), Kept(u), DbTypes, NewOrdering(u)
  PROVE  NewOrdering(u)'
<1> DEFINE d == tx[u].d
<1>1. /\ pc'[u] = pc[u] /\ tx'[u] = tx[u] /\ writes'[u] = writes[u]
      /\ \A r : Held(u, r) => Held(u, r)'
  BY DEF OnlyBy
<1>2. d \in Districts
  BY DEF NewOrdering
<1>3. Held(u, District(d)) => db'[District(d)] = db[District(d)] /\ NextId(d)' = NextId(d)
  BY <1>1, <1>2 DEF Kept, NextId
<1> QED BY <1>1, <1>3 DEF NewOrdering

LEMMA OtherPayment ==
  ASSUME NEW t, NEW u \in Threads, u # t, OnlyBy(t), Kept(u), DbTypes, Paying(u)
  PROVE  Paying(u)'
<1> DEFINE d == tx[u].d
           r == Customer(tx[u].e, tx[u].c)
           h == History(d, tx[u].e, tx[u].c)
<1>1. /\ pc'[u] = pc[u] /\ tx'[u] = tx[u] /\ writes'[u] = writes[u]
      /\ \A row : Held(u, row) => Held(u, row)'
  BY DEF OnlyBy
<1>2. d \in Districts /\ tx[u].e \in Districts /\ tx[u].c \in Customers
  BY DEF Paying
<1>3. /\ Held(u, Warehouse) => db'[Warehouse] = db[Warehouse]
      /\ Held(u, District(d)) => db'[District(d)] = db[District(d)] /\ db'[h] = db[h]
      /\ Held(u, r) => db'[r] = db[r]
  BY <1>2 DEF Kept
<1> QED BY <1>1, <1>3 DEF Paying

LEMMA OtherTook ==
  ASSUME NEW t, NEW u \in Threads, u # t, OnlyBy(t), Kept(u), DbTypes,
         NEW x \in Districts, NEW o, NEW rows, Took(u, x, o, rows)
  PROVE  /\ Took(u, x, o, rows)'
         /\ db'[Order(x, o)] = db[Order(x, o)] /\ db'[Lines(x, o)] = db[Lines(x, o)]
<1>1. /\ writes'[u] = writes[u] /\ \A r : Held(u, r) => Held(u, r)'
  BY DEF OnlyBy
<1>2. o \in Numbers /\ o < NextId(x) /\ NextId(x) \in Nat /\ Held(u, NewOrder(x, o))
  BY DEF Took, DbTypes, NextId
<1>3. \A p \in Numbers : p < o => p < NextId(x)
  BY <1>2, LoadedType DEF Numbers
<1> QED BY <1>1, <1>2, <1>3 DEF Took, Kept

LEMMA OtherDelivery ==
  ASSUME NEW t, NEW u \in Threads, u # t, OnlyBy(t), Kept(u), DbTypes, Delivering(u)
  PROVE  Delivering(u)'
<1> DEFINE d == tx[u].d
           o == tx[u].o
<1>1. /\ pc'[u] = pc[u] /\ tx'[u] = tx[u] /\ writes'[u] = writes[u]
      /\ \A r : Held(u, r) => Held(u, r)'
  BY DEF OnlyBy
<1>2. ASSUME NEW x \in Districts, NEW p \in Numbers, Delivered(u, x, p)
      PROVE  Delivered(u, x, p)'
  <2> DEFINE r == Customer(x, db[Order(x, p)].c)
  <2>1. /\ Took(u, x, p, {NewOrder(x, p), Order(x, p), Lines(x, p), r}) /\ CarrierSet(u, x, p)
        /\ Held(u, r) /\ writes[u][r] = [db[r] EXCEPT !.balance = @ + db[Lines(x, p)].amount]
    BY <1>2 DEF Delivered
  <2>2. /\ db'[Order(x, p)] = db[Order(x, p)] /\ db'[Lines(x, p)] = db[Lines(x, p)]
        /\ Took(u, x, p, {NewOrder(x, p), Order(x, p), Lines(x, p), r})'
    BY <2>1, OtherTook
  <2>3. db[Order(x, p)].c \in Customers
    BY <2>1 DEF Took, DbTypes, OrderRows
  <2>4. db'[r] = db[r]
    BY <2>1, <2>3 DEF Kept
  <2> QED BY <1>1, <2>1, <2>2, <2>4 DEF Delivered, CarrierSet
<1>3. ASSUME NEW rows, Took(u, d, o, rows), d \in Districts
      PROVE  /\ Took(u, d, o, rows)'
             /\ db'[Order(d, o)] = db[Order(d, o)] /\ db'[Lines(d, o)] = db[Lines(d, o)]
  BY <1>1, <1>3, OtherTook
<1>4. \A x \in Districts :
        /\ x > d => Untouched(u, x)'
        /\ x < d => Untouched(u, x)' \/ \E p \in Numbers : Delivered(u, x, p)'
  BY <1>1, <1>2 DEF Delivering, Untouched
<1>5. ASSUME pc[u] \in {"o_c_id", "carrier"} PROVE Took(u, d, o, {NewOrder(d, o)})'
  <2>1. d \in Districts /\ Took(u, d, o, {NewOrder(d, o)})
    BY <1>5 DEF Delivering
  <2>2. {NewOrder(d, o)}' = {NewOrder(d, o)}
    BY <1>1
  <2> QED BY <1>3, <2>1, <2>2
<1>6. pc[u] = "balance" =>
        Took(u, d, o, {NewOrder(d, o), Order(d, o), Lines(d, o)})' /\ CarrierSet(u, d, o)'
  BY <1>1, <1>3 DEF Delivering, CarrierSet
<1>7. pc[u] \in {"carrier", "balance"} => tx[u].c = db'[Order(d, o)].c
  BY <1>3 DEF Delivering
<1> QED BY <1>1, <1>4, <1>5, <1>6, <1>7 DEF Delivering, Untouched

LEMMA OtherThread ==
  ASSUME NEW t, NEW u \in Threads, u # t, OnlyBy(t), Kept(u), DbTypes, ThreadInv(u)
  PROVE  ThreadInv(u)'
<1>1. pc'[u] = pc[u] /\ tx'[u] = tx[u] /\ writes'[u] = writes[u] /\ view'[u] = view[u] /\ level' = level
  BY DEF OnlyBy
<1>2. AtRest(u) => AtRest(u)'
  BY <1>1 DEF AtRest
<1> QED BY <1>1, <1>2, OtherNewOrder, OtherPayment, OtherDelivery DEF ThreadInv

-----------------------------------------------------------------------------
(***************************************************************************)
(* Steps that commit nothing                                               *)
(***************************************************************************)
LEMMA DbSame ==
  ASSUME DbInv, db' = db
  PROVE  DbInv'
<1>1. DbTypes'
  BY DEF DbInv, DbTypes, NextId
<1>2. MoneyAgrees'
  BY DEF DbInv, MoneyAgrees
<1>3. DeliveryAgrees'
  BY DEF DbInv, DeliveryAgrees
<1>4. BalancesAgree'
  BY DEF DbInv, BalancesAgree
<1> QED BY <1>1, <1>2, <1>3, <1>4 DEF DbInv

LEMMA StepInv ==
  ASSUME IInv, NEW t \in Threads, OnlyBy(t), db' = db, LockInv', EventInv', ThreadInv(t)'
  PROVE  IInv'
<1>1. DbInv' /\ Shape'
  BY DbSame DEF IInv, OnlyBy
<1>2. \A u \in Threads : u # t => ThreadInv(u)'
  BY OtherThread, KeptSame DEF IInv, DbInv
<1>3. \A u \in Threads : ThreadInv(u)'
  BY <1>2
<1> QED BY <1>1, <1>3 DEF IInv

\* A statement: it remains to be shown what its own thread has got from it.
LEMMA StatementInv ==
  ASSUME IInv, NEW t \in Threads, NEW from, NEW to, NEW w, Statement(t, from, to, w),
         from \notin {"idle", "failed"}, to \notin {"idle", "failed"},
         view' = view, DOMAIN tx' = Threads, \A u \in Threads : u # t => tx'[u] = tx[u],
         ThreadInv(t)'
  PROVE  IInv'
<1>1. /\ pc[t] = from /\ pc'[t] = to /\ UNCHANGED <<level, db, events>>
      /\ DOMAIN pc' = Threads /\ DOMAIN writes' = Threads
      /\ \A u \in Threads : u # t => pc'[u] = pc[u] /\ writes'[u] = writes[u]
      /\ \A u, r : Held(u, r) => Held(u, r)'
  BY StatementStep DEF IInv
<1>2. OnlyBy(t)
  BY <1>1 DEF OnlyBy, Shape, IInv
<1>3. LockInv'
  BY LocksGrow DEF IInv
<1>4. Active' = Active
  BY <1>1 DEF Active
<1>5. EventInv'
  BY <1>1, <1>4 DEF EventInv, IInv, NextId
<1> QED BY <1>1, <1>2, <1>3, <1>5, StepInv

\* COMMIT and ROLLBACK, for all but the rows.
LEMMA EndAlone ==
  ASSUME Shape, LockInv, NEW t \in Threads, NEW to \in {"idle", "failed"}, EndTrx(t, to)
  PROVE  /\ OnlyBy(t) /\ LockInv' /\ AtRest(t)' /\ view'[t] = NoRow /\ pc'[t] = to
         /\ Active' = Active \ {t} /\ UNCHANGED <<level, events>>
<1>1. /\ \A u \in Threads : u # t =>
           pc'[u] = pc[u] /\ tx'[u] = tx[u] /\ writes'[u] = writes[u] /\ view'[u] = view[u]
      /\ pc'[t] = to /\ tx'[t] = NoRow /\ writes'[t] = <<>> /\ view'[t] = NoRow
      /\ DOMAIN pc' = Threads /\ DOMAIN tx' = Threads /\ DOMAIN writes' = Threads
      /\ DOMAIN view' = Threads /\ UNCHANGED <<level, events>>
      /\ locks' = {l \in locks : l[1] # t}
  BY DEF EndTrx, Shape
<1>2. Shape' /\ AtRest(t)'
  BY <1>1 DEF Shape, AtRest
<1>3. LockInv'
  BY <1>1 DEF LockInv
<1>4. ASSUME NEW u \in Threads, u # t, NEW r, Held(u, r) PROVE Held(u, r)'
  <2>1. <<u, r, "X">>[1] = u
    OBVIOUS
  <2> QED BY <1>1, <1>4, <2>1 DEF Held
<1>5. Active' = Active \ {t}
  BY <1>1 DEF Active
<1> QED BY <1>1, <1>2, <1>3, <1>4, <1>5 DEF OnlyBy

LEMMA RollbackInv ==
  ASSUME IInv, NEW t \in Threads, NEW to \in {"idle", "failed"}, EndTrx(t, to), db' = db,
         to = "idle" \/ level # "RC"
  PROVE  IInv'
<1>1. /\ OnlyBy(t) /\ LockInv' /\ AtRest(t)' /\ view'[t] = NoRow /\ pc'[t] = to
      /\ Active' = Active \ {t} /\ UNCHANGED <<level, events>>
  BY EndAlone DEF IInv
<1>2. ThreadInv(t)'
  BY <1>1 DEF ThreadInv
<1>3. IsFiniteSet(Active') /\ Cardinality(Active') <= Cardinality(Active)
      /\ Cardinality(Active) \in Nat /\ Cardinality(Active') \in Nat
  BY <1>1, FS_Subset, FS_CardinalityType DEF IInv, EventInv
<1>4. EventInv'
  <2>1. \A d \in Districts : NextId(d) \in Nat /\ NextId(d)' = NextId(d)
    BY DEF IInv, DbInv, DbTypes, NextId
  <2> QED BY <1>1, <1>3, <2>1, LoadedType DEF IInv, EventInv
<1> QED BY <1>1, <1>2, <1>4, StepInv

LEMMA BeginInv ==
  ASSUME IInv, NEW t \in Threads, NEW to, NEW values, Begin(t, to, values),
         to \notin {"idle", "failed"}, ThreadInv(t)'
  PROVE  IInv'
<1>1. /\ pc[t] = "idle" /\ events < MaxEvents /\ events' = events + 1
      /\ pc' = [pc EXCEPT ![t] = to] /\ tx' = [tx EXCEPT ![t] = values]
      /\ UNCHANGED <<level, db, writes, locks, view>>
  BY DEF Begin
<1>2. OnlyBy(t)
  BY <1>1 DEF OnlyBy, Shape, IInv, Held
<1>3. LockInv'
  BY <1>1 DEF LockInv, IInv, Shape
<1>4. Active' = Active \cup {t} /\ t \notin Active
  BY <1>1 DEF Active, IInv, Shape
<1>5. /\ IsFiniteSet(Active') /\ Cardinality(Active') = Cardinality(Active) + 1
      /\ Cardinality(Active) \in Nat
  BY <1>4, FS_AddElement, FS_CardinalityType DEF IInv, EventInv
<1>6. EventInv'
  <2>1. \A d \in Districts : NextId(d) \in Nat /\ NextId(d)' = NextId(d)
    BY <1>1 DEF IInv, DbInv, DbTypes, NextId
  <2> QED BY <1>1, <1>5, <2>1, LoadedType DEF IInv, EventInv
<1> QED BY <1>1, <1>2, <1>3, <1>6, StepInv

LEMMA Doing ==
  ASSUME NEW t, ThreadInv(t)
  PROVE  /\ pc[t] = "idle" => AtRest(t)
         /\ pc[t] \in {"next_o_id", "orders", "new_orders", "item"} => NewOrdering(t)
         /\ pc[t] \in {"w_ytd", "d_ytd", "customer"} => Paying(t)
         /\ pc[t] \in {"no_o_id", "o_c_id", "carrier", "balance"} => Delivering(t)
<1>1. AtRest(t) => pc[t] \in {"idle", "failed"}
  BY DEF AtRest
<1>2. NewOrdering(t) => pc[t] \in {"next_o_id", "orders", "new_orders", "item", "commit"}
  BY DEF NewOrdering
<1>3. Paying(t) => pc[t] \in {"w_ytd", "d_ytd", "customer", "commit"}
  BY DEF Paying
<1>4. Delivering(t) => pc[t] \in {"no_o_id", "o_c_id", "carrier", "balance", "commit"}
  BY DEF Delivering
<1> QED BY <1>1, <1>2, <1>3, <1>4 DEF ThreadInv

-----------------------------------------------------------------------------
(***************************************************************************)
(* new_order                                                               *)
(***************************************************************************)
LEMMA BeginNewOrderInv ==
  ASSUME IInv, NEW t \in Threads, BeginNewOrder(t)
  PROVE  IInv'
<1>1. PICK d \in Districts, c \in Customers, s \in Baskets :
        \E items \in {s} \cup (IF Len(s) > 1 THEN {WithMissing(s)} ELSE {}) :
          Begin(t, "next_o_id", [d |-> d, c |-> c, items |-> items, cnt |-> Len(s)])
  BY DEF BeginNewOrder
<1>2. PICK items \in {s} \cup (IF Len(s) > 1 THEN {WithMissing(s)} ELSE {}) :
        Begin(t, "next_o_id", [d |-> d, c |-> c, items |-> items, cnt |-> Len(s)])
  BY <1>1
<1>3. PICK n \in 1..MaxLines : s \in [1..n -> Items]
  BY DEF Baskets
<1>4. Len(s) = n /\ n \in Nat /\ n > 0 /\ s \in Seq(Items \cup {NoItem})
  BY <1>3, TpccAssumption
<1>5. items \in Seq(Items \cup {NoItem}) /\ Len(items) = Len(s)
  <2>1. CASE items = s
    BY <1>4, <2>1
  <2>2. CASE items = WithMissing(s)
    <3>1. items \in [1..n -> Items \cup {NoItem}]
      BY <1>3, <1>4, <2>2 DEF WithMissing
    <3> QED BY <1>4, <3>1
  <2> QED BY <1>2, <2>1, <2>2
<1>6. AtRest(t) /\ (view[t] = NoRow \/ view[t] \subseteq Rows)
  BY <1>2, Doing DEF Begin, IInv, ThreadInv
<1>7. /\ pc'[t] = "next_o_id" /\ view'[t] = view[t] /\ writes'[t] = writes[t]
      /\ tx'[t] = [d |-> d, c |-> c, items |-> items, cnt |-> Len(s)]
  BY <1>2 DEF Begin, IInv, Shape
<1>8. NewOrdering(t)'
  <2>1. DOMAIN writes'[t] = {}
    BY <1>6, <1>7 DEF AtRest
  <2>2. /\ DOMAIN tx'[t] = {"d", "c", "items", "cnt"} /\ tx'[t].d = d /\ tx'[t].c = c
        /\ tx'[t].items = items /\ tx'[t].cnt = n
    BY <1>4, <1>7
  <2> QED BY <1>4, <1>5, <1>7, <2>1, <2>2 DEF NewOrdering
<1>9. ThreadInv(t)'
  BY <1>6, <1>7, <1>8 DEF ThreadInv
<1> QED BY <1>2, <1>9, BeginInv

\* The next order of a district: nobody else can have its number.
LEMMA TakeNextOidInv ==
  ASSUME IInv, NEW t \in Threads, TakeNextOid(t)
  PROVE  IInv'
<1> DEFINE d == tx[t].d
           r == District(d)
           was == Latest(t, r)
           w == Row(r, [was EXCEPT !.next = @ + 1])
<1>1. /\ Statement(t, "next_o_id", "orders", w)
      /\ tx' = [tx EXCEPT ![t] = Over([o |-> was.next], tx[t])] /\ view' = view
  BY DEF TakeNextOid
<1>2. pc[t] = "next_o_id" /\ NewOrdering(t) /\ ThreadInv(t) /\ Shape
  BY <1>1, Doing DEF Statement, IInv
<1>3. /\ d \in Districts /\ tx[t].c \in Customers /\ tx[t].cnt \in Nat
      /\ tx[t].items \in Seq(Items \cup {NoItem}) /\ tx[t].cnt > 0
      /\ DOMAIN tx[t] = {"d", "c", "items", "cnt"} /\ DOMAIN writes[t] = {}
      /\ Len(tx[t].items) = tx[t].cnt
  BY <1>2 DEF NewOrdering
<1>4. was = db[r] /\ was.next = NextId(d)
  BY <1>3 DEF Latest, NextId
<1>5. /\ pc'[t] = "orders" /\ db' = db /\ level' = level /\ view'[t] = view[t]
      /\ DOMAIN writes'[t] = DOMAIN w \cup DOMAIN writes[t]
      /\ \A x \in DOMAIN w : writes'[t][x] = w[x]
      /\ \A x : <<x, "X">> \in Wants(t) => Held(t, x)'
  BY <1>1, <1>2, StatementStep
<1>6. DOMAIN writes'[t] = {r} /\ writes'[t][r] = [db[r] EXCEPT !.next = @ + 1]
  <2>1. DOMAIN w = {r} /\ w[r] = [was EXCEPT !.next = @ + 1]
    BY RowIs
  <2> HIDE DEF w
  <2> QED BY <1>3, <1>4, <1>5, <2>1
<1>7. <<t, r, "X">> \in locks'
  <2>1. <<r, "X">> \in Wants(t)
    BY <1>2, WantsAre
  <2> QED BY <1>5, <2>1 DEF Held
<1>8. /\ DOMAIN tx'[t] = {"o", "d", "c", "items", "cnt"} /\ tx'[t].o = NextId(d)
      /\ tx'[t].d = d /\ tx'[t].c = tx[t].c /\ tx'[t].cnt = tx[t].cnt /\ tx'[t].items = tx[t].items
  BY <1>1, <1>2, <1>3, <1>4 DEF Over, Shape
<1>9. NextId(d) \in Numbers
  <2>1. t \in Active /\ IsFiniteSet(Active)
    BY <1>2 DEF Active, IInv, EventInv
  <2>2. Cardinality(Active) \in Nat /\ Cardinality(Active) # 0
    BY <2>1, FS_CardinalityType, FS_EmptySet
  <2>3. NextId(d) \in Nat /\ NextId(d) > Loaded
    BY <1>3 DEF IInv, DbInv, DbTypes, NextId
  <2> QED BY <1>3, <2>2, <2>3, LoadedType DEF IInv, EventInv, Numbers
<1>10. NewOrdering(t)'
  <2>1. ~(Len(tx'[t].items) < tx'[t].cnt)
    BY <1>3, <1>8
  <2>2. {x \in {Lines(d, tx'[t].o)} : Len(tx'[t].items) < tx'[t].cnt} = {}
    BY <2>1
  <2>3. /\ pc'[t] \in {"orders", "new_orders", "item", "commit"} /\ "items" \in DOMAIN tx'[t]
        /\ tx'[t].d \in Districts /\ tx'[t].c \in Customers /\ tx'[t].cnt \in Nat
        /\ tx'[t].items \in Seq(Items \cup {NoItem}) /\ Len(tx'[t].items) <= tx'[t].cnt
        /\ tx'[t].cnt > 0 /\ tx'[t].o = NextId(d)' /\ tx'[t].o \in Numbers
        /\ Held(t, District(tx[t].d))' /\ Len(tx'[t].items) = tx'[t].cnt
    BY <1>3, <1>5, <1>7, <1>8, <1>9 DEF NextId, Held
  <2>4. /\ DOMAIN writes'[t] = {District(tx'[t].d)}
                 \cup {x \in {Order(tx'[t].d, tx'[t].o)} : pc'[t] # "orders"}
                 \cup {x \in {NewOrder(tx'[t].d, tx'[t].o)} : pc'[t] \in {"item", "commit"}}
                 \cup {x \in {Lines(tx'[t].d, tx'[t].o)} : Len(tx'[t].items) < tx'[t].cnt}
        /\ writes'[t][District(tx'[t].d)] = [db'[District(tx'[t].d)] EXCEPT !.next = @ + 1]
    BY <1>5, <1>6, <1>8, <2>2
  <2>5. pc'[t] = "orders" /\ DOMAIN tx'[t] = {"o", "d", "c", "items", "cnt"}
    BY <1>5, <1>8
  <2> QED BY ONLY <2>1, <2>3, <2>4, <2>5 DEF NewOrdering
<1>11. ThreadInv(t)'
  BY <1>2, <1>5, <1>10 DEF ThreadInv
<1> QED BY <1>1, <1>2, <1>11, StatementInv DEF Shape

\* A new order after its INSERT into orders, with left of its cnt lines to write.
Ordered(t, d, o, left, cnt, c) ==
  /\ d \in Districts /\ o \in Numbers /\ left \in Nat /\ cnt \in Nat \ {0} /\ c \in Customers
  /\ left <= cnt /\ DOMAIN tx[t] = {"o", "d", "c", "items", "cnt"}
  /\ tx[t].d = d /\ tx[t].o = o /\ tx[t].c = c /\ tx[t].cnt = cnt
  /\ tx[t].items \in Seq(Items \cup {NoItem}) /\ Len(tx[t].items) = left
  /\ o = NextId(d) /\ Held(t, District(d))
  /\ \/ pc[t] = "new_orders" /\ left = cnt
     \/ pc[t] = "item" /\ left > 0
     \/ pc[t] = "commit" /\ left = 0
  /\ DOMAIN writes[t] = {District(d), Order(d, o)}
       \cup (IF pc[t] = "new_orders" THEN {} ELSE {NewOrder(d, o)})
       \cup (IF left = cnt THEN {} ELSE {Lines(d, o)})
  /\ writes[t][District(d)] = [db[District(d)] EXCEPT !.next = @ + 1]
  /\ writes[t][Order(d, o)] = [c |-> c, cnt |-> cnt, carrier |-> FALSE]
  /\ pc[t] # "new_orders" => Held(t, NewOrder(d, o)) /\ writes[t][NewOrder(d, o)] = TRUE
  /\ left # cnt => writes[t][Lines(d, o)] =
       [n |-> cnt - left, amount |-> cnt - left, delivered |-> FALSE]

LEMMA OrderedIs ==
  ASSUME NEW t, NewOrdering(t), pc[t] \in {"new_orders", "item", "commit"}
  PROVE  Ordered(t, tx[t].d, tx[t].o, Len(tx[t].items), tx[t].cnt, tx[t].c)
<1> DEFINE left == Len(tx[t].items)
           cnt == tx[t].cnt
           d == tx[t].d
           o == tx[t].o
<1>1. /\ left \in Nat /\ cnt \in Nat \ {0} /\ left <= cnt /\ (left < cnt <=> left # cnt)
      /\ d \in Districts /\ tx[t].c \in Customers /\ tx[t].items \in Seq(Items \cup {NoItem})
  BY DEF NewOrdering
<1>2. /\ o = NextId(d) /\ o \in Numbers /\ Held(t, District(d))
      /\ DOMAIN tx[t] = {"o", "d", "c", "items", "cnt"}
      /\ pc[t] = "new_orders" => left = cnt
      /\ pc[t] = "item" => left > 0
      /\ pc[t] = "commit" => left = 0
      /\ writes[t][District(d)] = [db[District(d)] EXCEPT !.next = @ + 1]
      /\ writes[t][Order(d, o)] = [c |-> tx[t].c, cnt |-> cnt, carrier |-> FALSE]
      /\ pc[t] # "new_orders" => Held(t, NewOrder(d, o)) /\ writes[t][NewOrder(d, o)] = TRUE
      /\ left < cnt => writes[t][Lines(d, o)] =
           [n |-> cnt - left, amount |-> cnt - left, delivered |-> FALSE]
      /\ DOMAIN writes[t] = {District(d)}
           \cup {r \in {Order(d, o)} : pc[t] # "orders"}
           \cup {r \in {NewOrder(d, o)} : pc[t] \in {"item", "commit"}}
           \cup {r \in {Lines(d, o)} : left < cnt}
  BY DEF NewOrdering
<1>3. DOMAIN writes[t] = {District(d), Order(d, o)}
       \cup (IF pc[t] = "new_orders" THEN {} ELSE {NewOrder(d, o)})
       \cup (IF left = cnt THEN {} ELSE {Lines(d, o)})
  BY <1>1, <1>2
<1> QED BY <1>1, <1>2, <1>3 DEF Ordered

LEMMA NewOrderingOn ==
  ASSUME NEW t, NEW d, NEW o, NEW left, NEW cnt, NEW c, Ordered(t, d, o, left, cnt, c)'
  PROVE  NewOrdering(t)'
<1>1. left < cnt <=> left # cnt
  BY DEF Ordered
<1>2. DOMAIN writes'[t] = {District(d)}
        \cup {r \in {Order(d, o)} : pc'[t] # "orders"}
        \cup {r \in {NewOrder(d, o)} : pc'[t] \in {"item", "commit"}}
        \cup {r \in {Lines(d, o)} : left < cnt}
  <2>1. {r \in {Order(d, o)} : pc'[t] # "orders"} = {Order(d, o)}
    BY DEF Ordered
  <2>2. {r \in {NewOrder(d, o)} : pc'[t] \in {"item", "commit"}}
          = IF pc'[t] = "new_orders" THEN {} ELSE {NewOrder(d, o)}
    BY DEF Ordered
  <2>3. {r \in {Lines(d, o)} : left < cnt} = IF left = cnt THEN {} ELSE {Lines(d, o)}
    BY <1>1
  <2> QED BY <2>1, <2>2, <2>3 DEF Ordered
<1>3. "items" \in DOMAIN tx'[t] /\ pc'[t] \in {"orders", "new_orders", "item", "commit"} /\ cnt > 0
  BY DEF Ordered
<1> QED BY <1>1, <1>2, <1>3 DEF NewOrdering, Ordered

LEMMA InsertOrderInv ==
  ASSUME IInv, NEW t \in Threads, InsertOrder(t)
  PROVE  IInv'
<1>1. PICK d, o, c, cnt : d = tx[t].d /\ o = tx[t].o /\ c = tx[t].c /\ cnt = tx[t].cnt
  OBVIOUS
<1> DEFINE v == [c |-> c, cnt |-> cnt, carrier |-> FALSE]
<1>2. /\ Statement(t, "orders", "new_orders", Row(Order(d, o), v))
      /\ view' = view /\ tx' = tx
  BY <1>1 DEF InsertOrder
<1>3. pc[t] = "orders" /\ NewOrdering(t) /\ ThreadInv(t) /\ Shape
  BY <1>2, Doing DEF Statement, IInv
<1>4. /\ d \in Districts /\ c \in Customers /\ cnt \in Nat \ {0} /\ o \in Numbers
      /\ tx[t].items \in Seq(Items \cup {NoItem}) /\ Len(tx[t].items) = cnt
      /\ DOMAIN tx[t] = {"o", "d", "c", "items", "cnt"} /\ o = db[District(d)].next
      /\ <<t, District(d), "X">> \in locks
      /\ writes[t][District(d)] = [db[District(d)] EXCEPT !.next = @ + 1]
  BY <1>1, <1>3 DEF NewOrdering, Held, NextId
<1>5. DOMAIN writes[t] = {District(d)}
  <2>1. ~(Len(tx[t].items) < cnt) /\ pc[t] = "orders"
    BY <1>3, <1>4
  <2> QED BY <1>1, <1>3, <2>1 DEF NewOrdering
<1>6. /\ pc'[t] = "new_orders" /\ db' = db /\ level' = level /\ view'[t] = view[t]
      /\ locks \subseteq locks' /\ writes'[t] = Over(Row(Order(d, o), v), writes[t])
  BY <1>2, <1>3 DEF Statement, Shape
<1>7. /\ DOMAIN writes'[t] = {District(d), Order(d, o)} /\ writes'[t][Order(d, o)] = v
      /\ writes'[t][District(d)] = writes[t][District(d)]
  <2>1. District(d) # Order(d, o)
    BY RowKinds
  <2> HIDE DEF v
  <2> QED BY ONLY <1>5, <1>6, <2>1 DEF Over, Row
<1>8. NewOrdering(t)'
  <2>1. DOMAIN writes'[t] = {District(d), Order(d, o)}
           \cup (IF pc'[t] = "new_orders" THEN {} ELSE {NewOrder(d, o)})
           \cup (IF cnt = cnt THEN {} ELSE {Lines(d, o)})
    BY <1>6, <1>7
  <2>2. /\ tx'[t] = tx[t] /\ pc'[t] = "new_orders" /\ Held(t, District(d))'
        /\ writes'[t][District(d)] = [db'[District(d)] EXCEPT !.next = @ + 1]
        /\ o = NextId(d)'
    BY <1>2, <1>4, <1>6, <1>7 DEF Held, NextId
  <2>3. cnt \in Nat /\ cnt <= cnt /\ Len(tx'[t].items) = cnt
    BY <1>4, <2>2
  <2>4. Ordered(t, d, o, cnt, cnt, c)'
    BY <1>1, <1>4, <1>7, <2>1, <2>2, <2>3, Zenon DEF Ordered
  <2> QED BY <2>4, NewOrderingOn
<1>9. ThreadInv(t)'
  BY <1>3, <1>6, <1>8 DEF ThreadInv
<1> QED BY <1>2, <1>3, <1>9, StatementInv DEF Shape

LEMMA InsertNewOrderInv ==
  ASSUME IInv, NEW t \in Threads, InsertNewOrder(t)
  PROVE  IInv'
<1>1. PICK d, o, c, cnt : d = tx[t].d /\ o = tx[t].o /\ c = tx[t].c /\ cnt = tx[t].cnt
  OBVIOUS
<1> DEFINE n == NewOrder(d, o)
<1>2. /\ Statement(t, "new_orders", "item", Row(n, TRUE))
      /\ view' = view /\ tx' = tx
  BY <1>1 DEF InsertNewOrder
<1>3. pc[t] = "new_orders" /\ NewOrdering(t) /\ ThreadInv(t) /\ Shape
  BY <1>2, Doing DEF Statement, IInv
<1>4. PICK left : left = Len(tx[t].items) /\ Ordered(t, d, o, left, cnt, c)
  BY <1>1, <1>3, OrderedIs
<1>5. left = cnt /\ cnt > 0 /\ DOMAIN writes[t] = {District(d), Order(d, o)}
  BY <1>3, <1>4 DEF Ordered
<1>6. /\ pc'[t] = "item" /\ db' = db /\ level' = level /\ view'[t] = view[t]
      /\ locks \subseteq locks' /\ writes'[t] = Over(Row(n, TRUE), writes[t])
  BY <1>2, <1>3 DEF Statement, Shape
<1>7. <<t, n, "X">> \in locks'
  <2>1. <<n, "X">> \in Wants(t)
    BY <1>1, <1>3, WantsAre
  <2> QED BY <1>2, <1>3, <2>1, StatementStep DEF Held
<1>8. /\ DOMAIN writes'[t] = {District(d), Order(d, o), n} /\ writes'[t][n] = TRUE
      /\ \A r \in {District(d), Order(d, o)} : writes'[t][r] = writes[t][r]
  <2>1. District(d) # n /\ Order(d, o) # n
    BY RowKinds
  <2> QED BY ONLY <1>5, <1>6, <2>1 DEF Over, Row
<1>9. Ordered(t, d, o, left, cnt, c)'
  <2>1. /\ tx'[t] = tx[t] /\ pc'[t] = "item" /\ Held(t, District(d))' /\ Held(t, n)'
        /\ o = NextId(d)' /\ left > 0
    BY <1>2, <1>4, <1>5, <1>6, <1>7 DEF Held, NextId, Ordered
  <2>2. DOMAIN writes'[t] = {District(d), Order(d, o)}
           \cup (IF pc'[t] = "new_orders" THEN {} ELSE {NewOrder(d, o)})
           \cup (IF left = cnt THEN {} ELSE {Lines(d, o)})
    BY <1>5, <1>6, <1>8
  <2>3. writes'[t][District(d)] = [db'[District(d)] EXCEPT !.next = @ + 1]
    BY <1>4, <1>6, <1>8 DEF Ordered
  <2> QED BY <1>4, <1>5, <1>8, <2>1, <2>2, <2>3 DEF Ordered
<1>10. ThreadInv(t)'
  BY <1>3, <1>6, <1>9, NewOrderingOn DEF ThreadInv
<1>11. DOMAIN tx' = Threads /\ \A u \in Threads : u # t => tx'[u] = tx[u]
  BY <1>2, <1>3 DEF Shape
<1>12. "new_orders" \notin {"idle", "failed"} /\ "item" \notin {"idle", "failed"}
  OBVIOUS
<1> HIDE DEF n
<1> QED BY <1>2, <1>10, <1>11, <1>12, StatementInv, Zenon

\* A line more: the lines of the order are as many as the items that are done.
LEMMA OrderLineInv ==
  ASSUME IInv, NEW t \in Threads, OrderLine(t)
  PROVE  IInv'
<1>1. PICK d, o, c, cnt : d = tx[t].d /\ o = tx[t].o /\ c = tx[t].c /\ cnt = tx[t].cnt
  OBVIOUS
<1> DEFINE r == Lines(d, o)
           sofar == IF Latest(t, r) = NoRow THEN 0 ELSE Latest(t, r).n
           to == IF Len(tx[t].items) = 1 THEN "commit" ELSE "item"
           v == [n |-> sofar + 1, amount |-> sofar + 1, delivered |-> FALSE]
<1>2. /\ Statement(t, "item", to, Row(r, v)) /\ view' = view
      /\ tx' = [tx EXCEPT ![t].items = Tail(@)]
  BY <1>1 DEF OrderLine
<1>3. pc[t] = "item" /\ NewOrdering(t) /\ ThreadInv(t) /\ Shape
  BY <1>2, Doing DEF Statement, IInv
<1>4. PICK left : left = Len(tx[t].items) /\ Ordered(t, d, o, left, cnt, c)
  BY <1>1, <1>3, OrderedIs
<1>5. /\ left > 0 /\ left \in Nat /\ cnt \in Nat /\ left <= cnt /\ r \in Rows
      /\ DOMAIN writes[t] = {District(d), Order(d, o), NewOrder(d, o)}
           \cup (IF left = cnt THEN {} ELSE {r})
  BY <1>3, <1>4, RowsAre DEF Ordered
<1>6. r # District(d) /\ r # Order(d, o) /\ r # NewOrder(d, o)
  BY RowKinds
<1>7. sofar = cnt - left
  <2>1. CASE left = cnt
    <3>1. Latest(t, r) = NoRow
      <4>1. r \notin DOMAIN writes[t]
        BY <1>5, <1>6, <2>1
      <4>2. db[r] = NoRow
        <5>1. d \in Districts /\ o \in Numbers /\ o = NextId(d) /\ NextId(d) \in Nat
          BY <1>4 DEF Ordered, IInv, DbInv, DbTypes, NextId
        <5>2. o >= NextId(d)
          BY <5>1
        <5> QED BY <5>1, <5>2 DEF IInv, DbInv, DbTypes
      <4> QED BY <4>1, <4>2 DEF Latest
    <3> QED BY <1>5, <2>1, <3>1
  <2>2. CASE left # cnt
    <3>1. /\ Latest(t, r) = [n |-> cnt - left, amount |-> cnt - left, delivered |-> FALSE]
          /\ cnt - left \in Nat
      BY <1>4, <1>5, <2>2 DEF Ordered, Latest
    <3>2. Latest(t, r) \in LineRows
      BY <3>1 DEF LineRows
    <3>3. Latest(t, r) # NoRow
      BY ONLY <3>2, NoRowIs
    <3>4. Latest(t, r).n = cnt - left
      BY ONLY <3>1
    <3> QED BY ONLY <3>3, <3>4 DEF sofar
  <2> QED BY <2>1, <2>2
<1>8. PICK k : k = left - 1
  OBVIOUS
<1>9. /\ k \in Nat /\ k < cnt /\ v = [n |-> cnt - k, amount |-> cnt - k, delivered |-> FALSE]
      /\ to = IF k = 0 THEN "commit" ELSE "item"
  <2>1. k \in Nat /\ k < cnt /\ sofar + 1 = cnt - k
    BY <1>5, <1>7, <1>8
  <2>2. Len(tx[t].items) = 1 <=> k = 0
    BY <1>4, <1>5, <1>8
  <2> HIDE DEF sofar
  <2> QED BY <2>1, <2>2
<1>10. PICK val : val = v
  OBVIOUS
<1> HIDE DEF v, sofar, to
<1>11. /\ pc'[t] = to /\ db' = db /\ level' = level /\ view'[t] = view[t]
       /\ locks \subseteq locks' /\ writes'[t] = Over(Row(r, val), writes[t])
  BY <1>2, <1>3, <1>10 DEF Statement, Shape
<1>12. /\ DOMAIN writes'[t] = {District(d), Order(d, o), NewOrder(d, o), r}
       /\ writes'[t][r] = val
       /\ \A x \in {District(d), Order(d, o), NewOrder(d, o)} : writes'[t][x] = writes[t][x]
  BY ONLY <1>5, <1>6, <1>11 DEF Over, Row
<1>13. /\ DOMAIN tx'[t] = {"o", "d", "c", "items", "cnt"}
       /\ tx'[t].d = d /\ tx'[t].o = o /\ tx'[t].c = c /\ tx'[t].cnt = cnt
       /\ tx'[t].items \in Seq(Items \cup {NoItem}) /\ Len(tx'[t].items) = k
  <2>1. tx'[t] = [tx[t] EXCEPT !.items = Tail(tx[t].items)]
    BY <1>2, <1>3 DEF Shape
  <2>2. /\ tx[t].items \in Seq(Items \cup {NoItem}) /\ tx[t].items # <<>>
        /\ DOMAIN tx[t] = {"o", "d", "c", "items", "cnt"}
    BY <1>4, <1>5 DEF Ordered
  <2>3. /\ Tail(tx[t].items) \in Seq(Items \cup {NoItem})
        /\ Len(Tail(tx[t].items)) = Len(tx[t].items) - 1
    BY <2>2
  <2> QED BY <1>1, <1>4, <1>8, <2>1, <2>2, <2>3
<1>14. Ordered(t, d, o, k, cnt, c)'
  <2>1. /\ Held(t, District(d))' /\ Held(t, NewOrder(d, o))' /\ o = NextId(d)'
        /\ writes'[t][NewOrder(d, o)] = TRUE
        /\ writes'[t][Order(d, o)] = [c |-> c, cnt |-> cnt, carrier |-> FALSE]
    BY <1>3, <1>4, <1>11, <1>12 DEF Held, NextId, Ordered
  <2>2. /\ pc'[t] # "new_orders" /\ k # cnt /\ k <= cnt
        /\ \/ pc'[t] = "item" /\ k > 0
           \/ pc'[t] = "commit" /\ k = 0
    BY <1>5, <1>9, <1>11
  <2>3. DOMAIN writes'[t] = {District(d), Order(d, o)}
           \cup (IF pc'[t] = "new_orders" THEN {} ELSE {NewOrder(d, o)})
           \cup (IF k = cnt THEN {} ELSE {Lines(d, o)})
    BY <1>12, <2>2
  <2>4. writes'[t][District(d)] = [db'[District(d)] EXCEPT !.next = @ + 1]
    BY <1>4, <1>11, <1>12 DEF Ordered
  <2>5. writes'[t][Lines(d, o)] = [n |-> cnt - k, amount |-> cnt - k, delivered |-> FALSE]
    BY <1>9, <1>10, <1>12
  <2>6. d \in Districts /\ o \in Numbers /\ cnt \in Nat \ {0} /\ c \in Customers
    BY <1>4 DEF Ordered
  <2> QED BY <1>9, <1>13, <2>1, <2>2, <2>3, <2>4, <2>5, <2>6 DEF Ordered
<1>15. ThreadInv(t)'
  <2>1. pc'[t] # "failed" /\ NewOrdering(t)'
    BY <1>9, <1>11, <1>14, NewOrderingOn
  <2> QED BY <1>3, <1>11, <2>1 DEF ThreadInv
<1>16. /\ DOMAIN tx' = Threads /\ \A u \in Threads : u # t => tx'[u] = tx[u]
       /\ to \notin {"idle", "failed"}
  BY <1>2, <1>3, <1>9 DEF Shape
<1> QED BY <1>2, <1>15, <1>16, StatementInv

LEMMA MissingItemInv ==
  ASSUME IInv, NEW t \in Threads, MissingItem(t)
  PROVE  IInv'
BY RollbackInv DEF MissingItem

-----------------------------------------------------------------------------
(***************************************************************************)
(* payment                                                                 *)
(***************************************************************************)
\* The rows of a payment, in the order in which it writes them.
Paid(t, d, e, c) ==
  /\ d \in Districts /\ e \in Districts /\ c \in Customers
  /\ DOMAIN tx[t] = {"d", "e", "c"} /\ tx[t].d = d /\ tx[t].e = e /\ tx[t].c = c
  /\ \/ pc[t] = "w_ytd" /\ DOMAIN writes[t] = {}
     \/ pc[t] = "d_ytd" /\ DOMAIN writes[t] = {Warehouse}
     \/ pc[t] = "customer" /\ DOMAIN writes[t] = {Warehouse, District(d)}
     \/ /\ pc[t] = "commit"
        /\ DOMAIN writes[t] = {Warehouse, District(d), Customer(e, c), History(d, e, c)}
  /\ pc[t] # "w_ytd" => Held(t, Warehouse) /\ writes[t][Warehouse] = db[Warehouse] + 1
  /\ pc[t] \in {"customer", "commit"} =>
       Held(t, District(d)) /\ writes[t][District(d)] = [db[District(d)] EXCEPT !.ytd = @ + 1]
  /\ pc[t] = "commit" =>
       /\ Held(t, Customer(e, c)) /\ writes[t][History(d, e, c)] = db[History(d, e, c)] + 1
       /\ writes[t][Customer(e, c)] = [balance |-> db[Customer(e, c)].balance - 1,
                                       ytd |-> db[Customer(e, c)].ytd + 1]

LEMMA PaidIs ==
  ASSUME NEW t, Paying(t)
  PROVE  Paid(t, tx[t].d, tx[t].e, tx[t].c)
<1> DEFINE d == tx[t].d
           r == Customer(tx[t].e, tx[t].c)
           h == History(d, tx[t].e, tx[t].c)
<1>1. /\ pc[t] \in {"w_ytd", "d_ytd", "customer", "commit"}
      /\ DOMAIN writes[t] = {x \in {Warehouse} : pc[t] # "w_ytd"}
           \cup {x \in {District(d)} : pc[t] \in {"customer", "commit"}}
           \cup {x \in {r, h} : pc[t] = "commit"}
  BY DEF Paying
<1>2. \/ pc[t] = "w_ytd" /\ DOMAIN writes[t] = {}
      \/ pc[t] = "d_ytd" /\ DOMAIN writes[t] = {Warehouse}
      \/ pc[t] = "customer" /\ DOMAIN writes[t] = {Warehouse, District(d)}
      \/ pc[t] = "commit" /\ DOMAIN writes[t] = {Warehouse, District(d), r, h}
  BY <1>1
<1> QED BY <1>2 DEF Paying, Paid

LEMMA PayingOn ==
  ASSUME NEW t, NEW d, NEW e, NEW c, Paid(t, d, e, c)'
  PROVE  Paying(t)'
<1> DEFINE r == Customer(e, c)
           h == History(d, e, c)
<1>1. \/ pc'[t] = "w_ytd" /\ DOMAIN writes'[t] = {}
      \/ pc'[t] = "d_ytd" /\ DOMAIN writes'[t] = {Warehouse}
      \/ pc'[t] = "customer" /\ DOMAIN writes'[t] = {Warehouse, District(d)}
      \/ pc'[t] = "commit" /\ DOMAIN writes'[t] = {Warehouse, District(d), r, h}
  BY DEF Paid
<1>2. /\ pc'[t] \in {"w_ytd", "d_ytd", "customer", "commit"}
      /\ DOMAIN writes'[t] = {x \in {Warehouse} : pc'[t] # "w_ytd"}
           \cup {x \in {District(d)} : pc'[t] \in {"customer", "commit"}}
           \cup {x \in {r, h} : pc'[t] = "commit"}
  BY <1>1
<1> QED BY <1>2 DEF Paying, Paid

LEMMA BeginPaymentInv ==
  ASSUME IInv, NEW t \in Threads, BeginPayment(t)
  PROVE  IInv'
<1>1. PICK d \in Districts, e \in Districts, c \in Customers :
        Begin(t, "w_ytd", [d |-> d, e |-> e, c |-> c])
  BY DEF BeginPayment
<1>2. AtRest(t) /\ (view[t] = NoRow \/ view[t] \subseteq Rows)
  BY <1>1, Doing DEF Begin, IInv, ThreadInv
<1>3. /\ pc'[t] = "w_ytd" /\ view'[t] = view[t] /\ writes'[t] = writes[t]
      /\ tx'[t] = [d |-> d, e |-> e, c |-> c]
  BY <1>1 DEF Begin, IInv, Shape
<1>4. Paid(t, d, e, c)'
  BY <1>2, <1>3 DEF Paid, AtRest
<1>5. ThreadInv(t)'
  BY <1>2, <1>3, <1>4, PayingOn DEF ThreadInv
<1>6. "w_ytd" \notin {"idle", "failed"}
  OBVIOUS
<1> QED BY <1>1, <1>5, <1>6, BeginInv

LEMMA PayWarehouseInv ==
  ASSUME IInv, NEW t \in Threads, PayWarehouse(t)
  PROVE  IInv'
<1>1. PICK d, e, c : d = tx[t].d /\ e = tx[t].e /\ c = tx[t].c
  OBVIOUS
<1>2. PICK val : val = Latest(t, Warehouse) + 1
  OBVIOUS
<1>3. Statement(t, "w_ytd", "d_ytd", Row(Warehouse, val)) /\ view' = view /\ tx' = tx
  BY <1>2 DEF PayWarehouse
<1>4. pc[t] = "w_ytd" /\ Paying(t) /\ ThreadInv(t) /\ Shape
  BY <1>3, Doing DEF Statement, IInv
<1>5. Paid(t, d, e, c) /\ DOMAIN writes[t] = {}
  BY <1>1, <1>4, PaidIs DEF Paid
<1>6. /\ pc'[t] = "d_ytd" /\ db' = db /\ level' = level /\ view'[t] = view[t]
      /\ locks \subseteq locks' /\ writes'[t] = Over(Row(Warehouse, val), writes[t])
  <2>1. t \in DOMAIN pc /\ t \in DOMAIN writes
    BY <1>4 DEF Shape
  <2>2. view'[t] = view[t]
    BY <1>3
  <2> QED BY <1>3, <2>1, <2>2 DEF Statement
<1>7. Held(t, Warehouse)'
  <2>1. <<Warehouse, "X">> \in Wants(t)
    BY <1>4, WantsAre
  <2>2. <<t, Warehouse, "X">> \in locks'
    BY <1>3, <2>1 DEF Statement
  <2> QED BY <2>2 DEF Held
<1>8. DOMAIN writes'[t] = {Warehouse} /\ writes'[t][Warehouse] = db[Warehouse] + 1
  <2>1. val = db[Warehouse] + 1
    BY <1>2, <1>5 DEF Latest
  <2> QED BY ONLY <1>5, <1>6, <2>1 DEF Over, Row
<1>9. Paid(t, d, e, c)'
  BY <1>3, <1>5, <1>6, <1>7, <1>8 DEF Paid
<1>10. ThreadInv(t)'
  BY <1>4, <1>6, <1>9, PayingOn DEF ThreadInv
<1>11. /\ DOMAIN tx' = Threads /\ \A u \in Threads : u # t => tx'[u] = tx[u]
       /\ "w_ytd" \notin {"idle", "failed"} /\ "d_ytd" \notin {"idle", "failed"}
  BY <1>3, <1>4 DEF Shape
<1> QED BY <1>3, <1>10, <1>11, StatementInv

LEMMA PayDistrictInv ==
  ASSUME IInv, NEW t \in Threads, PayDistrict(t)
  PROVE  IInv'
<1>1. PICK d, e, c : d = tx[t].d /\ e = tx[t].e /\ c = tx[t].c
  OBVIOUS
<1> DEFINE r == District(d)
<1>2. PICK val : val = [Latest(t, r) EXCEPT !.ytd = @ + 1]
  OBVIOUS
<1>3. Statement(t, "d_ytd", "customer", Row(r, val)) /\ view' = view /\ tx' = tx
  BY <1>1, <1>2 DEF PayDistrict, PaidDistrict
<1>4. pc[t] = "d_ytd" /\ Paying(t) /\ ThreadInv(t) /\ Shape
  BY <1>3, Doing DEF Statement, IInv
<1>5. Paid(t, d, e, c) /\ DOMAIN writes[t] = {Warehouse} /\ r # Warehouse
  BY <1>1, <1>4, PaidIs, RowKinds DEF Paid
<1>6. /\ pc'[t] = "customer" /\ db' = db /\ level' = level /\ view'[t] = view[t]
      /\ locks \subseteq locks' /\ writes'[t] = Over(Row(r, val), writes[t])
  BY <1>3, <1>4 DEF Statement, Shape
<1>7. Held(t, r)'
  <2>1. <<r, "X">> \in Wants(t)
    BY <1>1, <1>4, WantsAre
  <2> QED BY <1>3, <1>4, <2>1, StatementStep
<1>8. /\ DOMAIN writes'[t] = {Warehouse, r} /\ writes'[t][r] = [db[r] EXCEPT !.ytd = @ + 1]
      /\ writes'[t][Warehouse] = writes[t][Warehouse]
  <2>1. val = [db[r] EXCEPT !.ytd = @ + 1]
    BY <1>2, <1>5 DEF Latest
  <2>2. DOMAIN writes'[t] = {Warehouse, r} /\ writes'[t][r] = val
        /\ writes'[t][Warehouse] = writes[t][Warehouse]
    BY ONLY <1>5, <1>6 DEF Over, Row
  <2> QED BY <2>1, <2>2
<1>9. Paid(t, d, e, c)'
  <2>1. Held(t, Warehouse)' /\ writes'[t][Warehouse] = db'[Warehouse] + 1
    BY <1>4, <1>5, <1>6, <1>8 DEF Paid, Held
  <2> QED BY <1>3, <1>5, <1>6, <1>7, <1>8, <2>1 DEF Paid
<1>10. ThreadInv(t)'
  BY <1>4, <1>6, <1>9, PayingOn DEF ThreadInv
<1>11. /\ DOMAIN tx' = Threads /\ \A u \in Threads : u # t => tx'[u] = tx[u]
       /\ "d_ytd" \notin {"idle", "failed"} /\ "customer" \notin {"idle", "failed"}
  BY <1>3, <1>4 DEF Shape
<1> QED BY <1>3, <1>10, <1>11, StatementInv

LEMMA PayCustomerInv ==
  ASSUME IInv, NEW t \in Threads, PayCustomer(t)
  PROVE  IInv'
<1>1. PICK d, e, c : d = tx[t].d /\ e = tx[t].e /\ c = tx[t].c
  OBVIOUS
<1> DEFINE r == Customer(e, c)
           h == History(d, e, c)
<1>2. PICK val, sum :
        /\ val = [balance |-> Latest(t, r).balance - 1, ytd |-> Latest(t, r).ytd + 1]
        /\ sum = Latest(t, h) + 1
  OBVIOUS
<1>3. PICK w : w = Over(Row(r, val), Row(h, sum))
  OBVIOUS
<1>4. Statement(t, "customer", "commit", w) /\ view' = view /\ tx' = tx
  BY <1>1, <1>2, <1>3 DEF PayCustomer
<1>5. pc[t] = "customer" /\ Paying(t) /\ ThreadInv(t) /\ Shape
  BY <1>4, Doing DEF Statement, IInv
<1>6. Paid(t, d, e, c) /\ DOMAIN writes[t] = {Warehouse, District(d)}
  BY <1>1, <1>5, PaidIs DEF Paid
<1>7. /\ r # h /\ r # Warehouse /\ r # District(d) /\ h # Warehouse /\ h # District(d)
      /\ Warehouse # District(d)
  BY RowKinds
<1>8. /\ pc'[t] = "commit" /\ db' = db /\ level' = level /\ view'[t] = view[t]
      /\ locks \subseteq locks' /\ writes'[t] = Over(w, writes[t])
  BY <1>4, <1>5 DEF Statement, Shape
<1>9. Held(t, r)'
  <2>1. <<r, "X">> \in Wants(t)
    BY <1>1, <1>5, WantsAre
  <2> QED BY <1>4, <1>5, <2>1, StatementStep
<1>10. DOMAIN w = {r, h} /\ w[r] = val /\ w[h] = sum
  BY ONLY <1>3, <1>7 DEF Over, Row
<1>11. /\ DOMAIN writes'[t] = {Warehouse, District(d), r, h}
       /\ writes'[t][r] = val /\ writes'[t][h] = sum
       /\ writes'[t][Warehouse] = writes[t][Warehouse]
       /\ writes'[t][District(d)] = writes[t][District(d)]
  BY ONLY <1>6, <1>7, <1>8, <1>10 DEF Over
<1>12. /\ val = [balance |-> db[r].balance - 1, ytd |-> db[r].ytd + 1]
       /\ sum = db[h] + 1
  BY <1>2, <1>6, <1>7 DEF Latest
<1>13. Paid(t, d, e, c)'
  <2>1. /\ Held(t, Warehouse)' /\ writes'[t][Warehouse] = db'[Warehouse] + 1
        /\ Held(t, District(d))'
        /\ writes'[t][District(d)] = [db'[District(d)] EXCEPT !.ytd = @ + 1]
    BY <1>5, <1>6, <1>8, <1>11 DEF Paid, Held
  <2> QED BY <1>4, <1>6, <1>8, <1>9, <1>11, <1>12, <2>1 DEF Paid
<1>14. ThreadInv(t)'
  BY <1>5, <1>8, <1>13, PayingOn DEF ThreadInv
<1>15. /\ DOMAIN tx' = Threads /\ \A u \in Threads : u # t => tx'[u] = tx[u]
       /\ "customer" \notin {"idle", "failed"} /\ "commit" \notin {"idle", "failed"}
  BY <1>4, <1>5 DEF Shape
<1> QED BY <1>4, <1>14, <1>15, StatementInv

-----------------------------------------------------------------------------
(***************************************************************************)
(* delivery                                                                *)
(***************************************************************************)
\* The districts but one, as a delivery has left them.
Elsewhere(t, d) ==
  /\ \A r \in DOMAIN writes[t] :
       r[1] \in {"new_orders", "orders", "order_line", "customer"} /\ r[2] \in Districts
  /\ \A x \in Districts :
       /\ x > d => Untouched(t, x)
       /\ x < d => Untouched(t, x) \/ \E p \in Numbers : Delivered(t, x, p)

\* What a statement of t that writes only rows of district d leaves as it was.
LEMMA ElsewhereStep ==
  ASSUME NEW t, NEW d \in Districts, NEW w, Elsewhere(t, d), db' = db, locks \subseteq locks',
         writes'[t] = Over(w, writes[t]),
         \A r \in DOMAIN w : /\ r[1] \in {"new_orders", "orders", "order_line", "customer"}
                             /\ r[2] = d
  PROVE  Elsewhere(t, d)'
<1>1. /\ DOMAIN writes'[t] = DOMAIN w \cup DOMAIN writes[t]
      /\ \A r \in DOMAIN writes[t] : r[2] # d => writes'[t][r] = writes[t][r]
  BY DEF Over
<1>2. ASSUME NEW x \in Districts, x # d
      PROVE  /\ {r \in DOMAIN writes'[t] : r[2] = x} = {r \in DOMAIN writes[t] : r[2] = x}
             /\ Untouched(t, x) => Untouched(t, x)'
  BY <1>1, <1>2 DEF Untouched
<1>3. ASSUME NEW x \in Districts, x # d, NEW p \in Numbers, Delivered(t, x, p)
      PROVE  Delivered(t, x, p)'
  <2> DEFINE r == Customer(x, db[Order(x, p)].c)
             rows == {NewOrder(x, p), Order(x, p), Lines(x, p), r}
  <2>1. /\ Took(t, x, p, rows) /\ CarrierSet(t, x, p) /\ Held(t, r)
        /\ writes[t][r] = [db[r] EXCEPT !.balance = @ + db[Lines(x, p)].amount]
    BY <1>3 DEF Delivered
  <2>2. \A y \in rows : y \in DOMAIN writes[t] /\ y[2] = x
    BY <2>1 DEF Took
  <2>3. \A y \in rows : writes'[t][y] = writes[t][y]
    BY <1>1, <1>3, <2>2
  <2>4. Took(t, x, p, rows)'
    BY <1>2, <1>3, <2>1, <2>3 DEF Took, Held, NextId
  <2> QED BY <2>1, <2>3, <2>4 DEF Delivered, CarrierSet, Held
<1>4. \A r \in DOMAIN writes'[t] :
        r[1] \in {"new_orders", "orders", "order_line", "customer"} /\ r[2] \in Districts
  BY <1>1 DEF Elsewhere
<1>5. \A x \in Districts :
        /\ x > d => Untouched(t, x)'
        /\ x < d => Untouched(t, x)' \/ \E p \in Numbers : Delivered(t, x, p)'
  <2>1. \A x \in Districts : x > d \/ x < d => x # d
    BY DEF Districts
  <2> QED BY <1>2, <1>3, <2>1 DEF Elsewhere
<1> QED BY <1>4, <1>5 DEF Elsewhere

\* A district is done with: it has been left alone, or its order is delivered.
LEMMA ElsewhereNext ==
  ASSUME NEW t, NEW d \in Districts, Elsewhere(t, d)',
         Untouched(t, d)' \/ \E p \in Numbers : Delivered(t, d, p)'
  PROVE  Elsewhere(t, d + 1)'
<1>1. \A x \in Districts : (x > d + 1 => x > d) /\ (x < d + 1 => x < d \/ x = d)
  BY TpccAssumption DEF Districts
<1> QED BY <1>1 DEF Elsewhere

LEMMA BeginDeliveryInv ==
  ASSUME IInv, NEW t \in Threads, BeginDelivery(t)
  PROVE  IInv'
<1>1. Begin(t, "no_o_id", [d |-> 1])
  BY DEF BeginDelivery
<1>2. AtRest(t) /\ (view[t] = NoRow \/ view[t] \subseteq Rows)
  BY <1>1, Doing DEF Begin, IInv, ThreadInv
<1>3. /\ pc'[t] = "no_o_id" /\ view'[t] = view[t] /\ writes'[t] = writes[t]
      /\ tx'[t] = [d |-> 1]
  BY <1>1 DEF Begin, IInv, Shape
<1>4. DOMAIN writes'[t] = {} /\ 1 \in Districts /\ \A x \in Districts : ~(x < 1)
  BY <1>2, <1>3, TpccAssumption DEF AtRest, Districts
<1>5. Delivering(t)'
  BY <1>3, <1>4 DEF Delivering, Untouched
<1>6. ThreadInv(t)'
  BY <1>2, <1>3, <1>5 DEF ThreadInv
<1>7. "no_o_id" \notin {"idle", "failed"}
  OBVIOUS
<1> QED BY <1>1, <1>6, <1>7, BeginInv

\* Delivering is at district d, or done with the last.
LEMMA DeliveringOn ==
  ASSUME NEW t, NEW d, Elsewhere(t, d)', tx'[t].d = d,
         \/ /\ pc'[t] = "no_o_id" /\ d \in Districts /\ DOMAIN tx'[t] = {"d"} /\ Untouched(t, d)'
         \/ pc'[t] = "commit" /\ d = DIST_PER_WARE + 1 /\ DOMAIN tx'[t] = {"d"}
  PROVE  Delivering(t)'
BY DEF Delivering, Elsewhere

LEMMA ElsewhereIs ==
  ASSUME NEW t, Delivering(t)
  PROVE  Elsewhere(t, tx[t].d)
BY DEF Delivering, Elsewhere

LEMMA NextDistrictIs ==
  ASSUME NEW t, NEW d \in Districts, tx[t].d = d
  PROVE  \/ NextDistrict(t) = "no_o_id" /\ d + 1 \in Districts
         \/ NextDistrict(t) = "commit" /\ d + 1 = DIST_PER_WARE + 1
BY TpccAssumption DEF NextDistrict, Districts

\* A row of new_orders that is written and not committed is locked by who wrote it: it
\* is the one that its new order inserts, or a committed one that its delivery deletes.
LEMMA NewOrderWritten ==
  ASSUME NEW u, ThreadInv(u), NEW d \in Districts, NEW o \in Numbers,
         NewOrder(d, o) \in DOMAIN writes[u]
  PROVE  /\ Held(u, NewOrder(d, o))
         /\ \/ NewOrdering(u) /\ o = NextId(d)
            \/ db[NewOrder(d, o)] # NoRow
<1>1. CASE AtRest(u)
  BY <1>1 DEF AtRest
<1>2. CASE NewOrdering(u)
  <2>1. CASE pc[u] \in {"next_o_id", "orders"}
    <3>1. \/ DOMAIN writes[u] = {}
          \/ /\ tx[u].items \in Seq(Items \cup {NoItem}) /\ Len(tx[u].items) = tx[u].cnt
             /\ DOMAIN writes[u] = {District(tx[u].d)}
                  \cup {r \in {Lines(tx[u].d, tx[u].o)} : Len(tx[u].items) < tx[u].cnt}
      BY <1>2, <2>1 DEF NewOrdering
    <3>2. DOMAIN writes[u] = {} \/ DOMAIN writes[u] = {District(tx[u].d)}
      BY <3>1
    <3> QED BY <3>2, RowKinds
  <2>2. CASE pc[u] \in {"new_orders", "item", "commit"}
    <3>1. PICK e, p, left, cnt, c : Ordered(u, e, p, left, cnt, c)
      BY <1>2, <2>2, OrderedIs
    <3>2. /\ DOMAIN writes[u] = {District(e), Order(e, p)}
               \cup (IF pc[u] = "new_orders" THEN {} ELSE {NewOrder(e, p)})
               \cup (IF left = cnt THEN {} ELSE {Lines(e, p)})
          /\ pc[u] # "new_orders" => Held(u, NewOrder(e, p))
          /\ p = NextId(e)
      BY <3>1 DEF Ordered
    <3>3. /\ NewOrder(d, o) # District(e) /\ NewOrder(d, o) # Order(e, p)
          /\ NewOrder(d, o) # Lines(e, p)
          /\ NewOrder(d, o) = NewOrder(e, p) => d = e /\ o = p
      BY RowKinds
    <3>4. pc[u] # "new_orders" /\ d = e /\ o = p
      BY <3>2, <3>3
    <3> QED BY <1>2, <3>2, <3>4
  <2> QED BY <1>2, <2>1, <2>2 DEF NewOrdering
<1>3. CASE Paying(u)
  <2>1. PICK e, k, c : Paid(u, e, k, c)
    BY <1>3, PaidIs
  <2>2. DOMAIN writes[u] \subseteq {Warehouse, District(e), Customer(k, c), History(e, k, c)}
    BY <2>1 DEF Paid
  <2> QED BY <2>2, RowKinds
<1>4. CASE Delivering(u)
  <2>1. ASSUME NEW p, NEW rows, Took(u, d, p, rows),
               rows \subseteq {NewOrder(d, p), Order(d, p), Lines(d, p)}
                              \cup {Customer(d, c) : c \in {db[Order(d, p)].c}}
        PROVE  p = o
    <3>1. NewOrder(d, o)[2] = d
      BY RowKinds
    <3>2. NewOrder(d, o) \in rows
      BY <2>1, <3>1 DEF Took
    <3>3. NewOrder(d, o) = NewOrder(d, p)
      BY <2>1, <3>2, RowKinds
    <3> QED BY <3>3, RowKinds
  <2>2. ~ Untouched(u, d)
    BY RowKinds DEF Untouched
  <2>3. PICK p, rows : /\ Took(u, d, p, rows)
                       /\ rows \subseteq {NewOrder(d, p), Order(d, p), Lines(d, p)}
                                         \cup {Customer(d, c) : c \in {db[Order(d, p)].c}}
    <3> DEFINE x == tx[u].d
    <3>1. CASE d < x
      <4>1. PICK p \in Numbers : Delivered(u, d, p)
        BY <1>4, <2>2, <3>1 DEF Delivering
      <4> QED BY <4>1 DEF Delivered
    <3>2. CASE d = x
      <4>1. pc[u] \in {"o_c_id", "carrier", "balance"}
        BY <1>4, <2>2, <3>2, TpccAssumption DEF Delivering, Districts
      <4> QED BY <1>4, <3>2, <4>1 DEF Delivering
    <3>3. d < x \/ d = x
      <4>1. x \in Districts \/ x = DIST_PER_WARE + 1
        BY <1>4 DEF Delivering
      <4>2. ~(d > x)
        BY <1>4, <2>2 DEF Delivering
      <4> QED BY <4>1, <4>2, TpccAssumption DEF Districts
    <3> QED BY <3>1, <3>2, <3>3
  <2>4. p = o
    BY <2>1, <2>3
  <2> QED BY <2>3, <2>4 DEF Took
<1> QED BY <1>1, <1>2, <1>3, <1>4 DEF ThreadInv

\* What the locking read of a delivery finds is committed: the oldest of the committed
\* new orders is there, and one that is not committed is locked by its own thread.
LEMMA OldestIs ==
  ASSUME IInv, NEW t \in Threads, pc[t] = "no_o_id", Granted(t), NewOrders(tx[t].d) # {},
         NEW d, d = tx[t].d, NEW o, o = Oldest(NewOrders(d))
  PROVE  /\ d \in Districts /\ o \in Numbers /\ o < NextId(d) /\ db[NewOrder(d, o)] # NoRow
         /\ \A p \in Numbers : p < o => db[NewOrder(d, p)] = NoRow
<1>1. Delivering(t) /\ d \in Districts /\ Untouched(t, d)
  <2>1. Delivering(t)
    BY Doing DEF IInv
  <2> QED BY <2>1 DEF Delivering
<1>2. PICK first \in 1..NextId(d) :
        \A p \in Numbers : db[NewOrder(d, p)] # NoRow <=> first <= p /\ p < NextId(d)
  BY <1>1 DEF IInv, DbInv, DbTypes
<1>3. first \in Nat /\ NextId(d) \in Nat /\ Numbers \subseteq Nat
  <2>1. NextId(d) \in Nat
    BY <1>1 DEF IInv, DbInv, DbTypes, NextId
  <2>2. Numbers \subseteq Nat
    BY LoadedType DEF Numbers
  <2> QED BY <2>1, <2>2
<1>4. ASSUME NEW p \in NewOrders(d), db[NewOrder(d, p)] = NoRow
      PROVE  p = NextId(d) /\ \E u \in Threads : u # t /\ Held(u, NewOrder(d, p))
  <2>1. p \in Numbers
    BY DEF NewOrders
  <2>2. PICK u \in Threads : NewOrder(d, p) \in DOMAIN writes[u]
    BY <1>4 DEF NewOrders, Exists
  <2>3. Held(u, NewOrder(d, p)) /\ p = NextId(d)
    BY <1>1, <1>4, <2>1, <2>2, NewOrderWritten DEF IInv
  <2>4. u # t
    BY <1>1, <2>2, RowKinds DEF Untouched
  <2> QED BY <2>3, <2>4
<1>5. first < NextId(d) => first \in Numbers
  <2>1. Cardinality(Active) \in Nat /\ NextId(d) + Cardinality(Active) <= Loaded + 1 + events
    BY <1>1, FS_CardinalityType DEF IInv, EventInv
  <2>2. events \in 0..MaxEvents
    BY DEF IInv, EventInv
  <2> QED BY <1>2, <1>3, <2>1, <2>2, LoadedType DEF Numbers
<1>6. first < NextId(d)
  <2> SUFFICES ASSUME first = NextId(d) PROVE FALSE
    BY <1>2, <1>3
  <2>1. \A p \in NewOrders(d) : db[NewOrder(d, p)] = NoRow
    BY <1>2, <1>3 DEF NewOrders
  <2>2. NewOrders(d) = {NextId(d)}
    BY <1>4, <2>1
  <2>3. o = NextId(d)
    BY <2>2 DEF Oldest, Min
  <2>4. PICK u \in Threads : u # t /\ Held(u, NewOrder(d, o))
    BY <1>4, <2>1, <2>2, <2>3
  <2>5. <<NewOrder(d, o), "X">> \in Wants(t)
    BY WantsAre
  <2> QED BY <2>4, <2>5, GrantedAlone
<1>7. o = first
  <2>1. first \in NewOrders(d)
    BY <1>2, <1>3, <1>5, <1>6 DEF NewOrders, Exists
  <2>2. NewOrders(d) \subseteq Numbers
    BY DEF NewOrders
  <2>3. \A p \in NewOrders(d) : first <= p
    BY <1>2, <1>3, <1>4, <1>6, <2>2
  <2>4. \A p \in NewOrders(d) : (\A q \in NewOrders(d) : p <= q) => p = first
    BY <1>3, <2>1, <2>2, <2>3
  <2> QED BY <2>1, <2>3, <2>4 DEF Oldest, Min
<1> QED BY <1>1, <1>2, <1>3, <1>5, <1>6, <1>7

LEMMA TakeOldestInv ==
  ASSUME IInv, NEW t \in Threads, TakeOldest(t)
  PROVE  IInv'
<1>1. PICK d : d = tx[t].d
  OBVIOUS
<1> DEFINE new == NewOrders(d)
<1>2. pc[t] = "no_o_id" /\ view' = view /\ Delivering(t) /\ ThreadInv(t) /\ Shape
  BY Doing DEF TakeOldest, IInv
<1>3. d \in Districts /\ DOMAIN tx[t] = {"d"} /\ Untouched(t, d) /\ Elsewhere(t, d)
  <2>1. d \in Districts /\ Untouched(t, d)
    BY <1>1, <1>2 DEF Delivering
  <2>2. DOMAIN tx[t] = {"d"}
    BY <1>2 DEF Delivering
  <2> QED BY <1>1, <1>2, <2>1, <2>2, ElsewhereIs
<1>4. CASE new # {}
  <2>1. PICK o : o = Oldest(new)
    OBVIOUS
  <2> DEFINE n == NewOrder(d, o)
  <2>2. /\ Statement(t, "no_o_id", "o_c_id", Row(n, NoRow))
        /\ tx' = [tx EXCEPT ![t] = Over([o |-> o], tx[t])]
    BY <1>1, <1>4, <2>1 DEF TakeOldest
  <2>3. Granted(t)
    BY <2>2 DEF Statement
  <2>4. /\ o \in Numbers /\ o < NextId(d) /\ db[n] # NoRow
        /\ \A p \in Numbers : p < o => db[NewOrder(d, p)] = NoRow
    BY <1>1, <1>2, <1>4, <2>1, <2>3, OldestIs
  <2>5. /\ pc'[t] = "o_c_id" /\ db' = db /\ level' = level /\ view'[t] = view[t]
        /\ locks \subseteq locks' /\ writes'[t] = Over(Row(n, NoRow), writes[t])
    BY <1>2, <2>2 DEF Statement, Shape
  <2>6. Held(t, n)'
    <3>1. <<n, "X">> \in Wants(t)
      BY <1>1, <1>2, <1>4, <2>1, WantsAre
    <3> QED BY <1>2, <2>2, <3>1, StatementStep
  <2>7. /\ DOMAIN writes'[t] = {n} \cup DOMAIN writes[t] /\ writes'[t][n] = NoRow
        /\ n[1] = "new_orders" /\ n[2] = d
    BY ONLY <2>5, RowKinds DEF Over, Row
  <2>8. {r \in DOMAIN writes'[t] : r[2] = d} = {n}
    BY <1>3, <2>7 DEF Untouched
  <2>9. Elsewhere(t, d)'
    <3>1. \A r \in DOMAIN Row(n, NoRow) :
            r[1] \in {"new_orders", "orders", "order_line", "customer"} /\ r[2] = d
      BY <2>7 DEF Row
    <3> HIDE DEF n
    <3> QED BY <1>3, <2>5, <3>1, ElsewhereStep, Zenon
  <2>10. DOMAIN tx'[t] = {"d", "o"} /\ tx'[t].d = d /\ tx'[t].o = o
    <3>1. tx'[t] = Over([o |-> o], tx[t])
      BY <1>2, <2>2 DEF Shape
    <3> QED BY <1>1, <1>3, <3>1 DEF Over
  <2>11. Took(t, d, o, {n})'
    BY <2>4, <2>5, <2>6, <2>7, <2>8 DEF Took, NextId
  <2>12. Delivering(t)'
    <3>1. /\ \A r \in DOMAIN writes'[t] :
               r[1] \in {"new_orders", "orders", "order_line", "customer"} /\ r[2] \in Districts
          /\ \A x \in Districts :
               /\ x > d => Untouched(t, x)'
               /\ x < d => Untouched(t, x)' \/ \E p \in Numbers : Delivered(t, x, p)'
      BY <2>9 DEF Elsewhere
    <3>2. pc'[t] = "o_c_id" /\ DOMAIN tx'[t] = {"d", "o"}
      BY <2>5, <2>10
    <3>3. Took(t, tx[t].d, tx[t].o, {NewOrder(tx[t].d, tx[t].o)})'
      BY <2>10, <2>11
    <3> QED BY <1>3, <2>10, <3>1, <3>2, <3>3 DEF Delivering
  <2>13. ThreadInv(t)'
    BY <1>2, <2>5, <2>12 DEF ThreadInv
  <2>14. /\ DOMAIN tx' = Threads /\ \A u \in Threads : u # t => tx'[u] = tx[u]
         /\ "no_o_id" \notin {"idle", "failed"} /\ "o_c_id" \notin {"idle", "failed"}
    BY <1>2, <2>2 DEF Shape
  <2> QED BY <1>2, <2>2, <2>13, <2>14, StatementInv
<1>5. CASE new = {}
  <2>1. /\ Statement(t, "no_o_id", NextDistrict(t), <<>>)
        /\ tx' = [tx EXCEPT ![t].d = @ + 1]
    BY <1>1, <1>5 DEF TakeOldest
  <2>2. /\ pc'[t] = NextDistrict(t) /\ db' = db /\ level' = level /\ view'[t] = view[t]
        /\ locks \subseteq locks' /\ writes'[t] = Over(<<>>, writes[t])
    BY <1>2, <2>1 DEF Statement, Shape
  <2>3. writes'[t] = Over(<<>>, writes[t]) /\ DOMAIN writes'[t] = DOMAIN writes[t]
    BY <2>2 DEF Over
  <2>4. Elsewhere(t, d)' /\ Untouched(t, d)'
    BY <1>3, <2>2, <2>3, ElsewhereStep DEF Untouched
  <2>5. Elsewhere(t, d + 1)'
    BY <1>3, <2>4, ElsewhereNext
  <2>6. DOMAIN tx'[t] = {"d"} /\ tx'[t].d = d + 1
    BY <1>1, <1>2, <1>3, <2>1 DEF Shape
  <2>7. \/ pc'[t] = "no_o_id" /\ d + 1 \in Districts
        \/ pc'[t] = "commit" /\ d + 1 = DIST_PER_WARE + 1
    BY <1>1, <1>3, <2>2, NextDistrictIs
  <2>8. d + 1 \in Districts => Untouched(t, d + 1)'
    BY <1>3, <2>3, TpccAssumption DEF Elsewhere, Untouched, Districts
  <2>9. Delivering(t)'
    BY <2>5, <2>6, <2>7, <2>8, DeliveringOn
  <2>10. ThreadInv(t)'
    BY <1>2, <2>2, <2>7, <2>9 DEF ThreadInv
  <2>11. /\ DOMAIN tx' = Threads /\ \A u \in Threads : u # t => tx'[u] = tx[u]
         /\ "no_o_id" \notin {"idle", "failed"} /\ NextDistrict(t) \notin {"idle", "failed"}
    BY <1>2, <2>1 DEF Shape, NextDistrict
  <2> QED BY <1>2, <2>1, <2>10, <2>11, StatementInv
<1> QED BY <1>4, <1>5

\* A delivery has its order: it is committed, so that at READ-COMMITTED it is seen.
LEMMA ReadOrderInv ==
  ASSUME IInv, NEW t \in Threads, ReadOrder(t)
  PROVE  IInv'
<1>1. PICK d, o : d = tx[t].d /\ o = tx[t].o
  OBVIOUS
<1> DEFINE r == Order(d, o)
<1>2. pc[t] = "o_c_id" /\ Delivering(t) /\ ThreadInv(t) /\ Shape
  BY Doing DEF ReadOrder, IInv
<1>3. d \in Districts /\ Took(t, d, o, {NewOrder(d, o)}) /\ DOMAIN tx[t] = {"d", "o"} /\ Elsewhere(t, d)
  <2>1. d \in Districts /\ Took(t, d, o, {NewOrder(d, o)})
    BY <1>1, <1>2 DEF Delivering
  <2>2. DOMAIN tx[t] = {"d", "o"}
    BY <1>2 DEF Delivering
  <2> QED BY <1>1, <1>2, <2>1, <2>2, ElsewhereIs
<1>4. o \in Numbers /\ db[r] \in OrderRows /\ r \in DOMAIN db /\ r[1] = "orders"
  <2>1. o \in Numbers /\ o < NextId(d)
    BY <1>3 DEF Took
  <2>2. db[r] \in OrderRows /\ DOMAIN db = Rows
    BY <1>3, <2>1 DEF IInv, DbInv, DbTypes
  <2> QED BY <1>3, <2>1, <2>2, RowsAre, RowKinds
<1>5. CASE r \in Sees(t)
  <2>1. /\ view' = [view EXCEPT ![t] = Sees(t)] /\ pc' = [pc EXCEPT ![t] = "carrier"]
        /\ tx' = [tx EXCEPT ![t] = Over([c |-> db[r].c], tx[t])]
        /\ UNCHANGED <<level, db, writes, locks, events>>
    BY <1>1, <1>5 DEF ReadOrder
  <2>2. OnlyBy(t)
    BY <1>2, <2>1 DEF OnlyBy, Shape, Held
  <2>3. LockInv'
    BY <1>2, <2>1 DEF LockInv, IInv, Shape
  <2>4. EventInv'
    <3>1. Active' = Active
      BY <1>2, <2>1 DEF Active, Shape
    <3> QED BY <2>1, <3>1 DEF EventInv, IInv, NextId
  <2>5. Sees(t) \subseteq Rows
    BY <1>2, <1>5 DEF Sees, Committed, ThreadInv, IInv, DbInv, DbTypes
  <2>6. /\ DOMAIN tx'[t] = {"d", "o", "c"} /\ tx'[t].d = d /\ tx'[t].o = o
        /\ tx'[t].c = db[r].c
    <3>1. tx'[t] = Over([c |-> db[r].c], tx[t])
      BY <1>2, <2>1 DEF Shape
    <3> QED BY <1>1, <1>3, <3>1 DEF Over
  <2>7. Delivering(t)'
    <3>1. Elsewhere(t, d)'
      <4>1. \A x \in Districts, p \in Numbers : Delivered(t, x, p) => Delivered(t, x, p)'
        BY <2>1 DEF Delivered, Took, CarrierSet, Held, NextId
      <4> QED BY <1>3, <2>1, <4>1 DEF Elsewhere, Untouched
    <3>2. Took(t, d, o, {NewOrder(d, o)})'
      BY <1>3, <2>1 DEF Took, Held, NextId
    <3>3. /\ \A x \in DOMAIN writes'[t] :
               x[1] \in {"new_orders", "orders", "order_line", "customer"} /\ x[2] \in Districts
          /\ \A x \in Districts :
               /\ x > d => Untouched(t, x)'
               /\ x < d => Untouched(t, x)' \/ \E p \in Numbers : Delivered(t, x, p)'
      BY <3>1 DEF Elsewhere
    <3>4. pc'[t] = "carrier" /\ DOMAIN tx'[t] = {"d", "o", "c"} /\ tx'[t].c = db'[Order(d, o)].c
      BY <1>2, <2>1, <2>6 DEF Shape
    <3>5. Took(t, tx[t].d, tx[t].o, {NewOrder(tx[t].d, tx[t].o)})'
      BY <2>6, <3>2
    <3> QED BY <1>3, <2>6, <3>3, <3>4, <3>5 DEF Delivering
  <2>8. ThreadInv(t)'
    BY <1>2, <2>1, <2>5, <2>7 DEF ThreadInv, Shape
  <2> QED BY <2>1, <2>2, <2>3, <2>4, <2>8, StepInv
<1>6. CASE r \notin Sees(t)
  <2>1. EndTrx(t, "failed") /\ db' = db
    BY <1>1, <1>6 DEF ReadOrder
  <2>2. level # "RC"
    <3> SUFFICES ASSUME level = "RC" PROVE r \in Committed
      BY <1>6 DEF Sees
    <3> QED BY <1>4, NoRowIs DEF Committed
  <2> QED BY <2>1, <2>2, RollbackInv
<1> QED BY <1>5, <1>6

\* The carrier and the lines: nobody else has changed them since the order was taken.
LEMMA SetCarrierInv ==
  ASSUME IInv, NEW t \in Threads, SetCarrier(t)
  PROVE  IInv'
<1>1. PICK d, o : d = tx[t].d /\ o = tx[t].o
  OBVIOUS
<1> DEFINE r == Order(d, o)
           l == Lines(d, o)
           n == NewOrder(d, o)
<1>2. PICK order, lines, w :
        /\ order = [Latest(t, r) EXCEPT !.carrier = TRUE]
        /\ lines = [Latest(t, l) EXCEPT !.delivered = TRUE]
        /\ w = Over(Row(r, order), Row(l, lines))
  OBVIOUS
<1>3. Statement(t, "carrier", "balance", w) /\ view' = view /\ tx' = tx
  BY <1>1, <1>2 DEF SetCarrier
<1>4. pc[t] = "carrier" /\ Delivering(t) /\ ThreadInv(t) /\ Shape
  BY <1>3, Doing DEF Statement, IInv
<1>5. /\ d \in Districts /\ Took(t, d, o, {n}) /\ DOMAIN tx[t] = {"d", "o", "c"}
      /\ Elsewhere(t, d) /\ tx[t].c = db[r].c
  <2>1. d \in Districts /\ Took(t, d, o, {n}) /\ tx[t].c = db[r].c
    BY <1>1, <1>4 DEF Delivering
  <2>2. DOMAIN tx[t] = {"d", "o", "c"}
    BY <1>4 DEF Delivering
  <2> QED BY <1>1, <1>4, <2>1, <2>2, ElsewhereIs
<1>6. /\ r # l /\ r # n /\ l # n /\ r[2] = d /\ l[2] = d /\ n[2] = d
      /\ r[1] = "orders" /\ l[1] = "order_line" /\ n[1] = "new_orders"
  BY RowKinds
<1>7. /\ order = [db[r] EXCEPT !.carrier = TRUE] /\ lines = [db[l] EXCEPT !.delivered = TRUE]
  <2>1. r \notin DOMAIN writes[t] /\ l \notin DOMAIN writes[t]
    BY <1>5, <1>6 DEF Took
  <2> QED BY <1>2, <2>1 DEF Latest
<1>8. /\ pc'[t] = "balance" /\ db' = db /\ level' = level /\ view'[t] = view[t]
      /\ locks \subseteq locks' /\ writes'[t] = Over(w, writes[t])
  BY <1>3, <1>4 DEF Statement, Shape
<1>9. DOMAIN w = {r, l} /\ w[r] = order /\ w[l] = lines
  BY ONLY <1>2, <1>6 DEF Over, Row
<1>10. /\ DOMAIN writes'[t] = {r, l} \cup DOMAIN writes[t]
       /\ writes'[t][r] = order /\ writes'[t][l] = lines
       /\ n \in DOMAIN writes[t] /\ writes'[t][n] = writes[t][n]
  <2>1. n \in DOMAIN writes[t]
    BY <1>5 DEF Took
  <2> QED BY ONLY <1>6, <1>8, <1>9, <2>1 DEF Over
<1>11. Took(t, d, o, {n, r, l})'
  <2>1. {x \in DOMAIN writes'[t] : x[2] = d} = {n, r, l}
    BY <1>5, <1>6, <1>10 DEF Took
  <2> QED BY <1>5, <1>8, <1>10, <2>1 DEF Took, Held, NextId
<1>12. Elsewhere(t, d)'
  <2>1. \A x \in DOMAIN w :
          x[1] \in {"new_orders", "orders", "order_line", "customer"} /\ x[2] = d
    BY <1>6, <1>9
  <2> QED BY <1>5, <1>8, <2>1, ElsewhereStep
<1>13. Delivering(t)'
  <2>1. /\ \A x \in DOMAIN writes'[t] :
             x[1] \in {"new_orders", "orders", "order_line", "customer"} /\ x[2] \in Districts
        /\ \A x \in Districts :
             /\ x > d => Untouched(t, x)'
             /\ x < d => Untouched(t, x)' \/ \E p \in Numbers : Delivered(t, x, p)'
    BY <1>12 DEF Elsewhere
  <2>2. CarrierSet(t, d, o)'
    BY <1>7, <1>8, <1>10 DEF CarrierSet
  <2>3. pc'[t] = "balance" /\ DOMAIN tx'[t] = {"d", "o", "c"} /\ tx'[t].c = db'[Order(d, o)].c
        /\ tx'[t].d = d /\ tx'[t].o = o
    BY <1>1, <1>3, <1>5, <1>8
  <2>4. /\ Took(t, tx[t].d, tx[t].o, {NewOrder(tx[t].d, tx[t].o), Order(tx[t].d, tx[t].o),
                                      Lines(tx[t].d, tx[t].o)})'
        /\ CarrierSet(t, tx[t].d, tx[t].o)'
    BY <1>11, <2>2, <2>3
  <2> QED BY <1>5, <2>1, <2>3, <2>4 DEF Delivering
<1>14. ThreadInv(t)'
  BY <1>4, <1>8, <1>13 DEF ThreadInv
<1>15. /\ DOMAIN tx' = Threads /\ \A u \in Threads : u # t => tx'[u] = tx[u]
       /\ "carrier" \notin {"idle", "failed"} /\ "balance" \notin {"idle", "failed"}
  BY <1>3, <1>4 DEF Shape
<1> QED BY <1>3, <1>14, <1>15, StatementInv

\* The amount goes to the customer of the order, whom the transaction has not met before.
LEMMA AddBalanceInv ==
  ASSUME IInv, NEW t \in Threads, AddBalance(t)
  PROVE  IInv'
<1>1. PICK d, o, c : d = tx[t].d /\ o = tx[t].o /\ c = tx[t].c
  OBVIOUS
<1> DEFINE r == Customer(d, c)
           l == Lines(d, o)
           rows == {NewOrder(d, o), Order(d, o), l}
<1>2. PICK sum, val :
        sum = Latest(t, l).amount /\ val = [Latest(t, r) EXCEPT !.balance = @ + sum]
  OBVIOUS
<1>3. /\ Statement(t, "balance", NextDistrict(t), Row(r, val)) /\ view' = view
      /\ tx' = [tx EXCEPT ![t] = [d |-> @.d + 1]]
  BY <1>1, <1>2 DEF AddBalance
<1>4. pc[t] = "balance" /\ Delivering(t) /\ ThreadInv(t) /\ Shape
  BY <1>3, Doing DEF Statement, IInv
<1>5. /\ d \in Districts /\ Took(t, d, o, rows) /\ CarrierSet(t, d, o)
      /\ Elsewhere(t, d) /\ c = db[Order(d, o)].c
  <2>1. d \in Districts /\ Took(t, d, o, rows) /\ CarrierSet(t, d, o) /\ c = db[Order(d, o)].c
    BY <1>1, <1>4 DEF Delivering
  <2> QED BY <1>1, <1>4, <2>1, ElsewhereIs
<1>6. /\ r # NewOrder(d, o) /\ r # Order(d, o) /\ r # l /\ r[2] = d /\ r[1] = "customer"
      /\ o \in Numbers /\ rows \subseteq DOMAIN writes[t] /\ r \notin DOMAIN writes[t]
  BY <1>5, RowKinds DEF Took
<1>7. val = [db[r] EXCEPT !.balance = @ + db[l].amount]
  <2>1. sum = db[l].amount
    <3>1. Latest(t, l) = [db[l] EXCEPT !.delivered = TRUE] /\ db[l] \in LineRows
      BY <1>5, <1>6 DEF Latest, CarrierSet, Took, IInv, DbInv, DbTypes
    <3> QED BY <1>2, <3>1 DEF LineRows
  <2> QED BY <1>2, <1>6, <2>1 DEF Latest
<1>8. /\ pc'[t] = NextDistrict(t) /\ db' = db /\ level' = level /\ view'[t] = view[t]
      /\ locks \subseteq locks' /\ writes'[t] = Over(Row(r, val), writes[t])
  BY <1>3, <1>4 DEF Statement, Shape
<1>9. Held(t, r)'
  <2>1. <<r, "X">> \in Wants(t)
    BY <1>1, <1>4, WantsAre
  <2> QED BY <1>3, <1>4, <2>1, StatementStep
<1>10. /\ DOMAIN writes'[t] = {r} \cup DOMAIN writes[t] /\ writes'[t][r] = val
       /\ \A x \in rows : writes'[t][x] = writes[t][x]
  BY ONLY <1>6, <1>8 DEF Over, Row
<1>11. Took(t, d, o, rows \cup {r})'
  <2>1. {x \in DOMAIN writes'[t] : x[2] = d} = rows \cup {r}
    BY <1>5, <1>6, <1>10 DEF Took
  <2> QED BY <1>5, <1>8, <1>10, <2>1 DEF Took, Held, NextId
<1>12. Delivered(t, d, o)'
  <2>1. CarrierSet(t, d, o)'
    BY <1>5, <1>8, <1>10 DEF CarrierSet
  <2> QED BY <1>5, <1>7, <1>8, <1>9, <1>10, <1>11, <2>1 DEF Delivered
<1>13. Elsewhere(t, d)'
  <2>1. \A x \in DOMAIN Row(r, val) :
          x[1] \in {"new_orders", "orders", "order_line", "customer"} /\ x[2] = d
    BY <1>6 DEF Row
  <2> QED BY <1>5, <1>8, <2>1, ElsewhereStep
<1>14. Elsewhere(t, d + 1)'
  BY <1>5, <1>6, <1>12, <1>13, ElsewhereNext
<1>15. DOMAIN tx'[t] = {"d"} /\ tx'[t].d = d + 1
  BY <1>1, <1>3, <1>4 DEF Shape
<1>16. \/ pc'[t] = "no_o_id" /\ d + 1 \in Districts
       \/ pc'[t] = "commit" /\ d + 1 = DIST_PER_WARE + 1
  BY <1>1, <1>5, <1>8, NextDistrictIs
<1>17. d + 1 \in Districts => Untouched(t, d + 1)'
  BY <1>5, <1>13, TpccAssumption DEF Elsewhere, Districts
<1>18. Delivering(t)'
  BY <1>14, <1>15, <1>16, <1>17, DeliveringOn
<1>19. ThreadInv(t)'
  BY <1>4, <1>8, <1>16, <1>18 DEF ThreadInv
<1>20. /\ DOMAIN tx' = Threads /\ \A u \in Threads : u # t => tx'[u] = tx[u]
       /\ "balance" \notin {"idle", "failed"} /\ NextDistrict(t) \notin {"idle", "failed"}
  BY <1>3, <1>4 DEF Shape, NextDistrict
<1> QED BY <1>3, <1>19, <1>20, StatementInv

LEMMA RestartInv ==
  ASSUME IInv, NEW t \in Threads, Restart(t)
  PROVE  IInv'
BY RollbackInv DEF Restart

-----------------------------------------------------------------------------
(***************************************************************************)
(* COMMIT                                                                  *)
(***************************************************************************)
LEMMA CommitRows ==
  ASSUME IInv, NEW t \in Threads, Commit(t)
  PROVE  /\ pc[t] = "commit" /\ DOMAIN db' = Rows
         /\ \A r \in Rows : db'[r] = IF r \in DOMAIN writes[t] THEN writes[t][r] ELSE db[r]
         /\ OnlyBy(t) /\ LockInv' /\ ThreadInv(t)'
         /\ Active' = Active \ {t} /\ UNCHANGED <<level, events>>
<1>1. pc[t] = "commit" /\ EndTrx(t, "idle") /\ db' = [r \in DOMAIN db |-> Latest(t, r)]
  BY DEF Commit
<1>2. DOMAIN db = Rows
  BY DEF IInv, DbInv, DbTypes
<1>3. /\ OnlyBy(t) /\ LockInv' /\ AtRest(t)' /\ view'[t] = NoRow /\ pc'[t] = "idle"
      /\ Active' = Active \ {t} /\ UNCHANGED <<level, events>>
  BY <1>1, EndAlone DEF IInv
<1>4. ThreadInv(t)'
  BY <1>3 DEF ThreadInv
<1> QED BY <1>1, <1>2, <1>3, <1>4 DEF Latest

\* There are numbers for all orders.
LEMMA NumberedIs ==
  ASSUME IInv, NEW x \in Districts
  PROVE  NextId(x) \in Nat /\ \A p \in 1..(NextId(x) - 1) : p \in Numbers
<1>1. NextId(x) + Cardinality(Active) <= Loaded + 1 + events /\ Cardinality(Active) \in Nat
      /\ events \in 0..MaxEvents /\ NextId(x) \in Nat
  BY FS_CardinalityType DEF IInv, EventInv, DbInv, DbTypes, NextId
<1> QED BY <1>1, LoadedType DEF Numbers

\* What is left to be shown of a COMMIT.
LEMMA CommitInv ==
  ASSUME IInv, NEW t \in Threads, Commit(t), DbInv',
         \A u \in Threads : u # t => Kept(u),
         \A d \in Districts : NextId(d)' \in {NextId(d), NextId(d) + 1}
  PROVE  IInv'
<1>1. /\ pc[t] = "commit" /\ OnlyBy(t) /\ LockInv' /\ ThreadInv(t)'
      /\ Active' = Active \ {t} /\ UNCHANGED <<level, events>>
  BY CommitRows
<1>2. \A u \in Threads : u # t => ThreadInv(u)'
  BY <1>1, OtherThread DEF IInv, DbInv
<1>3. t \in Active /\ IsFiniteSet(Active)
  BY <1>1 DEF Active, IInv, EventInv
<1>4. /\ IsFiniteSet(Active') /\ Cardinality(Active') = Cardinality(Active) - 1
      /\ Cardinality(Active) \in Nat
  BY <1>1, <1>3, FS_RemoveElement, FS_CardinalityType
<1>5. EventInv'
  <2>1. \A d \in Districts : NextId(d) \in Nat
    BY DEF IInv, DbInv, DbTypes, NextId
  <2>2. ASSUME NEW d \in Districts
        PROVE  NextId(d)' + Cardinality(Active') <= Loaded + 1 + events'
    <3>1. NextId(d) + Cardinality(Active) <= Loaded + 1 + events /\ events \in Nat
      BY DEF IInv, EventInv
    <3>2. NextId(d)' = NextId(d) \/ NextId(d)' = NextId(d) + 1
      OBVIOUS
    <3> QED BY <1>1, <1>4, <2>1, <3>1, <3>2, LoadedType
  <2> QED BY <1>1, <1>4, <2>2 DEF IInv, EventInv
<1> QED BY <1>1, <1>2, <1>5 DEF IInv, OnlyBy

\* A new order: the rows that were not there, and the number of the next one.
LEMMA CommitNewOrder ==
  ASSUME IInv, NEW t \in Threads, Commit(t), NewOrdering(t)
  PROVE  IInv'
<1>1. pc[t] = "commit" /\ DOMAIN db' = Rows
      /\ \A r \in Rows : db'[r] = IF r \in DOMAIN writes[t] THEN writes[t][r] ELSE db[r]
  BY CommitRows
<1>2. PICK d, o, left, cnt, c : Ordered(t, d, o, left, cnt, c)
  BY <1>1, OrderedIs
<1> DEFINE s == District(d)
           r == Order(d, o)
           n == NewOrder(d, o)
           l == Lines(d, o)
<1>3. /\ d \in Districts /\ o \in Numbers /\ cnt \in Nat \ {0} /\ c \in Customers /\ left = 0
      /\ o = NextId(d) /\ Held(t, s) /\ Held(t, n)
      /\ DOMAIN writes[t] = {s, r, n, l}
      /\ writes[t][s] = [db[s] EXCEPT !.next = @ + 1]
      /\ writes[t][r] = [c |-> c, cnt |-> cnt, carrier |-> FALSE] /\ writes[t][n] = TRUE
      /\ writes[t][l] = [n |-> cnt, amount |-> cnt, delivered |-> FALSE]
  <2>1. left = 0 /\ left # cnt /\ pc[t] # "new_orders"
    BY <1>1, <1>2 DEF Ordered
  <2>2. DOMAIN writes[t] = {s, r, n, l}
    BY <1>2, <2>1 DEF Ordered
  <2>3. cnt - left = cnt
    BY <1>2, <2>1 DEF Ordered
  <2> QED BY <1>2, <2>1, <2>2, <2>3 DEF Ordered
<1>4. /\ db'[s] = [db[s] EXCEPT !.next = @ + 1]
      /\ db'[r] = [c |-> c, cnt |-> cnt, carrier |-> FALSE] /\ db'[n] = TRUE
      /\ db'[l] = [n |-> cnt, amount |-> cnt, delivered |-> FALSE]
      /\ \A x \in Rows : x \notin {s, r, n, l} => db'[x] = db[x]
  BY <1>1, <1>3, RowsAre
<1>5. /\ db'[Warehouse] = db[Warehouse]
      /\ \A x \in Districts :
           /\ x # d => db'[District(x)] = db[District(x)]
           /\ \A k \in Customers : db'[Customer(x, k)] = db[Customer(x, k)]
           /\ \A e \in Districts, k \in Customers : db'[History(x, e, k)] = db[History(x, e, k)]
           /\ \A p \in Numbers : x # d \/ p # o =>
                /\ db'[Order(x, p)] = db[Order(x, p)] /\ db'[NewOrder(x, p)] = db[NewOrder(x, p)]
                /\ db'[Lines(x, p)] = db[Lines(x, p)]
  BY <1>4, RowsAre, RowKinds
<1>6. /\ db[s] \in [next : Nat, ytd : Nat] /\ NextId(d) \in Nat
      /\ NextId(d)' = NextId(d) + 1 /\ db'[s].ytd = db[s].ytd
      /\ db'[s] \in [next : Nat, ytd : Nat] /\ db'[n] # NoRow /\ db'[n] \in {TRUE, NoRow}
  <2>1. db[s] \in [next : Nat, ytd : Nat]
    BY <1>3 DEF IInv, DbInv, DbTypes
  <2>2. db'[n] # NoRow /\ db'[n] \in {TRUE, NoRow}
    <3>1. db'[n] = TRUE /\ NoRow # TRUE
      BY <1>4, NoRowIs, Zenon
    <3> HIDE DEF n
    <3> QED BY ONLY <3>1, Zenon
  <2>3. db'[s] = [db[s] EXCEPT !.next = @ + 1]
    BY <1>4
  <2>4. /\ db'[s].next = db[s].next + 1 /\ db'[s].ytd = db[s].ytd
        /\ db'[s] \in [next : Nat, ytd : Nat] /\ db[s].next \in Nat
    BY ONLY <2>1, <2>3
  <2> QED BY <2>1, <2>2, <2>4 DEF NextId
<1>7. \A x \in Districts : x # d => NextId(x)' = NextId(x)
  BY <1>5 DEF NextId
<1>8. Numbers \subseteq Nat
  BY LoadedType DEF Numbers
<1>9. DbTypes'
  <2>1. ASSUME NEW x \in Districts
        PROVE  /\ db'[District(x)] \in [next : Nat, ytd : Nat] /\ NextId(x)' > Loaded
               /\ \A k \in Customers : db'[Customer(x, k)] \in [balance : Int, ytd : Nat]
               /\ \A e \in Districts, k \in Customers : db'[History(x, e, k)] \in Nat
    <3>1. NextId(x) \in Nat /\ NextId(x) > Loaded
      BY DEF IInv, DbInv, DbTypes, NextId
    <3>2. NextId(x)' > Loaded
      BY <1>6, <1>7, <3>1, LoadedType
    <3> QED BY <1>5, <1>6, <3>2 DEF IInv, DbInv, DbTypes
  <2>2. ASSUME NEW x \in Districts, NEW p \in Numbers
        PROVE  /\ p < NextId(x)' => db'[Order(x, p)] \in OrderRows /\ db'[Lines(x, p)] \in LineRows
               /\ p >= NextId(x)' => db'[Order(x, p)] = NoRow /\ db'[Lines(x, p)] = NoRow
               /\ db'[NewOrder(x, p)] \in {TRUE, NoRow}
    <3>1. CASE x # d
      BY <1>5, <1>7, <3>1 DEF IInv, DbInv, DbTypes
    <3>2. CASE x = d /\ p # o
      <4>1. /\ p < NextId(x)' => p < NextId(x)
            /\ p >= NextId(x)' => p >= NextId(x)
        BY <1>3, <1>6, <1>8, <3>2
      <4>2. /\ db'[Order(x, p)] = db[Order(x, p)] /\ db'[Lines(x, p)] = db[Lines(x, p)]
            /\ db'[NewOrder(x, p)] = db[NewOrder(x, p)]
        BY <1>5, <3>2
      <4>3. /\ p < NextId(x) => db[Order(x, p)] \in OrderRows /\ db[Lines(x, p)] \in LineRows
            /\ p >= NextId(x) => db[Order(x, p)] = NoRow /\ db[Lines(x, p)] = NoRow
            /\ db[NewOrder(x, p)] \in {TRUE, NoRow}
        BY <2>2 DEF IInv, DbInv, DbTypes
      <4> QED BY ONLY <4>1, <4>2, <4>3
    <3>3. CASE x = d /\ p = o
      <4>1. ~(p >= NextId(x)')
        BY <1>3, <1>6, <3>3
      <4>2. db'[r] \in OrderRows /\ db'[l] \in LineRows
        BY <1>3, <1>4 DEF OrderRows, LineRows
      <4> QED BY <1>6, <3>3, <4>1, <4>2
    <3> QED BY <3>1, <3>2, <3>3
  <2>3. ASSUME NEW x \in Districts
        PROVE  \E first \in 1..NextId(x)' :
                 \A p \in Numbers : db'[NewOrder(x, p)] # NoRow <=> first <= p /\ p < NextId(x)'
    <3>1. PICK first \in 1..NextId(x) :
            \A p \in Numbers : db[NewOrder(x, p)] # NoRow <=> first <= p /\ p < NextId(x)
      BY DEF IInv, DbInv, DbTypes
    <3>2. CASE x # d
      BY <1>5, <1>7, <3>1, <3>2
    <3>3. CASE x = d
      <4>1. first \in 1..NextId(x)' /\ first \in Nat
        BY <1>6, <3>3
      <4>2. ASSUME NEW p \in Numbers
            PROVE  db'[NewOrder(x, p)] # NoRow <=> first <= p /\ p < NextId(x)'
        <5>1. CASE p = o
          <6>1. first <= p /\ p < NextId(x)'
            BY <1>3, <1>6, <3>3, <4>1, <5>1
          <6> QED BY <1>6, <3>3, <5>1, <6>1
        <5>2. CASE p # o
          BY <1>3, <1>5, <1>6, <1>8, <3>1, <3>3, <4>1, <5>2
        <5> QED BY <5>1, <5>2
      <4> QED BY <4>1, <4>2
    <3> QED BY <3>2, <3>3
  <2>4. DOMAIN db' = Rows /\ db'[Warehouse] \in Nat
    BY <1>1, <1>5 DEF IInv, DbInv, DbTypes
  <2> QED BY <2>1, <2>2, <2>3, <2>4 DEF DbTypes
<1>10. MoneyAgrees'
  <2>1. [x \in Districts |-> db'[District(x)].ytd] = [x \in Districts |-> db[District(x)].ytd]
    BY <1>5, <1>6
  <2>2. \A x \in Districts :
          [p \in Districts \X Customers |-> db'[History(x, p[1], p[2])]]
            = [p \in Districts \X Customers |-> db[History(x, p[1], p[2])]]
    BY <1>5
  <2> QED BY <1>5, <1>6, <2>1, <2>2 DEF IInv, DbInv, MoneyAgrees
<1>11. DeliveryAgrees'
  <2> SUFFICES ASSUME NEW x \in Districts, NEW p \in 1..(db'[District(x)].next - 1)
               PROVE  /\ db'[Lines(x, p)] # NoRow /\ db'[Lines(x, p)].n = db'[Order(x, p)].cnt
                      /\ db'[Order(x, p)].carrier <=> db'[NewOrder(x, p)] = NoRow
                      /\ db'[Lines(x, p)].delivered <=> db'[Order(x, p)].carrier
    BY DEF DeliveryAgrees
  <2>1. CASE x = d /\ p = o
    <3>1. db'[l] \in LineRows
      BY <1>3, <1>4 DEF LineRows
    <3>2. db'[l] # NoRow /\ db'[n] # NoRow
      BY <1>4, <3>1, NoRowIs
    <3> QED BY <1>4, <2>1, <3>2
  <2>2. CASE x # d \/ p # o
    <3>1. p \in 1..(db[District(x)].next - 1)
      BY <1>3, <1>5, <1>6, <2>2 DEF NextId
    <3>2. p \in Numbers
      BY <3>1, NumberedIs DEF NextId
    <3> QED BY <1>5, <2>2, <3>1, <3>2 DEF IInv, DbInv, DeliveryAgrees
  <2> QED BY <2>1, <2>2
<1>12. BalancesAgree'
  <2> SUFFICES ASSUME NEW e \in Districts, NEW k \in Customers
               PROVE  LET mine == {p \in 1..(db'[District(e)].next - 1) :
                                     db'[Order(e, p)].c = k /\ db'[Lines(e, p)].delivered}
                          due  == Total([p \in mine |-> db'[Lines(e, p)].amount])
                          customer == db'[Customer(e, k)]
                      IN  /\ customer.balance + customer.ytd = due
                          /\ customer.ytd = Total([x \in Districts |-> db'[History(x, e, k)]])
    BY DEF BalancesAgree
  <2> DEFINE mine == {p \in 1..(db[District(e)].next - 1) :
                        db[Order(e, p)].c = k /\ db[Lines(e, p)].delivered}
             mine2 == {p \in 1..(db'[District(e)].next - 1) :
                         db'[Order(e, p)].c = k /\ db'[Lines(e, p)].delivered}
  <2>1. ASSUME NEW p \in 1..(db[District(e)].next - 1)
        PROVE  /\ db'[Order(e, p)] = db[Order(e, p)] /\ db'[Lines(e, p)] = db[Lines(e, p)]
    <3>1. p \in Numbers /\ (e # d \/ p # o)
      <4>1. p \in Numbers
        BY NumberedIs DEF NextId, IInv
      <4> QED BY <1>3, <1>6, <4>1 DEF NextId
    <3> QED BY <1>5, <3>1
  <2>2. mine2 = mine
    <3>1. CASE e # d
      <4>1. db'[District(e)].next = db[District(e)].next
        BY <1>5, <3>1
      <4> QED BY <2>1, <4>1
    <3>2. CASE e = d
      <4>1. db'[District(e)].next = o + 1 /\ db[District(e)].next = o /\ o \in Nat
        BY <1>3, <1>6, <3>2 DEF NextId
      <4>2. ~ db'[Lines(e, o)].delivered
        BY <1>4, <3>2
      <4>3. 1..(o + 1 - 1) = 1..(o - 1) \cup {q \in {o} : o >= 1}
        BY <4>1
      <4> QED BY <2>1, <4>1, <4>2, <4>3
    <3> QED BY <3>1, <3>2
  <2>3. [p \in mine2 |-> db'[Lines(e, p)].amount] = [p \in mine |-> db[Lines(e, p)].amount]
    BY <2>1, <2>2
  <2>4. [x \in Districts |-> db'[History(x, e, k)]] = [x \in Districts |-> db[History(x, e, k)]]
    BY <1>5
  <2>5. db'[Customer(e, k)] = db[Customer(e, k)]
    BY <1>5
  <2> HIDE DEF mine, mine2
  <2>6. /\ db[Customer(e, k)].balance + db[Customer(e, k)].ytd
             = Total([p \in mine |-> db[Lines(e, p)].amount])
        /\ db[Customer(e, k)].ytd = Total([x \in Districts |-> db[History(x, e, k)]])
    BY DEF IInv, DbInv, BalancesAgree, mine
  <2> QED BY <2>3, <2>4, <2>5, <2>6 DEF mine2
<1>13. ASSUME NEW u \in Threads, u # t PROVE Kept(u)
  <2>1. ~Held(u, s) /\ ~Held(u, n)
    BY <1>3, <1>13, HeldOnce DEF IInv
  <2>2. \A x \in Districts, p \in Numbers : p < NextId(x) => p < NextId(x)' /\ (x # d \/ p # o)
    BY <1>3, <1>6, <1>7, <1>8
  <2> QED BY <1>5, <2>1, <2>2 DEF Kept
<1>14. \A x \in Districts : NextId(x)' \in {NextId(x), NextId(x) + 1}
  BY <1>6, <1>7
<1> QED BY <1>9, <1>10, <1>11, <1>12, <1>13, <1>14, CommitInv DEF DbInv

LEMMA OneMore ==
  ASSUME NEW f, NEW g, Summands(f), NEW n \in Nat, NEW z \in DOMAIN f, DOMAIN g = DOMAIN f,
         g[z] = f[z] + n, \A x \in DOMAIN f : x # z => g[x] = f[x]
  PROVE  Total(g) = Total(f) + n
BY TotalMore DEF More

LEMMA DistrictsFinite ==
  /\ IsFiniteSet(Districts) /\ Cardinality(Districts) = DIST_PER_WARE
  /\ IsFiniteSet(Districts \X Customers)
<1>1. IsFiniteSet(Districts) /\ Cardinality(Districts) = DIST_PER_WARE
  BY Run, TpccAssumption DEF Districts
<1> QED BY <1>1, LoadedType, FS_Product

\* A payment: a unit more for the warehouse, the district, the customer and history.
LEMMA CommitPayment ==
  ASSUME IInv, NEW t \in Threads, Commit(t), Paying(t)
  PROVE  IInv'
<1>1. pc[t] = "commit" /\ DOMAIN db' = Rows
      /\ \A r \in Rows : db'[r] = IF r \in DOMAIN writes[t] THEN writes[t][r] ELSE db[r]
  BY CommitRows
<1>2. PICK d, e, c : Paid(t, d, e, c)
  BY PaidIs
<1> DEFINE s == District(d)
           r == Customer(e, c)
           h == History(d, e, c)
<1>3. /\ d \in Districts /\ e \in Districts /\ c \in Customers
      /\ Held(t, Warehouse) /\ Held(t, s) /\ Held(t, r) /\ DOMAIN writes[t] = {Warehouse, s, r, h}
      /\ writes[t][Warehouse] = db[Warehouse] + 1 /\ writes[t][h] = db[h] + 1
      /\ writes[t][s] = [db[s] EXCEPT !.ytd = @ + 1]
      /\ writes[t][r] = [balance |-> db[r].balance - 1, ytd |-> db[r].ytd + 1]
  BY <1>1, <1>2 DEF Paid
<1>4. /\ db'[Warehouse] = db[Warehouse] + 1 /\ db'[s] = [db[s] EXCEPT !.ytd = @ + 1]
      /\ db'[h] = db[h] + 1
      /\ db'[r] = [balance |-> db[r].balance - 1, ytd |-> db[r].ytd + 1]
      /\ \A x \in Rows : x \notin {Warehouse, s, r, h} => db'[x] = db[x]
  BY <1>1, <1>3, RowsAre
<1>5. \A x \in Districts :
        /\ x # d => db'[District(x)] = db[District(x)]
        /\ \A k \in Customers : x # e \/ k # c => db'[Customer(x, k)] = db[Customer(x, k)]
        /\ \A y \in Districts, k \in Customers :
             x # d \/ y # e \/ k # c => db'[History(x, y, k)] = db[History(x, y, k)]
        /\ \A p \in Numbers :
             /\ db'[Order(x, p)] = db[Order(x, p)] /\ db'[NewOrder(x, p)] = db[NewOrder(x, p)]
             /\ db'[Lines(x, p)] = db[Lines(x, p)]
  BY <1>4, RowsAre, RowKinds
<1>6. /\ db[s] \in [next : Nat, ytd : Nat] /\ db[r] \in [balance : Int, ytd : Nat]
      /\ db[h] \in Nat /\ db[Warehouse] \in Nat
  BY <1>3 DEF IInv, DbInv, DbTypes
<1>7. /\ db'[s] \in [next : Nat, ytd : Nat] /\ db'[s].next = db[s].next
      /\ db'[s].ytd = db[s].ytd + 1
      /\ db'[r] \in [balance : Int, ytd : Nat] /\ db'[r].ytd = db[r].ytd + 1
      /\ db'[r].balance + db'[r].ytd = db[r].balance + db[r].ytd
  <2>1. db'[s] = [db[s] EXCEPT !.ytd = @ + 1]
        /\ db'[r] = [balance |-> db[r].balance - 1, ytd |-> db[r].ytd + 1]
    BY <1>4
  <2> HIDE DEF s, r
  <2>2. /\ db'[s] \in [next : Nat, ytd : Nat] /\ db'[s].next = db[s].next
        /\ db'[s].ytd = db[s].ytd + 1
    BY ONLY <1>6, <2>1
  <2>3. db[r].balance \in Int /\ db[r].ytd \in Nat
    BY ONLY <1>6
  <2>4. db'[r].ytd = db[r].ytd + 1 /\ db'[r].balance = db[r].balance - 1
        /\ db'[r] \in [balance : Int, ytd : Nat]
    BY ONLY <2>1, <2>3
  <2> QED BY ONLY <2>2, <2>3, <2>4
<1>8. \A x \in Districts : NextId(x)' = NextId(x) /\ db'[District(x)].next = db[District(x)].next
  BY <1>5, <1>7 DEF NextId
<1>9. DbTypes'
  <2>1. ASSUME NEW x \in Districts
        PROVE  /\ db'[District(x)] \in [next : Nat, ytd : Nat] /\ NextId(x)' > Loaded
               /\ \A k \in Customers : db'[Customer(x, k)] \in [balance : Int, ytd : Nat]
               /\ \A y \in Districts, k \in Customers : db'[History(x, y, k)] \in Nat
    <3>1. NextId(x)' > Loaded
      BY <1>8 DEF IInv, DbInv, DbTypes
    <3>2. db'[District(x)] \in [next : Nat, ytd : Nat]
      BY <1>5, <1>7 DEF IInv, DbInv, DbTypes
    <3>3. \A k \in Customers : db'[Customer(x, k)] \in [balance : Int, ytd : Nat]
      BY <1>5, <1>7 DEF IInv, DbInv, DbTypes
    <3>4. \A y \in Districts, k \in Customers : db'[History(x, y, k)] \in Nat
      <4>1. \A y \in Districts, k \in Customers : db[History(x, y, k)] \in Nat
        BY DEF IInv, DbInv, DbTypes
      <4>2. db'[h] \in Nat
        BY <1>4, <1>6
      <4> QED BY <1>5, <4>1, <4>2
    <3> QED BY <3>1, <3>2, <3>3, <3>4
  <2>2. ASSUME NEW x \in Districts, NEW p \in Numbers
        PROVE  /\ p < NextId(x)' => db'[Order(x, p)] \in OrderRows /\ db'[Lines(x, p)] \in LineRows
               /\ p >= NextId(x)' => db'[Order(x, p)] = NoRow /\ db'[Lines(x, p)] = NoRow
               /\ db'[NewOrder(x, p)] \in {TRUE, NoRow}
    BY <1>5, <1>8 DEF IInv, DbInv, DbTypes
  <2>3. ASSUME NEW x \in Districts
        PROVE  \E first \in 1..NextId(x)' :
                 \A p \in Numbers : db'[NewOrder(x, p)] # NoRow <=> first <= p /\ p < NextId(x)'
    <3>1. PICK first \in 1..NextId(x) :
            \A p \in Numbers : db[NewOrder(x, p)] # NoRow <=> first <= p /\ p < NextId(x)
      BY DEF IInv, DbInv, DbTypes
    <3> QED BY <1>5, <1>8, <3>1
  <2>4. DOMAIN db' = Rows /\ db'[Warehouse] \in Nat
    BY <1>1, <1>4, <1>6
  <2> QED BY <2>1, <2>2, <2>3, <2>4 DEF DbTypes
<1>10. MoneyAgrees'
  <2>1. PICK f : f = [x \in Districts |-> db[District(x)].ytd]
    OBVIOUS
  <2>2. PICK g : g = [x \in Districts |-> db'[District(x)].ytd]
    OBVIOUS
  <2>3. Total(g) = Total(f) + 1
    <3>1. DOMAIN f = Districts /\ DOMAIN g = Districts /\ \A x \in Districts : f[x] \in Nat
      BY <2>1, <2>2 DEF IInv, DbInv, DbTypes
    <3>2. g[d] = f[d] + 1 /\ \A x \in Districts : x # d => g[x] = f[x]
      BY <1>3, <1>5, <1>7, <2>1, <2>2
    <3>3. Summands(f)
      BY <3>1, DistrictsFinite DEF Summands
    <3> QED BY <1>3, <3>1, <3>2, <3>3, OneMore
  <2>4. ASSUME NEW x \in Districts
        PROVE  db'[District(x)].ytd
                 = Total([p \in Districts \X Customers |-> db'[History(x, p[1], p[2])]])
    <3>1. PICK a : a = [p \in Districts \X Customers |-> db[History(x, p[1], p[2])]]
      OBVIOUS
    <3>2. PICK b : b = [p \in Districts \X Customers |-> db'[History(x, p[1], p[2])]]
      OBVIOUS
    <3>3. db[District(x)].ytd = Total(a)
      BY <3>1 DEF IInv, DbInv, MoneyAgrees
    <3>4. CASE x # d
      <4>1. b = a
        BY <1>5, <3>1, <3>2, <3>4
      <4> QED BY <1>5, <3>2, <3>3, <3>4, <4>1
    <3>5. CASE x = d
      <4>1. DOMAIN a = Districts \X Customers /\ DOMAIN b = DOMAIN a
        BY <3>1, <3>2
      <4>2. \A p \in Districts \X Customers : a[p] \in Nat
        BY <3>1 DEF IInv, DbInv, DbTypes
      <4>3. <<e, c>> \in DOMAIN a /\ b[<<e, c>>] = a[<<e, c>>] + 1
        <5>1. <<e, c>> \in Districts \X Customers /\ <<e, c>>[1] = e /\ <<e, c>>[2] = c
          BY <1>3
        <5>2. a[<<e, c>>] = db[History(x, e, c)] /\ b[<<e, c>>] = db'[History(x, e, c)]
          BY <3>1, <3>2, <5>1
        <5> QED BY <1>4, <3>5, <4>1, <5>1, <5>2
      <4>4. ASSUME NEW p \in Districts \X Customers, p # <<e, c>> PROVE b[p] = a[p]
        <5>1. p[1] \in Districts /\ p[2] \in Customers /\ (p[1] # e \/ p[2] # c)
          BY <4>4
        <5>2. db'[History(x, p[1], p[2])] = db[History(x, p[1], p[2])]
          BY <1>5, <5>1
        <5> QED BY <3>1, <3>2, <5>2
      <4>5. Summands(a)
        BY <4>1, <4>2, DistrictsFinite DEF Summands
      <4>6. Total(b) = Total(a) + 1
        BY <4>1, <4>3, <4>4, <4>5, OneMore
      <4> QED BY <1>7, <3>2, <3>3, <3>5, <4>6
    <3> QED BY <3>4, <3>5
  <2>5. db[Warehouse] = Total(f)
    BY <2>1 DEF IInv, DbInv, MoneyAgrees
  <2> QED BY <1>4, <2>2, <2>3, <2>4, <2>5 DEF MoneyAgrees
<1>11. DeliveryAgrees'
  <2> SUFFICES ASSUME NEW x \in Districts, NEW p \in 1..(db[District(x)].next - 1)
               PROVE  /\ db'[Lines(x, p)] # NoRow /\ db'[Lines(x, p)].n = db'[Order(x, p)].cnt
                      /\ db'[Order(x, p)].carrier <=> db'[NewOrder(x, p)] = NoRow
                      /\ db'[Lines(x, p)].delivered <=> db'[Order(x, p)].carrier
    BY <1>8 DEF DeliveryAgrees
  <2>1. p \in Numbers
    BY NumberedIs DEF NextId
  <2> QED BY <1>5, <2>1 DEF IInv, DbInv, DeliveryAgrees
<1>12. BalancesAgree'
  <2> SUFFICES ASSUME NEW y \in Districts, NEW k \in Customers
               PROVE  LET mine == {p \in 1..(db'[District(y)].next - 1) :
                                     db'[Order(y, p)].c = k /\ db'[Lines(y, p)].delivered}
                          due  == Total([p \in mine |-> db'[Lines(y, p)].amount])
                          customer == db'[Customer(y, k)]
                      IN  /\ customer.balance + customer.ytd = due
                          /\ customer.ytd = Total([x \in Districts |-> db'[History(x, y, k)]])
    BY DEF BalancesAgree
  <2> DEFINE mine == {p \in 1..(db[District(y)].next - 1) :
                        db[Order(y, p)].c = k /\ db[Lines(y, p)].delivered}
             mine2 == {p \in 1..(db'[District(y)].next - 1) :
                         db'[Order(y, p)].c = k /\ db'[Lines(y, p)].delivered}
  <2>1. \A p \in 1..(db[District(y)].next - 1) :
          db'[Order(y, p)] = db[Order(y, p)] /\ db'[Lines(y, p)] = db[Lines(y, p)]
    BY <1>5, NumberedIs DEF NextId
  <2>2. mine2 = mine
    BY <1>8, <2>1
  <2>3. [p \in mine2 |-> db'[Lines(y, p)].amount] = [p \in mine |-> db[Lines(y, p)].amount]
    BY <2>1, <2>2
  <2>4. PICK a : a = [x \in Districts |-> db[History(x, y, k)]]
    OBVIOUS
  <2>5. PICK b : b = [x \in Districts |-> db'[History(x, y, k)]]
    OBVIOUS
  <2> HIDE DEF mine, mine2
  <2>6. /\ db[Customer(y, k)].balance + db[Customer(y, k)].ytd
             = Total([p \in mine |-> db[Lines(y, p)].amount])
        /\ db[Customer(y, k)].ytd = Total(a)
    BY <2>4 DEF IInv, DbInv, BalancesAgree, mine
  <2>7. /\ db'[Customer(y, k)].balance + db'[Customer(y, k)].ytd
             = db[Customer(y, k)].balance + db[Customer(y, k)].ytd
        /\ db'[Customer(y, k)].ytd = Total(b)
    <3>1. CASE y # e \/ k # c
      <4>1. b = a /\ db'[Customer(y, k)] = db[Customer(y, k)]
        BY <1>5, <2>4, <2>5, <3>1
      <4> QED BY <2>6, <4>1
    <3>2. CASE y = e /\ k = c
      <4>1. DOMAIN a = Districts /\ DOMAIN b = Districts /\ \A x \in Districts : a[x] \in Nat
        BY <2>4, <2>5 DEF IInv, DbInv, DbTypes
      <4>2. b[d] = a[d] + 1 /\ \A x \in Districts : x # d => b[x] = a[x]
        BY <1>3, <1>4, <1>5, <2>4, <2>5, <3>2
      <4>3. Summands(a)
        BY <4>1, DistrictsFinite DEF Summands
      <4>4. Total(b) = Total(a) + 1
        BY <1>3, <4>1, <4>2, <4>3, OneMore
      <4> QED BY <1>7, <2>6, <3>2, <4>4
    <3> QED BY <3>1, <3>2
  <2> QED BY <2>3, <2>5, <2>6, <2>7 DEF mine2
<1>13. ASSUME NEW u \in Threads, u # t PROVE Kept(u)
  <2>1. ~Held(u, Warehouse) /\ ~Held(u, s) /\ ~Held(u, r)
    BY <1>3, <1>13, HeldOnce DEF IInv
  <2> QED BY <1>5, <1>8, <2>1 DEF Kept
<1> QED BY <1>8, <1>9, <1>10, <1>11, <1>12, <1>13, CommitInv DEF DbInv

\* What a COMMIT of a delivery does to district x: nothing, or its order p is delivered.
Leaves(x) ==
  /\ \A k \in Customers : db'[Customer(x, k)] = db[Customer(x, k)]
  /\ \A q \in Numbers : /\ db'[Order(x, q)] = db[Order(x, q)]
                        /\ db'[NewOrder(x, q)] = db[NewOrder(x, q)]
                        /\ db'[Lines(x, q)] = db[Lines(x, q)]

Delivers(t, x, p) ==
  LET c == db[Order(x, p)].c
      r == Customer(x, c)
  IN  /\ p \in Numbers /\ p < NextId(x) /\ db[NewOrder(x, p)] # NoRow
      /\ \A q \in Numbers : q < p => db[NewOrder(x, q)] = NoRow
      /\ Held(t, NewOrder(x, p)) /\ Held(t, r)
      /\ db'[NewOrder(x, p)] = NoRow
      /\ db'[Order(x, p)] = [db[Order(x, p)] EXCEPT !.carrier = TRUE]
      /\ db'[Lines(x, p)] = [db[Lines(x, p)] EXCEPT !.delivered = TRUE]
      /\ db'[r] = [db[r] EXCEPT !.balance = @ + db[Lines(x, p)].amount]
      /\ \A k \in Customers : k # c => db'[Customer(x, k)] = db[Customer(x, k)]
      /\ \A q \in Numbers : q # p => /\ db'[Order(x, q)] = db[Order(x, q)]
                                     /\ db'[NewOrder(x, q)] = db[NewOrder(x, q)]
                                     /\ db'[Lines(x, q)] = db[Lines(x, q)]

LEMMA DeliveryRows ==
  ASSUME IInv, NEW t \in Threads, Commit(t), Delivering(t)
  PROVE  /\ db'[Warehouse] = db[Warehouse]
         /\ \A x \in Districts :
              /\ db'[District(x)] = db[District(x)]
              /\ \A y \in Districts, k \in Customers : db'[History(x, y, k)] = db[History(x, y, k)]
              /\ Leaves(x) \/ \E p \in Numbers : Delivers(t, x, p)
<1>1. pc[t] = "commit" /\ DOMAIN db' = Rows
      /\ \A r \in Rows : db'[r] = IF r \in DOMAIN writes[t] THEN writes[t][r] ELSE db[r]
  BY CommitRows
<1>2. \A r \in DOMAIN writes[t] : r[1] \in {"new_orders", "orders", "order_line", "customer"}
  BY DEF Delivering
<1>3. db'[Warehouse] = db[Warehouse]
  BY <1>1, <1>2, RowsAre, RowKinds
<1>4. \A x \in Districts :
        /\ db'[District(x)] = db[District(x)]
        /\ \A y \in Districts, k \in Customers : db'[History(x, y, k)] = db[History(x, y, k)]
  BY <1>1, <1>2, RowsAre, RowKinds
<1>5. ASSUME NEW x \in Districts PROVE Leaves(x) \/ \E p \in Numbers : Delivers(t, x, p)
  <2>1. x < tx[t].d
    BY <1>1, TpccAssumption DEF Delivering, Districts
  <2>2. CASE Untouched(t, x)
    BY <1>1, <2>2, RowsAre, RowKinds DEF Untouched, Leaves
  <2>3. ASSUME NEW p \in Numbers, Delivered(t, x, p) PROVE Delivers(t, x, p)
    <3>1. PICK c : c = db[Order(x, p)].c
      OBVIOUS
    <3> DEFINE r == Customer(x, c)
               n == NewOrder(x, p)
               o == Order(x, p)
               l == Lines(x, p)
    <3>2. /\ Took(t, x, p, {n, o, l, r}) /\ CarrierSet(t, x, p) /\ Held(t, r)
          /\ writes[t][r] = [db[r] EXCEPT !.balance = @ + db[l].amount]
      BY <2>3, <3>1 DEF Delivered
    <3>3. \A y \in {n, o, l, r} : y \in DOMAIN writes[t]
      BY <3>2 DEF Took
    <3>4. \A y \in DOMAIN writes[t] : y[2] = x => y \in {n, o, l, r}
      BY <3>2 DEF Took
    <3>5. c \in Customers
      BY <3>1, <3>2 DEF Took, IInv, DbInv, DbTypes, OrderRows
    <3>6. /\ db'[n] = writes[t][n] /\ db'[o] = writes[t][o] /\ db'[l] = writes[t][l]
          /\ db'[r] = writes[t][r]
      BY <1>1, <3>3, <3>5, RowsAre
    <3>7. \A k \in Customers : k # c => db'[Customer(x, k)] = db[Customer(x, k)]
      BY <1>1, <3>4, RowsAre, RowKinds
    <3>8. \A q \in Numbers : q # p => /\ db'[Order(x, q)] = db[Order(x, q)]
                                     /\ db'[NewOrder(x, q)] = db[NewOrder(x, q)]
                                     /\ db'[Lines(x, q)] = db[Lines(x, q)]
      BY <1>1, <3>4, RowsAre, RowKinds
    <3> QED BY <3>1, <3>2, <3>6, <3>7, <3>8 DEF Delivers, Took, CarrierSet
  <2>4. Untouched(t, x) \/ \E p \in Numbers : Delivered(t, x, p)
    BY <2>1 DEF Delivering
  <2> QED BY <2>2, <2>3, <2>4
<1> QED BY <1>3, <1>4, <1>5

\* The orders that were delivered to customer k of district e, and what they come to.
Mine(e, k) ==
  {p \in 1..(db[District(e)].next - 1) : db[Order(e, p)].c = k /\ db[Lines(e, p)].delivered}

Due(e, k) == Total([p \in Mine(e, k) |-> db[Lines(e, p)].amount])

\* A delivered order of district e is due to its customer, who has got its amount.
LEMMA DeliveredBalance ==
  ASSUME IInv, NEW t, NEW e \in Districts, NEW p \in Numbers, Delivers(t, e, p),
         db'[District(e)] = db[District(e)], NEW k \in Customers
  PROVE  /\ db'[Customer(e, k)].ytd = db[Customer(e, k)].ytd
         /\ Due(e, k)' = Due(e, k) + (db'[Customer(e, k)].balance - db[Customer(e, k)].balance)
<1>0. PICK mine, mine2, due :
        /\ mine = {q \in 1..(db[District(e)].next - 1) :
                     db[Order(e, q)].c = k /\ db[Lines(e, q)].delivered}
        /\ mine2 = {q \in 1..(db'[District(e)].next - 1) :
                      db'[Order(e, q)].c = k /\ db'[Lines(e, q)].delivered}
        /\ due = Total([q \in mine |-> db[Lines(e, q)].amount])
  OBVIOUS
<1> DEFINE o == Order(e, p)
           l == Lines(e, p)
           r == Customer(e, db[o].c)
           top == db[District(e)].next - 1
<1>1. /\ p < NextId(e) /\ db[NewOrder(e, p)] # NoRow
      /\ db'[o] = [db[o] EXCEPT !.carrier = TRUE]
      /\ db'[l] = [db[l] EXCEPT !.delivered = TRUE]
      /\ db'[r] = [db[r] EXCEPT !.balance = @ + db[l].amount]
      /\ \A j \in Customers : j # db[o].c => db'[Customer(e, j)] = db[Customer(e, j)]
      /\ \A q \in Numbers : q # p =>
           db'[Order(e, q)] = db[Order(e, q)] /\ db'[Lines(e, q)] = db[Lines(e, q)]
  BY DEF Delivers
<1>2. /\ db[o] \in OrderRows /\ db[l] \in LineRows /\ db[Customer(e, k)] \in [balance : Int, ytd : Nat]
      /\ p \in 1..top /\ top \in Nat /\ \A q \in 1..top : q \in Numbers /\ db[Lines(e, q)] \in LineRows
  <2>1. p \in Nat /\ p >= 1 /\ NextId(e) \in Nat
    BY LoadedType, NumberedIs DEF Numbers
  <2>2. \A q \in 1..top : q \in Numbers /\ q < NextId(e)
    BY <2>1, NumberedIs DEF NextId
  <2>3. \A q \in Numbers : q < NextId(e) => db[Order(e, q)] \in OrderRows /\ db[Lines(e, q)] \in LineRows
    BY DEF IInv, DbInv, DbTypes
  <2>4. db[Customer(e, k)] \in [balance : Int, ytd : Nat]
    BY DEF IInv, DbInv, DbTypes
  <2>5. p \in 1..top /\ top \in Nat
    <3>1. top = NextId(e) - 1
      BY DEF NextId
    <3> QED BY <1>1, <2>1, <3>1
  <2> QED BY <1>1, <2>2, <2>3, <2>4, <2>5
<1>3. ~ db[l].delivered
  BY <1>1, <1>2 DEF IInv, DbInv, DeliveryAgrees
<1>4. /\ db'[o].c = db[o].c /\ db'[l].delivered /\ db'[l].amount = db[l].amount
      /\ db[l].amount \in Nat
  <2>1. /\ db'[o] = [db[o] EXCEPT !.carrier = TRUE] /\ db'[l] = [db[l] EXCEPT !.delivered = TRUE]
        /\ db[o] \in OrderRows /\ db[l] \in LineRows
    BY <1>1, <1>2
  <2> HIDE DEF o, l
  <2> QED BY ONLY <2>1 DEF OrderRows, LineRows
<1>5. PICK f : f = [q \in mine |-> db[Lines(e, q)].amount]
  OBVIOUS
<1>6. PICK g : g = [q \in mine2 |-> db'[Lines(e, q)].amount]
  OBVIOUS
<1>7. \A q \in 1..top : q # p => (q \in mine <=> q \in mine2) /\ (q \in mine => g[q] = f[q])
  BY <1>0, <1>1, <1>2, <1>5, <1>6
<1>8. p \notin mine /\ (p \in mine2 <=> db[o].c = k)
  BY <1>0, <1>2, <1>3, <1>4
<1>9. mine \subseteq 1..top /\ mine2 \subseteq 1..top
  BY <1>0
<1>10. due = Total(f) /\ due \in Nat /\ Summands(f)
  <2>1. IsFiniteSet(mine)
    <3>1. IsFiniteSet(1..top)
      BY <1>2, Run
    <3> QED BY <1>9, <3>1, FS_Subset
  <2>2. \A q \in mine : f[q] \in Nat
    BY <1>2, <1>5, <1>9 DEF LineRows
  <2>3. Summands(f)
    BY <1>5, <2>1, <2>2 DEF Summands
  <2> QED BY <1>0, <1>5, <2>3, UnitsAre
<1>11. Due(e, k) = due /\ Due(e, k)' = Total(g)
  BY <1>0, <1>6 DEF Due, Mine
<1>12. CASE db[o].c = k
  <2>1. More(f, g, p, db[l].amount)
    <3>1. mine2 = mine \cup {p}
      BY <1>7, <1>8, <1>9, <1>12
    <3>2. g[p] = db[l].amount
      BY <1>4, <1>6, <3>1
    <3> QED BY <1>5, <1>6, <1>7, <1>8, <1>9, <3>1, <3>2 DEF More
  <2>2. Total(g) = due + db[l].amount
    BY <1>4, <1>10, <2>1, TotalMore
  <2>3. /\ db'[Customer(e, k)].ytd = db[Customer(e, k)].ytd
        /\ db'[Customer(e, k)].balance = db[Customer(e, k)].balance + db[l].amount
        /\ db[Customer(e, k)].balance \in Int
    BY <1>1, <1>2, <1>12
  <2> QED BY <1>4, <1>10, <1>11, <2>2, <2>3
<1>13. CASE db[o].c # k
  <2>1. mine2 = mine
    <3>1. p \notin mine /\ p \notin mine2
      BY <1>8, <1>13
    <3>2. \A q \in 1..top : q \in mine <=> q \in mine2
      BY <1>7, <3>1
    <3> QED BY <1>9, <3>2
  <2>2. g = f
    <3>1. \A q \in mine : q # p /\ db'[Lines(e, q)] = db[Lines(e, q)]
      BY <1>1, <1>2, <1>8, <1>9
    <3> QED BY <1>5, <1>6, <2>1, <3>1
  <2>3. db'[Customer(e, k)] = db[Customer(e, k)] /\ db[Customer(e, k)].balance \in Int
    BY <1>1, <1>2, <1>13
  <2> QED BY <1>10, <1>11, <2>2, <2>3
<1> QED BY <1>12, <1>13

LEMMA CommitDelivery ==
  ASSUME IInv, NEW t \in Threads, Commit(t), Delivering(t)
  PROVE  IInv'
<1>1. /\ db'[Warehouse] = db[Warehouse] /\ DOMAIN db' = Rows
      /\ \A x \in Districts :
           /\ db'[District(x)] = db[District(x)] /\ NextId(x)' = NextId(x)
           /\ \A y \in Districts, k \in Customers : db'[History(x, y, k)] = db[History(x, y, k)]
  BY DeliveryRows, CommitRows DEF NextId
<1>2. \A x \in Districts : Leaves(x) \/ \E p \in Numbers : Delivers(t, x, p)
  BY DeliveryRows
<1>3. Numbers \subseteq Nat
  BY LoadedType DEF Numbers
<1>4. DbTypes'
  <2>1. ASSUME NEW x \in Districts
        PROVE  /\ \A k \in Customers : db'[Customer(x, k)] \in [balance : Int, ytd : Nat]
               /\ \A p \in Numbers :
                    /\ p < NextId(x) => db'[Order(x, p)] \in OrderRows /\ db'[Lines(x, p)] \in LineRows
                    /\ p >= NextId(x) => db'[Order(x, p)] = NoRow /\ db'[Lines(x, p)] = NoRow
                    /\ db'[NewOrder(x, p)] \in {TRUE, NoRow}
               /\ \E first \in 1..NextId(x) :
                    \A p \in Numbers : db'[NewOrder(x, p)] # NoRow <=> first <= p /\ p < NextId(x)
    <3>1. /\ \A k \in Customers : db[Customer(x, k)] \in [balance : Int, ytd : Nat]
          /\ \A p \in Numbers :
               /\ p < NextId(x) => db[Order(x, p)] \in OrderRows /\ db[Lines(x, p)] \in LineRows
               /\ p >= NextId(x) => db[Order(x, p)] = NoRow /\ db[Lines(x, p)] = NoRow
               /\ db[NewOrder(x, p)] \in {TRUE, NoRow}
      BY DEF IInv, DbInv, DbTypes
    <3>2. PICK first \in 1..NextId(x) :
            \A p \in Numbers : db[NewOrder(x, p)] # NoRow <=> first <= p /\ p < NextId(x)
      BY DEF IInv, DbInv, DbTypes
    <3>3. CASE Leaves(x)
      BY <3>1, <3>2, <3>3 DEF Leaves
    <3>4. ASSUME NEW p \in Numbers, Delivers(t, x, p)
          PROVE  /\ db'[NewOrder(x, p)] = NoRow /\ p < NextId(x) /\ p = first
                 /\ db'[Order(x, p)] \in OrderRows /\ db'[Lines(x, p)] \in LineRows
                 /\ \A k \in Customers : db'[Customer(x, k)] \in [balance : Int, ytd : Nat]
                 /\ \A q \in Numbers : q # p => /\ db'[Order(x, q)] = db[Order(x, q)]
                                                /\ db'[NewOrder(x, q)] = db[NewOrder(x, q)]
                                                /\ db'[Lines(x, q)] = db[Lines(x, q)]
      <4> DEFINE c == db[Order(x, p)].c
      <4>1. /\ p < NextId(x) /\ db[NewOrder(x, p)] # NoRow
            /\ \A q \in Numbers : q < p => db[NewOrder(x, q)] = NoRow
            /\ db'[NewOrder(x, p)] = NoRow
            /\ db'[Order(x, p)] = [db[Order(x, p)] EXCEPT !.carrier = TRUE]
            /\ db'[Lines(x, p)] = [db[Lines(x, p)] EXCEPT !.delivered = TRUE]
            /\ db'[Customer(x, c)] = [db[Customer(x, c)] EXCEPT !.balance = @ + db[Lines(x, p)].amount]
            /\ \A k \in Customers : k # c => db'[Customer(x, k)] = db[Customer(x, k)]
            /\ \A q \in Numbers : q # p => /\ db'[Order(x, q)] = db[Order(x, q)]
                                           /\ db'[NewOrder(x, q)] = db[NewOrder(x, q)]
                                           /\ db'[Lines(x, q)] = db[Lines(x, q)]
        BY <3>4 DEF Delivers
      <4>2. p = first
        <5>1. first <= p /\ first \in Numbers
          <6>1. first <= p /\ first \in Nat /\ first >= 1 /\ p \in Nat
            BY <1>3, <3>2, <4>1
          <6> QED BY <6>1, LoadedType DEF Numbers
        <5>2. first < p => first < NextId(x)
          BY <1>3, <4>1, <5>1, NumberedIs
        <5>3. ~(first < p)
          BY <1>3, <3>2, <4>1, <5>1, <5>2
        <5> QED BY <1>3, <5>1, <5>3
      <4>3. db[Order(x, p)] \in OrderRows /\ db[Lines(x, p)] \in LineRows
        BY <3>1, <4>1
      <4>4. db'[Order(x, p)] \in OrderRows
        <5>1. PICK o : o = db[Order(x, p)]
          OBVIOUS
        <5>2. o \in OrderRows /\ db'[Order(x, p)] = [o EXCEPT !.carrier = TRUE]
          BY <4>1, <4>3, <5>1
        <5> QED BY ONLY <5>2 DEF OrderRows
      <4>5. db'[Lines(x, p)] \in LineRows /\ db[Lines(x, p)].amount \in Nat
        <5>1. PICK l : l = db[Lines(x, p)]
          OBVIOUS
        <5>2. l \in LineRows /\ db'[Lines(x, p)] = [l EXCEPT !.delivered = TRUE]
          BY <4>1, <4>3, <5>1
        <5> QED BY ONLY <5>1, <5>2 DEF LineRows
      <4>6. db'[Customer(x, c)] \in [balance : Int, ytd : Nat]
        <5>1. c \in Customers
          BY <4>3 DEF OrderRows
        <5>2. PICK r : r = db[Customer(x, c)]
          OBVIOUS
        <5>3. PICK n : n = db[Lines(x, p)].amount
          OBVIOUS
        <5>4. r \in [balance : Int, ytd : Nat] /\ n \in Nat
              /\ db'[Customer(x, c)] = [r EXCEPT !.balance = @ + n]
          BY <3>1, <4>1, <4>5, <5>1, <5>2, <5>3
        <5> QED BY ONLY <5>4
      <4>7. \A k \in Customers : db'[Customer(x, k)] \in [balance : Int, ytd : Nat]
        BY <3>1, <4>1, <4>6
      <4> QED BY <4>1, <4>2, <4>4, <4>5, <4>7
    <3>5. ASSUME NEW p \in Numbers, Delivers(t, x, p)
          PROVE  \E f \in 1..NextId(x) :
                   \A q \in Numbers : db'[NewOrder(x, q)] # NoRow <=> f <= q /\ q < NextId(x)
      <4>1. p = first /\ p < NextId(x) /\ db'[NewOrder(x, p)] = NoRow
            /\ \A q \in Numbers : q # p => db'[NewOrder(x, q)] = db[NewOrder(x, q)]
        BY <3>4, <3>5
      <4>2. p + 1 \in 1..NextId(x) /\ p \in Nat /\ NextId(x) \in Nat
        <5>1. p \in Nat /\ p < NextId(x)
          BY <1>3, <4>1
        <5>2. NextId(x) \in Nat
          BY NumberedIs
        <5> QED BY ONLY <5>1, <5>2
      <4>3. \A q \in Numbers : db'[NewOrder(x, q)] # NoRow <=> p + 1 <= q /\ q < NextId(x)
        BY <1>3, <3>2, <4>1, <4>2
      <4> QED BY <4>2, <4>3
    <3>6. CASE \E p \in Numbers : Delivers(t, x, p)
      <4>1. PICK p \in Numbers : Delivers(t, x, p)
        BY <3>6
      <4>2. ASSUME NEW q \in Numbers
            PROVE  /\ q < NextId(x) => db'[Order(x, q)] \in OrderRows /\ db'[Lines(x, q)] \in LineRows
                   /\ q >= NextId(x) => db'[Order(x, q)] = NoRow /\ db'[Lines(x, q)] = NoRow
                   /\ db'[NewOrder(x, q)] \in {TRUE, NoRow}
        <5>1. CASE q = p
          <6>1. ~(q >= NextId(x))
            BY <1>3, <3>4, <4>1, <5>1, NumberedIs
          <6> QED BY <3>4, <4>1, <5>1, <6>1
        <5>2. CASE q # p
          BY <3>1, <3>4, <4>1, <5>2
        <5> QED BY <5>1, <5>2
      <4>3. \A k \in Customers : db'[Customer(x, k)] \in [balance : Int, ytd : Nat]
        BY <3>4, <4>1
      <4> QED BY <3>5, <4>1, <4>2, <4>3
    <3> QED BY <1>2, <3>3, <3>6
  <2>2. ASSUME NEW x \in Districts
        PROVE  /\ db'[District(x)] \in [next : Nat, ytd : Nat] /\ NextId(x)' > Loaded
               /\ \A y \in Districts, k \in Customers : db'[History(x, y, k)] \in Nat
    BY <1>1 DEF IInv, DbInv, DbTypes
  <2>3. DOMAIN db' = Rows /\ db'[Warehouse] \in Nat
    BY <1>1 DEF IInv, DbInv, DbTypes
  <2> QED BY <1>1, <2>1, <2>2, <2>3 DEF DbTypes
<1>5. MoneyAgrees'
  <2>1. [x \in Districts |-> db'[District(x)].ytd] = [x \in Districts |-> db[District(x)].ytd]
    BY <1>1
  <2>2. \A x \in Districts :
          [p \in Districts \X Customers |-> db'[History(x, p[1], p[2])]]
            = [p \in Districts \X Customers |-> db[History(x, p[1], p[2])]]
    BY <1>1
  <2> QED BY <1>1, <2>1, <2>2 DEF IInv, DbInv, MoneyAgrees
<1>6. DeliveryAgrees'
  <2> SUFFICES ASSUME NEW x \in Districts, NEW p \in 1..(db[District(x)].next - 1)
               PROVE  /\ db'[Lines(x, p)] # NoRow /\ db'[Lines(x, p)].n = db'[Order(x, p)].cnt
                      /\ db'[Order(x, p)].carrier <=> db'[NewOrder(x, p)] = NoRow
                      /\ db'[Lines(x, p)].delivered <=> db'[Order(x, p)].carrier
    BY <1>1 DEF DeliveryAgrees
  <2>1. p \in Numbers /\ p < NextId(x)
    BY NumberedIs DEF NextId
  <2>2. /\ db[Lines(x, p)] # NoRow /\ db[Lines(x, p)].n = db[Order(x, p)].cnt
        /\ db[Order(x, p)].carrier <=> db[NewOrder(x, p)] = NoRow
        /\ db[Lines(x, p)].delivered <=> db[Order(x, p)].carrier
    BY DEF IInv, DbInv, DeliveryAgrees
  <2>3. CASE Leaves(x)
    BY <2>1, <2>2, <2>3 DEF Leaves
  <2>4. ASSUME NEW q \in Numbers, Delivers(t, x, q), q # p PROVE
          /\ db'[Order(x, p)] = db[Order(x, p)] /\ db'[NewOrder(x, p)] = db[NewOrder(x, p)]
          /\ db'[Lines(x, p)] = db[Lines(x, p)]
    BY <2>1, <2>4 DEF Delivers
  <2>5. CASE Delivers(t, x, p)
    <3>1. PICK o, l : o = db[Order(x, p)] /\ l = db[Lines(x, p)]
      OBVIOUS
    <3>2. /\ o \in OrderRows /\ l \in LineRows /\ l.n = o.cnt
          /\ db'[Order(x, p)] = [o EXCEPT !.carrier = TRUE]
          /\ db'[Lines(x, p)] = [l EXCEPT !.delivered = TRUE]
      BY <2>1, <2>2, <2>5, <3>1 DEF Delivers, IInv, DbInv, DbTypes
    <3>3. /\ db'[Lines(x, p)].n = db'[Order(x, p)].cnt
          /\ db'[Lines(x, p)].delivered = TRUE /\ db'[Order(x, p)].carrier = TRUE
          /\ db'[Lines(x, p)] \in LineRows
      BY ONLY <3>2 DEF OrderRows, LineRows
    <3>4. db'[NewOrder(x, p)] = NoRow
      BY <2>5 DEF Delivers
    <3> QED BY <3>3, <3>4, NoRowIs
  <2> QED BY <1>2, <2>2, <2>3, <2>4, <2>5
<1>7. BalancesAgree'
  <2> SUFFICES ASSUME NEW e \in Districts, NEW k \in Customers
               PROVE  /\ db'[Customer(e, k)].balance + db'[Customer(e, k)].ytd = Due(e, k)'
                      /\ db'[Customer(e, k)].ytd = Total([x \in Districts |-> db'[History(x, e, k)]])
    BY DEF BalancesAgree, Due, Mine
  <2>1. /\ db[Customer(e, k)].balance + db[Customer(e, k)].ytd = Due(e, k)
        /\ db[Customer(e, k)].ytd = Total([x \in Districts |-> db[History(x, e, k)]])
    BY DEF IInv, DbInv, BalancesAgree, Due, Mine
  <2>2. [x \in Districts |-> db'[History(x, e, k)]] = [x \in Districts |-> db[History(x, e, k)]]
    BY <1>1
  <2>3. /\ db'[Customer(e, k)].balance \in Int /\ db[Customer(e, k)].balance \in Int
        /\ db[Customer(e, k)].ytd \in Nat
    BY <1>4 DEF IInv, DbInv, DbTypes
  <2>4. /\ db'[Customer(e, k)].ytd = db[Customer(e, k)].ytd
        /\ Due(e, k)' = Due(e, k) + (db'[Customer(e, k)].balance - db[Customer(e, k)].balance)
    <3>1. CASE Leaves(e)
      <4>1. db'[Customer(e, k)] = db[Customer(e, k)]
        BY <3>1 DEF Leaves
      <4>2. \A p \in 1..(db[District(e)].next - 1) :
              db'[Order(e, p)] = db[Order(e, p)] /\ db'[Lines(e, p)] = db[Lines(e, p)]
        BY <3>1, NumberedIs DEF Leaves, NextId
      <4>3. Mine(e, k)' = Mine(e, k)
        BY <1>1, <4>2 DEF Mine
      <4>4. [p \in Mine(e, k) |-> db'[Lines(e, p)].amount] = [p \in Mine(e, k) |-> db[Lines(e, p)].amount]
        BY <4>2 DEF Mine
      <4>5. Due(e, k)' = Due(e, k)
        BY <4>3, <4>4 DEF Due
      <4> QED BY <2>1, <2>3, <4>1, <4>5
    <3>2. CASE \E p \in Numbers : Delivers(t, e, p)
      BY <1>1, <3>2, DeliveredBalance
    <3> QED BY <1>2, <3>1, <3>2
  <2> QED BY <2>1, <2>2, <2>3, <2>4
<1>8. ASSUME NEW u \in Threads, u # t PROVE Kept(u)
  <2>1. ASSUME NEW x \in Districts
        PROVE  /\ \A c \in Customers : Held(u, Customer(x, c)) => db'[Customer(x, c)] = db[Customer(x, c)]
               /\ \A o \in Numbers : o < NextId(x) =>
                    /\ db[NewOrder(x, o)] = NoRow => db'[NewOrder(x, o)] = NoRow
                    /\ Held(u, NewOrder(x, o)) =>
                         /\ db'[NewOrder(x, o)] = db[NewOrder(x, o)]
                         /\ db'[Order(x, o)] = db[Order(x, o)] /\ db'[Lines(x, o)] = db[Lines(x, o)]
    <3>1. CASE Leaves(x)
      BY <3>1 DEF Leaves
    <3>2. ASSUME NEW p \in Numbers, Delivers(t, x, p)
          PROVE  /\ ~Held(u, NewOrder(x, p)) /\ ~Held(u, Customer(x, db[Order(x, p)].c))
                 /\ db'[NewOrder(x, p)] = NoRow
                 /\ \A k \in Customers : k # db[Order(x, p)].c => db'[Customer(x, k)] = db[Customer(x, k)]
                 /\ \A q \in Numbers : q # p => /\ db'[Order(x, q)] = db[Order(x, q)]
                                                /\ db'[NewOrder(x, q)] = db[NewOrder(x, q)]
                                                /\ db'[Lines(x, q)] = db[Lines(x, q)]
      BY <1>8, <3>2, HeldOnce DEF Delivers, IInv
    <3> QED BY <1>2, <3>1, <3>2
  <2> QED BY <1>1, <2>1 DEF Kept
<1> QED BY <1>1, <1>4, <1>5, <1>6, <1>7, <1>8, CommitInv DEF DbInv

-----------------------------------------------------------------------------
(***************************************************************************)
(* The loaded tables                                                       *)
(***************************************************************************)
\* Units that are there or not are as many as there are.
LEMMA TotalOnes ==
  ASSUME NEW f, IsFiniteSet(DOMAIN f), \A x \in DOMAIN f : f[x] \in {0, 1},
         NEW ones, ones = {x \in DOMAIN f : f[x] = 1}
  PROVE  Total(f) = Cardinality(ones)
<1>1. Summands(f)
  BY DEF Summands
<1>2. PICK g : g = [x \in ones |-> 1]
  OBVIOUS
<1>3. IsFiniteSet(ones) /\ Summands(g)
  BY <1>2, FS_Subset DEF Summands
<1>4. Total(g) = Cardinality(ones) * 1 /\ Cardinality(ones) \in Nat
  BY <1>2, <1>3, TotalEach, FS_CardinalityType
<1>5. \A u : u \in Units(f) <=> u \in Units(g)
  <2>1. \A u : u \in Units(f) <=> \E x \in DOMAIN f : \E k \in 1..f[x] : u = <<x, k>>
    BY <1>1, UnitsAre
  <2>2. \A u : u \in Units(g) <=> \E x \in DOMAIN g : \E k \in 1..g[x] : u = <<x, k>>
    BY <1>3, UnitsAre
  <2>3. \A x \in DOMAIN f : \A k : k \in 1..f[x] <=> x \in ones /\ k = 1
    OBVIOUS
  <2>4. \A x \in DOMAIN g : \A k : k \in 1..g[x] <=> k = 1
    BY <1>2
  <2> QED BY <1>2, <2>1, <2>2, <2>3, <2>4
<1>6. Units(f) = Units(g)
  BY <1>5
<1> QED BY <1>1, <1>3, <1>4, <1>6, UnitsAre

\* An order of the loaded tables that has a carrier already.
Given(r) == r[3] <= Loaded - Undelivered[r[2]]

LEMMA LoadedTables ==
  ASSUME NEW tab
  PROVE  /\ LoadedRow(Warehouse, tab) = DIST_PER_WARE * Loaded
         /\ \A d : LoadedRow(District(d), tab) = [next |-> Loaded + 1, ytd |-> Loaded]
         /\ \A d, c : LoadedRow(Customer(d, c), tab) = [balance |-> -1, ytd |-> 1]
         /\ \A d, c : LoadedRow(History(d, d, c), tab) = 1
         /\ \A d, e, c : d # e => LoadedRow(History(d, e, c), tab) = 0
<1>1. LoadedRow(Warehouse, tab) = DIST_PER_WARE * Loaded
  <2>1. Warehouse[1] = "warehouse"
    BY RowKinds
  <2> QED BY <2>1 DEF LoadedRow
<1>2. ASSUME NEW d PROVE LoadedRow(District(d), tab) = [next |-> Loaded + 1, ytd |-> Loaded]
  <2>1. District(d)[1] = "district"
    BY RowKinds
  <2> QED BY <2>1 DEF LoadedRow
<1>3. ASSUME NEW d, NEW c PROVE LoadedRow(Customer(d, c), tab) = [balance |-> -1, ytd |-> 1]
  <2>1. Customer(d, c)[1] = "customer"
    BY RowKinds
  <2> QED BY <2>1 DEF LoadedRow
<1>4. ASSUME NEW d, NEW e, NEW c
      PROVE  LoadedRow(History(d, e, c), tab) = IF d = e THEN 1 ELSE 0
  <2>1. History(d, e, c)[1] = "history" /\ History(d, e, c)[2] = d /\ History(d, e, c)[3] = e
    BY RowKinds
  <2> QED BY <2>1 DEF LoadedRow
<1>5. \A d, c : LoadedRow(History(d, d, c), tab) = 1
  BY <1>4
<1>6. ASSUME NEW d, NEW e, NEW c, d # e PROVE LoadedRow(History(d, e, c), tab) = 0
  BY <1>4, <1>6
<1> QED BY <1>1, <1>2, <1>3, <1>5, <1>6

LEMMA LoadedOrders ==
  ASSUME NEW tab, NEW d, NEW o
  PROVE  /\ o > Loaded => /\ LoadedRow(Order(d, o), tab) = NoRow
                          /\ LoadedRow(NewOrder(d, o), tab) = NoRow
                          /\ LoadedRow(Lines(d, o), tab) = NoRow
         /\ ~(o > Loaded) =>
              /\ LoadedRow(Order(d, o), tab)
                   = [c |-> tab[o], cnt |-> 1, carrier |-> Given(Order(d, o))]
              /\ LoadedRow(NewOrder(d, o), tab) = IF Given(NewOrder(d, o)) THEN NoRow ELSE TRUE
              /\ LoadedRow(Lines(d, o), tab)
                   = [n |-> 1, amount |-> IF Given(Lines(d, o)) THEN 0 ELSE 1,
                      delivered |-> Given(Lines(d, o))]
<1>1. /\ Order(d, o)[1] = "orders" /\ Order(d, o)[2] = d /\ Order(d, o)[3] = o
      /\ NewOrder(d, o)[1] = "new_orders" /\ NewOrder(d, o)[2] = d /\ NewOrder(d, o)[3] = o
      /\ Lines(d, o)[1] = "order_line" /\ Lines(d, o)[2] = d /\ Lines(d, o)[3] = o
  BY RowKinds
<1>2. CASE o > Loaded
  <2>1. LoadedRow(Order(d, o), tab) = NoRow
    BY <1>1, <1>2 DEF LoadedRow
  <2>2. LoadedRow(NewOrder(d, o), tab) = NoRow
    BY <1>1, <1>2 DEF LoadedRow
  <2>3. LoadedRow(Lines(d, o), tab) = NoRow
    BY <1>1, <1>2 DEF LoadedRow
  <2> QED BY <1>2, <2>1, <2>2, <2>3
<1>3. CASE ~(o > Loaded)
  <2>1. LoadedRow(Order(d, o), tab) = [c |-> tab[o], cnt |-> 1, carrier |-> Given(Order(d, o))]
    BY <1>1, <1>3 DEF LoadedRow, Given
  <2>2. LoadedRow(NewOrder(d, o), tab) = IF Given(NewOrder(d, o)) THEN NoRow ELSE TRUE
    BY <1>1, <1>3 DEF LoadedRow, Given
  <2>3. LoadedRow(Lines(d, o), tab)
          = [n |-> 1, amount |-> IF Given(Lines(d, o)) THEN 0 ELSE 1, delivered |-> Given(Lines(d, o))]
    BY <1>1, <1>3 DEF LoadedRow, Given
  <2> QED BY <1>3, <2>1, <2>2, <2>3
<1> QED BY <1>2, <1>3

LEMMA InitDb ==
  ASSUME Init
  PROVE  DbInv
<1>1. PICK tab \in [1..Loaded -> Customers] : db = [r \in Rows |-> LoadedRow(r, tab)]
  BY DEF Init
<1>2. \A r \in Rows : db[r] = LoadedRow(r, tab)
  BY <1>1
<1>3. Loaded \in Nat /\ DIST_PER_WARE \in Nat /\ Numbers \subseteq Nat /\ \A o \in Numbers : o >= 1
  BY LoadedType, TpccAssumption DEF Numbers
<1>4. ASSUME NEW d \in Districts PROVE Undelivered[d] \in 0..Loaded
  BY TpccAssumption DEF Loaded
<1>5. db[Warehouse] = DIST_PER_WARE * Loaded
  <2>1. LoadedRow(Warehouse, tab) = DIST_PER_WARE * Loaded
    BY LoadedTables
  <2> QED BY <1>2, <2>1, RowsAre
<1>6. ASSUME NEW d \in Districts
      PROVE  /\ db[District(d)] = [next |-> Loaded + 1, ytd |-> Loaded]
             /\ \A c \in Customers : db[Customer(d, c)] = [balance |-> -1, ytd |-> 1]
             /\ \A e \in Districts, c \in Customers :
                  db[History(d, e, c)] = IF d = e THEN 1 ELSE 0
  <2>1. LoadedRow(District(d), tab) = [next |-> Loaded + 1, ytd |-> Loaded]
    BY LoadedTables
  <2>2. \A c \in Customers : LoadedRow(Customer(d, c), tab) = [balance |-> -1, ytd |-> 1]
    BY LoadedTables
  <2>3. ASSUME NEW e \in Districts, NEW c \in Customers
        PROVE  db[History(d, e, c)] = IF d = e THEN 1 ELSE 0
    <3>1. CASE d = e
      BY <1>2, <3>1, LoadedTables, RowsAre
    <3>2. CASE d # e
      BY <1>2, <3>2, LoadedTables, RowsAre
    <3> QED BY <3>1, <3>2
  <2> QED BY <1>2, <2>1, <2>2, <2>3, RowsAre
<1>7. ASSUME NEW d \in Districts, NEW o \in Numbers, o > Loaded
      PROVE  db[Order(d, o)] = NoRow /\ db[NewOrder(d, o)] = NoRow /\ db[Lines(d, o)] = NoRow
  <2>1. /\ LoadedRow(Order(d, o), tab) = NoRow /\ LoadedRow(NewOrder(d, o), tab) = NoRow
        /\ LoadedRow(Lines(d, o), tab) = NoRow
    BY <1>7, LoadedOrders
  <2> QED BY <1>2, <2>1, RowsAre
<1>8. ASSUME NEW d \in Districts, NEW o \in Numbers, ~(o > Loaded),
             NEW delivered \in BOOLEAN, delivered <=> o <= Loaded - Undelivered[d]
      PROVE  /\ db[Order(d, o)] = [c |-> tab[o], cnt |-> 1, carrier |-> delivered]
             /\ db[NewOrder(d, o)] = IF delivered THEN NoRow ELSE TRUE
             /\ db[Lines(d, o)] = [n |-> 1, amount |-> IF delivered THEN 0 ELSE 1,
                                   delivered |-> delivered]
  <2>1. Given(Order(d, o)) = delivered /\ Given(NewOrder(d, o)) = delivered
        /\ Given(Lines(d, o)) = delivered
    BY <1>8, RowKinds DEF Given
  <2>2. LoadedRow(Order(d, o), tab) = [c |-> tab[o], cnt |-> 1, carrier |-> Given(Order(d, o))]
    BY <1>8, LoadedOrders
  <2>3. LoadedRow(NewOrder(d, o), tab) = IF Given(NewOrder(d, o)) THEN NoRow ELSE TRUE
    BY <1>8, LoadedOrders
  <2>4. LoadedRow(Lines(d, o), tab)
          = [n |-> 1, amount |-> IF Given(Lines(d, o)) THEN 0 ELSE 1, delivered |-> Given(Lines(d, o))]
    BY <1>8, LoadedOrders
  <2>5. db[Order(d, o)] = [c |-> tab[o], cnt |-> 1, carrier |-> delivered]
    BY <1>2, <2>1, <2>2, RowsAre
  <2>6. db[NewOrder(d, o)] = IF delivered THEN NoRow ELSE TRUE
    BY <1>2, <2>1, <2>3, RowsAre
  <2>7. db[Lines(d, o)] = [n |-> 1, amount |-> IF delivered THEN 0 ELSE 1, delivered |-> delivered]
    BY <1>2, <2>1, <2>4, RowsAre
  <2> QED BY <2>5, <2>6, <2>7
<1>9. \A d \in Districts : NextId(d) = Loaded + 1
  BY <1>6 DEF NextId
<1>10. ASSUME NEW d \in Districts, NEW o \in Numbers, o <= Loaded
       PROVE  \E delivered \in BOOLEAN, amount \in {0, 1} :
                /\ delivered <=> o <= Loaded - Undelivered[d]
                /\ delivered => amount = 0
                /\ db[Order(d, o)] = [c |-> tab[o], cnt |-> 1, carrier |-> delivered]
                /\ db[Lines(d, o)] = [n |-> 1, amount |-> amount, delivered |-> delivered]
                /\ db[NewOrder(d, o)] \in {TRUE, NoRow}
                /\ db[NewOrder(d, o)] = NoRow <=> delivered
  <2>1. ~(o > Loaded)
    BY <1>3, <1>10
  <2>2. CASE o <= Loaded - Undelivered[d]
    <3>1. TRUE <=> o <= Loaded - Undelivered[d]
      BY <2>2
    <3>2. /\ db[Order(d, o)] = [c |-> tab[o], cnt |-> 1, carrier |-> TRUE]
          /\ db[NewOrder(d, o)] = NoRow
          /\ db[Lines(d, o)] = [n |-> 1, amount |-> 0, delivered |-> TRUE]
      BY <1>8, <2>1, <3>1, Zenon
    <3> QED BY <2>2, <3>2, Zenon
  <2>3. CASE ~(o <= Loaded - Undelivered[d])
    <3>1. FALSE <=> o <= Loaded - Undelivered[d]
      BY <2>3
    <3>2. /\ db[Order(d, o)] = [c |-> tab[o], cnt |-> 1, carrier |-> FALSE]
          /\ db[NewOrder(d, o)] = TRUE
          /\ db[Lines(d, o)] = [n |-> 1, amount |-> 1, delivered |-> FALSE]
      <4>1. db[Order(d, o)] = [c |-> tab[o], cnt |-> 1, carrier |-> FALSE]
        BY <1>8, <2>1, <3>1, Zenon
      <4>2. db[NewOrder(d, o)] = IF FALSE THEN NoRow ELSE TRUE
        BY <1>8, <2>1, <3>1, Zenon
      <4>3. db[Lines(d, o)] = [n |-> 1, amount |-> IF FALSE THEN 0 ELSE 1, delivered |-> FALSE]
        BY <1>8, <2>1, <3>1, Zenon
      <4>4. db[NewOrder(d, o)] = TRUE
        BY <4>2, Zenon
      <4>5. db[Lines(d, o)] = [n |-> 1, amount |-> 1, delivered |-> FALSE]
        BY <4>3, Zenon
      <4> QED BY <4>1, <4>4, <4>5, Zenon
    <3> QED BY <2>3, <3>2, NoRowIs, Zenon
  <2> QED BY <2>2, <2>3
<1>11. DbTypes
  <2>1. ASSUME NEW d \in Districts
        PROVE  /\ db[District(d)] \in [next : Nat, ytd : Nat] /\ NextId(d) > Loaded
               /\ \A c \in Customers : db[Customer(d, c)] \in [balance : Int, ytd : Nat]
               /\ \A e \in Districts, c \in Customers : db[History(d, e, c)] \in Nat
    BY <1>3, <1>6, <1>9
  <2>2. ASSUME NEW d \in Districts, NEW o \in Numbers
        PROVE  /\ o < NextId(d) => db[Order(d, o)] \in OrderRows /\ db[Lines(d, o)] \in LineRows
               /\ o >= NextId(d) => db[Order(d, o)] = NoRow /\ db[Lines(d, o)] = NoRow
               /\ db[NewOrder(d, o)] \in {TRUE, NoRow}
    <3>1. CASE o > Loaded
      <4>1. ~(o < NextId(d))
        BY <1>3, <1>9, <3>1
      <4> QED BY <1>7, <3>1, <4>1
    <3>2. CASE o <= Loaded
      <4>1. ~(o >= NextId(d)) /\ tab[o] \in Customers
        BY <1>3, <1>9, <3>2
      <4>2. PICK delivered \in BOOLEAN, amount \in {0, 1} :
              /\ db[Order(d, o)] = [c |-> tab[o], cnt |-> 1, carrier |-> delivered]
              /\ db[Lines(d, o)] = [n |-> 1, amount |-> amount, delivered |-> delivered]
              /\ db[NewOrder(d, o)] \in {TRUE, NoRow}
        BY <1>10, <3>2
      <4>3. db[Order(d, o)] \in OrderRows /\ db[Lines(d, o)] \in LineRows
        BY <4>1, <4>2 DEF OrderRows, LineRows
      <4> QED BY <4>1, <4>2, <4>3
    <3>3. o > Loaded \/ o <= Loaded
      BY <1>3
    <3> QED BY <3>1, <3>2, <3>3, Zenon
  <2>3. ASSUME NEW d \in Districts
        PROVE  \E first \in 1..NextId(d) :
                 \A o \in Numbers : db[NewOrder(d, o)] # NoRow <=> first <= o /\ o < NextId(d)
    <3>1. PICK first : first = Loaded - Undelivered[d] + 1
      OBVIOUS
    <3>2. first \in 1..NextId(d)
      BY <1>3, <1>4, <1>9, <3>1
    <3>3. ASSUME NEW o \in Numbers
          PROVE  db[NewOrder(d, o)] # NoRow <=> first <= o /\ o < NextId(d)
      <4>1. CASE o > Loaded
        BY <1>3, <1>7, <1>9, <4>1
      <4>2. CASE o <= Loaded
        <5>1. db[NewOrder(d, o)] = NoRow <=> o <= Loaded - Undelivered[d]
          BY <1>10, <4>2
        <5>2. o <= Loaded - Undelivered[d] <=> ~(first <= o)
          BY <1>3, <1>4, <3>1
        <5>3. o < NextId(d)
          BY <1>3, <1>9, <4>2
        <5> QED BY <5>1, <5>2, <5>3
      <4> QED BY <1>3, <4>1, <4>2
    <3> QED BY <3>2, <3>3
  <2>4. DOMAIN db = Rows /\ db[Warehouse] \in Nat
    BY <1>1, <1>3, <1>5
  <2> QED BY <2>1, <2>2, <2>3, <2>4 DEF DbTypes
<1>12. MoneyAgrees
  <2>1. db[Warehouse] = Total([d \in Districts |-> db[District(d)].ytd])
    <3>1. PICK f : f = [d \in Districts |-> db[District(d)].ytd]
      OBVIOUS
    <3>2. DOMAIN f = Districts /\ \A d \in Districts : f[d] = Loaded
      BY <1>6, <3>1
    <3>3. Total(f) = Cardinality(Districts) * Loaded
      BY <1>3, <3>2, TotalEach, DistrictsFinite
    <3> QED BY <1>5, <3>1, <3>3, DistrictsFinite
  <2>2. ASSUME NEW d \in Districts
        PROVE  db[District(d)].ytd
                 = Total([p \in Districts \X Customers |-> db[History(d, p[1], p[2])]])
    <3>1. PICK f : f = [p \in Districts \X Customers |-> db[History(d, p[1], p[2])]]
      OBVIOUS
    <3>2. DOMAIN f = Districts \X Customers
          /\ \A p \in Districts \X Customers : f[p] = IF d = p[1] THEN 1 ELSE 0
      BY <1>6, <3>1
    <3>3. PICK ones : ones = {p \in DOMAIN f : f[p] = 1}
      OBVIOUS
    <3>4. Total(f) = Cardinality(ones)
      BY <3>2, <3>3, TotalOnes, DistrictsFinite
    <3>5. ones = {d} \X Customers
      BY <3>2, <3>3
    <3>6. Cardinality(ones) = Loaded
      BY <3>5, Strip, LoadedType DEF Loaded
    <3>7. db[District(d)].ytd = Loaded
      BY <1>6
    <3> QED BY <3>1, <3>4, <3>6, <3>7
  <2> QED BY <2>1, <2>2 DEF MoneyAgrees
<1>13. DeliveryAgrees
  <2>1. ASSUME NEW d \in Districts, NEW o \in 1..(db[District(d)].next - 1)
        PROVE  /\ db[Lines(d, o)] # NoRow /\ db[Lines(d, o)].n = db[Order(d, o)].cnt
               /\ db[Order(d, o)].carrier <=> db[NewOrder(d, o)] = NoRow
               /\ db[Lines(d, o)].delivered <=> db[Order(d, o)].carrier
    <3>1. o \in Numbers /\ o <= Loaded
      BY <1>3, <1>6, LoadedType DEF Numbers
    <3>2. PICK delivered \in BOOLEAN, amount \in {0, 1} :
            /\ db[Order(d, o)] = [c |-> tab[o], cnt |-> 1, carrier |-> delivered]
            /\ db[Lines(d, o)] = [n |-> 1, amount |-> amount, delivered |-> delivered]
            /\ db[NewOrder(d, o)] = NoRow <=> delivered
      BY <1>10, <3>1
    <3>3. db[Lines(d, o)] \in LineRows
      BY <3>2 DEF LineRows
    <3>4. db[Lines(d, o)].n = db[Order(d, o)].cnt
      BY <3>2
    <3>5. db[Order(d, o)].carrier = delivered /\ db[Lines(d, o)].delivered = delivered
      BY ONLY <3>2
    <3> QED BY <3>2, <3>3, <3>4, <3>5, NoRowIs
  <2> QED BY <2>1 DEF DeliveryAgrees
<1>14. BalancesAgree
  <2>1. ASSUME NEW e \in Districts, NEW c \in Customers
        PROVE  /\ db[Customer(e, c)].balance + db[Customer(e, c)].ytd = Due(e, c)
               /\ db[Customer(e, c)].ytd = Total([d \in Districts |-> db[History(d, e, c)]])
    <3>1. db[Customer(e, c)].balance = -1 /\ db[Customer(e, c)].ytd = 1
      BY <1>6
    <3>2. Due(e, c) = 0
      <4>1. PICK f : f = [p \in Mine(e, c) |-> db[Lines(e, p)].amount]
        OBVIOUS
      <4>2. \A p \in Mine(e, c) : p \in 1..Loaded /\ db[Lines(e, p)].delivered
        BY <1>3, <1>6 DEF Mine
      <4>3. IsFiniteSet(1..Loaded)
        BY <1>3, Run
      <4>4. IsFiniteSet(Mine(e, c))
        BY <4>2, <4>3, FS_Subset
      <4>5. ASSUME NEW p \in Mine(e, c) PROVE f[p] = 0
        <5>1. p \in Numbers /\ p <= Loaded /\ db[Lines(e, p)].delivered
          BY <1>3, <4>2, LoadedType DEF Numbers
        <5>2. PICK delivered \in BOOLEAN, amount \in {0, 1} :
                /\ delivered => amount = 0
                /\ db[Lines(e, p)] = [n |-> 1, amount |-> amount, delivered |-> delivered]
          BY <1>10, <5>1
        <5>3. db[Lines(e, p)].delivered = delivered /\ db[Lines(e, p)].amount = amount
          BY ONLY <5>2
        <5>4. delivered
          BY <5>1, <5>3
        <5> QED BY <4>1, <5>2, <5>3, <5>4
      <4>6. DOMAIN f = Mine(e, c) /\ Cardinality(Mine(e, c)) \in Nat
        BY <4>1, <4>4, FS_CardinalityType
      <4>7. Total(f) = Cardinality(Mine(e, c)) * 0
        BY <4>4, <4>5, <4>6, TotalEach
      <4> QED BY <4>1, <4>6, <4>7 DEF Due
    <3>3. Total([d \in Districts |-> db[History(d, e, c)]]) = 1
      <4>1. PICK f : f = [d \in Districts |-> db[History(d, e, c)]]
        OBVIOUS
      <4>2. DOMAIN f = Districts /\ \A d \in Districts : f[d] = IF d = e THEN 1 ELSE 0
        BY <1>6, <4>1
      <4>3. {d \in DOMAIN f : f[d] = 1} = {e}
        BY <4>2
      <4>4. Total(f) = Cardinality({e})
        BY <4>2, <4>3, TotalOnes, DistrictsFinite
      <4> QED BY <4>1, <4>4, FS_Singleton
    <3> QED BY <3>1, <3>2, <3>3
  <2> QED BY <2>1 DEF BalancesAgree, Due, Mine
<1> QED BY <1>11, <1>12, <1>13, <1>14 DEF DbInv

LEMMA InitInv ==
  ASSUME Init
  PROVE  IInv
<1>1. /\ level \in Levels /\ writes = [t \in Threads |-> <<>>] /\ locks = {}
      /\ view = [t \in Threads |-> NoRow] /\ pc = [t \in Threads |-> "idle"]
      /\ tx = [t \in Threads |-> NoRow] /\ events = 0
  BY DEF Init
<1>2. Shape /\ LockInv
  BY <1>1, TpccAssumption DEF Shape, LockInv
<1>3. EventInv
  <2>1. Active = {}
    BY <1>1 DEF Active
  <2>2. IsFiniteSet(Active) /\ Cardinality(Active) = 0
    BY <2>1, FS_EmptySet
  <2>3. \A d \in Districts : NextId(d) = Loaded + 1
    <3>1. PICK tab : db = [r \in Rows |-> LoadedRow(r, tab)]
      BY DEF Init
    <3>2. \A d \in Districts : LoadedRow(District(d), tab) = [next |-> Loaded + 1, ytd |-> Loaded]
      BY LoadedTables
    <3>3. \A d \in Districts : db[District(d)] = [next |-> Loaded + 1, ytd |-> Loaded]
      BY <3>1, <3>2, RowsAre
    <3> QED BY <3>3 DEF NextId
  <2> QED BY <1>1, <2>2, <2>3, LoadedType DEF EventInv
<1>4. \A t \in Threads : ThreadInv(t)
  BY <1>1 DEF ThreadInv, AtRest
<1> QED BY <1>2, <1>3, <1>4, InitDb DEF IInv

\* Every step of a thread keeps the invariant.
LEMMA StepKeeps ==
  ASSUME IInv, NEW t \in Threads, Step(t)
  PROVE  IInv'
<1>1. CASE BeginNewOrder(t)
  BY <1>1, BeginNewOrderInv
<1>2. CASE TakeNextOid(t)
  BY <1>2, TakeNextOidInv
<1>3. CASE InsertOrder(t)
  BY <1>3, InsertOrderInv
<1>4. CASE InsertNewOrder(t)
  BY <1>4, InsertNewOrderInv
<1>5. CASE OrderLine(t)
  BY <1>5, OrderLineInv
<1>6. CASE MissingItem(t)
  BY <1>6, MissingItemInv
<1>7. CASE BeginPayment(t)
  BY <1>7, BeginPaymentInv
<1>8. CASE PayWarehouse(t)
  BY <1>8, PayWarehouseInv
<1>9. CASE PayDistrict(t)
  BY <1>9, PayDistrictInv
<1>10. CASE PayCustomer(t)
  BY <1>10, PayCustomerInv
<1>11. CASE BeginDelivery(t)
  BY <1>11, BeginDeliveryInv
<1>12. CASE TakeOldest(t)
  BY <1>12, TakeOldestInv
<1>13. CASE ReadOrder(t)
  BY <1>13, ReadOrderInv
<1>14. CASE SetCarrier(t)
  BY <1>14, SetCarrierInv
<1>15. CASE AddBalance(t)
  BY <1>15, AddBalanceInv
<1>16. CASE Commit(t)
  <2>1. pc[t] = "commit" /\ ThreadInv(t)
    BY <1>16 DEF Commit, IInv
  <2>2. ~AtRest(t)
    BY <2>1 DEF AtRest
  <2> QED BY <1>16, <2>1, <2>2, CommitNewOrder, CommitPayment, CommitDelivery DEF ThreadInv
<1>17. CASE Restart(t)
  BY <1>17, RestartInv
<1> QED BY <1>1, <1>2, <1>3, <1>4, <1>5, <1>6, <1>7, <1>8, <1>9, <1>10, <1>11, <1>12, <1>13,
           <1>14, <1>15, <1>16, <1>17 DEF Step

LEMMA NextKeeps ==
  ASSUME IInv, [Next]_vars
  PROVE  IInv'
<1>1. CASE Next
  BY <1>1, StepKeeps DEF Next
<1>2. CASE UNCHANGED vars
  <2>1. UNCHANGED <<level, db, writes, locks, view, pc, tx, events>>
    BY <1>2 DEF vars
  <2>2. Shape' /\ LockInv'
    BY <2>1 DEF IInv, Shape, LockInv
  <2>3. DbInv'
    BY <2>1, DbSame DEF IInv
  <2>4. EventInv'
    <3>1. Active' = Active
      BY <2>1 DEF Active
    <3> QED BY <2>1, <3>1 DEF IInv, EventInv, NextId
  <2>5. ASSUME NEW t \in Threads PROVE ThreadInv(t)'
    <3>1. ThreadInv(t) /\ \A r : Held(t, r)' <=> Held(t, r)
      BY <2>1 DEF IInv, Held
    <3>2. AtRest(t)' <=> AtRest(t)
      BY <2>1 DEF AtRest
    <3>3. NewOrdering(t)' <=> NewOrdering(t)
      BY <2>1 DEF NewOrdering, Held, NextId
    <3>4. Paying(t)' <=> Paying(t)
      BY <2>1 DEF Paying, Held
    <3>5. Delivering(t)' <=> Delivering(t)
      BY <2>1 DEF Delivering, Held, NextId, Took, CarrierSet, Delivered, Untouched
    <3> QED BY <2>1, <3>1, <3>2, <3>3, <3>4, <3>5 DEF ThreadInv
  <2> QED BY <2>2, <2>3, <2>4, <2>5 DEF IInv
<1> QED BY <1>1, <1>2

-----------------------------------------------------------------------------
(***************************************************************************)
(* The theorems                                                            *)
(***************************************************************************)
\* The invariant on which the theorems below rest: what is committed satisfies the
\* conditions of tpcc_check.lua, and every transaction has written what its statements
\* say, to rows that its locks keep from the others.
THEOREM Inductive == Spec => []IInv
BY InitInv, NextKeeps, PTL DEF Spec

\* The rows that a transaction has written are rows of the tables.
LEMMA WritesRows ==
  ASSUME IInv, NEW t \in Threads
  PROVE  DOMAIN writes[t] \subseteq Rows
<1>0. ThreadInv(t) /\ \A x \in Districts : NextId(x) \in Nat
  BY DEF IInv, DbInv, DbTypes, NextId
<1>1. CASE AtRest(t)
  BY <1>1 DEF AtRest
<1>2. CASE NewOrdering(t)
  <2>1. CASE pc[t] = "next_o_id"
    BY <1>2, <2>1 DEF NewOrdering
  <2>2. CASE pc[t] # "next_o_id"
    <3>1. PICK d, o : d = tx[t].d /\ o = tx[t].o
      OBVIOUS
    <3>2. /\ d \in Districts /\ o \in Numbers
          /\ DOMAIN writes[t] \subseteq {District(d), Order(d, o), NewOrder(d, o), Lines(d, o)}
      BY <1>2, <2>2, <3>1 DEF NewOrdering
    <3> QED BY <3>2, RowsAre
  <2> QED BY <2>1, <2>2
<1>3. CASE Paying(t)
  <2>1. PICK d, e, c : d = tx[t].d /\ e = tx[t].e /\ c = tx[t].c
    OBVIOUS
  <2>2. /\ d \in Districts /\ e \in Districts /\ c \in Customers
        /\ DOMAIN writes[t] \subseteq {Warehouse, District(d), Customer(e, c), History(d, e, c)}
    BY <1>3, <2>1 DEF Paying
  <2> QED BY <2>2, RowsAre
<1>4. CASE Delivering(t)
  <2>1. ASSUME NEW r \in DOMAIN writes[t] PROVE r \in Rows
    <3>1. PICK x : x = r[2]
      OBVIOUS
    <3>2. x \in Districts /\ ~Untouched(t, x)
      BY <1>4, <2>1, <3>1 DEF Delivering, Untouched
    <3>3. PICK d, o : d = tx[t].d /\ o = tx[t].o
      OBVIOUS
    <3>4. CASE x < d
      <4>1. PICK p \in Numbers : Delivered(t, x, p)
        BY <1>4, <3>2, <3>3, <3>4 DEF Delivering
      <4>2. PICK c : c = db[Order(x, p)].c
        OBVIOUS
      <4>3. Took(t, x, p, {NewOrder(x, p), Order(x, p), Lines(x, p), Customer(x, c)})
        BY <4>1, <4>2 DEF Delivered
      <4>4. c \in Customers
        BY <3>2, <4>2, <4>3 DEF Took, IInv, DbInv, DbTypes, OrderRows
      <4>5. r \in {NewOrder(x, p), Order(x, p), Lines(x, p), Customer(x, c)}
        BY <2>1, <3>1, <4>3 DEF Took
      <4> QED BY <3>2, <4>4, <4>5, RowsAre
    <3>5. CASE x = d
      <4>1. \/ Took(t, d, o, {NewOrder(d, o)})
            \/ Took(t, d, o, {NewOrder(d, o), Order(d, o), Lines(d, o)})
        <5>1. d # DIST_PER_WARE + 1
          BY <3>2, <3>5, TpccAssumption DEF Districts
        <5>2. pc[t] \in {"no_o_id", "o_c_id", "carrier", "balance"}
          BY <1>4, <3>3, <5>1 DEF Delivering
        <5> QED BY <1>4, <3>2, <3>3, <3>5, <5>2 DEF Delivering
      <4>2. o \in Numbers /\ r \in {NewOrder(d, o), Order(d, o), Lines(d, o)}
        BY <2>1, <3>1, <3>5, <4>1 DEF Took
      <4> QED BY <3>2, <3>5, <4>2, RowsAre
    <3>6. d \in Nat /\ x \in Nat /\ ~(x > d)
      BY <1>4, <3>2, <3>3, TpccAssumption DEF Delivering, Districts
    <3> QED BY <3>4, <3>5, <3>6
  <2> QED BY <2>1
<1> QED BY <1>0, <1>1, <1>2, <1>3, <1>4 DEF ThreadInv

LEMMA TypesHold ==
  ASSUME IInv
  PROVE  TypeOK
<1>1. DOMAIN db = Rows /\ events \in 0..MaxEvents
  BY DEF IInv, DbInv, DbTypes, EventInv
<1>2. ASSUME NEW d \in Districts
      PROVE  db[District(d)].next \in (Loaded + 1)..(Loaded + MaxEvents + 1)
  <2>1. /\ NextId(d) \in Nat /\ NextId(d) > Loaded /\ IsFiniteSet(Active)
        /\ NextId(d) + Cardinality(Active) <= Loaded + 1 + events
    BY DEF IInv, DbInv, DbTypes, EventInv, NextId
  <2>2. Cardinality(Active) \in Nat
    BY <2>1, FS_CardinalityType
  <2> QED BY <1>1, <2>1, <2>2, LoadedType DEF NextId
<1>3. ASSUME NEW t \in Threads
      PROVE  /\ DOMAIN writes[t] \subseteq Rows
             /\ view[t] = NoRow \/ view[t] \subseteq Rows
             /\ pc[t] \in {"idle", "failed"} =>
                  tx[t] = NoRow /\ writes[t] = <<>> /\ \A l \in locks : l[1] # t
  <2>1. view[t] = NoRow \/ view[t] \subseteq Rows
    BY DEF IInv, ThreadInv
  <2>2. ASSUME pc[t] \in {"idle", "failed"}
        PROVE  tx[t] = NoRow /\ writes[t] = <<>> /\ \A l \in locks : l[1] # t
    <3>1. ~NewOrdering(t)
      BY <2>2 DEF NewOrdering
    <3>2. ~Paying(t)
      BY <2>2 DEF Paying
    <3>3. ~Delivering(t)
      BY <2>2 DEF Delivering
    <3>4. AtRest(t)
      BY <3>1, <3>2, <3>3 DEF IInv, ThreadInv
    <3> QED BY <2>2, <3>4 DEF AtRest, IInv, LockInv
  <2> QED BY <2>1, <2>2, WritesRows
<1>4. \A l \in locks : l[1] \in Threads /\ l[3] \in {"S", "X", "I"}
  BY DEF IInv, LockInv
<1> QED BY <1>1, <1>2, <1>3, <1>4 DEF TypeOK

LEMMA OrdersHold ==
  ASSUME IInv
  PROVE  OrdersAgree
<1>1. ASSUME NEW d \in Districts, NEW last, last = db[District(d)].next - 1,
             NEW new, new = {o \in Numbers : db[NewOrder(d, o)] # NoRow}
      PROVE  /\ {o \in Numbers : db[Order(d, o)] # NoRow} = 1..last
             /\ new # {} => new = Min(new)..last
  <2>1. /\ NextId(d) \in Nat /\ last = NextId(d) - 1 /\ \A p \in 1..last : p \in Numbers
        /\ \A o \in Numbers : /\ o < NextId(d) => db[Order(d, o)] \in OrderRows
                              /\ o >= NextId(d) => db[Order(d, o)] = NoRow
    BY <1>1, NumberedIs DEF IInv, DbInv, DbTypes, NextId
  <2>2. \A o \in Numbers : o \in Nat /\ o >= 1
    BY LoadedType DEF Numbers
  <2>3. {o \in Numbers : db[Order(d, o)] # NoRow} = 1..last
    BY <2>1, <2>2, NoRowIs
  <2>4. ASSUME new # {} PROVE new = Min(new)..last
    <3>1. PICK first \in 1..NextId(d) :
            \A o \in Numbers : db[NewOrder(d, o)] # NoRow <=> first <= o /\ o < NextId(d)
      BY DEF IInv, DbInv, DbTypes
    <3>2. new = first..last
      BY <1>1, <2>1, <2>2, <3>1
    <3>3. first \in new /\ \A o \in new : first <= o
      BY <2>1, <2>4, <3>1, <3>2
    <3>4. /\ Min(new) \in new /\ \A o \in new : Min(new) <= o
      BY <3>3 DEF Min
    <3>5. Min(new) = first
      BY <2>1, <3>2, <3>3, <3>4
    <3> QED BY <3>2, <3>5
  <2> QED BY <2>3, <2>4
<1> QED BY <1>1 DEF OrdersAgree

-----------------------------------------------------------------------------
\* The tables keep their rows, an order number is never beyond the number of events,
\* and a connection that is between two events has written and locked nothing.
THEOREM TypeCorrect == Spec => []TypeOK
BY Inductive, TypesHold, PTL

\* Checks 1, 8 and 9 of tpcc_check.lua, in every committed state: the warehouse's year to
\* date is the sum of its districts', and each of those the sum of its history.
THEOREM MoneyKept == Spec => []MoneyAgrees
<1>1. IInv => MoneyAgrees
  BY DEF IInv, DbInv
<1> QED BY <1>1, Inductive, PTL

\* Checks 2 and 3: the order numbers of a district have no gap and no end but
\* d_next_o_id, and the new orders are the last of them.
THEOREM OrdersKept == Spec => []OrdersAgree
BY Inductive, OrdersHold, PTL

\* Checks 4, 5 and 7: an order is committed with all its lines, and what a delivery
\* does to it, to its lines and to its new_orders row it does to all three.
THEOREM DeliveriesKept == Spec => []DeliveryAgrees
<1>1. IInv => DeliveryAgrees
  BY DEF IInv, DbInv
<1> QED BY <1>1, Inductive, PTL

\* Checks 10 and 12: no payment to a customer and no delivery is lost by another one
\* that runs at the same time, at either isolation level.
THEOREM BalancesKept == Spec => []BalancesAgree
<1>1. IInv => BalancesAgree
  BY DEF IInv, DbInv
<1> QED BY <1>1, Inductive, PTL

\* At READ-COMMITTED a delivery always finds the order of the new_orders row it took.
THEOREM RowFound == Spec => []NoRowMissing
<1>1. IInv => NoRowMissing
  BY DEF IInv, ThreadInv, NoRowMissing
<1> QED BY <1>1, Inductive, PTL
=============================================================================
