-------------------------- MODULE SimLedgerProofs --------------------------
(***************************************************************************)
(* Theorems about SimLedger for any instrument, prices, bars, decisions,    *)
(* fees, and numbers of sessions, orders and recoveries.  The first part    *)
(* leaves every sum opaque: an account keeps at most one live session, a    *)
(* session that ended has no active order, and the account implements       *)
(* PaperAccount.  The second part adds up: the position is the sum of its   *)
(* lots, what is set aside is the sum of what the active orders hold, and   *)
(* what is free or frozen has matured, from which types, reservations, the  *)
(* cover of closing orders and T+1 follow.                                  *)
(***************************************************************************)
EXTENDS SimLedger, TotalsProofs

(* The rows, with the fields whose type rests on a sum left open. *)
Row == [session : Sessions, effect : {"open", "close"}, quantity : Nat, filled : Nat,
        cash : Int, held : Int, force : {"GFD", "IOC", "FOK"}, limit : Prices \cup {0},
        from : Time,
        status : {"acknowledged", "partially_filled", "filled", "cancelled", "rejected"}]
AccountRow == [cash : Int, frozen : Int, active : BOOLEAN]
SessionRow == [status : Live \cup {"absent", "stopped", "archived"}, clock : Time,
               close : Prices \cup {0}]
IsPosition(p) ==
  p \in [row : BOOLEAN, total : Int, free : {p.free}, frozen : Int, margin : Int,
         value : Int, settled : {p.settled}, lots : {p.lots}]

(* What moves no money. *)
SameMoney(acc, p, bcc, r) ==
  /\ bcc \in AccountRow /\ IsPosition(r)
  /\ bcc.cash + bcc.frozen = acc.cash + acc.frozen
  /\ r.total = p.total /\ r.margin = p.margin /\ r.value = p.value

\* Prices and the cost constants are integers.
LEMMA NumberTypes ==
  /\ Prices \subseteq Nat \ {0} /\ Prices \cup {0} \subseteq Int
  /\ Fee \in Int /\ Slip \in Int /\ Capital \in Int
<1>1. Prices \subseteq Nat \ {0} /\ Fee \in Nat /\ Slip \in Nat /\ Capital \in Nat
  BY SimAssumption
<1> QED BY <1>1

\* A position row keeps its shape and its money when its units are set aside or
\* released.
SamePosition(p, r) ==
  IsPosition(r) /\ r.total = p.total /\ r.margin = p.margin /\ r.value = p.value

LEMMA PositionUnits ==
  ASSUME NEW p, IsPosition(p), NEW f \in Int, NEW a
  PROVE  SamePosition(p, [p EXCEPT !.frozen = f, !.free = a])
BY DEF IsPosition, SamePosition

LEMMA PositionFree ==
  ASSUME NEW p, IsPosition(p), NEW a
  PROVE  SamePosition(p, [p EXCEPT !.free = a])
BY DEF IsPosition, SamePosition

\* _close_order and the release of a reservation move cash to and from frozen cash.
LEMMA CloseKeepsMoney ==
  ASSUME NEW i, NEW o \in Row, NEW status, NEW acc \in AccountRow, NEW p, IsPosition(p),
         Close(i, o, status, acc, p)
  PROVE  SameMoney(acc, p, account', pos') /\ account'.active = acc.active
<1> DEFINE c == FreedCash(o, acc)
           u == FreedUnits(o, p)
<1>1. c \in Int /\ u \in Int
  BY DEF FreedCash, FreedUnits, Least, Row, AccountRow, IsPosition
<1>2. account' = [acc EXCEPT !.cash = acc.cash + c, !.frozen = acc.frozen - c]
  BY DEF Close
<1>3. pos' = IF o.held > 0
             THEN [p EXCEPT !.frozen = p.frozen - u, !.free = Least(p.total, p.free + u)] ELSE p
  BY DEF Close, IsPosition
<1> HIDE DEF c, u
<1>4. acc.cash \in Int /\ acc.frozen \in Int /\ p.frozen \in Int
  BY DEF AccountRow, IsPosition
<1>5. /\ account' \in AccountRow /\ account'.active = acc.active
      /\ account'.cash = acc.cash + c /\ account'.frozen = acc.frozen - c
  <2> DEFINE x == acc.cash + c
             y == acc.frozen - c
  <2>1. x \in Int /\ y \in Int
    BY <1>1, <1>4
  <2>2. account' = [acc EXCEPT !.cash = x, !.frozen = y]
    BY <1>2
  <2> HIDE DEF x, y
  <2>3. account' \in AccountRow /\ account'.active = acc.active
        /\ account'.cash = x /\ account'.frozen = y
    BY <2>1, <2>2 DEF AccountRow
  <2> QED BY <2>3 DEF x, y
<1>6. SamePosition(p, pos')
  <2> DEFINE f == p.frozen - u
             a == Least(p.total, p.free + u)
  <2>1. f \in Int
    BY <1>1, <1>4
  <2>2. pos' = IF o.held > 0 THEN [p EXCEPT !.frozen = f, !.free = a] ELSE p
    BY <1>3
  <2> HIDE DEF f, a
  <2>3. CASE o.held > 0
    BY <2>1, <2>2, <2>3, PositionUnits
  <2>4. CASE ~(o.held > 0)
    BY <2>2, <2>4 DEF SamePosition
  <2> QED BY <2>3, <2>4
<1>7. account'.cash + account'.frozen = acc.cash + acc.frozen
  BY <1>1, <1>4, <1>5
<1> QED BY <1>5, <1>6, <1>7 DEF SameMoney, SamePosition

(* Order i stays or is replaced by a row of its session that is not to be filled *)
(* further unless something is left; the other orders stay.                      *)
Ended == {"filled", "cancelled", "rejected"}
Replaces(i) ==
  /\ orders' \in Seq(Row) /\ DOMAIN orders' = DOMAIN orders
  /\ orders'[i].session = orders[i].session
  /\ \/ orders'[i].status \in Ended
     \/ orders'[i].status = "partially_filled" /\ orders'[i].filled < orders'[i].quantity
     \/ orders'[i] = orders[i]
  /\ \A j \in DOMAIN orders \ {i} : orders'[j] = orders[j]

\* Replacing one row of the orders.
LEMMA OrderExcept ==
  ASSUME orders \in Seq(Row), NEW i \in DOMAIN orders, NEW o \in Row,
         orders' = [orders EXCEPT ![i] = o]
  PROVE  /\ orders' \in Seq(Row) /\ DOMAIN orders' = DOMAIN orders
         /\ orders'[i] = o
         /\ \A j \in DOMAIN orders \ {i} : orders'[j] = orders[j]
OBVIOUS

\* _close_order ends the order it is given and no other.
LEMMA CloseEndsOrder ==
  ASSUME orders \in Seq(Row), NEW i \in DOMAIN orders, NEW o \in Row,
         o.session = orders[i].session, NEW status \in Ended,
         NEW acc \in AccountRow, NEW p, IsPosition(p), Close(i, o, status, acc, p)
  PROVE  Replaces(i)
<1> DEFINE c == FreedCash(o, acc)
           u == FreedUnits(o, p)
           r == [o EXCEPT !.status = status, !.cash = o.cash - c, !.held = o.held - u]
<1>1. c \in Int /\ u \in Int
  BY DEF FreedCash, FreedUnits, Least, Row, AccountRow, IsPosition
<1>2. orders' = [orders EXCEPT ![i] = r]
  BY DEF Close
<1> HIDE DEF c, u
<1>3. r \in Row /\ r.session = o.session /\ r.status = status
  <2> DEFINE x == o.cash - c
             y == o.held - u
  <2>1. x \in Int /\ y \in Int
    BY <1>1 DEF Row
  <2> HIDE DEF x, y
  <2>2. r = [o EXCEPT !.status = status, !.cash = x, !.held = y]
    BY DEF x, y
  <2> HIDE DEF r
  <2> QED BY <2>1, <2>2 DEF Row, Ended
<1> HIDE DEF r
<1> QED BY <1>2, <1>3, OrderExcept DEF Replaces

\* What follows a fill moves no money beyond the fill and keeps the order's session.
LEMMA AfterFillEffect ==
  ASSUME orders \in Seq(Row), NEW i \in DOMAIN orders, NEW o \in Row,
         o.session = orders[i].session, NEW q \in Nat,
         NEW acc \in AccountRow, NEW p, IsPosition(p), AfterFill(i, o, q, acc, p)
  PROVE  SameMoney(acc, p, account', pos') /\ account'.active = acc.active /\ Replaces(i)
<1> DEFINE n == o.filled + q
           f == [o EXCEPT !.filled = n]
<1>1. n \in Nat
  BY DEF Row
<1>2. \/ Close(i, f, "filled", acc, p)
      \/ Close(i, f, "cancelled", acc, p)
      \/ /\ ~(f.filled >= f.quantity)
         /\ orders' = [orders EXCEPT ![i] = [f EXCEPT !.status = "partially_filled"]]
         /\ account' = acc /\ pos' = p
  BY DEF AfterFill
<1> HIDE DEF n
<1>3. f \in Row /\ f.session = o.session
  BY <1>1 DEF Row
<1> HIDE DEF f
<1>4. CASE Close(i, f, "filled", acc, p)
  BY <1>3, <1>4, CloseKeepsMoney, CloseEndsOrder DEF Ended
<1>5. CASE Close(i, f, "cancelled", acc, p)
  BY <1>3, <1>5, CloseKeepsMoney, CloseEndsOrder DEF Ended
<1>6. ASSUME ~(f.filled >= f.quantity), account' = acc, pos' = p,
             orders' = [orders EXCEPT ![i] = [f EXCEPT !.status = "partially_filled"]]
      PROVE  SameMoney(acc, p, account', pos') /\ account'.active = acc.active /\ Replaces(i)
  <2> DEFINE g == [f EXCEPT !.status = "partially_filled"]
  <2>0. f.filled < f.quantity
    BY <1>3, <1>6 DEF Row
  <2>1. g \in Row /\ g.session = f.session /\ g.status = "partially_filled"
        /\ g.filled = f.filled /\ g.quantity = f.quantity
    BY <1>3 DEF Row
  <2>2. orders' = [orders EXCEPT ![i] = g]
    BY <1>6
  <2> HIDE DEF g
  <2>3. Replaces(i)
    BY <1>3, <2>0, <2>1, <2>2, OrderExcept DEF Replaces
  <2> QED BY <1>6, <2>3 DEF SameMoney
<1> QED BY <1>2, <1>4, <1>5, <1>6
-----------------------------------------------------------------------------
(* What a fill makes of the account and the position. *)

\* The account paid for q units at this price and the position has them.
Bought(q, price) ==
  /\ account' \in AccountRow /\ account'.active = account.active /\ IsPosition(pos')
  /\ pos'.total = pos.total + q
  /\ pos'.value = pos.value + (IF Future THEN q * price ELSE 0)
  /\ account'.cash + account'.frozen + pos'.margin
       = account.cash + account.frozen + pos.margin - Fee
           - (IF Future THEN 0 ELSE q * price)

\* The account was paid for q units at this price; v leaves the settlement value.
Sold(q, price) ==
  /\ account' \in AccountRow /\ account'.active = account.active /\ IsPosition(pos')
  /\ pos'.total = pos.total - q
  /\ \E v \in Int :
       /\ pos'.value = pos.value - v
       /\ account'.cash + account'.frozen + pos'.margin
            = account.cash + account.frozen + pos.margin - Fee
                + (IF Future THEN Dir * (q * price - v) ELSE q * price)

LEMMA SliceType ==
  ASSUME NEW r \in Int, NEW q \in Int, NEW n \in Int
  PROVE  Slice(r, q, n) \in Int
<1>1. CASE n > 0
  <2> DEFINE w == r * q
  <2>1. w \in Int
    OBVIOUS
  <2> HIDE DEF w
  <2>2. w \div n \in Int
    BY <1>1, <2>1
  <2> QED BY <2>2 DEF Slice, w
<1>2. CASE ~(n > 0)
  BY <1>2 DEF Slice
<1> QED BY <1>1, <1>2

LEMMA MarginType == ASSUME NEW v \in Int PROVE MarginOf(v) \in Int
BY SimAssumption DEF MarginOf

\* _increase_position and the margin of a new contract.
LEMMA IncreaseEffect ==
  ASSUME NEW p, IsPosition(p), NEW q \in Nat, NEW price \in Int, NEW day
  PROVE  LET r == Increase(p, q, price, day)
         IN /\ IsPosition(r) /\ r.total = p.total + q
            /\ r.margin = p.margin + (IF Future THEN MarginOf(q * price) ELSE 0)
            /\ r.value = p.value + (IF Future THEN q * price ELSE 0)
<1> DEFINE m == p.margin + (IF Future THEN MarginOf(q * price) ELSE 0)
           v == p.value + (IF Future THEN q * price ELSE 0)
           n == p.total + q
           l == IF Future THEN p.lots ELSE Append(p.lots, [quantity |-> q, from |-> day + 1])
           b == [p EXCEPT !.row = TRUE, !.total = n, !.margin = m, !.value = v, !.lots = l]
           a == NotNeg(Matured(b, day) - b.frozen)
<1>1. q * price \in Int
  OBVIOUS
<1>2. m \in Int /\ v \in Int /\ n \in Int
  <2> DEFINE w == q * price
  <2> HIDE DEF w
  <2>1. w \in Int /\ MarginOf(w) \in Int
    BY <1>1, MarginType DEF w
  <2> QED BY <2>1 DEF IsPosition, w
<1>3. Increase(p, q, price, day) = [b EXCEPT !.free = a]
  BY DEF Increase, IsPosition
<1> SUFFICES /\ IsPosition([b EXCEPT !.free = a]) /\ [b EXCEPT !.free = a].total = n
             /\ [b EXCEPT !.free = a].margin = m /\ [b EXCEPT !.free = a].value = v
  BY <1>3
<1> HIDE DEF m, v, n, l, a
<1>4. IsPosition(b) /\ b.total = n /\ b.margin = m /\ b.value = v
  BY <1>2 DEF IsPosition
<1> HIDE DEF b
<1> QED BY <1>4, PositionFree DEF SamePosition

\* _decrease_position.
LEMMA DecreaseEffect ==
  ASSUME NEW p, IsPosition(p), NEW q \in Nat, q <= p.total, NEW day
  PROVE  LET r == Decrease(p, q, day)
         IN IsPosition(r) /\ r.total = p.total - q /\ r.margin = p.margin /\ r.value = p.value
<1> DEFINE n == p.total - q
           l == Consume(p.lots, q)
           b == [p EXCEPT !.total = n, !.lots = l]
           a == NotNeg(Matured(b, day) - b.frozen)
<1>1. n \in Int /\ n >= 0
  BY DEF IsPosition
<1>2. Decrease(p, q, day) = IF b.total <= 0
        THEN [b EXCEPT !.total = 0, !.free = 0, !.frozen = 0, !.lots = <<>>]
        ELSE [b EXCEPT !.free = a]
  BY DEF Decrease
<1> HIDE DEF n, l, a
<1>3. IsPosition(b) /\ b.total = n /\ b.margin = p.margin /\ b.value = p.value
  BY <1>1 DEF IsPosition
<1> HIDE DEF b
<1>4. CASE n = 0
  <2> DEFINE e == <<>>
             o == 0
             z == [b EXCEPT !.total = o, !.free = o, !.frozen = o, !.lots = e]
  <2>2. Decrease(p, q, day) = z
    BY <1>2, <1>3, <1>4
  <2>3. o \in Int
    OBVIOUS
  <2> HIDE DEF e, o
  <2>1. IsPosition(z) /\ z.total = o /\ z.margin = b.margin /\ z.value = b.value
    BY <1>3, <2>3 DEF IsPosition
  <2> HIDE DEF z
  <2> QED BY <1>3, <1>4, <2>1, <2>2 DEF n, o
<1>5. CASE n # 0
  <2>1. Decrease(p, q, day) = [b EXCEPT !.free = a]
    BY <1>1, <1>2, <1>3, <1>5
  <2> QED BY <1>3, <2>1, PositionFree DEF SamePosition, n
<1> QED BY <1>4, <1>5

\* _apply_fill of an opening order either rejects it and moves no money or buys.
LEMMA FillOpenEffect ==
  ASSUME orders \in Seq(Row), NEW i \in DOMAIN orders, NEW q \in Nat,
         account \in AccountRow, IsPosition(pos), FillPrice(orders[i]) \in Int,
         FillOpen(i, orders[i], q)
  PROVE  /\ Replaces(i)
         /\ \/ SameMoney(account, pos, account', pos') /\ account'.active = account.active
            \/ Bought(q, FillPrice(orders[i]))
<1> DEFINE o == orders[i]
           price == FillPrice(o)
           share == Slice(o.cash, q, Rest(i))
           cost == IF Future THEN MarginOf(q * price) ELSE q * price
           rest == [o EXCEPT !.cash = o.cash - share]
           a == account.cash + share - (cost + Fee)
           b == account.frozen - share
           acc == [account EXCEPT !.cash = a, !.frozen = b]
           p == Increase(pos, q, price, DayOf[txn.at])
<1>1. o \in Row
  OBVIOUS
<1>2. share \in Int /\ o.cash \in Int
  <2>1. o.cash \in Int /\ Rest(i) \in Int
    BY <1>1 DEF Row, Rest
  <2>2. q \in Int
    OBVIOUS
  <2>3. Slice(o.cash, q, Rest(i)) \in Int
    BY <2>1, <2>2, SliceType, Zenon
  <2> QED BY <2>1, <2>3
<1>3. \/ Close(i, o, "rejected", account, [pos EXCEPT !.row = TRUE])
      \/ AfterFill(i, rest, q, acc, p)
  BY DEF FillOpen
<1>4. q * price \in Int
  OBVIOUS
<1>5. /\ IsPosition(p) /\ p.total = pos.total + q
      /\ p.margin = pos.margin + (IF Future THEN MarginOf(q * price) ELSE 0)
      /\ p.value = pos.value + (IF Future THEN q * price ELSE 0)
  BY IncreaseEffect
<1> HIDE DEF share, p, price, o
<1>6. CASE Close(i, o, "rejected", account, [pos EXCEPT !.row = TRUE])
  <2> DEFINE r == [pos EXCEPT !.row = TRUE]
  <2>1. IsPosition(r) /\ SamePosition(pos, r)
    BY DEF IsPosition, SamePosition
  <2>2. Close(i, o, "rejected", account, r)
    BY <1>6
  <2> HIDE DEF r
  <2>3. SameMoney(account, r, account', pos') /\ account'.active = account.active
    BY <1>1, <2>1, <2>2, CloseKeepsMoney
  <2>4. Replaces(i)
    BY <1>1, <2>1, <2>2, CloseEndsOrder DEF Ended, o
  <2> QED BY <2>1, <2>3, <2>4 DEF SameMoney, SamePosition
<1>7. CASE AfterFill(i, rest, q, acc, p)
  <2>1. rest \in Row /\ rest.session = o.session
    <3> DEFINE x == o.cash - share
    <3>1. x \in Int
      BY <1>2
    <3> HIDE DEF x
    <3>2. [o EXCEPT !.cash = x] \in Row /\ [o EXCEPT !.cash = x].session = o.session
      BY <1>1, <3>1 DEF Row
    <3> QED BY <3>2 DEF x
  <2>2. cost \in Int /\ Fee \in Int
    BY <1>4, MarginType, SimAssumption
  <2>3. a \in Int /\ b \in Int /\ account.cash \in Int /\ account.frozen \in Int
        /\ a + b = account.cash + account.frozen - cost - Fee
    <3> HIDE DEF cost
    <3> QED BY <1>2, <2>2 DEF AccountRow
  <2>4. acc \in AccountRow /\ acc.cash = a /\ acc.frozen = b /\ acc.active = account.active
    <3> HIDE DEF a, b
    <3> QED BY <2>3 DEF AccountRow
  <2> HIDE DEF a, b, acc, rest
  <2>5. SameMoney(acc, p, account', pos') /\ account'.active = acc.active /\ Replaces(i)
    BY <1>5, <1>7, <2>1, <2>4, AfterFillEffect DEF o
  <2>6. account'.cash + account'.frozen = account.cash + account.frozen - cost - Fee
    <3> HIDE DEF cost
    <3> QED BY <2>3, <2>4, <2>5 DEF SameMoney
  <2>7. pos.margin \in Int /\ account'.cash \in Int /\ account'.frozen \in Int
    BY <2>5 DEF IsPosition, SameMoney, AccountRow
  <2>8. account'.cash + account'.frozen + pos'.margin
          = account.cash + account.frozen + pos.margin - Fee - (IF Future THEN 0 ELSE q * price)
    <3> DEFINE w == q * price
               m == MarginOf(w)
    <3>1. pos'.margin = pos.margin + (IF Future THEN m ELSE 0)
      BY <1>5, <2>5 DEF SameMoney
    <3>2. cost = IF Future THEN m ELSE w
      OBVIOUS
    <3>3. w \in Int /\ m \in Int
      BY <1>4, MarginType
    <3> HIDE DEF w, m, cost
    <3>4. CASE Future
      <4>1. pos'.margin = pos.margin + m /\ cost = m
        BY <3>1, <3>2, <3>4
      <4>3. account'.cash + account'.frozen = account.cash + account.frozen - m - Fee
        BY <2>6, <4>1
      <4>4. account.cash \in Int /\ account.frozen \in Int
        BY <2>3
      <4>2. account'.cash + account'.frozen + pos'.margin
              = account.cash + account.frozen + pos.margin - Fee
        BY <2>2, <2>7, <3>3, <4>1, <4>3, <4>4, SMTT(20)
      <4> QED BY <2>2, <2>3, <2>7, <3>4, <4>2
    <3>5. CASE ~Future
      <4>1. pos'.margin = pos.margin /\ cost = w
        BY <2>7, <3>1, <3>2, <3>5
      <4>3. account'.cash + account'.frozen = account.cash + account.frozen - w - Fee
        BY <2>6, <4>1
      <4>4. account.cash \in Int /\ account.frozen \in Int
        BY <2>3
      <4>2. account'.cash + account'.frozen + pos'.margin
              = account.cash + account.frozen + pos.margin - Fee - w
        BY <2>2, <2>7, <3>3, <4>1, <4>3, <4>4, SMTT(20)
      <4> QED BY <3>5, <4>2 DEF w
    <3> QED BY <3>4, <3>5
  <2> QED BY <1>5, <2>4, <2>5, <2>8 DEF Bought, SameMoney, price, o
<1> QED BY <1>3, <1>6, <1>7

\* _apply_fill of a closing order sells, unless the position was too small.
LEMMA FillCloseEffect ==
  ASSUME orders \in Seq(Row), NEW i \in DOMAIN orders, NEW q \in Nat,
         account \in AccountRow, IsPosition(pos), FillPrice(orders[i]) \in Int,
         FillClose(i, orders[i], q)
  PROVE  /\ Replaces(i)
         /\ account' \in AccountRow /\ account'.active = account.active /\ IsPosition(pos')
         /\ q <= pos.total => Sold(q, FillPrice(orders[i]))
<1> DEFINE o == orders[i]
           price == FillPrice(o)
           units == Least(o.held, q)
           margin == IF Future THEN Slice(pos.margin, q, pos.total) ELSE 0
           value == IF Future THEN Slice(pos.value, q, pos.total) ELSE 0
           worth == q * price
           proceeds == IF Future THEN margin + Dir * (worth - value) ELSE worth
           a == account.cash + proceeds - Fee
           paid == [account EXCEPT !.cash = a]
           left == [pos EXCEPT !.frozen = NotNeg(pos.frozen - units),
                               !.margin = pos.margin - margin, !.value = pos.value - value]
           rest == [o EXCEPT !.held = o.held - units]
           day == DayOf[txn.at]
<1>1. o \in Row
  OBVIOUS
<1>2. /\ units \in Int /\ margin \in Int /\ value \in Int /\ worth \in Int /\ o.held \in Int
      /\ pos.total \in Int /\ pos.frozen \in Int /\ pos.margin \in Int /\ pos.value \in Int
  <2>1. pos.total \in Int /\ pos.frozen \in Int /\ pos.margin \in Int /\ pos.value \in Int
    BY DEF IsPosition
  <2>0. q \in Int
    OBVIOUS
  <2>5. Slice(pos.margin, q, pos.total) \in Int /\ Slice(pos.value, q, pos.total) \in Int
    BY <2>0, <2>1, SliceType, Zenon
  <2>2. margin \in Int /\ value \in Int
    BY <2>5
  <2>3. o.held \in Int
    BY <1>1 DEF Row
  <2>4. units \in Int
    BY <2>3 DEF Least
  <2> QED BY <2>1, <2>2, <2>3, <2>4
<1>3. IF q > pos.total THEN Close(i, rest, "rejected", paid, left)
      ELSE AfterFill(i, rest, q, paid, Decrease(left, q, day))
  BY DEF FillClose
<1> HIDE DEF units, margin, value, worth
<1>4. proceeds \in Int
  BY <1>2 DEF Dir
<1>5. paid \in AccountRow /\ paid.cash = a /\ paid.frozen = account.frozen
      /\ paid.active = account.active /\ a \in Int
  <2> HIDE DEF proceeds
  <2>1. a \in Int
    BY <1>4, SimAssumption DEF AccountRow
  <2> HIDE DEF a
  <2> QED BY <2>1 DEF AccountRow
<1>6. rest \in Row /\ rest.session = o.session
  <2> DEFINE x == o.held - units
  <2>1. x \in Int
    BY <1>2
  <2> HIDE DEF x
  <2>2. [o EXCEPT !.held = x] \in Row /\ [o EXCEPT !.held = x].session = o.session
    BY <1>1, <2>1 DEF Row
  <2> QED BY <2>2 DEF x
<1>7. IsPosition(left) /\ left.total = pos.total
      /\ left.margin = pos.margin - margin /\ left.value = pos.value - value
  <2> DEFINE x == NotNeg(pos.frozen - units)
             y == pos.margin - margin
             z == pos.value - value
  <2>1. x \in Int /\ y \in Int /\ z \in Int
    BY <1>2 DEF NotNeg
  <2>2. left = [pos EXCEPT !.frozen = x, !.margin = y, !.value = z]
    OBVIOUS
  <2> HIDE DEF x, y, z, left
  <2>3. IsPosition(left) /\ left.total = pos.total /\ left.margin = y /\ left.value = z
    BY <2>1, <2>2 DEF IsPosition
  <2> QED BY <2>3 DEF y, z
<1> HIDE DEF a, paid, rest, left, day, proceeds
<1>8. CASE q > pos.total
  <2>1. Close(i, rest, "rejected", paid, left)
    BY <1>3, <1>8
  <2>2. SameMoney(paid, left, account', pos') /\ account'.active = paid.active
    BY <1>5, <1>6, <1>7, <2>1, CloseKeepsMoney
  <2>3. Replaces(i)
    BY <1>5, <1>6, <1>7, <2>1, CloseEndsOrder DEF Ended
  <2>4. ~(q <= pos.total)
    BY <1>2, <1>8
  <2> QED BY <1>5, <2>2, <2>3, <2>4 DEF SameMoney
<1>9. CASE ~(q > pos.total)
  <2> DEFINE p == Decrease(left, q, day)
  <2>1. q <= left.total
    BY <1>2, <1>7, <1>9
  <2>2. IsPosition(p) /\ p.total = left.total - q /\ p.margin = left.margin
        /\ p.value = left.value
    BY <1>7, <2>1, DecreaseEffect
  <2>3. AfterFill(i, rest, q, paid, p)
    BY <1>3, <1>9
  <2> HIDE DEF p
  <2>4. SameMoney(paid, p, account', pos') /\ account'.active = paid.active /\ Replaces(i)
    BY <1>5, <1>6, <2>2, <2>3, AfterFillEffect
  <2>5. account'.cash + account'.frozen = account.cash + proceeds - Fee + account.frozen
    BY <1>5, <2>4 DEF SameMoney, a
  <2>6. pos'.total = pos.total - q /\ pos'.margin = pos.margin - margin
        /\ pos'.value = pos.value - value
    BY <1>7, <2>2, <2>4 DEF SameMoney
  <2>7. account'.cash + account'.frozen + pos'.margin
          = account.cash + account.frozen + pos.margin - Fee
              + (IF Future THEN Dir * (worth - value) ELSE worth)
    <3> DEFINE d == Dir * (worth - value)
    <3>1. d \in Int
      BY <1>2 DEF Dir
    <3>2. proceeds = IF Future THEN margin + d ELSE worth
      BY DEF proceeds
    <3>3. ~Future => margin = 0
      BY DEF margin
    <3>4. account.cash \in Int /\ account.frozen \in Int /\ Fee \in Int
      BY SimAssumption DEF AccountRow
    <3>5. account'.cash \in Int /\ account'.frozen \in Int
      BY <2>4 DEF SameMoney, AccountRow
    <3> HIDE DEF d
    <3>6. CASE Future
      <4>1. proceeds = margin + d
        BY <3>2, <3>6
      <4>2. account'.cash + account'.frozen + pos'.margin
              = account.cash + account.frozen + pos.margin - Fee + d
        <5>1. account'.cash + account'.frozen
                = account.cash + (margin + d) - Fee + account.frozen
          BY <2>5, <4>1
        <5>2. pos'.margin = pos.margin - margin
          BY <2>6
        <5>3. margin \in Int /\ pos.margin \in Int
          BY <1>2
        <5> QED BY <3>1, <3>4, <3>5, <5>1, <5>2, <5>3, SMTT(20)
      <4> QED BY <3>6, <4>2 DEF d
    <3>7. CASE ~Future
      <4>1. proceeds = worth /\ margin = 0
        BY <3>2, <3>3, <3>7
      <4>2. account'.cash + account'.frozen + pos'.margin
              = account.cash + account.frozen + pos.margin - Fee + worth
        <5>1. account'.cash + account'.frozen
                = account.cash + worth - Fee + account.frozen
          BY <2>5, <4>1
        <5>2. pos'.margin = pos.margin
          BY <1>2, <2>6, <4>1
        <5>3. worth \in Int /\ pos.margin \in Int
          BY <1>2
        <5> QED BY <3>4, <3>5, <5>1, <5>2, <5>3, SMTT(20)
      <4> QED BY <3>7, <4>2
    <3> QED BY <3>6, <3>7
  <2> QED BY <1>2, <1>5, <2>4, <2>6, <2>7 DEF Sold, SameMoney, worth, price
<1> QED BY <1>8, <1>9
-----------------------------------------------------------------------------
(* The inductive invariant. *)

SeenRow == [early : BOOLEAN, rewound : BOOLEAN, raced : BOOLEAN, short : BOOLEAN]

\* The rows are well formed and an active order has something left.
RowsInv ==
  /\ kind \in Kinds /\ account \in AccountRow /\ IsPosition(pos)
  /\ orders \in Seq(Row)
  /\ \A i \in DOMAIN orders : Working(i) => orders[i].filled < orders[i].quantity
  /\ session \in [Sessions -> SessionRow]
  /\ listed \subseteq Sessions
  /\ seen \in SeenRow

\* A bar belongs to a running session, a stop to a stopped one, and the orders
\* they still have to do are active.
BarTxn(t, orderIds)  ==
  t \in [op : {"bar"}, session : Sessions, at : Time, bar : Bars, todo : SUBSET orderIds]
StopTxn(t, orderIds) == t \in [op : {"stop"}, session : Sessions, todo : SUBSET orderIds]
TxnInv ==
  \/ txn = NoTxn
  \/ /\ \/ /\ BarTxn(txn, DOMAIN orders)
           /\ session[txn.session].status = "running"
        \/ /\ StopTxn(txn, DOMAIN orders)
           /\ session[txn.session].status = "stopped"
     /\ \A i \in txn.todo : Working(i)

\* An active order belongs to a live session or is about to be cancelled by a stop.
QuietInv ==
  \A i \in DOMAIN orders : Working(i) =>
    \/ session[orders[i].session].status \in Live
    \/ txn.op = "stop" /\ i \in txn.todo

LedgerInv == RowsInv /\ TxnInv /\ QuietInv /\ OneLiveSession

\* A step that replaces one active order, outside or inside a transaction that
\* then has one order less to do, keeps the invariant.
LEMMA ReplaceKeeps ==
  ASSUME LedgerInv, NEW i \in DOMAIN orders, Working(i), Replaces(i),
         account' \in AccountRow, IsPosition(pos)',
         kind' = kind, session' = session, listed' = listed,
         seen' \in SeenRow, seen'.raced = seen.raced,
         \/ txn = NoTxn /\ txn' = NoTxn
         \/ /\ txn # NoTxn /\ txn' = [txn EXCEPT !.todo = @ \ {i}]
            /\ txn.op = "stop" => orders'[i].status \in Ended
  PROVE  LedgerInv'
<1>1. DOMAIN orders' = DOMAIN orders
  BY DEF Replaces
<1>2. \A j \in DOMAIN orders : Working(j)' =>
         /\ Working(j) /\ orders'[j].session = orders[j].session
         /\ orders'[j].filled < orders'[j].quantity
         /\ j # i \/ orders'[i].status \notin Ended
  BY DEF LedgerInv, RowsInv, Replaces, Working, Ended
<1>3. \A j \in DOMAIN orders : j # i /\ Working(j) => Working(j)'
  BY DEF Replaces, Working
<1>4. RowsInv'
  BY <1>1, <1>2 DEF LedgerInv, RowsInv, Replaces
<1>5. CASE txn = NoTxn /\ txn' = NoTxn
  <2>1. TxnInv'
    BY <1>5 DEF TxnInv
  <2>2. QuietInv'
    BY <1>1, <1>2, <1>5 DEF LedgerInv, QuietInv, NoTxn
  <2> QED BY <1>4, <2>1, <2>2 DEF LedgerInv, OneLiveSession
<1>6. CASE /\ txn # NoTxn /\ txn' = [txn EXCEPT !.todo = @ \ {i}]
           /\ txn.op = "stop" => orders'[i].status \in Ended
  <2>1. /\ txn'.op = txn.op /\ txn'.session = txn.session /\ txn'.todo = txn.todo \ {i}
        /\ BarTxn(txn, DOMAIN orders) => BarTxn(txn', DOMAIN orders)
        /\ StopTxn(txn, DOMAIN orders) => StopTxn(txn', DOMAIN orders)
    <3>1. CASE BarTxn(txn, DOMAIN orders)
      BY <1>6, <3>1 DEF BarTxn, StopTxn
    <3>2. CASE StopTxn(txn, DOMAIN orders)
      BY <1>6, <3>2 DEF BarTxn, StopTxn
    <3> QED BY <1>6, <3>1, <3>2 DEF LedgerInv, TxnInv
  <2>2. \A j \in txn'.todo : Working(j)'
    <3>1. txn.todo \subseteq DOMAIN orders /\ \A j \in txn.todo : Working(j)
      BY <1>6 DEF LedgerInv, TxnInv, BarTxn, StopTxn
    <3> QED BY <1>3, <2>1, <3>1
  <2>3. TxnInv'
    BY <1>1, <1>6, <2>1, <2>2 DEF LedgerInv, TxnInv
  <2>4. QuietInv'
    BY <1>1, <1>2, <1>6, <2>1 DEF LedgerInv, QuietInv
  <2> QED BY <1>4, <2>3, <2>4 DEF LedgerInv, OneLiveSession
<1> QED BY <1>5, <1>6
-----------------------------------------------------------------------------
(* One lemma per group of actions: the invariant is kept and money only trades. *)

Kept  == UNCHANGED <<kind, Balance, pos.total>>
Moves == Paper!Trade \/ seen.short' \/ Kept

\* Changing the status of one session.
LEMMA StatusExcept ==
  ASSUME session \in [Sessions -> SessionRow], NEW s \in Sessions,
         NEW x \in Live \cup {"absent", "stopped", "archived"},
         session' = [session EXCEPT ![s].status = x]
  PROVE  /\ session' \in [Sessions -> SessionRow]
         /\ session'[s].status = x
         /\ \A r \in Sessions \ {s} : session'[r] = session[r]
BY DEF SessionRow

\* Steps that touch neither money nor orders.
LEMMA NoMoney ==
  ASSUME UNCHANGED <<kind, account, pos>>
  PROVE  Kept
BY DEF Kept, Balance, Dir

\* create_session, transition_session and the first half of a stop.
LEMMA SessionSteps ==
  ASSUME LedgerInv, NEW s \in Sessions,
         CreateSession(s) \/ Run(s) \/ Pause(s) \/ Stop(s) \/ Archive(s)
  PROVE  LedgerInv' /\ Moves
<1>1. Idle /\ txn = NoTxn
  BY DEF CreateSession, Run, Pause, Stop, Archive, Transition, Idle
<1>2. UNCHANGED <<kind, pos, orders, listed, seen>>
  BY DEF CreateSession, Run, Pause, Stop, Archive, Transition
<1>3. account' \in AccountRow /\ Kept
  <2>1. CASE account' = account
    BY <1>2, <2>1, NoMoney DEF LedgerInv, RowsInv
  <2>2. CASE account' = [account EXCEPT !.active = FALSE]
    <3>1. /\ account' \in AccountRow /\ account'.cash = account.cash
          /\ account'.frozen = account.frozen
      BY <2>2 DEF LedgerInv, RowsInv, AccountRow
    <3> QED BY <1>2, <3>1 DEF Kept, Balance, Dir
  <2> QED BY <2>1, <2>2 DEF CreateSession, Run, Pause, Stop, Archive, Transition
<1>4. PICK x \in Live \cup {"stopped", "archived"} :
        /\ session' = [session EXCEPT ![s].status = x]
        /\ x \in Live \/ txn'.op = "stop" \/ session[s].status \notin Live
        /\ session[s].status \in Live \/ x \notin Live
             \/ \A r \in Sessions : session[r].status \notin Live
        /\ \/ txn' = txn
           \/ x = "stopped" /\ txn' = [op |-> "stop", session |-> s, todo |-> ActiveOf(s)]
  BY DEF CreateSession, Run, Pause, Stop, Archive, Transition, Live
<1>5. /\ session' \in [Sessions -> SessionRow] /\ session'[s].status = x
      /\ \A r \in Sessions \ {s} : session'[r] = session[r]
  BY <1>4, StatusExcept DEF LedgerInv, RowsInv
<1>6. \A i : Working(i)' <=> Working(i)
  BY <1>2 DEF Working
<1>7. RowsInv'
  BY <1>2, <1>3, <1>5, <1>6 DEF LedgerInv, RowsInv, IsPosition
<1>8. OneLiveSession'
  BY <1>2, <1>4, <1>5 DEF LedgerInv, OneLiveSession
<1>9. \A i \in DOMAIN orders : orders[i].session \in Sessions
  <2>1. \A i \in DOMAIN orders : orders[i] \in Row
    BY DEF LedgerInv, RowsInv
  <2> QED BY <2>1 DEF Row
<1>10. TxnInv' /\ QuietInv'
  <2>1. CASE txn' = txn
    <3>1. TxnInv'
      BY <1>1, <2>1 DEF TxnInv
    <3>2. x \in Live \/ session[s].status \notin Live
      BY <1>1, <1>4, <2>1 DEF NoTxn
    <3>3. QuietInv'
      BY <1>1, <1>2, <1>5, <1>6, <1>9, <2>1, <3>2 DEF LedgerInv, QuietInv, NoTxn
    <3> QED BY <3>1, <3>3
  <2>2. CASE x = "stopped" /\ txn' = [op |-> "stop", session |-> s, todo |-> ActiveOf(s)]
    <3>1. txn'.op = "stop" /\ txn'.session = s /\ txn'.todo = ActiveOf(s)
          /\ ActiveOf(s) \subseteq DOMAIN orders
      BY <2>2 DEF ActiveOf
    <3>2. StopTxn(txn', DOMAIN orders)
      BY <2>2, <3>1 DEF StopTxn
    <3>3. TxnInv'
      BY <1>2, <1>5, <1>6, <2>2, <3>1, <3>2 DEF TxnInv, ActiveOf
    <3>4. QuietInv'
      BY <1>1, <1>2, <1>5, <1>6, <1>9, <3>1 DEF LedgerInv, QuietInv, NoTxn, ActiveOf
    <3> QED BY <3>3, <3>4
  <2> QED BY <1>4, <2>1, <2>2
<1> QED BY <1>3, <1>7, <1>8, <1>10 DEF LedgerInv, Moves

\* submit_decision sets cash or units aside for a new order of a running session.
LEMMA DecideStep ==
  ASSUME LedgerInv, NEW s \in Sessions, NEW ask \in Asks, Decide(s, ask)
  PROVE  LedgerInv' /\ Moves
<1>1. /\ txn = NoTxn /\ session[s].status = "running" /\ session[s].close \in Int
      /\ session[s].clock \in Time /\ UNCHANGED <<kind, session, txn, listed, seen>>
  <2>1. session[s] \in SessionRow
    BY DEF LedgerInv, RowsInv
  <2>2. session[s].close \in Prices \cup {0} /\ session[s].clock \in Time
    BY <2>1 DEF SessionRow
  <2>3. session[s].close \in Int
    BY <2>2, NumberTypes
  <2> QED BY <2>2, <2>3 DEF Decide, Idle
<1>2. ask.target \in Nat /\ ask.force \in {"GFD", "IOC", "FOK"} /\ ask.limit \in Prices \cup {0}
      /\ ask.limit \in Int
  <2>1. ask \in [target : Nat, force : {"GFD", "IOC", "FOK"}, limit : Prices \cup {0}]
    BY SimAssumption
  <2>2. ask.limit \in Prices \cup {0}
    BY <2>1
  <2>3. ask.limit \in Int
    BY <2>2, NumberTypes
  <2> QED BY <2>1, <2>2, <2>3
<1>3. PICK q \in 1..MaxUnits, o \in Row :
        /\ o.session = s /\ o.status = "acknowledged" /\ o.filled < o.quantity
        /\ orders' = Append(orders, o)
        /\ account' \in AccountRow /\ IsPosition(pos') /\ SameMoney(account, pos, account', pos')
  <2>1. ASSUME NEW q \in 1..MaxUnits, NEW effect \in {"open", "close"}
        PROVE  LET n == NewOrder(s, effect, q, ask)
               IN /\ n \in Row /\ n.session = s /\ n.status = "acknowledged"
                  /\ n.filled = 0 /\ n.quantity = q
    <3>1. q \in Nat
      OBVIOUS
    <3> QED BY <1>1, <1>2, <3>1 DEF NewOrder, Row
  <2>2. CASE DecideOpen(s, ask)
    <3> DEFINE price == IF ask.limit = 0 THEN session[s].close ELSE ask.limit
    <3>1. PICK q \in 1..MaxUnits :
            /\ account' = [account EXCEPT !.cash = @ - Required(q, price),
                                          !.frozen = @ + Required(q, price)]
            /\ orders' = Append(orders, [NewOrder(s, "open", q, ask) EXCEPT
                                           !.cash = Required(q, price)])
            /\ UNCHANGED pos
      BY <2>2 DEF DecideOpen
    <3> DEFINE c == Required(q, price)
               n == NewOrder(s, "open", q, ask)
    <3>2. price \in Int /\ q \in Int /\ q > 0
      BY <1>1, <1>2, SimAssumption
    <3>3. c \in Int
      <4>1. q * price \in Int /\ q * (price + Buffer) \in Int /\ Fee \in Int
        BY <3>2, SimAssumption
      <4>2. MarginOf(q * price) \in Int
        BY <4>1, MarginType
      <4> QED BY <4>1, <4>2 DEF Required
    <3>4. /\ n \in Row /\ n.session = s /\ n.status = "acknowledged"
          /\ n.filled = 0 /\ n.quantity = q
      BY <2>1
    <3>5. account' = [account EXCEPT !.cash = account.cash - c, !.frozen = account.frozen + c]
          /\ orders' = Append(orders, [n EXCEPT !.cash = c])
      BY <3>1
    <3> HIDE DEF c, n, price
    <3>6. account' \in AccountRow /\ account'.cash + account'.frozen = account.cash + account.frozen
      <4> DEFINE x == account.cash - c
                 y == account.frozen + c
      <4>1. account \in AccountRow
        BY DEF LedgerInv, RowsInv
      <4>2. x \in Int /\ y \in Int /\ x + y = account.cash + account.frozen
        BY <3>3, <4>1 DEF AccountRow
      <4>3. account' = [account EXCEPT !.cash = x, !.frozen = y]
        BY <3>5
      <4> HIDE DEF x, y
      <4>4. account' \in AccountRow /\ account'.cash = x /\ account'.frozen = y
        BY <4>1, <4>2, <4>3 DEF AccountRow
      <4> QED BY <4>2, <4>4
    <3>7. /\ [n EXCEPT !.cash = c] \in Row /\ [n EXCEPT !.cash = c].session = s
          /\ [n EXCEPT !.cash = c].status = "acknowledged"
          /\ [n EXCEPT !.cash = c].filled < [n EXCEPT !.cash = c].quantity
      BY <3>2, <3>3, <3>4 DEF Row
    <3>8. SameMoney(account, pos, account', pos') /\ IsPosition(pos')
      BY <3>1, <3>6 DEF SameMoney, LedgerInv, RowsInv
    <3> QED BY <3>5, <3>6, <3>7, <3>8
  <2>3. CASE DecideClose(s, ask)
    <3>1. PICK q \in 1..MaxUnits :
            /\ pos' = [pos EXCEPT !.free = @ - q, !.frozen = @ + q]
            /\ orders' = Append(orders, [NewOrder(s, "close", q, ask) EXCEPT !.held = q])
            /\ UNCHANGED account
      BY <2>3 DEF DecideClose
    <3> DEFINE n == NewOrder(s, "close", q, ask)
               f == pos.frozen + q
               a == pos.free - q
    <3>2. q \in Int /\ q > 0
      OBVIOUS
    <3>4. /\ n \in Row /\ n.session = s /\ n.status = "acknowledged"
          /\ n.filled = 0 /\ n.quantity = q
      BY <2>1
    <3>5. IsPosition(pos) /\ f \in Int
      BY <3>2 DEF LedgerInv, RowsInv, IsPosition
    <3>6. pos' = [pos EXCEPT !.frozen = f, !.free = a]
      BY <3>1, <3>5 DEF IsPosition
    <3>9. orders' = Append(orders, [n EXCEPT !.held = q])
      BY <3>1
    <3> HIDE DEF n, f, a
    <3>7. /\ [n EXCEPT !.held = q] \in Row /\ [n EXCEPT !.held = q].session = s
          /\ [n EXCEPT !.held = q].status = "acknowledged"
          /\ [n EXCEPT !.held = q].filled < [n EXCEPT !.held = q].quantity
      BY <3>2, <3>4 DEF Row
    <3>10. SamePosition(pos, pos')
      BY <3>5, <3>6, PositionUnits
    <3>8. SameMoney(account, pos, account', pos') /\ IsPosition(pos') /\ account' \in AccountRow
      BY <3>1, <3>10 DEF SameMoney, SamePosition, LedgerInv, RowsInv
    <3> QED BY <3>7, <3>8, <3>9
  <2> QED BY <2>2, <2>3 DEF Decide
<1>4. /\ orders' \in Seq(Row) /\ DOMAIN orders' = DOMAIN orders \cup {Len(orders) + 1}
      /\ orders'[Len(orders) + 1] = o
      /\ \A i \in DOMAIN orders : orders'[i] = orders[i]
  BY <1>3 DEF LedgerInv, RowsInv
<1>5. RowsInv'
  BY <1>1, <1>3, <1>4 DEF LedgerInv, RowsInv, Working
<1>6. TxnInv' /\ OneLiveSession'
  BY <1>1 DEF LedgerInv, TxnInv, OneLiveSession
<1>7. QuietInv'
  BY <1>1, <1>3, <1>4 DEF LedgerInv, QuietInv, Working, Live, NoTxn
<1>8. Kept
  BY <1>1, <1>3 DEF Kept, Balance, Dir, SameMoney
<1> QED BY <1>5, <1>6, <1>7, <1>8 DEF LedgerInv, Moves

\* cancel_order.
LEMMA CancelStep ==
  ASSUME LedgerInv, NEW i \in DOMAIN orders, CancelOrder(i)
  PROVE  LedgerInv' /\ Moves
<1>1. /\ txn = NoTxn /\ Working(i) /\ UNCHANGED <<kind, session, txn, listed, seen>>
      /\ Close(i, orders[i], "cancelled", account, pos)
  BY DEF CancelOrder, Idle
<1>2. orders \in Seq(Row) /\ orders[i] \in Row /\ account \in AccountRow /\ IsPosition(pos)
      /\ seen \in SeenRow
  BY DEF LedgerInv, RowsInv
<1>3. SameMoney(account, pos, account', pos')
  BY <1>1, <1>2, CloseKeepsMoney
<1>4. Replaces(i)
  BY <1>1, <1>2, CloseEndsOrder DEF Ended
<1>5. LedgerInv'
  BY <1>1, <1>2, <1>3, <1>4, ReplaceKeeps DEF SameMoney, IsPosition
<1>6. Kept
  BY <1>1, <1>3 DEF Kept, Balance, Dir, SameMoney
<1> QED BY <1>5, <1>6 DEF Moves

\* The orders a transaction still has to do are rows, and active.
LEMMA ToDo ==
  ASSUME LedgerInv, txn # NoTxn
  PROVE  \A i \in txn.todo : i \in DOMAIN orders /\ Working(i) /\ orders[i] \in Row
<1>1. \A i \in DOMAIN orders : orders[i] \in Row
  BY DEF LedgerInv, RowsInv
<1>2. txn.todo \subseteq DOMAIN orders /\ \A i \in txn.todo : Working(i)
  <2>1. CASE BarTxn(txn, DOMAIN orders)
    BY <2>1 DEF LedgerInv, TxnInv, BarTxn
  <2>2. CASE StopTxn(txn, DOMAIN orders)
    BY <2>2 DEF LedgerInv, TxnInv, StopTxn
  <2> QED BY <2>1, <2>2 DEF LedgerInv, TxnInv
<1> QED BY <1>1, <1>2

\* The second half of a stop, one order at a time.
LEMMA StopNextStep ==
  ASSUME LedgerInv, StopNext
  PROVE  LedgerInv' /\ Moves
<1>1. txn # NoTxn /\ UNCHANGED <<kind, session, listed, seen>>
  BY DEF StopNext, NoTxn
<1>2. orders \in Seq(Row) /\ account \in AccountRow /\ IsPosition(pos) /\ seen \in SeenRow
  BY DEF LedgerInv, RowsInv
<1>3. CASE \E i \in txn.todo :
             Oldest(i) /\ Close(i, orders[i], "cancelled", account, pos) /\ Done(i)
  <2>1. PICK i \in txn.todo : Close(i, orders[i], "cancelled", account, pos) /\ Done(i)
    BY <1>3
  <2>2. i \in DOMAIN orders /\ Working(i) /\ orders[i] \in Row
    BY <1>1, ToDo
  <2>3. SameMoney(account, pos, account', pos')
    BY <1>2, <2>1, <2>2, CloseKeepsMoney
  <2>4. Replaces(i) /\ orders'[i].status = "cancelled"
    <3>1. Replaces(i)
      BY <1>2, <2>1, <2>2, CloseEndsOrder DEF Ended
    <3>2. orders'[i].status = "cancelled"
      BY <1>2, <2>1, <2>2 DEF Close, Row
    <3> QED BY <3>1, <3>2
  <2>5. LedgerInv'
    BY <1>1, <1>2, <2>1, <2>2, <2>3, <2>4, ReplaceKeeps DEF SameMoney, IsPosition, Done, Ended
  <2>6. Kept
    BY <1>1, <2>3 DEF Kept, Balance, Dir, SameMoney
  <2> QED BY <2>5, <2>6 DEF Moves
<1>4. CASE txn.todo = {} /\ txn' = NoTxn /\ UNCHANGED <<account, pos, orders>>
  <2>1. RowsInv' /\ OneLiveSession'
    BY <1>1, <1>4 DEF LedgerInv, RowsInv, OneLiveSession, Working, IsPosition
  <2>2. TxnInv'
    BY <1>4 DEF TxnInv
  <2>3. QuietInv'
    BY <1>1, <1>4 DEF LedgerInv, QuietInv, Working
  <2>4. Kept
    BY <1>1, <1>4 DEF Kept, Balance, Dir
  <2> QED BY <2>1, <2>2, <2>3, <2>4 DEF LedgerInv, Moves
<1> QED BY <1>3, <1>4 DEF StopNext

\* process_bar takes the locks.
LEMMA BarStep ==
  ASSUME LedgerInv, NEW s \in Sessions, NEW t \in Time, NEW b \in Bars, Bar(s, t, b)
  PROVE  LedgerInv' /\ Moves
<1>1. /\ txn = NoTxn /\ session[s].status = "running"
      /\ UNCHANGED <<kind, account, pos, orders, session, listed>>
      /\ txn' = [op |-> "bar", session |-> s, at |-> t, bar |-> b, todo |-> ActiveOf(s)]
  BY DEF Bar, Idle
<1>2. seen' \in SeenRow /\ seen'.raced = seen.raced
  <2> DEFINE x == seen.rewound \/ \E r \in Sessions : session[r].clock > t
  <2>1. x \in BOOLEAN
    OBVIOUS
  <2>2. seen' = [seen EXCEPT !.rewound = x]
    BY DEF Bar
  <2> HIDE DEF x
  <2> QED BY <2>1, <2>2 DEF LedgerInv, RowsInv, SeenRow
<1>3. RowsInv'
  BY <1>1, <1>2 DEF LedgerInv, RowsInv, Working, IsPosition
<1>4. OneLiveSession'
  BY <1>1, <1>2 DEF LedgerInv, OneLiveSession
<1>5. ActiveOf(s) \subseteq DOMAIN orders /\ \A i \in ActiveOf(s) : Working(i)
  BY DEF ActiveOf
<1>6. TxnInv'
  <2>1. BarTxn(txn', DOMAIN orders) /\ txn'.session = s /\ txn'.todo = ActiveOf(s)
    BY <1>1, <1>5 DEF BarTxn
  <2> QED BY <1>1, <1>5, <2>1 DEF TxnInv, Working
<1>7. QuietInv'
  BY <1>1 DEF LedgerInv, QuietInv, Working, NoTxn
<1> QED BY <1>1, <1>3, <1>4, <1>6, <1>7, NoMoney DEF LedgerInv, Moves

\* The price of a fill is a price of the abstract account.
PaperPrices == {p + d : p \in Prices, d \in {Slip, -Slip}}

LEMMA FillPriceType ==
  ASSUME BarTxn(txn, DOMAIN orders), NEW o \in Row
  PROVE  FillPrice(o) \in PaperPrices /\ FillPrice(o) \in Int /\ txn.bar.cap \in Nat
<1>1. txn.bar \in Bars
  BY DEF BarTxn
<1>2. txn.bar \in [low : Prices, high : Prices, price : Prices, close : Prices,
                   cap : Nat, blocked : BOOLEAN]
  BY <1>1, SimAssumption
<1>3. txn.bar.price \in Prices /\ txn.bar.cap \in Nat
  BY <1>2
<1>4. o.limit \in Prices \cup {0}
  BY DEF Row
<1>5. PICK p \in Prices, d \in {Slip, -Slip} : FillPrice(o) = p + d
  <2>1. CASE Buys(o)
    <3>1. FillPrice(o) = (IF o.limit = 0 THEN txn.bar.price
                          ELSE IF txn.bar.price < o.limit THEN txn.bar.price ELSE o.limit) + Slip
      BY <2>1 DEF FillPrice, Least
    <3> QED BY <1>3, <1>4, <3>1
  <2>2. CASE ~Buys(o)
    <3>1. FillPrice(o) = (IF txn.bar.price < o.limit THEN o.limit ELSE txn.bar.price) + (-Slip)
      BY <1>3, <1>4, <2>2, NumberTypes DEF FillPrice
    <3>2. txn.bar.price \in Nat \ {0}
      BY <1>3, NumberTypes
    <3> QED BY <1>3, <1>4, <3>1, <3>2
  <2> QED BY <2>1, <2>2
<1> QED BY <1>3, <1>5, NumberTypes DEF PaperPrices

\* A purchase and a sale are trades of the abstract account.
LEMMA BoughtIsTrade ==
  ASSUME LedgerInv, NEW q \in Nat \ {0}, NEW price \in Int, price \in PaperPrices,
         kind' = kind, Bought(q, price)
  PROVE  Paper!Trade
<1> DEFINE w == q * price
<1>1. /\ account.cash \in Int /\ account.frozen \in Int /\ pos.margin \in Int
      /\ pos.value \in Int /\ pos.total \in Int
  BY DEF LedgerInv, RowsInv, AccountRow, IsPosition
<1>2. /\ account'.cash \in Int /\ account'.frozen \in Int /\ pos'.margin \in Int
      /\ pos'.value \in Int /\ pos'.total \in Int
  BY DEF Bought, AccountRow, IsPosition
<1>3. pos'.total - pos.total = q /\ pos'.total # pos.total
  BY <1>1, <1>2 DEF Bought
<1>4. w \in Int /\ Fee \in Int /\ price * q = w
  BY NumberTypes
<1> DEFINE S == account.cash + account.frozen + pos.margin
           T == account'.cash + account'.frozen + pos'.margin
<1>5. S \in Int /\ T \in Int
  BY <1>1, <1>2
<1>6. T = S - Fee - (IF Future THEN 0 ELSE w) /\ pos'.value = pos.value + (IF Future THEN w ELSE 0)
  <2>1. account'.cash + account'.frozen + pos'.margin
          = account.cash + account.frozen + pos.margin - Fee - (IF Future THEN 0 ELSE q * price)
    BY DEF Bought
  <2>2. pos'.value = pos.value + (IF Future THEN q * price ELSE 0)
    BY DEF Bought
  <2> DEFINE d == IF Future THEN 0 ELSE w
  <2>3. d \in Int
    BY <1>4
  <2>4. account'.cash + account'.frozen + pos'.margin
          = account.cash + account.frozen + pos.margin - Fee - d
    BY <2>1
  <2> HIDE DEF d
  <2>5. T = S - Fee - d
    BY <1>1, <1>2, <1>4, <2>3, <2>4
  <2> QED BY <2>2, <2>5 DEF d
<1>7. Balance = S - (IF kind = "cash" THEN 0 ELSE Dir * pos.value)
      /\ Balance' = T - (IF kind = "cash" THEN 0 ELSE Dir * pos'.value)
  <2>1. Balance = account.cash + account.frozen + pos.margin
                    - (IF kind = "cash" THEN 0 ELSE Dir * pos.value)
    BY DEF Balance
  <2>2. Balance' = account'.cash + account'.frozen + pos'.margin
                     - (IF kind' = "cash" THEN 0 ELSE Dir' * pos'.value)
    BY DEF Balance
  <2>3. Dir' = Dir
    BY DEF Dir
  <2> DEFINE X == IF kind = "cash" THEN 0 ELSE Dir * pos.value
             Y == IF kind = "cash" THEN 0 ELSE Dir * pos'.value
  <2>4. X \in Int /\ Y \in Int
    BY <1>1, <1>2 DEF Dir
  <2>5. /\ Balance = account.cash + account.frozen + pos.margin - X
        /\ Balance' = account'.cash + account'.frozen + pos'.margin - Y
    BY <2>1, <2>2, <2>3
  <2> HIDE DEF X, Y
  <2>6. Balance = S - X /\ Balance' = T - Y
    BY <1>1, <1>2, <2>4, <2>5
  <2> QED BY <2>6 DEF X, Y
<1> HIDE DEF S, T, w
<1>8. Balance' = Balance - Dir * w - Fee
  <2>1. CASE kind = "cash"
    BY <1>4, <1>5, <1>6, <1>7, <2>1 DEF Dir, Future
  <2>2. CASE kind = "short"
    BY <1>1, <1>4, <1>5, <1>6, <1>7, <2>2 DEF Dir, Future
  <2>3. CASE kind \notin {"cash", "short"}
    BY <1>1, <1>4, <1>5, <1>6, <1>7, <2>3 DEF Dir, Future
  <2> QED BY <2>1, <2>2, <2>3
<1>9. Paper!Direction * price * (pos'.total - pos.total) = Dir * w
  BY <1>3, <1>4 DEF Dir, Paper!Direction
<1> QED BY <1>3, <1>8, <1>9 DEF Paper!Trade, PaperPrices

LEMMA SoldIsTrade ==
  ASSUME LedgerInv, NEW q \in Nat \ {0}, NEW price \in Int, price \in PaperPrices,
         kind' = kind, Sold(q, price)
  PROVE  Paper!Trade
<1> DEFINE w == q * price
<1>1. /\ account.cash \in Int /\ account.frozen \in Int /\ pos.margin \in Int
      /\ pos.value \in Int /\ pos.total \in Int
  BY DEF LedgerInv, RowsInv, AccountRow, IsPosition
<1>2. /\ account'.cash \in Int /\ account'.frozen \in Int /\ pos'.margin \in Int
      /\ pos'.value \in Int /\ pos'.total \in Int
  BY DEF Sold, AccountRow, IsPosition
<1>3. pos'.total - pos.total = -q /\ pos'.total # pos.total
  BY <1>1, <1>2 DEF Sold
<1>4. w \in Int /\ Fee \in Int /\ price * (-q) = -w
  BY NumberTypes
<1> DEFINE S == account.cash + account.frozen + pos.margin
           T == account'.cash + account'.frozen + pos'.margin
<1>5. S \in Int /\ T \in Int
  BY <1>1, <1>2
<1>6. PICK v \in Int : T = S - Fee + (IF Future THEN Dir * (w - v) ELSE w)
                       /\ pos'.value = pos.value - v
  <2>1. PICK v \in Int :
          /\ pos'.value = pos.value - v
          /\ account'.cash + account'.frozen + pos'.margin
               = account.cash + account.frozen + pos.margin - Fee
                   + (IF Future THEN Dir * (q * price - v) ELSE q * price)
    BY DEF Sold
  <2> DEFINE d == IF Future THEN Dir * (w - v) ELSE w
  <2>2. d \in Int
    <3> HIDE DEF w
    <3> QED BY <1>4 DEF Dir
  <2>3. account'.cash + account'.frozen + pos'.margin
          = account.cash + account.frozen + pos.margin - Fee + d
    BY <2>1
  <2> HIDE DEF d
  <2>4. T = S - Fee + d
    BY <1>1, <1>2, <1>4, <2>2, <2>3
  <2> QED BY <2>1, <2>4 DEF d
<1>7. Balance = S - (IF kind = "cash" THEN 0 ELSE Dir * pos.value)
      /\ Balance' = T - (IF kind = "cash" THEN 0 ELSE Dir * pos'.value)
  <2>1. Balance = account.cash + account.frozen + pos.margin
                    - (IF kind = "cash" THEN 0 ELSE Dir * pos.value)
    BY DEF Balance
  <2>2. Balance' = account'.cash + account'.frozen + pos'.margin
                     - (IF kind' = "cash" THEN 0 ELSE Dir' * pos'.value)
    BY DEF Balance
  <2>3. Dir' = Dir
    BY DEF Dir
  <2> DEFINE X == IF kind = "cash" THEN 0 ELSE Dir * pos.value
             Y == IF kind = "cash" THEN 0 ELSE Dir * pos'.value
  <2>4. X \in Int /\ Y \in Int
    BY <1>1, <1>2 DEF Dir
  <2>5. /\ Balance = account.cash + account.frozen + pos.margin - X
        /\ Balance' = account'.cash + account'.frozen + pos'.margin - Y
    BY <2>1, <2>2, <2>3
  <2> HIDE DEF X, Y
  <2>6. Balance = S - X /\ Balance' = T - Y
    BY <1>1, <1>2, <2>4, <2>5
  <2> QED BY <2>6 DEF X, Y
<1> HIDE DEF S, T, w
<1>8. Balance' = Balance + Dir * w - Fee
  <2>1. CASE kind = "cash"
    BY <1>4, <1>5, <1>6, <1>7, <2>1 DEF Dir, Future
  <2>2. CASE kind = "short"
    BY <1>1, <1>4, <1>5, <1>6, <1>7, <2>2 DEF Dir, Future
  <2>3. CASE kind \notin {"cash", "short"}
    BY <1>1, <1>4, <1>5, <1>6, <1>7, <2>3 DEF Dir, Future
  <2> QED BY <2>1, <2>2, <2>3
<1>9. Paper!Direction * price * (pos'.total - pos.total) = -(Dir * w)
  BY <1>3, <1>4 DEF Dir, Paper!Direction
<1>10. Balance' = Balance - Paper!Direction * price * (pos'.total - pos.total) - Fee
  <2>1. Balance \in Int /\ Dir * w \in Int
    BY <1>1, <1>4, <1>5, <1>7 DEF Dir
  <2> QED BY <1>4, <1>8, <1>9, <2>1
<1> QED BY <1>3, <1>10 DEF Paper!Trade, PaperPrices

\* One order of a bar: it waits, is closed, buys or sells.
LEMMA MatchNextStep ==
  ASSUME LedgerInv, MatchNext
  PROVE  LedgerInv' /\ Moves
<1>1. txn # NoTxn /\ txn.op = "bar" /\ UNCHANGED <<kind, session, listed>>
  BY DEF MatchNext, NoTxn
<1>2. /\ orders \in Seq(Row) /\ account \in AccountRow /\ IsPosition(pos) /\ seen \in SeenRow
      /\ pos.total \in Int
  BY DEF LedgerInv, RowsInv, IsPosition
<1>3. BarTxn(txn, DOMAIN orders)
  BY <1>1 DEF LedgerInv, TxnInv, StopTxn
<1>4. PICK i \in txn.todo : MatchOrder(i) /\ Done(i)
  BY DEF MatchNext
<1>5. /\ i \in DOMAIN orders /\ Working(i) /\ orders[i] \in Row
      /\ orders[i].filled < orders[i].quantity
  <2>1. i \in DOMAIN orders /\ Working(i) /\ orders[i] \in Row
    BY <1>1, ToDo
  <2> QED BY <2>1 DEF LedgerInv, RowsInv
<1> DEFINE q == Least(txn.bar.cap, Rest(i))
           price == FillPrice(orders[i])
<1>6. price \in PaperPrices /\ price \in Int /\ txn.bar.cap \in Nat
  BY <1>3, <1>5, FillPriceType
<1>7. ASSUME Replaces(i), account' \in AccountRow, IsPosition(pos'),
             seen' \in SeenRow, seen'.raced = seen.raced
      PROVE  LedgerInv'
  <2>1. IsPosition(pos)'
    BY <1>7 DEF IsPosition
  <2>2. txn' = [txn EXCEPT !.todo = @ \ {i}] /\ txn.op # "stop"
    BY <1>1, <1>4 DEF Done
  <2> QED BY <1>1, <1>5, <1>7, <2>1, <2>2, ReplaceKeeps
<1>8. SameMoney(account, pos, account', pos') => Kept
  BY <1>1 DEF Kept, Balance, Dir, SameMoney
<1>9. Outcome(orders[i]) = "fill" => q \in Nat \ {0}
  <2>1. Rest(i) \in Nat \ {0}
    BY <1>5 DEF Row, Rest
  <2>2. CASE txn.bar.cap >= Rest(i)
    BY <1>6, <2>1, <2>2 DEF Least
  <2>3. CASE txn.bar.cap > 0
    BY <1>6, <2>1, <2>3 DEF Least
  <2>4. Outcome(orders[i]) = "fill" => txn.bar.cap >= Rest(i) \/ txn.bar.cap > 0
    BY DEF Outcome, Rest
  <2> QED BY <2>2, <2>3, <2>4
<1> HIDE DEF q, price
<1>10. CASE UNCHANGED <<account, pos, orders, seen>>
  <2>1. Replaces(i)
    BY <1>2, <1>10 DEF Replaces
  <2>2. LedgerInv'
    BY <1>2, <1>7, <1>10, <2>1
  <2> QED BY <1>1, <1>10, <2>2, NoMoney DEF Moves
<1>11. CASE /\ Outcome(orders[i]) \in {"rejected", "cancelled"}
            /\ Close(i, orders[i], Outcome(orders[i]), account, pos)
            /\ UNCHANGED seen
  <2> DEFINE status == Outcome(orders[i])
  <2>1. status \in Ended
    BY <1>11 DEF Ended
  <2>2. Close(i, orders[i], status, account, pos)
    BY <1>11
  <2> HIDE DEF status
  <2>3. SameMoney(account, pos, account', pos')
    BY <1>2, <1>5, <2>2, CloseKeepsMoney
  <2>4. Replaces(i)
    BY <1>2, <1>5, <2>1, <2>2, CloseEndsOrder
  <2>5. LedgerInv'
    BY <1>2, <1>7, <1>11, <2>3, <2>4 DEF SameMoney
  <2> QED BY <1>8, <2>3, <2>5 DEF Moves
<1>12. CASE Outcome(orders[i]) = "fill" /\ FillOpen(i, orders[i], q) /\ UNCHANGED seen
  <2>1. q \in Nat \ {0} /\ q \in Nat
    BY <1>9, <1>12
  <2>2. /\ Replaces(i)
        /\ \/ SameMoney(account, pos, account', pos') /\ account'.active = account.active
           \/ Bought(q, price)
    <3>1. FillPrice(orders[i]) \in Int /\ FillOpen(i, orders[i], q)
      BY <1>6, <1>12 DEF price
    <3> QED BY <1>2, <1>5, <2>1, <3>1, FillOpenEffect DEF price
  <2>3. LedgerInv'
    BY <1>2, <1>7, <1>12, <2>2 DEF SameMoney, Bought
  <2>4. Bought(q, price) => Paper!Trade
    BY <1>1, <1>6, <2>1, BoughtIsTrade
  <2> QED BY <1>8, <2>2, <2>3, <2>4 DEF Moves
<1>13. CASE Outcome(orders[i]) = "fill" /\ FillClose(i, orders[i], q)
  <2>1. q \in Nat \ {0} /\ q \in Nat
    BY <1>9, <1>13
  <2>2. /\ Replaces(i)
        /\ account' \in AccountRow /\ IsPosition(pos')
        /\ q <= pos.total => Sold(q, price)
    <3>1. FillPrice(orders[i]) \in Int /\ FillClose(i, orders[i], q)
      BY <1>6, <1>13 DEF price
    <3> QED BY <1>2, <1>5, <2>1, <3>1, FillCloseEffect DEF price
  <2>3. seen' \in SeenRow /\ seen'.raced = seen.raced /\ (q > pos.total => seen'.short)
    <3> DEFINE x == seen.short \/ q > pos.total
               y == seen.early \/ \E l \in DOMAIN pos.lots :
                      Taken(pos.lots, l, q) > 0 /\ pos.lots[l].from > DayOf[txn.at]
    <3>1. seen' = [seen EXCEPT !.short = x, !.early = y]
      BY <1>13 DEF FillClose
    <3>2. x \in BOOLEAN /\ y \in BOOLEAN /\ (q > pos.total => x)
      OBVIOUS
    <3> HIDE DEF x, y
    <3>3. seen' \in SeenRow /\ seen'.raced = seen.raced /\ seen'.short = x
      BY <1>2, <3>1, <3>2 DEF SeenRow
    <3> QED BY <3>2, <3>3
  <2>4. LedgerInv'
    BY <1>7, <2>2, <2>3
  <2>5. Sold(q, price) => Paper!Trade
    BY <1>1, <1>6, <2>1, SoldIsTrade
  <2>6. q > pos.total \/ q <= pos.total
    BY <1>2, <2>1
  <2> QED BY <2>2, <2>3, <2>4, <2>5, <2>6 DEF Moves
<1> QED BY <1>4, <1>10, <1>11, <1>12, <1>13 DEF MatchOrder, q

\* The end of a bar: a settlement changes the parts of the balance, not their sum.
LEMMA SettlementKeepsBalance ==
  ASSUME LedgerInv, BarTxn(txn, DOMAIN orders), Future, kind' = kind,
         account' = [account EXCEPT !.cash = Settled(DayOf[txn.at]).cash],
         pos' = [pos EXCEPT !.margin = Settled(DayOf[txn.at]).margin,
                            !.value = Settled(DayOf[txn.at]).value,
                            !.settled = DayOf[txn.at]]
  PROVE  account' \in AccountRow /\ IsPosition(pos') /\ Kept
<1> DEFINE worth == txn.bar.close * pos.total
           pnl == Dir * (worth - pos.value)
           cash == account.cash + pnl
           want == MarginOf(worth) - pos.margin
           move == IF want > cash THEN (IF want > 0 THEN NotNeg(cash) ELSE want) ELSE want
           x == cash - move
           y == pos.margin + move
           day == DayOf[txn.at]
<1>1. /\ account \in AccountRow /\ IsPosition(pos)
      /\ account.cash \in Int /\ account.frozen \in Int /\ pos.margin \in Int
      /\ pos.value \in Int /\ pos.total \in Int
  BY DEF LedgerInv, RowsInv, AccountRow, IsPosition
<1>2. txn.bar.close \in Int
  <2>1. txn.bar \in Bars
    BY DEF BarTxn
  <2>2. txn.bar.close \in Prices
    BY <2>1, SimAssumption
  <2> QED BY <2>2, NumberTypes
<1>3. worth \in Int
  BY <1>1, <1>2
<1>4. /\ account' = [account EXCEPT !.cash = x]
      /\ pos' = [pos EXCEPT !.margin = y, !.value = worth, !.settled = day]
  BY DEF Settled
<1> HIDE DEF worth
<1>5. MarginOf(worth) \in Int /\ pnl \in Int
  BY <1>1, <1>3, MarginType DEF Dir
<1>6. cash \in Int /\ want \in Int
  <2> HIDE DEF pnl
  <2> QED BY <1>1, <1>5
<1>7. move \in Int
  <2> HIDE DEF cash, want
  <2> QED BY <1>6 DEF NotNeg
<1> HIDE DEF move
<1>8. x \in Int /\ y \in Int /\ x + y = account.cash + pos.margin + pnl
  <2> HIDE DEF pnl
  <2> QED BY <1>1, <1>5, <1>7
<1> HIDE DEF x, y, pnl, day
<1>9. account' \in AccountRow /\ account'.cash = x /\ account'.frozen = account.frozen
  BY <1>1, <1>4, <1>8 DEF AccountRow
<1>10. /\ IsPosition(pos') /\ pos'.margin = y /\ pos'.value = worth
       /\ pos'.total = pos.total
  BY <1>1, <1>3, <1>4, <1>8 DEF IsPosition
<1>11. pnl = Dir * worth - Dir * pos.value
  BY <1>1, <1>3 DEF pnl, Dir
<1>12. Dir' = Dir /\ kind # "cash"
  BY DEF Dir, Future
<1>13. Dir * worth \in Int /\ Dir * pos.value \in Int
  BY <1>1, <1>3 DEF Dir
<1>14. Balance' = Balance
  <2> DEFINE u == Dir * worth
             v == Dir * pos.value
  <2>1. Balance = account.cash + account.frozen + pos.margin - v
    BY <1>12 DEF Balance
  <2>2. Balance' = x + account.frozen + y - u
    BY <1>9, <1>10, <1>12 DEF Balance
  <2>3. u \in Int /\ v \in Int /\ pnl = u - v
    BY <1>11, <1>13
  <2> DEFINE c == account.cash
             f == account.frozen
             m == pos.margin
  <2>4. c \in Int /\ f \in Int /\ m \in Int /\ x \in Int /\ y \in Int
        /\ x + y = c + m + pnl
    BY <1>1, <1>8
  <2>5. Balance = c + f + m - v /\ Balance' = x + f + y - u
    BY <2>1, <2>2
  <2> HIDE DEF u, v, c, f, m
  <2> QED BY <2>3, <2>4, <2>5
<1> QED BY <1>9, <1>10, <1>14 DEF Kept

LEMMA EndBarStep ==
  ASSUME LedgerInv, EndBar
  PROVE  LedgerInv' /\ Moves
<1> DEFINE s == txn.session
           day == DayOf[txn.at]
           due == Future /\ pos.row /\ pos.settled # day
           status == IF due /\ Settled(day).called THEN "paused" ELSE session[s].status
<1>1. txn # NoTxn /\ txn.op = "bar" /\ txn' = NoTxn /\ UNCHANGED <<kind, orders, listed, seen>>
  BY DEF EndBar, NoTxn
<1>2. BarTxn(txn, DOMAIN orders) /\ session[s].status = "running"
  BY <1>1 DEF LedgerInv, TxnInv, StopTxn
<1>3. /\ account \in AccountRow /\ IsPosition(pos) /\ session \in [Sessions -> SessionRow]
      /\ s \in Sessions /\ txn.at \in Time /\ txn.bar.close \in Prices
  <2>1. s \in Sessions /\ txn.at \in Time /\ txn.bar \in Bars
    BY <1>2 DEF BarTxn
  <2> QED BY <2>1, SimAssumption DEF LedgerInv, RowsInv
<1>4. account' \in AccountRow /\ IsPosition(pos') /\ Kept
  <2>1. CASE due
    <3>1. /\ account' = [account EXCEPT !.cash = Settled(day).cash]
          /\ pos' = [pos EXCEPT !.margin = Settled(day).margin, !.value = Settled(day).value,
                                !.settled = day]
      BY <2>1 DEF EndBar
    <3> QED BY <1>1, <1>2, <2>1, <3>1, SettlementKeepsBalance
  <2>2. CASE ~due
    <3> DEFINE a == NotNeg(Matured(pos, day) - pos.frozen)
    <3>1. account' = account /\ (pos' = pos \/ pos' = [pos EXCEPT !.free = a])
      BY <2>2 DEF EndBar
    <3> HIDE DEF a
    <3>2. SamePosition(pos, pos')
      <4>1. CASE pos' = pos
        BY <1>3, <4>1 DEF SamePosition
      <4>2. CASE pos' = [pos EXCEPT !.free = a]
        BY <1>3, <4>2, PositionFree
      <4> QED BY <3>1, <4>1, <4>2
    <3>3. /\ IsPosition(pos') /\ pos'.total = pos.total /\ pos'.margin = pos.margin
          /\ pos'.value = pos.value
      BY <3>2 DEF SamePosition
    <3>4. Kept
      BY <1>1, <3>1, <3>3 DEF Kept, Balance, Dir
    <3> QED BY <1>3, <3>1, <3>3, <3>4
  <2> QED BY <2>1, <2>2
<1>5. session' = [session EXCEPT ![s] =
        [status |-> status, clock |-> txn.at, close |-> txn.bar.close]]
  BY DEF EndBar
<1>6. status \in {"running", "paused"}
  BY <1>2
<1> HIDE DEF status, s
<1>7. /\ session' \in [Sessions -> SessionRow] /\ session'[s].status = status
      /\ \A r \in Sessions \ {s} : session'[r] = session[r]
  BY <1>3, <1>5, <1>6 DEF SessionRow, Live
<1>8. RowsInv'
  BY <1>1, <1>4, <1>7 DEF LedgerInv, RowsInv, Working, IsPosition
<1>9. TxnInv'
  BY <1>1 DEF TxnInv
<1>10. OneLiveSession'
  BY <1>1, <1>2, <1>6, <1>7 DEF LedgerInv, OneLiveSession, Live, s
<1>11. QuietInv'
  <2>1. \A i \in DOMAIN orders : orders[i].session \in Sessions
    <3>1. \A i \in DOMAIN orders : orders[i] \in Row
      BY DEF LedgerInv, RowsInv
    <3> QED BY <3>1 DEF Row
  <2> QED BY <1>1, <1>6, <1>7, <2>1 DEF LedgerInv, QuietInv, Working, Live
<1> QED BY <1>4, <1>8, <1>9, <1>10, <1>11 DEF LedgerInv, Moves

\* recover_active_sessions lists sessions.
LEMMA RecoverListStep ==
  ASSUME LedgerInv, RecoverList
  PROVE  LedgerInv' /\ Moves
<1>1. UNCHANGED <<kind, account, pos, orders, session, txn, seen>> /\ listed' \subseteq Sessions
  BY DEF RecoverList
<1>2. RowsInv' /\ TxnInv' /\ QuietInv' /\ OneLiveSession'
  BY <1>1 DEF LedgerInv, RowsInv, TxnInv, QuietInv, OneLiveSession, Working, IsPosition
<1> QED BY <1>1, <1>2, NoMoney DEF LedgerInv, Moves

\* recover_active_sessions rebuilds or pauses one session.  A session that was not
\* active any more makes the recovery a raced one.
LEMMA RecoverStep ==
  ASSUME LedgerInv, NEW s \in Sessions, Recover(s)
  PROVE  LedgerInv' /\ Moves
<1>1. txn = NoTxn /\ txn' = NoTxn /\ UNCHANGED <<kind, orders>> /\ listed' \subseteq Sessions
  BY DEF Recover, Idle, LedgerInv, RowsInv
<1>2. /\ account \in AccountRow /\ IsPosition(pos) /\ session \in [Sessions -> SessionRow]
      /\ seen \in SeenRow
  BY DEF LedgerInv, RowsInv
<1>3. /\ seen' \in SeenRow
      /\ seen'.raced <=> seen.raced \/ session[s].status \notin {"running", "paused"}
  <2> DEFINE x == seen.raced \/ session[s].status \notin {"running", "paused"}
  <2>1. seen' = [seen EXCEPT !.raced = x] /\ x \in BOOLEAN
    BY DEF Recover
  <2> HIDE DEF x
  <2>2. seen' \in SeenRow /\ seen'.raced = x
    BY <1>2, <2>1 DEF SeenRow
  <2> QED BY <2>2 DEF x
<1>4. /\ account' \in AccountRow
      /\ account'.cash + account'.frozen = account.cash + account.frozen
  <2>1. CASE account' = account
    BY <1>2, <2>1
  <2>2. CASE \E c \in 0..Liquid : account' = [account EXCEPT !.cash = Liquid - c, !.frozen = c]
    <3>1. Liquid \in Int /\ Liquid = account.cash + account.frozen
      BY <1>2 DEF Liquid, AccountRow
    <3>2. PICK c \in 0..Liquid : account' = [account EXCEPT !.cash = Liquid - c, !.frozen = c]
      BY <2>2
    <3> DEFINE x == Liquid - c
    <3>3. c \in Int /\ x \in Int /\ x + c = account.cash + account.frozen
      BY <3>1
    <3>4. account' = [account EXCEPT !.cash = x, !.frozen = c]
      BY <3>2
    <3> HIDE DEF x
    <3>5. account' \in AccountRow /\ account'.cash = x /\ account'.frozen = c
      BY <1>2, <3>3, <3>4 DEF AccountRow
    <3> QED BY <3>3, <3>5
  <2> QED BY <2>1, <2>2 DEF Recover
<1>5. SamePosition(pos, pos')
  <2>1. CASE pos' = pos
    BY <1>2, <2>1 DEF SamePosition
  <2>2. CASE \E u \in 0..pos.total :
               pos' = [pos EXCEPT !.frozen = u,
                         !.free = NotNeg(Matured(pos, DayOf[session[s].clock]) - u)]
    <3>1. PICK u \in 0..pos.total :
            pos' = [pos EXCEPT !.frozen = u,
                      !.free = NotNeg(Matured(pos, DayOf[session[s].clock]) - u)]
      BY <2>2
    <3> DEFINE a == NotNeg(Matured(pos, DayOf[session[s].clock]) - u)
    <3>2. pos' = [pos EXCEPT !.frozen = u, !.free = a] /\ u \in Int
      BY <3>1
    <3> HIDE DEF a
    <3> QED BY <1>2, <3>2, PositionUnits
  <2> QED BY <2>1, <2>2 DEF Recover, RebuildUnits
<1>6. Kept
  BY <1>1, <1>4, <1>5 DEF Kept, Balance, Dir, SamePosition, AccountRow, IsPosition
<1>7. session' = session \/ session' = [session EXCEPT ![s].status = "paused"]
  BY DEF Recover, RebuildUnits, PauseUnbacked
<1>8. /\ session' \in [Sessions -> SessionRow]
      /\ \A r \in Sessions \ {s} : session'[r] = session[r]
      /\ session'[s] = session[s] \/ session'[s].status = "paused"
  <2>1. CASE session' = session
    BY <1>2, <2>1
  <2>2. CASE session' = [session EXCEPT ![s].status = "paused"]
    BY <1>2, <2>2, StatusExcept DEF Live
  <2> QED BY <1>7, <2>1, <2>2
<1>9. RowsInv'
  BY <1>1, <1>3, <1>4, <1>5, <1>8 DEF LedgerInv, RowsInv, Working, SamePosition, IsPosition
<1>10. TxnInv'
  BY <1>1 DEF TxnInv
<1>11. QuietInv'
  <2>1. \A i \in DOMAIN orders : orders[i].session \in Sessions
    <3>1. \A i \in DOMAIN orders : orders[i] \in Row
      BY DEF LedgerInv, RowsInv
    <3> QED BY <3>1 DEF Row
  <2> QED BY <1>1, <1>8, <2>1 DEF LedgerInv, QuietInv, Working, Live, NoTxn
<1>12. OneLiveSession'
  BY <1>3, <1>8 DEF LedgerInv, OneLiveSession, Live
<1> QED BY <1>6, <1>9, <1>10, <1>11, <1>12 DEF LedgerInv, Moves
-----------------------------------------------------------------------------
(* The theorems. *)

LEMMA InitHolds == Init => LedgerInv /\ Paper!Init
<1> SUFFICES ASSUME Init PROVE LedgerInv /\ Paper!Init
  OBVIOUS
<1>1. Capital \in Int /\ 0 \in Time
  BY NumberTypes, SimAssumption DEF Time
<1>2. account \in AccountRow /\ account.cash = Capital /\ account.frozen = 0
  BY <1>1 DEF Init, AccountRow
<1>3. IsPosition(pos) /\ pos.total = 0 /\ pos.margin = 0 /\ pos.value = 0
  BY DEF Init, IsPosition
<1>4. session \in [Sessions -> SessionRow] /\ \A s \in Sessions : session[s].status = "absent"
  <2>1. [status |-> "absent", clock |-> 0, close |-> 0] \in SessionRow
    BY <1>1 DEF SessionRow
  <2> QED BY <2>1 DEF Init
<1>5. orders \in Seq(Row) /\ DOMAIN orders = {}
  BY DEF Init
<1>6. seen \in SeenRow
  BY DEF Init, SeenRow
<1>7. LedgerInv
  BY <1>2, <1>3, <1>4, <1>5, <1>6
     DEF Init, LedgerInv, RowsInv, TxnInv, QuietInv, OneLiveSession, Live
<1>8. Balance = Capital
  BY <1>1, <1>2, <1>3 DEF Balance, Dir
<1> QED BY <1>3, <1>7, <1>8 DEF Paper!Init

LEMMA StepHolds ==
  ASSUME LedgerInv, [Next]_vars
  PROVE  LedgerInv' /\ Moves
<1>1. CASE UNCHANGED vars
  <2>1. RowsInv' /\ TxnInv' /\ QuietInv' /\ OneLiveSession'
    BY <1>1 DEF vars, LedgerInv, RowsInv, TxnInv, QuietInv, OneLiveSession, Working, IsPosition
  <2>2. UNCHANGED <<kind, account, pos>>
    BY <1>1 DEF vars
  <2> QED BY <2>1, <2>2, NoMoney DEF LedgerInv, Moves
<1>2. ASSUME NEW s \in Sessions,
             CreateSession(s) \/ Run(s) \/ Pause(s) \/ Stop(s) \/ Archive(s)
      PROVE  LedgerInv' /\ Moves
  BY <1>2, SessionSteps
<1>3. ASSUME NEW s \in Sessions, Recover(s) PROVE LedgerInv' /\ Moves
  BY <1>3, RecoverStep
<1>4. ASSUME NEW s \in Sessions, NEW ask \in Asks, Decide(s, ask) PROVE LedgerInv' /\ Moves
  BY <1>4, DecideStep
<1>5. ASSUME NEW s \in Sessions, NEW t \in Time, NEW b \in Bars, Bar(s, t, b)
      PROVE  LedgerInv' /\ Moves
  BY <1>5, BarStep
<1>6. ASSUME NEW i \in DOMAIN orders, CancelOrder(i) PROVE LedgerInv' /\ Moves
  BY <1>6, CancelStep
<1>7. CASE StopNext \/ MatchNext \/ EndBar \/ RecoverList
  BY <1>7, StopNextStep, MatchNextStep, EndBarStep, RecoverListStep
<1> QED BY <1>1, <1>2, <1>3, <1>4, <1>5, <1>6, <1>7 DEF Next

\* The rows, the transaction in progress and the sessions fit together.
THEOREM LedgerInvariant == Spec => []LedgerInv
<1>1. Init => LedgerInv
  BY InitHolds
<1>2. LedgerInv /\ [Next]_vars => LedgerInv'
  BY StepHolds
<1> QED BY <1>1, <1>2, PTL DEF Spec

\* create_session finds at most one live session, and nothing but a recovery of a
\* session that ended meanwhile makes another (service.py:136-146, 599-616).
THEOREM OneLive == Spec => []OneLiveSession
<1>1. LedgerInv => OneLiveSession
  BY DEF LedgerInv
<1> QED BY <1>1, LedgerInvariant, PTL

\* A stop leaves no active order behind, whatever bars, decisions, cancels and
\* recoveries came before and come after (service.py:275-278, 1552-1574).
THEOREM Quiet == Spec => []StoppedIsQuiet
<1>1. LedgerInv => StoppedIsQuiet
  <2> SUFFICES ASSUME LedgerInv, Idle, NEW s \in Sessions, session[s].status \notin Live,
                      NEW i \in ActiveOf(s)
               PROVE  FALSE
    BY DEF StoppedIsQuiet
  <2>1. i \in DOMAIN orders /\ Working(i) /\ orders[i].session = s
    BY DEF ActiveOf
  <2> QED BY <2>1 DEF LedgerInv, QuietInv, Idle, NoTxn
<1> QED BY <1>1, LedgerInvariant, PTL

\* The account implements PaperAccount: whatever reservations, margin, settlement,
\* recovery and sessions do, only fills change balance and holding, each at its
\* price and fee (service.py:1132-1374, 1471-1550).
THEOREM Trades == Spec => TradesOnly
<1>1. Init => Paper!Init
  BY InitHolds
<1>2. LedgerInv /\ [Next]_vars => [Paper!Trade \/ seen.short']_<<kind, Balance, pos.total>>
  BY StepHolds DEF Moves, Kept
<1> QED BY <1>1, <1>2, LedgerInvariant, PTL DEF Spec, TradesOnly
-----------------------------------------------------------------------------
(* Lots: what they come to, what has matured, and what a sale takes from them. *)

\* A share of a reservation is at most the reservation.
LEMMA SliceBound ==
  ASSUME NEW r \in Nat, NEW q \in Nat, NEW n \in Nat
  PROVE  Slice(r, q, n) \in Nat /\ Slice(r, q, n) <= r
<1>1. CASE r > 0 /\ n > 0 /\ q < n
  <2> DEFINE w == r * q
             d == w \div n
  <2>1. w \in Nat /\ w <= r * n
    BY <1>1
  <2>2. Slice(r, q, n) = d
    BY <1>1 DEF Slice
  <2> HIDE DEF w
  <2>3. d \in Int /\ n * d <= w /\ 0 <= d
    BY <1>1, <2>1
  <2> HIDE DEF d
  <2>4. n * d <= r * n
    BY <1>1, <2>1, <2>3
  <2>5. d <= r
    <3>1. CASE d > r
      <4>1. d >= r + 1
        BY <2>3, <3>1
      <4>2. n * d >= n * (r + 1)
        BY <1>1, <2>3, <4>1
      <4> QED
        BY <1>1, <2>3, <2>4, <4>2
    <3> QED
      BY <2>3, <3>1
  <2> QED
    BY <2>2, <2>3, <2>5
<1>2. CASE ~(r > 0 /\ n > 0 /\ q < n)
  BY <1>2 DEF Slice
<1> QED
  BY <1>1, <1>2

\* The units of the lots that are of age, and of all lots.
Ages(lots, F) == [i \in DOMAIN lots |-> IF lots[i].from \in F THEN lots[i].quantity ELSE 0]
Ripe(lots, F) == Total(Ages(lots, F))
Weights(lots) == [i \in DOMAIN lots |-> lots[i].quantity]
UpTo(d)       == {n \in Nat : n <= d}

\* Lots are a sequence with units and a day each.
LEMMA LotTypes ==
  ASSUME NEW lots \in Seq(Lot)
  PROVE  /\ DOMAIN lots = 1..Len(lots) /\ Len(lots) \in Nat
         /\ \A i \in DOMAIN lots : /\ lots[i] \in Lot /\ lots[i].quantity \in Nat
                                   /\ lots[i].quantity > 0 /\ lots[i].from \in Nat
<1>1. \A i \in DOMAIN lots : lots[i] \in Lot
  OBVIOUS
<1> QED
  BY <1>1 DEF Lot

\* The units of the lots, and of those of age, are totals.
LEMMA LotAmounts ==
  ASSUME NEW lots \in Seq(Lot), NEW F
  PROVE  /\ Amounts(Ages(lots, F)) /\ Amounts(Weights(lots))
         /\ Ripe(lots, F) \in Nat /\ LotsOf(lots) \in Nat /\ LotsOf(lots) = Total(Weights(lots))
         /\ Ripe(lots, F) <= LotsOf(lots)
<1>1. IsFiniteSet(1..Len(lots))
  BY LotTypes, FS_Interval
<1>2. Amounts(Ages(lots, F)) /\ Amounts(Weights(lots))
  BY <1>1, LotTypes DEF Amounts, Ages, Weights
<1>3. \A j : Of(Ages(lots, F), j) <= Of(Weights(lots), j)
  BY LotTypes DEF Of, Ages, Weights
<1> QED
  BY <1>2, <1>3, TotalLeq DEF Ripe, LotsOf, Weights

\* With more time no fewer units are of age.
LEMMA RipeGrows ==
  ASSUME NEW lots \in Seq(Lot), NEW F, NEW G, F \subseteq G
  PROVE  Ripe(lots, F) <= Ripe(lots, G)
<1>1. \A j : Of(Ages(lots, F), j) <= Of(Ages(lots, G), j)
  BY LotTypes DEF Of, Ages
<1> QED
  BY <1>1, LotAmounts, TotalLeq DEF Ripe

\* What has matured is what is of age.
LEMMA RipeIsMatured ==
  ASSUME NEW p, p.lots \in Seq(Lot), NEW d \in Nat, ~Future
  PROVE  Matured(p, d) = Ripe(p.lots, UpTo(d))
<1>1. [i \in DOMAIN p.lots |-> IF p.lots[i].from <= d THEN p.lots[i].quantity ELSE 0]
        = Ages(p.lots, UpTo(d))
  BY LotTypes DEF Ages, UpTo
<1> QED
  BY <1>1 DEF Matured, Ripe

\* A lot more.
LEMMA LotAdded ==
  ASSUME NEW lots \in Seq(Lot), NEW l \in Lot, NEW F
  PROVE  /\ LotsOf(Append(lots, l)) = LotsOf(lots) + l.quantity
         /\ Ripe(Append(lots, l), F) >= Ripe(lots, F)
<1> DEFINE more == Append(lots, l)
           n == Len(lots) + 1
<1>1. /\ more \in Seq(Lot) /\ DOMAIN more = 1..n /\ n \in Nat /\ n \notin DOMAIN lots
      /\ more[n] = l /\ \A i \in DOMAIN lots : more[i] = lots[i] /\ i \in DOMAIN more
      /\ \A i \in DOMAIN more : i # n => i \in DOMAIN lots
      /\ n \in DOMAIN more
  BY LotTypes
<1> HIDE DEF more, n
<1>2. /\ \A j : j # n => Of(Weights(lots), j) = Of(Weights(more), j)
      /\ Of(Weights(lots), n) = 0 /\ Of(Weights(more), n) = l.quantity
  BY <1>1 DEF Of, Weights
<1>3. LotsOf(more) = LotsOf(lots) + l.quantity
  <2>1. Total(Weights(more)) + 0 = Total(Weights(lots)) + l.quantity
    BY <1>1, <1>2, LotAmounts, TotalChange
  <2>2. l.quantity \in Nat
    BY DEF Lot
  <2> QED
    BY <1>1, <2>1, <2>2, LotAmounts
<1>4. \A j : Of(Ages(lots, F), j) <= Of(Ages(more, F), j)
  <2>1. \A i \in DOMAIN more : more[i].quantity \in Nat
    BY <1>1, LotTypes
  <2> QED
    BY <1>1, <2>1 DEF Of, Ages
<1>5. Ripe(lots, F) <= Ripe(more, F)
  BY <1>1, <1>4, LotAmounts, TotalLeq DEF Ripe
<1>6. Ripe(lots, F) \in Nat /\ Ripe(more, F) \in Nat
  BY <1>1, LotAmounts
<1> QED
  BY <1>3, <1>5, <1>6 DEF more

\* How many units come before a lot.
LEMMA BeforeSteps ==
  ASSUME NEW lots \in Seq(Lot)
  PROVE  /\ \A i \in 1..(Len(lots) + 1) : Before(lots, i) \in Nat
         /\ Before(lots, 1) = 0
         /\ Before(lots, Len(lots) + 1) = LotsOf(lots)
         /\ \A i \in DOMAIN lots : Before(lots, i + 1) = Before(lots, i) + lots[i].quantity
         /\ \A i, j \in 1..(Len(lots) + 1) : i <= j => Before(lots, i) <= Before(lots, j)
<1> DEFINE n == Len(lots)
           B(i) == [j \in 1..(i - 1) |-> lots[j].quantity]
<1>1. \A i \in 1..(n + 1) : Amounts(B(i)) /\ Before(lots, i) = Total(B(i))
  <2> SUFFICES ASSUME NEW i \in 1..(n + 1)
               PROVE  Amounts(B(i)) /\ Before(lots, i) = Total(B(i))
    OBVIOUS
  <2>1. i - 1 \in Int /\ n \in Nat
    BY LotTypes
  <2>2. IsFiniteSet(1..(i - 1))
    BY <2>1, FS_Interval
  <2>3. \A j \in 1..(i - 1) : j \in DOMAIN lots
    BY LotTypes
  <2> QED
    BY <2>2, <2>3, LotTypes DEF Amounts, Before
<1>2. \A i \in 1..(n + 1) : Before(lots, i) \in Nat
  BY <1>1, UnitsFinite
<1>3. Before(lots, 1) = 0
  <2>1. 1 \in 1..(n + 1)
    BY LotTypes
  <2>2. DOMAIN B(1) = {}
    OBVIOUS
  <2> QED
    BY <1>1, <2>1, <2>2, TotalNone
<1>4. Before(lots, n + 1) = LotsOf(lots)
  <2>1. B(n + 1) = Weights(lots)
    BY LotTypes DEF Weights
  <2>2. n + 1 \in 1..(n + 1)
    BY LotTypes
  <2> QED
    BY <1>1, <2>1, <2>2, LotAmounts
<1>5. \A i \in DOMAIN lots : Before(lots, i + 1) = Before(lots, i) + lots[i].quantity
  <2> SUFFICES ASSUME NEW i \in DOMAIN lots
               PROVE  Before(lots, i + 1) = Before(lots, i) + lots[i].quantity
    OBVIOUS
  <2>1. i \in 1..(n + 1) /\ i + 1 \in 1..(n + 1) /\ lots[i].quantity \in Nat
    BY LotTypes
  <2>2. /\ \A j : j # i => Of(B(i), j) = Of(B(i + 1), j)
        /\ Of(B(i), i) = 0 /\ Of(B(i + 1), i) = lots[i].quantity
    BY <2>1 DEF Of
  <2> DEFINE f == B(i)
             g == B(i + 1)
  <2>3. /\ Amounts(f) /\ Amounts(g)
        /\ Before(lots, i) = Total(f) /\ Before(lots, i + 1) = Total(g)
    BY <1>1, <2>1, Zenon
  <2>4. (\A j : j # i => Of(f, j) = Of(g, j)) /\ Of(f, i) = 0 /\ Of(g, i) = lots[i].quantity
    BY <2>2
  <2> HIDE DEF f, g
  <2>5. Total(g) + Of(f, i) = Total(f) + Of(g, i) /\ Total(f) \in Nat /\ Total(g) \in Nat
    BY <2>3, <2>4, TotalChange
  <2> QED
    BY <2>1, <2>3, <2>4, <2>5
<1>6. \A i, j \in 1..(n + 1) : i <= j => Before(lots, i) <= Before(lots, j)
  <2> SUFFICES ASSUME NEW i \in 1..(n + 1), NEW j \in 1..(n + 1), i <= j
               PROVE  Before(lots, i) <= Before(lots, j)
    OBVIOUS
  <2>1. \A m : Of(B(i), m) <= Of(B(j), m)
    <3>1. \A m \in 1..(j - 1) : lots[m].quantity \in Nat
      <4>1. \A m \in 1..(j - 1) : m \in DOMAIN lots
        BY LotTypes
      <4> QED
        BY <4>1, LotTypes
    <3> QED
      BY <3>1 DEF Of
  <2> QED
    BY <1>1, <2>1, TotalLeq
<1> QED
  BY <1>2, <1>3, <1>4, <1>5, <1>6

\* The lots a sale uses up are the first ones.
LEMMA SpentFirst ==
  ASSUME NEW lots \in Seq(Lot), NEW q \in Nat
  PROVE  LET k == Spent(lots, q)
         IN /\ k \in 0..Len(lots)
            /\ \A i \in 1..k : Taken(lots, i, q) = lots[i].quantity
            /\ Before(lots, k + 1) <= q
            /\ k < Len(lots) => /\ Taken(lots, k + 1, q) = q - Before(lots, k + 1)
                                /\ q - Before(lots, k + 1) < lots[k + 1].quantity
            /\ \A i \in (k + 2)..Len(lots) : Taken(lots, i, q) = 0
<1> DEFINE n == Len(lots)
           F == {i \in DOMAIN lots : Taken(lots, i, q) = lots[i].quantity}
           k == Spent(lots, q)
           b == [i \in 1..(n + 1) |-> Before(lots, i)]
           w == [i \in 1..n |-> lots[i].quantity]
<1>1. /\ n \in Nat /\ DOMAIN lots = 1..n
      /\ \A i \in 1..n : w[i] \in Nat /\ w[i] > 0 /\ b[i + 1] = b[i] + w[i]
      /\ \A i \in 1..(n + 1) : b[i] \in Nat
      /\ b[1] = 0
      /\ \A i, j \in 1..(n + 1) : i <= j => b[i] <= b[j]
  BY LotTypes, BeforeSteps
<1>2. \A i \in 1..n : Taken(lots, i, q) = Least(w[i], NotNeg(q - b[i]))
  BY DEF Taken
<1>3. \A i \in 1..n : Taken(lots, i, q) = w[i] <=> b[i + 1] <= q
  <2> SUFFICES ASSUME NEW i \in 1..n PROVE Taken(lots, i, q) = w[i] <=> b[i + 1] <= q
    OBVIOUS
  <2> HIDE DEF w, b
  <2>0. i \in 1..(n + 1)
    BY <1>1
  <2>1. /\ w[i] \in Nat /\ w[i] > 0 /\ b[i + 1] = b[i] + w[i] /\ b[i] \in Nat
        /\ Taken(lots, i, q) = Least(w[i], NotNeg(q - b[i]))
    BY <1>1, <1>2, <2>0
  <2> QED
    BY <2>1 DEF Least, NotNeg
<1>4. F \subseteq 1..n /\ \A i \in 1..n : i \in F <=> b[i + 1] <= q
  BY <1>1, <1>3
<1>5. k = Cardinality(F)
  BY DEF Spent
<1> HIDE DEF F, k, b, w
<1>6. IsFiniteSet(F) /\ k \in Nat /\ k <= n
  <2>1. IsFiniteSet(1..n) /\ Cardinality(1..n) = n
    BY <1>1, PieceSize, FS_Interval
  <2>2. IsFiniteSet(F) /\ Cardinality(F) <= n
    BY <1>4, <2>1, FS_Subset
  <2> QED
    BY <1>5, <2>2, FS_CardinalityType
<1>7. \A i \in F : i <= k
  <2> SUFFICES ASSUME NEW i \in F PROVE i <= k
    OBVIOUS
  <2>1. i \in 1..n /\ b[i + 1] <= q
    BY <1>4
  <2>2. 1..i \subseteq F
    <3> SUFFICES ASSUME NEW j \in 1..i PROVE j \in F
      OBVIOUS
    <3>1. j \in 1..n /\ j + 1 \in 1..(n + 1) /\ i + 1 \in 1..(n + 1) /\ j + 1 <= i + 1
      BY <1>1, <2>1
    <3>2. b[j + 1] <= b[i + 1] /\ b[j + 1] \in Nat /\ b[i + 1] \in Nat
      BY <1>1, <3>1
    <3> QED
      BY <1>4, <2>1, <3>1, <3>2
  <2>3. Cardinality(1..i) = i /\ i \in Nat
    BY <2>1, FS_Interval
  <2> QED
    BY <1>5, <1>6, <2>2, <2>3, FS_Subset
<1>8. F = 1..k
  <2>1. F \subseteq 1..k
    BY <1>4, <1>7
  <2>2. IsFiniteSet(1..k) /\ Cardinality(1..k) = k
    BY <1>6, PieceSize, FS_Interval
  <2> QED
    BY <1>5, <2>1, <2>2, FS_Subset
<1>9. \A i \in 1..n : i <= k <=> b[i + 1] <= q
  BY <1>4, <1>6, <1>8
<1>10. \A i \in 1..k : Taken(lots, i, q) = lots[i].quantity
  BY <1>8 DEF F
<1>11. b[k + 1] <= q
  <2>1. CASE k = 0
    BY <1>1, <2>1
  <2>2. CASE k > 0
    BY <1>6, <1>9, <2>2
  <2> QED
    BY <1>6, <2>1, <2>2
<1>12. ASSUME k < n
       PROVE  /\ Taken(lots, k + 1, q) = q - b[k + 1] /\ q - b[k + 1] < w[k + 1]
  <2>1. k + 1 \in 1..n /\ k + 1 \in 1..(n + 1) /\ k + 2 \in 1..(n + 1) /\ k + 2 = (k + 1) + 1
    BY <1>6, <1>12
  <2>2. ~(b[(k + 1) + 1] <= q)
    BY <1>6, <1>9, <2>1
  <2>3. b[(k + 1) + 1] = b[k + 1] + w[k + 1] /\ b[k + 1] \in Nat /\ w[k + 1] \in Nat
    BY <1>1, <2>1
  <2>4. q - b[k + 1] < w[k + 1] /\ q - b[k + 1] >= 0
    BY <1>11, <2>2, <2>3
  <2> QED
    BY <1>2, <2>1, <2>3, <2>4 DEF Least, NotNeg
<1>13. ASSUME NEW i \in (k + 2)..n PROVE Taken(lots, i, q) = 0
  <2>1. i - 1 \in 1..n /\ i \in 1..n /\ i \in 1..(n + 1) /\ ~(i - 1 <= k) /\ (i - 1) + 1 = i
    BY <1>1, <1>6
  <2>2. ~(b[i] <= q) /\ b[i] \in Nat /\ w[i] \in Nat
    BY <1>1, <1>9, <2>1
  <2>3. NotNeg(q - b[i]) = 0
    BY <2>2 DEF NotNeg
  <2> QED
    BY <1>2, <2>1, <2>2, <2>3 DEF Least
<1>14. k + 1 \in 1..(n + 1) /\ b[k + 1] = Before(lots, k + 1)
       /\ (k < n => w[k + 1] = lots[k + 1].quantity)
  BY <1>1, <1>6 DEF b, w
<1> QED
  BY <1>1, <1>6, <1>10, <1>11, <1>12, <1>13, <1>14 DEF k

\* g follows f from its second thing on, k things later.
Follows(f, g, k, m) ==
  /\ Amounts(f) /\ Amounts(g) /\ DOMAIN f = 1..(k + m) /\ DOMAIN g = 1..m
  /\ \A i \in 2..m : g[i] = f[k + i]

\* What is left of a total when its first things go and the next one loses a part.
LEMMA TotalTail ==
  ASSUME NEW k \in Nat, NEW m \in Nat, NEW f, NEW g, Follows(f, g, k, m)
  PROVE  /\ Total(Part(f, 1..k)) \in Nat /\ Total(f) \in Nat /\ Total(g) \in Nat
         /\ m > 0 => Total(f) + g[1] = Total(Part(f, 1..k)) + Total(g) + f[k + 1]
         /\ m = 0 => Total(f) = Total(Part(f, 1..k)) /\ Total(g) = 0
<1> DEFINE R == DOMAIN f \ (1..k)
           h == Total(Part(f, 1..k))
           a == Part(f, R)
           b == [j \in (k + 1)..(k + m) |-> g[j - k]]
<1>0. Amounts(f) /\ Amounts(g) /\ DOMAIN f = 1..(k + m) /\ DOMAIN g = 1..m
  BY DEF Follows
<1>1. R = (k + 1)..(k + m) /\ 1..k \subseteq DOMAIN f
  BY <1>0
<1>2. Amounts(Part(f, 1..k)) /\ Amounts(a) /\ Total(f) = h + Total(a)
  BY <1>0, <1>1, TotalParts
<1>12. Total(f) = h + Total(a)
  BY <1>2
<1>3. h \in Nat /\ Total(a) \in Nat /\ Total(f) \in Nat /\ Total(g) \in Nat
  BY <1>0, <1>2, UnitsFinite
<1>4. DOMAIN b = (k + 1)..(k + m) /\ \A i \in 1..m : g[i] = b[k + i]
  OBVIOUS
<1>5. Amounts(b)
  <2>1. IsFiniteSet((k + 1)..(k + m))
    BY FS_Interval
  <2>2. \A j \in (k + 1)..(k + m) : j - k \in 1..m
    OBVIOUS
  <2> QED
    BY <1>0, <2>1, <2>2 DEF Amounts
<1>6. DOMAIN a = (k + 1)..(k + m) /\ \A j \in (k + 1)..(k + m) : a[j] = f[j]
  BY <1>1 DEF Part
<1>7. \A j \in (k + 1)..(k + m) : j # k + 1 => b[j] = a[j]
  <2> SUFFICES ASSUME NEW j \in (k + 1)..(k + m), j # k + 1 PROVE b[j] = a[j]
    OBVIOUS
  <2>1. j - k \in 2..m /\ k + (j - k) = j
    OBVIOUS
  <2>2. g[j - k] = f[j]
    BY <2>1 DEF Follows
  <2> QED
    BY <1>6, <2>2
<1>8. DOMAIN b = DOMAIN a /\ DOMAIN a = (k + 1)..(k + m) /\ (m > 0 => b[k + 1] = g[1])
  BY <1>6
<1> HIDE DEF a, b, h
<1>9. Total(g) = Total(b)
  BY <1>0, <1>4, <1>5, TotalShift
<1>10. CASE m > 0
  <2>1. k + 1 \in (k + 1)..(k + m)
    BY <1>10
  <2>2. \A j : j # k + 1 => Of(a, j) = Of(b, j)
    BY <1>7, <1>8 DEF Of
  <2>3. Total(b) + Of(a, k + 1) = Total(a) + Of(b, k + 1)
        /\ Of(a, k + 1) \in Nat /\ Of(b, k + 1) \in Nat
    BY <1>2, <1>5, <2>2, TotalChange
  <2>4. Of(a, k + 1) = f[k + 1] /\ Of(b, k + 1) = g[1]
    BY <1>6, <1>8, <1>10, <2>1 DEF Of
  <2> DEFINE x == f[k + 1]
             y == g[1]
  <2>5. x \in Nat /\ y \in Nat /\ Total(g) + x = Total(a) + y
    BY <1>9, <2>3, <2>4
  <2> HIDE DEF x, y
  <2>6. Total(f) + y = h + Total(g) + x
    BY <1>12, <1>3, <2>5
  <2> QED
    BY <1>3, <1>10, <2>6 DEF h, x, y
<1>11. CASE m = 0
  <2>1. DOMAIN a = {} /\ DOMAIN b = {}
    BY <1>8, <1>11
  <2>2. Total(a) = 0 /\ Total(b) = 0
    BY <1>2, <1>5, <2>1, TotalNone
  <2> QED
    BY <1>2, <1>3, <1>9, <1>11, <2>2 DEF h
<1> QED
  BY <1>3, <1>10, <1>11 DEF h

\* _decrease_position takes q units, and no more than q of any age.
LEMMA ConsumeLots ==
  ASSUME NEW lots \in Seq(Lot), NEW q \in Nat, q <= LotsOf(lots)
  PROVE  LET r == Consume(lots, q)
         IN /\ r \in Seq(Lot) /\ LotsOf(r) = LotsOf(lots) - q
            /\ \A F : Ripe(lots, F) <= Ripe(r, F) + q
            /\ \E k \in Nat : \A i \in DOMAIN r :
                 k + i \in DOMAIN lots /\ r[i].from = lots[k + i].from
<1> DEFINE r == Consume(lots, q)
           n == Len(lots)
           k == Spent(lots, q)
           m == n - k
           b == Before(lots, k + 1)
           c == q - b
<1>1. /\ n \in Nat /\ DOMAIN lots = 1..n
      /\ \A i \in 1..n : /\ lots[i] \in Lot /\ lots[i].quantity \in Nat /\ lots[i].quantity > 0
                         /\ lots[i].from \in Nat
  BY LotTypes
<1>2. /\ k \in 0..n /\ b <= q
      /\ k < n => Taken(lots, k + 1, q) = c /\ c < lots[k + 1].quantity
      /\ \A i \in (k + 2)..n : Taken(lots, i, q) = 0
  BY SpentFirst
<1>3. /\ b \in Nat /\ c \in Nat /\ k \in Nat /\ m \in Nat
      /\ n = k + m /\ (m > 0 <=> k < n)
  <2>1. /\ k + 1 \in 1..(n + 1) /\ k \in Nat /\ m \in Nat
        /\ n = k + m /\ (m > 0 <=> k < n)
    BY <1>1, <1>2
  <2>2. b \in Nat
    BY <2>1, BeforeSteps
  <2>3. b <= q
    BY <1>2
  <2>4. c \in Nat
    BY <2>2, <2>3
  <2> QED
    BY <2>1, <2>2, <2>4
<1>4. r = [i \in 1..m |-> [lots[k + i] EXCEPT !.quantity = @ - Taken(lots, k + i, q)]]
  BY DEF Consume
<1> HIDE DEF k, b, m, c
<1>5. \A i \in 1..m : k + i \in 1..n /\ (i = 1 => k + i = k + 1 /\ k < n)
                      /\ (i # 1 => i \in 2..m /\ k + i \in (k + 2)..n)
  BY <1>1, <1>2, <1>3 DEF m
<1>6. /\ DOMAIN r = 1..m
      /\ \A i \in 1..m : /\ r[i] \in Lot /\ r[i].from = lots[k + i].from
                         /\ r[i].quantity = lots[k + i].quantity - (IF i = 1 THEN c ELSE 0)
  <2> SUFFICES ASSUME NEW i \in 1..m
               PROVE  /\ r[i] \in Lot /\ r[i].from = lots[k + i].from
                      /\ r[i].quantity = lots[k + i].quantity - (IF i = 1 THEN c ELSE 0)
    BY <1>4
  <2> DEFINE x == lots[k + i].quantity - Taken(lots, k + i, q)
  <2>1. k + i \in 1..n /\ lots[k + i] \in Lot /\ lots[k + i].quantity \in Nat
        /\ lots[k + i].quantity > 0
    BY <1>1, <1>5
  <2>2. x = lots[k + i].quantity - (IF i = 1 THEN c ELSE 0)
    BY <1>2, <1>5
  <2>3. x \in Nat \ {0}
    BY <1>2, <1>3, <1>5, <2>1, <2>2
  <2>4. r[i] = [lots[k + i] EXCEPT !.quantity = x]
    BY <1>4, <2>1 DEF Lot
  <2> HIDE DEF x, r
  <2>5. r[i] \in Lot /\ r[i].from = lots[k + i].from /\ r[i].quantity = x
    BY <2>1, <2>3, <2>4 DEF Lot
  <2> QED
    BY <2>2, <2>5
<1>7. r \in Seq(Lot) /\ Len(r) = m
  <2>1. r \in [1..m -> Lot]
    BY <1>4, <1>6
  <2> QED
    BY <1>3, <2>1
<1> HIDE DEF r
<1>8. /\ DOMAIN Weights(r) = 1..m /\ DOMAIN Weights(lots) = 1..(k + m)
      /\ \A i \in 1..m : Weights(r)[i] = r[i].quantity
      /\ \A i \in 1..n : Weights(lots)[i] = lots[i].quantity
  BY <1>1, <1>3, <1>6 DEF Weights
<1>9. Total(Part(Weights(lots), 1..k)) = b
  <2>1. Part(Weights(lots), 1..k) = [j \in 1..((k + 1) - 1) |-> lots[j].quantity]
    <3>1. 1..((k + 1) - 1) = 1..k /\ \A j \in 1..k : j \in 1..n
      BY <1>1, <1>2, <1>3
    <3>2. \A j \in 1..k : Weights(lots)[j] = lots[j].quantity
      BY <1>8, <3>1
    <3> QED
      BY <3>1, <3>2 DEF Part
  <2> QED
    BY <2>1 DEF b, Before
<1>10. LotsOf(r) = LotsOf(lots) - q
  <2>1. \A i \in 2..m : Weights(r)[i] = Weights(lots)[k + i]
    <3>1. \A i \in 2..m : i \in 1..m /\ i # 1
      BY DEF m
    <3> QED
      BY <1>1, <1>3, <1>5, <1>6, <1>8, <3>1
  <2>2. Amounts(Weights(r)) /\ Amounts(Weights(lots))
    BY <1>7, LotAmounts
  <2> DEFINE X == Total(Weights(lots))
             Y == Total(Weights(r))
  <2>3. /\ X \in Nat /\ Y \in Nat
        /\ m > 0 => X + Weights(r)[1] = b + Y + Weights(lots)[k + 1]
        /\ m = 0 => X = b /\ Y = 0
    <3> DEFINE f == Weights(lots)
               g == Weights(r)
    <3>0. Follows(f, g, k, m)
      BY <1>8, <2>1, <2>2 DEF Follows
    <3>1. Total(Part(f, 1..k)) = b
      BY <1>9
    <3> HIDE DEF f, g, n
    <3>2. /\ Total(f) \in Nat /\ Total(g) \in Nat
          /\ m > 0 => Total(f) + g[1] = b + Total(g) + f[k + 1]
          /\ m = 0 => Total(f) = b /\ Total(g) = 0
      <4>1. m \in Nat /\ k \in Nat
        BY <1>3
      <4>2. /\ Total(Part(f, 1..k)) \in Nat /\ Total(f) \in Nat /\ Total(g) \in Nat
            /\ m > 0 => Total(f) + g[1] = Total(Part(f, 1..k)) + Total(g) + f[k + 1]
            /\ m = 0 => Total(f) = Total(Part(f, 1..k)) /\ Total(g) = 0
        BY <3>0, <4>1, TotalTail
      <4> QED
        BY <3>1, <4>2
    <3> QED
      BY <3>2 DEF f, g
  <2>4. X = LotsOf(lots) /\ Y = LotsOf(r)
    BY <1>7, LotAmounts
  <2> HIDE DEF X, Y
  <2>5. CASE m > 0
    <3>1. 1 \in 1..m /\ k + 1 \in 1..n
      BY <1>1, <1>3, <2>5
    <3>2. Weights(r)[1] = lots[k + 1].quantity - c
          /\ Weights(lots)[k + 1] = lots[k + 1].quantity /\ lots[k + 1].quantity \in Nat
      BY <1>1, <1>6, <1>8, <3>1
    <3> DEFINE w == lots[k + 1].quantity
               y == Weights(r)[1]
    <3>3. X + y = b + Y + w
      BY <2>3, <2>5, <3>2
    <3>4. y = w - c /\ w \in Nat
      BY <3>2
    <3>5. X \in Nat /\ Y \in Nat /\ b \in Nat /\ c \in Nat /\ c = q - b
      BY <1>3, <2>3 DEF c
    <3> HIDE DEF w, y
    <3>6. Y = X - q
      BY <3>3, <3>4, <3>5
    <3> QED
      BY <2>4, <3>6
  <2>6. CASE m = 0
    BY <1>2, <1>3, <2>3, <2>4, <2>6
  <2> QED
    BY <1>3, <2>5, <2>6
<1>11. ASSUME NEW F PROVE Ripe(lots, F) <= Ripe(r, F) + q
  <2> DEFINE f == Ages(lots, F)
             g == Ages(r, F)
             h == Total(Part(f, 1..k))
  <2>1. /\ DOMAIN g = 1..m /\ DOMAIN f = 1..(k + m)
        /\ \A i \in 1..m : g[i] = IF r[i].from \in F THEN r[i].quantity ELSE 0
        /\ \A i \in 1..n : f[i] = IF lots[i].from \in F THEN lots[i].quantity ELSE 0
    BY <1>1, <1>3, <1>6 DEF Ages
  <2>2. \A i \in 2..m : g[i] = f[k + i]
    <3>1. \A i \in 2..m : i \in 1..m /\ i # 1
      BY DEF m
    <3>2. \A i \in 2..m : r[i].from = lots[k + i].from /\ k + i \in 1..n
                                /\ r[i].quantity = lots[k + i].quantity
      BY <1>1, <1>3, <1>5, <1>6, <3>1
    <3> QED
      BY <2>1, <3>1, <3>2
  <2>3. Amounts(f) /\ Amounts(g) /\ Amounts(Weights(lots))
    BY <1>7, LotAmounts
  <2>4. \A i \in 1..n : f[i] \in Nat /\ f[i] <= Weights(lots)[i]
    <3> SUFFICES ASSUME NEW i \in 1..n PROVE f[i] \in Nat /\ f[i] <= Weights(lots)[i]
      OBVIOUS
    <3>1. /\ f[i] = IF lots[i].from \in F THEN lots[i].quantity ELSE 0
          /\ Weights(lots)[i] = lots[i].quantity /\ lots[i].quantity \in Nat
      BY <1>1, <1>8, <2>1
    <3> QED
      BY <3>1
  <2> HIDE DEF f, g
  <2>5. /\ h \in Nat /\ Total(f) \in Nat /\ Total(g) \in Nat
        /\ m > 0 => Total(f) + g[1] = h + Total(g) + f[k + 1]
        /\ m = 0 => Total(f) = h /\ Total(g) = 0
    <3> HIDE DEF n
    <3>1. Follows(f, g, k, m)
      BY <2>1, <2>2, <2>3 DEF Follows
    <3>2. m \in Nat /\ k \in Nat
      BY <1>3
    <3> HIDE DEF n, h
    <3>3. /\ Total(Part(f, 1..k)) \in Nat /\ Total(f) \in Nat /\ Total(g) \in Nat
          /\ m > 0 => Total(f) + g[1] = Total(Part(f, 1..k)) + Total(g) + f[k + 1]
          /\ m = 0 => Total(f) = Total(Part(f, 1..k)) /\ Total(g) = 0
      BY <3>1, <3>2, TotalTail
    <3> QED
      BY <3>3 DEF h
  <2>6. h <= b
    <3>0. 1..k \subseteq 1..n
      BY <1>1, <1>2
    <3>1. Amounts(Part(f, 1..k)) /\ Amounts(Part(Weights(lots), 1..k))
      BY <1>3, <1>8, <2>1, <2>3, <3>0, TotalParts
    <3>2. \A j : Of(Part(f, 1..k), j) <= Of(Part(Weights(lots), 1..k), j)
      BY <2>4, <3>0 DEF Of, Part
    <3> QED
      BY <1>9, <3>1, <3>2, TotalLeq
  <2> HIDE DEF h
  <2>7. Ripe(lots, F) = Total(f) /\ Ripe(r, F) = Total(g)
    BY DEF Ripe, f, g
  <2>8. CASE m > 0
    <3>1. 1 \in 1..m /\ k + 1 \in 1..n
      BY <1>1, <1>3, <2>8
    <3>2. /\ r[1].from = lots[k + 1].from /\ r[1].quantity = lots[k + 1].quantity - c
          /\ lots[k + 1].quantity \in Nat
      BY <1>1, <1>6, <3>1
    <3>3. g[1] \in Int /\ f[k + 1] \in Int /\ f[k + 1] - g[1] <= c
      BY <1>3, <2>1, <3>1, <3>2
    <3> QED
      BY <1>3, <2>5, <2>6, <2>7, <2>8, <3>3 DEF c
  <2>9. CASE m = 0
    BY <1>2, <1>3, <2>5, <2>6, <2>7, <2>9
  <2> QED
    BY <1>3, <2>8, <2>9
<1>12. \A i \in DOMAIN r : k + i \in DOMAIN lots /\ r[i].from = lots[k + i].from
  BY <1>1, <1>5, <1>6
<1> QED
  BY <1>3, <1>7, <1>10, <1>11, <1>12 DEF r
-----------------------------------------------------------------------------
(* The position row as its lots have it, and what a fill does to it. *)

Position == [row : BOOLEAN, total : Nat, free : Nat, frozen : Nat, margin : Nat, value : Nat,
             settled : Nat, lots : Seq(Lot)]

\* The units of a security are the units of its lots; a future has no lots.
IsStock(p) == p \in Position /\ IF Future THEN p.lots = <<>> ELSE LotsOf(p.lots) = p.total

\* Lots are in the order of the days they are free from, none later than the day
\* after one that was reached.
Aged(p, D) ==
  /\ \A d \in D : \A i \in DOMAIN p.lots : p.lots[i].from <= d + 1
  /\ \A i, j \in DOMAIN p.lots : i <= j => p.lots[i].from <= p.lots[j].from

\* What is free or frozen has matured by every day that was reached.
Ripens(p, D) == (\A d \in D : p.free + p.frozen <= Matured(p, d)) /\ Aged(p, D)

\* The same units, perhaps fewer of them free or frozen.
Calmer(p, r) ==
  IsStock(r) /\ r.total = p.total /\ r.lots = p.lots /\ r.free + r.frozen <= p.free + p.frozen

\* The fields of a position row.
LEMMA StockFields ==
  ASSUME NEW p, IsStock(p)
  PROVE  /\ p \in Position /\ p.total \in Nat /\ p.free \in Nat /\ p.frozen \in Nat
         /\ p.margin \in Nat /\ p.value \in Nat /\ p.settled \in Nat /\ p.lots \in Seq(Lot)
BY DEF IsStock, Position

\* No less matures with time, and never more than there is.
LEMMA MaturedFacts ==
  ASSUME NEW p, IsStock(p), NEW d \in Nat, NEW e \in Nat, d <= e
  PROVE  /\ Matured(p, d) \in Nat /\ Matured(p, e) \in Nat /\ Matured(p, e) <= p.total
         /\ Matured(p, d) <= Matured(p, e)
<1>1. p.lots \in Seq(Lot) /\ p.total \in Nat
  BY StockFields
<1>2. CASE Future
  BY <1>1, <1>2 DEF Matured
<1>3. CASE ~Future
  <2>1. Matured(p, d) = Ripe(p.lots, UpTo(d)) /\ Matured(p, e) = Ripe(p.lots, UpTo(e))
    BY <1>1, <1>3, RipeIsMatured
  <2>2. UpTo(d) \subseteq UpTo(e)
    BY DEF UpTo
  <2>3. LotsOf(p.lots) = p.total
    BY <1>3 DEF IsStock
  <2> QED
    BY <1>1, <2>1, <2>2, <2>3, LotAmounts, RipeGrows
<1> QED
  BY <1>2, <1>3

\* Fewer free or frozen units of the same lots have matured as well.
LEMMA CalmerRipens ==
  ASSUME NEW p, NEW r, IsStock(p), Calmer(p, r), NEW D, D \subseteq Nat, Ripens(p, D)
  PROVE  Ripens(r, D)
<1>1. r.lots = p.lots /\ r.total = p.total /\ r.free + r.frozen <= p.free + p.frozen
  BY DEF Calmer
<1>2. \A d \in D : Matured(r, d) = Matured(p, d)
  BY <1>1 DEF Matured
<1>3. \A d \in D : Matured(p, d) \in Nat
  BY MaturedFacts
<1>4. p.free + p.frozen \in Nat /\ r.free + r.frozen \in Nat
  BY StockFields DEF Calmer
<1>5. \A d \in D : r.free + r.frozen <= Matured(r, d)
  BY <1>1, <1>2, <1>3, <1>4 DEF Ripens
<1> QED
  BY <1>1, <1>5 DEF Ripens, Aged

\* Units are set aside or released.
SetAside(r, p, f, a) == r = [p EXCEPT !.frozen = f, !.free = a]

\* Only the free and the frozen units differ.
LEMMA StockUnits ==
  ASSUME NEW p, IsStock(p), NEW f \in Nat, NEW a \in Nat, NEW r, SetAside(r, p, f, a)
  PROVE  IsStock(r) /\ r.frozen = f /\ r.free = a /\ r.total = p.total /\ r.lots = p.lots
BY DEF IsStock, Position, SetAside

\* Only the free units differ.
LEMMA StockFree ==
  ASSUME NEW p, IsStock(p), NEW a \in Nat
  PROVE  LET r == [p EXCEPT !.free = a]
         IN IsStock(r) /\ r.frozen = p.frozen /\ r.free = a /\ r.total = p.total
            /\ r.lots = p.lots
BY DEF IsStock, Position

\* Every matured unit that is not frozen becomes free.
LEMMA StockFreed ==
  ASSUME NEW p, IsStock(p), NEW day \in Nat
  PROVE  LET r == [p EXCEPT !.free = NotNeg(Matured(p, day) - p.frozen)]
         IN /\ IsStock(r) /\ r.frozen = p.frozen /\ r.total = p.total /\ r.lots = p.lots
            /\ p.frozen <= p.total => r.free + r.frozen <= r.total
            /\ \A D \in SUBSET Nat :
                 /\ Aged(p, D)
                 /\ \A d \in D : day <= d /\ p.frozen <= Matured(p, d)
                 => Ripens(r, D)
<1> DEFINE a == NotNeg(Matured(p, day) - p.frozen)
           r == [p EXCEPT !.free = a]
<1>1. Matured(p, day) \in Nat /\ p.frozen \in Nat /\ Matured(p, day) <= p.total /\ p.total \in Nat
  BY MaturedFacts, StockFields
<1>2. a \in Nat /\ (a + p.frozen = Matured(p, day) \/ a + p.frozen = p.frozen)
  BY <1>1 DEF NotNeg
<1> HIDE DEF a
<1>3. IsStock(r) /\ r.frozen = p.frozen /\ r.free = a /\ r.total = p.total /\ r.lots = p.lots
  BY <1>2, StockFree
<1> HIDE DEF r
<1>4. ASSUME NEW D \in SUBSET Nat, Aged(p, D),
             \A d \in D : day <= d /\ p.frozen <= Matured(p, d)
      PROVE  Ripens(r, D)
  <2>1. ASSUME NEW d \in D PROVE r.free + r.frozen <= Matured(r, d)
    <3>1. Matured(r, d) = Matured(p, d)
      BY <1>3 DEF Matured
    <3>2. day <= d /\ p.frozen <= Matured(p, d)
      BY <1>4
    <3>3. Matured(p, day) <= Matured(p, d)
      BY <3>2, MaturedFacts
    <3> QED
      BY <1>1, <1>2, <1>3, <3>1, <3>2, <3>3
  <2>2. Aged(r, D)
    BY <1>3, <1>4 DEF Aged
  <2> QED
    BY <2>1, <2>2 DEF Ripens
<1>5. p.frozen <= p.total => r.free + r.frozen <= r.total
  BY <1>1, <1>2, <1>3
<1> QED
  BY <1>3, <1>4, <1>5 DEF r, a

\* A margin is an amount.
LEMMA MarginNat == ASSUME NEW v \in Nat PROVE MarginOf(v) \in Nat
<1>1. MarginDiv \in Nat /\ MarginDiv > 0
  BY SimAssumption
<1>2. v \div MarginDiv \in Int /\ v \div MarginDiv >= 0
  BY <1>1
<1> QED
  BY <1>2 DEF MarginOf

\* _increase_position.
LEMMA IncreaseStock ==
  ASSUME NEW p, IsStock(p), NEW q \in Nat \ {0}, NEW price \in Nat, NEW day \in Nat
  PROVE  LET r == Increase(p, q, price, day)
         IN /\ IsStock(r) /\ r.frozen = p.frozen /\ r.total = p.total + q
            /\ p.frozen <= p.total => r.free + r.frozen <= r.total
            /\ \A D \in SUBSET Nat :
                 Ripens(p, D) /\ day \in D /\ (\A d \in D : day <= d) => Ripens(r, D)
<1> DEFINE m == p.margin + (IF Future THEN MarginOf(q * price) ELSE 0)
           v == p.value + (IF Future THEN q * price ELSE 0)
           n == p.total + q
           lot == [quantity |-> q, from |-> day + 1]
           l == IF Future THEN p.lots ELSE Append(p.lots, lot)
           b == [p EXCEPT !.row = TRUE, !.total = n, !.margin = m, !.value = v, !.lots = l]
           r == Increase(p, q, price, day)
<1>1. /\ p \in Position /\ p.total \in Nat /\ p.free \in Nat /\ p.frozen \in Nat
      /\ p.margin \in Nat /\ p.value \in Nat /\ p.lots \in Seq(Lot)
  BY StockFields
<1>2. n \in Nat /\ m \in Nat /\ v \in Nat
  <2> DEFINE w == q * price
  <2>1. w \in Nat
    OBVIOUS
  <2> HIDE DEF w
  <2>2. MarginOf(w) \in Nat
    BY <2>1, MarginNat
  <2> QED
    BY <1>1, <2>1, <2>2 DEF w
<1>3. lot \in Lot /\ lot.quantity = q /\ lot.from = day + 1
  BY DEF Lot
<1>4. r = [b EXCEPT !.free = NotNeg(Matured(b, day) - b.frozen)]
  BY <1>1 DEF Increase, Position
<1> HIDE DEF lot, m, v, r
<1>5. l \in Seq(Lot) /\ (Future => l = p.lots) /\ (~Future => l = Append(p.lots, lot))
  BY <1>1, <1>3
<1>6. ~Future => LotsOf(l) = LotsOf(p.lots) + q
  BY <1>1, <1>3, <1>5, LotAdded
<1> HIDE DEF l
<1>7. IsStock(b) /\ b.frozen = p.frozen /\ b.free = p.free /\ b.total = n /\ b.lots = l
  <2> HIDE DEF n
  <2>1. b \in Position /\ b.frozen = p.frozen /\ b.free = p.free /\ b.total = n /\ b.lots = l
    BY <1>1, <1>2, <1>5 DEF Position
  <2> HIDE DEF b
  <2>2. IF Future THEN b.lots = <<>> ELSE LotsOf(b.lots) = b.total
    BY <1>5, <1>6, <2>1 DEF IsStock, n
  <2> QED
    BY <2>1, <2>2 DEF IsStock
<1> HIDE DEF b
<1>8. /\ IsStock(r) /\ r.frozen = b.frozen /\ r.total = b.total /\ r.lots = b.lots
      /\ b.frozen <= b.total => r.free + r.frozen <= r.total
      /\ \A D \in SUBSET Nat :
           Aged(b, D) /\ (\A d \in D : day <= d /\ b.frozen <= Matured(b, d)) => Ripens(r, D)
  BY <1>4, <1>7, StockFreed
<1>9. ASSUME NEW D \in SUBSET Nat, Ripens(p, D), day \in D, \A d \in D : day <= d
      PROVE  Ripens(r, D)
  <2>1. Aged(b, D)
    <3>1. CASE Future
      <4>1. b.lots = p.lots
        BY <1>5, <1>7, <3>1
      <4> QED
        BY <1>9, <4>1 DEF Ripens, Aged
    <3>2. CASE ~Future
      <4> DEFINE k == Len(p.lots)
      <4>1. /\ k \in Nat /\ DOMAIN p.lots = 1..k
            /\ \A i \in 1..k : p.lots[i].from \in Nat
        BY <1>1, LotTypes
      <4>2. /\ DOMAIN b.lots = 1..(k + 1) /\ b.lots[k + 1].from = day + 1
            /\ \A i \in 1..k : b.lots[i] = p.lots[i]
        BY <1>1, <1>3, <1>5, <1>7, <3>2, <4>1
      <4>3. /\ \A d \in D : \A i \in 1..k : p.lots[i].from <= d + 1
            /\ \A i, j \in 1..k : i <= j => p.lots[i].from <= p.lots[j].from
        BY <1>9, <4>1 DEF Ripens, Aged
      <4> HIDE DEF k
      <4>4. \A i \in 1..(k + 1) : i \in 1..k \/ i = k + 1
        BY <4>1
      <4>5. ASSUME NEW d \in D, NEW i \in 1..(k + 1) PROVE b.lots[i].from <= d + 1
        <5>1. d \in Nat /\ day <= d
          BY <1>9
        <5> QED
          BY <4>2, <4>3, <4>4, <5>1
      <4>6. ASSUME NEW i \in 1..(k + 1), NEW j \in 1..(k + 1), i <= j
            PROVE  b.lots[i].from <= b.lots[j].from
        <5>1. CASE j \in 1..k
          <6>1. i \in 1..k
            BY <4>1, <4>6, <5>1
          <6> QED
            BY <4>2, <4>3, <4>6, <5>1, <6>1
        <5>2. CASE j = k + 1
          <6>1. day + 1 <= day + 1 /\ day \in D
            BY <1>9
          <6> QED
            BY <4>2, <4>3, <4>4, <5>2, <6>1
        <5> QED
          BY <4>4, <5>1, <5>2
      <4> QED
        BY <4>2, <4>5, <4>6 DEF Aged
    <3> QED
      BY <3>1, <3>2
  <2>2. ASSUME NEW d \in D PROVE day <= d /\ b.frozen <= Matured(b, d)
    <3>1. p.free + p.frozen <= Matured(p, d) /\ Matured(p, d) \in Nat /\ d \in Nat
      BY <1>9, MaturedFacts DEF Ripens
    <3>2. Matured(p, d) <= Matured(b, d) /\ Matured(b, d) \in Nat
      <4>1. Matured(b, d) \in Nat
        BY <1>7, <3>1, MaturedFacts
      <4>2. CASE Future
        BY <1>1, <1>7, <4>1, <4>2 DEF Matured, n
      <4>3. CASE ~Future
        <5>1. b.lots \in Seq(Lot)
          BY <1>7, StockFields
        <5>2. Matured(b, d) = Ripe(b.lots, UpTo(d)) /\ Matured(p, d) = Ripe(p.lots, UpTo(d))
          BY <1>1, <3>1, <4>3, <5>1, RipeIsMatured
        <5>3. b.lots = Append(p.lots, lot)
          BY <1>5, <1>7, <4>3
        <5> QED
          BY <1>1, <1>3, <3>1, <4>1, <5>2, <5>3, LotAdded
      <4> QED
        BY <4>1, <4>2, <4>3
    <3> QED
      BY <1>1, <1>7, <1>9, <3>1, <3>2
  <2> QED
    BY <1>8, <2>1, <2>2
<1> QED
  BY <1>1, <1>7, <1>8, <1>9 DEF r, n

\* What a sale leaves of the lots.
LEMMA ConsumeStock ==
  ASSUME NEW p, IsStock(p), NEW q \in Nat, q <= p.total
  PROVE  LET b == [p EXCEPT !.total = p.total - q, !.lots = Consume(p.lots, q)]
         IN /\ IsStock(b) /\ b.total = p.total - q /\ b.frozen = p.frozen
            /\ \A d \in Nat : Matured(p, d) <= Matured(b, d) + q
            /\ \A D : Aged(p, D) => Aged(b, D)
<1> DEFINE n == p.total - q
           l == Consume(p.lots, q)
           b == [p EXCEPT !.total = n, !.lots = l]
<1>1. p \in Position /\ p.total \in Nat /\ p.lots \in Seq(Lot)
  BY StockFields
<1>2. n \in Nat
  BY <1>1
<1>3. l \in Seq(Lot) /\ (IF Future THEN l = <<>> ELSE LotsOf(l) = n)
      /\ \E k \in Nat : \A i \in DOMAIN l :
           k + i \in DOMAIN p.lots /\ l[i].from = p.lots[k + i].from
  <2>1. CASE Future
    <3>1. p.lots = <<>>
      BY <2>1 DEF IsStock
    <3>2. {i \in DOMAIN p.lots : Taken(p.lots, i, q) = p.lots[i].quantity} = {}
      BY <3>1
    <3>3. Spent(p.lots, q) = 0
      BY <3>2, FS_EmptySet DEF Spent
    <3>4. l \in [1..0 -> Lot]
      BY <3>1, <3>3 DEF Consume
    <3>5. l \in Seq(Lot) /\ Len(l) = 0
      BY <3>4
    <3>6. l = <<>> /\ DOMAIN l = {}
      BY <3>5
    <3> QED
      BY <2>1, <3>5, <3>6
  <2>2. CASE ~Future
    <3>1. LotsOf(p.lots) = p.total
      BY <2>2 DEF IsStock
    <3> QED
      BY <1>1, <2>2, <3>1, ConsumeLots
  <2> QED
    BY <2>1, <2>2
<1>4. ~Future => \A F : Ripe(p.lots, F) <= Ripe(l, F) + q
  <2>1. ~Future => LotsOf(p.lots) = p.total
    BY DEF IsStock
  <2> QED
    BY <1>1, <2>1, ConsumeLots
<1> HIDE DEF n, l
<1>5. b \in Position /\ b.total = n /\ b.frozen = p.frozen /\ b.lots = l
  BY <1>1, <1>2, <1>3 DEF Position
<1> HIDE DEF b
<1>6. IsStock(b)
  BY <1>3, <1>5 DEF IsStock
<1>7. ASSUME NEW d \in Nat PROVE Matured(p, d) <= Matured(b, d) + q
  <2>1. CASE Future
    BY <1>1, <1>5, <2>1 DEF Matured, n
  <2>2. CASE ~Future
    <3>1. Matured(b, d) = Ripe(l, UpTo(d)) /\ Matured(p, d) = Ripe(p.lots, UpTo(d))
      BY <1>1, <1>3, <1>5, <2>2, RipeIsMatured
    <3> QED
      BY <1>4, <2>2, <3>1
  <2> QED
    BY <2>1, <2>2
<1>8. ASSUME NEW D, Aged(p, D) PROVE Aged(b, D)
  <2>1. PICK k \in Nat : \A i \in DOMAIN l :
          k + i \in DOMAIN p.lots /\ l[i].from = p.lots[k + i].from
    BY <1>3
  <2>2. \A i \in DOMAIN l : i \in Nat
    BY <1>3
  <2>3. \A i, j \in DOMAIN l : i <= j => k + i <= k + j
    BY <2>2
  <2> QED
    BY <1>5, <1>8, <2>1, <2>3 DEF Aged
<1> QED
  BY <1>5, <1>6, <1>7, <1>8 DEF b, n, l

\* _decrease_position.
LEMMA DecreaseStock ==
  ASSUME NEW p, IsStock(p), NEW q \in Nat, q <= p.total, NEW day \in Nat
  PROVE  LET r == Decrease(p, q, day)
         IN /\ IsStock(r) /\ r.total = p.total - q
            /\ p.frozen <= p.total - q => r.frozen = p.frozen /\ r.free + r.frozen <= r.total
            /\ \A D \in SUBSET Nat :
                 Aged(p, D) /\ (\A d \in D : day <= d /\ p.frozen + q <= Matured(p, d))
                   => Ripens(r, D)
<1> DEFINE b == [p EXCEPT !.total = p.total - q, !.lots = Consume(p.lots, q)]
           r == Decrease(p, q, day)
           z == [b EXCEPT !.total = 0, !.free = 0, !.frozen = 0, !.lots = <<>>]
<1>1. p.total \in Nat /\ p.frozen \in Nat /\ q \in Nat
  BY StockFields
<1>2. r = IF b.total <= 0 THEN z ELSE [b EXCEPT !.free = NotNeg(Matured(b, day) - b.frozen)]
  BY DEF Decrease
<1>3. /\ IsStock(b) /\ b.total = p.total - q /\ b.frozen = p.frozen
      /\ \A d \in Nat : Matured(p, d) <= Matured(b, d) + q
      /\ \A D : Aged(p, D) => Aged(b, D)
  BY ConsumeStock
<1> HIDE DEF b, r
<1>4. CASE b.total <= 0
  <2>1. p.total = q
    BY <1>1, <1>3, <1>4
  <2>2. b \in Position
    BY <1>3, StockFields
  <2>3. /\ z \in Position /\ z.total = 0 /\ z.free = 0 /\ z.frozen = 0 /\ z.lots = <<>>
    <3> DEFINE e == <<>>
               o == 0
               y == [b EXCEPT !.total = o, !.free = o, !.frozen = o, !.lots = e]
    <3>1. e \in Seq(Lot) /\ o \in Nat /\ z = y
      OBVIOUS
    <3> HIDE DEF e, o, z
    <3>2. y \in Position /\ y.total = o /\ y.free = o /\ y.frozen = o /\ y.lots = e
      BY <2>2, <3>1 DEF Position
    <3> QED
      BY <3>1, <3>2 DEF e, o
  <2> HIDE DEF z
  <2>4. LotsOf(<<>>) = 0
    <3>1. Amounts(Weights(<<>>)) /\ LotsOf(<<>>) = Total(Weights(<<>>))
      <4>1. <<>> \in Seq(Lot)
        OBVIOUS
      <4> QED
        BY <4>1, LotAmounts
    <3>2. DOMAIN Weights(<<>>) = {}
      BY DEF Weights
    <3> QED
      BY <3>1, <3>2, TotalNone
  <2>5. IsStock(z)
    BY <2>3, <2>4 DEF IsStock
  <2>6. r = z
    BY <1>2, <1>4
  <2>7. \A D \in SUBSET Nat : Ripens(z, D)
    <3> SUFFICES ASSUME NEW D \in SUBSET Nat PROVE Ripens(z, D)
      OBVIOUS
    <3>1. \A d \in D : Matured(z, d) \in Nat
      BY <2>5, MaturedFacts
    <3>2. DOMAIN z.lots = {}
      BY <2>3
    <3> QED
      BY <2>3, <3>1, <3>2 DEF Ripens, Aged
  <2> QED
    BY <1>1, <2>1, <2>3, <2>5, <2>6, <2>7 DEF r
<1>5. CASE ~(b.total <= 0)
  <2>1. r = [b EXCEPT !.free = NotNeg(Matured(b, day) - b.frozen)]
    BY <1>2, <1>5
  <2>2. /\ IsStock(r) /\ r.frozen = b.frozen /\ r.total = b.total /\ r.lots = b.lots
        /\ b.frozen <= b.total => r.free + r.frozen <= r.total
        /\ \A D \in SUBSET Nat :
             Aged(b, D) /\ (\A d \in D : day <= d /\ b.frozen <= Matured(b, d)) => Ripens(r, D)
    BY <1>3, <2>1, StockFreed
  <2>3. ASSUME NEW D \in SUBSET Nat, Aged(p, D),
               \A d \in D : day <= d /\ p.frozen + q <= Matured(p, d)
        PROVE  Ripens(r, D)
    <3>1. ASSUME NEW d \in D PROVE day <= d /\ b.frozen <= Matured(b, d)
      <4>1. Matured(p, d) \in Nat /\ Matured(b, d) \in Nat
        BY <1>3, MaturedFacts
      <4>2. p.frozen + q <= Matured(p, d) /\ Matured(p, d) <= Matured(b, d) + q
        BY <1>3, <2>3
      <4> QED
        BY <1>1, <1>3, <2>3, <4>1, <4>2
    <3> QED
      BY <1>3, <2>2, <2>3, <3>1
  <2> QED
    BY <1>3, <2>2, <2>3 DEF r
<1> QED
  BY <1>4, <1>5
-----------------------------------------------------------------------------
(* What is set aside: the orders that hold it, and the close of an order. *)

\* An order row is active, holds what it still has to sell, and nothing once it ended.
Active(o)       == o.status \in {"acknowledged", "partially_filled"}
WorkingIn(rows) == {i \in DOMAIN rows : Active(rows[i])}
Fits(o) ==
  IF Active(o) THEN o.held = (IF o.effect = "close" THEN o.quantity - o.filled ELSE 0)
  ELSE o.cash = 0 /\ o.held = 0

\* The account and the position set aside exactly what the active orders hold.
Backs(acc, p, rows) ==
  /\ acc.frozen = CashOf(rows, WorkingIn(rows)) /\ p.frozen = HeldOf(rows, WorkingIn(rows))
  /\ p.free + p.frozen <= p.total
  /\ kind = "cash" /\ FeesPaid => acc.cash >= 0
  /\ \A j \in DOMAIN rows : Fits(rows[j])

\* The fields of an order row.
LEMMA OrderFields ==
  ASSUME NEW o \in Order
  PROVE  /\ o.quantity \in Nat /\ o.filled \in Nat /\ o.cash \in Nat /\ o.held \in Nat
         /\ o.session \in Sessions /\ o.effect \in {"open", "close"} /\ o \in Row
         /\ o.limit \in Prices \cup {0} /\ o.from \in Time
BY DEF Order, Row

CashAmounts(rows) == [i \in WorkingIn(rows) |-> rows[i].cash]
HeldAmounts(rows) == [i \in WorkingIn(rows) |-> rows[i].held]

\* What the active orders hold is a total.
LEMMA RowTotals ==
  ASSUME NEW rows \in Seq(Order)
  PROVE  /\ Amounts(CashAmounts(rows)) /\ Amounts(HeldAmounts(rows))
         /\ CashOf(rows, WorkingIn(rows)) = Total(CashAmounts(rows))
         /\ HeldOf(rows, WorkingIn(rows)) = Total(HeldAmounts(rows))
<1>1. IsFiniteSet(DOMAIN rows)
  BY FS_Interval
<1>2. IsFiniteSet(WorkingIn(rows))
  BY <1>1, FS_Subset DEF WorkingIn
<1>3. \A i \in WorkingIn(rows) : rows[i] \in Order
  BY DEF WorkingIn
<1>4. \A i \in WorkingIn(rows) : rows[i].cash \in Nat /\ rows[i].held \in Nat
  BY <1>3, OrderFields
<1> QED
  BY <1>2, <1>4 DEF Amounts, CashAmounts, HeldAmounts, CashOf, HeldOf

\* What one order holds.
CashAt(rows, i) == Of(CashAmounts(rows), i)
HeldAt(rows, i) == Of(HeldAmounts(rows), i)

\* Only order i differs, or is new.
OnlyAt(rows, more, i) ==
  \A j : j # i => /\ j \in DOMAIN rows <=> j \in DOMAIN more
                  /\ j \in DOMAIN rows => more[j] = rows[j]

\* What is set aside follows the one order that changed.
LEMMA RowChange ==
  ASSUME NEW rows \in Seq(Order), NEW more \in Seq(Order), NEW i, OnlyAt(rows, more, i)
  PROVE  /\ CashOf(more, WorkingIn(more)) + CashAt(rows, i)
              = CashOf(rows, WorkingIn(rows)) + CashAt(more, i)
         /\ HeldOf(more, WorkingIn(more)) + HeldAt(rows, i)
              = HeldOf(rows, WorkingIn(rows)) + HeldAt(more, i)
         /\ CashOf(more, WorkingIn(more)) \in Nat /\ CashOf(rows, WorkingIn(rows)) \in Nat
         /\ HeldOf(more, WorkingIn(more)) \in Nat /\ HeldOf(rows, WorkingIn(rows)) \in Nat
<1>1. \A j : j # i => Of(CashAmounts(rows), j) = Of(CashAmounts(more), j)
  BY DEF OnlyAt, Of, CashAmounts, WorkingIn
<1>2. \A j : j # i => Of(HeldAmounts(rows), j) = Of(HeldAmounts(more), j)
  BY DEF OnlyAt, Of, HeldAmounts, WorkingIn
<1>3. /\ Amounts(CashAmounts(rows)) /\ Amounts(HeldAmounts(rows))
      /\ Amounts(CashAmounts(more)) /\ Amounts(HeldAmounts(more))
      /\ CashOf(rows, WorkingIn(rows)) = Total(CashAmounts(rows))
      /\ HeldOf(rows, WorkingIn(rows)) = Total(HeldAmounts(rows))
      /\ CashOf(more, WorkingIn(more)) = Total(CashAmounts(more))
      /\ HeldOf(more, WorkingIn(more)) = Total(HeldAmounts(more))
  BY RowTotals
<1>4. /\ Total(CashAmounts(rows)) \in Nat /\ Total(CashAmounts(more)) \in Nat
      /\ Total(CashAmounts(more)) + Of(CashAmounts(rows), i)
           = Total(CashAmounts(rows)) + Of(CashAmounts(more), i)
  BY <1>1, <1>3, TotalChange
<1>5. /\ Total(HeldAmounts(rows)) \in Nat /\ Total(HeldAmounts(more)) \in Nat
      /\ Total(HeldAmounts(more)) + Of(HeldAmounts(rows), i)
           = Total(HeldAmounts(rows)) + Of(HeldAmounts(more), i)
  BY <1>2, <1>3, TotalChange
<1> QED
  BY <1>3, <1>4, <1>5 DEF CashAt, HeldAt

\* What one order holds, and that it is part of what is set aside.
LEMMA RowPart ==
  ASSUME NEW rows \in Seq(Order), NEW i
  PROVE  /\ CashAt(rows, i) \in Nat /\ HeldAt(rows, i) \in Nat
         /\ CashAt(rows, i) <= CashOf(rows, WorkingIn(rows))
         /\ HeldAt(rows, i) <= HeldOf(rows, WorkingIn(rows))
         /\ CashOf(rows, WorkingIn(rows)) \in Nat /\ HeldOf(rows, WorkingIn(rows)) \in Nat
         /\ i \in DOMAIN rows /\ Active(rows[i]) =>
              CashAt(rows, i) = rows[i].cash /\ HeldAt(rows, i) = rows[i].held
         /\ ~(i \in DOMAIN rows /\ Active(rows[i])) =>
              CashAt(rows, i) = 0 /\ HeldAt(rows, i) = 0
<1>1. /\ Amounts(CashAmounts(rows)) /\ Amounts(HeldAmounts(rows))
      /\ CashOf(rows, WorkingIn(rows)) = Total(CashAmounts(rows))
      /\ HeldOf(rows, WorkingIn(rows)) = Total(HeldAmounts(rows))
  BY RowTotals
<1>2. /\ CashAt(rows, i) \in Nat /\ Total(CashAmounts(rows)) \in Nat
      /\ CashAt(rows, i) <= Total(CashAmounts(rows))
  BY <1>1, TotalHas DEF CashAt
<1>3. /\ HeldAt(rows, i) \in Nat /\ Total(HeldAmounts(rows)) \in Nat
      /\ HeldAt(rows, i) <= Total(HeldAmounts(rows))
  BY <1>1, TotalHas DEF HeldAt
<1>4. /\ i \in DOMAIN rows /\ Active(rows[i]) =>
           CashAt(rows, i) = rows[i].cash /\ HeldAt(rows, i) = rows[i].held
      /\ ~(i \in DOMAIN rows /\ Active(rows[i])) =>
           CashAt(rows, i) = 0 /\ HeldAt(rows, i) = 0
  BY DEF CashAt, HeldAt, CashAmounts, HeldAmounts, WorkingIn, Of
<1> QED
  BY <1>1, <1>2, <1>3, <1>4

\* One order is replaced.
LEMMA RowExcept ==
  ASSUME NEW rows \in Seq(Order), NEW i \in DOMAIN rows, NEW o \in Order
  PROVE  LET more == [rows EXCEPT ![i] = o]
         IN /\ more \in Seq(Order) /\ DOMAIN more = DOMAIN rows /\ more[i] = o
            /\ OnlyAt(rows, more, i)
            /\ \A j \in DOMAIN rows : j # i => more[j] = rows[j]
BY DEF OnlyAt

\* The orders stay rows and order i keeps its session.
Rowed(i) ==
  /\ orders' \in Seq(Order) /\ DOMAIN orders' = DOMAIN orders
  /\ orders'[i].session = orders[i].session
  /\ \A j \in DOMAIN orders : j # i => orders'[j] = orders[j]

\* A row with another status, filled units or reservation.
SameOrder(r, o) ==
  /\ r \in Order /\ r.session = o.session /\ r.effect = o.effect /\ r.quantity = o.quantity
  /\ r.force = o.force

EndedAs(r, o, x, c, h) == r = [o EXCEPT !.status = x, !.cash = c, !.held = h]

\* An order row with an end status and what is left of its reservation.
LEMMA OrderClosed ==
  ASSUME NEW o \in Order, NEW x \in Ended, NEW c \in Nat, NEW h \in Nat,
         NEW r, EndedAs(r, o, x, c, h)
  PROVE  SameOrder(r, o) /\ r.cash = c /\ r.held = h /\ r.status = x /\ r.filled = o.filled
BY DEF Order, SameOrder, Ended, EndedAs

\* An order row with other filled units.
LEMMA OrderFilled ==
  ASSUME NEW o \in Order, NEW n \in Nat
  PROVE  LET r == [o EXCEPT !.filled = n]
         IN SameOrder(r, o) /\ r.cash = o.cash /\ r.held = o.held /\ r.status = o.status
            /\ r.filled = n
BY DEF Order, SameOrder

\* An order row that becomes partially filled.
LEMMA OrderPartial ==
  ASSUME NEW o \in Order
  PROVE  LET r == [o EXCEPT !.status = "partially_filled"]
         IN SameOrder(r, o) /\ r.cash = o.cash /\ r.held = o.held
            /\ r.status = "partially_filled" /\ r.filled = o.filled
BY DEF Order, SameOrder

\* An order row with another cash reservation.
LEMMA OrderCash ==
  ASSUME NEW o \in Order, NEW c \in Nat
  PROVE  LET r == [o EXCEPT !.cash = c]
         IN SameOrder(r, o) /\ r.cash = c /\ r.held = o.held /\ r.status = o.status
            /\ r.filled = o.filled
BY DEF Order, SameOrder

\* An order row with other reserved units.
LEMMA OrderHeld ==
  ASSUME NEW o \in Order, NEW h \in Nat
  PROVE  LET r == [o EXCEPT !.held = h]
         IN SameOrder(r, o) /\ r.cash = o.cash /\ r.held = h /\ r.status = o.status
            /\ r.filled = o.filled
BY DEF Order, SameOrder

\* What is given back of h that is set aside where f is frozen.
Given(h, f) == IF h > 0 THEN Least(h, f) ELSE 0

\* No more is given back than was set aside.
LEMMA GivenBounds ==
  ASSUME NEW h \in Nat, NEW f \in Int
  PROVE  /\ Given(h, f) \in Int /\ h - Given(h, f) \in Nat
         /\ f >= h => Given(h, f) = h
         /\ f >= 0 => Given(h, f) \in Nat /\ Given(h, f) <= f
BY DEF Given, Least

\* Units are released.
LEMMA StockReleased ==
  ASSUME NEW p, IsStock(p), NEW n \in Nat, n <= p.frozen,
         NEW r, SetAside(r, p, p.frozen - n, Least(p.total, p.free + n))
  PROVE  Calmer(p, r) /\ r.frozen = p.frozen - n
<1> DEFINE f == p.frozen - n
           a == Least(p.total, p.free + n)
<1>1. /\ p.total \in Nat /\ p.free \in Nat /\ p.frozen \in Nat
  BY StockFields
<1> DEFINE pt == p.total
           pa == p.free
           pf == p.frozen
<1>2. pt \in Nat /\ pa \in Nat /\ pf \in Nat /\ n <= pf /\ f = pf - n /\ a = Least(pt, pa + n)
  BY <1>1
<1> HIDE DEF pt, pa, pf, f, a
<1>3. f \in Nat /\ a \in Nat /\ f + a <= pa + pf
  BY <1>2 DEF Least
<1>4. SetAside(r, p, f, a)
  BY DEF f, a
<1>5. IsStock(r) /\ r.frozen = f /\ r.free = a /\ r.total = p.total /\ r.lots = p.lots
  BY <1>3, <1>4, StockUnits
<1>6. r.free + r.frozen <= p.free + p.frozen
  <2>1. a + f <= pa + pf
    BY <1>2, <1>3
  <2> QED
    BY <1>5, <2>1 DEF pa, pf
<1> QED
  BY <1>5, <1>6 DEF Calmer, f

\* _close_order gives back what is left of the reservation, and only that.
LEMMA CloseBooks ==
  ASSUME orders \in Seq(Order), NEW i \in DOMAIN orders, NEW o \in Order, Active(o),
         o.session = orders[i].session, NEW status \in Ended, NEW acc \in AccountRow,
         NEW p, IsStock(p), Close(i, o, status, acc, p)
  PROVE  /\ Rowed(i) /\ Calmer(p, pos')
         /\ Backs(acc, p, [orders EXCEPT ![i] = o]) => Backs(account', pos', orders')
<1> DEFINE oc == o.cash
           oh == o.held
           af == acc.frozen
           pf == p.frozen
           c == Given(oc, af)
           n == Given(oh, pf)
           x == oc - c
           y == oh - n
           r == [o EXCEPT !.status = status, !.cash = x, !.held = y]
           rows == [orders EXCEPT ![i] = o]
<1>1. /\ oc \in Nat /\ oh \in Nat /\ acc.cash \in Int /\ af \in Int /\ pf \in Nat
  BY OrderFields, StockFields DEF AccountRow
<1>3. orders' = [orders EXCEPT ![i] = r]
  BY DEF Close, FreedCash, FreedUnits, Given
<1>4. account'.cash = acc.cash + c /\ account'.frozen = acc.frozen - c
  BY DEF Close, AccountRow, FreedCash, Given
<1>5. pos' = IF oh > 0
             THEN [p EXCEPT !.frozen = p.frozen - n, !.free = Least(p.total, p.free + n)] ELSE p
  BY DEF Close, FreedUnits, Given
<1> HIDE DEF oc, oh, af, pf, c, n, r
<1>2. /\ c \in Int /\ x \in Nat /\ (af >= oc => c = oc)
      /\ n \in Nat /\ y \in Nat /\ (pf >= oh => n = oh) /\ n <= pf
  <2>1. c \in Int /\ oc - c \in Nat /\ (af >= oc => c = oc)
    BY <1>1, GivenBounds DEF c
  <2>2. pf \in Int /\ pf >= 0
    BY <1>1
  <2>3. n \in Nat /\ oh - n \in Nat /\ (pf >= oh => n = oh) /\ n <= pf
    BY <1>1, <2>2, GivenBounds DEF n
  <2> QED
    BY <2>1, <2>3
<1>6. /\ Calmer(p, pos') /\ pos'.frozen = p.frozen - n
  <2>1. CASE oh > 0
    <3>1. SetAside(pos', p, p.frozen - n, Least(p.total, p.free + n))
      BY <1>5, <2>1 DEF SetAside
    <3>2. n \in Nat /\ n <= p.frozen
      BY <1>2 DEF pf
    <3> QED
      BY <3>1, <3>2, StockReleased
  <2>2. CASE ~(oh > 0)
    <3>1. pos' = p /\ n = 0
      BY <1>5, <2>2 DEF n, Given
    <3>2. p.frozen \in Nat /\ p.free \in Nat
      BY StockFields
    <3> QED
      BY <3>1, <3>2 DEF Calmer
  <2> QED
    BY <2>1, <2>2
<1> HIDE DEF x, y
<1>7. r \in Order /\ r.cash = x /\ r.held = y /\ r.status = status /\ r.session = o.session
  <2>1. x \in Nat /\ y \in Nat
    BY <1>2
  <2>2. EndedAs(r, o, status, x, y)
    BY DEF r, EndedAs
  <2>3. SameOrder(r, o) /\ r.cash = x /\ r.held = y /\ r.status = status
    BY <2>1, <2>2, OrderClosed
  <2> QED
    BY <2>3 DEF SameOrder
<1>8. /\ orders' \in Seq(Order) /\ DOMAIN orders' = DOMAIN orders /\ orders'[i] = r
      /\ \A j \in DOMAIN orders : j # i => orders'[j] = orders[j]
  BY <1>3, <1>7, RowExcept
<1>9. /\ rows \in Seq(Order) /\ DOMAIN rows = DOMAIN orders /\ rows[i] = o
      /\ \A j \in DOMAIN orders : j # i => rows[j] = orders[j]
  BY RowExcept
<1> HIDE DEF rows
<1>10. ASSUME Backs(acc, p, rows) PROVE Backs(account', pos', orders')
  <2>1. OnlyAt(rows, orders', i)
    BY <1>8, <1>9 DEF OnlyAt
  <2> DEFINE C == CashOf(rows, WorkingIn(rows))
             H == HeldOf(rows, WorkingIn(rows))
             K == CashOf(orders', WorkingIn(orders'))
             J == HeldOf(orders', WorkingIn(orders'))
  <2>2. CashAt(rows, i) = oc /\ HeldAt(rows, i) = oh /\ oc <= C /\ oh <= H
    BY <1>9, RowPart DEF oc, oh
  <2>3. CashAt(orders', i) = 0 /\ HeldAt(orders', i) = 0
    BY <1>7, <1>8, RowPart DEF Active, Ended
  <2>4. /\ K + oc = C + 0 /\ J + oh = H + 0
        /\ K \in Nat /\ J \in Nat /\ C \in Nat /\ H \in Nat
    BY <1>8, <1>9, <2>1, <2>2, <2>3, RowChange
  <2>5. af = C /\ pf = H
    BY <1>10 DEF Backs, af, pf
  <2> HIDE DEF C, H, K, J
  <2>6. c = oc /\ n = oh /\ C - c = K /\ H - n = J
    BY <1>1, <1>2, <2>2, <2>4, <2>5
  <2>7. account'.frozen = K /\ pos'.frozen = J
    BY <1>4, <1>6, <2>5, <2>6 DEF af, pf
  <2>8. pos'.free + pos'.frozen <= pos'.total
    <3>1. p.free + p.frozen <= p.total
      BY <1>10 DEF Backs
    <3>2. /\ pos'.total = p.total /\ pos'.free + pos'.frozen <= p.free + p.frozen
          /\ pos'.free \in Nat /\ pos'.frozen \in Nat
          /\ p.free \in Nat /\ p.frozen \in Nat /\ p.total \in Nat
      BY <1>6, StockFields DEF Calmer
    <3> DEFINE e == p.free + p.frozen
               g == pos'.free + pos'.frozen
    <3>3. e \in Nat /\ g \in Nat /\ g <= e /\ e <= p.total
      BY <3>1, <3>2
    <3> HIDE DEF e, g
    <3>4. g <= p.total
      BY <3>2, <3>3
    <3> QED
      BY <3>2, <3>4 DEF g
  <2>9. kind = "cash" /\ FeesPaid => account'.cash >= 0
    BY <1>1, <1>4, <1>10, <2>6 DEF Backs
  <2>10. \A j \in DOMAIN orders' : Fits(orders'[j])
    <3>1. Fits(r)
      BY <1>1, <1>7, <2>6 DEF Fits, Active, Ended, x, y
    <3>2. \A j \in DOMAIN rows : Fits(rows[j])
      BY <1>10 DEF Backs
    <3> QED
      BY <1>8, <1>9, <3>1, <3>2
  <2> QED
    BY <2>7, <2>8, <2>9, <2>10 DEF Backs, K, J
<1> QED
  BY <1>6, <1>7, <1>8, <1>10 DEF Rowed, rows

\* What follows a fill: the order stays, with what it still holds, or is closed.
LEMMA AfterFillBooks ==
  ASSUME orders \in Seq(Order), NEW i \in DOMAIN orders, NEW o \in Order, Active(o),
         o.session = orders[i].session, NEW q \in Nat, NEW acc \in AccountRow,
         NEW p, IsStock(p), AfterFill(i, o, q, acc, p)
  PROVE  /\ Rowed(i) /\ Calmer(p, pos')
         /\ Backs(acc, p, [orders EXCEPT ![i] = [o EXCEPT !.filled = o.filled + q]])
              => Backs(account', pos', orders')
<1> DEFINE n == o.filled + q
           f == [o EXCEPT !.filled = n]
<1>1. n \in Nat
  BY OrderFields
<1>2. \/ Close(i, f, "filled", acc, p)
      \/ Close(i, f, "cancelled", acc, p)
      \/ /\ orders' = [orders EXCEPT ![i] = [f EXCEPT !.status = "partially_filled"]]
         /\ account' = acc /\ pos' = p
  BY DEF AfterFill
<1> HIDE DEF n
<1>3. f \in Order /\ f.status = o.status /\ f.session = o.session
  BY <1>1, OrderFilled DEF SameOrder
<1> HIDE DEF f
<1>4. Active(f)
  BY <1>3 DEF Active
<1>5. CASE Close(i, f, "filled", acc, p)
  BY <1>3, <1>4, <1>5, CloseBooks DEF Ended, f, n
<1>6. CASE Close(i, f, "cancelled", acc, p)
  BY <1>3, <1>4, <1>6, CloseBooks DEF Ended, f, n
<1>7. CASE /\ orders' = [orders EXCEPT ![i] = [f EXCEPT !.status = "partially_filled"]]
           /\ account' = acc /\ pos' = p
  <2> DEFINE g == [f EXCEPT !.status = "partially_filled"]
             rows == [orders EXCEPT ![i] = f]
  <2>1. /\ g \in Order /\ g.cash = f.cash /\ g.held = f.held /\ g.status = "partially_filled"
        /\ g.session = f.session /\ g.effect = f.effect /\ g.quantity = f.quantity
        /\ g.filled = f.filled
    BY <1>3, OrderPartial DEF SameOrder
  <2>2. orders' = [orders EXCEPT ![i] = g] /\ account' = acc /\ pos' = p
    BY <1>7
  <2> HIDE DEF g
  <2>3. /\ orders' \in Seq(Order) /\ DOMAIN orders' = DOMAIN orders /\ orders'[i] = g
        /\ \A j \in DOMAIN orders : j # i => orders'[j] = orders[j]
    BY <2>1, <2>2, RowExcept
  <2>4. /\ rows \in Seq(Order) /\ DOMAIN rows = DOMAIN orders /\ rows[i] = f
        /\ \A j \in DOMAIN orders : j # i => rows[j] = orders[j]
    BY <1>3, RowExcept
  <2> HIDE DEF rows
  <2>5. Calmer(p, pos')
    BY <2>2, StockFields DEF Calmer
  <2>6. ASSUME Backs(acc, p, rows) PROVE Backs(account', pos', orders')
    <3>1. OnlyAt(rows, orders', i)
      BY <2>3, <2>4 DEF OnlyAt
    <3>2. CashAt(rows, i) = f.cash /\ HeldAt(rows, i) = f.held
      BY <1>4, <2>4, RowPart
    <3>3. CashAt(orders', i) = f.cash /\ HeldAt(orders', i) = f.held
      BY <2>1, <2>3, RowPart DEF Active
    <3> DEFINE C == CashOf(rows, WorkingIn(rows))
               H == HeldOf(rows, WorkingIn(rows))
               K == CashOf(orders', WorkingIn(orders'))
               J == HeldOf(orders', WorkingIn(orders'))
    <3>4. /\ K + f.cash = C + f.cash /\ J + f.held = H + f.held
          /\ K \in Nat /\ J \in Nat /\ C \in Nat /\ H \in Nat
      BY <2>3, <2>4, <3>1, <3>2, <3>3, RowChange
    <3>5. f.cash \in Nat /\ f.held \in Nat
      BY <1>3, OrderFields
    <3> HIDE DEF C, H, K, J
    <3>6. K = C /\ J = H
      BY <3>4, <3>5
    <3>7. Fits(f) => Fits(g)
      BY <1>4, <2>1 DEF Fits, Active
    <3>8. \A j \in DOMAIN orders' : Fits(orders'[j])
      BY <2>3, <2>4, <2>6, <3>7 DEF Backs
    <3>9. acc.frozen = C /\ p.frozen = H /\ p.free + p.frozen <= p.total
          /\ (kind = "cash" /\ FeesPaid => acc.cash >= 0)
      BY <2>6 DEF Backs, C, H
    <3> QED
      BY <2>2, <3>6, <3>8, <3>9 DEF Backs, K, J
  <2> QED
    BY <1>3, <2>1, <2>3, <2>5, <2>6 DEF Rowed, rows, f, n
<1> QED
  BY <1>2, <1>5, <1>6, <1>7
-----------------------------------------------------------------------------
(* Fills. *)

\* An active order that uses up part of its reservation takes it from what is set aside.
LEMMA BacksShift ==
  ASSUME NEW acc \in AccountRow, NEW p, IsStock(p), orders \in Seq(Order), Backs(acc, p, orders),
         NEW i \in DOMAIN orders, Active(orders[i]), NEW f \in Order, Active(f),
         NEW c \in Nat, NEW h \in Nat, orders[i].cash = f.cash + c, orders[i].held = f.held + h
  PROVE  LET rows == [orders EXCEPT ![i] = f]
         IN /\ CashOf(rows, WorkingIn(rows)) = acc.frozen - c
            /\ HeldOf(rows, WorkingIn(rows)) = p.frozen - h
            /\ acc.frozen - c \in Nat /\ p.frozen - h \in Nat
            /\ orders[i].held <= p.frozen /\ p.frozen <= p.total
            /\ Fits(f) => \A j \in DOMAIN rows : Fits(rows[j])
<1> DEFINE rows == [orders EXCEPT ![i] = f]
           oc == orders[i].cash
           oh == orders[i].held
           fc == f.cash
           fh == f.held
           C == CashOf(rows, WorkingIn(rows))
           H == HeldOf(rows, WorkingIn(rows))
           af == acc.frozen
           pf == p.frozen
<1>1. /\ rows \in Seq(Order) /\ DOMAIN rows = DOMAIN orders /\ rows[i] = f
      /\ OnlyAt(orders, rows, i) /\ \A j \in DOMAIN orders : j # i => rows[j] = orders[j]
  BY RowExcept
<1>2. fc \in Nat /\ fh \in Nat /\ oc = fc + c /\ oh = fh + h /\ orders[i] \in Order
  BY OrderFields
<1>3. af = CashOf(orders, WorkingIn(orders)) /\ pf = HeldOf(orders, WorkingIn(orders))
      /\ (\A j \in DOMAIN orders : Fits(orders[j])) /\ p.free + p.frozen <= p.total
  BY DEF Backs
<1> HIDE DEF rows
<1>4. CashAt(rows, i) = fc /\ HeldAt(rows, i) = fh
  BY <1>1, RowPart
<1>5. CashAt(orders, i) = oc /\ HeldAt(orders, i) = oh /\ oc <= af /\ oh <= pf
  BY <1>3, RowPart
<1>6. /\ C + oc = af + fc /\ H + oh = pf + fh
      /\ C \in Nat /\ H \in Nat /\ af \in Nat /\ pf \in Nat
  BY <1>1, <1>3, <1>4, <1>5, RowChange
<1>7. pf <= p.total
  <2>1. p.free \in Nat /\ p.total \in Nat
    BY StockFields
  <2> DEFINE pa == p.free
             pt == p.total
  <2>2. pa \in Nat /\ pt \in Nat /\ pa + pf <= pt
    BY <1>3, <2>1
  <2> HIDE DEF pa, pt, pf
  <2>3. pf <= pt
    BY <1>6, <2>2
  <2> QED
    BY <2>3 DEF pt
<1>8. Fits(f) => \A j \in DOMAIN rows : Fits(rows[j])
  BY <1>1, <1>3
<1> HIDE DEF C, H, af, pf, oc, oh, fc, fh
<1>9. C = af - c /\ H = pf - h /\ C \in Nat /\ H \in Nat
  <2>1. C \in Nat /\ af \in Nat /\ fc \in Nat /\ oc \in Nat /\ C + oc = af + fc /\ oc = fc + c
    BY <1>2, <1>6
  <2>2. H \in Nat /\ pf \in Nat /\ fh \in Nat /\ oh \in Nat /\ H + oh = pf + fh /\ oh = fh + h
    BY <1>2, <1>6
  <2>3. C = af - c
    BY <2>1
  <2>4. H = pf - h
    BY <2>2
  <2> QED
    BY <2>1, <2>2, <2>3, <2>4
<1> QED
  BY <1>5, <1>7, <1>8, <1>9 DEF C, H, af, pf, oh, rows

\* A quantified form of what follows a fill or an end, for use with any days.
Calms(p) == \A D \in SUBSET Nat : Ripens(p, D) => Ripens(pos', D)

\* A calmer position ripens with the one before it.
LEMMA CalmerCalms ==
  ASSUME NEW p, IsStock(p), Calmer(p, pos')
  PROVE  IsStock(pos') /\ Calms(p)
BY CalmerRipens DEF Calms, Calmer

\* The row of a position is there: nothing else of it changed.
Present(z, p) == z = [p EXCEPT !.row = TRUE]

\* A position row that is written for the first time.
LEMMA StockPresent ==
  ASSUME NEW p, IsStock(p), NEW z, Present(z, p)
  PROVE  IsStock(z) /\ z.frozen = p.frozen /\ z.free = p.free /\ z.total = p.total
         /\ z.lots = p.lots /\ Calmer(p, z)
<1>1. p \in Position
  BY DEF IsStock
<1>2. z \in Position /\ z.frozen = p.frozen /\ z.free = p.free /\ z.total = p.total
      /\ z.lots = p.lots
  BY <1>1 DEF Position, Present
<1>3. IsStock(z)
  BY <1>2 DEF IsStock
<1>4. p.free + p.frozen <= p.free + p.frozen
  BY StockFields
<1> QED
  BY <1>2, <1>3, <1>4 DEF Calmer

\* An order that is closed as it stands, and the position with it.
LEMMA CloseKeepsBooks ==
  ASSUME orders \in Seq(Order), NEW i \in DOMAIN orders, Active(orders[i]),
         NEW status \in Ended, account \in AccountRow, IsStock(pos), NEW z,
         z = pos \/ Present(z, pos), Close(i, orders[i], status, account, z)
  PROVE  /\ Rowed(i) /\ IsStock(pos') /\ Calms(pos)
         /\ Backs(account, pos, orders) => Backs(account', pos', orders')
<1>1. IsStock(z) /\ z.frozen = pos.frozen /\ z.free = pos.free /\ z.total = pos.total
      /\ z.lots = pos.lots
  BY StockPresent
<1>2. orders[i] \in Order
  OBVIOUS
<1>3. /\ Rowed(i) /\ Calmer(z, pos')
      /\ Backs(account, z, [orders EXCEPT ![i] = orders[i]]) => Backs(account', pos', orders')
  BY <1>1, <1>2, CloseBooks
<1>4. [orders EXCEPT ![i] = orders[i]] = orders
  OBVIOUS
<1>5. Backs(account, pos, orders) => Backs(account, z, orders)
  BY <1>1 DEF Backs
<1>6. Calmer(pos, pos')
  BY <1>1, <1>3 DEF Calmer
<1>7. IsStock(pos') /\ Calms(pos)
  BY <1>6, CalmerCalms
<1> QED
  BY <1>3, <1>4, <1>5, <1>7

\* A fill that pays from its share of the reservation.
LEMMA FillOpenBooks ==
  ASSUME orders \in Seq(Order), NEW i \in DOMAIN orders, Active(orders[i]),
         NEW q \in Nat \ {0}, q <= Rest(i), account \in AccountRow, IsStock(pos),
         FillPrice(orders[i]) \in Nat, DayOf[txn.at] \in Nat, FillOpen(i, orders[i], q)
  PROVE  /\ Rowed(i) /\ IsStock(pos')
         /\ Backs(account, pos, orders) /\ orders[i].effect = "open"
              => Backs(account', pos', orders')
         /\ \A D \in SUBSET Nat :
              Ripens(pos, D) /\ DayOf[txn.at] \in D /\ (\A d \in D : DayOf[txn.at] <= d)
                => Ripens(pos', D)
<1> DEFINE o == orders[i]
           oc == o.cash
           price == FillPrice(o)
           day == DayOf[txn.at]
           share == Slice(o.cash, q, Rest(i))
           c == oc - share
           cost == IF Future THEN MarginOf(q * price) ELSE q * price
           f == [o EXCEPT !.cash = c]
           a == account.cash + share - (cost + Fee)
           b == account.frozen - share
           acc == [account EXCEPT !.cash = a, !.frozen = b]
           p == Increase(pos, q, price, day)
           z == [pos EXCEPT !.row = TRUE]
<1>1. /\ o \in Order /\ oc \in Nat /\ Rest(i) \in Nat
      /\ account.cash \in Int /\ account.frozen \in Int
  <2>1. o \in Order
    OBVIOUS
  <2>2. o.quantity \in Nat /\ o.filled \in Nat /\ o.cash \in Nat
    BY <2>1, OrderFields
  <2> QED
    BY <2>1, <2>2 DEF Rest, AccountRow
<1>2. share \in Nat /\ share <= oc
  BY <1>1, SliceBound
<1>3. \/ Close(i, o, "rejected", account, z)
      \/ AfterFill(i, f, q, acc, p) /\ ~(account.cash + share < cost + Fee)
  BY DEF FillOpen
<1>4. cost \in Int /\ Fee \in Int
  <2>1. q * price \in Nat
    OBVIOUS
  <2> QED
    BY <2>1, MarginNat, SimAssumption
<1>5. IsStock(p) /\ p.frozen = pos.frozen
      /\ (pos.frozen <= pos.total => p.free + p.frozen <= p.total)
      /\ \A D \in SUBSET Nat :
           Ripens(pos, D) /\ day \in D /\ (\A d \in D : day <= d) => Ripens(p, D)
  <2>1. price \in Nat /\ day \in Nat
    OBVIOUS
  <2> HIDE DEF price, day
  <2> DEFINE r == Increase(pos, q, price, day)
  <2>2. /\ IsStock(r) /\ r.frozen = pos.frozen /\ r.total = pos.total + q
        /\ pos.frozen <= pos.total => r.free + r.frozen <= r.total
        /\ \A D \in SUBSET Nat :
             Ripens(pos, D) /\ day \in D /\ (\A d \in D : day <= d) => Ripens(r, D)
    BY <2>1, IncreaseStock, Zenon
  <2> QED
    BY <2>2
<1>6. Present(z, pos)
  BY DEF Present
<1> HIDE DEF share, price, day, p, z, cost
<1>7. c \in Nat /\ a \in Int /\ b \in Int /\ oc = c + share
  <2>1. c \in Nat /\ oc = c + share
    <3> HIDE DEF oc
    <3> QED
      BY <1>1, <1>2
  <2> DEFINE ac == account.cash
             af == account.frozen
  <2>2. ac \in Int /\ af \in Int
    BY <1>1
  <2> HIDE DEF ac, af, oc
  <2>3. ac + share - (cost + Fee) \in Int /\ af - share \in Int
    BY <1>2, <1>4, <2>2
  <2> QED
    BY <2>1, <2>3 DEF ac, af
<1> HIDE DEF a, b, c
<1>8. acc \in AccountRow /\ acc.cash = a /\ acc.frozen = b
  BY <1>7 DEF AccountRow
<1>9. /\ SameOrder(f, o) /\ f.cash = c /\ f.held = o.held /\ f.status = o.status
      /\ f.filled = o.filled
  BY <1>1, <1>7, OrderCash
<1> HIDE DEF acc, f
<1>10. CASE Close(i, o, "rejected", account, z)
  <2>1. /\ Rowed(i) /\ IsStock(pos') /\ Calms(pos)
        /\ Backs(account, pos, orders) => Backs(account', pos', orders')
    BY <1>6, <1>10, CloseKeepsBooks DEF Ended, o
  <2> QED
    BY <2>1 DEF Calms
<1>11. CASE AfterFill(i, f, q, acc, p) /\ ~(account.cash + share < cost + Fee)
  <2> DEFINE n == f.filled + q
             g == [f EXCEPT !.filled = n]
             rows == [orders EXCEPT ![i] = g]
  <2>1. f \in Order /\ Active(f) /\ f.session = orders[i].session
    BY <1>9 DEF SameOrder, Active, o
  <2>2. /\ Rowed(i) /\ Calmer(p, pos')
        /\ Backs(acc, p, rows) => Backs(account', pos', orders')
    BY <1>5, <1>8, <1>11, <2>1, AfterFillBooks
  <2>3. n \in Nat
    BY <2>1, OrderFields
  <2> HIDE DEF n
  <2>4. /\ SameOrder(g, f) /\ g.cash = f.cash /\ g.held = f.held /\ g.status = f.status
        /\ g.filled = n
    BY <2>1, <2>3, OrderFilled
  <2> HIDE DEF g
  <2>5. g \in Order /\ Active(g) /\ g.cash = c /\ g.held = o.held /\ g.effect = o.effect
    BY <1>9, <2>1, <2>4 DEF SameOrder, Active
  <2>6. ASSUME Backs(account, pos, orders), o.effect = "open" PROVE Backs(acc, p, rows)
    <3>1. Fits(o) /\ Active(o)
      BY <2>6 DEF Backs, o
    <3>2. o.held = 0 /\ Fits(g)
      BY <2>5, <2>6, <3>1 DEF Fits
    <3>3. oc = g.cash + share /\ o.held = g.held + 0
      BY <1>7, <2>5, <3>2
    <3>4. /\ CashOf(rows, WorkingIn(rows)) = account.frozen - share
          /\ HeldOf(rows, WorkingIn(rows)) = pos.frozen - 0
          /\ pos.frozen - 0 \in Nat /\ pos.frozen <= pos.total
          /\ \A j \in DOMAIN rows : Fits(rows[j])
      <4>1. share \in Nat /\ 0 \in Nat /\ g \in Order /\ Active(g) /\ Fits(g)
        BY <1>2, <2>5, <3>2
      <4>2. orders[i].cash = g.cash + share /\ orders[i].held = g.held + 0
        BY <3>3 DEF o
      <4> QED
        BY <2>6, <4>1, <4>2, BacksShift
    <3>5. pos.frozen \in Nat
      BY StockFields
    <3>6. a >= 0
      BY <1>1, <1>2, <1>4, <1>11 DEF a
    <3> QED
      BY <1>5, <1>8, <3>4, <3>5, <3>6 DEF Backs, b
  <2>7. IsStock(pos') /\ Calms(p)
    BY <1>5, <2>2, CalmerCalms
  <2> QED
    BY <1>5, <2>2, <2>6, <2>7 DEF Calms, day, o
<1> QED
  BY <1>3, <1>10, <1>11

\* What a closing fill takes off the position before its units and lots.
Lesser(r, p, f, m, v) == r = [p EXCEPT !.frozen = f, !.margin = m, !.value = v]

\* A position row less margin, value and frozen units.
LEMMA StockLesser ==
  ASSUME NEW p, IsStock(p), NEW f \in Nat, NEW m \in Nat, NEW v \in Nat, NEW r,
         Lesser(r, p, f, m, v)
  PROVE  IsStock(r) /\ r.frozen = f /\ r.free = p.free /\ r.total = p.total /\ r.lots = p.lots
<1>1. p \in Position
  BY DEF IsStock
<1>2. r \in Position /\ r.frozen = f /\ r.free = p.free /\ r.total = p.total /\ r.lots = p.lots
  BY <1>1 DEF Position, Lesser
<1> QED
  BY <1>2 DEF IsStock

\* The frozen units are the oldest, and they have matured by this day.
LEMMA NothingEarly ==
  ASSUME NEW p, IsStock(p), NEW q \in Nat, q <= p.frozen, NEW D, Ripens(p, D),
         NEW day \in Nat, day \in D, NEW l \in DOMAIN p.lots, Taken(p.lots, l, q) > 0
  PROVE  p.lots[l].from <= day
<1> SUFFICES ASSUME ~(p.lots[l].from <= day) PROVE FALSE
  OBVIOUS
<1> DEFINE lots == p.lots
           b == Before(lots, l)
<1>1. lots \in Seq(Lot) /\ p.free \in Nat /\ p.frozen \in Nat
  BY StockFields
<1>2. CASE Future
  BY <1>2 DEF IsStock
<1>3. CASE ~Future
  <2>1. /\ DOMAIN lots = 1..Len(lots) /\ Len(lots) \in Nat
        /\ \A i \in DOMAIN lots : lots[i].quantity \in Nat /\ lots[i].from \in Nat
    BY <1>1, LotTypes
  <2>2. b \in Nat
    BY <1>1, <2>1, BeforeSteps
  <2>3. lots[l].quantity \in Nat /\ lots[l].from \in Nat /\ l \in 1..Len(lots)
    BY <2>1
  <2>4. b < q
    <3> DEFINE u == lots[l].quantity
    <3>1. Least(u, NotNeg(q - b)) > 0 /\ u \in Nat
      BY <2>3 DEF Taken
    <3> HIDE DEF u, b
    <3> QED
      BY <2>2, <3>1 DEF Least, NotNeg
  <2>5. Ripe(lots, UpTo(day)) <= b
    <3> DEFINE f == Ages(lots, UpTo(day))
               g == [j \in 1..(l - 1) |-> lots[j].quantity]
    <3>1. Amounts(f)
      BY <1>1, LotAmounts
    <3>2. IsFiniteSet(1..(l - 1))
      BY <2>3, FS_Interval
    <3>3. Amounts(g)
      BY <2>1, <2>3, <3>2 DEF Amounts
    <3>4. ASSUME NEW j PROVE Of(f, j) <= Of(g, j)
      <4>1. CASE j \in DOMAIN lots /\ j < l
        BY <2>1, <2>3, <4>1 DEF Of, Ages
      <4>2. CASE j \in DOMAIN lots /\ ~(j < l)
        <5>1. lots[l].from <= lots[j].from
          BY <2>1, <2>3, <4>2 DEF Ripens, Aged
        <5>2. ~(lots[j].from <= day) /\ lots[j].from \in Nat
          BY <2>1, <2>3, <4>2, <5>1
        <5>3. Of(f, j) = 0
          BY <4>2, <5>2 DEF Of, Ages, UpTo
        <5>4. Of(g, j) \in Nat
          BY <2>1, <2>3, <4>2 DEF Of
        <5> QED
          BY <5>3, <5>4
      <4>3. CASE j \notin DOMAIN lots
        BY <2>1, <2>3, <4>3 DEF Of, Ages
      <4> QED
        BY <4>1, <4>2, <4>3
    <3> HIDE DEF f, g
    <3>5. Total(f) <= Total(g)
      BY <3>1, <3>3, <3>4, TotalLeq
    <3> QED
      BY <3>5 DEF f, g, Ripe, Before
  <2>6. Matured(p, day) = Ripe(lots, UpTo(day)) /\ Ripe(lots, UpTo(day)) \in Nat
    BY <1>1, <1>3, RipeIsMatured, LotAmounts
  <2>7. p.free + p.frozen <= Matured(p, day)
    BY DEF Ripens
  <2> DEFINE pa == p.free
             pf == p.frozen
             w == Ripe(lots, UpTo(day))
  <2>8. pa \in Nat /\ pf \in Nat /\ q <= pf /\ pa + pf <= w /\ w \in Nat /\ w <= b
    BY <1>1, <2>5, <2>6, <2>7
  <2> HIDE DEF pa, pf, w, b
  <2> QED
    BY <2>2, <2>4, <2>8
<1> QED
  BY <1>2, <1>3

\* A fill that sells what the order holds.
LEMMA FillCloseBooks ==
  ASSUME orders \in Seq(Order), NEW i \in DOMAIN orders, Active(orders[i]),
         NEW q \in Nat \ {0}, q <= Rest(i), account \in AccountRow, IsStock(pos),
         FillPrice(orders[i]) \in Nat \ {0}, FeesPaid => Fee <= FillPrice(orders[i]),
         DayOf[txn.at] \in Nat, FillClose(i, orders[i], q)
  PROVE  /\ Rowed(i) /\ IsStock(pos')
         /\ Backs(account, pos, orders) /\ orders[i].effect = "close" =>
              /\ Backs(account', pos', orders') /\ q <= pos.total /\ q <= pos.frozen
              /\ \A D \in SUBSET Nat :
                   Ripens(pos, D) /\ (\A d \in D : DayOf[txn.at] <= d) => Ripens(pos', D)
<1> DEFINE o == orders[i]
           oh == o.held
           price == FillPrice(o)
           day == DayOf[txn.at]
           units == Least(o.held, q)
           margin == IF Future THEN Slice(pos.margin, q, pos.total) ELSE 0
           value == IF Future THEN Slice(pos.value, q, pos.total) ELSE 0
           worth == q * price
           proceeds == IF Future THEN margin + Dir * (worth - value) ELSE worth
           a == account.cash + proceeds - Fee
           paid == [account EXCEPT !.cash = a]
           u == NotNeg(pos.frozen - units)
           m == pos.margin - margin
           v == pos.value - value
           left == [pos EXCEPT !.frozen = u, !.margin = m, !.value = v]
           h == oh - units
           f == [o EXCEPT !.held = h]
           p == Decrease(left, q, day)
<1>1. /\ o \in Order /\ oh \in Nat /\ o.filled \in Nat /\ o.quantity \in Nat
      /\ account.cash \in Int /\ account.frozen \in Int /\ pos.total \in Nat
      /\ pos.frozen \in Nat /\ pos.free \in Nat /\ pos.margin \in Nat /\ pos.value \in Nat
  BY OrderFields, StockFields DEF AccountRow
<1>2. IF q > pos.total THEN Close(i, f, "rejected", paid, left)
      ELSE AfterFill(i, f, q, paid, p)
  BY DEF FillClose
<1>3. margin \in Nat /\ value \in Nat /\ m \in Nat /\ v \in Nat
  <2>1. /\ Slice(pos.margin, q, pos.total) \in Nat
        /\ Slice(pos.margin, q, pos.total) <= pos.margin
    BY <1>1, SliceBound
  <2>2. /\ Slice(pos.value, q, pos.total) \in Nat
        /\ Slice(pos.value, q, pos.total) <= pos.value
    BY <1>1, SliceBound
  <2>3. margin \in Nat /\ value \in Nat /\ margin <= pos.margin /\ value <= pos.value
    BY <1>1, <2>1, <2>2
  <2> DEFINE x == pos.margin
             y == pos.value
  <2>4. x \in Nat /\ y \in Nat /\ margin <= x /\ value <= y
    BY <1>1, <2>3
  <2> HIDE DEF x, y, margin, value
  <2>5. x - margin \in Nat /\ y - value \in Nat
    BY <2>3, <2>4
  <2> QED
    BY <2>3, <2>5 DEF x, y
<1>4. units \in Nat /\ h \in Nat /\ oh = h + units
  <2> HIDE DEF oh
  <2> QED
    BY <1>1 DEF Least, oh
<1>5. worth \in Nat /\ price \in Nat /\ worth >= price /\ day \in Nat
  <2> HIDE DEF price
  <2>1. price \in Nat
    BY DEF price
  <2> QED
    BY <2>1
<1> HIDE DEF margin, value, units, worth, price, day
<1>6. proceeds \in Int /\ Fee \in Nat
  BY <1>3, <1>5, SimAssumption DEF Dir
<1>7. u \in Nat
  <2> DEFINE x == pos.frozen
  <2>1. x \in Nat
    BY <1>1
  <2> HIDE DEF x
  <2>2. NotNeg(x - units) \in Nat
    BY <1>4, <2>1 DEF NotNeg
  <2> QED
    BY <2>2 DEF x
<1> HIDE DEF u, m, v, proceeds, h
<1>8. paid \in AccountRow /\ paid.cash = a /\ paid.frozen = account.frozen /\ a \in Int
  <2> DEFINE ac == account.cash
  <2>1. ac \in Int
    BY <1>1
  <2> HIDE DEF ac
  <2>2. ac + proceeds - Fee \in Int
    BY <1>6, <2>1
  <2>3. a \in Int
    BY <2>2 DEF ac
  <2> HIDE DEF a
  <2> QED
    BY <2>3 DEF AccountRow
<1>9. IsStock(left) /\ left.frozen = u /\ left.free = pos.free /\ left.total = pos.total
      /\ left.lots = pos.lots
  <2>1. Lesser(left, pos, u, m, v)
    BY DEF Lesser
  <2> HIDE DEF left
  <2> QED
    BY <1>3, <1>7, <2>1, StockLesser
<1>10. /\ SameOrder(f, o) /\ f.cash = o.cash /\ f.held = h /\ f.status = o.status
       /\ f.filled = o.filled
  BY <1>1, <1>4, OrderHeld
<1> HIDE DEF a, paid, left, f, p
<1>11. f \in Order /\ Active(f) /\ f.session = orders[i].session
  BY <1>10 DEF SameOrder, Active, o
<1>12. ASSUME Backs(account, pos, orders), orders[i].effect = "close"
       PROVE  /\ units = q /\ q <= pos.frozen /\ q <= pos.total /\ pos.frozen <= pos.total
              /\ u = pos.frozen - q /\ oh = Rest(i)
  <2>1. Fits(o) /\ Active(o)
    BY <1>12 DEF Backs, o
  <2>2. oh = Rest(i)
    BY <1>12, <2>1 DEF Fits, Rest, o
  <2>3. units = q
    BY <1>4, <2>2 DEF Least, units
  <2>4. orders[i].cash = orders[i].cash + 0 /\ orders[i].held = orders[i].held + 0
    BY <1>1, OrderFields
  <2>5. orders[i].held <= pos.frozen /\ pos.frozen <= pos.total
    <3>1. orders[i] \in Order /\ Active(orders[i]) /\ 0 \in Nat
      BY <1>1
    <3> QED
      BY <1>12, <2>4, <3>1, BacksShift
  <2>6. q <= pos.frozen
    BY <1>1, <2>2, <2>5 DEF o
  <2> DEFINE x == pos.frozen
             y == pos.total
  <2>7. x \in Nat /\ y \in Nat /\ q <= x /\ x <= y
    BY <1>1, <2>5, <2>6
  <2> HIDE DEF x, y
  <2>8. q <= y /\ NotNeg(x - q) = x - q
    BY <2>7 DEF NotNeg
  <2> QED
    BY <2>2, <2>3, <2>5, <2>6, <2>8 DEF u, x, y
<1>13. CASE q > pos.total
  <2>1. Close(i, f, "rejected", paid, left)
    BY <1>2, <1>13
  <2>2. Rowed(i) /\ Calmer(left, pos')
    BY <1>8, <1>9, <1>11, <2>1, CloseBooks DEF Ended
  <2>3. IsStock(pos')
    BY <2>2 DEF Calmer
  <2>4. ~(Backs(account, pos, orders) /\ orders[i].effect = "close")
    BY <1>1, <1>12, <1>13
  <2> QED
    BY <2>2, <2>3, <2>4
<1>14. CASE ~(q > pos.total)
  <2> DEFINE n == f.filled + q
             g == [f EXCEPT !.filled = n]
             rows == [orders EXCEPT ![i] = g]
  <2>1. AfterFill(i, f, q, paid, p)
    BY <1>2, <1>14
  <2>2. q \in Nat /\ q <= left.total
    BY <1>1, <1>9, <1>14
  <2>3. /\ IsStock(p) /\ p.total = left.total - q
        /\ left.frozen <= left.total - q => p.frozen = left.frozen /\ p.free + p.frozen <= p.total
        /\ \A D \in SUBSET Nat :
             Aged(left, D) /\ (\A d \in D : day <= d /\ left.frozen + q <= Matured(left, d))
               => Ripens(p, D)
    BY <1>5, <1>9, <2>2, DecreaseStock DEF p
  <2>4. /\ Rowed(i) /\ Calmer(p, pos')
        /\ Backs(paid, p, rows) => Backs(account', pos', orders')
    BY <1>8, <1>11, <2>1, <2>3, AfterFillBooks
  <2>5. n \in Nat
    BY <1>11, OrderFields
  <2> HIDE DEF n
  <2>6. /\ SameOrder(g, f) /\ g.cash = f.cash /\ g.held = f.held /\ g.status = f.status
        /\ g.filled = n
    BY <1>11, <2>5, OrderFilled
  <2> HIDE DEF g
  <2>7. /\ g \in Order /\ Active(g) /\ g.cash = o.cash /\ g.held = h /\ g.effect = o.effect
        /\ g.quantity = o.quantity /\ g.filled = o.filled + q
    BY <1>10, <1>11, <2>6 DEF SameOrder, Active, n
  <2>8. IsStock(pos') /\ Calms(p)
    BY <2>3, <2>4, CalmerCalms
  <2>9. ASSUME Backs(account, pos, orders), orders[i].effect = "close"
        PROVE  /\ Backs(account', pos', orders') /\ q <= pos.total /\ q <= pos.frozen
               /\ \A D \in SUBSET Nat :
                    Ripens(pos, D) /\ (\A d \in D : DayOf[txn.at] <= d) => Ripens(pos', D)
    <3>1. /\ units = q /\ q <= pos.frozen /\ q <= pos.total /\ pos.frozen <= pos.total
          /\ u = pos.frozen - q /\ oh = Rest(i)
      BY <1>12, <2>9
    <3>2. g.held = g.quantity - g.filled
      <4> DEFINE x == o.quantity
                 y == o.filled
      <4>1. x \in Nat /\ y \in Nat /\ oh = x - y /\ oh = h + q
        BY <1>1, <1>4, <3>1 DEF Rest, o
      <4> HIDE DEF x, y, oh
      <4>2. h = x - (y + q)
        BY <1>4, <4>1
      <4> QED
        BY <2>7, <4>2 DEF x, y
    <3>3. Fits(g)
      BY <2>7, <2>9, <3>2 DEF Fits, o
    <3>4. /\ CashOf(rows, WorkingIn(rows)) = account.frozen - 0
          /\ HeldOf(rows, WorkingIn(rows)) = pos.frozen - q
          /\ account.frozen - 0 \in Nat
          /\ \A j \in DOMAIN rows : Fits(rows[j])
      <4>1. q \in Nat /\ 0 \in Nat /\ g \in Order /\ Active(g) /\ Fits(g)
        BY <2>7, <3>3
      <4>2. orders[i].cash = g.cash + 0
        BY <1>1, <2>7, OrderFields DEF o
      <4>3. orders[i].held = g.held + q
        BY <1>4, <2>7, <3>1 DEF o, oh
      <4> QED
        BY <2>9, <4>1, <4>2, <4>3, BacksShift
    <3>5. left.frozen = pos.frozen - q /\ left.frozen <= left.total - q
          /\ left.frozen + q = pos.frozen
      <4> DEFINE x == pos.frozen
                 y == pos.total
      <4>1. x \in Nat /\ y \in Nat /\ x <= y
        BY <1>1, <3>1
      <4> HIDE DEF x, y
      <4>2. x - q <= y - q /\ (x - q) + q = x
        BY <4>1
      <4> QED
        BY <1>9, <3>1, <4>2 DEF x, y
    <3>6. p.frozen = pos.frozen - q /\ p.free + p.frozen <= p.total
      BY <2>3, <3>5
    <3>7. kind = "cash" /\ FeesPaid => paid.cash >= 0
      <4> SUFFICES ASSUME kind = "cash", FeesPaid PROVE a >= 0
        BY <1>8
      <4>1. account.cash >= 0 /\ proceeds = worth /\ Fee <= price
        BY <2>9 DEF Backs, proceeds, Future, price, o
      <4> DEFINE ac == account.cash
      <4>2. ac \in Int /\ ac >= 0
        BY <1>1, <4>1
      <4> HIDE DEF ac
      <4>3. ac + proceeds - Fee >= 0
        BY <1>5, <1>6, <4>1, <4>2
      <4> QED
        BY <4>3 DEF a, ac
    <3>8. Backs(paid, p, rows)
      BY <1>1, <1>8, <3>4, <3>6, <3>7 DEF Backs
    <3>9. ASSUME NEW D \in SUBSET Nat, Ripens(pos, D), \A d \in D : day <= d
          PROVE  Ripens(pos', D)
      <4>1. Aged(left, D)
        BY <1>9, <3>9 DEF Ripens, Aged
      <4>2. ASSUME NEW d \in D PROVE left.frozen + q <= Matured(left, d)
        <5>1. Matured(left, d) = Matured(pos, d)
          BY <1>9 DEF Matured
        <5>2. pos.free + pos.frozen <= Matured(pos, d) /\ Matured(pos, d) \in Nat
          BY <3>9, MaturedFacts DEF Ripens
        <5> DEFINE x == pos.frozen
                   y == pos.free
                   w == Matured(pos, d)
        <5>3. x \in Nat /\ y \in Nat /\ w \in Nat /\ y + x <= w
          BY <1>1, <5>2
        <5> HIDE DEF x, y, w
        <5>4. x <= w
          BY <5>3
        <5> QED
          BY <3>5, <5>1, <5>4 DEF x, w
      <4>3. Ripens(p, D)
        BY <2>3, <3>9, <4>1, <4>2
      <4> QED
        BY <2>8, <4>3 DEF Calms
    <3> QED
      BY <2>4, <3>1, <3>8, <3>9 DEF day
  <2> QED
    BY <2>4, <2>8, <2>9
<1> QED
  BY <1>13, <1>14
-----------------------------------------------------------------------------
(* The inductive invariant of the books, action by action. *)

\* The days no session, and no bar in progress, has gone beyond.
Reached(d) == /\ \A s \in Sessions : DayOf[session[s].clock] <= d
              /\ txn.op = "bar" => DayOf[txn.at] <= d
Days == {d \in Nat : Reached(d)}

\* A transaction has orders of its session to do, and a bar is not behind a clock.
TodoInv == txn # NoTxn => \A i \in txn.todo : orders[i].session = txn.session
BarTime == txn.op = "bar" => \A s \in Sessions : session[s].clock <= txn.at

StockInv   == IsStock(pos) /\ orders \in Seq(Order) /\ starts \in 0..MaxStarts /\ TodoInv
ReserveInv == Backs(account, pos, orders) /\ ~seen.short
RipeInv    == Ripens(pos, Days) /\ BarTime /\ ~seen.early
BooksInv   == /\ StockInv
              /\ ~seen.raced => ReserveInv
              /\ ~seen.raced /\ ~seen.rewound => RipeInv

\* The invariant of the next state, from what the steps say of its rows.
LEMMA BooksFrom ==
  ASSUME kind' = kind, IsStock(pos'), orders' \in Seq(Order), starts' \in 0..MaxStarts, TodoInv',
         ~seen'.raced => Backs(account', pos', orders') /\ ~seen'.short,
         ~seen'.raced /\ ~seen'.rewound => Ripens(pos', Days') /\ BarTime' /\ ~seen'.early
  PROVE  BooksInv'
<1>1. IsStock(pos)' /\ (Backs(account', pos', orders') => Backs(account, pos, orders)')
  BY DEF IsStock, Future, Backs
<1>2. Ripens(pos', Days') => Ripens(pos, Days)'
  BY DEF Ripens, Aged, Matured, Future
<1> QED
  BY <1>1, <1>2 DEF BooksInv, StockInv, ReserveInv, RipeInv

\* The rows are those of before, whatever else an account row says.
LEMMA SameRows ==
  ASSUME BooksInv, UNCHANGED <<kind, pos, orders, starts>>, TodoInv',
         account'.cash = account.cash, account'.frozen = account.frozen,
         seen'.short = seen.short, seen'.early = seen.early,
         ~seen'.raced => ~seen.raced, ~seen'.rewound => ~seen.rewound,
         ~seen'.raced /\ ~seen'.rewound => Days' \subseteq Days /\ BarTime'
  PROVE  BooksInv'
<1>1. ~seen'.raced => Backs(account', pos', orders') /\ ~seen'.short
  BY DEF BooksInv, ReserveInv, Backs
<1>2. ~seen'.raced /\ ~seen'.rewound => Ripens(pos', Days') /\ BarTime' /\ ~seen'.early
  BY DEF BooksInv, RipeInv, Ripens, Aged
<1>3. IsStock(pos') /\ orders' \in Seq(Order) /\ starts' \in 0..MaxStarts
  BY DEF BooksInv, StockInv
<1> QED
  BY <1>1, <1>2, <1>3, BooksFrom

\* No clock moves and no bar begins.
LEMMA SameDays ==
  ASSUME \A s \in Sessions : session'[s].clock = session[s].clock,
         txn' = txn \/ (txn.op # "bar" /\ txn'.op # "bar")
  PROVE  Days' = Days /\ (BarTime => BarTime')
BY DEF Days, Reached, BarTime

\* Changing the status of one session moves no clock.
LEMMA StatusKeepsClock ==
  ASSUME session \in [Sessions -> SessionRow], NEW s \in Sessions, NEW x,
         session' = [session EXCEPT ![s].status = x]
  PROVE  \A r \in Sessions : session'[r].clock = session[r].clock
BY DEF SessionRow

\* create_session, transition_session and the first half of a stop.
LEMMA SessionBooks ==
  ASSUME LedgerInv, BooksInv, NEW s \in Sessions,
         CreateSession(s) \/ Run(s) \/ Pause(s) \/ Stop(s) \/ Archive(s)
  PROVE  BooksInv'
<1>1. txn = NoTxn /\ UNCHANGED <<kind, pos, orders, starts, seen>>
  BY DEF CreateSession, Run, Pause, Stop, Archive, Transition, Idle
<1>2. \E x : session' = [session EXCEPT ![s].status = x]
  BY DEF CreateSession, Run, Pause, Stop, Archive, Transition
<1>3. \/ account' = account
      \/ account' = [account EXCEPT !.active = FALSE]
  BY DEF CreateSession, Run, Pause, Stop, Archive, Transition
<1>4. account'.cash = account.cash /\ account'.frozen = account.frozen
  <2>1. account \in AccountRow
    BY DEF LedgerInv, RowsInv
  <2> QED
    BY <1>3, <2>1 DEF AccountRow
<1>5. \/ txn' = txn
      \/ txn' = [op |-> "stop", session |-> s, todo |-> ActiveOf(s)]
  BY DEF CreateSession, Run, Pause, Stop, Archive, Transition
<1>6. txn.op # "bar" /\ txn'.op # "bar"
  BY <1>1, <1>5 DEF NoTxn
<1>7. \A r \in Sessions : session'[r].clock = session[r].clock
  BY <1>2, StatusKeepsClock DEF LedgerInv, RowsInv
<1>8. Days' = Days /\ BarTime'
  BY <1>6, <1>7, SameDays DEF BarTime
<1>9. TodoInv'
  <2>1. CASE txn' = txn
    BY <1>1, <2>1 DEF TodoInv
  <2>2. CASE txn' = [op |-> "stop", session |-> s, todo |-> ActiveOf(s)]
    BY <1>1, <2>2 DEF TodoInv, ActiveOf
  <2> QED
    BY <1>5, <2>1, <2>2
<1> QED
  BY <1>1, <1>4, <1>8, <1>9, SameRows

\* process_bar begins: the clocks may go back from here, which is remembered.
LEMMA BarBooks ==
  ASSUME LedgerInv, BooksInv, NEW s \in Sessions, NEW t \in Time, NEW b \in Bars, Bar(s, t, b)
  PROVE  BooksInv'
<1>1. /\ txn = NoTxn /\ UNCHANGED <<kind, account, pos, orders, session, starts>>
      /\ txn' = [op |-> "bar", session |-> s, at |-> t, bar |-> b, todo |-> ActiveOf(s)]
      /\ seen' = [seen EXCEPT !.rewound = @ \/ \E r \in Sessions : session[r].clock > t]
  BY DEF Bar, Idle
<1>2. seen \in SeenRow /\ session \in [Sessions -> SessionRow]
  BY DEF LedgerInv, RowsInv
<1>3. /\ seen'.short = seen.short /\ seen'.early = seen.early /\ seen'.raced = seen.raced
      /\ seen'.rewound <=> seen.rewound \/ \E r \in Sessions : session[r].clock > t
  BY <1>1, <1>2 DEF SeenRow
<1>4. ASSUME ~seen'.rewound PROVE Days' \subseteq Days /\ BarTime'
  <2>1. \A r \in Sessions : session[r].clock \in Time
    BY <1>2 DEF SessionRow
  <2>2. \A r \in Sessions : session[r].clock <= t
    BY <1>3, <1>4, <2>1, SimAssumption DEF Time
  <2> QED
    BY <1>1, <2>2 DEF Days, Reached, BarTime, NoTxn
<1>5. TodoInv'
  BY <1>1 DEF TodoInv, ActiveOf
<1> QED
  BY <1>1, <1>3, <1>4, <1>5, SameRows

\* recover_active_sessions lists sessions.
LEMMA RecoverListBooks ==
  ASSUME LedgerInv, BooksInv, RecoverList
  PROVE  BooksInv'
<1>1. UNCHANGED <<kind, account, pos, orders, session, txn, seen>>
  BY DEF RecoverList
<1>2. starts' \in 0..MaxStarts
  BY SimAssumption DEF RecoverList, BooksInv, StockInv
<1>3. Days' = Days /\ (BarTime => BarTime')
  BY <1>1, SameDays
<1>4. TodoInv'
  BY <1>1 DEF TodoInv, BooksInv, StockInv
<1> QED
  BY <1>1, <1>2, <1>3, <1>4, BooksFrom DEF BooksInv, StockInv, ReserveInv, RipeInv

\* An order stays with its session.
LEMMA TodoRows ==
  ASSUME TodoInv, NEW i \in DOMAIN orders, Rowed(i), txn # NoTxn =>
         txn.todo \subseteq DOMAIN orders,
         \/ txn' = txn
         \/ txn' = [txn EXCEPT !.todo = @ \ {i}] /\ txn # NoTxn
              /\ txn'.session = txn.session /\ txn'.todo \subseteq txn.todo
         \/ txn' = NoTxn
  PROVE  TodoInv'
BY DEF TodoInv, Rowed

\* cancel_order.
LEMMA CancelBooks ==
  ASSUME LedgerInv, BooksInv, NEW i \in DOMAIN orders, CancelOrder(i)
  PROVE  BooksInv'
<1>1. /\ txn = NoTxn /\ Working(i) /\ Close(i, orders[i], "cancelled", account, pos)
      /\ UNCHANGED <<kind, session, txn, listed, starts, seen>>
  BY DEF CancelOrder, Idle
<1>2. account \in AccountRow /\ IsStock(pos) /\ orders \in Seq(Order) /\ TodoInv
  BY DEF LedgerInv, RowsInv, BooksInv, StockInv
<1>3. Active(orders[i]) /\ "cancelled" \in Ended
  BY <1>1 DEF Working, Active, Ended
<1>4. /\ Rowed(i) /\ IsStock(pos') /\ Calms(pos)
      /\ Backs(account, pos, orders) => Backs(account', pos', orders')
  BY <1>1, <1>2, <1>3, CloseKeepsBooks
<1>5. TodoInv' /\ Days' = Days /\ (BarTime => BarTime')
  BY <1>1 DEF TodoInv, Days, Reached, BarTime
<1>6. Ripens(pos, Days) => Ripens(pos', Days')
  BY <1>4, <1>5 DEF Calms, Days
<1>7. starts' \in 0..MaxStarts /\ orders' \in Seq(Order)
  BY <1>1, <1>4 DEF BooksInv, StockInv, Rowed
<1> QED
  BY <1>1, <1>4, <1>5, <1>6, <1>7, BooksFrom DEF BooksInv, ReserveInv, RipeInv

\* A stop cancels its orders one by one and ends.
LEMMA StopBooks ==
  ASSUME LedgerInv, BooksInv, StopNext
  PROVE  BooksInv'
<1>1. txn # NoTxn /\ txn.op = "stop" /\ UNCHANGED <<kind, session, listed, starts, seen>>
  BY DEF StopNext, NoTxn
<1>2. /\ account \in AccountRow /\ IsStock(pos) /\ orders \in Seq(Order) /\ TodoInv
      /\ StopTxn(txn, DOMAIN orders)
  BY <1>1 DEF LedgerInv, RowsInv, BooksInv, StockInv, TxnInv, StopTxn, BarTxn
<1>3. CASE \E i \in txn.todo :
             Oldest(i) /\ Close(i, orders[i], "cancelled", account, pos) /\ Done(i)
  <2>1. PICK i \in txn.todo :
          Close(i, orders[i], "cancelled", account, pos) /\ txn' = [txn EXCEPT !.todo = @ \ {i}]
    BY <1>3 DEF Done
  <2>2. i \in DOMAIN orders /\ Active(orders[i]) /\ "cancelled" \in Ended
    BY <1>1, ToDo DEF Working, Active, Ended
  <2>3. /\ Rowed(i) /\ IsStock(pos') /\ Calms(pos)
        /\ Backs(account, pos, orders) => Backs(account', pos', orders')
    BY <1>2, <2>1, <2>2, CloseKeepsBooks
  <2>4. txn'.op = "stop" /\ txn'.session = txn.session /\ txn'.todo \subseteq txn.todo
    BY <1>1, <1>2, <2>1 DEF StopTxn
  <2>5. Days' = Days /\ (BarTime => BarTime')
    BY <1>1, <2>4, SameDays
  <2>6. TodoInv'
    <3>1. txn.todo \subseteq DOMAIN orders
      BY <1>2 DEF StopTxn
    <3> QED
      BY <1>1, <1>2, <2>1, <2>2, <2>3, <2>4, <3>1, TodoRows
  <2>7. Ripens(pos, Days) => Ripens(pos', Days')
    BY <2>3, <2>5 DEF Calms, Days
  <2>8. starts' \in 0..MaxStarts /\ orders' \in Seq(Order)
    BY <1>1, <2>3 DEF BooksInv, StockInv, Rowed
  <2> QED
    BY <1>1, <2>3, <2>5, <2>6, <2>7, <2>8, BooksFrom DEF BooksInv, ReserveInv, RipeInv
<1>4. CASE txn.todo = {} /\ txn' = NoTxn /\ UNCHANGED <<account, pos, orders>>
  <2>1. txn'.op # "bar" /\ TodoInv'
    BY <1>4 DEF NoTxn, TodoInv
  <2>2. Days' = Days /\ (BarTime => BarTime')
    BY <1>1, <2>1, SameDays
  <2> QED
    BY <1>1, <1>4, <2>1, <2>2, SameRows DEF BooksInv, RipeInv, BarTime
<1> QED
  BY <1>3, <1>4 DEF StopNext

\* An order is added at the end.
LEMMA RowAppend ==
  ASSUME NEW rows \in Seq(Order), NEW o \in Order
  PROVE  LET more == Append(rows, o)
             n == Len(rows) + 1
         IN /\ more \in Seq(Order) /\ DOMAIN more = DOMAIN rows \cup {n} /\ n \notin DOMAIN rows
            /\ more[n] = o /\ OnlyAt(rows, more, n)
            /\ \A j \in DOMAIN rows : more[j] = rows[j]
BY DEF OnlyAt

\* A new active order adds what it holds.
LEMMA AppendSums ==
  ASSUME NEW rows \in Seq(Order), NEW o \in Order, Active(o)
  PROVE  LET more == Append(rows, o)
         IN /\ CashOf(more, WorkingIn(more)) = CashOf(rows, WorkingIn(rows)) + o.cash
            /\ HeldOf(more, WorkingIn(more)) = HeldOf(rows, WorkingIn(rows)) + o.held
<1> DEFINE more == Append(rows, o)
           n == Len(rows) + 1
           C == CashOf(rows, WorkingIn(rows))
           H == HeldOf(rows, WorkingIn(rows))
           K == CashOf(more, WorkingIn(more))
           J == HeldOf(more, WorkingIn(more))
           c == o.cash
           h == o.held
<1>1. /\ more \in Seq(Order) /\ n \in DOMAIN more /\ n \notin DOMAIN rows /\ more[n] = o
      /\ OnlyAt(rows, more, n)
  BY RowAppend
<1> HIDE DEF n, more
<1>2. CashAt(rows, n) = 0 /\ HeldAt(rows, n) = 0
  BY <1>1, RowPart
<1>3. CashAt(more, n) = c /\ HeldAt(more, n) = h
  BY <1>1, RowPart
<1>4. /\ K + 0 = C + c /\ J + 0 = H + h
      /\ K \in Nat /\ J \in Nat /\ C \in Nat /\ H \in Nat
  BY <1>1, <1>2, <1>3, RowChange
<1>5. c \in Nat /\ h \in Nat
  BY OrderFields
<1> HIDE DEF C, H, K, J, c, h
<1>6. K = C + c /\ J = H + h
  BY <1>4, <1>5
<1> QED
  BY <1>6 DEF C, H, K, J, c, h, more

\* An order is written with what it sets aside.
LEMMA AppendBooks ==
  ASSUME orders \in Seq(Order), NEW o \in Order, Active(o), Fits(o), orders' = Append(orders, o),
         account'.frozen = account.frozen + o.cash, pos'.frozen = pos.frozen + o.held,
         pos'.free + pos'.frozen <= pos'.total, kind = "cash" /\ FeesPaid => account'.cash >= 0,
         Backs(account, pos, orders)
  PROVE  Backs(account', pos', orders')
<1>1. /\ CashOf(orders', WorkingIn(orders')) = CashOf(orders, WorkingIn(orders)) + o.cash
      /\ HeldOf(orders', WorkingIn(orders')) = HeldOf(orders, WorkingIn(orders)) + o.held
  BY AppendSums
<1>2. /\ account.frozen = CashOf(orders, WorkingIn(orders))
      /\ pos.frozen = HeldOf(orders, WorkingIn(orders)) /\ \A j \in DOMAIN orders : Fits(orders[j])
  BY DEF Backs
<1>3. \A j \in DOMAIN orders' : Fits(orders'[j])
  BY <1>2, RowAppend
<1> QED
  BY <1>1, <1>2, <1>3 DEF Backs

\* The row a decision writes.
LEMMA NewOrderType ==
  ASSUME NEW s \in Sessions, session[s].clock \in Time, NEW effect \in {"open", "close"},
         NEW q \in Nat, NEW ask \in Asks
  PROVE  LET n == NewOrder(s, effect, q, ask)
         IN /\ n \in Order /\ Active(n) /\ n.effect = effect /\ n.quantity = q /\ n.filled = 0
            /\ n.cash = 0 /\ n.held = 0 /\ n.session = s
<1>1. ask \in [target : Nat, force : {"GFD", "IOC", "FOK"}, limit : Prices \cup {0}]
  BY SimAssumption
<1>2. ask.force \in {"GFD", "IOC", "FOK"} /\ ask.limit \in Prices \cup {0}
  BY <1>1
<1> QED
  BY <1>2 DEF NewOrder, Order, Active

\* What an opening order sets aside.
LEMMA RequiredNat ==
  ASSUME NEW q \in Nat, NEW p \in Nat
  PROVE  Required(q, p) \in Nat
<1>1. q * p \in Nat /\ q * (p + Buffer) \in Nat /\ Fee \in Nat
  BY SimAssumption
<1>2. MarginOf(q * p) \in Nat
  BY <1>1, MarginNat
<1> QED
  BY <1>1, <1>2 DEF Required

\* submit_decision sets aside what the new order needs.
LEMMA DecideBooks ==
  ASSUME LedgerInv, BooksInv, NEW s \in Sessions, NEW ask \in Asks, Decide(s, ask)
  PROVE  BooksInv'
<1>1. txn = NoTxn /\ UNCHANGED <<kind, session, txn, listed, starts, seen>>
  BY DEF Decide, Idle
<1>2. /\ account \in AccountRow /\ IsStock(pos) /\ orders \in Seq(Order)
      /\ starts \in 0..MaxStarts /\ session[s] \in SessionRow
  BY DEF LedgerInv, RowsInv, BooksInv, StockInv
<1>3. session[s].clock \in Time /\ session[s].close \in Prices \cup {0}
  BY <1>2 DEF SessionRow
<1>4. ask.limit \in Prices \cup {0}
  <2>1. ask \in [target : Nat, force : {"GFD", "IOC", "FOK"}, limit : Prices \cup {0}]
    BY SimAssumption
  <2> QED
    BY <2>1
<1>5. TodoInv' /\ Days' = Days /\ (BarTime => BarTime')
  BY <1>1, SameDays DEF TodoInv
<1>6. /\ account.cash \in Int /\ account.frozen \in Int
      /\ pos.free \in Nat /\ pos.frozen \in Nat /\ pos.total \in Nat
  BY <1>2, StockFields DEF AccountRow
<1>7. CASE DecideOpen(s, ask)
  <2> DEFINE price == IF ask.limit = 0 THEN session[s].close ELSE ask.limit
  <2>1. PICK q \in 1..MaxUnits :
          /\ account.cash >= Required(q, price)
          /\ account' = [account EXCEPT !.cash = @ - Required(q, price),
                                        !.frozen = @ + Required(q, price)]
          /\ orders' = Append(orders, [NewOrder(s, "open", q, ask) EXCEPT
                                         !.cash = Required(q, price)])
          /\ UNCHANGED pos
    BY <1>7 DEF DecideOpen
  <2> DEFINE c == Required(q, price)
             n == NewOrder(s, "open", q, ask)
             o == [n EXCEPT !.cash = c]
             x == account.cash - c
             y == account.frozen + c
  <2>2. price \in Nat /\ q \in Nat
    <3>1. Prices \cup {0} \subseteq Nat
      BY NumberTypes
    <3>2. price \in Prices \cup {0}
      BY <1>3, <1>4
    <3> HIDE DEF price
    <3>3. q \in Nat
      OBVIOUS
    <3> QED
      BY <3>1, <3>2, <3>3
  <2>3. c \in Nat
    BY <2>2, RequiredNat
  <2>4. n \in Order /\ Active(n) /\ n.effect = "open" /\ n.held = 0
    BY <1>3, <2>2, NewOrderType
  <2>5. account.cash >= c /\ account' = [account EXCEPT !.cash = x, !.frozen = y]
        /\ orders' = Append(orders, o) /\ pos' = pos
    BY <2>1
  <2> HIDE DEF c, n, price
  <2>6. /\ SameOrder(o, n) /\ o.cash = c /\ o.held = n.held /\ o.status = n.status
        /\ o.filled = n.filled
    BY <2>3, <2>4, OrderCash
  <2> HIDE DEF o
  <2>7. o \in Order /\ Active(o) /\ Fits(o) /\ o.cash = c /\ o.held = 0
    BY <2>4, <2>6 DEF SameOrder, Active, Fits
  <2>8. x \in Int /\ y \in Int /\ x >= 0
    <3> DEFINE ac == account.cash
    <3>1. ac \in Int /\ ac >= c
      BY <1>6, <2>5
    <3> HIDE DEF ac
    <3>2. ac - c \in Int /\ ac - c >= 0
      BY <2>3, <3>1
    <3> QED
      BY <1>6, <2>3, <3>2 DEF ac
  <2> HIDE DEF x
  <2>9. account'.cash = x /\ account'.frozen = account.frozen + c
    BY <1>2, <2>5 DEF AccountRow
  <2>10. Backs(account, pos, orders) => Backs(account', pos', orders')
    <3>1. ASSUME Backs(account, pos, orders) PROVE Backs(account', pos', orders')
      <4>1. pos'.free + pos'.frozen <= pos'.total /\ pos'.frozen = pos.frozen + o.held
        BY <1>6, <2>5, <2>7, <3>1 DEF Backs
      <4>2. account'.frozen = account.frozen + o.cash /\ account'.cash >= 0
        BY <2>7, <2>8, <2>9
      <4> QED
        BY <1>2, <1>6, <2>5, <2>7, <3>1, <4>1, <4>2, AppendBooks
    <3> QED
      BY <3>1
  <2>11. orders' \in Seq(Order)
    BY <1>2, <2>5, <2>7
  <2> QED
    BY <1>1, <1>2, <1>5, <2>5, <2>10, <2>11, BooksFrom DEF BooksInv, ReserveInv, RipeInv
<1>8. CASE DecideClose(s, ask)
  <2>1. PICK q \in 1..MaxUnits :
          /\ pos.free >= q
          /\ pos' = [pos EXCEPT !.free = @ - q, !.frozen = @ + q]
          /\ orders' = Append(orders, [NewOrder(s, "close", q, ask) EXCEPT !.held = q])
          /\ UNCHANGED account
    BY <1>8 DEF DecideClose
  <2> DEFINE n == NewOrder(s, "close", q, ask)
             o == [n EXCEPT !.held = q]
             x == pos.free
             y == pos.frozen
             f == y + q
             a == x - q
  <2>2. q \in Nat /\ x \in Nat /\ y \in Nat /\ x >= q
    BY <1>6, <2>1
  <2>3. n \in Order /\ Active(n) /\ n.effect = "close" /\ n.filled = 0 /\ n.quantity = q
        /\ n.cash = 0
    BY <1>3, <2>2, NewOrderType
  <2>4. orders' = Append(orders, o) /\ account' = account
    BY <2>1
  <2>5. SetAside(pos', pos, f, a)
    <3>1. pos \in Position
      BY <1>2 DEF IsStock
    <3> QED
      BY <2>1, <3>1 DEF SetAside, Position
  <2> HIDE DEF n, x, y, f, a
  <2>6. /\ SameOrder(o, n) /\ o.cash = n.cash /\ o.held = q /\ o.status = n.status
        /\ o.filled = n.filled
    BY <2>2, <2>3, OrderHeld
  <2> HIDE DEF o
  <2>7. o \in Order /\ Active(o) /\ Fits(o) /\ o.cash = 0 /\ o.held = q
    BY <2>2, <2>3, <2>6 DEF SameOrder, Active, Fits
  <2>8. f \in Nat /\ a \in Nat /\ a + f = x + y
    BY <2>2 DEF f, a
  <2>9. IsStock(pos') /\ pos'.frozen = f /\ pos'.free = a /\ pos'.total = pos.total
        /\ pos'.lots = pos.lots
    BY <1>2, <2>5, <2>8, StockUnits
  <2>10. Calmer(pos, pos')
    <3>1. a + f <= x + y
      BY <2>2, <2>8
    <3> QED
      BY <2>9, <3>1 DEF Calmer, x, y
  <2>11. Backs(account, pos, orders) => Backs(account', pos', orders')
    <3>1. ASSUME Backs(account, pos, orders) PROVE Backs(account', pos', orders')
      <4>1. pos'.free + pos'.frozen <= pos'.total
        <5>1. x + y <= pos.total
          BY <3>1 DEF Backs, x, y
        <5>2. a + f <= pos.total
          BY <2>8, <5>1
        <5> QED
          BY <2>9, <5>2
      <4>2. pos'.frozen = pos.frozen + o.held
        BY <2>7, <2>9 DEF f, y
      <4>3. account'.frozen = account.frozen + o.cash
        BY <1>6, <2>4, <2>7
      <4>4. kind = "cash" /\ FeesPaid => account'.cash >= 0
        BY <2>4, <3>1 DEF Backs
      <4> QED
        BY <1>2, <1>6, <2>4, <2>7, <3>1, <4>1, <4>2, <4>3, <4>4, AppendBooks
    <3> QED
      BY <3>1
  <2>12. Ripens(pos, Days) => Ripens(pos', Days')
    BY <1>2, <1>5, <2>10, CalmerRipens DEF Days
  <2>13. orders' \in Seq(Order)
    BY <1>2, <2>4, <2>7
  <2> QED
    BY <1>1, <1>2, <1>5, <2>9, <2>11, <2>12, <2>13, BooksFrom DEF BooksInv, ReserveInv, RipeInv
<1> QED
  BY <1>7, <1>8 DEF Decide

\* A bar trades at prices that pay for a fill of one unit when every price does.
LEMMA FillPays ==
  ASSUME BarTxn(txn, DOMAIN orders), NEW o \in Row, FeesPaid
  PROVE  Fee <= FillPrice(o)
<1>1. txn.bar \in Bars
  BY DEF BarTxn
<1>2. txn.bar \in [low : Prices, high : Prices, price : Prices, close : Prices,
                   cap : Nat, blocked : BOOLEAN]
  BY <1>1, SimAssumption
<1> DEFINE t == txn.bar.price
           l == o.limit
<1>3. t \in Prices /\ l \in Prices \cup {0}
  BY <1>2 DEF Row
<1>4. Fee \in Nat /\ Slip \in Nat /\ Prices \subseteq Nat \ {0}
  BY SimAssumption
<1>5. FillPrice(o) = IF Buys(o) THEN (IF l = 0 THEN t ELSE Least(t, l)) + Slip
                     ELSE (IF t < l THEN l ELSE t) - Slip
  BY DEF FillPrice
<1> HIDE DEF t, l
<1>6. \A p \in Prices : p \in Nat /\ Fee + Slip <= p
  BY <1>4 DEF FeesPaid
<1>7. CASE Buys(o)
  BY <1>3, <1>4, <1>5, <1>6, <1>7 DEF Least
<1>8. CASE ~Buys(o)
  BY <1>3, <1>4, <1>5, <1>6, <1>8
<1> QED
  BY <1>7, <1>8

\* The day of a bar that is not behind a clock is the first nobody has gone beyond.
LEMMA BarDay ==
  ASSUME LedgerInv, BarTxn(txn, DOMAIN orders)
  PROVE  /\ DayOf[txn.at] \in Nat /\ \A d \in Days : DayOf[txn.at] <= d
         /\ BarTime => DayOf[txn.at] \in Days
<1>1. txn.at \in Time /\ txn.op = "bar"
  BY DEF BarTxn
<1>2. DayOf[txn.at] \in Nat
  BY <1>1, SimAssumption DEF Time
<1>3. \A s \in Sessions : session[s].clock \in Time
  BY DEF LedgerInv, RowsInv, SessionRow
<1>4. BarTime => \A s \in Sessions : DayOf[session[s].clock] <= DayOf[txn.at]
  BY <1>1, <1>3, SimAssumption DEF BarTime, Time
<1> QED
  BY <1>1, <1>2, <1>4 DEF Days, Reached

\* One order of a bar: whatever becomes of it, the books stay right.
LEMMA MatchBooks ==
  ASSUME LedgerInv, BooksInv, MatchNext
  PROVE  BooksInv'
<1>1. txn # NoTxn /\ txn.op = "bar" /\ UNCHANGED <<kind, session, listed, starts>>
  BY DEF MatchNext, NoTxn
<1>2. /\ account \in AccountRow /\ IsStock(pos) /\ orders \in Seq(Order) /\ TodoInv
      /\ starts \in 0..MaxStarts /\ seen \in SeenRow
  BY DEF LedgerInv, RowsInv, BooksInv, StockInv
<1>3. BarTxn(txn, DOMAIN orders)
  BY <1>1 DEF LedgerInv, TxnInv, StopTxn
<1>4. PICK i \in txn.todo : MatchOrder(i) /\ txn' = [txn EXCEPT !.todo = @ \ {i}]
  BY DEF MatchNext, Done
<1>5. /\ i \in DOMAIN orders /\ Active(orders[i]) /\ orders[i] \in Order /\ orders[i] \in Row
      /\ orders[i].filled < orders[i].quantity
  <2>1. i \in DOMAIN orders /\ Working(i) /\ orders[i] \in Row
    BY <1>1, ToDo
  <2>2. orders[i].filled < orders[i].quantity
    BY <2>1 DEF LedgerInv, RowsInv
  <2> QED
    BY <1>2, <2>1, <2>2 DEF Working, Active
<1>6. /\ txn'.op = "bar" /\ txn'.session = txn.session /\ txn'.at = txn.at
      /\ txn'.todo \subseteq txn.todo
  BY <1>3, <1>4 DEF BarTxn
<1>7. Days' = Days /\ (BarTime => BarTime')
  BY <1>1, <1>6 DEF Days, Reached, BarTime
<1>8. Days \in SUBSET Nat
  BY DEF Days
<1>9. Rowed(i) => TodoInv'
  <2>1. txn.todo \subseteq DOMAIN orders
    BY <1>3 DEF BarTxn
  <2> QED
    BY <1>1, <1>2, <1>4, <1>5, <1>6, <2>1, TodoRows
<1> DEFINE q == Least(txn.bar.cap, Rest(i))
<1>10. FillPrice(orders[i]) \in Int /\ txn.bar.cap \in Nat
  BY <1>3, <1>5, FillPriceType
<1>11. ASSUME Outcome(orders[i]) = "fill"
       PROVE  q \in Nat \ {0} /\ q <= Rest(i) /\ FillPrice(orders[i]) \in Nat \ {0}
  <2>1. Rest(i) \in Nat \ {0}
    BY <1>5, OrderFields DEF Rest
  <2>2. /\ txn.bar.cap >= Rest(i) \/ txn.bar.cap > 0
        /\ FillPrice(orders[i]) > 0
    BY <1>11 DEF Outcome, Rest
  <2> DEFINE x == txn.bar.cap
             y == Rest(i)
  <2>3. x \in Nat /\ y \in Nat \ {0} /\ (x >= y \/ x > 0)
    BY <1>10, <2>1, <2>2
  <2> HIDE DEF x, y
  <2>4. Least(x, y) \in Nat \ {0} /\ Least(x, y) <= y
    BY <2>3 DEF Least
  <2> QED
    BY <1>10, <2>2, <2>4 DEF x, y
<1>12. ASSUME Rowed(i), IsStock(pos'),
              ~seen'.raced => Backs(account', pos', orders') /\ ~seen'.short,
              ~seen'.raced /\ ~seen'.rewound => Ripens(pos', Days) /\ BarTime /\ ~seen'.early
       PROVE  BooksInv'
  <2>1. orders' \in Seq(Order) /\ TodoInv' /\ starts' \in 0..MaxStarts
    BY <1>1, <1>2, <1>9, <1>12 DEF Rowed
  <2>2. ~seen'.raced /\ ~seen'.rewound => Ripens(pos', Days') /\ BarTime' /\ ~seen'.early
    BY <1>7, <1>12
  <2> QED
    BY <1>1, <1>12, <2>1, <2>2, BooksFrom
<1>13. /\ ~seen.raced => Backs(account, pos, orders) /\ ~seen.short
       /\ ~seen.raced /\ ~seen.rewound => Ripens(pos, Days) /\ BarTime /\ ~seen.early
  BY DEF BooksInv, ReserveInv, RipeInv
<1>14. DayOf[txn.at] \in Nat /\ (\A d \in Days : DayOf[txn.at] <= d)
       /\ (BarTime => DayOf[txn.at] \in Days)
  BY <1>3, BarDay
<1> HIDE DEF q
<1>15. CASE UNCHANGED <<account, pos, orders, seen>>
  <2>1. Rowed(i)
    BY <1>2, <1>15 DEF Rowed
  <2> QED
    BY <1>2, <1>12, <1>13, <1>15, <2>1
<1>16. CASE /\ Outcome(orders[i]) \in {"rejected", "cancelled"}
            /\ Close(i, orders[i], Outcome(orders[i]), account, pos)
            /\ UNCHANGED seen
  <2> DEFINE status == Outcome(orders[i])
  <2>1. status \in Ended /\ Close(i, orders[i], status, account, pos)
    BY <1>16 DEF Ended
  <2> HIDE DEF status
  <2>2. /\ Rowed(i) /\ IsStock(pos') /\ Calms(pos)
        /\ Backs(account, pos, orders) => Backs(account', pos', orders')
    BY <1>2, <1>5, <2>1, CloseKeepsBooks
  <2>3. Ripens(pos, Days) => Ripens(pos', Days)
    BY <1>8, <2>2 DEF Calms
  <2> QED
    BY <1>12, <1>13, <1>16, <2>2, <2>3
<1>17. CASE /\ Outcome(orders[i]) = "fill" /\ orders[i].effect = "open"
            /\ FillOpen(i, orders[i], q) /\ UNCHANGED seen
  <2>1. q \in Nat \ {0} /\ q <= Rest(i) /\ FillPrice(orders[i]) \in Nat
    BY <1>11, <1>17
  <2>2. FillOpen(i, orders[i], q)
    BY <1>17
  <2>3. /\ Rowed(i) /\ IsStock(pos')
        /\ Backs(account, pos, orders) /\ orders[i].effect = "open"
             => Backs(account', pos', orders')
        /\ \A D \in SUBSET Nat :
             Ripens(pos, D) /\ DayOf[txn.at] \in D /\ (\A d \in D : DayOf[txn.at] <= d)
               => Ripens(pos', D)
    BY <1>2, <1>5, <1>14, <2>1, <2>2, FillOpenBooks
  <2>4. Ripens(pos, Days) /\ BarTime => Ripens(pos', Days)
    BY <1>8, <1>14, <2>3
  <2> QED
    BY <1>12, <1>13, <1>17, <2>3, <2>4
<1>18. CASE /\ Outcome(orders[i]) = "fill" /\ orders[i].effect = "close"
            /\ FillClose(i, orders[i], q)
  <2>1. q \in Nat \ {0} /\ q \in Nat /\ q <= Rest(i) /\ FillPrice(orders[i]) \in Nat \ {0}
    BY <1>11, <1>18
  <2>2. FillClose(i, orders[i], q) /\ (FeesPaid => Fee <= FillPrice(orders[i]))
    BY <1>3, <1>5, <1>18, FillPays
  <2>3. /\ Rowed(i) /\ IsStock(pos')
        /\ Backs(account, pos, orders) /\ orders[i].effect = "close" =>
             /\ Backs(account', pos', orders') /\ q <= pos.total /\ q <= pos.frozen
             /\ \A D \in SUBSET Nat :
                  Ripens(pos, D) /\ (\A d \in D : DayOf[txn.at] <= d) => Ripens(pos', D)
    BY <1>2, <1>5, <1>14, <2>1, <2>2, FillCloseBooks
  <2> DEFINE short == seen.short \/ q > pos.total
             early == seen.early \/ \E l \in DOMAIN pos.lots :
                        Taken(pos.lots, l, q) > 0 /\ pos.lots[l].from > DayOf[txn.at]
  <2>4. seen' = [seen EXCEPT !.short = short, !.early = early]
    BY <1>18 DEF FillClose
  <2> HIDE DEF short, early
  <2>5. /\ seen'.raced = seen.raced /\ seen'.rewound = seen.rewound
        /\ seen'.short = short /\ seen'.early = early
    BY <1>2, <2>4 DEF SeenRow
  <2>6. ASSUME ~seen.raced
        PROVE  /\ Backs(account', pos', orders') /\ q <= pos.total /\ q <= pos.frozen
               /\ Ripens(pos, Days) => Ripens(pos', Days)
    BY <1>8, <1>13, <1>14, <1>18, <2>3, <2>6
  <2>7. ASSUME ~seen.raced PROVE ~short
    <3>1. ~(q > pos.total)
      BY <1>2, <2>1, <2>6, <2>7, StockFields
    <3> QED
      BY <1>13, <2>7, <3>1 DEF short
  <2>8. ASSUME ~seen.raced, ~seen.rewound PROVE ~early
    <3>1. Ripens(pos, Days) /\ DayOf[txn.at] \in Days /\ ~seen.early
      BY <1>13, <1>14, <2>8
    <3>2. \A l \in DOMAIN pos.lots :
            Taken(pos.lots, l, q) > 0 => pos.lots[l].from <= DayOf[txn.at]
      BY <1>2, <1>14, <2>1, <2>6, <2>8, <3>1, NothingEarly
    <3>3. \A l \in DOMAIN pos.lots : pos.lots[l].from \in Nat
      BY <1>2, StockFields, LotTypes
    <3> QED
      BY <1>14, <3>1, <3>2, <3>3 DEF early
  <2> QED
    BY <1>12, <1>13, <2>3, <2>5, <2>6, <2>7, <2>8
<1> QED
  BY <1>4, <1>15, <1>16, <1>17, <1>18 DEF MatchOrder, q

\* A position whose matured units became free.
Freed(r, p, day) ==
  /\ IsStock(r) /\ r.frozen = p.frozen /\ r.total = p.total /\ r.lots = p.lots
  /\ r.free = NotNeg(Matured(p, day) - p.frozen)

\* What _matured_quantity counts and is not frozen becomes free.
LEMMA FreedBooks ==
  ASSUME NEW p, IsStock(p), NEW day \in Nat, NEW r, Freed(r, p, day)
  PROVE  /\ p.free + p.frozen <= p.total => r.free + r.frozen <= r.total
         /\ \A D \in SUBSET Nat : Ripens(p, D) /\ (\A d \in D : day <= d) => Ripens(r, D)
<1> DEFINE pf == p.frozen
           pa == p.free
           pt == p.total
           w == Matured(p, day)
           a == r.free
<1>1. pf \in Nat /\ pa \in Nat /\ pt \in Nat /\ w \in Nat /\ w <= pt
  BY StockFields, MaturedFacts
<1>2. r.frozen = pf /\ r.total = pt /\ r.lots = p.lots /\ a = NotNeg(w - pf)
  BY DEF Freed
<1> HIDE DEF pf, pa, pt, w, a
<1>3. a \in Nat /\ (a + pf = w \/ a + pf = pf)
  BY <1>1, <1>2 DEF NotNeg
<1>4. pa + pf <= pt => a + pf <= pt
  BY <1>1, <1>3
<1>5. ASSUME NEW D \in SUBSET Nat, Ripens(p, D), \A d \in D : day <= d
      PROVE  Ripens(r, D)
  <2>1. ASSUME NEW d \in D PROVE a + pf <= Matured(r, d)
    <3> DEFINE m == Matured(p, d)
    <3>1. Matured(r, d) = m
      BY <1>2 DEF Matured, pt
    <3>2. pa + pf <= m
      BY <1>5 DEF Ripens, pa, pf
    <3>3. w <= m /\ m \in Nat
      BY <1>5, MaturedFacts DEF w
    <3> HIDE DEF m
    <3> QED
      BY <1>1, <1>3, <3>1, <3>2, <3>3
  <2>2. Aged(r, D)
    BY <1>2, <1>5 DEF Ripens, Aged
  <2> QED
    BY <1>2, <2>1, <2>2 DEF Ripens, a
<1> QED
  BY <1>2, <1>4, <1>5 DEF a, pa, pf, pt

\* A settlement writes the margin, the value and the day.
Settles(r, p, m, v, day) == r = [p EXCEPT !.margin = m, !.value = v, !.settled = day]

\* A settled position row.
LEMMA StockSettled ==
  ASSUME NEW p, IsStock(p), NEW m \in Nat, NEW v \in Nat, NEW day \in Nat, NEW r,
         Settles(r, p, m, v, day)
  PROVE  IsStock(r) /\ r.frozen = p.frozen /\ r.free = p.free /\ r.total = p.total
         /\ r.lots = p.lots /\ Calmer(p, r)
<1>1. p \in Position
  BY DEF IsStock
<1>2. r \in Position /\ r.frozen = p.frozen /\ r.free = p.free /\ r.total = p.total
      /\ r.lots = p.lots
  BY <1>1 DEF Position, Settles
<1>3. IsStock(r)
  BY <1>2 DEF IsStock
<1>4. p.free + p.frozen <= p.free + p.frozen
  BY StockFields
<1> QED
  BY <1>2, <1>3, <1>4 DEF Calmer

\* The margin that follows the value is an amount, also when cash cannot follow.
LEMMA SettledTypes ==
  ASSUME IsStock(pos), account.cash \in Int, txn.bar.close \in Nat, NEW day
  PROVE  Settled(day).margin \in Nat /\ Settled(day).value \in Nat
<1> DEFINE worth == txn.bar.close * pos.total
           pnl == Dir * (worth - pos.value)
           ac == account.cash
           pm == pos.margin
           pv == pos.value
           cash == ac + pnl
           n == MarginOf(worth)
           want == n - pm
           move == IF want > cash THEN (IF want > 0 THEN NotNeg(cash) ELSE want) ELSE want
<1>1. pos.total \in Nat /\ pm \in Nat /\ pv \in Nat /\ ac \in Int
  BY StockFields
<1>2. worth \in Nat
  BY <1>1
<1>3. n \in Nat
  BY <1>2, MarginNat
<1>4. Settled(day).margin = pm + move /\ Settled(day).value = worth
  BY DEF Settled
<1> HIDE DEF worth, n, pm, ac
<1>5. pnl \in Int
  BY <1>1, <1>2 DEF Dir
<1> HIDE DEF pnl
<1>6. cash \in Int
  BY <1>1, <1>5
<1> HIDE DEF cash
<1>7. pm + move \in Nat
  BY <1>1, <1>3, <1>6 DEF NotNeg
<1> QED
  BY <1>2, <1>4, <1>7

\* The end of a bar: settlement, availability and the clock.
LEMMA EndBarBooks ==
  ASSUME LedgerInv, BooksInv, EndBar
  PROVE  BooksInv'
<1> DEFINE s == txn.session
           day == DayOf[txn.at]
           due == Future /\ pos.row /\ pos.settled # day
<1>1. /\ txn # NoTxn /\ txn.op = "bar" /\ txn' = NoTxn
      /\ UNCHANGED <<kind, orders, listed, starts, seen>>
  BY DEF EndBar, NoTxn
<1>2. BarTxn(txn, DOMAIN orders)
  BY <1>1 DEF LedgerInv, TxnInv, StopTxn
<1>3. /\ account \in AccountRow /\ IsStock(pos) /\ session \in [Sessions -> SessionRow]
      /\ orders \in Seq(Order) /\ starts \in 0..MaxStarts /\ account.cash \in Int
  BY DEF LedgerInv, RowsInv, BooksInv, StockInv, AccountRow
<1>4. /\ s \in Sessions /\ txn.at \in Time /\ txn.bar.close \in Nat
  <2>1. s \in Sessions /\ txn.at \in Time /\ txn.bar \in Bars
    BY <1>2 DEF BarTxn
  <2>2. txn.bar.close \in Prices
    BY <2>1, SimAssumption
  <2> QED
    BY <2>1, <2>2, NumberTypes
<1>5. day \in Nat /\ \A d \in Days : day <= d
  BY <1>2, BarDay
<1>6. session'[s].clock = txn.at /\ \A r \in Sessions \ {s} : session'[r] = session[r]
  BY <1>3, <1>4 DEF EndBar
<1>7. TodoInv' /\ BarTime'
  BY <1>1 DEF TodoInv, BarTime, NoTxn
<1>8. BarTime => Days' \subseteq Days
  <2> SUFFICES ASSUME BarTime, NEW d \in Nat, Reached(d)' PROVE Reached(d)
    BY DEF Days
  <2>1. \A r \in Sessions : DayOf[session'[r].clock] <= d
    BY DEF Reached
  <2>2. day <= d
    BY <1>4, <1>6, <2>1
  <2>3. session[s].clock <= txn.at /\ session[s].clock \in Time
    BY <1>1, <1>3, <1>4 DEF BarTime, SessionRow
  <2>4. DayOf[session[s].clock] <= day /\ DayOf[session[s].clock] \in Nat
    BY <1>4, <2>3, SimAssumption DEF Time
  <2>5. DayOf[session[s].clock] <= d
    BY <1>5, <2>2, <2>4
  <2> QED
    BY <1>6, <2>1, <2>2, <2>5 DEF Reached
<1>9. /\ IsStock(pos') /\ (Backs(account, pos, orders) => Backs(account', pos', orders'))
      /\ Ripens(pos, Days) => Ripens(pos', Days)
  <2>1. CASE due
    <3> DEFINE m == Settled(day).margin
               v == Settled(day).value
    <3>1. account' = [account EXCEPT !.cash = Settled(day).cash] /\ Settles(pos', pos, m, v, day)
      BY <2>1 DEF EndBar, Settles
    <3>2. m \in Nat /\ v \in Nat
      BY <1>3, <1>4, SettledTypes
    <3> HIDE DEF m, v, day
    <3>3. IsStock(pos') /\ pos'.frozen = pos.frozen /\ pos'.free = pos.free
          /\ pos'.total = pos.total /\ Calmer(pos, pos')
      BY <1>3, <1>5, <3>1, <3>2, StockSettled
    <3>4. account'.frozen = account.frozen /\ kind # "cash"
      BY <1>3, <2>1, <3>1 DEF AccountRow, Future
    <3>5. Backs(account, pos, orders) => Backs(account', pos', orders')
      BY <1>1, <3>3, <3>4 DEF Backs
    <3>6. Ripens(pos, Days) => Ripens(pos', Days)
      BY <1>3, <3>3, CalmerRipens DEF Days
    <3> QED
      BY <3>3, <3>5, <3>6
  <2>2. CASE ~due /\ Future
    <3>1. account' = account /\ pos' = pos
      BY <2>2 DEF EndBar
    <3> QED
      BY <1>1, <1>3, <3>1
  <2>3. CASE ~due /\ ~Future
    <3> DEFINE a == NotNeg(Matured(pos, day) - pos.frozen)
    <3>1. account' = account /\ pos' = [pos EXCEPT !.free = a]
      BY <2>3 DEF EndBar
    <3>2. a \in Nat
      <4>1. Matured(pos, day) \in Nat /\ pos.frozen \in Nat
        BY <1>3, <1>5, MaturedFacts, StockFields
      <4> QED
        BY <4>1 DEF NotNeg
    <3> HIDE DEF a, day
    <3>3. IsStock(pos') /\ pos'.frozen = pos.frozen /\ pos'.free = a
          /\ pos'.total = pos.total /\ pos'.lots = pos.lots
      BY <1>3, <3>1, <3>2, StockFree
    <3>4. Freed(pos', pos, day)
      BY <3>3 DEF Freed, a
    <3>5. /\ pos.free + pos.frozen <= pos.total => pos'.free + pos'.frozen <= pos'.total
          /\ \A D \in SUBSET Nat :
               Ripens(pos, D) /\ (\A d \in D : day <= d) => Ripens(pos', D)
      BY <1>3, <1>5, <3>4, FreedBooks
    <3>6. Backs(account, pos, orders) => Backs(account', pos', orders')
      BY <1>1, <3>1, <3>3, <3>5 DEF Backs
    <3>7. Ripens(pos, Days) => Ripens(pos', Days)
      BY <1>5, <3>5 DEF Days
    <3> QED
      BY <3>3, <3>6, <3>7
  <2> QED
    BY <2>1, <2>2, <2>3
<1>10. ~seen'.raced /\ ~seen'.rewound => Ripens(pos', Days') /\ BarTime' /\ ~seen'.early
  <2>1. Ripens(pos', Days) /\ Days' \subseteq Days => Ripens(pos', Days')
    BY DEF Ripens, Aged
  <2> QED
    BY <1>1, <1>7, <1>8, <1>9, <2>1 DEF BooksInv, RipeInv
<1>11. ~seen'.raced => Backs(account', pos', orders') /\ ~seen'.short
  BY <1>1, <1>9 DEF BooksInv, ReserveInv
<1> QED
  BY <1>1, <1>3, <1>7, <1>9, <1>10, <1>11, BooksFrom

\* A recovery of a session that is still active finds in its orders all that is set aside.
LEMMA RecoverFinds ==
  ASSUME LedgerInv, txn = NoTxn, ~seen.raced, NEW s \in Sessions,
         session[s].status \in {"running", "paused"}
  PROVE  ActiveOf(s) = WorkingIn(orders)
<1>1. \A i \in DOMAIN orders : orders[i].session \in Sessions
  <2>1. \A i \in DOMAIN orders : orders[i] \in Row
    BY DEF LedgerInv, RowsInv
  <2> QED
    BY <2>1 DEF Row
<1>2. \A i \in DOMAIN orders : Working(i) => session[orders[i].session].status \in Live
  BY DEF LedgerInv, QuietInv, NoTxn
<1>3. session[s].status \in Live
  BY DEF Live
<1>4. \A i \in DOMAIN orders : Working(i) => orders[i].session = s
  BY <1>1, <1>2, <1>3 DEF LedgerInv, OneLiveSession
<1> QED
  BY <1>4 DEF ActiveOf, WorkingIn, Working, Active

\* recover_active_sessions rebuilds what it found, or pauses the session.
LEMMA RecoverBooks ==
  ASSUME LedgerInv, BooksInv, NEW s \in Sessions, Recover(s)
  PROVE  BooksInv'
<1> DEFINE day == DayOf[session[s].clock]
           C == ReservedCash(s)
           H == ReservedUnits(s)
           L == Liquid
           ac == account.cash
           af == account.frozen
           pt == pos.total
           pf == pos.frozen
           w == Matured(pos, day)
<1>1. txn = NoTxn /\ txn' = NoTxn /\ UNCHANGED <<kind, orders, starts>>
  BY DEF Recover, Idle
<1>2. /\ account \in AccountRow /\ IsStock(pos) /\ session \in [Sessions -> SessionRow]
      /\ orders \in Seq(Order) /\ starts \in 0..MaxStarts /\ seen \in SeenRow
  BY DEF LedgerInv, RowsInv, BooksInv, StockInv
<1>3. /\ seen'.short = seen.short /\ seen'.early = seen.early /\ seen'.rewound = seen.rewound
      /\ seen'.raced <=> seen.raced \/ session[s].status \notin {"running", "paused"}
  <2> DEFINE x == seen.raced \/ session[s].status \notin {"running", "paused"}
  <2>1. seen' = [seen EXCEPT !.raced = x] /\ x \in BOOLEAN
    BY DEF Recover
  <2> HIDE DEF x
  <2>2. /\ seen'.short = seen.short /\ seen'.early = seen.early /\ seen'.rewound = seen.rewound
        /\ seen'.raced = x
    BY <1>2, <2>1 DEF SeenRow
  <2> QED
    BY <2>2 DEF x
<1>4. /\ ac \in Int /\ af \in Int /\ L = ac + af
      /\ pt \in Nat /\ pf \in Nat /\ pos.free \in Nat
  BY <1>2, StockFields DEF AccountRow, Liquid
<1>5. session[s].clock \in Time /\ day \in Nat
  <2>1. session[s].clock \in Time
    BY <1>2 DEF SessionRow
  <2> QED
    BY <2>1, SimAssumption DEF Time
<1>6. w \in Nat
  BY <1>2, <1>5, MaturedFacts
<1>7. session' = session \/ session' = [session EXCEPT ![s].status = "paused"]
  BY DEF Recover, RebuildUnits, PauseUnbacked
<1>8. \A r \in Sessions : session'[r].clock = session[r].clock
  BY <1>2, <1>7, StatusKeepsClock
<1>9. TodoInv' /\ BarTime' /\ Days' = Days
  BY <1>1, <1>8, SameDays DEF TodoInv, BarTime, NoTxn
<1>10. ASSUME ~seen'.raced
       PROVE  ~seen.raced /\ Backs(account, pos, orders) /\ ~seen.short /\ C = af /\ H = pf
  <2>1. ~seen.raced /\ session[s].status \in {"running", "paused"}
    BY <1>3, <1>10
  <2>2. ActiveOf(s) = WorkingIn(orders)
    BY <1>1, <2>1, RecoverFinds
  <2>3. Backs(account, pos, orders) /\ ~seen.short
    BY <2>1 DEF BooksInv, ReserveInv
  <2> QED
    BY <2>1, <2>2, <2>3 DEF Backs, ReservedCash, ReservedUnits
<1>11. \A d \in Days : day <= d
  BY DEF Days, Reached
<1> HIDE DEF day, C, H, L, w, ac, af, pt, pf
<1>12. ~seen'.raced => account'.cash = account.cash /\ account'.frozen = account.frozen
  <2>1. CASE account' = account
    BY <2>1
  <2>2. CASE \E c \in 0..L : C = c /\ account' = [account EXCEPT !.cash = L - c, !.frozen = c]
    <3>1. PICK c \in 0..L : C = c /\ account' = [account EXCEPT !.cash = L - c, !.frozen = c]
      BY <2>2
    <3> DEFINE x == L - c
    <3>2. account' = [account EXCEPT !.cash = x, !.frozen = c]
      BY <3>1
    <3> HIDE DEF x
    <3>3. account'.cash = x /\ account'.frozen = c
      BY <1>2, <3>2 DEF AccountRow
    <3>4. c = af => x = ac
      BY <1>4 DEF x
    <3> QED
      BY <1>10, <3>1, <3>3, <3>4 DEF ac, af
  <2> QED
    BY <2>1, <2>2 DEF Recover, C, L
<1>13. \/ pos' = pos
       \/ /\ IsStock(pos') /\ pos'.total = pos.total /\ pos'.lots = pos.lots
          /\ ~seen'.raced => Freed(pos', pos, day)
  <2>1. CASE \E u \in 0..pt : H = u /\ pos' = [pos EXCEPT !.frozen = u, !.free = NotNeg(w - u)]
    <3>1. PICK u \in 0..pt : H = u /\ pos' = [pos EXCEPT !.frozen = u, !.free = NotNeg(w - u)]
      BY <2>1
    <3> DEFINE a == NotNeg(w - u)
    <3>2. u \in Nat /\ a \in Nat
      BY <1>4, <1>6 DEF NotNeg
    <3>3. SetAside(pos', pos, u, a)
      BY <3>1 DEF SetAside
    <3> HIDE DEF a
    <3>4. IsStock(pos') /\ pos'.frozen = u /\ pos'.free = a /\ pos'.total = pos.total
          /\ pos'.lots = pos.lots
      BY <1>2, <3>2, <3>3, StockUnits
    <3>5. ASSUME ~seen'.raced PROVE Freed(pos', pos, day)
      <4>1. u = pos.frozen
        BY <1>10, <3>1, <3>5 DEF pf
      <4> QED
        BY <3>4, <4>1 DEF Freed, a, w
    <3> QED
      BY <3>4, <3>5
  <2> QED
    BY <2>1 DEF Recover, RebuildUnits, H, pt, w, day
<1>14. IsStock(pos')
  BY <1>2, <1>13
<1>15. ASSUME ~seen'.raced
       PROVE  /\ pos'.frozen = pos.frozen /\ pos'.total = pos.total
              /\ pos.free + pos.frozen <= pos.total => pos'.free + pos'.frozen <= pos'.total
              /\ Ripens(pos, Days) => Ripens(pos', Days)
  <2>1. CASE pos' = pos
    BY <2>1
  <2>2. CASE Freed(pos', pos, day)
    <3>1. /\ pos.free + pos.frozen <= pos.total => pos'.free + pos'.frozen <= pos'.total
          /\ \A D \in SUBSET Nat :
               Ripens(pos, D) /\ (\A d \in D : day <= d) => Ripens(pos', D)
      BY <1>2, <1>5, <2>2, FreedBooks
    <3>2. Ripens(pos, Days) => Ripens(pos', Days)
      BY <1>11, <3>1 DEF Days
    <3> QED
      BY <2>2, <3>1, <3>2 DEF Freed
  <2> QED
    BY <1>13, <1>15, <2>1, <2>2
<1>16. ~seen'.raced => Backs(account', pos', orders') /\ ~seen'.short
  <2> SUFFICES ASSUME ~seen'.raced PROVE Backs(account', pos', orders') /\ ~seen'.short
    OBVIOUS
  <2> QED
    BY <1>1, <1>3, <1>10, <1>12, <1>15 DEF Backs
<1>17. ~seen'.raced /\ ~seen'.rewound => Ripens(pos', Days') /\ BarTime' /\ ~seen'.early
  <2> SUFFICES ASSUME ~seen'.raced, ~seen'.rewound
               PROVE  Ripens(pos', Days') /\ BarTime' /\ ~seen'.early
    OBVIOUS
  <2>1. Ripens(pos, Days) /\ ~seen.early
    BY <1>3, <1>10 DEF BooksInv, RipeInv
  <2> QED
    BY <1>3, <1>9, <1>15, <2>1
<1> QED
  BY <1>1, <1>2, <1>9, <1>14, <1>16, <1>17, BooksFrom
-----------------------------------------------------------------------------
(* The theorems about the books. *)

\* A new account holds and owes nothing.
LEMMA BooksInit == Init => BooksInv
<1> SUFFICES ASSUME Init PROVE BooksInv
  OBVIOUS
<1>1. /\ pos = [row |-> FALSE, total |-> 0, free |-> 0, frozen |-> 0, margin |-> 0, value |-> 0,
                settled |-> 0, lots |-> <<>>]
      /\ orders = <<>> /\ txn = NoTxn /\ starts = 0 /\ account.frozen = 0 /\ account.cash = Capital
      /\ seen.early = FALSE /\ seen.short = FALSE
  BY DEF Init
<1>2. /\ pos.total = 0 /\ pos.free = 0 /\ pos.frozen = 0 /\ pos.lots = <<>> /\ pos \in Position
      /\ orders \in Seq(Order) /\ DOMAIN orders = {} /\ DOMAIN pos.lots = {}
  BY <1>1 DEF Position
<1>3. LotsOf(pos.lots) = 0
  <2> DEFINE f == [i \in DOMAIN pos.lots |-> pos.lots[i].quantity]
  <2>1. DOMAIN f = {}
    BY <1>2
  <2> HIDE DEF f
  <2>2. Total(f) = 0
    BY <2>1, TotalEmpty
  <2> QED
    BY <2>2 DEF LotsOf, f
<1>4. IsStock(pos)
  BY <1>2, <1>3 DEF IsStock
<1>5. CashOf(orders, WorkingIn(orders)) = 0 /\ HeldOf(orders, WorkingIn(orders)) = 0
  <2>1. WorkingIn(orders) = {}
    BY <1>2 DEF WorkingIn
  <2>2. \A f : DOMAIN f = {} => Total(f) = 0
    BY TotalEmpty
  <2> QED
    BY <2>1, <2>2 DEF CashOf, HeldOf
<1>6. Backs(account, pos, orders)
  BY <1>1, <1>2, <1>5, SimAssumption DEF Backs
<1>7. \A d \in Days : Matured(pos, d) \in Nat
  BY <1>4, MaturedFacts DEF Days
<1>8. Ripens(pos, Days) /\ BarTime /\ TodoInv
  BY <1>1, <1>2, <1>7 DEF Ripens, Aged, BarTime, TodoInv, NoTxn
<1>9. starts \in 0..MaxStarts
  BY <1>1, SimAssumption
<1> QED
  BY <1>1, <1>2, <1>4, <1>6, <1>8, <1>9 DEF BooksInv, StockInv, ReserveInv, RipeInv

\* Every step keeps the books.
LEMMA BooksStep ==
  ASSUME LedgerInv, BooksInv, [Next]_vars
  PROVE  BooksInv'
<1>1. CASE UNCHANGED vars
  <2>1. UNCHANGED <<kind, account, pos, orders, session, txn, listed, starts, seen>>
    BY <1>1 DEF vars
  <2>2. Days' = Days /\ (BarTime => BarTime')
    BY <2>1, SameDays
  <2>3. TodoInv'
    BY <2>1 DEF TodoInv, BooksInv, StockInv
  <2> QED
    BY <2>1, <2>2, <2>3, SameRows DEF BooksInv, RipeInv
<1>2. ASSUME NEW s \in Sessions,
             CreateSession(s) \/ Run(s) \/ Pause(s) \/ Stop(s) \/ Archive(s)
      PROVE  BooksInv'
  BY <1>2, SessionBooks
<1>3. ASSUME NEW s \in Sessions, Recover(s) PROVE BooksInv'
  BY <1>3, RecoverBooks
<1>4. ASSUME NEW s \in Sessions, NEW ask \in Asks, Decide(s, ask) PROVE BooksInv'
  BY <1>4, DecideBooks
<1>5. ASSUME NEW s \in Sessions, NEW t \in Time, NEW b \in Bars, Bar(s, t, b) PROVE BooksInv'
  BY <1>5, BarBooks
<1>6. ASSUME NEW i \in DOMAIN orders, CancelOrder(i) PROVE BooksInv'
  BY <1>6, CancelBooks
<1>7. CASE StopNext
  BY <1>7, StopBooks
<1>8. CASE MatchNext
  BY <1>8, MatchBooks
<1>9. CASE EndBar
  BY <1>9, EndBarBooks
<1>10. CASE RecoverList
  BY <1>10, RecoverListBooks
<1> QED
  BY <1>1, <1>2, <1>3, <1>4, <1>5, <1>6, <1>7, <1>8, <1>9, <1>10 DEF Next

\* The position is what its lots say, the account and the position set aside what the
\* active orders hold, and what is free or frozen has matured (service.py:1022-1032,
\* 1132-1438, 1818-1830).
THEOREM BooksInvariant == Spec => []BooksInv
<1>1. Init => BooksInv
  BY BooksInit
<1>2. LedgerInv /\ BooksInv /\ [Next]_vars => BooksInv'
  BY BooksStep
<1> QED
  BY <1>1, <1>2, LedgerInvariant, PTL DEF Spec

\* The rows stay well formed, quantities and reservations natural numbers, whatever
\* bars, fills, settlements and recoveries do to them (service.py:1132-1374, 1471-1550).
THEOREM Typed == Spec => []TypeOK
<1>1. LedgerInv /\ BooksInv => TypeOK
  <2> SUFFICES ASSUME LedgerInv, BooksInv PROVE TypeOK
    OBVIOUS
  <2>1. /\ kind \in Kinds /\ account \in AccountRow /\ orders \in Seq(Order)
        /\ session \in [Sessions -> SessionRow] /\ listed \subseteq Sessions
        /\ starts \in 0..MaxStarts /\ pos \in Position
    BY DEF LedgerInv, RowsInv, BooksInv, StockInv, IsStock
  <2>2. \A i \in DOMAIN orders : Working(i) => Rest(i) > 0
    <3> SUFFICES ASSUME NEW i \in DOMAIN orders, Working(i) PROVE Rest(i) > 0
      OBVIOUS
    <3>1. orders[i] \in Order /\ orders[i].filled < orders[i].quantity
      BY <2>1 DEF LedgerInv, RowsInv
    <3> DEFINE x == orders[i].quantity
               y == orders[i].filled
    <3>2. x \in Nat /\ y \in Nat /\ y < x
      BY <3>1, OrderFields
    <3> HIDE DEF x, y
    <3>3. x - y > 0
      BY <3>2
    <3> QED
      BY <3>3 DEF Rest, x, y
  <2>3. Idle \/ (txn.op \in {"bar", "stop"} /\ txn.todo \subseteq ActiveOf(txn.session))
    <3> SUFFICES ASSUME txn # NoTxn
                 PROVE  txn.op \in {"bar", "stop"} /\ txn.todo \subseteq ActiveOf(txn.session)
      BY DEF Idle
    <3>1. txn.op \in {"bar", "stop"}
      BY DEF LedgerInv, TxnInv, BarTxn, StopTxn
    <3>2. \A i \in txn.todo : i \in DOMAIN orders /\ Working(i)
      BY ToDo
    <3>3. \A i \in txn.todo : orders[i].session = txn.session
      BY DEF BooksInv, StockInv, TodoInv
    <3> QED
      BY <3>1, <3>2, <3>3 DEF ActiveOf
  <2> QED
    BY <2>1, <2>2, <2>3 DEF TypeOK, AccountRow, SessionRow, Position
<1> QED
  BY <1>1, LedgerInvariant, BooksInvariant, PTL

\* What is set aside is what the active orders hold, and what ended holds nothing,
\* unless a recovery raced the end of its session (service.py:1022-1032, 1178-1198,
\* 1419-1438, 630-660).
THEOREM Reservations == Spec => []ReservationsBacked
<1>1. BooksInv => ReservationsBacked
  <2> SUFFICES ASSUME BooksInv, ~seen.raced PROVE ReservationsBacked
    BY DEF ReservationsBacked
  <2> DEFINE active == {i \in DOMAIN orders : Working(i)}
  <2>1. Backs(account, pos, orders)
    BY DEF BooksInv, ReserveInv
  <2>2. WorkingIn(orders) = active
    BY DEF WorkingIn, Working, Active
  <2>3. \A i \in DOMAIN orders \ active : orders[i].cash = 0 /\ orders[i].held = 0
    BY <2>1, <2>2 DEF Backs, Fits, WorkingIn
  <2> QED
    BY <2>1, <2>2, <2>3 DEF Backs, ReservationsBacked
<1> QED
  BY <1>1, BooksInvariant, PTL

\* The position always covers the closing orders, so that no fill finds it too small
\* after the account was credited (service.py:1248-1278, 1766-1790).
THEOREM Closes == Spec => []ClosesCovered
<1>1. BooksInv => ClosesCovered
  <2> SUFFICES ASSUME BooksInv, ~seen.raced PROVE ClosesCovered
    BY DEF ClosesCovered
  <2> DEFINE closing == {i \in DOMAIN orders : Working(i) /\ orders[i].effect = "close"}
             f == [i \in closing |-> Rest(i)]
             g == HeldAmounts(orders)
  <2>1. Backs(account, pos, orders) /\ ~seen.short /\ IsStock(pos) /\ orders \in Seq(Order)
    BY DEF BooksInv, ReserveInv, StockInv
  <2>2. Amounts(g) /\ pos.frozen = Total(g)
    BY <2>1, RowTotals DEF Backs
  <2>3. \A i \in DOMAIN orders : Working(i) =>
          orders[i].held = (IF orders[i].effect = "close" THEN Rest(i) ELSE 0)
    BY <2>1 DEF Backs, Fits, Working, Active, Rest
  <2>4. \A i \in DOMAIN orders : orders[i].held \in Nat
    BY <2>1, OrderFields
  <2>5. \A i \in closing : Rest(i) = orders[i].held /\ Rest(i) \in Nat
    BY <2>3, <2>4
  <2>6. IsFiniteSet(closing)
    <3>1. IsFiniteSet(DOMAIN orders)
      BY <2>1, FS_Interval
    <3> QED
      BY <3>1, FS_Subset
  <2>7. Amounts(f)
    BY <2>5, <2>6 DEF Amounts
  <2>8. \A j : Of(f, j) <= Of(g, j)
    <3> SUFFICES ASSUME NEW j PROVE Of(f, j) <= Of(g, j)
      OBVIOUS
    <3>1. CASE j \in closing
      BY <2>4, <2>5, <3>1 DEF Of, HeldAmounts, WorkingIn, Working, Active
    <3>2. CASE j \notin closing
      <4>1. Of(f, j) = 0
        BY <3>2 DEF Of
      <4>2. Of(g, j) \in Nat
        BY <2>4 DEF Of, HeldAmounts, WorkingIn
      <4> QED
        BY <4>1, <4>2
    <3> QED
      BY <3>1, <3>2
  <2>9. Total(f) <= Total(g) /\ Total(f) \in Nat /\ Total(g) \in Nat
    <3> HIDE DEF f, g
    <3> QED
      BY <2>2, <2>7, <2>8, TotalLeq
  <2>10. pos.free \in Nat /\ pos.frozen \in Nat /\ pos.total \in Nat
         /\ pos.free + pos.frozen <= pos.total
    BY <2>1, StockFields DEF Backs
  <2>11. Total(f) <= pos.total
    <3> DEFINE x == pos.free
               y == pos.frozen
               z == pos.total
               t == Total(f)
    <3>1. x \in Nat /\ y \in Nat /\ z \in Nat /\ x + y <= z /\ t \in Nat /\ t <= y
      BY <2>2, <2>9, <2>10
    <3> HIDE DEF x, y, z, t
    <3>2. t <= z
      BY <3>1
    <3> QED
      BY <3>2 DEF t, z
  <2>12. kind = "cash" => LotsOf(pos.lots) = pos.total
    BY <2>1 DEF IsStock, Future
  <2>13. pos.free >= 0
    BY <2>10
  <2> QED
    BY <2>1, <2>10, <2>11, <2>12, <2>13 DEF ClosesCovered
<1> QED
  BY <1>1, BooksInvariant, PTL

\* T+1: as long as the account's clocks go forward and no recovery raced the end of
\* its session, a unit is not sold on the day it was bought (service.py:1222-1235,
\* 1818-1830).
THEOREM SettledT1 == Spec => []NotSoldEarly
<1>1. BooksInv => NotSoldEarly
  BY DEF BooksInv, RipeInv, NotSoldEarly
<1> QED
  BY <1>1, BooksInvariant, PTL
=============================================================================
