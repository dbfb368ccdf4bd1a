----------------------------- MODULE SimLedger -----------------------------
(***************************************************************************)
(* finboard's paper trading (finboard_simulation/service.py): one simulated *)
(* account trading one instrument through sessions that follow each other,  *)
(* with the reservations behind its orders, the matching of bars, T+1 lots, *)
(* futures margin with daily settlement, and the recovery that start-up     *)
(* runs while another process may already be trading.                       *)
(*                                                                          *)
(* Every operation holds the row locks of the session and of the account    *)
(* and is one transaction: it happens whole or not at all.  The two that    *)
(* loop over orders, a bar and a stop, take one step per order here; `txn`  *)
(* holds the locks meanwhile.  Money is an integer; commission and tax are  *)
(* one flat Fee per fill; the settlement price of a futures position is     *)
(* kept as the value of the whole position, which hides the rounding of the *)
(* average to eight decimals.  The value limits of the risk configuration   *)
(* are an input: a decision may be refused.  A market event delivered again *)
(* is answered from its row, which is committed with what it changed, and   *)
(* has no step.                                                             *)
(***************************************************************************)
EXTENDS Integers, Sequences, FiniteSets, Totals

CONSTANTS Kinds,       \* instruments to choose from: "cash", "long", "short"
          Capital,     \* initial cash
          Prices,      \* prices at which bars trade and close
          Bars,        \* what a bar says: prices, the units an order may fill
                       \* (max_participation), suspended or locked at a limit
          Slip,        \* slippage of a fill
          Asks,        \* what a decision asks: target, time in force, limit or 0
          Fee,         \* commission and tax of a fill
          Buffer,      \* market price buffer per unit
          MarginDiv,   \* a futures position needs its value \div MarginDiv
          MaxActive,   \* risk.max_active_orders
          MaxSessions, \* bound on sessions of the account
          MaxOrders,   \* bound on orders
          MaxUnits,    \* bound on the units of an order
          MaxTime,     \* bound on the clock
          MaxStarts,   \* bound on recoveries
          DayOf        \* trade date of a timestamp

ASSUME SimAssumption ==
  /\ Kinds \subseteq {"cash", "long", "short"}
  /\ Capital \in Nat /\ Fee \in Nat /\ Buffer \in Nat /\ MarginDiv \in Nat \ {0}
  /\ Prices \subseteq Nat \ {0}
  /\ Bars \subseteq [low : Prices, high : Prices, price : Prices, close : Prices,
                     cap : Nat, blocked : BOOLEAN]
  /\ Slip \in Nat
  /\ Asks \subseteq [target : Nat, force : {"GFD", "IOC", "FOK"}, limit : Prices \cup {0}]
  /\ MaxActive \in Nat /\ MaxSessions \in Nat /\ MaxOrders \in Nat /\ MaxUnits \in Nat
  /\ MaxTime \in Nat /\ MaxStarts \in Nat
  /\ DayOf \in [0..MaxTime -> Nat] /\ DayOf[0] = 0
  /\ \A t, u \in 0..MaxTime : t <= u => DayOf[t] <= DayOf[u]

VARIABLES kind,     \* the instrument: cash security, long or short futures
          account,  \* cash, frozen_cash, and whether it is active
          pos,      \* the position row
          orders,   \* order rows in order of creation
          session,  \* session rows: status, and the time and close of the latest
                    \* processed bar (close 0: none yet)
          txn,      \* the transaction in progress, if any
          listed,   \* sessions recover_active_sessions has listed, not locked
          starts,   \* recoveries so far
          seen      \* for properties only: what went out of order

vars == <<kind, account, pos, orders, session, txn, listed, starts, seen>>

Sessions == 1..MaxSessions
Time     == 0..MaxTime
Future   == kind # "cash"
Dir      == IF kind = "short" THEN -1 ELSE 1
Live     == {"created", "running", "paused"}
NoTxn    == [op |-> "none"]
Idle     == txn = NoTxn

Working(o) == orders[o].status \in {"acknowledged", "partially_filled"}
ActiveOf(s) == {o \in DOMAIN orders : orders[o].session = s /\ Working(o)}
OpensOf(s)  == {o \in ActiveOf(s) : orders[o].effect = "open"}
Rest(o)     == orders[o].quantity - orders[o].filled

Least(a, b) == IF a < b THEN a ELSE b
NotNeg(a)   == IF a < 0 THEN 0 ELSE a
MarginOf(v) == v \div MarginDiv

\* _reservation_slice: the share of a reservation that a fill of q out of rest uses.
Slice(reserved, q, rest) ==
  IF reserved <= 0 \/ rest <= 0 THEN 0
  ELSE IF q >= rest THEN reserved ELSE (reserved * q) \div rest

LotsOf(lots)   == Total([i \in DOMAIN lots |-> lots[i].quantity])
\* Mutant: what was bought today counts as available.
MaturedAtOnce(p, day) == p.total

Matured(p, day) ==
  IF Future THEN p.total
  ELSE Total([i \in DOMAIN p.lots |-> IF p.lots[i].from <= day THEN p.lots[i].quantity ELSE 0])

Order == [session : Sessions, effect : {"open", "close"}, quantity : Nat, filled : Nat,
          cash : Nat, held : Nat, force : {"GFD", "IOC", "FOK"}, limit : Prices \cup {0},
          from : Time,
          status : {"acknowledged", "partially_filled", "filled", "cancelled", "rejected"}]
Lot   == [quantity : Nat \ {0}, from : Nat]

\* The rows are well formed; an order of a transaction in progress is active and
\* has something left.
TypeOK ==
  /\ kind \in Kinds
  /\ account \in [cash : Int, frozen : Int, active : BOOLEAN]
  /\ pos \in [row : BOOLEAN, total : Nat, free : Nat, frozen : Nat, margin : Nat, value : Nat,
              settled : Nat, lots : Seq(Lot)]
  /\ orders \in Seq(Order)
  /\ \A i \in DOMAIN orders : Working(i) => Rest(i) > 0
  /\ session \in [Sessions -> [status : Live \cup {"absent", "stopped", "archived"},
                               clock : Time, close : Prices \cup {0}]]
  /\ listed \subseteq Sessions
  /\ starts \in 0..MaxStarts
  /\ Idle \/ (txn.op \in {"bar", "stop"} /\ txn.todo \subseteq ActiveOf(txn.session))

Init ==
  /\ kind \in Kinds
  /\ account = [cash |-> Capital, frozen |-> 0, active |-> TRUE]
  /\ pos = [row |-> FALSE, total |-> 0, free |-> 0, frozen |-> 0, margin |-> 0, value |-> 0,
            settled |-> 0, lots |-> <<>>]
  /\ orders = <<>>
  /\ session = [s \in Sessions |-> [status |-> "absent", clock |-> 0, close |-> 0]]
  /\ txn = NoTxn
  /\ listed = {}
  /\ starts = 0
  /\ seen = [early |-> FALSE, rewound |-> FALSE, raced |-> FALSE, short |-> FALSE]
-----------------------------------------------------------------------------
(* Sessions. *)

\* Mutant: a paused session does not count as live.
CreateBesidePaused(s) ==
  /\ Idle /\ account.active
  /\ session[s].status = "absent"
  /\ \A r \in 1..(s - 1) : session[r].status # "absent"
  /\ \A r \in Sessions : session[r].status \notin {"created", "running"}
  /\ session' = [session EXCEPT ![s].status = "created"]
  /\ UNCHANGED <<kind, account, pos, orders, txn, listed, starts, seen>>

\* create_session: one live session per account, under the account's lock.
CreateSession(s) ==
  /\ Idle /\ account.active
  /\ session[s].status = "absent"
  /\ \A r \in 1..(s - 1) : session[r].status # "absent"
  /\ \A r \in Sessions : session[r].status \notin Live
  /\ session' = [session EXCEPT ![s].status = "created"]
  /\ UNCHANGED <<kind, account, pos, orders, txn, listed, starts, seen>>

\* transition_session, for the targets that only change the status.
Transition(s, from, to) ==
  /\ Idle /\ account.active
  /\ session[s].status \in from
  /\ session' = [session EXCEPT ![s].status = to]
  /\ UNCHANGED <<kind, pos, orders, txn, listed, starts, seen>>

Run(s)   == Transition(s, {"created", "paused"}, "running") /\ UNCHANGED account
Pause(s) == Transition(s, {"running"}, "paused") /\ UNCHANGED account

\* Archiving a session makes its account read-only.
Archive(s) == /\ Transition(s, {"stopped"}, "archived")
              /\ account' = [account EXCEPT !.active = FALSE]

\* Mutant: a paused session is stopped without cancelling its orders.
StopPausedAsIs(s) ==
  /\ Idle /\ account.active
  /\ session[s].status \in Live
  /\ session' = [session EXCEPT ![s].status = "stopped"]
  /\ txn' = [op |-> "stop", session |-> s,
              todo |-> IF session[s].status = "paused" THEN {} ELSE ActiveOf(s)]
  /\ UNCHANGED <<kind, account, pos, orders, listed, starts, seen>>

\* Stopping a session cancels its active orders, in CloseNext below.
Stop(s) ==
  /\ Idle /\ account.active
  /\ session[s].status \in Live
  /\ session' = [session EXCEPT ![s].status = "stopped"]
  /\ txn' = [op |-> "stop", session |-> s, todo |-> ActiveOf(s)]
  /\ UNCHANGED <<kind, account, pos, orders, listed, starts, seen>>
-----------------------------------------------------------------------------
(* Decisions. *)

\* What an order that opens q units at reference price p must set aside.
Required(q, p) == IF Future THEN MarginOf(q * p) + Fee ELSE q * (p + Buffer) + Fee

NewOrder(s, effect, q, ask) ==
  [session |-> s, effect |-> effect, quantity |-> q, filled |-> 0, cash |-> 0,
   held |-> 0, force |-> ask.force, limit |-> ask.limit, from |-> session[s].clock,
   status |-> "acknowledged"]

\* What the position comes to when the session's active orders are filled.
Projected(s) == pos.total + Total([i \in OpensOf(s) |-> Rest(i)])
                          - Total([i \in ActiveOf(s) \ OpensOf(s) |-> Rest(i)])

\* submit_decision with one target: the difference between the target and what
\* the position will come to becomes one order, with its cash or its quantity set
\* aside.  An order the risk checks refuse is written as a rejected row that
\* nothing reads again: it has no step here.
DecideOpen(s, ask) ==
  \E q \in 1..MaxUnits :
    LET cost == Required(q, IF ask.limit = 0 THEN session[s].close ELSE ask.limit)
    IN /\ Projected(s) + q = ask.target
       /\ account.cash >= cost
       /\ account' = [account EXCEPT !.cash = @ - cost, !.frozen = @ + cost]
       /\ orders' = Append(orders, [NewOrder(s, "open", q, ask) EXCEPT !.cash = cost])
       /\ UNCHANGED pos

DecideClose(s, ask) ==
  \E q \in 1..MaxUnits :
    /\ Projected(s) - q = ask.target
    /\ pos.free >= q
    /\ pos' = [pos EXCEPT !.free = @ - q, !.frozen = @ + q]
    /\ orders' = Append(orders, [NewOrder(s, "close", q, ask) EXCEPT !.held = q])
    /\ UNCHANGED account

Decide(s, ask) ==
  /\ Idle /\ account.active
  /\ session[s].status = "running" /\ session[s].close # 0
  /\ Len(orders) < MaxOrders /\ Cardinality(ActiveOf(s)) < MaxActive
  /\ DecideOpen(s, ask) \/ DecideClose(s, ask)
  /\ UNCHANGED <<kind, session, txn, listed, starts, seen>>
-----------------------------------------------------------------------------
(* Closing an order: _close_order and _release_residual_reservation. *)

FreedCash(o, acc)  == IF o.cash > 0 THEN Least(o.cash, acc.frozen) ELSE 0
FreedUnits(o, p)   == IF o.held > 0 THEN Least(o.held, p.frozen) ELSE 0

\* Order i becomes o with this status and what it still reserves goes back.
Close(i, o, status, acc, p) ==
  LET c == FreedCash(o, acc)
      u == FreedUnits(o, p)
  IN /\ orders' = [orders EXCEPT ![i] = [o EXCEPT !.status = status, !.cash = @ - c,
                                                  !.held = @ - u]]
     /\ account' = [acc EXCEPT !.cash = @ + c, !.frozen = @ - c]
     /\ pos' = IF o.held > 0
               THEN [p EXCEPT !.frozen = @ - u, !.free = Least(p.total, @ + u)]
               ELSE p

\* cancel_order, also of a paused session and without asking for an active account.
CancelOrder(i) ==
  /\ Idle /\ Working(i)
  /\ session[orders[i].session].status \in {"running", "paused"}
  /\ Close(i, orders[i], "cancelled", account, pos)
  /\ UNCHANGED <<kind, session, txn, listed, starts, seen>>

\* The oldest order of the transaction that is still to be done, and done.
Oldest(i) == i \in txn.todo /\ \A j \in txn.todo : i <= j
Done(i)   == txn' = [txn EXCEPT !.todo = @ \ {i}]

\* _cancel_all_active, one order at a time, then the commit of the stop.
StopNext ==
  /\ txn.op = "stop"
  /\ \/ \E i \in txn.todo :
          Oldest(i) /\ Close(i, orders[i], "cancelled", account, pos) /\ Done(i)
     \/ txn.todo = {} /\ txn' = NoTxn /\ UNCHANGED <<account, pos, orders>>
  /\ UNCHANGED <<kind, session, listed, starts, seen>>
-----------------------------------------------------------------------------
(* Bars. *)

\* process_bar: the session's clock does not go back.
Bar(s, t, b) ==
  /\ Idle /\ account.active
  /\ session[s].status = "running"
  /\ t >= session[s].clock /\ t > 0
  /\ txn' = [op |-> "bar", session |-> s, at |-> t, bar |-> b, todo |-> ActiveOf(s)]
  /\ seen' = [seen EXCEPT !.rewound = @ \/ \E r \in Sessions : session[r].clock > t]
  /\ UNCHANGED <<kind, account, pos, orders, session, listed, starts>>

\* The order buys; a short position is opened by selling.
Buys(o) == (o.effect = "open") = (kind # "short")

\* fill_price_for and price_with_slippage: the better of the bar's price and the
\* limit, then slippage, which may take it past the limit.
FillPrice(o) ==
  IF Buys(o) THEN (IF o.limit = 0 THEN txn.bar.price ELSE Least(txn.bar.price, o.limit)) + Slip
  ELSE (IF txn.bar.price < o.limit THEN o.limit ELSE txn.bar.price) - Slip

\* match_order, with partial fills allowed.
Outcome(o) ==
  LET rest    == o.quantity - o.filled
      reached == \/ o.limit = 0
                 \/ Buys(o) /\ txn.bar.low <= o.limit
                 \/ ~Buys(o) /\ txn.bar.high >= o.limit
  IN CASE txn.at <= o.from -> "wait"
       [] txn.at > o.from /\ txn.bar.blocked -> "rejected"
       [] txn.at > o.from /\ ~txn.bar.blocked /\ ~reached
            -> IF o.force = "GFD" THEN "wait" ELSE "cancelled"
       [] OTHER
            -> IF txn.bar.cap >= rest \/ (txn.bar.cap > 0 /\ o.force # "FOK")
               THEN IF FillPrice(o) > 0 THEN "fill" ELSE "rejected"
               ELSE IF o.force = "GFD" THEN "wait" ELSE "cancelled"

\* _decrease_position takes the units from the oldest lots, matured or not.
Before(lots, i)   == Total([j \in 1..(i - 1) |-> lots[j].quantity])
Taken(lots, i, q) == Least(lots[i].quantity, NotNeg(q - Before(lots, i)))
Spent(lots, q)    == Cardinality({i \in DOMAIN lots : Taken(lots, i, q) = lots[i].quantity})
Consume(lots, q) ==
  LET k == Spent(lots, q)
  IN [i \in 1..(Len(lots) - k) |-> [lots[k + i] EXCEPT !.quantity = @ - Taken(lots, k + i, q)]]

\* _increase_position: a cash security bought today is free from the next day on.
Increase(p, q, price, day) ==
  LET more == [p EXCEPT
        !.row = TRUE, !.total = @ + q,
        !.margin = @ + (IF Future THEN MarginOf(q * price) ELSE 0),
        !.value = @ + (IF Future THEN q * price ELSE 0),
        !.lots = IF Future THEN @ ELSE Append(@, [quantity |-> q, from |-> day + 1])]
  IN [more EXCEPT !.free = NotNeg(Matured(more, day) - more.frozen)]

\* Mutant: units frozen for what is left of the order become available.
DecreaseFreesAll(p, q, day) ==
  LET less == [p EXCEPT !.total = @ - q, !.lots = Consume(@, q)]
  IN IF less.total <= 0
     THEN [less EXCEPT !.total = 0, !.free = 0, !.frozen = 0, !.lots = <<>>]
     ELSE [less EXCEPT !.free = NotNeg(Matured(less, day))]

\* _decrease_position, after the order's frozen units and its share of the margin
\* and of the settlement value are gone.
Decrease(p, q, day) ==
  LET less == [p EXCEPT !.total = @ - q, !.lots = Consume(@, q)]
  IN IF less.total <= 0
     THEN [less EXCEPT !.total = 0, !.free = 0, !.frozen = 0, !.lots = <<>>]
     ELSE [less EXCEPT !.free = NotNeg(Matured(less, day) - less.frozen)]

\* Mutants: the last unit does not end the order; the cancelled remainder of an
\* IOC order keeps its reservation.
AfterFillOffByOne(i, o, q, acc, p) ==
  LET f == [o EXCEPT !.filled = @ + q]
  IN IF f.filled > f.quantity THEN Close(i, f, "filled", acc, p)
     ELSE IF f.force = "IOC" THEN Close(i, f, "cancelled", acc, p)
     ELSE /\ orders' = [orders EXCEPT ![i] = [f EXCEPT !.status = "partially_filled"]]
          /\ account' = acc /\ pos' = p

AfterFillKeepsRest(i, o, q, acc, p) ==
  LET f == [o EXCEPT !.filled = @ + q]
  IN IF f.filled >= f.quantity THEN Close(i, f, "filled", acc, p)
     ELSE /\ orders' = [orders EXCEPT ![i] = [f EXCEPT !.status =
               IF f.force = "IOC" THEN "cancelled" ELSE "partially_filled"]]
          /\ account' = acc /\ pos' = p

\* Order i filled q more, with what that made of the account and the position.
\* A filled order gives its residual reservation back, and so does the cancelled
\* remainder of an IOC order.
AfterFill(i, o, q, acc, p) ==
  LET f == [o EXCEPT !.filled = @ + q]
  IN IF f.filled >= f.quantity THEN Close(i, f, "filled", acc, p)
     ELSE IF f.force = "IOC" THEN Close(i, f, "cancelled", acc, p)
     ELSE /\ orders' = [orders EXCEPT ![i] = [f EXCEPT !.status = "partially_filled"]]
          /\ account' = acc /\ pos' = p

\* _apply_fill of an opening order: it pays from its share of the reservation and
\* from free cash, or is rejected.
FillOpen(i, o, q) ==
  LET share  == Slice(o.cash, q, Rest(i))
      price  == FillPrice(o)
      needed == (IF Future THEN MarginOf(q * price) ELSE q * price) + Fee
  IN IF account.cash + share < needed
     THEN Close(i, o, "rejected", account, [pos EXCEPT !.row = TRUE])
     ELSE AfterFill(i, [o EXCEPT !.cash = @ - share], q,
                    [account EXCEPT !.cash = @ + share - needed, !.frozen = @ - share],
                    Increase(pos, q, price, DayOf[txn.at]))

\* _apply_fill of a closing order.  A futures contract releases its margin and
\* pays the difference to its settlement price.  That the position is too small
\* is noticed after the account was credited: the order is rejected, the credit
\* stays.
FillClose(i, o, q) ==
  LET units    == Least(o.held, q)
      margin   == IF Future THEN Slice(pos.margin, q, pos.total) ELSE 0
      value    == IF Future THEN Slice(pos.value, q, pos.total) ELSE 0
      worth    == q * FillPrice(o)
      proceeds == IF Future THEN margin + Dir * (worth - value) ELSE worth
      paid     == [account EXCEPT !.cash = @ + proceeds - Fee]
      left     == [pos EXCEPT !.frozen = NotNeg(@ - units), !.margin = @ - margin,
                              !.value = @ - value]
      day      == DayOf[txn.at]
      rest     == [o EXCEPT !.held = @ - units]
  IN /\ IF q > pos.total THEN Close(i, rest, "rejected", paid, left)
        ELSE AfterFill(i, rest, q, paid, Decrease(left, q, day))
     /\ seen' = [seen EXCEPT !.short = @ \/ q > pos.total,
                             !.early = @ \/ \E l \in DOMAIN pos.lots :
                                              /\ Taken(pos.lots, l, q) > 0
                                              /\ pos.lots[l].from > day]

\* One order of the bar's symbol is matched, the oldest first.
MatchOrder(i) ==
  LET o == orders[i]
      q == Least(txn.bar.cap, Rest(i))
  IN \/ Outcome(o) = "wait" /\ UNCHANGED <<account, pos, orders, seen>>
     \/ /\ Outcome(o) \in {"rejected", "cancelled"}
        /\ Close(i, o, Outcome(o), account, pos)
        /\ UNCHANGED seen
     \/ Outcome(o) = "fill" /\ o.effect = "open" /\ FillOpen(i, o, q) /\ UNCHANGED seen
     \/ Outcome(o) = "fill" /\ o.effect = "close" /\ FillClose(i, o, q)

MatchNext ==
  /\ txn.op = "bar"
  /\ \E i \in txn.todo : Oldest(i) /\ MatchOrder(i) /\ Done(i)
  /\ UNCHANGED <<kind, session, listed, starts>>

\* Mutant: a short position is settled like a long one.
SettledUnsigned(day) ==
  LET worth == txn.bar.close * pos.total
      cash  == account.cash + worth - pos.value
      want  == MarginOf(worth) - pos.margin
      move  == IF want > cash THEN (IF want > 0 THEN NotNeg(cash) ELSE want) ELSE want
  IN [cash |-> cash - move, margin |-> pos.margin + move, value |-> worth,
      called |-> want > 0 /\ cash < want]

\* _settle_future: once a trade date the change of value is paid and the margin
\* follows; cash that cannot follow pauses the session.
Settled(day) ==
  LET worth == txn.bar.close * pos.total
      pnl   == Dir * (worth - pos.value)
      cash  == account.cash + pnl
      want  == MarginOf(worth) - pos.margin
      move  == IF want > cash THEN (IF want > 0 THEN NotNeg(cash) ELSE want) ELSE want
  IN [cash |-> cash - move, margin |-> pos.margin + move, value |-> worth,
      called |-> want > 0 /\ cash < want]

\* _mark_to_market_and_settle, the clock, and the commit of the bar.
EndBar ==
  LET s   == txn.session
      day == DayOf[txn.at]
      due == Future /\ pos.row /\ pos.settled # day
      new == Settled(day)
  IN
  /\ txn.op = "bar" /\ txn.todo = {}
  /\ IF due
     THEN /\ account' = [account EXCEPT !.cash = new.cash]
          /\ pos' = [pos EXCEPT !.margin = new.margin, !.value = new.value, !.settled = day]
     ELSE /\ pos' = IF Future THEN pos
                    ELSE [pos EXCEPT !.free = NotNeg(Matured(pos, day) - pos.frozen)]
          /\ UNCHANGED account
  /\ session' = [session EXCEPT ![s] =
       [status |-> IF due /\ new.called THEN "paused" ELSE @.status, clock |-> txn.at,
        close |-> txn.bar.close]]
  /\ txn' = NoTxn
  /\ UNCHANGED <<kind, orders, listed, starts, seen>>
-----------------------------------------------------------------------------
(* Recovery at start-up, while other processes serve the same database. *)

\* recover_active_sessions lists the running and paused sessions, without a lock.
RecoverList ==
  /\ starts < MaxStarts /\ listed = {}
  /\ listed' = {s \in Sessions : session[s].status \in {"running", "paused"}}
  /\ listed' # {}
  /\ starts' = starts + 1
  /\ UNCHANGED <<kind, account, pos, orders, session, txn, seen>>

\* It then locks each session and its account and rebuilds the reservations from
\* that session's active orders, or pauses it; the status is not looked at again.
CashOf(rows, S)  == Total([i \in S |-> rows[i].cash])
HeldOf(rows, S)  == Total([i \in S |-> rows[i].held])
ReservedCash(s)  == CashOf(orders, ActiveOf(s))
ReservedUnits(s) == HeldOf(orders, ActiveOf(s))
Liquid           == account.cash + account.frozen

PauseUnbacked(s) == session' = [session EXCEPT ![s].status = "paused"]

\* The position's frozen and available units, once the cash is rebuilt.
RebuildUnits(s) ==
  \/ /\ ReservedUnits(s) > pos.total
     /\ PauseUnbacked(s)
     /\ UNCHANGED pos
  \/ \E u \in 0..pos.total :
       /\ ReservedUnits(s) = u
       /\ pos' = [pos EXCEPT !.frozen = u,
                             !.free = NotNeg(Matured(pos, DayOf[session[s].clock]) - u)]
       /\ UNCHANGED session

Recover(s) ==
  /\ Idle /\ s \in listed
  /\ listed' = listed \ {s}
  /\ \/ ReservedCash(s) > Liquid /\ PauseUnbacked(s) /\ UNCHANGED <<account, pos>>
     \/ \E c \in 0..Liquid :
          /\ ReservedCash(s) = c
          /\ account' = [account EXCEPT !.cash = Liquid - c, !.frozen = c]
          /\ RebuildUnits(s)
  /\ seen' = [seen EXCEPT !.raced = @ \/ session[s].status \notin {"running", "paused"}]
  /\ UNCHANGED <<kind, orders, txn, starts>>
-----------------------------------------------------------------------------
Next ==
  \/ \E s \in Sessions :
       \/ CreateSession(s) \/ Run(s) \/ Pause(s) \/ Stop(s) \/ Archive(s) \/ Recover(s)
       \/ \E ask \in Asks : Decide(s, ask)
       \/ \E t \in Time, b \in Bars : Bar(s, t, b)
  \/ \E i \in DOMAIN orders : CancelOrder(i)
  \/ StopNext \/ MatchNext \/ EndBar \/ RecoverList

Spec == Init /\ [][Next]_vars
-----------------------------------------------------------------------------
(* Properties.  seen.raced: a recovery locked a session that had stopped being  *)
(* active since it was listed.  seen.rewound: a session replayed a time before  *)
(* one that an earlier session of the account had reached.                      *)

\* The worth of one unit pays for a sale; the fee of a smaller sale is taken from
\* the account without asking whether it can pay (service.py:1292).
FeesPaid == \A p \in Prices : Fee + Slip <= p

\* What the account set aside is what its active orders hold, in cash and in
\* units, and an order that ended holds nothing: partial fills, cancelled
\* remainders, rejections, stops and recoveries release exactly the rest
\* (service.py:1022-1032, 1178-1198, 1419-1438, 630-660).
ReservationsBacked ==
  Idle /\ ~seen.raced =>
    LET active == {i \in DOMAIN orders : Working(i)}
    IN /\ account.frozen = CashOf(orders, active)
       /\ pos.frozen = HeldOf(orders, active)
       /\ \A i \in DOMAIN orders \ active : orders[i].cash = 0 /\ orders[i].held = 0
       /\ kind = "cash" /\ FeesPaid => account.cash >= 0

\* What active closing orders still have to sell is there to be sold, so that a
\* fill never takes a position or its lots below zero, which would be noticed
\* only after the account was credited (service.py:1248-1278, 1766-1790).
ClosesCovered ==
  LET closing == {i \in DOMAIN orders : Working(i) /\ orders[i].effect = "close"}
  IN ~seen.raced =>
       /\ Total([i \in closing |-> Rest(i)]) <= pos.total
       /\ pos.free >= 0 /\ (Idle => pos.free + pos.frozen <= pos.total)
       /\ kind = "cash" => LotsOf(pos.lots) = pos.total
       /\ ~seen.short

\* T+1: no unit of a cash security is sold on the day it was bought, as long as
\* the account's sessions move forward in time and no recovery forgot what another
\* session's orders hold (service.py:1222-1235, 1818-1830).
NotSoldEarly == seen.early => seen.rewound \/ seen.raced

\* A session that is stopped or archived has no active order left
\* (service.py:275-278, 1552-1574).
StoppedIsQuiet ==
  Idle => \A s \in Sessions : session[s].status \notin Live => ActiveOf(s) = {}

\* An account has at most one live session (service.py:136-146), also when a
\* recovery pauses a session that cannot be rebuilt.
OneLiveSession ==
  ~seen.raced =>
    \A r, s \in Sessions : session[r].status \in Live /\ session[s].status \in Live => r = s

\* Reservations, margin, settlement, recovery and the life of the sessions move no
\* money: every step of the account is a step of the abstract one, unless it
\* found a closing order larger than the position (service.py:1132-1374, 1471-1550).
Balance == account.cash + account.frozen + pos.margin
             - (IF kind = "cash" THEN 0 ELSE Dir * pos.value)
Paper == INSTANCE PaperAccount WITH
  Prices  <- {p + d : p \in Prices, d \in {Slip, -Slip}},
  balance <- Balance,
  held    <- pos.total
TradesOnly == Paper!Init /\ [][Paper!Trade \/ seen.short']_<<kind, Balance, pos.total>>
-----------------------------------------------------------------------------
(* What the documentation says and the code does not keep. *)

\* Archiving makes the account read-only (docs/simulation_trading.md:56).
ArchivedIsReadOnly == [][~account.active => UNCHANGED <<account, pos>>]_vars
============================================================================
