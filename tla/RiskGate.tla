------------------------------ MODULE RiskGate ------------------------------
(***************************************************************************)
(* finboard's pre-trade gate: PreTradeChecker.check as OrderManager's       *)
(* place_order awaits it, the kill switch the operator and the scheduler's  *)
(* tasks set, and the orders, fills and positions the checks read.          *)
(*                                                                          *)
(* Several callers (the HTTP API, strategies) place orders on one event     *)
(* loop.  A check that reads the database awaits it: one step ends with     *)
(* that read, and what other callers and the broker do comes between it and *)
(* the next.  Prices are one unit, so that a quantity is its value; a fill  *)
(* is at the order's price.  The life of an order after its submission is   *)
(* that of OrderKernel, seen from here: it is active, it fills, it is gone. *)
(***************************************************************************)
EXTENDS Integers, Sequences, FiniteSets

CONSTANTS Clients,       \* coroutines that place orders
          Sizes,         \* order values a caller asks for
          MaxOrderValue, MaxDailyBuy, MaxActive, PerMinute,  \* RiskConfig
          AllowShort, AllowMarket,
          InitialLevel,  \* settings.kill_switch_initial
          Switched,      \* levels the operator chooses from
          Minute,        \* the sliding window in ticks of the clock
          Position,      \* units held at first; 0: no position row
          MaxTime,       \* bound on the clock
          Rows,          \* bound on order rows that are active at once
          MaxStarts      \* bound on restarts of the process

Levels == {"off", "no_new_orders", "reduce_only", "cancel_all", "halt"}

ASSUME RiskAssumption ==
  /\ IsFiniteSet(Clients) /\ Clients # {}
  /\ Sizes \subseteq Nat
  /\ MaxOrderValue \in Nat /\ MaxDailyBuy \in Nat /\ MaxActive \in Nat /\ PerMinute \in Nat
  /\ AllowShort \in BOOLEAN /\ AllowMarket \in BOOLEAN
  /\ InitialLevel \in Levels /\ Switched \subseteq Levels
  /\ Minute \in Nat /\ Position \in Nat
  /\ MaxTime \in Nat /\ MaxStarts \in Nat

VARIABLES level,   \* kill switch: the checker's copy and the kernel's, set together
          alarm,   \* a scheduled task saw a lost connection or a mismatch, not yet acted
          ask,     \* per caller: the request and the check it waits for
          calls,   \* _call_timestamps
          now,
          orders,  \* the active order rows
          pos,     \* local position row: total and available
          bought,  \* fills of buys since midnight UTC
          starts,  \* restarts so far
          passed,  \* for properties: when the rate limit let requests pass, since the start
          late,    \* for properties: orders each caller wrote under the present HALT
          seen     \* for properties: sells that overlapped, a position cut off at 0

vars == <<level, alarm, ask, calls, now, orders, pos, bought, starts, passed, late, seen>>

Idle     == [at |-> "idle"]
Steps    == {"daily", "rate", "active", "sell", "add", "send"}
Time     == 0..MaxTime
NoRow    == [status |-> "none"]
None     == [c \in Clients |-> 0]
Active   == {i \in Rows : orders[i] # NoRow}
Busy(c)  == ask[c] # Idle

\* A sell other than c's is active or about to be.
SellPending(c) ==
  \/ \E i \in Active : orders[i].side = "sell"
  \/ \E d \in Clients \ {c} : ask[d].at = "add" /\ ask[d].side = "sell"

Order == [side : {"buy", "sell"}, left : Nat, by : Clients,
          status : {"new", "sent", "cancelling"}]
Request == [at : Steps, side : {"buy", "sell"}, market : BOOLEAN, value : Nat]

\* Rows are well formed; the window holds no more than the limit, oldest first.
TypeOK ==
  /\ level \in Levels /\ alarm \in BOOLEAN
  /\ ask \in [Clients -> {Idle} \cup Request]
  /\ calls \in Seq(Time) /\ Len(calls) <= PerMinute
  /\ \A i \in 1..(Len(calls) - 1) : calls[i] <= calls[i + 1]
  /\ now \in Time /\ starts \in 0..MaxStarts
  /\ late \in [Clients -> Nat]
  /\ orders \in [Rows -> {NoRow} \cup Order]
  /\ pos \in [row : BOOLEAN, total : Nat, available : Nat] /\ pos.available <= pos.total
  /\ bought \in Nat
  /\ passed \in Seq(Time)
  /\ seen \in [sells : BOOLEAN, cut : BOOLEAN]

Init ==
  /\ level = InitialLevel /\ alarm = FALSE
  /\ ask = [c \in Clients |-> Idle]
  /\ calls = <<>> /\ now = 0 /\ orders = [i \in Rows |-> NoRow]
  /\ pos = [row |-> Position > 0, total |-> Position, available |-> Position]
  /\ bought = 0 /\ starts = 0
  /\ passed = <<>>
  /\ late = None /\ seen = [sells |-> FALSE, cut |-> FALSE]
-----------------------------------------------------------------------------
(* place_order, from the risk check to the answer of the broker. *)

AllowsNew        == level = "off"

\* Mutant: a sell passes at every level.
AllowsReduceAlways == TRUE

AllowsReduceOnly == level \in {"off", "no_new_orders", "reduce_only"}

\* Caller c waits for the next check of its request, or its request is refused.
Goes(c, at) == ask' = [ask EXCEPT ![c].at = at]
Refused(c)  == ask' = [ask EXCEPT ![c] = Idle]

\* The checks before the first await: switch, basic, order type, value of the order.
Ask(c, side, market, value) ==
  /\ ~Busy(c)
  /\ AllowsNew \/ (side = "sell" /\ AllowsReduceOnly)
  /\ value > 0
  /\ market => AllowMarket
  /\ ~market => value <= MaxOrderValue
  /\ ask' = [ask EXCEPT ![c] = [at |-> IF side = "buy" /\ ~market THEN "daily" ELSE "rate",
                               side |-> side, market |-> market, value |-> value]]
  /\ UNCHANGED <<level, alarm, calls, now, orders, pos, bought, starts, passed, late, seen>>

\* _check_daily_buy_value reads what was bought, not what active orders may buy.
CheckDaily(c) ==
  /\ ask[c].at = "daily"
  /\ IF bought + ask[c].value > MaxDailyBuy THEN Refused(c) ELSE Goes(c, "rate")
  /\ UNCHANGED <<level, alarm, calls, now, orders, pos, bought, starts, passed, late, seen>>

\* Mutant: a call exactly a minute ago is forgotten.
StaleEarly(t) == now - t >= Minute

Stale(t) == now - t > Minute

\* The oldest k calls leave the window: they are stale, and the next is not.
Pops(k) == /\ \A i \in 1..k : Stale(calls[i])
           /\ k < Len(calls) => ~Stale(calls[k + 1])

\* Mutant: the limit itself is let through.
CheckRateOffByOne(c) ==
  /\ ask[c].at = "rate"
  /\ \E k \in 0..Len(calls) :
       LET recent == SubSeq(calls, k + 1, Len(calls)) IN
       /\ Pops(k)
       /\ IF Len(recent) > PerMinute
          THEN calls' = recent /\ Refused(c) /\ UNCHANGED passed
          ELSE /\ calls' = Append(recent, now) /\ passed' = Append(passed, now)
               /\ Goes(c, "active")
  /\ UNCHANGED <<level, alarm, now, orders, pos, bought, starts, late, seen>>

\* _check_rate_limit: no await between the pruning, the count and the append.
CheckRate(c) ==
  /\ ask[c].at = "rate"
  /\ \E k \in 0..Len(calls) :
       LET recent == SubSeq(calls, k + 1, Len(calls)) IN
       /\ Pops(k)
       /\ IF Len(recent) >= PerMinute
          THEN calls' = recent /\ Refused(c) /\ UNCHANGED passed
          ELSE /\ calls' = Append(recent, now) /\ passed' = Append(passed, now)
               /\ Goes(c, "active")
  /\ UNCHANGED <<level, alarm, now, orders, pos, bought, starts, late, seen>>

\* Mutant: one more than the limit is let through.
CheckActiveOffByOne(c) ==
  /\ ask[c].at = "active"
  /\ IF Cardinality(Active) > MaxActive THEN Refused(c)
     ELSE Goes(c, IF ask[c].side = "sell" THEN "sell" ELSE "add")
  /\ UNCHANGED <<level, alarm, calls, now, orders, pos, bought, starts, passed, late, seen>>

\* _check_active_orders counts the rows there are now.
CheckActive(c) ==
  /\ ask[c].at = "active"
  /\ IF Cardinality(Active) >= MaxActive THEN Refused(c)
     ELSE Goes(c, IF ask[c].side = "sell" THEN "sell" ELSE "add")
  /\ UNCHANGED <<level, alarm, calls, now, orders, pos, bought, starts, passed, late, seen>>

\* Mutant: a sell is compared with nothing.
CheckSellUnseen(c) ==
  /\ ask[c].at = "sell"
  /\ IF ~pos.row /\ ~AllowShort THEN Refused(c) ELSE Goes(c, "add")
  /\ seen' = [seen EXCEPT !.sells = @ \/ SellPending(c)]
  /\ UNCHANGED <<level, alarm, calls, now, orders, pos, bought, starts, passed, late>>

\* _check_sell_available: the position row decides, if there is one.
CheckSell(c) ==
  /\ ask[c].at = "sell"
  /\ IF (pos.row /\ ask[c].value > pos.available) \/ (~pos.row /\ ~AllowShort)
     THEN Refused(c) ELSE Goes(c, "add")
  /\ seen' = [seen EXCEPT !.sells = @ \/ SellPending(c)]
  /\ UNCHANGED <<level, alarm, calls, now, orders, pos, bought, starts, passed, late>>

\* The order has a row; nothing was looked at again.
AddRow(c) ==
  /\ ask[c].at = "add"
  /\ \E i \in Rows \ Active :
       orders' = [orders EXCEPT ![i] = [side |-> ask[c].side, left |-> ask[c].value, by |-> c,
                                        status |-> "new"]]
  /\ late' = IF level = "halt" THEN [late EXCEPT ![c] = @ + 1] ELSE late
  /\ Goes(c, "send")
  /\ UNCHANGED <<level, alarm, calls, now, pos, bought, starts, passed, seen>>

\* The broker takes the order, or its answer is lost and the row stays active as
\* UNKNOWN, or it refuses.
Send(c, accepted) ==
  /\ ask[c].at = "send"
  /\ \E i \in Active :
       /\ orders[i].status = "new" /\ orders[i].by = c
       /\ orders' = [orders EXCEPT ![i] = IF accepted THEN [@ EXCEPT !.status = "sent"]
                                          ELSE NoRow]
  /\ ask' = [ask EXCEPT ![c] = Idle]
  /\ UNCHANGED <<level, alarm, calls, now, pos, bought, starts, passed, late, seen>>
-----------------------------------------------------------------------------
(* What happens to active orders. *)

\* Mutant: the same fill is counted again.
FillAgain(i, n) ==
  /\ orders[i].status \in {"sent", "cancelling"}
  /\ bought' = IF orders[i].side = "buy" THEN bought + n ELSE bought
  /\ UNCHANGED <<level, alarm, ask, calls, now, orders, pos, starts, passed, late, seen>>

\* A fill of n units: the fill row, the order and the local position (apply_fill).
\* An order being cancelled keeps its status, and its fill never reaches the position.
Fill(i, n) ==
  /\ orders[i].status \in {"sent", "cancelling"}
  /\ orders' = [orders EXCEPT ![i] = IF n = orders[i].left /\ @.status = "sent" THEN NoRow
                                     ELSE [orders[i] EXCEPT !.left = orders[i].left - n]]
  /\ bought' = IF orders[i].side = "buy" THEN bought + n ELSE bought
  /\ IF orders[i].status = "cancelling" THEN UNCHANGED <<pos, seen>>
     ELSE IF orders[i].side = "buy"
     THEN /\ pos' = [row |-> TRUE, total |-> pos.total + n, available |-> pos.total + n]
          /\ UNCHANGED seen
     ELSE /\ pos' = [row |-> TRUE, total |-> IF n > pos.total THEN 0 ELSE pos.total - n,
                     available |-> IF n > pos.available THEN 0 ELSE pos.available - n]
          /\ seen' = [seen EXCEPT !.cut = @ \/ n > pos.available]
  /\ UNCHANGED <<level, alarm, ask, calls, now, starts, passed, late>>

\* cancel_order and the closing sweep: at no level of the switch is a cancel refused.
Cancel(i) ==
  /\ orders[i].status = "sent"
  /\ orders' = [orders EXCEPT ![i].status = "cancelling"]
  /\ UNCHANGED <<level, alarm, ask, calls, now, pos, bought, starts, passed, late, seen>>

\* Cancelled, rejected, or closed by the recovery.
End(i) ==
  /\ orders[i].status \in {"sent", "cancelling"}
  /\ orders' = [orders EXCEPT ![i] = NoRow]
  /\ UNCHANGED <<level, alarm, ask, calls, now, pos, bought, starts, passed, late, seen>>
-----------------------------------------------------------------------------
(* The kill switch, time and restarts. *)

SetTo(l) == /\ level' = l
            /\ late' = IF level = "halt" /\ l = "halt" THEN late ELSE None

\* activate_kill_switch by the operator: any level follows any level.
Activate(l) == /\ SetTo(l)
               /\ UNCHANGED <<alarm, ask, calls, now, orders, pos, bought, starts, passed, seen>>

\* heartbeat, pre_market_check and end_of_day_reconcile await the broker or the
\* reconciler and then set NO_NEW_ORDERS, whatever the level has become.
TaskSees == /\ ~alarm /\ alarm' = TRUE
            /\ UNCHANGED <<level, ask, calls, now, orders, pos, bought, starts, passed, late, seen>>
TaskActs == /\ alarm /\ alarm' = FALSE /\ SetTo("no_new_orders")
            /\ UNCHANGED <<ask, calls, now, orders, pos, bought, starts, passed, seen>>

Tick == /\ now < MaxTime /\ now' = now + 1
        /\ UNCHANGED <<level, alarm, ask, calls, orders, pos, bought, starts, passed, late, seen>>

\* Midnight UTC: daily_buy_value counts from here.
NewDay == /\ bought > 0 /\ bought' = 0
          /\ UNCHANGED <<level, alarm, ask, calls, now, orders, pos, starts, passed, late, seen>>

\* The process ends and another starts: the level, the window and the requests in
\* progress were only in memory.  An order without an answer is UNKNOWN.
Restart ==
  /\ starts < MaxStarts /\ starts' = starts + 1
  /\ level' = InitialLevel /\ late' = None /\ alarm' = FALSE
  /\ ask' = [c \in Clients |-> Idle]
  /\ calls' = <<>> /\ passed' = <<>>
  /\ orders' = [i \in Rows |-> IF orders[i].status = "new"
                                THEN [orders[i] EXCEPT !.status = "sent"] ELSE orders[i]]
  /\ UNCHANGED <<now, pos, bought, seen>>
-----------------------------------------------------------------------------
Next ==
  \/ \E c \in Clients :
       \/ \E side \in {"buy", "sell"}, market \in BOOLEAN, value \in Sizes :
            Ask(c, side, market, value)
       \/ CheckDaily(c) \/ CheckRate(c) \/ CheckActive(c) \/ CheckSell(c) \/ AddRow(c)
       \/ \E accepted \in BOOLEAN : Send(c, accepted)
  \/ \E i \in Active :
       \/ \E n \in 1..orders[i].left : Fill(i, n)
       \/ Cancel(i) \/ End(i)
  \/ \E l \in Switched : Activate(l)
  \/ TaskSees \/ TaskActs \/ Tick \/ NewDay \/ Restart

Spec == Init /\ [][Next]_vars
-----------------------------------------------------------------------------
(* Properties. *)

\* No minute sees more than PerMinute requests pass the rate limit, however they
\* interleave with each other's awaits: of one more than that, the first and the last
\* are more than a minute apart (checker.py:134-144).  A restart forgets.
RateLimitHolds ==
  \A i, j \in DOMAIN passed : i + PerMinute <= j => passed[j] - passed[i] > Minute

\* Each caller can bring one order more than max_active_orders, and no more: rows
\* are counted before the order has one (checker.py:146-155, order_manager.py:133-152).
InFlight == {c \in Clients : ask[c].at \in {"sell", "add"}}
ActiveBounded ==
  Cardinality(Active) + Cardinality(InFlight) <= MaxActive - 1 + Cardinality(Clients)

\* The daily limit counts fills only, so what active orders and other callers may
\* still buy comes on top: no more than that (checker.py:120-132).
DailyBounded ==
  ~AllowMarket =>
    bought <= MaxDailyBuy + (MaxActive + 2 * Cardinality(Clients) - 2) * MaxOrderValue

\* A HALT stops every caller but those past the switch, which write one order each
\* (checker.py:60-90, order_manager.py:114-133).
HaltBounded == \A c \in Clients : late[c] <= 1

\* The local position is never sold below zero, where apply_fill would cut it off,
\* unless two sells were pending together (checker.py:157-177, position_manager.py:64-70).
SellsCovered == seen.cut => seen.sells \/ AllowShort
=============================================================================
