---------------------------- MODULE OrderKernel ----------------------------
(***************************************************************************)
(* The trading kernel of finboard: OrderManager (finboard_core), the       *)
(* start sequence of TradingKernel with RecoveryEngine and                 *)
(* ReconciliationEngine (finboard_reconcile), the order, fill and position *)
(* rows behind one long-lived database session, and the exchange seen      *)
(* through the broker adapter.                                             *)
(*                                                                         *)
(* An action is one uninterrupted stretch of a coroutine: what happens     *)
(* between two suspension points at which another coroutine, the exchange  *)
(* or the end of the process may change what this one relies on.  Events   *)
(* from the adapter are a set: they may be handled in any order.           *)
(*                                                                         *)
(* An order asks for Qty units and executes one unit at a time; the k-th   *)
(* execution of an order has fill_id k.  Every order trades a symbol of    *)
(* its own and buys, so a position is the number of fills applied to it.   *)
(***************************************************************************)
EXTENDS Naturals, FiniteSets, OrderStates

CONSTANTS Orders,           \* client order ids, generated once and never reused
          Qty,              \* units an order asks for
          MaxStarts,        \* bound: how often the process is started
          MaxReplays,       \* bound: events the broker sends again
          FaithfulQueries   \* may an empty query answer be believed?

ASSUME QtyAssumption == Qty \in Nat \ {0}
ASSUME BoundAssumption == MaxStarts \in Nat /\ MaxReplays \in Nat
ASSUME QueryAssumption == FaithfulQueries \in BOOLEAN

VARIABLES
  proc,      \* where the kernel process is
  db,        \* the order rows, as the session sees them
  fills,     \* the fill rows: fill ids recorded for each order
  applied,   \* the local position rows: fills applied to each symbol
  saved,     \* what the last commit made durable
  mem,       \* OrderManager._inflight
  placing,   \* orders whose broker.place_order call has not returned
  todo,      \* orders RecoveryEngine.run has still to visit
  bad,       \* has RecoveryReport an unresolvable order?
  sweep,     \* phase of cancel_all_active
  batch,     \* orders the phase has still to visit
  copies,    \* the Order objects cancel_all_active listed
  ext,       \* the order at the exchange
  executed,  \* units the exchange executed
  creq,      \* the cancel request of each order
  events,    \* BrokerEvents not yet handled
  synced,    \* history: orders whose filled was overwritten by recovery
  starts, replays

persistVars == <<db, fills, applied>>
procVars    == <<mem, placing, todo, bad, sweep, batch, copies>>
exchVars    == <<ext, executed, creq, events>>
boundVars   == <<starts, replays>>
vars == <<proc, saved, synced, persistVars, procVars, exchVars, boundVars>>

-----------------------------------------------------------------------------
OrderRec     == [status : OrderStatus \cup {"ABSENT"}, filled : Nat]
Record(s, n) == [status |-> s, filled |-> n]
Absent       == Record("ABSENT", 0)
Present(r)   == r.status # "ABSENT"
IsActive(r)  == r.status \in Active
May(r, s)    == Present(r) /\ CanTransition(r.status, s)
NoRecords    == [o \in Orders |-> Absent]

\* The consumer task handles events; after a failed recovery it never starts.
Consuming == proc \in {"matching_orders", "matching_positions", "ready", "halted"}
Up        == proc # "down"

\* States of the exchange.  A submission is in transit until it arrives or is
\* found void; a void or rejected order never executes.
Arrived == {"working", "filled", "cancelled", "rejected"}

\* _get_order_inflight: the cached order, else the row.
Loaded(o) == IF Present(mem[o]) THEN mem[o] ELSE db[o]

\* What a query reports of an order that arrived (XT_ORDER_STATUS_MAP): while
\* the exchange works on a cancel it may say so.
AtWork(o) == IF executed[o] = 0 THEN "ACKNOWLEDGED" ELSE "PARTIALLY_FILLED"
\* Mutant: the codes 51/52 (cancel pending) read as cancelled.
ViewPendingIsCancelled(o) ==
  CASE ext[o] = "filled"    -> {"FILLED"}
    [] ext[o] = "cancelled" -> {"CANCELLED"}
    [] ext[o] = "rejected"  -> {"REJECTED"}
    [] ext[o] = "working"   ->
         {AtWork(o)} \cup (IF creq[o] = "sent" THEN {"CANCELLED"} ELSE {})
    [] OTHER                -> {}
View(o) ==
  CASE ext[o] = "filled"    -> {"FILLED"}
    [] ext[o] = "cancelled" -> {"CANCELLED"}
    [] ext[o] = "rejected"  -> {"REJECTED"}
    [] ext[o] = "working"   ->
         {AtWork(o)} \cup (IF creq[o] = "sent" THEN {"CANCEL_PENDING"} ELSE {})
    [] OTHER                -> {}

Event == [kind : {"accepted", "filled", "cancelled", "rejected"},
          order : Orders, fill : 0..Qty]
Accepted(o)  == [kind |-> "accepted",  order |-> o, fill |-> 0]
Filled(o, k) == [kind |-> "filled",    order |-> o, fill |-> k]
Cancelled(o) == [kind |-> "cancelled", order |-> o, fill |-> 0]
Rejected(o)  == [kind |-> "rejected",  order |-> o, fill |-> 0]

Emit(e) == events' = IF Up THEN events \cup {e} ELSE events

\* Write an order both to the cache and to its row (update_state).
Store(o, r) == /\ mem' = [mem EXCEPT ![o] = r]
               /\ db' = [db EXCEPT ![o] = r]

\* The order was looked up, nothing else was changed: _transition raised, or
\* the event does not concern the order's status.
LookUp(o) == /\ mem' = [mem EXCEPT ![o] = Loaded(o)]
             /\ UNCHANGED db

\* _transition followed by update_state; an illegal move raises.
MoveTo(o, s) == IF May(Loaded(o), s)
                  THEN Store(o, [Loaded(o) EXCEPT !.status = s])
                  ELSE LookUp(o)
-----------------------------------------------------------------------------
\* Every variable has its type, and recovery leaves no order unvisited: cached
\* orders are loaded after the last repair (recovery.py:89-93).
TypeOK ==
  /\ proc \in {"down", "recovering", "matching_orders", "matching_positions",
               "ready", "halted", "blocked"}
  /\ db \in [Orders -> OrderRec] /\ mem \in [Orders -> OrderRec]
  /\ copies \in [Orders -> OrderRec]
  /\ fills \in [Orders -> SUBSET (1..Qty)] /\ applied \in [Orders -> Nat]
  /\ saved \in [db : [Orders -> OrderRec], fills : [Orders -> SUBSET (1..Qty)],
                applied : [Orders -> Nat]]
  /\ placing \subseteq Orders /\ batch \subseteq Orders /\ todo \subseteq Orders
  /\ proc # "recovering" => todo = {}
  /\ bad \in BOOLEAN
  /\ sweep \in {"idle", "mark", "send"}
  /\ ext \in [Orders -> {"new", "transit", "void"} \cup Arrived]
  /\ executed \in [Orders -> 0..Qty]
  /\ \A o \in Orders : /\ ext[o] \notin Arrived => executed[o] = 0
                       /\ ext[o] = "working"  => executed[o] < Qty
  /\ creq \in [Orders -> {"none", "sent", "done"}]
  /\ events \subseteq Event
  /\ synced \subseteq Orders
  /\ starts \in Nat /\ replays \in Nat

Init ==
  /\ proc = "down"
  /\ db = NoRecords /\ mem = NoRecords /\ copies = NoRecords
  /\ fills = [o \in Orders |-> {}]
  /\ applied = [o \in Orders |-> 0]
  /\ saved = [db |-> db, fills |-> fills, applied |-> applied]
  /\ placing = {} /\ todo = {} /\ batch = {}
  /\ bad = FALSE
  /\ sweep = "idle"
  /\ ext = [o \in Orders |-> "new"]
  /\ executed = [o \in Orders |-> 0]
  /\ creq = [o \in Orders |-> "none"]
  /\ events = {} /\ synced = {}
  /\ starts = 0 /\ replays = 0
-----------------------------------------------------------------------------
(* The start sequence: TradingKernel.start, RecoveryEngine, reconciliation. *)

\* broker.connect, then RecoveryEngine.run lists the active rows.  With
\* faithful queries nothing the dead process sent is still on its way.
Connect ==
  /\ proc = "down" /\ starts < MaxStarts
  /\ FaithfulQueries => \A o \in Orders : ext[o] # "transit"
  /\ proc' = "recovering"
  /\ todo' = {o \in Orders : IsActive(db[o])}
  /\ bad' = FALSE
  /\ starts' = starts + 1
  /\ UNCHANGED <<persistVars, saved, synced, exchVars, replays,
                 mem, placing, sweep, batch, copies>>

Recovering(o) ==
  /\ proc = "recovering" /\ o \in todo
  /\ todo' = todo \ {o}
  /\ UNCHANGED <<proc, fills, applied, saved, mem, placing, sweep, batch, copies,
                 exchVars, boundVars>>

\* query_order raised; the order is unresolvable, the loop goes on.
RecoverQueryFailed(o) ==
  /\ Recovering(o)
  /\ bad' = TRUE
  /\ UNCHANGED <<db, synced>>

\* _repair_not_on_broker.  An unfaithful adapter also answers this way when the
\* query failed or the submission is still on its way.
RecoverNotOnBroker(o) ==
  /\ Recovering(o)
  /\ FaithfulQueries => ext[o] = "void"
  /\ IF May(db[o], "REJECTED")
       THEN /\ db' = [db EXCEPT ![o].status = "REJECTED"]
            /\ UNCHANGED bad
       ELSE /\ bad' = TRUE
            /\ UNCHANGED db
  /\ UNCHANGED synced

\* _repair_from_broker: take over the broker's status and filled quantity.
RecoverFromBroker(o) ==
  /\ Recovering(o)
  /\ \E s \in View(o) :
       IF May(db[o], s)
         THEN /\ db' = [db EXCEPT ![o] = Record(s, executed[o])]
              /\ synced' = IF executed[o] = db[o].filled THEN synced
                                                          ELSE synced \cup {o}
              /\ UNCHANGED bad
         ELSE /\ bad' = TRUE
              /\ UNCHANGED <<db, synced>>

\* Mutant: start() does not return on an unresolvable order, nor go on.
FinishRecoveryHangs ==
  /\ proc = "recovering" /\ todo = {} /\ ~bad
  /\ proc' = "matching_orders"
  /\ mem' = [o \in Orders |-> IF IsActive(db[o]) THEN db[o] ELSE Absent]
  /\ UNCHANGED <<persistVars, saved, synced, exchVars, boundVars,
                 placing, todo, bad, sweep, batch, copies>>

\* An unresolvable order ends start(); otherwise OrderManager.start loads the
\* active rows into the cache and starts the consumer.
FinishRecovery ==
  /\ proc = "recovering" /\ todo = {}
  /\ IF bad
       THEN /\ proc' = "blocked"
            /\ UNCHANGED mem
       ELSE /\ proc' = "matching_orders"
            /\ mem' = [o \in Orders |-> IF IsActive(db[o]) THEN db[o] ELSE Absent]
  /\ UNCHANGED <<persistVars, saved, synced, exchVars, boundVars,
                 placing, todo, bad, sweep, batch, copies>>

\* Mutant: orders only the broker knows are not compared.
OrdersMatchLocalOnly(listed, pending) ==
  \A o \in Orders :
    IsActive(db[o]) =>
      /\ o \in listed
      /\ db[o] = Record(IF o \in pending THEN "CANCEL_PENDING" ELSE AtWork(o),
                        executed[o])

\* _reconcile_orders: the active rows against the active orders the broker
\* lists, of which some may be listed as being cancelled.
OrdersMatch(listed, pending) ==
  \A o \in Orders :
    IF IsActive(db[o])
      THEN /\ o \in listed
           /\ db[o] = Record(IF o \in pending THEN "CANCEL_PENDING" ELSE AtWork(o),
                             executed[o])
      ELSE o \notin listed

\* An unfaithful adapter may list nothing.
MatchOrders ==
  /\ proc = "matching_orders"
  /\ \E listed \in {{o \in Orders : ext[o] = "working"}}
                     \cup (IF FaithfulQueries THEN {} ELSE {{}}) :
       \E pending \in SUBSET {o \in listed : creq[o] = "sent"} :
         proc' = IF OrdersMatch(listed, pending) THEN "matching_positions"
                                                 ELSE "halted"
  /\ UNCHANGED <<persistVars, saved, synced, procVars, exchVars, boundVars>>

\* _reconcile_positions; only now does the kernel become ready.
MatchPositions ==
  /\ proc = "matching_positions"
  /\ \E held \in {executed} \cup (IF FaithfulQueries THEN {}
                                   ELSE {[o \in Orders |-> 0]}) :
       proc' = IF applied = held THEN "ready" ELSE "halted"
  /\ UNCHANGED <<persistVars, saved, synced, procVars, exchVars, boundVars>>
-----------------------------------------------------------------------------
(* OrderManager.place_order. *)

\* Behind the ready gate: the row is written RISK_CHECKED, the cached order goes
\* on to SUBMITTING and the submission leaves for the exchange.
PlaceOrder(o) ==
  /\ proc = "ready" /\ ext[o] = "new"
  /\ db' = [db EXCEPT ![o] = Record("RISK_CHECKED", 0)]
  /\ mem' = [mem EXCEPT ![o] = Record("SUBMITTING", 0)]
  /\ placing' = placing \cup {o}
  /\ ext' = [ext EXCEPT ![o] = "transit"]
  /\ UNCHANGED <<proc, fills, applied, saved, synced, todo, bad, sweep, batch,
                 copies, executed, creq, events, boundVars>>

PlaceReturns(o) ==
  /\ o \in placing
  /\ placing' = placing \ {o}
  /\ UNCHANGED <<proc, fills, applied, saved, synced, todo, bad, sweep, batch,
                 copies, exchVars, boundVars>>

\* The broker took the order: SUBMITTED, and ACKNOWLEDGED when it named it.  If
\* an event moved the order on first, SUBMITTED is illegal and the call raises.
PlaceAccepted(o) ==
  /\ PlaceReturns(o)
  /\ ext[o] \in Arrived
  /\ \E s \in {"SUBMITTED", "ACKNOWLEDGED"} :
       IF May(mem[o], "SUBMITTED") THEN Store(o, [mem[o] EXCEPT !.status = s])
                                   ELSE UNCHANGED <<mem, db>>

\* Not accepted, or an exception other than the timeout.
PlaceRefused(o) ==
  /\ PlaceReturns(o)
  /\ ext[o] = "void"
  /\ MoveTo(o, "REJECTED")

\* Mutants: a timeout taken for a refusal, for a success, for nothing at all.
PlaceTimedOutRejects(o) == PlaceReturns(o) /\ MoveTo(o, "REJECTED")
PlaceTimedOutSubmits(o) == PlaceReturns(o) /\ MoveTo(o, "SUBMITTED")
PlaceTimedOutIgnored(o) == PlaceReturns(o) /\ UNCHANGED <<mem, db>>

\* BrokerTimeoutError: UNKNOWN, never sent again, whatever became of the order.
PlaceTimedOut(o) ==
  /\ PlaceReturns(o)
  /\ MoveTo(o, "UNKNOWN")
-----------------------------------------------------------------------------
(* OrderManager.cancel_order and cancel_all_active. *)

SendCancel(o) == creq' = [creq EXCEPT ![o] = "sent"]

\* The caller names an order; only an active one that may become CANCEL_PENDING
\* is cancelled.  This call has no ready gate.
CancelOrder(o) ==
  /\ proc \in {"ready", "halted", "blocked"}
  /\ Present(Loaded(o))
  /\ IF IsActive(Loaded(o)) /\ May(Loaded(o), "CANCEL_PENDING")
       THEN /\ MoveTo(o, "CANCEL_PENDING")
            /\ SendCancel(o)
       ELSE /\ LookUp(o)
            /\ UNCHANGED creq
  /\ UNCHANGED <<proc, fills, applied, saved, synced, placing, todo, bad, sweep,
                 batch, copies, ext, executed, events, boundVars>>

sweepRest == <<proc, fills, applied, saved, synced, mem, placing, todo, bad,
               ext, executed, events, boundVars>>

\* list_active builds new Order objects from the rows.
SweepList ==
  /\ proc = "ready" /\ sweep = "idle"
  /\ batch' = {o \in Orders : IsActive(db[o])}
  /\ batch' # {}
  /\ copies' = [o \in Orders |-> IF o \in batch' THEN db[o] ELSE Absent]
  /\ sweep' = "mark"
  /\ UNCHANGED <<sweepRest, db, creq>>

\* Phase one: CANCEL_PENDING in the listed copy and in the row.  The first order
\* that may not move there raises out of the call.
SweepMark(o) ==
  /\ sweep = "mark" /\ o \in batch
  /\ IF May(copies[o], "CANCEL_PENDING")
       THEN LET marked == [copies[o] EXCEPT !.status = "CANCEL_PENDING"]
                all    == {p \in Orders : Present(copies[p])}
            IN /\ copies' = [copies EXCEPT ![o] = marked]
               /\ db' = [db EXCEPT ![o] = marked]
               /\ sweep' = IF batch = {o} THEN "send" ELSE "mark"
               /\ batch' = IF batch = {o} THEN all ELSE batch \ {o}
       ELSE /\ sweep' = "idle" /\ batch' = {} /\ copies' = NoRecords
            /\ UNCHANGED db
  /\ UNCHANGED <<sweepRest, creq>>

\* Phase two: a cancel request for every listed order.
SweepSend(o) ==
  /\ sweep = "send" /\ o \in batch
  /\ SendCancel(o)
  /\ batch' = batch \ {o}
  /\ IF batch = {o} THEN sweep' = "idle" /\ copies' = NoRecords
                     ELSE UNCHANGED <<sweep, copies>>
  /\ UNCHANGED <<sweepRest, db>>
-----------------------------------------------------------------------------
(* The event consumer: one BrokerEvent; what a handler raises is swallowed. *)

Handling(e) ==
  /\ Consuming /\ e \in events
  /\ events' = events \ {e}
  /\ UNCHANGED <<proc, saved, synced, placing, todo, bad, sweep, batch, copies,
                 ext, executed, creq, boundVars>>

OnAccepted(o) ==
  /\ Handling(Accepted(o))
  /\ IF Loaded(o).status \in {"SUBMITTING", "SUBMITTED", "UNKNOWN"}
       THEN MoveTo(o, "ACKNOWLEDGED")
       ELSE LookUp(o)
  /\ UNCHANGED <<fills, applied>>

\* Mutants: no look at the fill ids; the position follows a skipped fill too.
OnFilledCountsAgain(o, k) ==
  /\ Handling(Filled(o, k))
  /\ IF May(Loaded(o), "PARTIALLY_FILLED")
       THEN /\ fills' = [fills EXCEPT ![o] = @ \cup {k}]
            /\ Store(o, Record("PARTIALLY_FILLED", Loaded(o).filled + 1))
            /\ applied' = [applied EXCEPT ![o] = @ + 1]
       ELSE UNCHANGED <<mem, db, fills, applied>>
OnFilledAppliesAgain(o, k) ==
  /\ Handling(Filled(o, k))
  /\ applied' = [applied EXCEPT ![o] = @ + 1]
  /\ fills' = [fills EXCEPT ![o] = @ \cup {k}]
  /\ IF k \in fills[o] THEN UNCHANGED <<mem, db>> ELSE MoveTo(o, "PARTIALLY_FILLED")

\* A recorded fill_id is skipped.  The fill row and the new filled quantity come
\* before the status check: when it raises they stay, and neither the order row
\* nor, OrderFilled being unpublished, the position is updated.
OnFilled(o, k) ==
  /\ Handling(Filled(o, k))
  /\ IF k \in fills[o] \/ ~Present(Loaded(o))
       THEN UNCHANGED <<mem, db, fills, applied>>
       ELSE LET n == Loaded(o).filled + 1
                s == IF n >= Qty THEN "FILLED" ELSE "PARTIALLY_FILLED"
            IN /\ fills' = [fills EXCEPT ![o] = @ \cup {k}]
               /\ IF May(Loaded(o), s)
                    THEN /\ Store(o, Record(s, n))
                         /\ applied' = [applied EXCEPT ![o] = @ + 1]
                    ELSE /\ mem' = [mem EXCEPT ![o] = [Loaded(o) EXCEPT !.filled = n]]
                         /\ UNCHANGED <<db, applied>>

\* Mutant: the cancellation is only looked up.
OnCancelledForgets(o) ==
  /\ Handling(Cancelled(o))
  /\ LookUp(o)
  /\ UNCHANGED <<fills, applied>>

OnCancelled(o) ==
  /\ Handling(Cancelled(o))
  /\ MoveTo(o, "CANCELLED")
  /\ UNCHANGED <<fills, applied>>

OnRejected(o) ==
  /\ Handling(Rejected(o))
  /\ MoveTo(o, "REJECTED")
  /\ UNCHANGED <<fills, applied>>
-----------------------------------------------------------------------------
(* The exchange, behind the adapter.  Events reach only a living process. *)

exchRest == <<proc, persistVars, saved, synced, procVars, boundVars>>

Arrive(o) ==
  /\ ext[o] = "transit"
  /\ ext' = [ext EXCEPT ![o] = "working"]
  /\ Emit(Accepted(o))
  /\ UNCHANGED <<exchRest, executed, creq>>

Lose(o) ==
  /\ ext[o] = "transit"
  /\ ext' = [ext EXCEPT ![o] = "void"]
  /\ UNCHANGED <<exchRest, executed, creq, events>>

Refuse(o) ==
  /\ ext[o] \in {"transit", "working"} /\ executed[o] = 0
  /\ ext' = [ext EXCEPT ![o] = "rejected"]
  /\ Emit(Rejected(o))
  /\ UNCHANGED <<exchRest, executed, creq>>

Execute(o) ==
  /\ ext[o] = "working"
  /\ executed' = [executed EXCEPT ![o] = @ + 1]
  /\ ext' = [ext EXCEPT ![o] = IF executed[o] + 1 = Qty THEN "filled" ELSE @]
  /\ Emit(Filled(o, executed[o] + 1))
  /\ UNCHANGED <<exchRest, creq>>

\* A cancel request takes effect, or is lost, refused or too late.
Withdraw(o) ==
  /\ creq[o] = "sent" /\ ext[o] = "working"
  /\ creq' = [creq EXCEPT ![o] = "done"]
  /\ ext' = [ext EXCEPT ![o] = "cancelled"]
  /\ Emit(Cancelled(o))
  /\ UNCHANGED <<exchRest, executed>>

LoseCancel(o) ==
  /\ creq[o] = "sent"
  /\ creq' = [creq EXCEPT ![o] = "done"]
  /\ UNCHANGED <<exchRest, ext, executed, events>>

\* After a reconnect, or for no reason, the broker sends an event again.
History(o) == {Filled(o, k) : k \in 1..executed[o]}
                \cup (IF ext[o] \in Arrived   THEN {Accepted(o)}  ELSE {})
                \cup (IF ext[o] = "cancelled" THEN {Cancelled(o)} ELSE {})
                \cup (IF ext[o] = "rejected"  THEN {Rejected(o)}  ELSE {})

Replay(o) ==
  /\ Up /\ replays < MaxReplays
  /\ \E e \in History(o) \ events : events' = events \cup {e}
  /\ replays' = replays + 1
  /\ UNCHANGED <<proc, persistVars, saved, synced, procVars, ext, executed, creq,
                 starts>>
-----------------------------------------------------------------------------
(* The end of the process.  The session is committed only by a graceful      *)
(* shutdown; a crash takes the rows back to the last one.                    *)

Exit ==
  /\ proc' = "down"
  /\ mem' = NoRecords /\ copies' = NoRecords
  /\ placing' = {} /\ todo' = {} /\ batch' = {} /\ bad' = FALSE
  /\ sweep' = "idle"
  /\ events' = {}
  /\ UNCHANGED <<synced, ext, executed, creq, boundVars>>

Stop ==
  /\ proc \in {"ready", "halted", "blocked"}
  /\ Exit
  /\ saved' = [db |-> db, fills |-> fills, applied |-> applied]
  /\ UNCHANGED persistVars

Crash ==
  /\ Up
  /\ Exit
  /\ db' = saved.db /\ fills' = saved.fills /\ applied' = saved.applied
  /\ UNCHANGED saved
-----------------------------------------------------------------------------
Start == \/ Connect
         \/ \E o \in Orders : \/ RecoverQueryFailed(o)
                               \/ RecoverNotOnBroker(o)
                               \/ RecoverFromBroker(o)
         \/ FinishRecovery
         \/ MatchOrders
         \/ MatchPositions

Place(o)   == PlaceOrder(o) \/ PlaceAccepted(o) \/ PlaceRefused(o) \/ PlaceTimedOut(o)
Sweep      == SweepList \/ \E o \in Orders : SweepMark(o) \/ SweepSend(o)
Consume(o) == \/ OnAccepted(o)
              \/ \E k \in 1..Qty : OnFilled(o, k)
              \/ OnCancelled(o)
              \/ OnRejected(o)
Exchange(o) == \/ Arrive(o) \/ Lose(o) \/ Refuse(o) \/ Execute(o)
               \/ Withdraw(o) \/ LoseCancel(o) \/ Replay(o)

Next == \/ Start
        \/ \E o \in Orders : Place(o) \/ CancelOrder(o) \/ Consume(o) \/ Exchange(o)
        \/ Sweep
        \/ Stop
        \/ Crash

Spec == Init /\ [][Next]_vars

\* place_order is bounded by PLACE_ORDER_TIMEOUT, queries by the adapter, and the
\* consumer task runs as long as the process does.  Nothing makes the exchange
\* act, a user call, or an operator start the process.
Fairness ==
  /\ WF_vars(Start /\ proc # "down")
  /\ \A o \in Orders :
       /\ WF_vars(PlaceAccepted(o) \/ PlaceRefused(o) \/ PlaceTimedOut(o))
       /\ WF_vars(Consume(o))
LiveSpec == Spec /\ Fairness
-----------------------------------------------------------------------------
(* Safety. *)

\* Every copy of an order the kernel may act on, now or after a restart.
Held(o) == {mem[o], db[o], saved.db[o]}

\* An order written off as REJECTED can never execute: not by the timeout path of
\* place_order, not by recovery, not by a late event (order_manager.py:394-419,
\* recovery.py:143-186).
RejectedMeansDead ==
  \A o \in Orders : \A r \in Held(o) :
    r.status = "REJECTED" => ext[o] \in {"void", "rejected"}

\* An order believed CANCELLED is no longer working at the exchange, although a
\* cancel request may be lost or come too late (order_manager.py:183-215, 371-379).
CancelledMeansDead ==
  \A o \in Orders : \A r \in Held(o) :
    r.status = "CANCELLED" => ext[o] = "cancelled"

\* A status from SUBMITTED on is only taken by an order the exchange has; a
\* timed-out submission gets there only by an event or a query
\* (order_manager.py:157-166, 319-330).
StatusMeansArrived ==
  \A o \in Orders : \A r \in Held(o) :
    r.status \in {"SUBMITTED", "ACKNOWLEDGED", "PARTIALLY_FILLED", "FILLED",
                  "CANCEL_PENDING", "CANCELLED"} => ext[o] \in Arrived

\* While the kernel accepts new orders it has a row for every order that works at
\* the exchange, also after a crash took the rows back (engine.py:118-151).
NoOrphanWhileReady ==
  proc = "ready" => \A o \in Orders : ext[o] = "working" => Present(db[o])

\* Without a recovery that overwrote it, the filled quantity never counts a
\* repeated fill twice (order_manager.py:336-343).
FillCountedOnce ==
  \A o \in Orders \ synced : \A r \in {mem[o], db[o]} :
    r.filled <= Cardinality(fills[o])

\* A fill enters the position at most once, restarts and replays included
\* (kernel.py:248-253, position_manager.py:46-79).
PositionAppliedOnce ==
  \A o \in Orders : applied[o] <= Cardinality(fills[o])
-----------------------------------------------------------------------------
(* Liveness. *)

\* An order never stays SUBMITTING: the call returns, refuses or times out, and
\* the status says so (order_manager.py:394-419).
SubmissionSettles ==
  \A o \in Orders : mem[o].status = "SUBMITTING" ~> mem[o].status # "SUBMITTING"

\* A cancellation reported for an order waiting for it reaches the cached order,
\* unless the process ends (order_manager.py:371-379).
CancelReported ==
  \A o \in Orders :
    (mem[o].status = "CANCEL_PENDING" /\ Consuming /\ Cancelled(o) \in events)
      ~> (mem[o].status = "CANCELLED" \/ ~Consuming)

\* start() comes to an end, whatever the broker answers or fails to answer
\* (kernel.py:107-190).
StartConcludes == proc = "recovering" ~> proc \in {"ready", "halted", "blocked", "down"}
-----------------------------------------------------------------------------
(* What the code's comments and docs say and the code does not keep. *)

\* A ready kernel never believes more was filled than the exchange executed:
\* fills are counted once (order_manager.py:336-337), recovery included.
ReadyCountsTruly ==
  proc = "ready" => \A o \in Orders : mem[o].filled <= executed[o]
============================================================================
