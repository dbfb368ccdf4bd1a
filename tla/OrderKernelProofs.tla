------------------------- MODULE OrderKernelProofs -------------------------
(***************************************************************************)
(* Theorems about OrderKernel for every set of orders, every quantity and  *)
(* every bound: type correctness; with faithful queries, that what the     *)
(* kernel believes of an order is true of the exchange and that no order   *)
(* works without a row; and that a fill is counted and applied once.       *)
(***************************************************************************)
EXTENDS OrderKernel, FiniteSetTheorems, TLAPS

\* Records of the right shape come from Record and from EXCEPT.
LEMMA RecordType ==
  /\ Absent \in OrderRec
  /\ \A s \in OrderStatus, n \in Nat : Record(s, n) \in OrderRec
  /\ \A r \in OrderRec, s \in OrderStatus : [r EXCEPT !.status = s] \in OrderRec
  /\ \A r \in OrderRec, n \in Nat : [r EXCEPT !.filled = n] \in OrderRec
  /\ \A r \in OrderRec : r.filled \in Nat
BY DEF Absent, Record, OrderRec

\* Looking an order up, storing it and moving it keep the cache and the rows well
\* typed (order_manager.py:421-424, 441-450).
LEMMA MoveType ==
  ASSUME TypeOK, NEW o \in Orders, NEW s \in OrderStatus, MoveTo(o, s) \/ LookUp(o)
  PROVE  mem' \in [Orders -> OrderRec] /\ db' \in [Orders -> OrderRec]
<1>1. Loaded(o) \in OrderRec /\ mem \in [Orders -> OrderRec] /\ db \in [Orders -> OrderRec]
  BY DEF TypeOK, Loaded
<1>2. [Loaded(o) EXCEPT !.status = s] \in OrderRec
  BY <1>1, RecordType
<1> QED
  BY <1>1, <1>2 DEF MoveTo, LookUp, Store

\* What the exchange reports, and reports again, is an event (adapter.py:435-529).
LEMMA EventType ==
  ASSUME TypeOK, NEW o \in Orders
  PROVE  /\ Accepted(o) \in Event /\ Cancelled(o) \in Event /\ Rejected(o) \in Event
         /\ ext[o] = "working" => Filled(o, executed[o] + 1) \in Event
         /\ History(o) \subseteq Event
BY QtyAssumption DEF TypeOK, History, Event, Accepted, Filled, Cancelled, Rejected

\* Every step keeps the types (all of OrderManager, TradingKernel.start, recovery).
LEMMA TypeStep == TypeOK /\ [Next]_vars => TypeOK'
<1> SUFFICES ASSUME TypeOK, [Next]_vars PROVE TypeOK'
  OBVIOUS
<1> USE QtyAssumption
<1>u. CASE UNCHANGED vars
  BY <1>u DEF TypeOK, vars, persistVars, procVars, exchVars, boundVars
<1>a. ASSUME Connect PROVE TypeOK'
  <2>1. starts' \in Nat /\ todo' \subseteq Orders
    BY <1>a DEF TypeOK, Connect
  <2> QED
    BY <1>a, <2>1 DEF TypeOK, Connect, persistVars, exchVars
<1>b. ASSUME FinishRecovery PROVE TypeOK'
  <2>1. mem' \in [Orders -> OrderRec]
    BY <1>b, RecordType DEF TypeOK, FinishRecovery
  <2>2. /\ proc' \in {"blocked", "matching_orders"}
        /\ todo = {}
        /\ UNCHANGED <<db, fills, applied, saved, synced, ext, executed, creq, events,
                       starts, replays, placing, todo, bad, sweep, batch, copies>>
    BY <1>b DEF FinishRecovery, persistVars, exchVars, boundVars
  <2> QED
    BY <2>1, <2>2 DEF TypeOK
<1>c. ASSUME MatchOrders PROVE TypeOK'
  BY <1>c DEF TypeOK, MatchOrders, persistVars, procVars, exchVars, boundVars
<1>d. ASSUME MatchPositions PROVE TypeOK'
  BY <1>d DEF TypeOK, MatchPositions, persistVars, procVars, exchVars, boundVars
<1>e. ASSUME SweepList PROVE TypeOK'
  BY <1>e, RecordType DEF TypeOK, SweepList, sweepRest, boundVars
<1>f. ASSUME Stop PROVE TypeOK'
  BY <1>f, RecordType DEF TypeOK, Stop, Exit, NoRecords, persistVars, boundVars
<1>g. ASSUME Crash PROVE TypeOK'
  BY <1>g, RecordType DEF TypeOK, Crash, Exit, NoRecords, boundVars
<1>h. ASSUME NEW o \in Orders, RecoverQueryFailed(o) \/ RecoverNotOnBroker(o)
      PROVE TypeOK'
  <2>1. db' \in [Orders -> OrderRec] /\ bad' \in BOOLEAN /\ synced' = synced
    <3>1. [db EXCEPT ![o].status = "REJECTED"] \in [Orders -> OrderRec]
      BY RecordType DEF TypeOK, OrderRec, OrderStatus, Terminal
    <3> QED
      BY <1>h, <3>1 DEF TypeOK, RecoverQueryFailed, RecoverNotOnBroker
  <2>2. Recovering(o)
    BY <1>h DEF RecoverQueryFailed, RecoverNotOnBroker
  <2> QED
    BY <2>1, <2>2 DEF TypeOK, Recovering, exchVars, boundVars
<1>i. ASSUME NEW o \in Orders, RecoverFromBroker(o) PROVE TypeOK'
  <2>1. \A s \in View(o) : s \in OrderStatus
    BY DEF View, AtWork, OrderStatus, Active, Terminal
  <2>2. PICK s \in View(o) :
          IF May(db[o], s)
            THEN /\ db' = [db EXCEPT ![o] = Record(s, executed[o])]
                 /\ synced' = IF executed[o] = db[o].filled THEN synced
                                                           ELSE synced \cup {o}
                 /\ UNCHANGED bad
            ELSE /\ bad' = TRUE
                 /\ UNCHANGED <<db, synced>>
    BY <1>i DEF RecoverFromBroker
  <2>3. executed[o] \in Nat
    BY DEF TypeOK
  <2>4. Record(s, executed[o]) \in OrderRec
    BY <2>1, <2>3, RecordType
  <2>5. db' \in [Orders -> OrderRec] /\ bad' \in BOOLEAN /\ synced' \subseteq Orders
    BY <2>2, <2>4 DEF TypeOK
  <2> QED
    BY <1>i, <2>5 DEF TypeOK, Recovering, RecoverFromBroker, exchVars, boundVars
<1>j. ASSUME NEW o \in Orders, PlaceOrder(o) PROVE TypeOK'
  <2>1. Record("RISK_CHECKED", 0) \in OrderRec /\ Record("SUBMITTING", 0) \in OrderRec
    BY RecordType DEF OrderStatus, Active
  <2> QED
    BY <1>j, <2>1 DEF TypeOK, PlaceOrder, Arrived, boundVars
<1>k. ASSUME NEW o \in Orders, PlaceAccepted(o) PROVE TypeOK'
  <2>1. \A s \in {"SUBMITTED", "ACKNOWLEDGED"} : [mem[o] EXCEPT !.status = s] \in OrderRec
    BY RecordType DEF TypeOK, OrderStatus, Active
  <2>2. mem' \in [Orders -> OrderRec] /\ db' \in [Orders -> OrderRec]
    <3>1. PICK s \in {"SUBMITTED", "ACKNOWLEDGED"} :
            IF May(mem[o], "SUBMITTED") THEN Store(o, [mem[o] EXCEPT !.status = s])
                                        ELSE UNCHANGED <<mem, db>>
      BY <1>k DEF PlaceAccepted
    <3> DEFINE r == [mem[o] EXCEPT !.status = s]
    <3>2. r \in OrderRec
      BY <2>1
    <3>3. Store(o, r) \/ UNCHANGED <<mem, db>>
      BY <3>1
    <3> HIDE DEF r
    <3> QED
      BY <3>2, <3>3 DEF TypeOK, Store
  <2> QED
    BY <1>k, <2>2 DEF TypeOK, PlaceAccepted, PlaceReturns, exchVars, boundVars
<1>l. ASSUME NEW o \in Orders, PlaceRefused(o) \/ PlaceTimedOut(o) PROVE TypeOK'
  <2>1. mem' \in [Orders -> OrderRec] /\ db' \in [Orders -> OrderRec]
    BY <1>l, MoveType DEF PlaceRefused, PlaceTimedOut, OrderStatus, Active, Terminal
  <2> QED
    BY <1>l, <2>1 DEF TypeOK, PlaceRefused, PlaceTimedOut, PlaceReturns, exchVars, boundVars
<1>m. ASSUME NEW o \in Orders, CancelOrder(o) PROVE TypeOK'
  <2>1. mem' \in [Orders -> OrderRec] /\ db' \in [Orders -> OrderRec]
    BY <1>m, MoveType DEF CancelOrder, OrderStatus, Active
  <2> QED
    BY <1>m, <2>1 DEF TypeOK, CancelOrder, SendCancel, boundVars
<1>n. ASSUME NEW o \in Orders, SweepMark(o) PROVE TypeOK'
  <2>1. [copies[o] EXCEPT !.status = "CANCEL_PENDING"] \in OrderRec
    BY RecordType DEF TypeOK, OrderStatus, Active
  <2>2. copies' \in [Orders -> OrderRec] /\ db' \in [Orders -> OrderRec]
    <3>1. CASE May(copies[o], "CANCEL_PENDING")
      <4> DEFINE r == [copies[o] EXCEPT !.status = "CANCEL_PENDING"]
      <4>1. r \in OrderRec
        BY <2>1
      <4>2. copies' = [copies EXCEPT ![o] = r] /\ db' = [db EXCEPT ![o] = r]
        BY <1>n, <3>1 DEF SweepMark
      <4> HIDE DEF r
      <4> QED
        BY <4>1, <4>2 DEF TypeOK
    <3>2. CASE ~May(copies[o], "CANCEL_PENDING")
      BY <1>n, <3>2, RecordType DEF TypeOK, SweepMark, NoRecords
    <3> QED
      BY <3>1, <3>2
  <2>3. batch' \subseteq Orders /\ sweep' \in {"idle", "mark", "send"}
    BY <1>n DEF TypeOK, SweepMark
  <2> QED
    BY <1>n, <2>2, <2>3 DEF TypeOK, SweepMark, sweepRest, boundVars
<1>o. ASSUME NEW o \in Orders, SweepSend(o) PROVE TypeOK'
  BY <1>o, RecordType DEF TypeOK, SweepSend, SendCancel, NoRecords, sweepRest, boundVars
<1>p. ASSUME NEW o \in Orders, OnAccepted(o) \/ OnCancelled(o) \/ OnRejected(o)
      PROVE TypeOK'
  <2>1. mem' \in [Orders -> OrderRec] /\ db' \in [Orders -> OrderRec]
    BY <1>p, MoveType DEF OnAccepted, OnCancelled, OnRejected, OrderStatus, Active, Terminal
  <2> QED
    BY <1>p, <2>1 DEF TypeOK, OnAccepted, OnCancelled, OnRejected, Handling, boundVars
<1>q. ASSUME NEW o \in Orders, NEW k \in 1..Qty, OnFilled(o, k) PROVE TypeOK'
  <2>1. Loaded(o) \in OrderRec
    BY DEF TypeOK, Loaded
  <2>2. "FILLED" \in OrderStatus /\ "PARTIALLY_FILLED" \in OrderStatus
    BY DEF OrderStatus, Active, Terminal
  <2>3. Loaded(o).filled + 1 \in Nat
    BY <2>1, RecordType
  <2>4. [Loaded(o) EXCEPT !.filled = Loaded(o).filled + 1] \in OrderRec
    BY <2>1, <2>3, RecordType
  <2>5. mem' \in [Orders -> OrderRec] /\ db' \in [Orders -> OrderRec]
    <3> DEFINE n == Loaded(o).filled + 1
               s == IF n >= Qty THEN "FILLED" ELSE "PARTIALLY_FILLED"
    <3>1. Record(s, n) \in OrderRec
      BY <2>2, <2>3, RecordType
    <3>2. \/ UNCHANGED <<mem, db>>
          \/ Store(o, Record(s, n))
          \/ mem' = [mem EXCEPT ![o] = [Loaded(o) EXCEPT !.filled = n]] /\ UNCHANGED db
      BY <1>q DEF OnFilled
    <3> HIDE DEF n, s
    <3>3. CASE UNCHANGED <<mem, db>>
      BY <3>3 DEF TypeOK
    <3>4. CASE Store(o, Record(s, n))
      BY <3>1, <3>4 DEF TypeOK, Store
    <3>5. CASE mem' = [mem EXCEPT ![o] = [Loaded(o) EXCEPT !.filled = n]] /\ UNCHANGED db
      BY <2>4, <3>5 DEF TypeOK, n
    <3> QED
      BY <3>2, <3>3, <3>4, <3>5
  <2>6. fills' \in [Orders -> SUBSET (1..Qty)] /\ applied' \in [Orders -> Nat]
    BY <1>q DEF TypeOK, OnFilled
  <2> QED
    BY <1>q, <2>5, <2>6 DEF TypeOK, OnFilled, Handling, boundVars
<1>r. ASSUME NEW o \in Orders, Arrive(o) \/ Lose(o) \/ Refuse(o) \/ Execute(o)
                               \/ Withdraw(o) \/ LoseCancel(o) \/ Replay(o)
      PROVE TypeOK'
  <2>1. ext' \in [Orders -> {"new", "transit", "void"} \cup Arrived]
    BY <1>r DEF TypeOK, Arrive, Lose, Refuse, Execute, Withdraw, LoseCancel, Replay, Arrived
  <2>2. /\ executed' \in [Orders -> 0..Qty]
        /\ \A p \in Orders : /\ ext'[p] \notin Arrived => executed'[p] = 0
                             /\ ext'[p] = "working"  => executed'[p] < Qty
    <3>1. CASE Execute(o)
      BY <3>1 DEF TypeOK, Execute, Arrived
    <3>2. CASE ~Execute(o)
      BY <1>r, <3>2 DEF TypeOK, Arrive, Lose, Refuse, Withdraw, LoseCancel, Replay, Arrived
    <3> QED
      BY <3>1, <3>2
  <2>3. creq' \in [Orders -> {"none", "sent", "done"}]
    BY <1>r DEF TypeOK, Arrive, Lose, Refuse, Execute, Withdraw, LoseCancel, Replay
  <2>4. events' \subseteq Event
    BY <1>r, EventType
       DEF TypeOK, Arrive, Lose, Refuse, Execute, Withdraw, LoseCancel, Replay, Emit
  <2>5. /\ UNCHANGED <<proc, persistVars, saved, synced, procVars, starts>>
        /\ replays' \in Nat
    BY <1>r DEF TypeOK, Arrive, Lose, Refuse, Execute, Withdraw, LoseCancel, Replay,
       exchRest, boundVars
  <2> QED
    BY <2>1, <2>2, <2>3, <2>4, <2>5 DEF TypeOK, persistVars, procVars
<1> QED
  BY <1>u, <1>a, <1>b, <1>c, <1>d, <1>e, <1>f, <1>g, <1>h, <1>i, <1>j, <1>k, <1>l, <1>m,
     <1>n, <1>o, <1>p, <1>q, <1>r DEF Next, Start, Place, Sweep, Consume, Exchange

\* The kernel starts with typed state: no row, no cached order, nothing in transit
\* (kernel.py:71-104).
LEMMA InitType == Init => TypeOK
<1> SUFFICES ASSUME Init PROVE TypeOK
  OBVIOUS
<1>1. /\ db \in [Orders -> OrderRec] /\ mem \in [Orders -> OrderRec]
      /\ copies \in [Orders -> OrderRec]
  BY RecordType DEF Init, NoRecords
<1>2. fills \in [Orders -> SUBSET (1..Qty)] /\ applied \in [Orders -> Nat]
  BY DEF Init
<1>3. saved \in [db : [Orders -> OrderRec], fills : [Orders -> SUBSET (1..Qty)],
                 applied : [Orders -> Nat]]
  BY <1>1, <1>2 DEF Init
<1>4. /\ ext \in [Orders -> {"new", "transit", "void"} \cup Arrived]
      /\ executed \in [Orders -> 0..Qty]
      /\ \A o \in Orders : /\ ext[o] \notin Arrived => executed[o] = 0
                           /\ ext[o] = "working"  => executed[o] < Qty
      /\ creq \in [Orders -> {"none", "sent", "done"}]
  BY QtyAssumption DEF Init, Arrived
<1>5. /\ proc = "down" /\ todo = {} /\ placing = {} /\ batch = {} /\ bad = FALSE
      /\ sweep = "idle" /\ events = {} /\ synced = {} /\ starts = 0 /\ replays = 0
  BY DEF Init
<1> QED
  BY <1>1, <1>2, <1>3, <1>4, <1>5 DEF TypeOK

\* Every reachable state has the types of TypeOK, whatever the number of orders,
\* the quantity and the bounds.
THEOREM TypeCorrect == Spec => []TypeOK
BY InitType, TypeStep, PTL DEF Spec
-----------------------------------------------------------------------------
(* What the kernel believes of an order is true of the exchange.            *)

\* A record r is sound for an order whose state at the exchange is e.
Sound(e, r) ==
  /\ r.status = "REJECTED"  => e \in {"void", "rejected"}
  /\ r.status = "CANCELLED" => e = "cancelled"
  /\ r.status \in {"SUBMITTED", "ACKNOWLEDGED", "PARTIALLY_FILLED", "FILLED",
                   "CANCEL_PENDING", "CANCELLED"} => e \in Arrived

Believed(o) == {mem[o], db[o], saved.db[o], copies[o]}

EventTrue(e) ==
  /\ e.kind \in {"accepted", "filled"} => ext[e.order] \in Arrived
  /\ e.kind = "cancelled" => ext[e.order] = "cancelled"
  /\ e.kind = "rejected"  => ext[e.order] = "rejected"

\* The inductive invariant: every copy of an order is sound, the stale ones of a
\* running cancel_all_active included, and every queued event is true.
BeliefInv ==
  /\ \A o \in Orders : \A r \in Believed(o) : Sound(ext[o], r)
  /\ \A e \in events : EventTrue(e)

\* The exchange may go on with an order but never takes back what a sound record
\* relies on.
Forward(e, f) ==
  /\ e \in {"void", "rejected", "cancelled"} => f = e
  /\ e \in Arrived => f \in Arrived

\* What is not written stays sound when the exchange goes on (order_manager.py:319-391
\* relies on it: an event is handled later than it happened).
LEMMA SoundForward ==
  ASSUME NEW e, NEW f, NEW r, Sound(e, r), Forward(e, f)
  PROVE  Sound(f, r)
BY DEF Sound, Forward

\* A record that moved along the status table is sound if the new status is, and
\* CANCEL_PENDING needs no other reason than the status before it.
LEMMA SoundMove ==
  /\ \A e : Sound(e, Absent)
  /\ \A e, r : r \in OrderRec /\ Sound(e, r) /\ May(r, "CANCEL_PENDING")
               => Sound(e, [r EXCEPT !.status = "CANCEL_PENDING"])
  /\ \A e, r : r \in OrderRec => Sound(e, [r EXCEPT !.status = "UNKNOWN"])
  /\ \A e, r : r \in OrderRec /\ e \in Arrived
               => \A s \in {"SUBMITTED", "ACKNOWLEDGED"} : Sound(e, [r EXCEPT !.status = s])
  /\ \A e, r : r \in OrderRec /\ e = "cancelled"
               => Sound(e, [r EXCEPT !.status = "CANCELLED"])
  /\ \A e, r : r \in OrderRec /\ e \in {"void", "rejected"}
               => Sound(e, [r EXCEPT !.status = "REJECTED"])
  /\ \A e, n : e \in Arrived => Sound(e, Record("FILLED", n))
                              /\ Sound(e, Record("PARTIALLY_FILLED", n))
  /\ \A n : \A e : Sound(e, Record("RISK_CHECKED", n)) /\ Sound(e, Record("SUBMITTING", n))
  /\ \A e, r : r \in OrderRec /\ Sound(e, r)
               => \A n : Sound(e, [r EXCEPT !.filled = n])
<1>1. \A r : r \in OrderRec /\ May(r, "CANCEL_PENDING")
            => r.status \in {"SUBMITTED", "ACKNOWLEDGED", "PARTIALLY_FILLED", "CANCEL_PENDING"}
  BY DEF May, CanTransition, Transitions, Present, OrderRec, OrderStatus, Active, Terminal
<1> QED
  BY <1>1 DEF Sound, Absent, Record, OrderRec, Arrived

\* Every step of the system is a step forward for every order at the exchange.
LEMMA ExtForward ==
  ASSUME TypeOK, [Next]_vars, NEW p \in Orders
  PROVE  Forward(ext[p], ext'[p])
<1> DEFINE P == Forward(ext[p], ext'[p])
<1>0. UNCHANGED ext => P
  BY DEF Forward
<1>1. UNCHANGED vars => P
  BY <1>0 DEF vars, exchVars
<1>2. Connect \/ FinishRecovery \/ MatchOrders \/ MatchPositions \/ SweepList
        \/ Stop \/ Crash => P
  BY <1>0 DEF Connect, FinishRecovery, MatchOrders, MatchPositions, SweepList, Stop,
     Crash, Exit, exchVars, sweepRest
<1>3. ASSUME NEW o \in Orders
      PROVE  RecoverQueryFailed(o) \/ RecoverNotOnBroker(o) \/ RecoverFromBroker(o) => P
  BY <1>0 DEF Recovering, RecoverQueryFailed, RecoverNotOnBroker, RecoverFromBroker,
     exchVars
<1>4. ASSUME NEW o \in Orders
      PROVE  PlaceAccepted(o) \/ PlaceRefused(o) \/ PlaceTimedOut(o) \/ CancelOrder(o)
               \/ SweepMark(o) \/ SweepSend(o) => P
  BY <1>0 DEF PlaceReturns, PlaceAccepted, PlaceRefused, PlaceTimedOut, CancelOrder,
     SweepMark, SweepSend, sweepRest, exchVars
<1>5. ASSUME NEW o \in Orders
      PROVE  OnAccepted(o) \/ OnCancelled(o) \/ OnRejected(o)
               \/ (\E k \in 1..Qty : OnFilled(o, k)) => P
  BY <1>0 DEF Handling, OnAccepted, OnCancelled, OnRejected, OnFilled
<1>6. ASSUME NEW o \in Orders
      PROVE  PlaceOrder(o) \/ Arrive(o) \/ Lose(o) \/ Refuse(o) \/ Execute(o) \/ Withdraw(o)
               \/ LoseCancel(o) \/ Replay(o) => P
  BY DEF TypeOK, PlaceOrder, Arrive, Lose, Refuse, Execute, Withdraw, LoseCancel, Replay,
     Forward, Arrived
<1> HIDE DEF P
<1>7. Next => P
  BY <1>2, <1>3, <1>4, <1>5, <1>6 DEF Next, Start, Place, Sweep, Consume, Exchange
<1> QED
  BY <1>1, <1>7 DEF P

\* A record written by a step is an old one or sound on its own account.
SoundStep == \A p \in Orders : \A r \in Believed(p)' :
               r \in Believed(p) \/ Sound(ext'[p], r)

\* The order a handler looks up is one of the copies that are believed
\* (order_manager.py:441-450).
LEMMA LoadedBelieved ==
  ASSUME TypeOK, NEW o \in Orders
  PROVE  Loaded(o) \in Believed(o) /\ Loaded(o) \in OrderRec
BY DEF Loaded, Believed, TypeOK

\* The cache and the rows after a lookup or a move of one order.
LEMMA MoveBelieved ==
  ASSUME TypeOK, NEW o \in Orders, NEW s \in OrderStatus, MoveTo(o, s) \/ LookUp(o),
         UNCHANGED <<saved, copies>>,
         MoveTo(o, s) /\ May(Loaded(o), s)
           => Sound(ext'[o], [Loaded(o) EXCEPT !.status = s])
  PROVE  SoundStep
<1> DEFINE m == [Loaded(o) EXCEPT !.status = s]
<1>1. mem \in [Orders -> OrderRec] /\ db \in [Orders -> OrderRec]
  BY DEF TypeOK
<1>2. \/ /\ MoveTo(o, s) /\ May(Loaded(o), s)
         /\ mem' = [mem EXCEPT ![o] = m] /\ db' = [db EXCEPT ![o] = m]
      \/ mem' = [mem EXCEPT ![o] = Loaded(o)] /\ db' = db
  BY DEF MoveTo, LookUp, Store
<1> HIDE DEF m
<1>3. CASE /\ MoveTo(o, s) /\ May(Loaded(o), s)
           /\ mem' = [mem EXCEPT ![o] = m] /\ db' = [db EXCEPT ![o] = m]
  <2>1. Sound(ext'[o], m)
    BY <1>3 DEF m
  <2> QED
    BY <1>1, <1>3, <2>1 DEF SoundStep, Believed
<1>4. CASE mem' = [mem EXCEPT ![o] = Loaded(o)] /\ db' = db
  BY <1>1, <1>4, LoadedBelieved DEF SoundStep, Believed
<1> QED
  BY <1>2, <1>3, <1>4

\* Nothing the kernel writes is unsound (all of OrderManager and recovery).
LEMMA RecordStep ==
  ASSUME FaithfulQueries, TypeOK, BeliefInv, [Next]_vars
  PROVE  SoundStep
<1> USE SoundMove
<1>0. \A o \in Orders : Loaded(o) \in OrderRec /\ Sound(ext[o], Loaded(o))
  BY LoadedBelieved DEF BeliefInv
<1>1. UNCHANGED <<mem, db, saved, copies>> => SoundStep
  BY DEF SoundStep, Believed
<1>2. UNCHANGED vars => SoundStep
  BY <1>1 DEF vars, persistVars, procVars
<1>3. Connect \/ MatchOrders \/ MatchPositions => SoundStep
  BY <1>1 DEF Connect, MatchOrders, MatchPositions, persistVars, procVars
<1>4. FinishRecovery => SoundStep
  BY DEF FinishRecovery, SoundStep, Believed, TypeOK, persistVars
<1>5. SweepList => SoundStep
  BY DEF SweepList, SoundStep, Believed, TypeOK, sweepRest
<1>6. Stop => SoundStep
  BY DEF Stop, Exit, NoRecords, SoundStep, Believed, TypeOK, persistVars
<1>7. Crash => SoundStep
  BY DEF Crash, Exit, NoRecords, SoundStep, Believed, TypeOK
<1>8. ASSUME NEW o \in Orders, RecoverQueryFailed(o) PROVE SoundStep
  BY <1>1, <1>8 DEF RecoverQueryFailed, Recovering
<1>9. ASSUME NEW o \in Orders, RecoverNotOnBroker(o) PROVE SoundStep
  <2> DEFINE r == [db[o] EXCEPT !.status = "REJECTED"]
  <2>1. UNCHANGED <<mem, saved, copies, ext>>
    BY <1>9 DEF RecoverNotOnBroker, Recovering, exchVars
  <2>2. db[o] \in OrderRec /\ ext[o] = "void"
    BY <1>9 DEF RecoverNotOnBroker, TypeOK
  <2>3. Sound(ext'[o], r)
    BY <2>1, <2>2
  <2>4. db' = db \/ db' = [db EXCEPT ![o] = r]
    BY <1>9 DEF RecoverNotOnBroker
  <2> HIDE DEF r
  <2> QED
    BY <2>1, <2>3, <2>4 DEF SoundStep, Believed, TypeOK
<1>10. ASSUME NEW o \in Orders, RecoverFromBroker(o) PROVE SoundStep
  <2>1. UNCHANGED <<mem, saved, copies, ext>>
    BY <1>10 DEF RecoverFromBroker, Recovering, exchVars
  <2>2. PICK s \in View(o) : db' = db \/ db' = [db EXCEPT ![o] = Record(s, executed[o])]
    BY <1>10 DEF RecoverFromBroker
  <2>3. Sound(ext[o], Record(s, executed[o]))
    BY <2>2 DEF View, AtWork, Sound, Record, Arrived
  <2> QED
    BY <2>1, <2>2, <2>3 DEF SoundStep, Believed, TypeOK
<1>11. ASSUME NEW o \in Orders, PlaceOrder(o) PROVE SoundStep
  <2>1. UNCHANGED <<saved, copies>>
    BY <1>11 DEF PlaceOrder
  <2>2. /\ mem' = [mem EXCEPT ![o] = Record("SUBMITTING", 0)]
        /\ db' = [db EXCEPT ![o] = Record("RISK_CHECKED", 0)]
    BY <1>11 DEF PlaceOrder
  <2> QED
    BY <2>1, <2>2 DEF SoundStep, Believed, TypeOK
<1>12. ASSUME NEW o \in Orders, PlaceAccepted(o) PROVE SoundStep
  <2>1. UNCHANGED <<saved, copies, ext>> /\ ext[o] \in Arrived
    BY <1>12 DEF PlaceAccepted, PlaceReturns, exchVars
  <2>2. PICK s \in {"SUBMITTED", "ACKNOWLEDGED"} :
          IF May(mem[o], "SUBMITTED") THEN Store(o, [mem[o] EXCEPT !.status = s])
                                      ELSE UNCHANGED <<mem, db>>
    BY <1>12 DEF PlaceAccepted
  <2> DEFINE r == [mem[o] EXCEPT !.status = s]
  <2>3. Sound(ext'[o], r)
    BY <2>1 DEF TypeOK
  <2>4. Store(o, r) \/ UNCHANGED <<mem, db>>
    BY <2>2
  <2> HIDE DEF r
  <2> QED
    BY <2>1, <2>3, <2>4 DEF SoundStep, Believed, TypeOK, Store
<1>13. ASSUME NEW o \in Orders, PlaceRefused(o) PROVE SoundStep
  <2>1. UNCHANGED <<saved, copies, ext>> /\ ext[o] = "void" /\ MoveTo(o, "REJECTED")
    BY <1>13 DEF PlaceRefused, PlaceReturns, exchVars
  <2>2. Sound(ext'[o], [Loaded(o) EXCEPT !.status = "REJECTED"])
    BY <1>0, <2>1
  <2> QED
    BY <2>1, <2>2, MoveBelieved DEF OrderStatus, Terminal
<1>14. ASSUME NEW o \in Orders, PlaceTimedOut(o) PROVE SoundStep
  <2>1. UNCHANGED <<saved, copies, ext>> /\ MoveTo(o, "UNKNOWN")
    BY <1>14 DEF PlaceTimedOut, PlaceReturns, exchVars
  <2>2. Sound(ext'[o], [Loaded(o) EXCEPT !.status = "UNKNOWN"])
    BY <1>0
  <2> QED
    BY <2>1, <2>2, MoveBelieved DEF OrderStatus, Active
<1>15. ASSUME NEW o \in Orders, CancelOrder(o) PROVE SoundStep
  <2>1. /\ UNCHANGED <<saved, copies, ext>>
        /\ MoveTo(o, "CANCEL_PENDING") \/ LookUp(o)
    BY <1>15 DEF CancelOrder
  <2>2. May(Loaded(o), "CANCEL_PENDING")
          => Sound(ext'[o], [Loaded(o) EXCEPT !.status = "CANCEL_PENDING"])
    BY <1>0, <2>1
  <2> QED
    BY <2>1, <2>2, MoveBelieved DEF OrderStatus, Active
<1>16. ASSUME NEW o \in Orders, SweepMark(o) PROVE SoundStep
  <2> DEFINE r == [copies[o] EXCEPT !.status = "CANCEL_PENDING"]
  <2>1. UNCHANGED <<mem, saved, ext>>
    BY <1>16 DEF SweepMark, sweepRest
  <2>2. CASE May(copies[o], "CANCEL_PENDING")
    <3>1. copies' = [copies EXCEPT ![o] = r] /\ db' = [db EXCEPT ![o] = r]
      BY <1>16, <2>2 DEF SweepMark
    <3>2. Sound(ext[o], copies[o]) /\ copies[o] \in OrderRec
      BY DEF BeliefInv, Believed, TypeOK
    <3>3. Sound(ext'[o], r)
      BY <2>1, <2>2, <3>2
    <3> HIDE DEF r
    <3> QED
      BY <2>1, <3>1, <3>3 DEF SoundStep, Believed, TypeOK
  <2>3. CASE ~May(copies[o], "CANCEL_PENDING")
    BY <1>16, <2>1, <2>3 DEF SweepMark, NoRecords, SoundStep, Believed
  <2> QED
    BY <2>2, <2>3
<1>17. ASSUME NEW o \in Orders, SweepSend(o) PROVE SoundStep
  BY <1>17 DEF SweepSend, NoRecords, sweepRest, SoundStep, Believed
<1>18. ASSUME NEW o \in Orders, OnAccepted(o) PROVE SoundStep
  <2>1. /\ UNCHANGED <<saved, copies, ext>> /\ Accepted(o) \in events
        /\ MoveTo(o, "ACKNOWLEDGED") \/ LookUp(o)
    BY <1>18 DEF OnAccepted, Handling
  <2>2. ext[o] \in Arrived
    BY <2>1 DEF BeliefInv, EventTrue, Accepted
  <2>3. Sound(ext'[o], [Loaded(o) EXCEPT !.status = "ACKNOWLEDGED"])
    BY <1>0, <2>1, <2>2
  <2> QED
    BY <2>1, <2>3, MoveBelieved DEF OrderStatus, Active
<1>19. ASSUME NEW o \in Orders, OnCancelled(o) PROVE SoundStep
  <2>1. /\ UNCHANGED <<saved, copies, ext>> /\ Cancelled(o) \in events
        /\ MoveTo(o, "CANCELLED")
    BY <1>19 DEF OnCancelled, Handling
  <2>2. ext[o] = "cancelled"
    BY <2>1 DEF BeliefInv, EventTrue, Cancelled
  <2>3. Sound(ext'[o], [Loaded(o) EXCEPT !.status = "CANCELLED"])
    BY <1>0, <2>1, <2>2
  <2> QED
    BY <2>1, <2>3, MoveBelieved DEF OrderStatus, Terminal
<1>20. ASSUME NEW o \in Orders, OnRejected(o) PROVE SoundStep
  <2>1. /\ UNCHANGED <<saved, copies, ext>> /\ Rejected(o) \in events
        /\ MoveTo(o, "REJECTED")
    BY <1>20 DEF OnRejected, Handling
  <2>2. ext[o] = "rejected"
    BY <2>1 DEF BeliefInv, EventTrue, Rejected
  <2>3. Sound(ext'[o], [Loaded(o) EXCEPT !.status = "REJECTED"])
    BY <1>0, <2>1, <2>2
  <2> QED
    BY <2>1, <2>3, MoveBelieved DEF OrderStatus, Terminal
<1>21. ASSUME NEW o \in Orders, NEW k \in 1..Qty, OnFilled(o, k) PROVE SoundStep
  <2>1. UNCHANGED <<saved, copies, ext>> /\ Filled(o, k) \in events
    BY <1>21 DEF OnFilled, Handling
  <2>2. ext[o] \in Arrived
    BY <2>1 DEF BeliefInv, EventTrue, Filled
  <2> DEFINE n == Loaded(o).filled + 1
             s == IF n >= Qty THEN "FILLED" ELSE "PARTIALLY_FILLED"
             r == Record(s, n)
             q == [Loaded(o) EXCEPT !.filled = n]
  <2>3. \/ UNCHANGED <<mem, db>>
        \/ mem' = [mem EXCEPT ![o] = r] /\ db' = [db EXCEPT ![o] = r]
        \/ mem' = [mem EXCEPT ![o] = q] /\ UNCHANGED db
    BY <1>21 DEF OnFilled, Store
  <2>4. Sound(ext'[o], r)
    BY <2>1, <2>2
  <2>5. Sound(ext'[o], q)
    BY <1>0, <2>1
  <2> HIDE DEF r, q
  <2> QED
    BY <2>1, <2>3, <2>4, <2>5 DEF SoundStep, Believed, TypeOK
<1>22. ASSUME NEW o \in Orders,
              \/ Arrive(o) \/ Lose(o) \/ Refuse(o) \/ Execute(o)
              \/ Withdraw(o) \/ LoseCancel(o) \/ Replay(o)
       PROVE SoundStep
  BY <1>1, <1>22 DEF Arrive, Lose, Refuse, Execute, Withdraw, LoseCancel, Replay, exchRest,
     persistVars, procVars
<1> QED
  BY <1>2, <1>3, <1>4, <1>5, <1>6, <1>7, <1>8, <1>9, <1>10, <1>11, <1>12, <1>13, <1>14,
     <1>15, <1>16, <1>17, <1>18, <1>19, <1>20, <1>21, <1>22
     DEF Next, Start, Place, Sweep, Consume, Exchange

\* Nothing the exchange reports is untrue, however late it is handled.
LEMMA EventStep ==
  ASSUME TypeOK, BeliefInv, [Next]_vars
  PROVE  \A e \in events' : EventTrue(e)'
<1>1. \A e \in events : EventTrue(e)'
  BY ExtForward DEF BeliefInv, EventTrue, Forward, TypeOK, Event
<1>2. events' \subseteq events => \A e \in events' : EventTrue(e)'
  BY <1>1
<1>3. UNCHANGED vars => events' \subseteq events
  BY DEF vars, exchVars
<1>4. Connect \/ FinishRecovery \/ MatchOrders \/ MatchPositions \/ SweepList
        \/ Stop \/ Crash => events' \subseteq events
  BY DEF Connect, FinishRecovery, MatchOrders, MatchPositions, SweepList, Stop, Crash,
     Exit, exchVars, sweepRest
<1>5. ASSUME NEW o \in Orders
      PROVE  RecoverQueryFailed(o) \/ RecoverNotOnBroker(o) \/ RecoverFromBroker(o)
               \/ Place(o) \/ CancelOrder(o) \/ SweepMark(o) \/ SweepSend(o) \/ Consume(o)
               => events' \subseteq events
  BY DEF Recovering, RecoverQueryFailed, RecoverNotOnBroker, RecoverFromBroker, Place,
     PlaceOrder, PlaceReturns, PlaceAccepted, PlaceRefused, PlaceTimedOut, CancelOrder,
     SweepMark, SweepSend, sweepRest, exchVars, Consume, Handling, OnAccepted,
     OnCancelled, OnRejected, OnFilled
<1>6. ASSUME NEW o \in Orders,
             Arrive(o) \/ Lose(o) \/ Refuse(o) \/ Execute(o) \/ Withdraw(o) \/ LoseCancel(o)
      PROVE  \A e \in events' : e \in events \/ EventTrue(e)'
  BY <1>6 DEF TypeOK, Arrive, Lose, Refuse, Execute, Withdraw, LoseCancel, Emit, EventTrue,
     Accepted, Filled, Cancelled, Rejected, Arrived
<1>7. ASSUME NEW o \in Orders, Replay(o)
      PROVE  \A e \in events' : e \in events \/ EventTrue(e)'
  <2>1. \A e \in History(o) : e.order = o /\ EventTrue(e)
    BY DEF TypeOK, History, EventTrue, Accepted, Filled, Cancelled, Rejected, Arrived
  <2>2. ext' = ext /\ \A e \in events' : e \in events \/ e \in History(o)
    BY <1>7 DEF Replay
  <2> QED
    BY <2>1, <2>2 DEF EventTrue
<1> QED
  BY <1>1, <1>2, <1>3, <1>4, <1>5, <1>6, <1>7 DEF Next, Start, Sweep, Exchange

\* The belief invariant holds of every reachable state.
LEMMA BeliefInvariant ==
  ASSUME FaithfulQueries
  PROVE  Spec => [](TypeOK /\ BeliefInv)
<1>1. Init => TypeOK /\ BeliefInv
  <2>1. ASSUME Init PROVE TypeOK
    BY <2>1, InitType
  <2>2. ASSUME Init PROVE BeliefInv
    BY <2>2, SoundMove DEF Init, NoRecords, BeliefInv, Believed
  <2> QED
    BY <2>1, <2>2
<1>2. TypeOK /\ BeliefInv /\ [Next]_vars => (TypeOK /\ BeliefInv)'
  <2> SUFFICES ASSUME TypeOK, BeliefInv, [Next]_vars
               PROVE  TypeOK' /\ BeliefInv'
    OBVIOUS
  <2>1. \A o \in Orders : \A r \in Believed(o)' : Sound(ext'[o], r)
    BY RecordStep, ExtForward, SoundForward DEF BeliefInv, SoundStep
  <2> QED
    BY <2>1, TypeStep, EventStep DEF BeliefInv
<1> QED
  BY <1>1, <1>2, PTL DEF Spec

\* An order written off as REJECTED, in memory, in its row or in the committed row,
\* never works at the exchange (order_manager.py:394-419, recovery.py:143-186), given
\* queries that answer nothing only for an order the broker will never have.
THEOREM RejectedIsDead ==
  ASSUME FaithfulQueries
  PROVE  Spec => []RejectedMeansDead
<1>1. BeliefInv => RejectedMeansDead
  BY DEF BeliefInv, Believed, Sound, RejectedMeansDead, Held
<1> QED
  BY <1>1, BeliefInvariant, PTL

\* An order believed CANCELLED has been cancelled by the exchange
\* (order_manager.py:183-215, 371-379), under the same assumption.
THEOREM CancelledIsDead ==
  ASSUME FaithfulQueries
  PROVE  Spec => []CancelledMeansDead
<1>1. BeliefInv => CancelledMeansDead
  BY DEF BeliefInv, Believed, Sound, CancelledMeansDead, Held
<1> QED
  BY <1>1, BeliefInvariant, PTL

\* A status from SUBMITTED on is only held by an order that reached the exchange
\* (order_manager.py:157-166, 319-330), under the same assumption.
THEOREM StatusIsArrived ==
  ASSUME FaithfulQueries
  PROVE  Spec => []StatusMeansArrived
<1>1. BeliefInv => StatusMeansArrived
  BY DEF BeliefInv, Believed, Sound, StatusMeansArrived, Held
<1> QED
  BY <1>1, BeliefInvariant, PTL
-----------------------------------------------------------------------------
(* No order at work without a row.                                          *)

\* The order may still execute.
Live(o) == ext[o] \in {"transit", "working"}

\* The inductive invariant: the start sequence begins with nothing under way, so the
\* reconciliation sees every live order, and from then on a row is written before its
\* order leaves and is never removed.
RowInv ==
  /\ proc \in {"recovering", "matching_orders"} => \A o \in Orders : ext[o] # "transit"
  /\ proc \in {"matching_positions", "ready"} =>
       \A o \in Orders : Live(o) => Present(db[o])

\* While the process lives no row disappears: every write is of an order with a
\* status (repo.py:147-179, 241-262).
LEMMA RowsStay ==
  ASSUME TypeOK, [Next]_vars, ~Crash, NEW p \in Orders, Present(db[p])
  PROVE  Present(db[p])'
<1> DEFINE P == Present(db[p])'
<1> USE DEF Present
<1>0. UNCHANGED db => P
  OBVIOUS
<1>1. UNCHANGED vars => P
  BY <1>0 DEF vars, persistVars
<1>2. Connect \/ FinishRecovery \/ MatchOrders \/ MatchPositions \/ SweepList \/ Stop => P
  BY <1>0 DEF Connect, FinishRecovery, MatchOrders, MatchPositions, SweepList, Stop,
     persistVars
<1>a. \A r \in OrderRec : \A s : [r EXCEPT !.status = s].status = s
  BY DEF OrderRec
<1>b. db \in [Orders -> OrderRec] /\ mem \in [Orders -> OrderRec]
  BY DEF TypeOK
<1>3. ASSUME NEW o \in Orders, RecoverQueryFailed(o) \/ RecoverNotOnBroker(o) PROVE P
  <2> DEFINE r == [db[o] EXCEPT !.status = "REJECTED"]
  <2>1. r.status # "ABSENT"
    BY <1>a, <1>b
  <2>2. db' = db \/ db' = [db EXCEPT ![o] = r]
    BY <1>3 DEF RecoverQueryFailed, RecoverNotOnBroker
  <2> HIDE DEF r
  <2> QED
    BY <1>b, <2>1, <2>2
<1>4. ASSUME NEW o \in Orders, RecoverFromBroker(o) PROVE P
  BY <1>4 DEF TypeOK, RecoverFromBroker, View, AtWork, Record
<1>5. ASSUME NEW o \in Orders PROVE PlaceOrder(o) => P
  BY DEF TypeOK, PlaceOrder, Record
<1>6. ASSUME NEW o \in Orders, PlaceAccepted(o) PROVE P
  <2>1. PICK s \in {"SUBMITTED", "ACKNOWLEDGED"} :
          Store(o, [mem[o] EXCEPT !.status = s]) \/ UNCHANGED <<mem, db>>
    BY <1>6 DEF PlaceAccepted
  <2> DEFINE r == [mem[o] EXCEPT !.status = s]
  <2>2. r.status # "ABSENT"
    BY <1>a, <1>b
  <2>3. db' = db \/ db' = [db EXCEPT ![o] = r]
    BY <2>1 DEF Store
  <2> HIDE DEF r
  <2> QED
    BY <1>b, <2>2, <2>3
<1>7. ASSUME NEW o \in Orders, NEW s \in OrderStatus, MoveTo(o, s) \/ LookUp(o) PROVE P
  <2>1. s # "ABSENT"
    BY DEF OrderStatus, Active, Terminal
  <2>2. Loaded(o) \in OrderRec
    BY LoadedBelieved
  <2> DEFINE r == [Loaded(o) EXCEPT !.status = s]
  <2>3. r.status # "ABSENT"
    BY <2>1, <2>2 DEF OrderRec
  <2>4. db' = db \/ db' = [db EXCEPT ![o] = r]
    BY <1>7 DEF MoveTo, LookUp, Store
  <2> HIDE DEF r
  <2> QED
    BY <2>3, <2>4 DEF TypeOK
<1>8. ASSUME NEW o \in Orders
      PROVE  PlaceRefused(o) \/ PlaceTimedOut(o) \/ CancelOrder(o) \/ OnAccepted(o)
               \/ OnCancelled(o) \/ OnRejected(o) => P
  BY <1>7 DEF PlaceRefused, PlaceTimedOut, CancelOrder, OnAccepted, OnCancelled,
     OnRejected, OrderStatus, Active, Terminal
<1>9. ASSUME NEW o \in Orders, SweepMark(o) \/ SweepSend(o) PROVE P
  <2> DEFINE r == [copies[o] EXCEPT !.status = "CANCEL_PENDING"]
  <2>1. r.status # "ABSENT"
    BY <1>a DEF TypeOK
  <2>2. db' = db \/ db' = [db EXCEPT ![o] = r]
    BY <1>9 DEF SweepMark, SweepSend, sweepRest
  <2> HIDE DEF r
  <2> QED
    BY <1>b, <2>1, <2>2
<1>10. ASSUME NEW o \in Orders, NEW k \in 1..Qty, OnFilled(o, k) PROVE P
  BY <1>10 DEF TypeOK, OnFilled, Store, Record
<1>11. ASSUME NEW o \in Orders
       PROVE  Exchange(o) => P
  BY <1>0 DEF Exchange, Arrive, Lose, Refuse, Execute, Withdraw, LoseCancel, Replay,
     exchRest, persistVars
<1> HIDE DEF P
<1>12. Next => P
  BY <1>2, <1>3, <1>4, <1>5, <1>6, <1>8, <1>9, <1>10, <1>11
     DEF Next, Start, Place, Sweep, Consume
<1> QED
  BY <1>1, <1>12 DEF P

\* Only place_order makes an order live, and it has written its row first
\* (order_manager.py:145-168).
LEMMA LiveStep ==
  ASSUME TypeOK, [Next]_vars, NEW p \in Orders, Live(p)', ~Live(p)
  PROVE  PlaceOrder(p)
<1> USE DEF Live
<1>0. ~UNCHANGED ext
  OBVIOUS
<1>1. ~UNCHANGED vars
  BY <1>0 DEF vars, exchVars
<1>2. ~(Connect \/ FinishRecovery \/ MatchOrders \/ MatchPositions \/ SweepList
          \/ Stop \/ Crash)
  BY <1>0 DEF Connect, FinishRecovery, MatchOrders, MatchPositions, SweepList, Stop,
     Crash, Exit, exchVars, sweepRest
<1>3. ASSUME NEW o \in Orders
      PROVE  ~(RecoverQueryFailed(o) \/ RecoverNotOnBroker(o) \/ RecoverFromBroker(o))
  BY <1>0 DEF Recovering, RecoverQueryFailed, RecoverNotOnBroker, RecoverFromBroker,
     exchVars
<1>4. ASSUME NEW o \in Orders
      PROVE  ~(PlaceAccepted(o) \/ PlaceRefused(o) \/ PlaceTimedOut(o) \/ CancelOrder(o)
                 \/ SweepMark(o) \/ SweepSend(o))
  BY <1>0 DEF PlaceReturns, PlaceAccepted, PlaceRefused, PlaceTimedOut, CancelOrder,
     SweepMark, SweepSend, sweepRest, exchVars
<1>5. ASSUME NEW o \in Orders
      PROVE  ~Consume(o)
  BY <1>0 DEF Consume, Handling, OnAccepted, OnCancelled, OnRejected, OnFilled
<1>6. ASSUME NEW o \in Orders
      PROVE  ~Exchange(o)
  BY DEF TypeOK, Exchange, Arrive, Lose, Refuse, Execute, Withdraw, LoseCancel, Replay,
     exchRest
<1>7. PICK o \in Orders : PlaceOrder(o)
  BY <1>1, <1>2, <1>3, <1>4, <1>5, <1>6 DEF Next, Start, Place, Sweep
<1> QED
  BY <1>7 DEF TypeOK, PlaceOrder

\* Which phase of the start sequence follows which (kernel.py:107-190).
LEMMA PhaseStep ==
  ASSUME [Next]_vars, proc' # proc
  PROVE  \/ Connect \/ FinishRecovery \/ MatchOrders \/ MatchPositions \/ proc' = "down"
<1>1. ~UNCHANGED vars
  BY DEF vars
<1>2. Stop \/ Crash => proc' = "down"
  BY DEF Stop, Crash, Exit
<1>3. ~SweepList
  BY DEF SweepList, sweepRest
<1>4. ASSUME NEW o \in Orders
      PROVE  ~(RecoverQueryFailed(o) \/ RecoverNotOnBroker(o) \/ RecoverFromBroker(o)
                 \/ Place(o) \/ CancelOrder(o) \/ SweepMark(o) \/ SweepSend(o)
                 \/ Consume(o) \/ Exchange(o))
  BY DEF Recovering, RecoverQueryFailed, RecoverNotOnBroker, RecoverFromBroker, Place,
     PlaceOrder, PlaceReturns, PlaceAccepted, PlaceRefused, PlaceTimedOut, CancelOrder,
     SweepMark, SweepSend, sweepRest, Consume, Handling, OnAccepted, OnCancelled,
     OnRejected, OnFilled, Exchange, Arrive, Lose, Refuse, Execute, Withdraw, LoseCancel,
     Replay, exchRest
<1> QED
  BY <1>1, <1>2, <1>3, <1>4 DEF Next, Start, Sweep

\* Every step keeps the rows of live orders (kernel.py:107-190, engine.py:118-151).
LEMMA RowStep ==
  ASSUME FaithfulQueries, TypeOK, RowInv, [Next]_vars
  PROVE  RowInv'
<1>1. CASE proc' = proc
  <2>1. ~Crash \/ proc = "down"
    BY <1>1 DEF Crash, Exit
  <2>2. ASSUME proc \in {"recovering", "matching_orders"}, NEW o \in Orders
        PROVE  ext'[o] # "transit"
    <3>1. ext[o] # "transit" /\ ~PlaceOrder(o)
      BY <2>2 DEF RowInv, PlaceOrder
    <3>2. CASE Live(o)
      BY <3>1, <3>2, ExtForward DEF Live, Forward, Arrived
    <3>3. CASE ~Live(o)
      BY <3>1, <3>3, LiveStep DEF Live
    <3> QED
      BY <3>2, <3>3
  <2>3. ASSUME proc \in {"matching_positions", "ready"}, NEW o \in Orders, Live(o)'
        PROVE  Present(db[o])'
    <3>1. CASE Live(o)
      BY <2>1, <2>3, <3>1, RowsStay DEF RowInv
    <3>2. CASE ~Live(o)
      BY <2>3, <3>2, LiveStep DEF PlaceOrder, TypeOK, Present, Record
    <3> QED
      BY <3>1, <3>2
  <2> QED
    BY <1>1, <2>2, <2>3 DEF RowInv
<1>2. CASE proc' = "down"
  BY <1>2 DEF RowInv
<1>3. CASE Connect
  BY <1>3 DEF RowInv, Connect, exchVars
<1>4. CASE FinishRecovery
  BY <1>4 DEF RowInv, FinishRecovery, exchVars
<1>5. CASE MatchOrders
  <2>1. CASE proc' = "matching_positions"
    <3>1. PICK pending : OrdersMatch({o \in Orders : ext[o] = "working"}, pending)
      BY <1>5, <2>1 DEF MatchOrders
    <3>2. \A o \in Orders : ext[o] = "working" => IsActive(db[o])
      BY <3>1 DEF OrdersMatch
    <3>3. \A o \in Orders : ext[o] # "transit"
      BY <1>5 DEF RowInv, MatchOrders
    <3> QED
      BY <1>5, <2>1, <3>2, <3>3 DEF RowInv, MatchOrders, Live, Present, IsActive, Active,
         persistVars, exchVars
  <2>2. CASE proc' # "matching_positions"
    BY <1>5, <2>2 DEF RowInv, MatchOrders
  <2> QED
    BY <2>1, <2>2
<1>6. CASE MatchPositions
  BY <1>6 DEF RowInv, MatchPositions, Live, persistVars, exchVars
<1> QED
  BY <1>1, <1>2, <1>3, <1>4, <1>5, <1>6, PhaseStep

\* While the kernel accepts orders, no order works at the exchange without a row, also
\* after a crash took the rows back (engine.py:118-151), given faithful queries.
THEOREM NoOrphan ==
  ASSUME FaithfulQueries
  PROVE  Spec => []NoOrphanWhileReady
<1>1. Init => RowInv
  BY DEF Init, RowInv
<1>2. TypeOK /\ RowInv /\ [Next]_vars => RowInv'
  BY RowStep
<1>3. RowInv => NoOrphanWhileReady
  BY DEF RowInv, NoOrphanWhileReady, Live
<1> QED
  BY <1>1, <1>2, <1>3, TypeCorrect, PTL DEF Spec
-----------------------------------------------------------------------------
(* A fill is counted once.                                                  *)

\* The records of an order that the process works with.
Used(o) == {mem[o], db[o], copies[o]}

\* The inductive invariant: neither a filled quantity nor a position is ahead of the fill
\* rows, in the session and in what a crash takes it back to.
CountInv ==
  /\ \A o \in Orders : /\ applied[o] <= Cardinality(fills[o])
                       /\ saved.applied[o] <= Cardinality(saved.fills[o])
  /\ \A o \in Orders \ synced :
       /\ \A r \in Used(o) : r.filled <= Cardinality(fills[o])
       /\ saved.db[o].filled <= Cardinality(saved.fills[o])

\* The step counts nothing: every quantity it writes was in use before.
CountKept ==
  /\ UNCHANGED <<fills, applied, saved, synced>>
  /\ \A o \in Orders : \A r \in Used(o)' :
       r.filled = 0 \/ \E q \in Used(o) : r.filled = q.filled

\* The fill rows of an order are finitely many, and a new one is one more.
LEMMA FillRows ==
  ASSUME NEW F \in SUBSET (1..Qty)
  PROVE  /\ Cardinality(F) \in Nat
         /\ \A k \in 1..Qty : k \notin F => Cardinality(F \cup {k}) = Cardinality(F) + 1
<1>1. IsFiniteSet(1..Qty)
  <2>1. 1 \in Int /\ Qty \in Int
    BY QtyAssumption
  <2> QED
    BY <2>1, FS_Interval
<1>2. IsFiniteSet(F)
  BY <1>1, FS_Subset
<1> QED
  BY <1>2, FS_CardinalityType, FS_AddElement

\* A change of status leaves the filled quantity.
LEMMA StatusKeepsFilled ==
  /\ \A r \in OrderRec : \A s : [r EXCEPT !.status = s].filled = r.filled
  /\ \A r \in OrderRec, n \in Nat : [r EXCEPT !.filled = n].filled = n
  /\ \A s : \A n : Record(s, n).filled = n
  /\ Absent.filled = 0
BY DEF OrderRec, Record, Absent

\* Looking up, moving and storing an order count nothing (order_manager.py:421-450).
LEMMA MoveKept ==
  ASSUME TypeOK, NEW o \in Orders, NEW s, MoveTo(o, s) \/ LookUp(o),
         UNCHANGED <<fills, applied, saved, synced, copies>>
  PROVE  CountKept
<1> DEFINE r == [Loaded(o) EXCEPT !.status = s]
           q == Loaded(o)
<1>1. /\ q \in OrderRec /\ mem \in [Orders -> OrderRec] /\ db \in [Orders -> OrderRec]
      /\ q \in Used(o)
  BY DEF TypeOK, Loaded, Used
<1>2. r.filled = q.filled
  BY <1>1, StatusKeepsFilled
<1>3. \/ mem' = [mem EXCEPT ![o] = r] /\ db' = [db EXCEPT ![o] = r]
      \/ mem' = [mem EXCEPT ![o] = q] /\ UNCHANGED db
  BY DEF MoveTo, LookUp, Store
<1> HIDE DEF r, q
<1> QED
  BY <1>1, <1>2, <1>3 DEF CountKept, Used

\* Which steps count: a recovery, a fill, a commit and a crash; no other does.
LEMMA KeptSteps ==
  ASSUME TypeOK, [Next]_vars
  PROVE  \/ CountKept \/ Stop \/ Crash
         \/ \E o \in Orders : RecoverFromBroker(o) \/ \E k \in 1..Qty : OnFilled(o, k)
<1> DEFINE P == CountKept
<1>t. /\ mem \in [Orders -> OrderRec] /\ db \in [Orders -> OrderRec]
      /\ copies \in [Orders -> OrderRec]
  BY DEF TypeOK
<1>0. UNCHANGED <<fills, applied, saved, synced, mem, db, copies>> => P
  BY DEF CountKept, Used
<1>1. UNCHANGED vars => P
  BY <1>0 DEF vars, persistVars, procVars
<1>2. Connect \/ MatchOrders \/ MatchPositions => P
  BY <1>0 DEF Connect, MatchOrders, MatchPositions, persistVars, procVars
<1>3. FinishRecovery => P
  BY StatusKeepsFilled DEF FinishRecovery, persistVars, CountKept, Used
<1>4. SweepList => P
  BY StatusKeepsFilled DEF SweepList, sweepRest, CountKept, Used
<1>5. ASSUME NEW o \in Orders, RecoverQueryFailed(o) \/ RecoverNotOnBroker(o) PROVE P
  <2> DEFINE r == [db[o] EXCEPT !.status = "REJECTED"]
  <2>1. r.filled = db[o].filled
    BY <1>t, StatusKeepsFilled
  <2>2. /\ db' = db \/ db' = [db EXCEPT ![o] = r]
        /\ UNCHANGED <<fills, applied, saved, synced, mem, copies>>
    BY <1>5 DEF RecoverQueryFailed, RecoverNotOnBroker, Recovering
  <2> HIDE DEF r
  <2> QED
    BY <1>t, <2>1, <2>2 DEF CountKept, Used
<1>6. ASSUME NEW o \in Orders, PlaceOrder(o) PROVE P
  <2> DEFINE r == Record("RISK_CHECKED", 0)
             q == Record("SUBMITTING", 0)
  <2>1. r.filled = 0 /\ q.filled = 0
    BY StatusKeepsFilled
  <2>2. /\ db' = [db EXCEPT ![o] = r] /\ mem' = [mem EXCEPT ![o] = q]
        /\ UNCHANGED <<fills, applied, saved, synced, copies>>
    BY <1>6 DEF PlaceOrder
  <2> HIDE DEF r, q
  <2> QED
    BY <1>t, <2>1, <2>2 DEF CountKept, Used
<1>7. ASSUME NEW o \in Orders, PlaceAccepted(o) PROVE P
  <2>1. PICK s \in {"SUBMITTED", "ACKNOWLEDGED"} :
          Store(o, [mem[o] EXCEPT !.status = s]) \/ UNCHANGED <<mem, db>>
    BY <1>7 DEF PlaceAccepted
  <2> DEFINE r == [mem[o] EXCEPT !.status = s]
  <2>2. r.filled = mem[o].filled
    BY <1>t, StatusKeepsFilled
  <2>3. /\ \/ mem' = [mem EXCEPT ![o] = r] /\ db' = [db EXCEPT ![o] = r]
           \/ UNCHANGED <<mem, db>>
        /\ UNCHANGED <<fills, applied, saved, synced, copies>>
    BY <1>7, <2>1 DEF PlaceAccepted, PlaceReturns, Store
  <2> HIDE DEF r
  <2> QED
    BY <1>t, <2>2, <2>3 DEF CountKept, Used
<1>8. ASSUME NEW o \in Orders
      PROVE  PlaceRefused(o) \/ PlaceTimedOut(o) \/ CancelOrder(o) \/ OnAccepted(o)
               \/ OnCancelled(o) \/ OnRejected(o) => P
  BY MoveKept DEF PlaceReturns, PlaceRefused, PlaceTimedOut, CancelOrder, Handling, OnAccepted,
     OnCancelled, OnRejected
<1>9. ASSUME NEW o \in Orders, SweepMark(o) \/ SweepSend(o) PROVE P
  <2> DEFINE r == [copies[o] EXCEPT !.status = "CANCEL_PENDING"]
  <2>1. r.filled = copies[o].filled
    BY <1>t, StatusKeepsFilled
  <2>2. /\ \/ copies' = [copies EXCEPT ![o] = r] /\ db' = [db EXCEPT ![o] = r]
           \/ copies' = [p \in Orders |-> Absent] /\ UNCHANGED db
           \/ UNCHANGED <<copies, db>>
        /\ UNCHANGED <<fills, applied, saved, synced, mem>>
    BY <1>9 DEF SweepMark, SweepSend, sweepRest, NoRecords
  <2> HIDE DEF r
  <2> QED
    BY <1>t, <2>1, <2>2, StatusKeepsFilled DEF CountKept, Used
<1>10. ASSUME NEW o \in Orders PROVE Exchange(o) => P
  BY <1>0 DEF Exchange, Arrive, Lose, Refuse, Execute, Withdraw, LoseCancel, Replay,
     exchRest, persistVars, procVars
<1> HIDE DEF P
<1>11. Next => \/ P \/ Stop \/ Crash
               \/ \E o \in Orders : RecoverFromBroker(o) \/ \E k \in 1..Qty : OnFilled(o, k)
  BY <1>2, <1>3, <1>4, <1>5, <1>6, <1>7, <1>8, <1>9, <1>10
     DEF Next, Start, Place, Sweep, Consume
<1> QED
  BY <1>1, <1>11 DEF P

\* No step lets a quantity or a position get ahead of the fill rows.
LEMMA CountStep ==
  ASSUME TypeOK, CountInv, [Next]_vars
  PROVE  CountInv'
<1>t. /\ mem \in [Orders -> OrderRec] /\ db \in [Orders -> OrderRec]
      /\ copies \in [Orders -> OrderRec] /\ applied \in [Orders -> Nat]
      /\ fills \in [Orders -> SUBSET (1..Qty)]
  BY DEF TypeOK
<1>s. \A o \in Orders : saved.fills[o] \in SUBSET (1..Qty)
  BY DEF TypeOK
<1>c. \A o \in Orders : Cardinality(fills[o]) \in Nat /\ Cardinality(saved.fills[o]) \in Nat
  BY <1>s, <1>t, FillRows
<1>1. CASE CountKept
  BY <1>1, <1>c DEF CountInv, CountKept, Used
<1>2. CASE Stop
  <2>1. /\ saved'.db = db /\ saved'.fills = fills /\ saved'.applied = applied
        /\ UNCHANGED <<db, fills, applied, synced>>
        /\ mem' = [o \in Orders |-> Absent] /\ copies' = [o \in Orders |-> Absent]
    BY <1>2 DEF Stop, Exit, persistVars, NoRecords
  <2> QED
    BY <1>c, <2>1, StatusKeepsFilled DEF CountInv, Used
<1>3. CASE Crash
  <2>1. /\ db' = saved.db /\ fills' = saved.fills /\ applied' = saved.applied
        /\ UNCHANGED <<saved, synced>>
        /\ mem' = [o \in Orders |-> Absent] /\ copies' = [o \in Orders |-> Absent]
    BY <1>3 DEF Crash, Exit, NoRecords
  <2> QED
    BY <1>c, <2>1, StatusKeepsFilled DEF CountInv, Used
<1>4. ASSUME NEW o \in Orders, RecoverFromBroker(o) PROVE CountInv'
  <2>1. PICK s \in View(o) :
          \/ UNCHANGED <<db, synced>>
          \/ /\ db' = [db EXCEPT ![o] = Record(s, executed[o])]
             /\ synced' = IF executed[o] = db[o].filled THEN synced ELSE synced \cup {o}
    BY <1>4 DEF RecoverFromBroker
  <2>2. UNCHANGED <<fills, applied, saved, mem, copies>>
    BY <1>4 DEF RecoverFromBroker, Recovering
  <2> DEFINE r == Record(s, executed[o])
  <2>3. r.filled = executed[o]
    BY StatusKeepsFilled
  <2> HIDE DEF r
  <2>4. \/ UNCHANGED <<db, synced>>
        \/ /\ db' = [db EXCEPT ![o] = r]
           /\ synced \subseteq synced'
           /\ o \notin synced' => r.filled = db[o].filled
    BY <2>1, <2>3 DEF r
  <2> QED
    BY <1>t, <2>2, <2>4 DEF CountInv, Used
<1>5. ASSUME NEW o \in Orders, NEW k \in 1..Qty, OnFilled(o, k) PROVE CountInv'
  <2>1. UNCHANGED <<saved, synced, copies>>
    BY <1>5 DEF OnFilled, Handling
  <2>2. CASE UNCHANGED <<mem, db, fills, applied>>
    BY <2>1, <2>2 DEF CountInv, Used
  <2>3. CASE ~UNCHANGED <<mem, db, fills, applied>>
    <3> DEFINE n == Loaded(o).filled + 1
               s == IF n >= Qty THEN "FILLED" ELSE "PARTIALLY_FILLED"
               r == Record(s, n)
               q == [Loaded(o) EXCEPT !.filled = n]
    <3>1. /\ k \notin fills[o]
          /\ fills' = [fills EXCEPT ![o] = @ \cup {k}]
          /\ \/ /\ mem' = [mem EXCEPT ![o] = r] /\ db' = [db EXCEPT ![o] = r]
                /\ applied' = [applied EXCEPT ![o] = @ + 1]
             \/ mem' = [mem EXCEPT ![o] = q] /\ UNCHANGED <<db, applied>>
      BY <1>5, <2>3 DEF OnFilled, Store
    <3>2. Loaded(o) \in OrderRec /\ Loaded(o) \in Used(o)
      BY <1>t DEF Loaded, Used
    <3>3. n \in Nat /\ Loaded(o).filled \in Nat
      BY <3>2, RecordType
    <3>4. r.filled = n /\ q.filled = n
      BY <3>2, <3>3, StatusKeepsFilled
    <3>5. o \notin synced => n <= Cardinality(fills[o]) + 1
      BY <1>c, <3>2, <3>3 DEF CountInv
    <3>6. Cardinality(fills'[o]) = Cardinality(fills[o]) + 1
      BY <1>t, <3>1, FillRows
    <3>7. \A p \in Orders : Cardinality(fills[p]) <= Cardinality(fills'[p])
      BY <1>c, <1>t, <3>1, <3>6
    <3>8. \A p \in Orders : Cardinality(fills'[p]) \in Nat
      BY <1>c, <1>t, <3>1, <3>6
    <3> HIDE DEF n, r, q
    <3>9. ASSUME NEW p \in Orders
          PROVE  applied'[p] <= Cardinality(fills'[p])
      BY <1>t, <1>c, <3>1, <3>6, <3>7, <3>8 DEF CountInv
    <3>10. ASSUME NEW p \in Orders \ synced
           PROVE  \A x \in Used(p)' : x.filled <= Cardinality(fills'[p])
      <4>1. \A x \in Used(p) : x \in OrderRec /\ x.filled \in Nat
        BY <1>t, RecordType DEF Used
      <4>2. \A x \in Used(p) : x.filled <= Cardinality(fills'[p])
        BY <1>c, <3>7, <3>8, <4>1 DEF CountInv
      <4>3. \A x \in Used(p)' : x \in Used(p) \/ (p = o /\ x \in {r, q})
        BY <1>t, <2>1, <3>1 DEF Used
      <4>4. p = o => r.filled <= Cardinality(fills'[p]) /\ q.filled <= Cardinality(fills'[p])
        BY <3>4, <3>5, <3>6
      <4> QED
        BY <4>2, <4>3, <4>4
    <3> QED
      BY <2>1, <3>9, <3>10 DEF CountInv
  <2> QED
    BY <2>2, <2>3
<1> QED
  BY <1>1, <1>2, <1>3, <1>4, <1>5, KeptSteps

LEMMA CountInvariant == Spec => []CountInv
<1>1. Init => CountInv
  <2> SUFFICES ASSUME Init PROVE CountInv
    OBVIOUS
  <2>1. \A o \in Orders : /\ fills[o] = {} /\ saved.fills[o] = {} /\ applied[o] = 0
                          /\ saved.applied[o] = 0 /\ saved.db[o] = Absent
                          /\ mem[o] = Absent /\ db[o] = Absent /\ copies[o] = Absent
    BY DEF Init, NoRecords
  <2>2. Cardinality({}) = 0 /\ Absent.filled = 0
    BY FS_EmptySet, StatusKeepsFilled
  <2>3. \A o \in Orders : /\ Cardinality(fills[o]) = 0 /\ Cardinality(saved.fills[o]) = 0
                          /\ saved.db[o].filled = 0
                          /\ \A r \in Used(o) : r.filled = 0
    BY ONLY <2>1, <2>2 DEF Used
  <2> QED
    BY ONLY <2>1, <2>3 DEF CountInv
<1>2. TypeOK /\ CountInv /\ [Next]_vars => CountInv'
  BY CountStep
<1> QED
  BY <1>1, <1>2, TypeCorrect, PTL DEF Spec

\* Without a recovery that overwrote it, a filled quantity never counts a repeated fill
\* twice, for any orders, units, restarts and replays (order_manager.py:336-343).
THEOREM CountedOnce == Spec => []FillCountedOnce
<1>1. CountInv => FillCountedOnce
  BY DEF CountInv, FillCountedOnce, Used
<1> QED
  BY <1>1, CountInvariant, PTL

\* A fill enters the position at most once (kernel.py:248-253, position_manager.py:46-79).
THEOREM AppliedOnce == Spec => []PositionAppliedOnce
<1>1. CountInv => PositionAppliedOnce
  BY DEF CountInv, PositionAppliedOnce
<1> QED
  BY <1>1, CountInvariant, PTL
============================================================================
