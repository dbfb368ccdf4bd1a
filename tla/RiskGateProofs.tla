--------------------------- MODULE RiskGateProofs ---------------------------
(***************************************************************************)
(* Theorems about RiskGate for any callers, limits, clocks and rows: how   *)
(* far requests that were checked before an order had a row can pass the   *)
(* limit on active orders, a HALT and the position they sell from; how     *)
(* many pass in a minute; and by how much buys can pass the daily limit.   *)
(***************************************************************************)
EXTENDS RiskGate, SequenceTheorems, TotalsProofs

\* The part of the types the proofs rest on.
GateType ==
  /\ level \in Levels
  /\ ask \in [Clients -> {Idle} \cup Request]
  /\ orders \in [Rows -> {NoRow} \cup Order]
  /\ pos \in [row : BOOLEAN, total : Nat, available : Nat] /\ pos.available <= pos.total
  /\ late \in [Clients -> Nat]
  /\ seen \in [sells : BOOLEAN, cut : BOOLEAN]

\* A request on its way keeps its side and value; an order that fills keeps its side.
LEMMA Fields ==
  /\ \A r \in Request, s \in Steps :
       /\ [r EXCEPT !.at = s] \in Request
       /\ [r EXCEPT !.at = s].at = s
       /\ [r EXCEPT !.at = s].side = r.side
       /\ [r EXCEPT !.at = s].value = r.value
  /\ \A o \in Order, s \in {"new", "sent", "cancelling"} :
       /\ [o EXCEPT !.status = s] \in Order
       /\ [o EXCEPT !.status = s].side = o.side
       /\ [o EXCEPT !.status = s].left = o.left
  /\ \A o \in Order, n \in Nat :
       /\ [o EXCEPT !.left = n] \in Order
       /\ [o EXCEPT !.left = n].side = o.side
       /\ [o EXCEPT !.left = n].left = n
  /\ \A r \in Request : r.at # "idle"
  /\ \A o \in Order : o.status # "none" /\ o # NoRow
  /\ NoRow.status = "none" /\ Idle.at = "idle"
BY DEF Request, Order, NoRow, Idle, Steps

-----------------------------------------------------------------------------
(* The inductive invariant. *)

\* A caller has written an order under the present HALT at most once, and is past its checks.
HaltInv ==
  \A c \in Clients : \/ late[c] = 0
                     \/ level = "halt" /\ late[c] = 1 /\ ask[c].at \in {"idle", "send"}

\* Rows, and requests that will write one unless a sell is refused, are as many as allowed.
ActiveInv == IsFiniteSet(Active) /\ ActiveBounded

Sells(i)    == orders[i] # NoRow /\ orders[i].side = "sell"
WillSell(c) == ask[c].at = "add" /\ ask[c].side = "sell"

\* As long as no sell was checked beside another there is one at most, and it is covered.
SellInv ==
  ~seen.sells /\ ~AllowShort =>
    /\ ~seen.cut
    /\ \A i \in Rows : Sells(i) => /\ orders[i].left <= pos.available
                                   /\ \A j \in Rows : Sells(j) => i = j
                                   /\ \A c \in Clients : ~WillSell(c)
    /\ \A c \in Clients : WillSell(c) => /\ ask[c].value <= pos.available
                                         /\ \A d \in Clients : WillSell(d) => c = d

GateInv == GateType /\ HaltInv /\ ActiveInv /\ SellInv

\* Callers and in-flight requests are finitely many.
LEMMA Callers ==
  ASSUME NEW S \in SUBSET Clients
  PROVE  /\ IsFiniteSet(S) /\ Cardinality(S) \in Nat
         /\ Cardinality(Clients) \in Nat /\ Cardinality(S) <= Cardinality(Clients)
BY RiskAssumption, FS_Subset, FS_CardinalityType

\* A request that is checked goes to its next step or is refused.
LEMMA AskMove ==
  ASSUME GateType, NEW c \in Clients, ask[c].at # "idle", NEW s \in Steps,
         Goes(c, s) \/ Refused(c)
  PROVE  /\ ask' \in [Clients -> {Idle} \cup Request]
         /\ \A d \in Clients : d # c => ask'[d] = ask[d]
         /\ \/ ask'[c] = Idle
            \/ ask'[c].at = s /\ ask'[c].side = ask[c].side /\ ask'[c].value = ask[c].value
<1> DEFINE r == [ask[c] EXCEPT !.at = s]
<1>1. ask[c] \in Request /\ ask \in [Clients -> {Idle} \cup Request]
  BY Fields DEF GateType
<1>2. r \in Request /\ r.at = s /\ r.side = ask[c].side /\ r.value = ask[c].value
  BY <1>1, Fields
<1>3. ask' = [ask EXCEPT ![c] = r] \/ ask' = [ask EXCEPT ![c] = Idle]
  BY DEF Goes, Refused
<1> HIDE DEF r
<1> QED
  BY <1>1, <1>2, <1>3

\* A step of one request that writes no row: it does not enter the checks under a HALT, is
\* let past the count of active orders only with room left, and no sell is let past unseen.
LEMMA AskStep ==
  ASSUME GateInv, NEW c \in Clients,
         ask' \in [Clients -> {Idle} \cup Request],
         \A d \in Clients : d # c => ask'[d] = ask[d],
         UNCHANGED <<level, orders, pos, late, seen>>,
         \/ level # "halt" \/ ask[c].at \notin {"idle", "send"}
         \/ ask'[c].at \in {"idle", "send"},
         ask'[c].at \in {"sell", "add"} =>
           ask[c].at \in {"sell", "add"} \/ Cardinality(Active) < MaxActive,
         ~WillSell(c)'
  PROVE  GateInv'
<1>1. GateType'
  BY DEF GateInv, GateType
<1>2. HaltInv'
  BY DEF GateInv, HaltInv
<1>3. ActiveInv'
  <2>1. Active' = Active
    BY DEF Active
  <2>2. IsFiniteSet(Active) /\ Cardinality(Active) \in Nat
    BY FS_CardinalityType DEF GateInv, ActiveInv
  <2>3. MaxActive \in Nat
    BY RiskAssumption
  <2>4. InFlight \in SUBSET Clients /\ InFlight' \in SUBSET Clients
    BY DEF InFlight
  <2>5. CASE Cardinality(Active) < MaxActive
    <3>1. Cardinality(InFlight') \in Nat /\ Cardinality(InFlight') <= Cardinality(Clients)
          /\ Cardinality(Clients) \in Nat
      BY <2>4, Callers
    <3> QED
      BY <2>1, <2>2, <2>3, <2>5, <3>1 DEF ActiveInv, ActiveBounded
  <2>6. CASE ~(Cardinality(Active) < MaxActive)
    <3>1. InFlight' \in SUBSET InFlight
      BY <2>6 DEF InFlight
    <3>2. /\ Cardinality(InFlight') \in Nat /\ Cardinality(InFlight) \in Nat
          /\ IsFiniteSet(InFlight) /\ Cardinality(Clients) \in Nat
      BY <2>4, Callers
    <3>3. Cardinality(InFlight') <= Cardinality(InFlight)
      BY <3>1, <3>2, FS_Subset
    <3> QED
      BY <2>1, <2>2, <2>3, <3>2, <3>3 DEF GateInv, ActiveInv, ActiveBounded
  <2> QED
    BY <2>5, <2>6
<1>4. SellInv'
  BY DEF GateInv, SellInv, Sells, WillSell
<1> QED
  BY <1>1, <1>2, <1>3, <1>4 DEF GateInv

\* The step changes one active order, and perhaps the position: the order keeps its side if
\* it stays, and no more of it is left to sell than is available.
Only(i, o) ==
  /\ orders' = [orders EXCEPT ![i] = o]
  /\ o # NoRow => o.side = orders[i].side
  /\ UNCHANGED <<level, late>>
  /\ ask' \in [Clients -> {Idle} \cup Request]
  /\ \A c \in Clients : ask'[c] = ask[c] \/ (ask[c].at = "send" /\ ask'[c] = Idle)
  /\ pos' \in [row : BOOLEAN, total : Nat, available : Nat] /\ pos'.available <= pos'.total
Safe(i, o) ==
  \/ UNCHANGED seen /\ pos.available <= pos'.available
       /\ (o # NoRow => o.left <= orders[i].left)
  \/ /\ seen' \in [sells : BOOLEAN, cut : BOOLEAN] /\ seen'.sells = seen.sells
     /\ orders[i].side = "sell"
     /\ orders[i].left <= pos.available /\ ~seen.cut =>
          ~seen'.cut /\ (o # NoRow => o.left <= pos'.available)

LEMMA OrderStep ==
  ASSUME GateInv, NEW i \in Active, NEW o \in Order \cup {NoRow}, Only(i, o), Safe(i, o)
  PROVE  GateInv'
<1> USE DEF Only, Safe
<1>t. i \in Rows /\ orders \in [Rows -> {NoRow} \cup Order] /\ orders[i] \in Order
  BY DEF GateInv, GateType, Active
<1>o. /\ orders' \in [Rows -> {NoRow} \cup Order] /\ orders'[i] = o
      /\ \A j \in Rows : j # i => orders'[j] = orders[j]
  BY <1>t
<1>1. GateType'
  BY <1>o DEF GateInv, GateType
<1>2. HaltInv'
  BY Fields DEF GateInv, HaltInv
<1>3. ActiveInv'
  <2>1. Active' \in SUBSET Active
    BY <1>o DEF Active
  <2>2. InFlight' = InFlight
    BY Fields DEF InFlight
  <2>3. /\ IsFiniteSet(Active) /\ IsFiniteSet(Active')
        /\ Cardinality(Active) \in Nat /\ Cardinality(Active') \in Nat
        /\ Cardinality(Active') <= Cardinality(Active)
    BY <2>1, FS_Subset, FS_CardinalityType DEF GateInv, ActiveInv
  <2>4. Cardinality(InFlight) \in Nat /\ Cardinality(Clients) \in Nat
    BY Callers DEF InFlight
  <2>5. MaxActive \in Nat
    BY RiskAssumption
  <2> QED
    BY <2>2, <2>3, <2>4, <2>5 DEF GateInv, ActiveInv, ActiveBounded
<1>4. SellInv'
  <2> SUFFICES ASSUME ~seen.sells, ~AllowShort PROVE SellInv'
    BY DEF SellInv
  <2>1. /\ ~seen.cut
        /\ \A j \in Rows : Sells(j) => /\ orders[j].left <= pos.available
                                       /\ \A k \in Rows : Sells(k) => j = k
                                       /\ \A c \in Clients : ~WillSell(c)
        /\ \A c \in Clients : WillSell(c) => /\ ask[c].value <= pos.available
                                             /\ \A d \in Clients : WillSell(d) => c = d
    BY DEF GateInv, SellInv
  <2>2. /\ \A j \in Rows : Sells(j)' => Sells(j)
        /\ \A c \in Clients : WillSell(c)' => WillSell(c) /\ ask'[c] = ask[c]
    BY <1>o, <1>t, Fields DEF Sells, WillSell, Active
  <2>3. /\ \A j \in Rows : orders[j] # NoRow => orders[j].left \in Nat
        /\ \A c \in Clients : ask[c].at # "idle" => ask[c].value \in Nat
        /\ pos.available \in Nat /\ pos'.available \in Nat
        /\ o # NoRow => o.left \in Nat
    BY <1>t, Fields DEF GateInv, GateType, Order, Request
  <2>4. CASE orders[i].side = "sell"
    <3>1. Sells(i)
      BY <1>t, <2>4, Fields DEF Sells
    <3>2. /\ \A c \in Clients : ~WillSell(c)'
          /\ \A j \in Rows : Sells(j)' => j = i
      BY <2>1, <2>2, <3>1, <1>t
    <3>3. ~seen'.cut /\ (o # NoRow => o.left <= pos'.available)
      BY <2>1, <2>3, <3>1, <1>t, Fields
    <3>4. \A j \in Rows : Sells(j)' =>
            /\ orders'[j].left <= pos'.available
            /\ \A k \in Rows : Sells(k)' => j = k
            /\ \A c \in Clients : ~WillSell(c)'
      BY <1>o, <3>2, <3>3 DEF Sells
    <3> QED
      BY <3>2, <3>3, <3>4 DEF SellInv
  <2>5. CASE orders[i].side # "sell"
    <3>1. UNCHANGED seen /\ pos.available <= pos'.available
      BY <2>5
    <3>2. \A j \in Rows : Sells(j)' => j # i /\ orders'[j] = orders[j]
      BY <1>o, <2>5 DEF Sells
    <3>3. \A c \in Clients : WillSell(c) => ask[c].at # "idle"
      BY DEF WillSell
    <3>4. \A j \in Rows : Sells(j)' =>
            /\ orders'[j].left <= pos'.available
            /\ \A k \in Rows : Sells(k)' => j = k
            /\ \A c \in Clients : ~WillSell(c)'
      BY <2>1, <2>2, <2>3, <3>1, <3>2 DEF Sells
    <3>5. \A c \in Clients : WillSell(c)' =>
            /\ ask'[c].value <= pos'.available
            /\ \A d \in Clients : WillSell(d)' => c = d
      BY <2>1, <2>2, <2>3, <3>1, <3>3
    <3> QED
      BY <2>1, <3>1, <3>4, <3>5 DEF SellInv
  <2> QED
    BY <2>4, <2>5
<1> QED
  BY <1>1, <1>2, <1>3, <1>4 DEF GateInv

-----------------------------------------------------------------------------
(* The steps of place_order. *)

\* A caller past its first check has a request, and its next step is one of the steps.
LEMMA Waiting ==
  ASSUME GateType, NEW c \in Clients, ask[c].at # "idle"
  PROVE  ask[c] \in Request /\ ask[c].side \in {"buy", "sell"} /\ ask[c].value \in Nat
BY Fields DEF GateType, Request

\* Asking and the checks before the position is read.
LEMMA CheckSteps ==
  ASSUME GateInv, NEW c \in Clients,
         \/ \E side \in {"buy", "sell"}, market \in BOOLEAN, value \in Sizes :
              Ask(c, side, market, value)
         \/ CheckDaily(c) \/ CheckRate(c) \/ CheckActive(c)
  PROVE  GateInv'
<1>0. GateType
  BY DEF GateInv
<1>1. ASSUME NEW side \in {"buy", "sell"}, NEW market \in BOOLEAN, NEW value \in Sizes,
             Ask(c, side, market, value)
      PROVE  GateInv'
  <2> DEFINE s == IF side = "buy" /\ ~market THEN "daily" ELSE "rate"
             r == [at |-> s, side |-> side, market |-> market, value |-> value]
  <2>1. r \in Request /\ r.at \in {"daily", "rate"}
    BY RiskAssumption DEF Request, Steps
  <2>2. /\ ask' = [ask EXCEPT ![c] = r] /\ UNCHANGED <<level, orders, pos, late, seen>>
        /\ level # "halt"
    BY <1>1 DEF Ask, AllowsNew, AllowsReduceOnly
  <2> HIDE DEF r
  <2>3. /\ ask' \in [Clients -> {Idle} \cup Request] /\ ask'[c] = r
        /\ \A d \in Clients : d # c => ask'[d] = ask[d]
    BY <1>0, <2>1, <2>2 DEF GateType
  <2>4. ~WillSell(c)'
    BY <2>1, <2>3 DEF WillSell
  <2> QED
    BY <2>1, <2>2, <2>3, <2>4, AskStep
<1>2. ASSUME CheckDaily(c) \/ CheckRate(c) PROVE GateInv'
  <2>1. PICK s \in {"rate", "active"} : Goes(c, s) \/ Refused(c)
    BY <1>2 DEF CheckDaily, CheckRate
  <2>2. ask[c].at \in {"daily", "rate"} /\ UNCHANGED <<level, orders, pos, late, seen>>
    BY <1>2 DEF CheckDaily, CheckRate
  <2>3. /\ ask' \in [Clients -> {Idle} \cup Request]
        /\ \A d \in Clients : d # c => ask'[d] = ask[d]
        /\ ask'[c] = Idle \/ ask'[c].at = s
    BY <1>0, <2>1, <2>2, AskMove DEF Steps
  <2>4. ask'[c].at \in {"idle", "rate", "active"}
    BY <2>3, Fields
  <2>5. ~WillSell(c)'
    BY <2>4 DEF WillSell
  <2> QED
    BY <2>2, <2>3, <2>4, <2>5, AskStep
<1>3. ASSUME CheckActive(c) PROVE GateInv'
  <2> DEFINE s == IF ask[c].side = "sell" THEN "sell" ELSE "add"
  <2>1. /\ Refused(c) \/ (Goes(c, s) /\ ~(Cardinality(Active) >= MaxActive))
        /\ ask[c].at = "active" /\ UNCHANGED <<level, orders, pos, late, seen>>
    BY <1>3 DEF CheckActive
  <2>2. Cardinality(Active) \in Nat /\ MaxActive \in Nat
    BY RiskAssumption, FS_CardinalityType DEF GateInv, ActiveInv
  <2>3. /\ ask' \in [Clients -> {Idle} \cup Request]
        /\ \A d \in Clients : d # c => ask'[d] = ask[d]
        /\ ask'[c] = Idle \/ (ask'[c].at = s /\ ask'[c].side = ask[c].side)
    BY <1>0, <2>1, AskMove DEF Steps
  <2>4. ask'[c] = Idle \/ Cardinality(Active) < MaxActive
    <3>1. CASE Refused(c)
      BY <1>0, <3>1 DEF Refused, GateType
    <3>2. CASE ~Refused(c)
      BY <2>1, <2>2, <3>2
    <3> QED
      BY <3>1, <3>2
  <2>5. ~WillSell(c)'
    BY <2>3, Fields DEF WillSell
  <2>6. ask'[c].at \in {"sell", "add"} => Cardinality(Active) < MaxActive
    BY <2>4, Fields
  <2> HIDE DEF s
  <2> QED
    BY <2>1, <2>3, <2>5, <2>6, AskStep
<1> QED
  BY <1>1, <1>2, <1>3

\* The position is read, and another sell that is pending then is noticed.
LEMMA SellStep ==
  ASSUME GateInv, NEW c \in Clients, CheckSell(c)
  PROVE  GateInv'
<1>0. GateType /\ ask[c].at = "sell" /\ UNCHANGED <<level, orders, pos, late>>
  BY DEF GateInv, CheckSell
<1>1. /\ ask' \in [Clients -> {Idle} \cup Request]
      /\ \A d \in Clients : d # c => ask'[d] = ask[d]
      /\ \/ ask'[c] = Idle
         \/ ask'[c].at = "add" /\ ask'[c].side = ask[c].side /\ ask'[c].value = ask[c].value
  BY <1>0, AskMove DEF CheckSell, Steps
<1>2. /\ seen' \in [sells : BOOLEAN, cut : BOOLEAN] /\ seen'.cut = seen.cut
      /\ seen'.sells = (seen.sells \/ SellPending(c))
  BY <1>0, Zenon DEF CheckSell, GateType
<1>3. GateType'
  BY <1>0, <1>1, <1>2 DEF GateType
<1>4. HaltInv'
  BY <1>0, <1>1 DEF GateInv, HaltInv
<1>5. ActiveInv'
  <2>1. Active' = Active
    BY <1>0 DEF Active
  <2>2. InFlight' \in SUBSET InFlight /\ InFlight \in SUBSET Clients
    BY <1>0, <1>1 DEF InFlight
  <2>3. /\ IsFiniteSet(InFlight) /\ Cardinality(InFlight) \in Nat
        /\ Cardinality(InFlight') \in Nat /\ Cardinality(Clients) \in Nat
    BY <2>2, Callers
  <2>4. Cardinality(InFlight') <= Cardinality(InFlight)
    BY <2>2, <2>3, FS_Subset
  <2>5. Cardinality(Active) \in Nat /\ MaxActive \in Nat
    BY RiskAssumption, FS_CardinalityType DEF GateInv, ActiveInv
  <2> QED
    BY <2>1, <2>3, <2>4, <2>5 DEF GateInv, ActiveInv, ActiveBounded
<1>6. SellInv'
  <2> SUFFICES ASSUME ~seen'.sells, ~AllowShort PROVE SellInv'
    BY DEF SellInv
  <2>1. ~seen.sells /\ ~SellPending(c)
    BY <1>2
  <2>2. /\ ~seen.cut
        /\ \A d \in Clients : WillSell(d) => /\ ask[d].value <= pos.available
                                             /\ \A e \in Clients : WillSell(e) => d = e
    BY <2>1 DEF GateInv, SellInv
  <2>3. /\ \A j \in Rows : ~Sells(j) /\ ~Sells(j)'
        /\ \A d \in Clients : d # c => ~WillSell(d) /\ ~WillSell(d)'
    BY <1>0, <1>1, <2>1 DEF SellPending, Sells, WillSell, Active
  <2>4. WillSell(c)' => ask'[c].value <= pos.available
    <3>1. ask'[c] # Idle \/ ~WillSell(c)'
      BY Fields DEF WillSell
    <3>2. ask'[c] # Idle => (pos.row => ~(ask[c].value > pos.available)) /\ pos.row
      BY <1>0 DEF CheckSell, Refused, GateType
    <3>3. ask[c].value \in Nat /\ pos.available \in Nat
      BY <1>0, Waiting DEF GateType
    <3> QED
      BY <1>1, <3>1, <3>2, <3>3
  <2> QED
    BY <1>0, <1>2, <2>2, <2>3, <2>4 DEF SellInv
<1> QED
  BY <1>3, <1>4, <1>5, <1>6 DEF GateInv

\* The order's row is written: what was a request on its way is an active order.
LEMMA AddStep ==
  ASSUME GateInv, NEW c \in Clients, AddRow(c)
  PROVE  GateInv'
<1>0. GateType /\ ask[c].at = "add" /\ UNCHANGED <<level, pos, seen>>
  BY DEF GateInv, AddRow
<1>1. /\ ask' \in [Clients -> {Idle} \cup Request]
      /\ \A d \in Clients : d # c => ask'[d] = ask[d]
      /\ ask'[c].at \in {"idle", "send"}
  BY <1>0, AskMove, Fields DEF AddRow, Steps
<1> DEFINE r == [side |-> ask[c].side, left |-> ask[c].value, by |-> c, status |-> "new"]
<1>2. r \in Order /\ r.side = ask[c].side /\ r.left = ask[c].value
  BY <1>0, Waiting DEF Order
<1>3. PICK i \in Rows \ Active : orders' = [orders EXCEPT ![i] = r]
  BY DEF AddRow
<1> HIDE DEF r
<1>4. /\ orders' \in [Rows -> {NoRow} \cup Order] /\ orders'[i] = r
      /\ \A j \in Rows : j # i => orders'[j] = orders[j]
  BY <1>0, <1>2, <1>3 DEF GateType
<1>5. /\ late' \in [Clients -> Nat] /\ \A d \in Clients : d # c => late'[d] = late[d]
      /\ late'[c] = (IF level = "halt" THEN 1 ELSE 0)
  <2>1. late[c] = 0 /\ late \in [Clients -> Nat]
    BY <1>0 DEF GateInv, HaltInv, GateType
  <2>2. CASE level = "halt"
    <3>1. late' = [late EXCEPT ![c] = @ + 1]
      BY <2>2, Zenon DEF AddRow
    <3> QED
      BY <2>1, <2>2, <3>1
  <2>3. CASE level # "halt"
    <3>1. late' = late
      BY <2>3, Zenon DEF AddRow
    <3> QED
      BY <2>1, <2>3, <3>1
  <2> QED
    BY <2>2, <2>3
<1>6. GateType'
  BY <1>0, <1>1, <1>4, <1>5 DEF GateType
<1>7. HaltInv'
  BY <1>0, <1>1, <1>5 DEF GateInv, HaltInv
<1>8. ActiveInv'
  <2>1. Active' = Active \cup {i} /\ i \notin Active
    BY <1>2, <1>3, <1>4, Fields DEF Active
  <2>2. InFlight' = InFlight \ {c} /\ c \in InFlight /\ InFlight \in SUBSET Clients
    BY <1>0, <1>1 DEF InFlight
  <2>3. IsFiniteSet(Active) /\ IsFiniteSet(InFlight) /\ Cardinality(InFlight) \in Nat
    BY <2>2, Callers DEF GateInv, ActiveInv
  <2>4. /\ IsFiniteSet(Active') /\ Cardinality(Active') = Cardinality(Active) + 1
        /\ Cardinality(InFlight') = Cardinality(InFlight) - 1
    BY <2>1, <2>2, <2>3, FS_AddElement, FS_RemoveElement
  <2>5. Cardinality(Active) \in Nat /\ MaxActive \in Nat /\ Cardinality(Clients) \in Nat
    BY <2>3, Callers, RiskAssumption, FS_CardinalityType
  <2> QED
    BY <2>3, <2>4, <2>5 DEF GateInv, ActiveInv, ActiveBounded
<1>9. SellInv'
  <2> SUFFICES ASSUME ~seen.sells, ~AllowShort PROVE SellInv'
    BY <1>0 DEF SellInv
  <2>1. /\ ~seen.cut
        /\ \A j \in Rows : Sells(j) => /\ orders[j].left <= pos.available
                                       /\ \A k \in Rows : Sells(k) => j = k
                                       /\ \A d \in Clients : ~WillSell(d)
        /\ \A d \in Clients : WillSell(d) => /\ ask[d].value <= pos.available
                                             /\ \A e \in Clients : WillSell(e) => d = e
    BY DEF GateInv, SellInv
  <2>2. /\ ~WillSell(c)'
        /\ \A d \in Clients : WillSell(d)' => d # c /\ WillSell(d) /\ ask'[d] = ask[d]
        /\ \A j \in Rows : j # i => (Sells(j)' <=> Sells(j)) /\ orders'[j] = orders[j]
        /\ Sells(i)' <=> WillSell(c)
    BY <1>0, <1>1, <1>2, <1>4, Fields DEF WillSell, Sells
  <2>3. CASE WillSell(c)
    <3>1. /\ \A j \in Rows : Sells(j)' => j = i
          /\ \A d \in Clients : ~WillSell(d)'
      BY <2>1, <2>2, <2>3
    <3>2. orders'[i].left <= pos.available
      BY <1>2, <1>4, <2>1, <2>3
    <3> QED
      BY <1>0, <2>1, <3>1, <3>2 DEF SellInv
  <2>4. CASE ~WillSell(c)
    <3>1. /\ \A j \in Rows : Sells(j)' => /\ orders'[j].left <= pos.available
                                          /\ \A k \in Rows : Sells(k)' => j = k
                                          /\ \A d \in Clients : ~WillSell(d)'
      BY <2>1, <2>2, <2>4
    <3>2. \A d \in Clients : WillSell(d)' => /\ ask'[d].value <= pos.available
                                             /\ \A e \in Clients : WillSell(e)' => d = e
      BY <2>1, <2>2, <2>4
    <3> QED
      BY <1>0, <2>1, <3>1, <3>2 DEF SellInv
  <2> QED
    BY <2>3, <2>4
<1> QED
  BY <1>6, <1>7, <1>8, <1>9 DEF GateInv

\* The broker's answer, fills, cancels and the end of an order.
LEMMA OrderSteps ==
  ASSUME GateInv,
         \/ \E c \in Clients, accepted \in BOOLEAN : Send(c, accepted)
         \/ \E i \in Active : \/ \E n \in 1..orders[i].left : Fill(i, n)
                              \/ Cancel(i) \/ End(i)
  PROVE  GateInv'
<1>t. /\ GateType /\ \A i \in Active : orders[i] \in Order
      /\ ask \in [Clients -> {Idle} \cup Request]
      /\ pos \in [row : BOOLEAN, total : Nat, available : Nat] /\ pos.available <= pos.total
      /\ seen \in [sells : BOOLEAN, cut : BOOLEAN]
  BY DEF GateInv, GateType, Active
<1>f. \A i \in Active : /\ orders[i].left \in Nat /\ orders[i].side \in {"buy", "sell"}
                        /\ i \in Rows
  BY <1>t DEF Order, Active
<1>1. ASSUME NEW c \in Clients, NEW accepted \in BOOLEAN, Send(c, accepted) PROVE GateInv'
  <2>1. PICK i \in Active :
          orders' = [orders EXCEPT ![i] = IF accepted THEN [@ EXCEPT !.status = "sent"]
                                          ELSE NoRow]
    BY <1>1 DEF Send
  <2> DEFINE o == IF accepted THEN [orders[i] EXCEPT !.status = "sent"] ELSE NoRow
  <2>2. /\ o \in Order \cup {NoRow}
        /\ o # NoRow => o.side = orders[i].side /\ o.left = orders[i].left
    BY <1>t, Fields
  <2>3. orders' = [orders EXCEPT ![i] = o]
    BY <2>1, <1>f, <1>t DEF GateType
  <2>4. /\ ask' = [ask EXCEPT ![c] = Idle] /\ ask[c].at = "send"
        /\ UNCHANGED <<level, pos, late, seen>>
    BY <1>1 DEF Send
  <2> HIDE DEF o
  <2>5. Only(i, o) /\ Safe(i, o)
    BY <1>f, <1>t, <2>2, <2>3, <2>4 DEF Only, Safe
  <2> QED
    BY <2>2, <2>5, OrderStep
<1>2. ASSUME NEW i \in Active, Cancel(i) \/ End(i) PROVE GateInv'
  <2> DEFINE q == [orders[i] EXCEPT !.status = "cancelling"]
  <2>1. q \in Order /\ q.side = orders[i].side /\ q.left = orders[i].left
    BY <1>t, Fields
  <2>2. PICK o \in {q, NoRow} : orders' = [orders EXCEPT ![i] = o]
    BY <1>2, <1>f, <1>t DEF Cancel, End, GateType
  <2>3. UNCHANGED <<ask, level, pos, late, seen>>
    BY <1>2 DEF Cancel, End
  <2> HIDE DEF q
  <2>4. o \in Order \cup {NoRow} /\ (o # NoRow => o.side = orders[i].side
                                                     /\ o.left = orders[i].left)
    BY <2>1, <2>2
  <2>5. Only(i, o) /\ Safe(i, o)
    BY <1>f, <1>t, <2>2, <2>3, <2>4 DEF Only, Safe
  <2> QED
    BY <2>4, <2>5, OrderStep
<1>3. ASSUME NEW i \in Active, NEW n \in 1..orders[i].left, Fill(i, n) PROVE GateInv'
  <2>0. /\ n \in Nat /\ n >= 1 /\ n <= orders[i].left /\ orders[i].left - n \in Nat
        /\ UNCHANGED <<ask, level, late>>
    BY <1>3, <1>f DEF Fill
  <2> DEFINE q == [orders[i] EXCEPT !.left = orders[i].left - n]
             o == IF n = orders[i].left /\ orders[i].status = "sent" THEN NoRow ELSE q
  <2>1. q \in Order /\ q.side = orders[i].side /\ q.left = orders[i].left - n
    BY <1>t, <2>0, Fields
  <2>2. orders' = [orders EXCEPT ![i] = o]
    BY <1>3, Zenon DEF Fill
  <2> HIDE DEF q
  <2>3. o \in Order \cup {NoRow} /\ (o # NoRow => o.side = orders[i].side
                                                     /\ o.left = orders[i].left - n)
    BY <2>1
  <2> HIDE DEF o
  <2>4. CASE orders[i].status = "cancelling"
    <3>1. UNCHANGED <<pos, seen>>
      BY <1>3, <2>4 DEF Fill
    <3>7. Only(i, o) /\ Safe(i, o)
      BY <1>f, <1>t, <2>0, <2>2, <2>3, <3>1 DEF Only, Safe
    <3> QED
      BY <2>3, <3>7, OrderStep
  <2>5. CASE orders[i].status # "cancelling" /\ orders[i].side = "buy"
    <3>1. /\ pos' = [row |-> TRUE, total |-> pos.total + n, available |-> pos.total + n]
          /\ UNCHANGED seen
      BY <1>3, <2>5 DEF Fill
    <3>2. /\ pos' \in [row : BOOLEAN, total : Nat, available : Nat]
          /\ pos'.available <= pos'.total /\ pos.available <= pos'.available
      BY <1>t, <2>0, <3>1
    <3>7. Only(i, o) /\ Safe(i, o)
      BY <1>f, <1>t, <2>0, <2>2, <2>3, <3>1, <3>2 DEF Only, Safe
    <3> QED
      BY <2>3, <3>7, OrderStep
  <2>6. CASE orders[i].status # "cancelling" /\ orders[i].side # "buy"
    <3> DEFINE total == IF n > pos.total THEN 0 ELSE pos.total - n
               free  == IF n > pos.available THEN 0 ELSE pos.available - n
    <3>1. pos' = [row |-> TRUE, total |-> total, available |-> free]
      BY <1>3, <2>6 DEF Fill
    <3>2. /\ seen' \in [sells : BOOLEAN, cut : BOOLEAN] /\ seen'.sells = seen.sells
          /\ seen'.cut = (seen.cut \/ n > pos.available)
      BY <1>3, <1>t, <2>6, Zenon DEF Fill
    <3>3. total \in Nat /\ free \in Nat /\ free <= total
      BY <1>t, <2>0
    <3>4. orders[i].left <= pos.available => free = pos.available - n /\ ~(n > pos.available)
      BY <1>t, <1>f, <2>0
    <3> HIDE DEF total, free
    <3>5. /\ pos' \in [row : BOOLEAN, total : Nat, available : Nat]
          /\ pos'.available <= pos'.total /\ pos'.available = free
      BY <3>1, <3>3
    <3>6. /\ orders[i].side = "sell"
          /\ orders[i].left <= pos.available /\ ~seen.cut =>
               ~seen'.cut /\ (o # NoRow => o.left <= pos'.available)
      BY <1>f, <1>t, <2>0, <2>3, <2>6, <3>2, <3>4, <3>5
    <3>7. Only(i, o) /\ Safe(i, o)
      BY <1>f, <1>t, <2>0, <2>2, <2>3, <3>2, <3>5, <3>6 DEF Only, Safe
    <3> QED
      BY <2>3, <3>7, OrderStep
  <2> QED
    BY <2>4, <2>5, <2>6
<1> QED
  BY <1>1, <1>2, <1>3

-----------------------------------------------------------------------------
(* The switch, time and restarts. *)

\* The rows stay as active as they were, with the side and the quantity they had.
SameRows ==
  /\ orders' \in [Rows -> {NoRow} \cup Order]
  /\ \A i \in Rows : /\ orders'[i] = NoRow <=> orders[i] = NoRow
                     /\ orders[i] # NoRow => orders'[i].side = orders[i].side
                                             /\ orders'[i].left = orders[i].left
  /\ UNCHANGED <<pos, seen>>

\* Nothing is asked, or nothing that is asked changes.
LEMMA OtherStep ==
  ASSUME GateInv, SameRows, level' \in Levels,
         \/ UNCHANGED ask
         \/ ask' = [c \in Clients |-> Idle],
         \/ UNCHANGED <<level, late>>
         \/ level = "halt" /\ level' = "halt" /\ UNCHANGED late
         \/ late' = None
  PROVE  GateInv'
<1>0. GateType
  BY DEF GateInv
<1>1. \A c \in Clients : ask'[c] = ask[c] \/ ask'[c] = Idle
  <2>1. CASE UNCHANGED ask
    BY <2>1
  <2>2. CASE ask' = [c \in Clients |-> Idle]
    BY <2>2
  <2> QED
    BY <2>1, <2>2
<1>2. GateType'
  <2>1. ask' \in [Clients -> {Idle} \cup Request]
    BY <1>0 DEF GateType
  <2>2. late' \in [Clients -> Nat]
    BY <1>0 DEF GateType, None
  <2> QED
    BY <1>0, <2>1, <2>2 DEF GateType, SameRows
<1>3. HaltInv'
  <2>1. CASE late' = None
    BY <2>1 DEF HaltInv, None
  <2>2. CASE level' = level /\ late' = late
    BY <1>1, <2>2, Fields DEF GateInv, HaltInv
  <2> QED
    BY <2>1, <2>2
<1>4. ActiveInv'
  <2>1. Active' = Active
    BY DEF Active, SameRows
  <2>2. InFlight' \in SUBSET InFlight /\ InFlight \in SUBSET Clients
    BY <1>1, Fields DEF InFlight
  <2>3. /\ IsFiniteSet(InFlight) /\ Cardinality(InFlight) \in Nat
        /\ Cardinality(InFlight') \in Nat /\ Cardinality(Clients) \in Nat
    BY <2>2, Callers
  <2>4. Cardinality(InFlight') <= Cardinality(InFlight)
    BY <2>2, <2>3, FS_Subset
  <2>5. Cardinality(Active) \in Nat /\ MaxActive \in Nat
    BY RiskAssumption, FS_CardinalityType DEF GateInv, ActiveInv
  <2> QED
    BY <2>1, <2>3, <2>4, <2>5 DEF GateInv, ActiveInv, ActiveBounded
<1>5. SellInv'
  <2>1. /\ \A i \in Rows : /\ Sells(i)' <=> Sells(i)
                           /\ Sells(i) => orders'[i].left = orders[i].left
        /\ \A c \in Clients : WillSell(c)' => WillSell(c) /\ ask'[c] = ask[c]
    BY <1>1, Fields DEF SameRows, Sells, WillSell
  <2>2. UNCHANGED <<pos, seen>>
    BY DEF SameRows
  <2> QED
    BY <2>1, <2>2 DEF GateInv, SellInv
<1> QED
  BY <1>2, <1>3, <1>4, <1>5 DEF GateInv

\* None of these steps ends an order or a request that it does not forget.
LEMMA OtherSteps ==
  ASSUME GateInv,
         \/ \E l \in Switched : Activate(l)
         \/ TaskSees \/ TaskActs \/ Tick \/ NewDay \/ Restart
         \/ UNCHANGED vars
  PROVE  GateInv'
<1>t. /\ level \in Levels /\ InitialLevel \in Levels /\ Switched \subseteq Levels
      /\ orders \in [Rows -> {NoRow} \cup Order]
  BY RiskAssumption DEF GateInv, GateType
<1>1. ASSUME NEW l \in Switched, Activate(l) PROVE GateInv'
  <2>1. UNCHANGED <<ask, orders, pos, seen>> /\ level' = l /\ l \in Levels
    BY <1>1, <1>t DEF Activate, SetTo
  <2>2. (level = "halt" /\ level' = "halt" /\ UNCHANGED late) \/ late' = None
    BY <1>1 DEF Activate, SetTo
  <2>3. SameRows
    BY <1>t, <2>1 DEF SameRows
  <2> QED
    BY <2>1, <2>2, <2>3, OtherStep
<1>2. ASSUME TaskActs PROVE GateInv'
  <2>1. UNCHANGED <<ask, orders, pos, seen>> /\ level' \in Levels /\ late' = None
    BY <1>2 DEF TaskActs, SetTo, Levels
  <2>2. SameRows
    BY <1>t, <2>1 DEF SameRows
  <2> QED
    BY <2>1, <2>2, OtherStep
<1>3. ASSUME TaskSees \/ Tick \/ NewDay \/ UNCHANGED vars PROVE GateInv'
  <2>1. UNCHANGED <<level, late, ask, orders, pos, seen>>
    BY <1>3 DEF TaskSees, Tick, NewDay, vars
  <2>2. SameRows
    BY <1>t, <2>1 DEF SameRows
  <2> QED
    BY <1>t, <2>1, <2>2, OtherStep
<1>4. ASSUME Restart PROVE GateInv'
  <2>1. /\ UNCHANGED <<pos, seen>> /\ level' \in Levels /\ late' = None
        /\ ask' = [c \in Clients |-> Idle]
    BY <1>4, <1>t DEF Restart
  <2>2. \A i \in Rows : orders'[i] = IF orders[i].status = "new"
                                    THEN [orders[i] EXCEPT !.status = "sent"] ELSE orders[i]
    BY <1>4 DEF Restart
  <2>3. orders' = [i \in Rows |-> IF orders[i].status = "new"
                                THEN [orders[i] EXCEPT !.status = "sent"] ELSE orders[i]]
    BY <1>4 DEF Restart
  <2>4. \A i \in Rows : /\ orders'[i] \in {NoRow} \cup Order
                        /\ orders'[i] = NoRow <=> orders[i] = NoRow
                        /\ orders[i] # NoRow => orders'[i].side = orders[i].side
                                                /\ orders'[i].left = orders[i].left
    <3> SUFFICES ASSUME NEW i \in Rows
                 PROVE  /\ orders'[i] \in {NoRow} \cup Order
                        /\ orders'[i] = NoRow <=> orders[i] = NoRow
                        /\ orders[i] # NoRow => orders'[i].side = orders[i].side
                                                /\ orders'[i].left = orders[i].left
      OBVIOUS
    <3>1. CASE orders[i] = NoRow
      BY <2>2, <3>1, Fields
    <3>2. CASE orders[i] # NoRow
      <4>1. orders[i] \in Order
        BY <1>t, <3>2
      <4> DEFINE q == [orders[i] EXCEPT !.status = "sent"]
      <4>2. q \in Order /\ q.side = orders[i].side /\ q.left = orders[i].left
        BY <4>1, Fields
      <4>3. orders'[i] = q \/ orders'[i] = orders[i]
        BY <2>2
      <4> HIDE DEF q
      <4> QED
        BY <3>2, <4>1, <4>2, <4>3, Fields
    <3> QED
      BY <3>1, <3>2
  <2>5. orders' \in [Rows -> {NoRow} \cup Order]
    BY <2>2, <2>3, <2>4
  <2>6. SameRows
    BY <2>1, <2>4, <2>5 DEF SameRows
  <2> QED
    BY <2>1, <2>6, OtherStep
<1> QED
  BY <1>1, <1>2, <1>3, <1>4

-----------------------------------------------------------------------------
(* The gate starts and steps within its invariant. *)

LEMMA GateStart == Init => GateInv
<1> SUFFICES ASSUME Init PROVE GateInv
  OBVIOUS
<1>1. /\ level = InitialLevel /\ ask = [c \in Clients |-> Idle]
      /\ orders = [i \in Rows |-> NoRow] /\ late = [c \in Clients |-> 0]
      /\ pos = [row |-> Position > 0, total |-> Position, available |-> Position]
      /\ seen = [sells |-> FALSE, cut |-> FALSE]
  BY DEF Init, None
<1>2. GateType
  BY <1>1, RiskAssumption DEF GateType
<1>3. HaltInv
  BY <1>1 DEF HaltInv
<1>4. ActiveInv
  <2>1. Active = {} /\ InFlight = {}
    BY <1>1, Fields DEF Active, InFlight, Idle
  <2>2. Cardinality(Clients) \in Nat /\ Cardinality(Clients) # 0
    BY Callers, RiskAssumption, FS_EmptySet
  <2> QED
    BY <2>1, <2>2, FS_EmptySet, RiskAssumption DEF ActiveInv, ActiveBounded
<1>5. SellInv
  BY <1>1, Fields DEF SellInv, Sells, WillSell, Idle
<1> QED
  BY <1>2, <1>3, <1>4, <1>5 DEF GateInv

LEMMA GateSteps == GateInv /\ [Next]_vars => GateInv'
<1> SUFFICES ASSUME GateInv, [Next]_vars PROVE GateInv'
  OBVIOUS
<1>1. ASSUME NEW c \in Clients,
             \/ \E side \in {"buy", "sell"}, market \in BOOLEAN, value \in Sizes :
                  Ask(c, side, market, value)
             \/ CheckDaily(c) \/ CheckRate(c) \/ CheckActive(c) \/ CheckSell(c) \/ AddRow(c)
             \/ \E accepted \in BOOLEAN : Send(c, accepted)
      PROVE  GateInv'
  BY <1>1, CheckSteps, SellStep, AddStep, OrderSteps
<1>2. CASE \E i \in Active : \/ \E n \in 1..orders[i].left : Fill(i, n)
                             \/ Cancel(i) \/ End(i)
  BY <1>2, OrderSteps
<1>3. CASE \/ \E l \in Switched : Activate(l)
           \/ TaskSees \/ TaskActs \/ Tick \/ NewDay \/ Restart \/ UNCHANGED vars
  BY <1>3, OtherSteps
<1> QED
  BY <1>1, <1>2, <1>3 DEF Next

-----------------------------------------------------------------------------
(* The window of the rate limit. *)

\* The window is what is left of the requests let through when the first w are forgotten,
\* and those are stale.
Window(w) ==
  /\ Len(passed) = w + Len(calls)
  /\ \A i \in 1..Len(calls) : calls[i] = passed[w + i]
  /\ \A i \in 1..w : Stale(passed[i])

\* The clock goes forward, so that what is stale stays stale.
RateInv ==
  /\ now \in Time /\ calls \in Seq(Time) /\ passed \in Seq(Time)
  /\ \A i, j \in 1..Len(passed) : i <= j => passed[i] <= passed[j] /\ passed[j] <= now
  /\ Len(calls) <= PerMinute
  /\ \E w \in Nat : Window(w)
  /\ RateLimitHolds

\* What a sequence is without its first k elements.
LEMMA Later ==
  ASSUME NEW s \in Seq(Time), NEW k \in 0..Len(s), NEW r, r = SubSeq(s, k + 1, Len(s))
  PROVE  /\ r \in Seq(Time) /\ Len(s) = k + Len(r)
         /\ \A i \in 1..Len(r) : r[i] = s[k + i]
<1>1. k \in Nat /\ Len(s) \in Nat /\ k <= Len(s)
  OBVIOUS
<1>2. \A i \in (k + 1)..Len(s) : s[i] \in Time
  BY <1>1
<1>3. /\ r \in Seq(Time) /\ Len(r) = IF k + 1 <= Len(s) THEN Len(s) - (k + 1) + 1 ELSE 0
      /\ \A i \in 1..(Len(s) - (k + 1) + 1) : r[i] = s[(k + 1) + i - 1]
  BY <1>1, <1>2, SubSeqProperties
<1>4. Len(s) = k + Len(r)
  BY <1>1, <1>3
<1> QED
  BY <1>1, <1>3, <1>4

\* The window without its oldest calls, once they are stale, is still one.
LEMMA WindowMoves ==
  ASSUME RateInv, NEW k \in 0..Len(calls), Pops(k),
         NEW r \in Seq(Time), Len(calls) = k + Len(r),
         \A i \in 1..Len(r) : r[i] = calls[k + i]
  PROVE  /\ Len(r) <= Len(calls)
         /\ \E w \in Nat : /\ Len(passed) = w + Len(r)
                           /\ \A i \in 1..Len(r) : r[i] = passed[w + i]
                           /\ \A i \in 1..w : Stale(passed[i])
<1>1. PICK u \in Nat : Window(u)
  BY DEF RateInv
<1>2. calls \in Seq(Time) /\ passed \in Seq(Time)
  BY DEF RateInv
<1>4. k \in Nat /\ Len(r) \in Nat /\ Len(calls) \in Nat /\ Len(passed) \in Nat
  BY <1>2
<1>5. u + k \in Nat /\ Len(passed) = (u + k) + Len(r)
  BY <1>1, <1>4 DEF Window
<1>6. \A i \in 1..Len(r) : r[i] = passed[(u + k) + i]
  <2> SUFFICES ASSUME NEW i \in 1..Len(r) PROVE r[i] = passed[(u + k) + i]
    OBVIOUS
  <2>1. i \in Nat /\ k + i \in 1..Len(calls) /\ u + (k + i) = (u + k) + i
    BY <1>4
  <2>2. r[i] = calls[k + i] /\ calls[k + i] = passed[u + (k + i)]
    BY <1>1, <2>1 DEF Window
  <2> QED
    BY <2>1, <2>2
<1>7. \A i \in 1..(u + k) : Stale(passed[i])
  <2> SUFFICES ASSUME NEW i \in 1..(u + k) PROVE Stale(passed[i])
    OBVIOUS
  <2>1. CASE i <= u
    BY <1>1, <2>1 DEF Window
  <2>2. CASE i > u
    <3>1. i - u \in 1..k /\ i - u \in 1..Len(calls) /\ u + (i - u) = i
      BY <1>4, <2>2
    <3>2. calls[i - u] = passed[i]
      BY <1>1, <3>1 DEF Window
    <3> QED
      BY <3>1, <3>2 DEF Pops
  <2> QED
    BY <1>4, <2>1, <2>2
<1>8. Len(r) <= Len(calls)
  BY <1>4
<1> QED
  BY <1>5, <1>6, <1>7, <1>8

\* One request reaches the rate limit: the window is pruned, and if it has room the request
\* is let through and counted.
LEMMA RateStep ==
  ASSUME RateInv, NEW c, CheckRate(c)
  PROVE  RateInv'
<1>1. PICK k \in 0..Len(calls) :
        LET recent == SubSeq(calls, k + 1, Len(calls)) IN
        /\ Pops(k)
        /\ IF Len(recent) >= PerMinute
           THEN calls' = recent /\ UNCHANGED passed
           ELSE calls' = Append(recent, now) /\ passed' = Append(passed, now)
  BY Zenon DEF CheckRate
<1> DEFINE r == SubSeq(calls, k + 1, Len(calls))
<1>0. /\ r \in Seq(Time) /\ Len(calls) = k + Len(r)
      /\ \A i \in 1..Len(r) : r[i] = calls[k + i]
  BY Later DEF RateInv
<1>2. /\ r \in Seq(Time) /\ Len(r) <= Len(calls)
      /\ \E w \in Nat : /\ Len(passed) = w + Len(r)
                        /\ \A i \in 1..Len(r) : r[i] = passed[w + i]
                        /\ \A i \in 1..w : Stale(passed[i])
  <2> HIDE DEF r
  <2> QED
    BY <1>0, <1>1, WindowMoves
<1>3. \/ Len(r) >= PerMinute /\ calls' = r /\ passed' = passed
      \/ ~(Len(r) >= PerMinute) /\ calls' = Append(r, now) /\ passed' = Append(passed, now)
  BY <1>1
<1> HIDE DEF r
<1>4. PICK w \in Nat : /\ Len(passed) = w + Len(r)
                       /\ \A i \in 1..Len(r) : r[i] = passed[w + i]
                       /\ \A i \in 1..w : Stale(passed[i])
  BY <1>2
<1>5. /\ now \in Time /\ now' = now /\ passed \in Seq(Time) /\ calls \in Seq(Time)
      /\ PerMinute \in Nat /\ Minute \in Nat
      /\ \A i, j \in 1..Len(passed) : i <= j => passed[i] <= passed[j] /\ passed[j] <= now
      /\ \A i, j \in 1..Len(passed) : i + PerMinute <= j => passed[j] - passed[i] > Minute
  <2>1. now' = now /\ PerMinute \in Nat /\ Minute \in Nat
    BY RiskAssumption DEF CheckRate
  <2>2. /\ now \in Time /\ passed \in Seq(Time) /\ calls \in Seq(Time)
        /\ \A i, j \in 1..Len(passed) : i <= j => passed[i] <= passed[j] /\ passed[j] <= now
    BY DEF RateInv
  <2>3. DOMAIN passed = 1..Len(passed) /\ RateLimitHolds
    BY <2>2 DEF RateInv
  <2>4. \A i, j \in 1..Len(passed) : i + PerMinute <= j => passed[j] - passed[i] > Minute
    BY <2>3 DEF RateLimitHolds
  <2> QED
    BY <2>1, <2>2, <2>4
<1>6. CASE calls' = r /\ passed' = passed
  <2>1. Window(w)'
    BY <1>4, <1>5, <1>6 DEF Window, Stale
  <2>2. Len(calls') <= PerMinute
    BY <1>2, <1>5, <1>6 DEF RateInv
  <2>3. calls' \in Seq(Time) /\ passed' \in Seq(Time) /\ RateLimitHolds'
    BY <1>2, <1>5, <1>6 DEF RateLimitHolds, RateInv
  <2> QED
    BY <1>5, <1>6, <2>1, <2>2, <2>3 DEF RateInv
<1>7. CASE ~(Len(r) >= PerMinute) /\ calls' = Append(r, now) /\ passed' = Append(passed, now)
  <2> DEFINE n == Len(passed)
  <2>1. /\ calls' \in Seq(Time) /\ Len(calls') = Len(r) + 1
        /\ \A i \in 1..Len(r) : calls'[i] = r[i]
        /\ calls'[Len(r) + 1] = now
    BY <1>2, <1>5, <1>7
  <2>2. /\ passed' \in Seq(Time) /\ Len(passed') = n + 1
        /\ \A i \in 1..n : passed'[i] = passed[i]
        /\ passed'[n + 1] = now
    BY <1>5, <1>7
  <2>3. n \in Nat /\ Len(r) \in Nat /\ n = w + Len(r) /\ w \in Nat
    <3>1. n \in Nat /\ Len(r) \in Nat
      BY <1>2, <1>5
    <3> QED
      BY <1>4, <3>1
  <2>4. Window(w)'
    <3>1. \A i \in 1..(Len(r) + 1) : calls'[i] = passed'[w + i]
      <4> SUFFICES ASSUME NEW i \in 1..(Len(r) + 1) PROVE calls'[i] = passed'[w + i]
        OBVIOUS
      <4>1. CASE i = Len(r) + 1
        BY <2>1, <2>2, <2>3, <4>1
      <4>2. CASE i # Len(r) + 1
        <5>1. i \in 1..Len(r) /\ w + i \in 1..n
          BY <2>3, <4>2
        <5> QED
          BY <1>4, <2>1, <2>2, <5>1
      <4> QED
        BY <4>1, <4>2
    <3>2. \A i \in 1..w : i \in 1..n
      BY <2>3
    <3>3. \A i \in 1..w : Stale(passed[i])'
      BY <1>4, <1>5, <2>2, <3>2 DEF Stale
    <3> QED
      BY <2>1, <2>2, <2>3, <3>1, <3>3 DEF Window
  <2>5. Len(calls') <= PerMinute
    BY <1>5, <1>7, <2>1, <2>3
  <2>6. \A i, j \in 1..Len(passed') : i <= j => passed'[i] <= passed'[j] /\ passed'[j] <= now'
    <3> SUFFICES ASSUME NEW i \in 1..(n + 1), NEW j \in 1..(n + 1), i <= j
                 PROVE  passed'[i] <= passed'[j] /\ passed'[j] <= now
      BY <1>5, <2>2
    <3>1. now \in Nat
      BY <1>5 DEF Time
    <3>2. \A l \in 1..n : passed[l] <= now
      BY <1>5
    <3>5. \A l \in 1..(n + 1) : passed'[l] <= now
      BY <2>2, <2>3, <3>1, <3>2
    <3>3. CASE j = n + 1
      BY <2>2, <3>1, <3>2, <3>3
    <3>4. CASE j # n + 1
      <4>1. i \in 1..n /\ j \in 1..n
        BY <2>3, <3>4
      <4> QED
        BY <1>5, <2>2, <3>2, <4>1
    <3> QED
      BY <3>3, <3>4
  <2>7. RateLimitHolds'
    <3> SUFFICES ASSUME NEW i \in 1..(n + 1), NEW j \in 1..(n + 1), i + PerMinute <= j
                 PROVE  passed'[j] - passed'[i] > Minute
      BY <2>2 DEF RateLimitHolds
    <3>1. CASE j = n + 1
      <4>1. i \in 1..w /\ i \in 1..n
        BY <1>5, <1>7, <2>3, <3>1
      <4> QED
        BY <1>4, <2>2, <3>1, <4>1 DEF Stale
    <3>2. CASE j # n + 1
      <4>1. i \in 1..n /\ j \in 1..n
        BY <1>5, <2>3, <3>2
      <4> QED
        BY <1>5, <2>2, <4>1
    <3> QED
      BY <3>1, <3>2
  <2> QED
    BY <1>5, <2>1, <2>2, <2>4, <2>5, <2>6, <2>7 DEF RateInv
<1> QED
  BY <1>3, <1>6, <1>7

\* Time passes: what was stale stays so.
LEMMA TickKeepsRate ==
  ASSUME RateInv, Tick
  PROVE  RateInv'
<1>1. now \in Nat /\ now < MaxTime /\ now' = now + 1 /\ UNCHANGED <<calls, passed>>
  BY DEF RateInv, Time, Tick
<1>2. now' \in Time /\ MaxTime \in Nat /\ Minute \in Nat
  BY <1>1, RiskAssumption DEF Time
<1>3. PICK w \in Nat : Window(w)
  BY DEF RateInv
<1>4. \A i \in 1..Len(passed) : passed[i] \in Nat /\ passed[i] <= now
  <2> SUFFICES ASSUME NEW i \in 1..Len(passed) PROVE passed[i] \in Nat /\ passed[i] <= now
    OBVIOUS
  <2>1. passed[i] \in Time /\ i <= i
    BY DEF RateInv
  <2> QED
    BY <2>1 DEF RateInv, Time
<1>5. Window(w)'
  <2>1. \A i \in 1..w : i \in 1..Len(passed)
    BY <1>3 DEF Window, RateInv
  <2>2. \A i \in 1..w : Stale(passed[i])'
    BY <1>1, <1>2, <1>3, <1>4, <2>1 DEF Window, Stale
  <2> QED
    BY <1>1, <1>3, <2>2 DEF Window
<1>6. \A i, j \in 1..Len(passed) : i <= j => passed[i] <= passed[j] /\ passed[j] <= now'
  BY <1>1, <1>4 DEF RateInv
<1> QED
  BY <1>1, <1>2, <1>5, <1>6 DEF RateInv, RateLimitHolds

\* A process that starts knows no call and has let nothing pass.
LEMMA FreshRate ==
  ASSUME now' \in Time, calls' = <<>>, passed' = <<>>
  PROVE  RateInv'
<1>1. Window(0)'
  BY DEF Window
<1> QED
  BY <1>1, RiskAssumption DEF RateInv, RateLimitHolds

\* No other step knows the window.
LEMMA RateKept ==
  ASSUME RateInv, UNCHANGED <<now, calls, passed>>
  PROVE  RateInv'
BY DEF RateInv, RateLimitHolds, Window, Stale

LEMMA RateSteps == RateInv /\ [Next]_vars => RateInv'
<1> SUFFICES ASSUME RateInv, [Next]_vars PROVE RateInv'
  OBVIOUS
<1>1. CASE \E c \in Clients : CheckRate(c)
  BY <1>1, RateStep
<1>2. CASE Tick
  BY <1>2, TickKeepsRate
<1>3. CASE Restart
  BY <1>3, FreshRate DEF Restart, RateInv
<1>4. CASE ~Tick /\ ~Restart /\ ~(\E c \in Clients : CheckRate(c))
  <2>1. UNCHANGED <<now, calls, passed>>
    BY <1>4 DEF Next, Ask, CheckDaily, CheckActive, CheckSell, AddRow, Send, Fill, Cancel,
                End, Activate, TaskSees, TaskActs, NewDay, vars
  <2> QED
    BY <2>1, RateKept
<1> QED
  BY <1>1, <1>2, <1>3, <1>4

LEMMA RateStart == Init => RateInv
<1> SUFFICES ASSUME Init PROVE RateInv
  OBVIOUS
<1>1. now \in Time /\ calls = <<>> /\ passed = <<>>
  BY RiskAssumption DEF Init, Time
<1>2. Window(0)
  BY <1>1 DEF Window
<1> QED
  BY <1>1, <1>2, RiskAssumption DEF RateInv, RateLimitHolds

\* What is not in the other parts of the invariant.
ClockType == alarm \in BOOLEAN /\ starts \in 0..MaxStarts /\ bought \in Nat

LEMMA ClockStart == Init => ClockType
<1>1. Init => alarm \in BOOLEAN
  BY Zenon DEF Init
<1>2. Init => starts \in 0..MaxStarts /\ bought \in Nat
  BY RiskAssumption DEF Init
<1> QED
  BY <1>1, <1>2 DEF ClockType

LEMMA ClockSteps == GateInv /\ ClockType /\ [Next]_vars => ClockType'
<1> SUFFICES ASSUME GateInv, ClockType, [Next]_vars PROVE ClockType'
  OBVIOUS
<1>1. ASSUME NEW i \in Active, NEW n \in 1..orders[i].left, Fill(i, n) PROVE ClockType'
  <2>1. orders[i].left \in Nat
    BY DEF GateInv, GateType, Active, Order
  <2>2. n \in Nat
    BY <2>1
  <2> QED
    BY <1>1, <2>2 DEF Fill, ClockType
<1>2. CASE TaskSees \/ TaskActs \/ NewDay \/ Restart
  <2>1. alarm' \in BOOLEAN
    BY <1>2, Zenon DEF TaskSees, TaskActs, NewDay, Restart, ClockType
  <2>2. starts' \in 0..MaxStarts /\ bought' \in Nat
    BY <1>2, RiskAssumption DEF TaskSees, TaskActs, NewDay, Restart, ClockType
  <2> QED
    BY <2>1, <2>2 DEF ClockType
<1>3. CASE /\ ~(\E i \in Active : \E n \in 1..orders[i].left : Fill(i, n))
           /\ ~(TaskSees \/ TaskActs \/ NewDay \/ Restart)
  <2>1. UNCHANGED <<alarm, starts, bought>>
    BY <1>3 DEF Next, Ask, CheckDaily, CheckRate, CheckActive, CheckSell, AddRow, Send,
                Cancel, End, Activate, Tick, vars
  <2> QED
    BY <2>1 DEF ClockType
<1> QED
  BY <1>1, <1>2, <1>3

-----------------------------------------------------------------------------
(* The daily limit. *)

\* What an active order, and a request past the daily limit, may still buy.
Buys(row) == IF row # NoRow /\ row.side = "buy" THEN row.left ELSE 0
Wants(request) == IF request.at \in {"rate", "active", "sell", "add"} /\ request.side = "buy"
                  THEN request.value ELSE 0

LeftToBuy(rows)  == [i \in {j \in Rows : rows[j] # NoRow} |-> Buys(rows[i])]
AskedToBuy(asks) == [c \in Clients |-> Wants(asks[c])]

MostBought == MaxDailyBuy + (MaxActive + 2 * Cardinality(Clients) - 2) * MaxOrderValue

\* The limit holds for what was bought and all that may still be bought of what was let
\* through; that is bounded, because no order or request is above the limit of one order.
DailyInv ==
  ~AllowMarket =>
    /\ \A i \in Rows : orders[i] # NoRow => orders[i].left <= MaxOrderValue
    /\ \A c \in Clients : ask[c] # Idle => ask[c].value <= MaxOrderValue
    /\ bought + Total(LeftToBuy(orders)) + Total(AskedToBuy(ask)) <= MostBought

\* Rows as they may be: finitely many are active.
SomeRows(rows) == /\ rows \in [Rows -> {NoRow} \cup Order]
                  /\ IsFiniteSet({j \in Rows : rows[j] # NoRow})
SomeAsks(asks) == asks \in [Clients -> {Idle} \cup Request]

LEMMA Parts ==
  /\ \A row \in {NoRow} \cup Order : Buys(row) \in Nat
  /\ \A request \in {Idle} \cup Request : Wants(request) \in Nat
  /\ Buys(NoRow) = 0 /\ Wants(Idle) = 0
BY Fields DEF Buys, Wants, Order, Request, Idle

LEMMA RowAmounts ==
  ASSUME NEW rows, SomeRows(rows)
  PROVE  /\ Amounts(LeftToBuy(rows))
         /\ \A j : Of(LeftToBuy(rows), j) = IF j \in Rows THEN Buys(rows[j]) ELSE 0
<1>1. DOMAIN LeftToBuy(rows) = {j \in Rows : rows[j] # NoRow}
  BY DEF LeftToBuy
<1>2. \A j \in Rows : Buys(rows[j]) \in Nat /\ (rows[j] = NoRow => Buys(rows[j]) = 0)
  BY Parts DEF SomeRows
<1> QED
  BY <1>1, <1>2 DEF SomeRows, Amounts, Of, LeftToBuy

LEMMA AskAmounts ==
  ASSUME NEW asks, SomeAsks(asks)
  PROVE  /\ Amounts(AskedToBuy(asks))
         /\ \A d : Of(AskedToBuy(asks), d) = IF d \in Clients THEN Wants(asks[d]) ELSE 0
<1>1. \A d \in Clients : Wants(asks[d]) \in Nat
  BY Parts DEF SomeAsks
<1> QED
  BY <1>1, RiskAssumption DEF Amounts, Of, AskedToBuy

\* Rows that have no more left to buy one by one have no more together.
LEMMA RowsFall ==
  ASSUME NEW rows, NEW rows2, SomeRows(rows), SomeRows(rows2),
         \A j \in Rows : Buys(rows2[j]) <= Buys(rows[j])
  PROVE  /\ Total(LeftToBuy(rows)) \in Nat /\ Total(LeftToBuy(rows2)) \in Nat
         /\ Total(LeftToBuy(rows2)) <= Total(LeftToBuy(rows))
<1>1. \A j : Of(LeftToBuy(rows2), j) <= Of(LeftToBuy(rows), j)
  BY RowAmounts
<1> QED
  BY <1>1, RowAmounts, TotalLeq

LEMMA AsksFall ==
  ASSUME NEW asks, NEW asks2, SomeAsks(asks), SomeAsks(asks2),
         \A d \in Clients : Wants(asks2[d]) <= Wants(asks[d])
  PROVE  /\ Total(AskedToBuy(asks)) \in Nat /\ Total(AskedToBuy(asks2)) \in Nat
         /\ Total(AskedToBuy(asks2)) <= Total(AskedToBuy(asks))
<1>1. \A d : Of(AskedToBuy(asks2), d) <= Of(AskedToBuy(asks), d)
  BY AskAmounts
<1> QED
  BY <1>1, AskAmounts, TotalLeq

\* One row, or one request, that changes moves the total by what it changes.
LEMMA RowMoves ==
  ASSUME NEW rows, NEW rows2, SomeRows(rows), SomeRows(rows2), NEW i \in Rows,
         \A j \in Rows : j # i => rows2[j] = rows[j]
  PROVE  /\ Total(LeftToBuy(rows)) \in Nat /\ Total(LeftToBuy(rows2)) \in Nat
         /\ Total(LeftToBuy(rows2)) + Buys(rows[i]) = Total(LeftToBuy(rows)) + Buys(rows2[i])
<1>1. \A j : j # i => Of(LeftToBuy(rows), j) = Of(LeftToBuy(rows2), j)
  BY RowAmounts
<1>2. /\ Of(LeftToBuy(rows), i) = Buys(rows[i])
      /\ Of(LeftToBuy(rows2), i) = Buys(rows2[i])
  BY RowAmounts
<1> QED
  BY <1>1, <1>2, RowAmounts, TotalChange

LEMMA AskMoves ==
  ASSUME NEW asks, NEW asks2, SomeAsks(asks), SomeAsks(asks2), NEW c \in Clients,
         \A d \in Clients : d # c => asks2[d] = asks[d]
  PROVE  /\ Total(AskedToBuy(asks)) \in Nat /\ Total(AskedToBuy(asks2)) \in Nat
         /\ Total(AskedToBuy(asks2)) + Wants(asks[c])
              = Total(AskedToBuy(asks)) + Wants(asks2[c])
<1>1. \A d : d # c => Of(AskedToBuy(asks), d) = Of(AskedToBuy(asks2), d)
  BY AskAmounts
<1>2. /\ Of(AskedToBuy(asks), c) = Wants(asks[c])
      /\ Of(AskedToBuy(asks2), c) = Wants(asks2[c])
  BY AskAmounts
<1> QED
  BY <1>1, <1>2, AskAmounts, TotalChange

\* What the invariant of the gate says of them, before and after a step.
LEMMA SomeNow ==
  ASSUME GateInv
  PROVE  SomeRows(orders) /\ SomeAsks(ask)
BY DEF GateInv, GateType, ActiveInv, Active, SomeRows, SomeAsks

\* A step after which no order, request or day has bought more or may buy more.
LEMMA NoneRises ==
  ASSUME GateInv, GateInv', DailyInv, bought \in Nat, bought' \in Nat, bought' <= bought,
         \A i \in Rows : orders'[i] # NoRow => /\ orders[i] # NoRow
                                               /\ orders'[i].left <= orders[i].left,
         \A i \in Rows : Buys(orders'[i]) <= Buys(orders[i]),
         \A c \in Clients : ask'[c] # Idle => ask'[c].value <= MaxOrderValue \/ AllowMarket,
         \A c \in Clients : Wants(ask'[c]) <= Wants(ask[c])
  PROVE  DailyInv'
<1> SUFFICES ASSUME ~AllowMarket PROVE DailyInv'
  BY DEF DailyInv
<1>1. SomeRows(orders) /\ SomeAsks(ask) /\ SomeRows(orders') /\ SomeAsks(ask')
  BY SomeNow DEF GateInv, GateType, ActiveInv, Active, SomeRows, SomeAsks
<1>2. /\ Total(LeftToBuy(orders)) \in Nat /\ Total(LeftToBuy(orders')) \in Nat
      /\ Total(LeftToBuy(orders')) <= Total(LeftToBuy(orders))
  BY <1>1, RowsFall
<1>3. /\ Total(AskedToBuy(ask)) \in Nat /\ Total(AskedToBuy(ask')) \in Nat
      /\ Total(AskedToBuy(ask')) <= Total(AskedToBuy(ask))
  BY <1>1, AsksFall
<1>4. /\ MostBought \in Int /\ MaxOrderValue \in Nat
  BY Callers, RiskAssumption DEF MostBought
<1>5. bought' + Total(LeftToBuy(orders')) + Total(AskedToBuy(ask')) <= MostBought
  BY <1>2, <1>3, <1>4 DEF DailyInv
<1>6. \A i \in Rows : orders'[i] # NoRow => orders'[i].left <= MaxOrderValue
  BY <1>1, <1>4 DEF DailyInv, SomeRows, Order
<1>7. MostBought' = MostBought
  BY DEF MostBought
<1> QED
  BY <1>5, <1>6, <1>7 DEF DailyInv

\* One request changes, and may buy no more than it could.
LEMMA OneAskFalls ==
  ASSUME GateInv, GateInv', DailyInv, bought \in Nat, UNCHANGED <<orders, bought>>,
         NEW c \in Clients, \A d \in Clients : d # c => ask'[d] = ask[d],
         ask'[c] # Idle => ask'[c].value <= MaxOrderValue \/ AllowMarket,
         Wants(ask'[c]) <= Wants(ask[c])
  PROVE  DailyInv'
<1>1. SomeRows(orders) /\ SomeAsks(ask)
  BY SomeNow
<1>2. /\ \A i \in Rows : orders[i] # NoRow => orders[i].left \in Nat
      /\ \A i \in Rows : Buys(orders[i]) \in Nat
      /\ \A d \in Clients : Wants(ask[d]) \in Nat
  BY <1>1, Parts DEF SomeRows, SomeAsks, Order
<1>3. \A d \in Clients : ask'[d] # Idle => ask'[d].value <= MaxOrderValue \/ AllowMarket
  BY DEF DailyInv
<1>4. \A d \in Clients : Wants(ask'[d]) <= Wants(ask[d])
  BY <1>2
<1> QED
  BY <1>2, <1>3, <1>4, NoneRises

\* A request that is asked, checked further or refused may buy what it could, or nothing:
\* only the check of the daily limit lets it buy.
LEMMA AskingBuysNoMore ==
  ASSUME GateInv, GateInv', DailyInv, bought \in Nat, NEW c \in Clients,
         \/ \E side \in {"buy", "sell"}, market \in BOOLEAN, value \in Sizes :
              Ask(c, side, market, value)
         \/ CheckRate(c) \/ CheckActive(c) \/ CheckSell(c)
  PROVE  DailyInv'
<1>0. GateType /\ UNCHANGED <<orders, bought>>
  BY DEF GateInv, Ask, CheckRate, CheckActive, CheckSell
<1>1. Wants(ask[c]) \in Nat
  BY SomeNow, Parts DEF SomeAsks
<1>2. ASSUME NEW side \in {"buy", "sell"}, NEW market \in BOOLEAN, NEW value \in Sizes,
             Ask(c, side, market, value)
      PROVE  DailyInv'
  <2> SUFFICES ASSUME ~AllowMarket PROVE DailyInv'
    BY DEF DailyInv
  <2> DEFINE s == IF side = "buy" /\ ~market THEN "daily" ELSE "rate"
             r == [at |-> s, side |-> side, market |-> market, value |-> value]
  <2>1. ask' = [ask EXCEPT ![c] = r] /\ ~market /\ value <= MaxOrderValue
    BY <1>2 DEF Ask
  <2>2. r.value = value /\ Wants(r) = 0
    BY <2>1 DEF Wants
  <2> HIDE DEF r
  <2>3. ask'[c] = r /\ \A d \in Clients : d # c => ask'[d] = ask[d]
    BY <1>0, <2>1 DEF GateType
  <2> QED
    BY <1>0, <1>1, <2>1, <2>2, <2>3, OneAskFalls
<1>3. ASSUME CheckRate(c) \/ CheckActive(c) \/ CheckSell(c) PROVE DailyInv'
  <2>1. ask[c].at \in {"rate", "active", "sell"}
    BY <1>3 DEF CheckRate, CheckActive, CheckSell
  <2>2. PICK s \in {"active", "sell", "add"} : Goes(c, s) \/ Refused(c)
    BY <1>3 DEF CheckRate, CheckActive, CheckSell
  <2>3. /\ \A d \in Clients : d # c => ask'[d] = ask[d]
        /\ \/ ask'[c] = Idle
           \/ ask'[c].at = s /\ ask'[c].side = ask[c].side /\ ask'[c].value = ask[c].value
    BY <1>0, <2>1, <2>2, AskMove DEF Steps
  <2>4. ask[c] # Idle
    BY <2>1, Fields
  <2>5. ask'[c] # Idle => ask'[c].value <= MaxOrderValue \/ AllowMarket
    BY <2>3, <2>4 DEF DailyInv
  <2>6. Wants(ask'[c]) <= Wants(ask[c])
    <3>1. CASE ask'[c] = Idle
      BY <1>1, <3>1, Parts
    <3>2. CASE ask'[c] # Idle
      <4>1. Wants(ask'[c]) = Wants(ask[c])
        BY <2>1, <2>3, <3>2 DEF Wants
      <4> QED
        BY <1>1, <4>1
    <3> QED
      BY <3>1, <3>2
  <2> QED
    BY <1>0, <2>3, <2>5, <2>6, OneAskFalls
<1> QED
  BY <1>2, <1>3

\* The check of the daily limit looks at what was bought: the rest is bounded by the number
\* of orders and of other requests there may be.
LEMMA CheckDailyBuys ==
  ASSUME GateInv, GateInv', DailyInv, bought \in Nat, NEW c \in Clients, CheckDaily(c)
  PROVE  DailyInv'
<1>0. /\ GateType /\ UNCHANGED <<orders, bought>> /\ ask[c].at = "daily"
      /\ Refused(c) \/ (Goes(c, "rate") /\ ~(bought + ask[c].value > MaxDailyBuy))
  BY DEF GateInv, CheckDaily
<1>1. /\ ask' \in [Clients -> {Idle} \cup Request]
      /\ \A d \in Clients : d # c => ask'[d] = ask[d]
      /\ \/ ask'[c] = Idle
         \/ ask'[c].at = "rate" /\ ask'[c].side = ask[c].side /\ ask'[c].value = ask[c].value
  BY <1>0, AskMove DEF Steps
<1>2. /\ SomeRows(orders) /\ SomeAsks(ask) /\ SomeAsks(ask')
      /\ Wants(ask[c]) = 0 /\ ask[c] # Idle /\ ask[c].value \in Nat
  BY <1>0, <1>1, SomeNow, Waiting, Fields DEF Wants, SomeAsks
<1>3. ask'[c] # Idle => ask'[c].value <= MaxOrderValue \/ AllowMarket
  BY <1>1, <1>2 DEF DailyInv
<1>4. CASE Wants(ask'[c]) = 0
  BY <1>0, <1>1, <1>2, <1>3, <1>4, OneAskFalls
<1>5. CASE Wants(ask'[c]) # 0
  <2> SUFFICES ASSUME ~AllowMarket PROVE DailyInv'
    BY DEF DailyInv
  <2> DEFINE A == Total(AskedToBuy(ask))
             B == Total(AskedToBuy(ask'))
             L == Total(LeftToBuy(orders))
             n == Cardinality(Clients)
             M == MaxOrderValue
  <2>1. Wants(ask'[c]) = ask[c].value /\ bought + ask[c].value <= MaxDailyBuy
    <3>1. ask'[c] # Idle
      BY <1>5, Parts
    <3>2. ~Refused(c)
      BY <1>0, <3>1 DEF Refused, GateType
    <3>3. Wants(ask'[c]) = ask[c].value
      BY <1>1, <1>5, <3>1 DEF Wants
    <3>4. bought + ask[c].value \in Int /\ MaxDailyBuy \in Int
      BY <1>2, RiskAssumption
    <3> QED
      BY <1>0, <3>2, <3>3, <3>4
  <2>2. B \in Nat /\ A \in Nat /\ B = A + ask[c].value
    BY <1>1, <1>2, <2>1, AskMoves
  <2>3. M \in Nat /\ n \in Nat /\ n >= 1 /\ MaxActive \in Nat /\ MaxDailyBuy \in Nat
    <3>1. n # 0
      BY RiskAssumption, FS_EmptySet
    <3> QED
      BY <3>1, Callers, RiskAssumption
  <2>4. A <= (n - 1) * M
    <3>1. IsFiniteSet(Clients \ {c}) /\ Cardinality(Clients \ {c}) = n - 1
      BY RiskAssumption, FS_RemoveElement
    <3>2. \A d \in DOMAIN AskedToBuy(ask) : /\ AskedToBuy(ask)[d] <= M
                                            /\ AskedToBuy(ask)[d] # 0 => d \in Clients \ {c}
      <4> SUFFICES ASSUME NEW d \in Clients
                   PROVE  Wants(ask[d]) <= M /\ (Wants(ask[d]) # 0 => d # c)
        BY DEF AskedToBuy
      <4>1. Wants(ask[d]) = 0 \/ (Wants(ask[d]) = ask[d].value /\ ask[d] # Idle)
        BY Parts DEF Wants
      <4> QED
        BY <1>2, <2>3, <4>1 DEF DailyInv
    <3>3. n - 1 \in Nat /\ Cardinality(Clients \ {c}) <= n - 1
      BY <2>3, <3>1
    <3> QED
      BY <1>2, <2>3, <3>1, <3>2, <3>3, AskAmounts, TotalBound
  <2>5. L <= (MaxActive - 1 + n) * M /\ L \in Nat /\ MaxActive - 1 + n \in Nat
    <3>1. /\ IsFiniteSet(Active) /\ Cardinality(Active) \in Nat
          /\ Cardinality(Active) <= MaxActive - 1 + n /\ MaxActive - 1 + n \in Nat
      <4>1. IsFiniteSet(Active) /\ Cardinality(Active) \in Nat
        BY FS_CardinalityType DEF GateInv, ActiveInv
      <4>2. Cardinality(InFlight) \in Nat
        BY Callers DEF InFlight
      <4> QED
        BY <2>3, <4>1, <4>2 DEF GateInv, ActiveInv, ActiveBounded
    <3>2. \A i \in DOMAIN LeftToBuy(orders) : /\ LeftToBuy(orders)[i] <= M
                                              /\ LeftToBuy(orders)[i] # 0 => i \in Active
      <4> SUFFICES ASSUME NEW i \in Rows, orders[i] # NoRow
                   PROVE  Buys(orders[i]) <= M
        BY DEF LeftToBuy, Active
      <4>1. Buys(orders[i]) = 0 \/ Buys(orders[i]) = orders[i].left
        BY DEF Buys
      <4> QED
        BY <2>3, <4>1 DEF DailyInv
    <3>3. L \in Nat
      BY <1>2, RowsFall, Parts DEF SomeRows
    <3> QED
      BY <1>2, <2>3, <3>1, <3>2, <3>3, RowAmounts, TotalBound
  <2>6. (n - 1) * M + (MaxActive - 1 + n) * M = (MaxActive + 2 * n - 2) * M
    BY <2>3
  <2>7. (n - 1) * M \in Int /\ (MaxActive - 1 + n) * M \in Int
        /\ (MaxActive + 2 * n - 2) * M \in Int
    BY <2>3
  <2>8. bought + L + B <= MaxDailyBuy + (MaxActive + 2 * n - 2) * M
    <3> HIDE DEF A, B, L
    <3> QED
      BY <1>2, <2>1, <2>2, <2>3, <2>4, <2>5, <2>6, <2>7
  <2>9. \A d \in Clients : ask'[d] # Idle => ask'[d].value <= MaxOrderValue
    BY <1>1, <1>3 DEF DailyInv
  <2> QED
    BY <1>0, <2>8, <2>9 DEF DailyInv, MostBought
<1> QED
  BY <1>4, <1>5

\* The order's row may buy what the request might have bought.
LEMMA AddBuysTheSame ==
  ASSUME GateInv, GateInv', DailyInv, bought \in Nat, NEW c \in Clients, AddRow(c)
  PROVE  DailyInv'
<1> SUFFICES ASSUME ~AllowMarket PROVE DailyInv'
  BY DEF DailyInv
<1>0. /\ GateType /\ UNCHANGED bought /\ ask[c].at = "add" /\ Goes(c, "send")
  BY DEF GateInv, AddRow
<1>1. /\ \A d \in Clients : d # c => ask'[d] = ask[d]
      /\ \/ ask'[c] = Idle
         \/ ask'[c].at = "send" /\ ask'[c].value = ask[c].value
  BY <1>0, AskMove DEF Steps
<1>2. /\ SomeRows(orders) /\ SomeAsks(ask) /\ SomeRows(orders') /\ SomeAsks(ask')
      /\ ask[c] # Idle /\ ask[c].value \in Nat /\ ask[c].side \in {"buy", "sell"}
  BY <1>0, SomeNow, Waiting, Fields
     DEF GateInv, GateType, ActiveInv, Active, SomeRows, SomeAsks
<1> DEFINE r == [side |-> ask[c].side, left |-> ask[c].value, by |-> c, status |-> "new"]
<1>3. r \in Order /\ r.side = ask[c].side /\ r.left = ask[c].value
  BY <1>2 DEF Order
<1>4. PICK i \in Rows \ Active : orders' = [orders EXCEPT ![i] = r]
  BY DEF AddRow
<1> HIDE DEF r
<1>5. /\ orders'[i] = r /\ orders[i] = NoRow
      /\ \A j \in Rows : j # i => orders'[j] = orders[j]
  BY <1>2, <1>4 DEF SomeRows, Active
<1>6. Wants(ask'[c]) = 0 /\ Buys(r) = Wants(ask[c]) /\ Wants(ask[c]) \in Nat
  BY <1>0, <1>1, <1>2, <1>3, Fields, Parts DEF Wants, Buys
<1>7. /\ Total(LeftToBuy(orders)) \in Nat /\ Total(LeftToBuy(orders')) \in Nat
      /\ Total(LeftToBuy(orders')) = Total(LeftToBuy(orders)) + Buys(r)
  BY <1>2, <1>3, <1>5, <1>6, RowMoves, Parts
<1>8. /\ Total(AskedToBuy(ask)) \in Nat /\ Total(AskedToBuy(ask')) \in Nat
      /\ Total(AskedToBuy(ask')) + Wants(ask[c]) = Total(AskedToBuy(ask))
  BY <1>1, <1>2, <1>6, AskMoves
<1>9. bought + Total(LeftToBuy(orders')) + Total(AskedToBuy(ask')) <= MostBought
  <2>1. MostBought \in Int
    BY Callers, RiskAssumption DEF MostBought
  <2> QED
    BY <1>6, <1>7, <1>8, <2>1 DEF DailyInv
<1>10. /\ \A j \in Rows : orders'[j] # NoRow => orders'[j].left <= MaxOrderValue
       /\ \A d \in Clients : ask'[d] # Idle => ask'[d].value <= MaxOrderValue
  BY <1>1, <1>2, <1>3, <1>5 DEF DailyInv
<1>11. MostBought' = MostBought
  BY DEF MostBought
<1> QED
  BY <1>0, <1>9, <1>10, <1>11 DEF DailyInv

\* A fill of a buy is bought, and no longer left to buy.
LEMMA FillBuysTheSame ==
  ASSUME GateInv, GateInv', DailyInv, bought \in Nat,
         NEW i \in Active, NEW n \in 1..orders[i].left, Fill(i, n)
  PROVE  DailyInv'
<1> SUFFICES ASSUME ~AllowMarket PROVE DailyInv'
  BY DEF DailyInv
<1>1. /\ SomeRows(orders) /\ SomeAsks(ask) /\ SomeRows(orders') /\ UNCHANGED ask
      /\ i \in Rows /\ orders[i] \in Order /\ orders[i].left \in Nat
  BY SomeNow DEF GateInv, GateType, ActiveInv, Active, SomeRows, SomeAsks, Order, Fill
<1>2. n \in Nat /\ orders[i].left - n \in Nat
  BY <1>1
<1> DEFINE q == [orders[i] EXCEPT !.left = orders[i].left - n]
           o == IF n = orders[i].left /\ orders[i].status = "sent" THEN NoRow ELSE q
<1>3. q \in Order /\ q.side = orders[i].side /\ q.left = orders[i].left - n
  BY <1>1, <1>2, Fields
<1>4. orders' = [orders EXCEPT ![i] = o]
  BY Zenon DEF Fill
<1> HIDE DEF q
<1>5. /\ o = q \/ (o = NoRow /\ n = orders[i].left)
      /\ o \in {NoRow} \cup Order
  BY <1>3
<1> HIDE DEF o
<1>6. orders'[i] = o /\ \A j \in Rows : j # i => orders'[j] = orders[j]
  BY <1>1, <1>4 DEF SomeRows
<1> DEFINE gain == IF orders[i].side = "buy" THEN n ELSE 0
<1>7. bought' = bought + gain /\ gain \in Nat
  BY <1>2 DEF Fill
<1>8. Buys(orders[i]) \in Nat /\ Buys(o) \in Nat /\ Buys(orders[i]) = Buys(o) + gain
  BY <1>1, <1>2, <1>3, <1>5, Fields, Parts DEF Buys
<1> HIDE DEF gain
<1>9. /\ Total(LeftToBuy(orders)) \in Nat /\ Total(LeftToBuy(orders')) \in Nat
      /\ Total(LeftToBuy(orders')) + gain = Total(LeftToBuy(orders))
  BY <1>1, <1>6, <1>7, <1>8, RowMoves
<1>10. bought' + Total(LeftToBuy(orders')) + Total(AskedToBuy(ask')) <= MostBought
  <2>1. MostBought \in Int /\ Total(AskedToBuy(ask)) \in Nat
    BY <1>1, AsksFall, Callers, RiskAssumption, Parts DEF MostBought, SomeAsks
  <2> QED
    BY <1>1, <1>7, <1>9, <2>1 DEF DailyInv
<1>11. /\ \A j \in Rows : orders'[j] # NoRow => orders'[j].left <= MaxOrderValue
       /\ \A d \in Clients : ask'[d] # Idle => ask'[d].value <= MaxOrderValue
  <2>1. o # NoRow => o.left <= MaxOrderValue
    BY <1>1, <1>2, <1>3, <1>5, RiskAssumption, Fields DEF DailyInv
  <2> QED
    BY <1>1, <1>6, <2>1 DEF DailyInv
<1>12. MostBought' = MostBought
  BY DEF MostBought
<1> QED
  BY <1>10, <1>11, <1>12 DEF DailyInv

\* The broker's answer, a cancel and the end of an order let nothing more be bought.
LEMMA OrdersBuyNoMore ==
  ASSUME GateInv, GateInv', DailyInv, bought \in Nat,
         \/ \E c \in Clients, accepted \in BOOLEAN : Send(c, accepted)
         \/ \E i \in Active : Cancel(i) \/ End(i)
  PROVE  DailyInv'
<1>1. /\ SomeRows(orders) /\ SomeAsks(ask) /\ UNCHANGED bought
      /\ \A c \in Clients : ask'[c] = ask[c] \/ (ask[c].at = "send" /\ ask'[c] = Idle)
  BY SomeNow DEF Send, Cancel, End, SomeAsks
<1>t. \A i \in Active : i \in Rows /\ orders[i] \in Order
  BY <1>1 DEF SomeRows, Active
<1> DEFINE To(i, o) == orders' = [orders EXCEPT ![i] = o]
           Moved(i)  == \E s \in {"sent", "cancelling"} : To(i, [orders[i] EXCEPT !.status = s])
<1>2. PICK i \in Active : To(i, NoRow) \/ Moved(i)
  <2>1. ASSUME NEW c \in Clients, NEW accepted \in BOOLEAN, Send(c, accepted)
        PROVE  \E i \in Active : To(i, NoRow) \/ Moved(i)
    <3>1. PICK i \in Active :
            orders' = [orders EXCEPT ![i] = IF accepted THEN [@ EXCEPT !.status = "sent"]
                                            ELSE NoRow]
      BY <2>1 DEF Send
    <3>2. orders' = [orders EXCEPT ![i] = IF accepted THEN [orders[i] EXCEPT !.status = "sent"]
                                          ELSE NoRow]
      BY <1>1, <1>t, <3>1 DEF SomeRows
    <3> QED
      BY <3>2, Zenon
  <2>2. ASSUME NEW i \in Active, Cancel(i) \/ End(i) PROVE To(i, NoRow) \/ Moved(i)
    <3>1. \/ orders' = [orders EXCEPT ![i] = NoRow]
          \/ orders' = [orders EXCEPT ![i] = [orders[i] EXCEPT !.status = "cancelling"]]
      BY <1>1, <1>t, <2>2 DEF SomeRows, Cancel, End
    <3> QED
      BY <3>1, Zenon
  <2> QED
    BY <2>1, <2>2
<1>3. PICK o \in Order \cup {NoRow} :
        /\ To(i, o)
        /\ o # NoRow => o.side = orders[i].side /\ o.left = orders[i].left
  <2>1. CASE To(i, NoRow)
    BY <2>1
  <2>2. ASSUME NEW s \in {"sent", "cancelling"}, To(i, [orders[i] EXCEPT !.status = s])
        PROVE  \E o \in Order \cup {NoRow} :
                 /\ To(i, o)
                 /\ o # NoRow => o.side = orders[i].side /\ o.left = orders[i].left
    <3> DEFINE q == [orders[i] EXCEPT !.status = s]
    <3>1. q \in Order /\ q.side = orders[i].side /\ q.left = orders[i].left
      BY <1>t, Fields
    <3>2. To(i, q)
      BY <2>2
    <3> HIDE DEF q
    <3> QED
      BY <3>1, <3>2
  <2> QED
    BY <1>2, <2>1, <2>2
<1>4. /\ orders'[i] = o /\ \A j \in Rows : j # i => orders'[j] = orders[j]
      /\ i \in Rows /\ orders[i] \in Order /\ orders[i] # NoRow
  BY <1>1, <1>t, <1>3, Fields DEF SomeRows
<1>5. \A j \in Rows : orders[j] # NoRow => orders[j].left \in Nat
  BY <1>1 DEF SomeRows, Order
<1>6. Buys(o) <= Buys(orders[i])
  <2>1. Buys(orders[i]) \in Nat /\ Buys(NoRow) = 0
    BY <1>4, Parts
  <2>2. o = NoRow \/ Buys(o) = Buys(orders[i])
    BY <1>3, <1>4 DEF Buys
  <2> QED
    BY <2>1, <2>2
<1>7. \A j \in Rows : Buys(orders'[j]) <= Buys(orders[j])
  <2>1. \A j \in Rows : Buys(orders[j]) \in Nat
    BY <1>1, Parts DEF SomeRows
  <2> QED
    BY <1>4, <1>6, <2>1
<1>8. \A j \in Rows : orders'[j] # NoRow => /\ orders[j] # NoRow
                                            /\ orders'[j].left <= orders[j].left
  BY <1>3, <1>4, <1>5
<1>9. \A c \in Clients : ask'[c] # Idle => ask'[c].value <= MaxOrderValue \/ AllowMarket
  BY <1>1 DEF DailyInv
<1>10. \A c \in Clients : Wants(ask'[c]) <= Wants(ask[c])
  <2>1. \A c \in Clients : Wants(ask[c]) \in Nat
    BY <1>1, Parts DEF SomeAsks
  <2> QED
    BY <1>1, <2>1, Parts
<1> QED
  BY <1>1, <1>7, <1>8, <1>9, <1>10, NoneRises

\* The switch, time and restarts: what was asked is forgotten, and midnight counts from zero.
LEMMA OthersBuyNoMore ==
  ASSUME GateInv, GateInv', DailyInv, bought \in Nat,
         \/ \E l \in Switched : Activate(l)
         \/ TaskSees \/ TaskActs \/ Tick \/ NewDay \/ Restart
         \/ UNCHANGED vars
  PROVE  DailyInv'
<1>1. SomeRows(orders) /\ SomeAsks(ask)
  BY SomeNow
<1>2. bought' \in Nat /\ bought' <= bought
  BY DEF Activate, TaskSees, TaskActs, Tick, NewDay, Restart, vars
<1>3. \A c \in Clients : ask'[c] = ask[c] \/ ask'[c] = Idle
  <2>1. UNCHANGED ask \/ ask' = [c \in Clients |-> Idle]
    BY DEF Activate, TaskSees, TaskActs, Tick, NewDay, Restart, vars
  <2> QED
    BY <2>1
<1>4. \A i \in Rows : /\ orders'[i] = NoRow <=> orders[i] = NoRow
                      /\ orders[i] # NoRow => orders'[i].side = orders[i].side
                                              /\ orders'[i].left = orders[i].left
  <2>1. CASE Restart
    <3> SUFFICES ASSUME NEW i \in Rows
                 PROVE  /\ orders'[i] = NoRow <=> orders[i] = NoRow
                        /\ orders[i] # NoRow => orders'[i].side = orders[i].side
                                                /\ orders'[i].left = orders[i].left
      OBVIOUS
    <3>1. orders'[i] = IF orders[i].status = "new"
                       THEN [orders[i] EXCEPT !.status = "sent"] ELSE orders[i]
      BY <2>1 DEF Restart
    <3>2. CASE orders[i] = NoRow
      BY <3>1, <3>2, Fields
    <3>3. CASE orders[i] # NoRow
      <4>1. orders[i] \in Order
        BY <1>1, <3>3 DEF SomeRows
      <4> DEFINE q == [orders[i] EXCEPT !.status = "sent"]
      <4>2. q \in Order /\ q.side = orders[i].side /\ q.left = orders[i].left
        BY <4>1, Fields
      <4>3. orders'[i] = q \/ orders'[i] = orders[i]
        BY <3>1
      <4> HIDE DEF q
      <4> QED
        BY <3>3, <4>2, <4>3, Fields
    <3> QED
      BY <3>2, <3>3
  <2>2. CASE ~Restart
    <3>1. UNCHANGED orders
      BY <2>2 DEF Activate, TaskSees, TaskActs, Tick, NewDay, vars
    <3> QED
      BY <3>1
  <2> QED
    BY <2>1, <2>2
<1>5. \A i \in Rows : /\ orders[i] # NoRow => orders[i].left \in Nat
                      /\ Buys(orders[i]) \in Nat /\ Buys(orders'[i]) = Buys(orders[i])
  BY <1>1, <1>4, Parts DEF SomeRows, Order, Buys
<1>6. \A c \in Clients : Wants(ask[c]) \in Nat
  BY <1>1, Parts DEF SomeAsks
<1>7. \A c \in Clients : /\ Wants(ask'[c]) <= Wants(ask[c])
                         /\ ask'[c] # Idle => ask'[c].value <= MaxOrderValue \/ AllowMarket
  BY <1>3, <1>6, Parts DEF DailyInv
<1>8. \A i \in Rows : /\ orders'[i] # NoRow => /\ orders[i] # NoRow
                                               /\ orders'[i].left <= orders[i].left
                      /\ Buys(orders'[i]) <= Buys(orders[i])
  BY <1>4, <1>5
<1> QED
  BY <1>2, <1>7, <1>8, NoneRises

LEMMA DailySteps == GateInv /\ ClockType /\ DailyInv /\ [Next]_vars => DailyInv'
<1> SUFFICES ASSUME GateInv, ClockType, DailyInv, [Next]_vars PROVE DailyInv'
  OBVIOUS
<1>1. GateInv' /\ bought \in Nat
  BY GateSteps DEF ClockType
<1>2. ASSUME NEW c \in Clients,
             \/ \E side \in {"buy", "sell"}, market \in BOOLEAN, value \in Sizes :
                  Ask(c, side, market, value)
             \/ CheckDaily(c) \/ CheckRate(c) \/ CheckActive(c) \/ CheckSell(c) \/ AddRow(c)
             \/ \E accepted \in BOOLEAN : Send(c, accepted)
      PROVE  DailyInv'
  BY <1>1, <1>2, AskingBuysNoMore, CheckDailyBuys, AddBuysTheSame, OrdersBuyNoMore
<1>3. ASSUME NEW i \in Active,
             (\E n \in 1..orders[i].left : Fill(i, n)) \/ Cancel(i) \/ End(i)
      PROVE  DailyInv'
  BY <1>1, <1>3, FillBuysTheSame, OrdersBuyNoMore
<1>4. CASE \/ \E l \in Switched : Activate(l)
           \/ TaskSees \/ TaskActs \/ Tick \/ NewDay \/ Restart \/ UNCHANGED vars
  BY <1>1, <1>4, OthersBuyNoMore
<1> QED
  BY <1>2, <1>3, <1>4 DEF Next

LEMMA DailyStart == Init => DailyInv
<1> SUFFICES ASSUME Init PROVE DailyInv
  OBVIOUS
<1>1. GateInv /\ SomeRows(orders) /\ SomeAsks(ask)
  BY GateStart, SomeNow
<1>2. /\ ask = [c \in Clients |-> Idle] /\ orders = [i \in Rows |-> NoRow] /\ bought = 0
  BY DEF Init
<1>3. \A i \in DOMAIN LeftToBuy(orders) : LeftToBuy(orders)[i] = 0
  BY <1>2 DEF LeftToBuy
<1>4. \A c \in DOMAIN AskedToBuy(ask) : AskedToBuy(ask)[c] = 0
  BY <1>2, Parts DEF AskedToBuy
<1>5. Total(LeftToBuy(orders)) = 0 /\ Total(AskedToBuy(ask)) = 0
  BY <1>1, <1>3, <1>4, RowAmounts, AskAmounts, TotalNone
<1>6. MostBought \in Nat
  <2>1. Cardinality(Clients) \in Nat /\ Cardinality(Clients) # 0
    BY Callers, RiskAssumption, FS_EmptySet
  <2>2. MaxActive + 2 * Cardinality(Clients) - 2 \in Nat
    BY <2>1, RiskAssumption
  <2> QED
    BY <2>2, RiskAssumption DEF MostBought
<1> QED
  BY <1>2, <1>5, <1>6 DEF DailyInv

-----------------------------------------------------------------------------
(* Theorems. *)

\* The gate's invariant: what each caller still may do, and what a pending sell may take.
THEOREM GateInvariant == Spec => []GateInv
<1> QED
  BY GateStart, GateSteps, PTL DEF Spec

\* However many callers pass the count of active orders together before one of them has a
\* row (checker.py:146-155, order_manager.py:133-152), the limit is passed by one each at most.
THEOREM ActiveLimit == Spec => []ActiveBounded
<1>1. GateInv => ActiveBounded
  BY DEF GateInv, ActiveInv
<1> QED
  BY <1>1, GateInvariant, PTL

\* Under one HALT a caller that was past the switch writes one order and no more, whatever
\* its awaits let in between (checker.py:60-90, order_manager.py:114-133).
THEOREM HaltLimit == Spec => []HaltBounded
<1>1. GateInv => HaltBounded
  BY DEF GateInv, HaltInv, HaltBounded
<1> QED
  BY <1>1, GateInvariant, PTL

\* Without short selling, apply_fill cuts the position off at zero only if a sell was checked
\* while another was pending (checker.py:157-177, position_manager.py:64-70).
THEOREM SellsNeverShort == Spec => []SellsCovered
<1>1. GateInv => SellsCovered
  BY DEF GateInv, SellInv, SellsCovered
<1> QED
  BY <1>1, GateInvariant, PTL

\* The window of the rate limit and the requests it let through.
THEOREM RateInvariant == Spec => []RateInv
<1> QED
  BY RateStart, RateSteps, PTL DEF Spec

\* No more than max_orders_per_minute requests pass in any minute, however the callers'
\* awaits interleave: the window is pruned, counted and appended to in one step
\* (checker.py:134-144).
THEOREM RateLimit == Spec => []RateLimitHolds
<1>1. RateInv => RateLimitHolds
  BY DEF RateInv
<1> QED
  BY <1>1, RateInvariant, PTL

\* The gate's state is well formed, and the window is in order and within the limit
\* (checker.py:48-60,134-144).
THEOREM Typed == Spec => []TypeOK
<1>2. GateInv /\ RateInv /\ ClockType => TypeOK
  <2> SUFFICES ASSUME GateInv, RateInv, ClockType PROVE TypeOK
    OBVIOUS
  <2>1. \A i \in 1..(Len(calls) - 1) : calls[i] <= calls[i + 1]
    <3> SUFFICES ASSUME NEW i \in 1..(Len(calls) - 1) PROVE calls[i] <= calls[i + 1]
      OBVIOUS
    <3>1. PICK w \in Nat : Window(w)
      BY DEF RateInv
    <3>2. Len(calls) \in Nat
      BY DEF RateInv
    <3>3. i \in 1..Len(calls) /\ i + 1 \in 1..Len(calls) /\ w + i <= w + (i + 1)
          /\ w + i \in 1..Len(passed) /\ w + (i + 1) \in 1..Len(passed)
      BY <3>1, <3>2 DEF Window
    <3>4. passed[w + i] <= passed[w + (i + 1)]
      BY <3>3 DEF RateInv
    <3> QED
      BY <3>1, <3>3, <3>4 DEF Window
  <2> QED
    BY <2>1 DEF TypeOK, GateInv, GateType, RateInv, ClockType
<1> QED
  BY <1>2, GateInvariant, RateInvariant, GateStart, GateSteps, ClockStart, ClockSteps,
     PTL DEF Spec

\* What was bought today, with all that orders and requests may still buy, stays under a bound.
THEOREM DailyInvariant == Spec => [](ClockType /\ DailyInv)
<1>1. Init => ClockType /\ DailyInv
  BY DailyStart, ClockStart
<1> QED
  BY <1>1, GateStart, GateSteps, ClockSteps, DailySteps, PTL DEF Spec

\* The daily limit counts fills only, so that what other callers and active orders may still
\* buy passes it: by no more than one order's limit for each of them (checker.py:120-132).
THEOREM DailyLimit == Spec => []DailyBounded
<1>1. GateInv /\ ClockType /\ DailyInv => DailyBounded
  <2> SUFFICES ASSUME GateInv, ClockType, DailyInv, ~AllowMarket
               PROVE  bought <= MostBought
    BY DEF DailyBounded, MostBought
  <2>1. Total(LeftToBuy(orders)) \in Nat /\ Total(AskedToBuy(ask)) \in Nat
    BY SomeNow, RowAmounts, AskAmounts, UnitsFinite
  <2>2. bought \in Nat /\ MostBought \in Int
    BY Callers, RiskAssumption DEF ClockType, MostBought
  <2> QED
    BY <2>1, <2>2 DEF DailyInv
<1> QED
  BY <1>1, GateInvariant, DailyInvariant, PTL
=============================================================================
