----------------------- MODULE OrderAccountingProofs -----------------------
(***************************************************************************)
(* Proofs about OrderAccounting, for every set of days and any number of   *)
(* orders: its type invariant, that pi is moved exactly once by every fill *)
(* of an order whose returns came under one key, and that a trade return   *)
(* changes nothing.  What is summed over the orders of a side is in        *)
(* OrderCapacityProofs.                                                    *)
(***************************************************************************)
EXTENDS OrderAccounting, TLAPS

(* The broker's side of an order.                                          *)
OrderOf(o) ==
  /\ o > sent => order[o] = Unsent
  /\ order[o].state \in {"none", "sent", "refused"} => order[o].cum = 0
  /\ order[o].state = "none" => rep[o] = <<>>
  /\ order[o].state \in {"sent", "open"} => order[o].cum < order[o].qty

OrderInv == \A o \in Orders : OrderOf(o)

(* Its reports are in the order of what they say was traded, and none says *)
(* more than the broker knows.                                             *)
ReportsOf(o) ==
  /\ got[o] <= Len(rep[o])
  /\ \A i \in 1..Len(rep[o]) :
       /\ rep[o][i].cum <= order[o].cum
       /\ rep[o][i].last > 0 => rep[o][i].cum > 0
       /\ \A j \in 1..i : rep[o][j].cum <= rep[o][i].cum

ReportInv == \A o \in Orders : ReportsOf(o)

(* What the tables of on_rtn_order know of an order.                       *)
KeyInv ==
  \A k \in Keys :
    /\ ~Met(k) => traded[k] = 0
    /\ traded[k] > 0 => fillSeen[k]
    /\ got[k[1]] = 0 => ~Met(k)

TradedOf(o) ==
  /\ counted[o] + Unstored(o) =
       traded[<<o, "request">>] + traded[<<o, "reference">>]
  /\ got[o] > 0 => Met(<<o, "request">>) \/ Met(<<o, "reference">>)
  /\ ~TwoKeys(o) => \A k \in Keys :
       k[1] = o /\ Met(k) => traded[k] = Reported(o)

TradedInv == \A o \in Orders : TradedOf(o)

(* The return at hand.                                                     *)
CallbackInv ==
  /\ cb.at = "idle" => cb = CbIdle
  /\ cb.at # "idle" /\ cb.trade > 0 => fillSeen[<<cb.order, cb.key>>]
  /\ cb.at = "trade" => cb.trade > 0

IInv == TypeOK /\ OrderInv /\ ReportInv /\ KeyInv /\ TradedInv /\ CallbackInv

OrderType == [side : Sides, qty : Nat, cum : Nat,
              state : {"none", "sent", "open", "ended", "refused"}]
CbType == [at : {"idle", "loaded", "released", "trade"}, order : Nat,
           report : Nat, key : {"request", "reference"}, release : Nat,
           delta : Nat, seen : Nat, trade : Nat]

-----------------------------------------------------------------------------
(* Lemmas about the helpers.                                               *)

LEMMA Arithmetic == \A a, b \in Int :
    /\ Larger(a, b) \in Int /\ Smaller(a, b) \in Int
    /\ NotNegative(a) \in Nat
    /\ Larger(a, b) >= a /\ Larger(a, b) >= b
    /\ Smaller(a, b) <= a /\ Smaller(a, b) <= b
BY DEF Larger, Smaller, NotNegative

LEMMA DayFacts == ASSUME TypeOK
                  PROVE  /\ day.threaded \in BOOLEAN
                         /\ day.total \in Nat /\ day.available \in Nat
                         /\ day.limits \in Seq(Nat) /\ Len(day.limits) \in Nat
                         /\ day.lots \in Nat /\ day.orders \in 0..MaxOrders
<1>1. day \in DayType /\ MaxOrders \in Nat
  BY OrderAssumption DEF TypeOK
<1>2. day.limits \in Seq(Nat)
  BY <1>1 DEF DayType
<1>3. Len(day.limits) \in Nat
  BY <1>2
<1> QED
  BY <1>1, <1>2, <1>3 DEF DayType

LEMMA CapacityFacts == ASSUME TypeOK, NEW s \in Sides, NEW limit \in Nat
                       PROVE  Capacity(s, limit) \in Nat
<1>1. /\ pi \in Int /\ shortable \in Int /\ Static \in Nat
      /\ pending["buy"] \in Nat /\ pending["sell"] \in Nat
  BY OrderAssumption DEF TypeOK, Sides
<1>2. MaxCanBuy(limit) \in Nat
  BY <1>1 DEF MaxCanBuy, NotNegative, Larger, Smaller
<1>3. MaxCanSell(limit) \in Nat
  BY <1>1 DEF MaxCanSell, NotNegative, Larger, Smaller
<1> QED
  BY <1>2, <1>3 DEF Capacity

LEMMA AtFacts ==
  ASSUME NEW c \in CbType, NEW a \in {"idle", "loaded", "released", "trade"},
         NEW d, d = [c EXCEPT !.at = a]
  PROVE  /\ d \in CbType /\ d.at = a /\ d.order = c.order /\ d.key = c.key
         /\ d.trade = c.trade /\ d.delta = c.delta
BY DEF CbType

(* What is left to do of a return is typed, keeps what it will add to pi,  *)
(* and is nothing when it is at rest.                                      *)
LEMMA OnwardFacts ==
  ASSUME NEW c \in CbType
  PROVE  /\ Onward(c) \in CbType
         /\ Onward(c).at = "idle" => Onward(c) = CbIdle
         /\ Onward(c).at # "idle" => /\ Onward(c).order = c.order
                                     /\ Onward(c).key = c.key
                                     /\ Onward(c).trade = c.trade
         /\ Onward(c).at = "trade" => c.trade > 0
         /\ Onward(c).at \in {"loaded", "released"} => Onward(c).delta = c.delta
         /\ Onward(c).at \notin {"loaded", "released"} => c.delta = 0
<1>0. c.release \in Nat /\ c.delta \in Nat /\ c.trade \in Nat
  BY DEF CbType
<1>1. CASE c.release > 0
  <2>1. Onward(c) = [c EXCEPT !.at = "loaded"]
    BY <1>1 DEF Onward
  <2> QED
    BY <2>1, AtFacts
<1>2. CASE ~(c.release > 0) /\ c.delta > 0
  <2>1. Onward(c) = [c EXCEPT !.at = "released"]
    BY <1>2 DEF Onward
  <2> QED
    BY <2>1, AtFacts
<1>3. CASE ~(c.release > 0) /\ ~(c.delta > 0) /\ c.trade > 0
  <2>1. Onward(c) = [c EXCEPT !.at = "trade"]
    BY <1>3 DEF Onward
  <2> QED
    BY <2>1, <1>0, <1>3, AtFacts
<1>4. CASE ~(c.release > 0) /\ ~(c.delta > 0) /\ ~(c.trade > 0)
  <2>1. Onward(c) = CbIdle
    BY <1>4 DEF Onward
  <2>2. CbIdle \in CbType /\ CbIdle.at = "idle"
    BY DEF CbIdle, CbType
  <2> QED
    BY <2>1, <2>2, <1>0, <1>4
<1> QED
  BY <1>1, <1>2, <1>3, <1>4

LEMMA KeyFacts == \A o \in Orders : /\ <<o, "request">> \in Keys
                                    /\ <<o, "reference">> \in Keys
                                    /\ <<o, Route(o)>> \in Keys
BY DEF Keys, Route

-----------------------------------------------------------------------------
LEMMA InitInv == Init => IInv
<1> SUFFICES ASSUME Init PROVE IInv
  OBVIOUS
<1> USE DEF Init
<1>1. day \in DayType /\ Static \in Nat /\ MaxOrders \in Nat
  BY OrderAssumption
<1>2. Len(day.limits) \in Nat \ {0}
  BY <1>1 DEF DayType
<1>3. TypeOK
  <2>1. pi \in Int /\ shortable \in Int /\ pending \in [Sides -> Nat]
    BY <1>1 DEF DayType, Smaller
  <2>2. phase \in 1..Len(day.limits)
    BY <1>2
  <2>3. /\ sig \in [at : {"idle", "accepted", "loaded"}, order : Nat, seen : Nat]
        /\ cb \in CbType /\ query \in [at : {"none", "answered"}, total : Int, available : Nat]
    BY DEF SigIdle, CbIdle, CbType, NoQuery
  <2>4. order \in [Orders -> OrderType] /\ rep \in [Orders -> Seq(ReportType)]
    BY DEF Unsent, OrderType, Sides
  <2>5. book \in [total : Int, available : Int]
    BY <1>1 DEF DayType
  <2>6. /\ traded \in [Keys -> Nat] /\ leaves \in [Keys -> Nat \cup {-1}]
        /\ fillSeen \in [Keys -> BOOLEAN] /\ over \in [Keys -> BOOLEAN]
        /\ trades \subseteq Orders \X Nat /\ got \in [Orders -> Nat]
        /\ bound \in [Orders -> BOOLEAN] /\ lastCum \in [Orders -> Nat]
        /\ cancel \in [Orders -> {"none", "armed", "asked", "missed"}]
        /\ counted \in [Orders -> Nat] /\ crossed \in BOOLEAN
    OBVIOUS
  <2>7. /\ sig.at = "idle" /\ cb.at = "idle" /\ sent \in 0..MaxOrders
        /\ queries \in Nat /\ resends \in Nat /\ day \in Days
    BY <1>1 DEF SigIdle, CbIdle
  <2> HIDE DEF Init
  <2> QED
    BY <2>1, <2>2, <2>3, <2>4, <2>5, <2>6, <2>7 DEF TypeOK, OrderType, CbType
<1>4. OrderInv
  BY DEF OrderInv, OrderOf, Unsent
<1>5. ReportInv
  BY DEF ReportInv, ReportsOf, Orders
<1>6. KeyInv
  BY DEF KeyInv, Met, Keys
<1>7. TradedInv
  <2> SUFFICES ASSUME NEW o \in Orders PROVE TradedOf(o)
    BY DEF TradedInv
  <2>1. /\ traded[<<o, "request">>] = 0 /\ traded[<<o, "reference">>] = 0
        /\ counted[o] = 0 /\ got[o] = 0
    BY KeyFacts
  <2>2. Unstored(o) = 0
    BY DEF Unstored, CbIdle
  <2>3. \A k \in Keys : ~Met(k)
    BY DEF Met
  <2> QED
    BY <2>1, <2>2, <2>3 DEF TradedOf
<1>8. CallbackInv
  BY DEF CallbackInv, CbIdle
<1> QED
  BY <1>3, <1>4, <1>5, <1>6, <1>7, <1>8 DEF IInv

-----------------------------------------------------------------------------
(* The signal's thread touches nothing but the reservation and new orders. *)

LEMMA SubmitInv == ASSUME IInv, NEW s \in Sides, Submit(s) PROVE IInv'
<1> USE DEF IInv
<1>0. PICK p \in phase..Len(day.limits) :
        /\ phase' = p
        /\ \E q \in 1..Smaller(day.lots, Capacity(s, day.limits[p])) :
             /\ order' = [order EXCEPT ![sent + 1] =
                  [side |-> s, qty |-> q, cum |-> 0, state |-> "sent"]]
             /\ Freeze(s, q)
  BY DEF Submit
<1>1. PICK q \in 1..Smaller(day.lots, Capacity(s, day.limits[p])) :
        /\ order' = [order EXCEPT ![sent + 1] =
                       [side |-> s, qty |-> q, cum |-> 0, state |-> "sent"]]
        /\ Freeze(s, q)
  BY <1>0
<1>2. q \in Nat /\ q > 0 /\ p \in 1..Len(day.limits) /\ p \in Nat
  <2>1. /\ day.limits \in Seq(Nat) /\ Len(day.limits) \in Nat /\ day.lots \in Nat
        /\ phase \in 1..Len(day.limits)
    BY DayFacts DEF TypeOK
  <2>2. p \in 1..Len(day.limits)
    BY <1>0, <2>1
  <2>3. day.limits[p] \in Nat
    BY <2>1, <2>2
  <2>4. Smaller(day.lots, Capacity(s, day.limits[p])) \in Int
    <3>1. Capacity(s, day.limits[p]) \in Nat
      BY <2>3, CapacityFacts
    <3> QED
      BY <2>1, <3>1 DEF Smaller
  <2> QED
    BY <1>1, <2>2, <2>4
<1>3. sent \in Nat /\ sent + 1 \in Orders
  <2>1. sent \in Nat
    BY OrderAssumption DEF TypeOK
  <2>3. day.orders \in 0..MaxOrders /\ MaxOrders \in Nat
    BY DayFacts, OrderAssumption
  <2>2. sent < day.orders
    BY DEF Submit
  <2> QED
    BY <2>1, <2>2, <2>3 DEF Orders
<1>4. TypeOK'
  <2>1. order' \in [Orders -> OrderType]
    BY <1>1, <1>2, <1>3 DEF TypeOK, OrderType
  <2>2. book' \in [total : Int, available : Int]
    <3>1. book \in [total : Int, available : Int] /\ book.available - q \in Int
      BY <1>2 DEF TypeOK
    <3> QED
      BY <1>1, <3>1 DEF Freeze
  <2>3. sig' \in [at : {"idle", "accepted", "loaded"}, order : Nat, seen : Nat]
        /\ sig'.order \in Orders
    <3>1. sig \in [at : {"idle", "accepted", "loaded"}, order : Nat, seen : Nat]
      BY DEF TypeOK
    <3>2. sent + 1 \in Nat
      BY <1>3
    <3>3. sig' = [sig EXCEPT !.at = "accepted", !.order = sent + 1]
      BY DEF Submit
    <3> QED
      BY <3>1, <3>2, <3>3, <1>3
  <2>4. cancel' \in [Orders -> {"none", "armed", "asked", "missed"}]
    BY <1>3 DEF Submit, TypeOK
  <2>5. sent' \in 0..MaxOrders
    BY <1>3, OrderAssumption DEF Submit, Orders
  <2> QED
    BY <1>0, <1>2, <2>1, <2>2, <2>3, <2>4, <2>5
       DEF TypeOK, OrderType, Submit, account, tables, gateway
<1>5. rep[sent + 1] = <<>>
  BY <1>3 DEF OrderInv, OrderOf, Unsent
<1>6. OrderInv'
  <2> SUFFICES ASSUME NEW o \in Orders PROVE OrderOf(o)'
    BY DEF OrderInv
  <2>1. /\ sent' = sent + 1 /\ rep' = rep
        /\ order \in [Orders -> OrderType]
    BY DEF Submit, TypeOK, OrderType
  <2>2. CASE o = sent + 1
    BY <1>1, <1>2, <1>3, <2>1, <2>2 DEF OrderOf
  <2>3. CASE o # sent + 1
    <3>1. order'[o] = order[o] /\ o \in Nat
      BY <1>1, <2>1, <2>3 DEF Orders
    <3> QED
      BY <1>3, <2>1, <3>1 DEF OrderInv, OrderOf
  <2> QED
    BY <2>2, <2>3
<1>7. ReportInv'
  <2> SUFFICES ASSUME NEW o \in Orders PROVE ReportsOf(o)'
    BY DEF ReportInv
  <2>1. CASE o = sent + 1
    BY <1>5, <2>1 DEF ReportInv, ReportsOf, Submit, gateway
  <2>2. CASE o # sent + 1
    BY <1>1, <2>2 DEF ReportInv, ReportsOf, Submit, gateway, TypeOK
  <2> QED
    BY <2>1, <2>2
<1>8. KeyInv' /\ TradedInv' /\ CallbackInv'
  BY DEF KeyInv, TradedInv, TradedOf, CallbackInv, Submit, Met, TwoKeys, Unstored,
         Reported, tables, gateway
<1> QED
  BY <1>4, <1>6, <1>7, <1>8

LEMMA SignalStepInv == ASSUME IInv, SignalStep PROVE IInv'
<1> USE DEF IInv, SignalStep
<1>1. TypeOK'
  <2>1. /\ sig \in [at : {"idle", "accepted", "loaded"}, order : Nat, seen : Nat]
        /\ sig.order \in Orders
        /\ order[sig.order].side \in Sides /\ order[sig.order].qty \in Nat
        /\ pending \in [Sides -> Nat]
    BY DEF TypeOK, LoadReserve, StoreReserve
  <2>2. pending[order[sig.order].side] \in Nat
        /\ sig.seen + order[sig.order].qty \in Nat
    BY <2>1
  <2>3. pending' \in [Sides -> Nat]
    BY <2>1, <2>2 DEF LoadReserve, StoreReserve, account
  <2>4. sig' \in [at : {"idle", "accepted", "loaded"}, order : Nat, seen : Nat]
        /\ (sig'.at # "idle" => sig'.order \in Orders)
    <3>1. CASE LoadReserve
      BY <2>1, <2>2, <3>1 DEF LoadReserve
    <3>2. CASE StoreReserve
      BY <3>2 DEF StoreReserve, SigIdle
    <3> QED
      BY <3>1, <3>2
  <2> QED
    BY <2>3, <2>4, ZenonT(40) DEF TypeOK, LoadReserve, StoreReserve, account, tables, broker, gateway
<1>2. OrderInv' /\ ReportInv'
  BY DEF OrderInv, OrderOf, ReportInv, ReportsOf, LoadReserve, StoreReserve,
         account, tables, broker, gateway
<1>3. KeyInv' /\ TradedInv' /\ CallbackInv'
  BY DEF KeyInv, TradedInv, TradedOf, CallbackInv, LoadReserve, StoreReserve, Met, TwoKeys,
         Unstored, Reported, account, tables, broker, gateway
<1> QED
  BY <1>1, <1>2, <1>3

-----------------------------------------------------------------------------
(* The broker: a step that reports adds a report which says no less than   *)
(* the reports before it.                                                  *)

LEMMA ReportStepInv ==
  ASSUME IInv, NEW o \in Orders, NEW n \in OrderType, NEW r \in ReportType,
         order' = [order EXCEPT ![o] = n],
         rep' = [rep EXCEPT ![o] = Append(@, r)],
         book' \in [total : Int, available : Int], bound' = bound, BrokerStep,
         order[o].state # "none", n.state \notin {"none", "sent", "refused"},
         n.state \in {"sent", "open"} => n.cum < n.qty,
         r.cum = n.cum, n.cum >= order[o].cum, r.last > 0 => r.cum > 0
  PROVE  IInv'
<1>1. /\ order \in [Orders -> OrderType] /\ rep \in [Orders -> Seq(ReportType)]
      /\ got \in [Orders -> Nat] /\ sent \in Nat
  <2>1. sent \in 0..MaxOrders
    BY DEF IInv, TypeOK
  <2>2. sent \in Nat
    BY <2>1, OrderAssumption
  <2>3. /\ order \in [Orders -> OrderType] /\ rep \in [Orders -> Seq(ReportType)]
        /\ got \in [Orders -> Nat]
    BY DEF IInv, TypeOK, OrderType
  <2> QED
    BY <2>2, <2>3
<1>2. rep[o] \in Seq(ReportType) /\ Append(rep[o], r) \in Seq(ReportType)
  BY <1>1
<1>3. /\ Len(rep[o]) \in Nat /\ Len(Append(rep[o], r)) = Len(rep[o]) + 1
      /\ \A i \in 1..Len(rep[o]) : /\ Append(rep[o], r)[i] = rep[o][i]
                                   /\ rep[o][i] \in ReportType
      /\ Append(rep[o], r)[Len(rep[o]) + 1] = r
  BY <1>2
<1>4. /\ sent' = sent /\ got' = got /\ day' = day /\ cb' = cb
      /\ rep'[o] = Append(rep[o], r) /\ order'[o] = n
      /\ \A p \in Orders : p # o => rep'[p] = rep[p] /\ order'[p] = order[p]
  BY <1>1 DEF BrokerStep
<1>5. TypeOK'
  <2>1. order' \in [Orders -> OrderType] /\ rep' \in [Orders -> Seq(ReportType)]
    BY <1>1, <1>2
  <2> QED
    BY <2>1 DEF IInv, TypeOK, OrderType, BrokerStep, account, tables
<1>6. OrderInv'
  <2> SUFFICES ASSUME NEW p \in Orders PROVE OrderOf(p)'
    BY DEF OrderInv
  <2>1. OrderOf(p)
    BY DEF IInv, OrderInv
  <2>2. CASE p = o
    <3>1. ~(o > sent)
      BY <2>1, <2>2 DEF OrderOf, Unsent
    <3> QED
      BY <3>1, <2>2, <1>4 DEF OrderOf
  <2>3. CASE p # o
    BY <2>1, <2>3, <1>4 DEF OrderOf
  <2> QED
    BY <2>2, <2>3
<1>7. ReportInv'
  <2> SUFFICES ASSUME NEW p \in Orders PROVE ReportsOf(p)'
    BY DEF ReportInv
  <2>1. ReportsOf(p)
    BY DEF IInv, ReportInv
  <2>2. CASE p = o
    <3> DEFINE s == Append(rep[o], r)
    <3>1. got[o] <= Len(s)
      BY <2>1, <2>2, <1>1, <1>3 DEF ReportsOf
    <3>2. n.cum \in Nat /\ order[o].cum \in Nat
          /\ \A i \in 1..Len(rep[o]) : rep[o][i].cum \in Nat
      BY <1>1, <1>3 DEF OrderType, ReportType
    <3>3. \A i \in 1..Len(rep[o]) : rep[o][i].cum <= n.cum
      BY <2>1, <2>2, <3>2 DEF ReportsOf
    <3>4. ASSUME NEW i \in 1..Len(s)
          PROVE  /\ s[i].cum <= n.cum
                 /\ s[i].last > 0 => s[i].cum > 0
                 /\ \A j \in 1..i : s[j].cum <= s[i].cum
      <4>1. CASE i \in 1..Len(rep[o])
        <5>1. \A j \in 1..i : j \in 1..Len(rep[o])
          BY <4>1, <1>3
        <5> QED
          BY <4>1, <5>1, <3>3, <2>1, <2>2, <1>3 DEF ReportsOf
      <4>2. CASE i = Len(rep[o]) + 1
        <5>1. \A j \in 1..i : j = i \/ j \in 1..Len(rep[o])
          BY <4>2, <1>3
        <5> QED
          BY <4>2, <5>1, <3>2, <3>3, <1>3
      <4> QED
        BY <4>1, <4>2, <1>3
    <3> QED
      BY <3>1, <3>4, <2>2, <1>4 DEF ReportsOf
  <2>3. CASE p # o
    BY <2>1, <2>3, <1>4 DEF ReportsOf
  <2> QED
    BY <2>2, <2>3
<1>8. \A p \in Orders : Reported(p)' = Reported(p)
  <2> SUFFICES ASSUME NEW p \in Orders PROVE Reported(p)' = Reported(p)
    OBVIOUS
  <2>1. ReportsOf(p)
    BY DEF IInv, ReportInv
  <2>2. CASE p = o
    <3>1. got[o] # 0 => got[o] \in 1..Len(rep[o])
      BY <2>1, <2>2, <1>1, <1>3 DEF ReportsOf
    <3> QED
      BY <3>1, <2>2, <1>3, <1>4 DEF Reported
  <2>3. CASE p # o
    BY <2>3, <1>4 DEF Reported
  <2> QED
    BY <2>2, <2>3
<1>9. KeyInv' /\ CallbackInv'
  BY DEF IInv, KeyInv, CallbackInv, Met, BrokerStep, account, tables
<1>10. TradedInv'
  BY <1>8 DEF IInv, TradedInv, TradedOf, TwoKeys, Met, Unstored, BrokerStep,
              account, tables
<1> QED
  BY <1>5, <1>6, <1>7, <1>9, <1>10 DEF IInv

(* What an order is when the broker takes a step with it.                  *)
LEMMA OrderFacts ==
  ASSUME IInv, NEW o \in Orders
  PROVE  /\ order[o] \in OrderType /\ OrderOf(o)
         /\ book \in [total : Int, available : Int]
         /\ \A n \in Int : Freeze(order[o].side, n) =>
              book' \in [total : Int, available : Int]
<1>1. order[o] \in OrderType /\ OrderOf(o) /\ book \in [total : Int, available : Int]
  BY DEF IInv, TypeOK, OrderInv, OrderType
<1>2. ASSUME NEW n \in Int, Freeze(order[o].side, n)
      PROVE  book' \in [total : Int, available : Int]
  <2>1. book.available - n \in Int
    BY <1>1
  <2> QED
    BY <1>1, <1>2, <2>1 DEF Freeze
<1> QED
  BY <1>1, <1>2

(* The state of an order changes and nothing else of it.                   *)
LEMMA StateFacts ==
  ASSUME NEW d \in OrderType, NEW n,
         NEW a \in {"none", "sent", "open", "ended", "refused"},
         n = [d EXCEPT !.state = a]
  PROVE  n \in OrderType /\ n.state = a /\ n.cum = d.cum /\ n.qty = d.qty
BY DEF OrderType

LEMMA AcceptInv == ASSUME IInv, NEW o \in Orders, Accept(o) PROVE IInv'
<1> DEFINE n == [order[o] EXCEPT !.state = "open"]
           r == [status |-> "new", cum |-> 0, leaves |-> order[o].qty, last |-> 0]
<1>1. order[o] \in OrderType /\ OrderOf(o) /\ order[o].state = "sent"
  BY OrderFacts DEF Accept
<1>2. n \in OrderType /\ n.state = "open" /\ n.cum = order[o].cum /\ n.qty = order[o].qty
  BY <1>1, StateFacts
<1>3. order[o].cum = 0 /\ order[o].qty \in Nat /\ order[o].qty > 0
  BY <1>1 DEF OrderOf, OrderType
<1>4. r \in ReportType
  BY <1>3 DEF ReportType
<1>5. /\ order' = [order EXCEPT ![o] = n] /\ rep' = [rep EXCEPT ![o] = Append(@, r)]
      /\ book' = book /\ bound' = bound /\ BrokerStep
  BY DEF Accept, Report
<1>6. book' \in [total : Int, available : Int]
  BY <1>5, OrderFacts
<1> HIDE DEF n, r
<1>7. /\ order[o].state # "none" /\ n.state \notin {"none", "sent", "refused"}
      /\ n.state \in {"sent", "open"} => n.cum < n.qty
      /\ n.cum >= order[o].cum
  BY <1>1, <1>2, <1>3
<1>8. r.cum = n.cum /\ (r.last > 0 => r.cum > 0)
  BY <1>2, <1>3 DEF r
<1> QED
  BY <1>2, <1>4, <1>5, <1>6, <1>7, <1>8, ReportStepInv, Zenon

LEMMA RejectInv == ASSUME IInv, NEW o \in Orders, Reject(o) PROVE IInv'
<1> DEFINE n == [order[o] EXCEPT !.state = "ended"]
           r == [status |-> "error", cum |-> 0, leaves |-> 0, last |-> 0]
<1>1. order[o] \in OrderType /\ OrderOf(o) /\ order[o].state = "sent"
  BY OrderFacts DEF Reject
<1>2. n \in OrderType /\ n.state = "ended" /\ n.cum = order[o].cum
  BY <1>1, StateFacts
<1>3. order[o].cum = 0 /\ -order[o].qty \in Int
  BY <1>1 DEF OrderOf, OrderType
<1>4. r \in ReportType
  BY DEF ReportType
<1>5. /\ order' = [order EXCEPT ![o] = n] /\ rep' = [rep EXCEPT ![o] = Append(@, r)]
      /\ Freeze(order[o].side, -order[o].qty) /\ bound' = bound /\ BrokerStep
  BY DEF Reject, Report
<1>6. book' \in [total : Int, available : Int]
  BY <1>3, <1>5, OrderFacts
<1> HIDE DEF n, r
<1>7. /\ order[o].state # "none" /\ n.state \notin {"none", "sent", "refused"}
      /\ n.state \in {"sent", "open"} => n.cum < n.qty
      /\ n.cum >= order[o].cum
  BY <1>1, <1>2, <1>3
<1>8. r.cum = n.cum /\ (r.last > 0 => r.cum > 0)
  BY <1>2, <1>3 DEF r
<1> QED
  BY <1>2, <1>4, <1>5, <1>6, <1>7, <1>8, ReportStepInv, Zenon

LEMMA WithdrawInv == ASSUME IInv, NEW o \in Orders, Withdraw(o) PROVE IInv'
<1> DEFINE n == [order[o] EXCEPT !.state = "ended"]
           r == [status |-> "canceled", cum |-> order[o].cum, leaves |-> 0, last |-> 0]
<1>1. order[o] \in OrderType /\ order[o].state = "open"
  BY OrderFacts DEF Withdraw
<1>2. n \in OrderType /\ n.state = "ended" /\ n.cum = order[o].cum
  BY <1>1, StateFacts
<1>3. order[o].cum \in Nat /\ order[o].cum - order[o].qty \in Int
  BY <1>1 DEF OrderType
<1>4. r \in ReportType
  BY <1>3 DEF ReportType
<1>5. /\ order' = [order EXCEPT ![o] = n] /\ rep' = [rep EXCEPT ![o] = Append(@, r)]
      /\ Freeze(order[o].side, order[o].cum - order[o].qty)
      /\ bound' = bound /\ BrokerStep
  BY DEF Withdraw, Report
<1>6. book' \in [total : Int, available : Int]
  BY <1>3, <1>5, OrderFacts
<1> HIDE DEF n, r
<1>7. /\ order[o].state # "none" /\ n.state \notin {"none", "sent", "refused"}
      /\ n.state \in {"sent", "open"} => n.cum < n.qty
      /\ n.cum >= order[o].cum
  BY <1>1, <1>2, <1>3
<1>8. r.cum = n.cum /\ (r.last > 0 => r.cum > 0)
  BY <1>2, <1>3 DEF r
<1> QED
  BY <1>2, <1>4, <1>5, <1>6, <1>7, <1>8, ReportStepInv, Zenon

LEMMA FillInv == ASSUME IInv, NEW o \in Orders, Fill(o) PROVE IInv'
<1> DEFINE cum == order[o].cum + 1
           left == order[o].qty - cum
           n == [order[o] EXCEPT !.cum = cum,
                                 !.state = IF left = 0 THEN "ended" ELSE "open"]
           r == [status |-> IF left = 0 THEN "filled" ELSE "part", cum |-> cum,
                 leaves |-> left, last |-> 1]
<1>1. order[o] \in OrderType /\ OrderOf(o) /\ order[o].state = "open"
  BY OrderFacts DEF Fill
<1>2. /\ order[o].cum \in Nat /\ cum \in Nat /\ cum > 0 /\ left \in Nat
      /\ order[o].qty \in Nat
  BY <1>1 DEF OrderOf, OrderType
<1>5. /\ order' = [order EXCEPT ![o] = n] /\ rep' = [rep EXCEPT ![o] = Append(@, r)]
      /\ book' = [book EXCEPT !.total =
                    IF order[o].side = "buy" THEN book.total + 1 ELSE book.total - 1]
      /\ bound' = bound /\ BrokerStep
  BY DEF Fill, Report
<1>4. r \in ReportType /\ r.cum = cum
  BY <1>2 DEF ReportType
<1>6. book' \in [total : Int, available : Int]
  <2>1. book \in [total : Int, available : Int]
    BY OrderFacts
  <2>2. book.total + 1 \in Int /\ book.total - 1 \in Int
    BY <2>1
  <2> QED
    BY <1>5, <2>1, <2>2
<1>9. left # 0 => cum < order[o].qty
  BY <1>2
<1> HIDE DEF left, cum
<1>3. /\ n \in OrderType /\ n.state = (IF left = 0 THEN "ended" ELSE "open")
      /\ n.cum = cum /\ n.qty = order[o].qty
  BY <1>1, <1>2 DEF OrderType
<1> HIDE DEF n, r
<1>7. /\ order[o].state # "none" /\ n.state \notin {"none", "sent", "refused"}
      /\ n.state \in {"sent", "open"} => n.cum < n.qty
  BY <1>1, <1>3, <1>9
<1>10. n.cum >= order[o].cum
  BY <1>2, <1>3 DEF cum
<1>8. r.cum = n.cum /\ (r.last > 0 => r.cum > 0)
  BY <1>2, <1>3, <1>4
<1> QED
  BY <1>3, <1>4, <1>5, <1>6, <1>7, <1>8, <1>10, ReportStepInv, Zenon

(* The broker's response, the cancel timer and the position query touch    *)
(* nothing that the accounting of fills relies on.                         *)
LEMMA RespondInv == ASSUME IInv, NEW o \in Orders, Respond(o) PROVE IInv'
<1>1. order[o] \in OrderType /\ OrderOf(o) /\ book \in [total : Int, available : Int]
  BY OrderFacts
<1>2. -order[o].qty \in Int
  BY <1>1 DEF OrderType
<1>3. book' \in [total : Int, available : Int]
  BY <1>1, <1>2, OrderFacts DEF Respond
<1>4. /\ order' \in [Orders -> OrderType] /\ rep' = rep /\ got' = got /\ sent' = sent
      /\ order'[o].cum = order[o].cum /\ order'[o].qty = order[o].qty
      /\ order'[o] = order[o] \/ (order[o].state = "sent" /\ order'[o].state = "refused")
      /\ \A p \in Orders : p # o => order'[p] = order[p]
  <2>1. order \in [Orders -> OrderType] /\ rep' = rep /\ got' = got /\ sent' = sent
    BY DEF IInv, TypeOK, OrderType, Respond, BrokerStep
  <2>2. CASE order' = order
    BY <2>1, <2>2
  <2>3. CASE order[o].state = "sent" /\ order' = [order EXCEPT ![o].state = "refused"]
    <3> DEFINE n == [order[o] EXCEPT !.state = "refused"]
    <3>1. n \in OrderType /\ n.state = "refused" /\ n.cum = order[o].cum /\ n.qty = order[o].qty
      BY <1>1, StateFacts
    <3>2. order' = [order EXCEPT ![o] = n]
      BY <2>3
    <3> HIDE DEF n
    <3> QED
      BY <2>1, <2>3, <3>1, <3>2
  <2> QED
    BY <2>2, <2>3 DEF Respond
<1>5. TypeOK'
  <2>1. bound' \in [Orders -> BOOLEAN]
    BY DEF IInv, TypeOK, Respond
  <2> QED
    BY <1>3, <1>4, <2>1 DEF IInv, TypeOK, OrderType, Respond, BrokerStep, account, tables
<1>6. OrderInv'
  <2> SUFFICES ASSUME NEW p \in Orders PROVE OrderOf(p)'
    BY DEF OrderInv
  <2>1. OrderOf(p)
    BY DEF IInv, OrderInv
  <2>2. CASE p = o
    BY <2>1, <2>2, <1>4 DEF OrderOf, Unsent
  <2>3. CASE p # o
    BY <2>1, <2>3, <1>4 DEF OrderOf
  <2> QED
    BY <2>2, <2>3
<1>7. ReportInv'
  <2> SUFFICES ASSUME NEW p \in Orders PROVE ReportsOf(p)'
    BY DEF ReportInv
  <2>1. ReportsOf(p)
    BY DEF IInv, ReportInv
  <2>2. order'[p].cum = order[p].cum
    BY <1>4
  <2> QED
    BY <2>1, <2>2, <1>4 DEF ReportsOf
<1>8. KeyInv' /\ CallbackInv' /\ TradedInv'
  BY <1>4 DEF IInv, KeyInv, CallbackInv, TradedInv, TradedOf, TwoKeys, Met, Unstored,
              Reported, Respond, BrokerStep, account, tables
<1> QED
  BY <1>5, <1>6, <1>7, <1>8 DEF IInv

(* What the accounting of fills relies on.                                 *)
fills == <<traded, leaves, fillSeen, over, cb, sent, order, rep, got, counted>>

LEMMA FillsUntouched == ASSUME IInv, TypeOK', UNCHANGED fills PROVE IInv'
<1>1. OrderInv' /\ ReportInv'
  BY DEF IInv, fills, OrderInv, OrderOf, ReportInv, ReportsOf
<1>2. KeyInv' /\ CallbackInv' /\ TradedInv'
  BY DEF IInv, fills, KeyInv, CallbackInv, TradedInv, TradedOf, TwoKeys, Met,
         Unstored, Reported
<1> QED
  BY <1>1, <1>2 DEF IInv

LEMMA CancelFiresInv == ASSUME IInv, NEW o \in Orders, CancelFires(o) PROVE IInv'
<1>1. cancel' \in [Orders -> {"none", "armed", "asked", "missed"}]
  BY DEF IInv, TypeOK, CancelFires
<1>2. TypeOK'
  BY <1>1 DEF IInv, TypeOK, CancelFires, account, tables, broker, gateway
<1> QED
  BY <1>2, FillsUntouched DEF fills, CancelFires, tables, broker, gateway

LEMMA QueryPositionsInv == ASSUME IInv, QueryPositions PROVE IInv'
<1>1. book \in [total : Int, available : Int] /\ queries \in Nat
  BY DEF IInv, TypeOK
<1>2. NotNegative(book.available) \in Nat /\ book.total \in Int
  BY <1>1 DEF NotNegative, Larger
<1>3. /\ query' \in [at : {"none", "answered"}, total : Int, available : Nat]
      /\ queries' \in Nat
  BY <1>1, <1>2 DEF QueryPositions
<1>4. TypeOK'
  BY <1>3 DEF IInv, TypeOK, QueryPositions, account, tables, gateway
<1> QED
  BY <1>4, FillsUntouched DEF fills, QueryPositions, tables, gateway

LEMMA OnRtnPosOptionInv == ASSUME IInv, OnRtnPosOption PROVE IInv'
<1>1. query \in [at : {"none", "answered"}, total : Int, available : Nat]
      /\ Static \in Nat
  BY OrderAssumption DEF IInv, TypeOK
<1>2. pi' \in Int /\ shortable' \in Int
  BY <1>1 DEF OnRtnPosOption, Remaining, NotNegative, Larger, Smaller
<1>3. query' \in [at : {"none", "answered"}, total : Int, available : Nat]
  BY DEF OnRtnPosOption, NoQuery
<1>4. TypeOK'
  BY <1>2, <1>3 DEF IInv, TypeOK, OnRtnPosOption, tables, gateway
<1> QED
  BY <1>4, FillsUntouched DEF fills, OnRtnPosOption, tables, gateway

-----------------------------------------------------------------------------
(* A return.                                                               *)

LEMMA ReturnFacts ==
  ASSUME IInv, NEW o \in Orders, NEW i \in 1..Len(rep[o]), NEW k, k = <<o, Route(o)>>,
         NEW r, r = rep[o][i]
  PROVE  /\ r \in ReportType /\ i \in Nat
         /\ k \in Keys /\ k[1] = o
         /\ traded[k] \in Nat /\ leaves[k] \in Nat \cup {-1}
         /\ TradedDelta(k, r) \in Nat
         /\ Larger(traded[k], r.cum) = traded[k] + TradedDelta(k, r)
         /\ PendingRelease(k, r) \in Nat
         /\ TradeQty(o, r) \in Nat
         /\ TradeQty(o, r) > 0 => r.cum > 0
<1>1. rep[o] \in Seq(ReportType) /\ lastCum[o] \in Nat
  BY DEF IInv, TypeOK
<1>2. r \in ReportType /\ i \in Nat
  BY <1>1
<1>3. k \in Keys /\ k[1] = o
  BY DEF Keys, Route
<1>4. /\ traded[k] \in Nat /\ leaves[k] \in Nat \cup {-1}
      /\ order[k[1]].qty \in Nat
  <2>1. traded \in [Keys -> Nat]
        /\ leaves \in [Keys -> Nat \cup {-1}] /\ order \in [Orders -> OrderType]
    BY DEF IInv, TypeOK, OrderType
  <2>2. order[o].qty \in Nat
    BY <2>1 DEF OrderType
  <2> QED
    BY <2>1, <2>2, <1>3
<1>5. r.cum \in Nat /\ r.leaves \in Nat /\ r.last \in Nat /\ r.status \in {"new", "part", "filled", "canceled", "error"}
  BY <1>2 DEF ReportType
<1>6. TradedDelta(k, r) \in Nat /\ Larger(traded[k], r.cum) = traded[k] + TradedDelta(k, r)
  BY <1>4, <1>5 DEF TradedDelta, NotNegative, Larger
<1>7. CancelDelta(k, r) \in Nat
  BY <1>4, <1>5, <1>6 DEF CancelDelta, NotNegative, Larger
<1>8. TerminalRelease(k, r) \in Int
  <2>1. /\ r.leaves + TradedDelta(k, r) \in Int
        /\ order[k[1]].qty - traded[k] \in Int
    BY <1>4, <1>5, <1>6
  <2>2. Larger(r.leaves + TradedDelta(k, r), order[k[1]].qty - traded[k]) \in Int
    BY <2>1, Arithmetic
  <2> QED
    BY <2>2, <1>4 DEF TerminalRelease
<1>9. PendingRelease(k, r) \in Nat
  BY <1>6, <1>7, <1>8 DEF PendingRelease, Larger
<1>10. TradeQty(o, r) \in Nat /\ (TradeQty(o, r) > 0 => r.cum > 0)
  <2>1. r.last > 0 => r.cum > 0
    BY DEF IInv, ReportInv, ReportsOf
  <2> QED
    BY <2>1, <1>1, <1>5 DEF TradeQty, NotNegative, Larger
<1> QED
  BY <1>2, <1>3, <1>4, <1>6, <1>9, <1>10

(* A key is a request's or a reference's.                                  *)
LEMMA KeyOf == ASSUME NEW k \in Keys
               PROVE  /\ k[1] \in Orders
                      /\ k = <<k[1], "request">> \/ k = <<k[1], "reference">>
BY DEF Keys

(* got moves on by one, or the return was delivered before.                *)
Delivered(o, i) ==
  \/ i = got[o] + 1 /\ got' = [got EXCEPT ![o] = @ + 1]
  \/ i <= got[o] /\ got' = got

LEMMA DeliveredFacts ==
  ASSUME IInv, NEW o \in Orders, NEW i \in 1..Len(rep[o]), Delivered(o, i),
         rep' = rep, order' = order
  PROVE  /\ got' \in [Orders -> Nat] /\ ReportInv' /\ got'[o] > 0
         /\ Reported(o)' = IF got' = got THEN Reported(o) ELSE rep[o][i].cum
         /\ rep[o][i].cum <= Reported(o)' /\ Reported(o) <= Reported(o)'
         /\ Reported(o) \in Nat /\ Reported(o)' \in Nat
         /\ \A p \in Orders : p # o => got'[p] = got[p] /\ Reported(p)' = Reported(p)
<1>1. /\ got \in [Orders -> Nat] /\ rep[o] \in Seq(ReportType) /\ ReportsOf(o)
  BY DEF IInv, TypeOK, ReportInv
<1>2. /\ Len(rep[o]) \in Nat /\ i \in Nat
      /\ \A j \in 1..Len(rep[o]) : rep[o][j].cum \in Nat
  <2>1. \A j \in 1..Len(rep[o]) : rep[o][j] \in ReportType
    BY <1>1
  <2> QED
    BY <1>1, <2>1 DEF ReportType
<1>3. /\ got' \in [Orders -> Nat] /\ got'[o] \in 1..Len(rep[o]) /\ i <= got'[o]
      /\ \A p \in Orders : p # o => got'[p] = got[p]
      /\ got[o] <= got'[o] /\ got[o] \in Nat /\ got'[o] \in Nat
      /\ got' # got => got'[o] = i
  <2>1. got[o] \in Nat /\ got[o] <= Len(rep[o])
    BY <1>1 DEF ReportsOf
  <2>2. CASE i = got[o] + 1 /\ got' = [got EXCEPT ![o] = got[o] + 1]
    BY <1>1, <1>2, <2>1, <2>2
  <2>3. CASE i <= got[o] /\ got' = got
    BY <1>1, <1>2, <2>1, <2>3
  <2> QED
    BY <2>2, <2>3 DEF Delivered
<1>4. ReportInv'
  BY <1>3, SMTT(30) DEF IInv, ReportInv, ReportsOf
<1>5. Reported(o)' = rep[o][got'[o]].cum
  BY <1>3 DEF Reported
<1>6. Reported(o) = IF got[o] = 0 THEN 0 ELSE rep[o][got[o]].cum
  BY DEF Reported
<1>7. got[o] # 0 => got[o] \in 1..got'[o] /\ got[o] \in 1..Len(rep[o])
  BY <1>1, <1>3 DEF ReportsOf
<1>8. i \in 1..got'[o]
  BY <1>3
<1>9. rep[o][i].cum <= Reported(o)' /\ Reported(o) <= Reported(o)'
  BY <1>1, <1>2, <1>3, <1>5, <1>6, <1>7, <1>8 DEF ReportsOf
<1>10. Reported(o) \in Nat /\ Reported(o)' \in Nat
  BY <1>2, <1>3, <1>5, <1>6, <1>7
<1>11. \A p \in Orders : p # o => Reported(p)' = Reported(p)
  BY <1>3 DEF Reported
<1>12. Reported(o)' = IF got' = got THEN Reported(o) ELSE rep[o][i].cum
  BY <1>3, <1>5, <1>6
<1> QED
  BY <1>3, <1>4, <1>9, <1>10, <1>11, <1>12

LEMMA OnRtnOrderInv ==
  ASSUME IInv, NEW o \in Orders, NEW i \in 1..Len(rep[o]), OnRtnOrder(o, i),
         Delivered(o, i), resends' \in Nat
  PROVE  IInv'
<1>a. PICK k : k = <<o, Route(o)>>
  OBVIOUS
<1>b. PICK r : r = rep[o][i]
  OBVIOUS
<1> DEFINE h == [cb EXCEPT !.order = o, !.report = i, !.key = Route(o),
                           !.trade = TradeQty(o, r)]
           c == [h EXCEPT !.release = PendingRelease(k, r),
                          !.delta = TradedDelta(k, r),
                          !.seen = pending[order[o].side]]
<1>1. /\ r \in ReportType /\ i \in Nat
      /\ k \in Keys /\ k[1] = o
      /\ traded[k] \in Nat /\ leaves[k] \in Nat \cup {-1}
      /\ TradedDelta(k, r) \in Nat
      /\ Larger(traded[k], r.cum) = traded[k] + TradedDelta(k, r)
      /\ PendingRelease(k, r) \in Nat
      /\ TradeQty(o, r) \in Nat
      /\ TradeQty(o, r) > 0 => r.cum > 0
  BY <1>a, <1>b, ReturnFacts
<1>2. /\ day' = day /\ account' = account /\ phase' = phase /\ sig' = sig
      /\ sent' = sent /\ order' = order /\ rep' = rep /\ book' = book
      /\ query' = query /\ queries' = queries /\ bound' = bound
      /\ cancel' = cancel /\ counted' = counted /\ crossed' = crossed
  BY DEF OnRtnOrder, broker
<1>3. /\ got' \in [Orders -> Nat] /\ ReportInv' /\ got'[o] > 0
      /\ Reported(o)' = IF got' = got THEN Reported(o) ELSE r.cum
      /\ r.cum <= Reported(o)' /\ Reported(o) <= Reported(o)'
      /\ Reported(o) \in Nat /\ Reported(o)' \in Nat
      /\ \A p \in Orders : p # o => got'[p] = got[p] /\ Reported(p)' = Reported(p)
  BY <1>b, <1>2, DeliveredFacts
<1>4. cb = CbIdle /\ cb.at = "idle" /\ cb.delta = 0 /\ cb \in CbType
  BY DEF IInv, TypeOK, CallbackInv, CbIdle, CbType, OnRtnOrder, CallbackTurn
<1>5. o \in Nat /\ r.cum \in Nat /\ r.leaves \in Nat
      /\ Route(o) \in {"request", "reference"}
      /\ pending[order[o].side] \in Nat
  <2>1. pending \in [Sides -> Nat] /\ order[o] \in OrderType
    BY DEF IInv, TypeOK, OrderType
  <2>2. pending[order[o].side] \in Nat
    BY <2>1 DEF OrderType
  <2>3. o \in Nat
    BY OrderAssumption DEF Orders
  <2> QED
    BY <1>1, <2>2, <2>3 DEF ReportType, Route
<1>6. /\ h \in CbType /\ h.order = o /\ h.key = Route(o) /\ h.trade = TradeQty(o, r)
      /\ h.delta = 0
  BY <1>1, <1>4, <1>5, ZenonT(40) DEF CbType
<1> HIDE DEF h
<1>7. /\ c \in CbType /\ c.order = o /\ c.key = Route(o) /\ c.trade = TradeQty(o, r)
      /\ c.delta = TradedDelta(k, r)
  BY <1>1, <1>5, <1>6 DEF CbType
<1>8. \A p \in Orders : Unstored(p) = 0
  BY <1>4 DEF Unstored
<1>9. lastCum' \in [Orders -> Nat]
  BY <1>b, <1>5 DEF IInv, TypeOK, OnRtnOrder, Larger
<1>10. OrderInv'
  BY <1>2 DEF IInv, OrderInv, OrderOf
(* In both branches: the return counts TradedDelta, and its key has been   *)
(* met.                                                                    *)
<1>11. PICK d \in {h, c} :
        /\ cb' = Onward(d) /\ d \in CbType /\ d.order = o /\ d.key = Route(o)
        /\ d.trade = TradeQty(o, r) /\ d.delta = TradedDelta(k, r)
        /\ traded' \in [Keys -> Nat] /\ traded'[k] = traded[k] + TradedDelta(k, r)
        /\ leaves' \in [Keys -> Nat \cup {-1}] /\ over' \in [Keys -> BOOLEAN]
        /\ fillSeen' \in [Keys -> BOOLEAN] /\ trades' = trades
        /\ Met(k)' /\ (traded'[k] > 0 => fillSeen'[k])
        /\ \A x \in Keys : x # k => /\ traded'[x] = traded[x] /\ Met(x)' = Met(x)
                                    /\ fillSeen'[x] = fillSeen[x]
  <2>1. /\ traded \in [Keys -> Nat] /\ leaves \in [Keys -> Nat \cup {-1}]
        /\ over \in [Keys -> BOOLEAN] /\ fillSeen \in [Keys -> BOOLEAN]
        /\ traded[k] > 0 => fillSeen[k]
    BY <1>1 DEF IInv, TypeOK, KeyInv
  <2>2. CASE Repeated(k, r) /\ cb' = Onward(h) /\ UNCHANGED tables
    <3>1. TradedDelta(k, r) = 0 /\ over[k]
      BY <2>2 DEF Repeated
    <3>2. traded' = traded /\ leaves' = leaves /\ over' = over /\ trades' = trades
          /\ fillSeen' = fillSeen
      BY <2>2 DEF tables
    <3>3. Met(k)' /\ \A x \in Keys : Met(x)' = Met(x)
      BY <3>1, <3>2 DEF Met
    <3>4. traded'[k] = traded[k] + TradedDelta(k, r)
      BY <1>1, <3>1, <3>2
    <3> HIDE DEF c
    <3> WITNESS h \in {h, c}
    <3> QED
      BY <1>6, <2>1, <2>2, <3>1, <3>2, <3>3, <3>4
  <2>3. CASE /\ traded' = [traded EXCEPT ![k] = Larger(@, r.cum)]
             /\ leaves' = [leaves EXCEPT ![k] =
                             IF r.status \in Ended THEN -1 ELSE r.leaves]
             /\ fillSeen' = [fillSeen EXCEPT ![k] = @ \/ TradedDelta(k, r) > 0]
             /\ over' = [over EXCEPT ![k] = @ \/ r.status \in Ended]
             /\ cb' = Onward(c) /\ UNCHANGED trades
    <3>1. traded' = [traded EXCEPT ![k] = traded[k] + TradedDelta(k, r)]
      BY <1>1, <2>3
    <3> HIDE DEF c
    <3>2. traded' \in [Keys -> Nat] /\ traded'[k] = traded[k] + TradedDelta(k, r)
          /\ \A x \in Keys : x # k => traded'[x] = traded[x]
      BY <1>1, <2>1, <3>1
    <3>3. /\ leaves' \in [Keys -> Nat \cup {-1}]
          /\ \A x \in Keys : x # k => leaves'[x] = leaves[x]
          /\ leaves'[k] = IF r.status \in Ended THEN -1 ELSE r.leaves
      BY <1>1, <1>5, <2>1, <2>3
    <3>4. /\ over' \in [Keys -> BOOLEAN]
          /\ \A x \in Keys : x # k => over'[x] = over[x]
          /\ r.status \in Ended => over'[k]
      BY <1>1, <2>1, <2>3, Zenon
    <3>5. /\ fillSeen' \in [Keys -> BOOLEAN]
          /\ \A x \in Keys : x # k => fillSeen'[x] = fillSeen[x]
          /\ fillSeen[k] \/ TradedDelta(k, r) > 0 => fillSeen'[k]
      BY <1>1, <2>1, <2>3, Zenon
    <3>6. Met(k)' /\ \A x \in Keys : x # k => Met(x)' = Met(x)
      BY <1>5, <3>3, <3>4 DEF Met
    <3>7. traded'[k] > 0 => fillSeen'[k]
      BY <1>1, <2>1, <3>2, <3>5
    <3> WITNESS c \in {h, c}
    <3> QED
      BY <1>7, <2>1, <2>3, <3>2, <3>3, <3>4, <3>5, <3>6, <3>7
  <2> QED
    BY <1>a, <1>b, <2>2, <2>3 DEF OnRtnOrder, h
<1> HIDE DEF c
<1>12. /\ cb' \in CbType
       /\ cb'.at = "idle" => cb' = CbIdle
       /\ cb'.at # "idle" => cb'.order = o /\ cb'.key = Route(o) /\ cb'.trade = TradeQty(o, r)
       /\ cb'.at = "trade" => cb'.trade > 0
       /\ cb'.at \in {"loaded", "released"} => cb'.delta = TradedDelta(k, r)
       /\ cb'.at \notin {"loaded", "released"} => TradedDelta(k, r) = 0
  BY <1>11, OnwardFacts
<1>13. TypeOK'
  <2>1. /\ resends' \in Nat /\ got' \in [Orders -> Nat] /\ lastCum' \in [Orders -> Nat]
        /\ (cb'.at # "idle" => cb'.order \in Orders)
    BY <1>3, <1>9, <1>12
  <2> QED
    BY <1>2, <1>11, <1>12, <2>1 DEF IInv, TypeOK, CbType, account
<1>14. CallbackInv'
  <2>1. ASSUME cb'.at # "idle", cb'.trade > 0
        PROVE  fillSeen'[<<cb'.order, cb'.key>>]
    <3>1. <<cb'.order, cb'.key>> = k /\ r.cum > 0
      BY <1>1, <1>a, <1>12, <2>1
    <3>2. traded[k] + TradedDelta(k, r) >= r.cum
      BY <1>1, <1>5 DEF Larger
    <3>3. traded'[k] > 0
      BY <1>1, <1>5, <1>11, <3>1, <3>2
    <3> QED
      BY <1>11, <3>1, <3>3
  <2> QED
    BY <1>12, <2>1 DEF CallbackInv
<1>15. KeyInv'
  <2> SUFFICES ASSUME NEW x \in Keys
               PROVE  /\ ~Met(x)' => traded'[x] = 0
                      /\ traded'[x] > 0 => fillSeen'[x]
                      /\ got'[x[1]] = 0 => ~Met(x)'
    BY DEF KeyInv
  <2>1. x[1] \in Orders /\ (~Met(x) => traded[x] = 0) /\ (traded[x] > 0 => fillSeen[x])
        /\ (got[x[1]] = 0 => ~Met(x))
    BY KeyOf DEF IInv, KeyInv
  <2>2. CASE x = k
    BY <1>1, <1>3, <1>11, <2>2
  <2>3. CASE x # k
    <3>1. got'[x[1]] = 0 => got[x[1]] = 0
      BY <1>3, <2>1
    <3> QED
      BY <1>11, <2>1, <2>3, <3>1
  <2> QED
    BY <2>2, <2>3
<1>16. \A p \in Orders : Unstored(p)' = IF p = o THEN TradedDelta(k, r) ELSE 0
  BY <1>12 DEF Unstored
<1>17. TradedOf(o)'
  <2> DEFINE req == <<o, "request">>
             ref == <<o, "reference">>
  <2>1. /\ req \in Keys /\ ref \in Keys /\ req # ref /\ (k = req \/ k = ref)
        /\ traded[req] \in Nat /\ traded[ref] \in Nat /\ counted[o] \in Nat
    BY <1>a, <1>5, KeyFacts DEF IInv, TypeOK
  <2>2. TradedOf(o) /\ Unstored(o) = 0
    BY <1>8 DEF IInv, TradedInv
  <2>3. counted'[o] + Unstored(o)' = traded'[req] + traded'[ref]
    <3>1. counted[o] = traded[req] + traded[ref]
      BY <2>1, <2>2 DEF TradedOf
    <3>2. Unstored(o)' = TradedDelta(k, r) /\ counted'[o] = counted[o]
      BY <1>2, <1>16
    <3>3. \/ traded'[req] = traded[req] + TradedDelta(k, r) /\ traded'[ref] = traded[ref]
          \/ traded'[ref] = traded[ref] + TradedDelta(k, r) /\ traded'[req] = traded[req]
      BY <1>11, <2>1
    <3> QED
      BY <1>1, <2>1, <3>1, <3>2, <3>3
  <2>4. Met(req)' \/ Met(ref)'
    BY <1>11, <2>1
  <2>5. ASSUME ~TwoKeys(o)', NEW x \in Keys, x[1] = o, Met(x)'
        PROVE  traded'[x] = Reported(o)'
    <3>1. x = k
      BY <1>11, <2>1, <2>5, KeyOf, ZenonT(40) DEF TwoKeys
    <3>2. ~TwoKeys(o) /\ \A y \in {req, ref} : y # k => ~Met(y)
      BY <1>11, <2>1, <2>5 DEF TwoKeys
    <3>3. CASE Met(k)
      <4>1. traded[k] = Reported(o)
        BY <1>1, <2>2, <3>2, <3>3 DEF TradedOf
      <4> QED
        BY <1>1, <1>3, <1>5, <1>11, <3>1, <4>1 DEF Larger
    <3>4. CASE ~Met(k)
      <4>1. ~Met(req) /\ ~Met(ref)
        BY <2>1, <3>2, <3>4
      <4>2. got[o] = 0 /\ traded[k] = 0
        <5>1. got[o] \in Nat
          BY DEF IInv, TypeOK
        <5> QED
          BY <1>1, <2>2, <3>4, <4>1, <5>1 DEF TradedOf, IInv, KeyInv
      <4> QED
        BY <1>1, <1>3, <1>5, <1>11, <3>1, <4>2 DEF Larger
    <3> QED
      BY <3>3, <3>4
  <2> QED
    BY <2>3, <2>4, <2>5 DEF TradedOf
<1>18. ASSUME NEW p \in Orders, p # o PROVE TradedOf(p)'
  <2>1. TradedOf(p) /\ Unstored(p) = 0 /\ Unstored(p)' = 0
    BY <1>8, <1>16, <1>18 DEF IInv, TradedInv
  <2>2. /\ \A x \in Keys : x[1] = p => x # k
        /\ <<p, "request">> \in Keys /\ <<p, "reference">> \in Keys
        /\ <<p, "request">> # k /\ <<p, "reference">> # k
    <3>1. <<p, "request">>[1] = p /\ <<p, "reference">>[1] = p
      OBVIOUS
    <3> QED
      BY <1>1, <1>18, <3>1, KeyFacts
  <2>3. got'[p] = got[p] /\ Reported(p)' = Reported(p) /\ counted'[p] = counted[p]
    BY <1>2, <1>3, <1>18
  <2>4. TwoKeys(p)' = TwoKeys(p)
    BY <1>11, <2>2 DEF TwoKeys
  <2> QED
    BY <1>11, <2>1, <2>2, <2>3, <2>4 DEF TradedOf
<1>19. TradedInv'
  BY <1>17, <1>18 DEF TradedInv
<1> QED
  BY <1>3, <1>10, <1>13, <1>14, <1>15, <1>19 DEF IInv

LEMMA NextReturnInv == ASSUME IInv, NEW o \in Orders, NextReturn(o) PROVE IInv'
<1>1. /\ got \in [Orders -> Nat] /\ rep[o] \in Seq(ReportType) /\ resends \in Nat
  BY DEF IInv, TypeOK
<1>2. got[o] + 1 \in 1..Len(rep[o])
  BY <1>1 DEF NextReturn
<1>3. OnRtnOrder(o, got[o] + 1) /\ Delivered(o, got[o] + 1) /\ resends' \in Nat
  BY <1>1 DEF NextReturn, Delivered
<1> QED
  BY <1>2, <1>3, OnRtnOrderInv

LEMMA ReturnAgainInv == ASSUME IInv, NEW o \in Orders, ReturnAgain(o) PROVE IInv'
<1>1. /\ got[o] \in Nat /\ rep[o] \in Seq(ReportType) /\ resends \in Nat
      /\ got[o] <= Len(rep[o])
  BY DEF IInv, TypeOK, ReportInv, ReportsOf
<1>2. PICK i \in 1..got[o] : OnRtnOrder(o, i)
  BY DEF ReturnAgain
<1>3. i \in 1..Len(rep[o]) /\ i <= got[o]
  BY <1>1
<1>4. Delivered(o, i) /\ resends' \in Nat
  BY <1>1, <1>3 DEF ReturnAgain, Delivered
<1> QED
  BY <1>2, <1>3, <1>4, OnRtnOrderInv

(* The release of a return, and then the position it moves.                *)
LEMMA CallbackFacts ==
  ASSUME IInv, cb.at # "idle"
  PROVE  /\ cb \in CbType /\ cb.order \in Orders /\ order[cb.order] \in OrderType
         /\ <<cb.order, cb.key>> \in Keys
         /\ pi \in Int /\ shortable \in Int /\ counted \in [Orders -> Nat]
         /\ pending \in [Sides -> Nat]
         /\ cb.trade > 0 => fillSeen[<<cb.order, cb.key>>]
BY DEF IInv, TypeOK, OrderType, CbType, CallbackInv, Keys

(* The position moves by q, and the rest of the return is left to do.      *)
LEMMA OnwardInv ==
  ASSUME IInv, cb.at # "idle", NEW c \in CbType, cb' = Onward(c), c.order = cb.order,
         c.key = cb.key, c.trade = cb.trade, TypeOK',
         counted'[cb.order] + c.delta = counted[cb.order] + Unstored(cb.order),
         \A p \in Orders : p # cb.order => counted'[p] = counted[p],
         UNCHANGED <<traded, leaves, fillSeen, over, sent, order, rep, got>>
  PROVE  IInv'
<1>1. /\ cb' \in CbType
      /\ cb'.at = "idle" => cb' = CbIdle
      /\ cb'.at # "idle" => /\ cb'.order = cb.order /\ cb'.key = cb.key
                            /\ cb'.trade = cb.trade
      /\ cb'.at = "trade" => cb'.trade > 0
      /\ cb'.at \in {"loaded", "released"} => cb'.delta = c.delta
      /\ cb'.at \notin {"loaded", "released"} => c.delta = 0
  BY OnwardFacts
<1>2. OrderInv' /\ ReportInv' /\ KeyInv'
  BY DEF IInv, OrderInv, OrderOf, ReportInv, ReportsOf, KeyInv, Met
<1>3. CallbackInv'
  BY <1>1 DEF IInv, CallbackInv
<1>4. \A p \in Orders : counted'[p] + Unstored(p)' = counted[p] + Unstored(p)
  BY <1>1 DEF Unstored
<1>5. TradedInv'
  BY <1>4 DEF IInv, TradedInv, TradedOf, TwoKeys, Met, Reported
<1> QED
  BY <1>2, <1>3, <1>5 DEF IInv

LEMMA StoreReleaseInv == ASSUME IInv, StoreRelease PROVE IInv'
<1>1. /\ cb \in CbType /\ cb.order \in Orders /\ order[cb.order] \in OrderType
      /\ pending \in [Sides -> Nat] /\ cb.at = "loaded" /\ counted \in [Orders -> Nat]
  BY CallbackFacts DEF StoreRelease
<1> DEFINE c == [cb EXCEPT !.release = 0, !.seen = 0]
<1>2. /\ c \in CbType /\ c.order = cb.order /\ c.key = cb.key /\ c.trade = cb.trade
      /\ c.delta = cb.delta
  BY <1>1 DEF CbType
<1>3. cb' = Onward(c)
  BY DEF StoreRelease
<1> HIDE DEF c
<1>4. pending' \in [Sides -> Nat]
  <2>1. NotNegative(cb.seen - cb.release) \in Nat
    <3>1. cb.seen - cb.release \in Int
      BY <1>1 DEF CbType
    <3> QED
      BY <3>1 DEF NotNegative, Larger
  <2> QED
    BY <1>1, <2>1 DEF StoreRelease
<1>5. cb' \in CbType /\ (cb'.at # "idle" => cb'.order \in Orders)
  BY <1>1, <1>2, <1>3, OnwardFacts
<1>6. TypeOK'
  BY <1>4, <1>5 DEF IInv, TypeOK, CbType, StoreRelease, tables, broker, gateway
<1>7. Unstored(cb.order) = cb.delta /\ counted' = counted
  BY <1>1 DEF Unstored, StoreRelease
<1> QED
  BY <1>1, <1>2, <1>3, <1>6, <1>7, OnwardInv DEF StoreRelease, tables, broker, gateway

LEMMA StorePositionInv == ASSUME IInv, StorePosition PROVE IInv'
<1>1. /\ cb \in CbType /\ cb.order \in Orders /\ order[cb.order] \in OrderType
      /\ pi \in Int /\ shortable \in Int /\ counted \in [Orders -> Nat]
      /\ cb.at = "released"
  BY CallbackFacts DEF StorePosition
<1> DEFINE c == [cb EXCEPT !.delta = 0]
<1>2. /\ c \in CbType /\ c.order = cb.order /\ c.key = cb.key /\ c.trade = cb.trade
      /\ c.delta = 0
  BY <1>1 DEF CbType
<1>3. cb' = Onward(c)
  BY DEF StorePosition
<1> HIDE DEF c
<1>4. cb.delta \in Nat /\ counted[cb.order] \in Nat
  BY <1>1 DEF CbType
<1>5. /\ pi' \in Int /\ shortable' \in Int
      /\ counted' = [counted EXCEPT ![cb.order] = counted[cb.order] + cb.delta]
  BY <1>1, <1>4 DEF StorePosition, Traded, NotNegative, Larger
<1>6. counted' \in [Orders -> Nat]
  BY <1>1, <1>4, <1>5
<1>7. cb' \in CbType /\ (cb'.at # "idle" => cb'.order \in Orders)
  BY <1>1, <1>2, <1>3, OnwardFacts
<1>8. TypeOK'
  BY <1>5, <1>6, <1>7 DEF IInv, TypeOK, CbType, StorePosition, tables, broker, gateway
<1>9. Unstored(cb.order) = cb.delta
  BY <1>1 DEF Unstored
<1>10. counted'[cb.order] + c.delta = counted[cb.order] + Unstored(cb.order)
  BY <1>1, <1>2, <1>4, <1>5, <1>9
<1>11. \A p \in Orders : p # cb.order => counted'[p] = counted[p]
  BY <1>1, <1>5
<1> QED
  BY <1>1, <1>2, <1>3, <1>8, <1>10, <1>11, OnwardInv
     DEF StorePosition, tables, broker, gateway

(* The fills that a trade return speaks of were counted.                   *)
LEMMA TradeSeen == ASSUME IInv, OnRtnTrade
                   PROVE  UNCHANGED <<account, tables, counted>> /\ cb' = CbIdle
<1>1. fillSeen[<<cb.order, cb.key>>]
  BY DEF IInv, CallbackInv, OnRtnTrade
<1> QED
  BY <1>1 DEF OnRtnTrade

LEMMA OnRtnTradeInv == ASSUME IInv, OnRtnTrade PROVE IInv'
<1>1. UNCHANGED <<account, tables, counted>> /\ cb' = CbIdle
  BY TradeSeen
<1>2. CbIdle \in CbType /\ CbIdle.at = "idle" /\ cb.at = "trade"
  BY DEF CbIdle, CbType, OnRtnTrade
<1>3. TypeOK'
  BY <1>1, <1>2 DEF IInv, TypeOK, CbType, OnRtnTrade, account, tables, broker, gateway
<1>4. OrderInv' /\ ReportInv' /\ KeyInv'
  BY <1>1 DEF IInv, OrderInv, OrderOf, ReportInv, ReportsOf, KeyInv, Met, OnRtnTrade,
              tables, broker, gateway
<1>5. CallbackInv'
  BY <1>1, <1>2 DEF CallbackInv
<1>6. \A p \in Orders : Unstored(p)' = Unstored(p)
  BY <1>1, <1>2 DEF Unstored
<1>7. TradedInv'
  BY <1>1, <1>6 DEF IInv, TradedInv, TradedOf, TwoKeys, Met, Reported, OnRtnTrade,
                    tables, broker, gateway
<1> QED
  BY <1>3, <1>4, <1>5, <1>7 DEF IInv

-----------------------------------------------------------------------------
LEMMA NextInv == IInv /\ [Next]_vars => IInv'
<1> SUFFICES ASSUME IInv, [Next]_vars PROVE IInv'
  OBVIOUS
<1>1. ASSUME NEW s \in Sides, Submit(s) PROVE IInv'
  BY <1>1, SubmitInv
<1>2. CASE SignalStep
  BY <1>2, SignalStepInv
<1>3. ASSUME NEW o \in Orders,
             \/ Accept(o) \/ Reject(o) \/ Fill(o) \/ Withdraw(o) \/ Respond(o)
             \/ CancelFires(o) \/ NextReturn(o) \/ ReturnAgain(o)
      PROVE  IInv'
  BY <1>3, AcceptInv, RejectInv, FillInv, WithdrawInv, RespondInv, CancelFiresInv,
     NextReturnInv, ReturnAgainInv
<1>4. CASE CallbackStep
  BY <1>4, StoreReleaseInv, StorePositionInv, OnRtnTradeInv DEF CallbackStep
<1>5. CASE QueryPositions \/ OnRtnPosOption
  BY <1>5, QueryPositionsInv, OnRtnPosOptionInv
<1>6. CASE UNCHANGED vars
  <2>1. TypeOK'
    BY <1>6 DEF IInv, TypeOK, vars, account, tables, broker, gateway
  <2> QED
    BY <1>6, <2>1, FillsUntouched DEF fills, vars, tables, broker, gateway
<1> QED
  BY <1>1, <1>2, <1>3, <1>4, <1>5, <1>6 DEF Next

THEOREM Invariance == Spec => []IInv
BY InitInv, NextInv, PTL DEF Spec

(* Every variable keeps its type for any set of days and number of orders: *)
(* whatever two threads lose of an addition or a release, a pending        *)
(* quantity stays a natural number (on_rtn_order, handleT0).               *)
THEOREM TypeCorrect == Spec => []TypeOK
<1>1. IInv => TypeOK
  BY DEF IInv
<1> QED
  BY <1>1, Invariance, PTL

(* An order that is known under one key has been counted as reported.      *)
LEMMA FillsCounted == IInv => FillsCountedOnce
<1> SUFFICES ASSUME IInv, NEW o \in Orders, ~TwoKeys(o)
             PROVE  counted[o] + Unstored(o) = Reported(o)
  BY DEF FillsCountedOnce
<1> DEFINE req == <<o, "request">>
           ref == <<o, "reference">>
<1>1. /\ req \in Keys /\ ref \in Keys /\ req[1] = o /\ ref[1] = o
      /\ traded[req] \in Nat /\ traded[ref] \in Nat /\ got[o] \in Nat
  BY KeyFacts DEF IInv, TypeOK
<1>2. TradedOf(o) /\ (\A k \in {req, ref} : /\ ~Met(k) => traded[k] = 0
                                            /\ got[o] = 0 => ~Met(k))
  BY <1>1 DEF IInv, TradedInv, KeyInv
<1>3. CASE got[o] = 0
  BY <1>1, <1>2, <1>3 DEF TradedOf, Reported
<1>4. CASE Met(req) /\ ~Met(ref)
  <2>1. traded[req] = Reported(o) /\ traded[ref] = 0
    BY <1>1, <1>2, <1>4 DEF TradedOf
  <2> QED
    BY <1>1, <1>2, <2>1 DEF TradedOf
<1>5. CASE Met(ref) /\ ~Met(req)
  <2>1. traded[ref] = Reported(o) /\ traded[req] = 0
    BY <1>1, <1>2, <1>5 DEF TradedOf
  <2> QED
    BY <1>1, <1>2, <2>1 DEF TradedOf
<1> QED
  BY <1>1, <1>2, <1>3, <1>4, <1>5 DEF TradedOf, TwoKeys

(* For any number of orders, partial fills, repetitions and queries, and   *)
(* with signals on a thread of their own: pi has been moved by what the    *)
(* broker last reported of an order that is known under one key            *)
(* (on_rtn_order, on_rtn_trade).                                           *)
THEOREM FillsOnce == Spec => []FillsCountedOnce
BY FillsCounted, Invariance, PTL

(* A trade return that TDEngineGXBSE hands on behind its order return      *)
(* never moves the account, whatever the order of responses, returns and   *)
(* repetitions (push_trade_if_needed, on_rtn_trade).                       *)
THEOREM TradesInert == Spec => TradeReturnsAreInert
<1>1. IInv => [OnRtnTrade => UNCHANGED <<account, tables>>]_vars
  BY TradeSeen
<1> QED
  BY <1>1, Invariance, PTL DEF Spec, TradeReturnsAreInert
=============================================================================
