-------------------------- MODULE OrderAccounting --------------------------
(***************************************************************************)
(* How one instrument's strategy accounts for its orders and its position  *)
(* (src/t0-main/strategy/ZStrategy.cpp, sze_position_risk.h), behind the   *)
(* trading gateway TDEngineGXBSE.  A signal sizes an order by what is left *)
(* of the limits, submits it, and then adds it to the pending quantity of  *)
(* its side; the gateway's returns take pending quantity away and move the *)
(* position; a timer cancels the order once; the gateway's periodic        *)
(* position query overwrites the position.                                 *)
(*                                                                         *)
(* Signals come on the framework's thread or, when the recovery consumer   *)
(* is on, on the poll thread.  Returns come on the framework's thread or,  *)
(* for an order that was submitted directly, on the broker API's.  None of *)
(* pi, vl_pos, vs_pos and shortable is atomic, and the mutex of            *)
(* sync_startup_position is taken nowhere else: an addition to a pending   *)
(* quantity is a load and a store, and so is a subtraction.                *)
(*                                                                         *)
(* Quantities are lots.  Prices, predictions and the one-second block of a *)
(* side after a refused submission only decide whether there is an order   *)
(* and how large it is: any order that the capacity allows may be sent, or *)
(* none.  The test order of the configuration, which is sent without       *)
(* looking at the capacity and without a reservation, is left out.  The    *)
(* broker and the framework are external: what they send is modelled by    *)
(* what the gateway is written to receive.                                 *)
(***************************************************************************)
EXTENDS Integers, Sequences, FiniteSets, Functions

CONSTANTS Static,     \* static_position
          Days,       \* the days a run looks at, see DayType
          MaxOrders   \* bound: orders of a day

(* A day: whether signals and returns have threads of their own, the       *)
(* position after the start-up query, position_limit through the day,      *)
(* max_order_volume, and three bounds: orders, returns that the broker     *)
(* sends again, position queries.                                          *)
DayType == [threaded : BOOLEAN, total : Nat, available : Nat,
            limits : Seq(Nat) \ {<<>>}, lots : Nat,
            orders : 0..MaxOrders, resends : Nat, queries : Nat]

ASSUME OrderAssumption ==
  /\ Static \in Nat /\ MaxOrders \in Nat
  /\ Days \subseteq DayType

Orders == 1..MaxOrders
Sides == {"buy", "sell"}
Other(side) == IF side = "buy" THEN "sell" ELSE "buy"

(* OrderStateKey: a return whose route the gateway does not know carries   *)
(* request id -1 and is kept under its order reference.                    *)
Keys == Orders \X {"request", "reference"}

VARIABLES
  day,             \* the day this is; never changes
  pi, shortable,   \* context.pi and i_params.shortable
  pending,         \* vl_pos ("buy") and vs_pos ("sell")
  phase,           \* the part of the day: day.limits[phase] is the limit
  traded, leaves,  \* order_ref_last_traded_ and order_ref_last_leaves_ (-1: none)
  fillSeen, over,  \* order_fill_from_order_seen_, terminal_order_state_keys_
  trades,          \* seen_trade_keys_
  sig,             \* the signal's thread: where it is, what it has loaded
  cb,              \* the framework's thread: likewise, and its return
  sent,            \* orders submitted; order references are 1..sent
  order,           \* an order at the broker
  rep, got,        \* the returns of an order, and how many have come
  book,            \* the broker's book: total position, available position
  bound, lastCum,  \* clord_to_route_ has the order; its last_cum_qty
  cancel,          \* the order's cancel timer
  query, queries,  \* the periodic query, and how many there were
  resends,         \* returns that came again
  counted,         \* history: what pi has been moved by for an order
  crossed          \* history: an order was sent while a query was under way

account == <<pi, shortable, pending>>
tables == <<traded, leaves, fillSeen, over, trades>>
broker == <<order, rep, book, query, queries, crossed>>
gateway == <<got, bound, lastCum, resends>>
vars == <<day, account, phase, tables, sig, cb, sent, broker, gateway,
          cancel, counted>>

Larger(a, b) == IF a >= b THEN a ELSE b
Smaller(a, b) == IF a <= b THEN a ELSE b
NotNegative(n) == Larger(n, 0)

Unsent == [side |-> "buy", qty |-> 0, cum |-> 0, state |-> "none"]
SigIdle == [at |-> "idle", order |-> 1, seen |-> 0]
CbIdle == [at |-> "idle", order |-> 1, report |-> 1, key |-> "request",
           release |-> 0, delta |-> 0, seen |-> 0, trade |-> 0]
NoQuery == [at |-> "none", total |-> 0, available |-> 0]

Init == /\ day \in Days
        /\ pi = day.total - Static
        /\ shortable = Smaller(day.available, day.total)
        /\ pending = [s \in Sides |-> 0] /\ phase = 1
        /\ traded = [k \in Keys |-> 0] /\ leaves = [k \in Keys |-> -1]
        /\ fillSeen = [k \in Keys |-> FALSE] /\ over = [k \in Keys |-> FALSE]
        /\ trades = {}
        /\ sig = SigIdle /\ cb = CbIdle /\ sent = 0
        /\ order = [o \in Orders |-> Unsent]
        /\ rep = [o \in Orders |-> <<>>] /\ got = [o \in Orders |-> 0]
        /\ book = [total |-> day.total, available |-> day.available]
        /\ bound = [o \in Orders |-> FALSE]
        /\ lastCum = [o \in Orders |-> 0]
        /\ cancel = [o \in Orders |-> "none"]
        /\ query = NoQuery /\ queries = 0 /\ resends = 0
        /\ counted = [o \in Orders |-> 0] /\ crossed = FALSE

-----------------------------------------------------------------------------
(* A signal: setOffset, handleT0, hitBuy or hitSell, insertOrder.          *)

MaxCanBuy(limit) ==
  NotNegative(Smaller(shortable, limit) - pi - pending["buy"])

(* Mutated form: the sells already on their way are not taken off.         *)
MaxCanSellAgain(limit) ==
  NotNegative(Smaller(Smaller(shortable, limit + pi), Static + pi))

MaxCanSell(limit) ==
  NotNegative(Smaller(Smaller(shortable, limit + pi),
                      Static + pi) - pending["sell"])

Capacity(side, limit) ==
  IF side = "buy" THEN MaxCanBuy(limit) ELSE MaxCanSell(limit)

(* CanBuy and CanSell: nothing is pending on the other side.               *)
CanSend(side) == pending[Other(side)] = 0

(* Otherwise one thread runs signals and returns.                          *)
SignalTurn == sig.at = "idle" /\ (day.threaded \/ cb.at = "idle")
CallbackTurn == cb.at = "idle" /\ (day.threaded \/ sig.at = "idle")

(* An order to sell takes its lots from what the broker holds available;   *)
(* what it does not sell comes back when it ends.                          *)
Freeze(side, n) == book' = IF side = "sell"
                           THEN [book EXCEPT !.available = @ - n] ELSE book

(* insert_limit_order has accepted the order; its cancel is on the timer.  *)
Submit(side) ==
  /\ SignalTurn /\ sent < day.orders /\ CanSend(side)
  /\ \E p \in phase..Len(day.limits) :
       /\ phase' = p
       /\ \E q \in 1..Smaller(day.lots, Capacity(side, day.limits[p])) :
            /\ order' = [order EXCEPT ![sent + 1] =
                 [side |-> side, qty |-> q, cum |-> 0, state |-> "sent"]]
            /\ Freeze(side, q)
  /\ sent' = sent + 1
  /\ cancel' = [cancel EXCEPT ![sent + 1] = "armed"]
  /\ sig' = [sig EXCEPT !.at = "accepted", !.order = sent + 1]
  /\ crossed' = (crossed \/ query.at = "answered")
  /\ UNCHANGED <<day, account, tables, cb, rep, query, queries, gateway,
                 counted>>

(* vl_pos += Volume, or vs_pos += Volume, after the submission.            *)
LoadReserve ==
  /\ sig.at = "accepted"
  /\ sig' = [sig EXCEPT !.at = "loaded",
                        !.seen = pending[order[sig.order].side]]
  /\ UNCHANGED <<day, account, phase, tables, cb, sent, broker, gateway,
                 cancel, counted>>

StoreReserve ==
  /\ sig.at = "loaded"
  /\ pending' = [pending EXCEPT ![order[sig.order].side] =
                   sig.seen + order[sig.order].qty]
  /\ sig' = SigIdle
  /\ UNCHANGED <<day, pi, shortable, phase, tables, cb, sent, broker,
                 gateway, cancel, counted>>

-----------------------------------------------------------------------------
(* The broker.  Its steps share no variable with the loads and stores of   *)
(* the two threads, so it makes no difference to leave them out between a  *)
(* load and its store.                                                     *)

BrokerTurn == cb.at = "idle" /\ sig.at # "loaded"

Report(status, o, cum, left, last) ==
  rep' = [rep EXCEPT ![o] = Append(@, [status |-> status, cum |-> cum,
                                       leaves |-> left, last |-> last])]

BrokerStep == UNCHANGED <<day, account, phase, tables, sig, cb, sent,
                          query, queries, got, lastCum, resends, cancel,
                          counted, crossed>>

Accept(o) == /\ BrokerTurn
             /\ order[o].state = "sent"
             /\ order' = [order EXCEPT ![o].state = "open"]
             /\ Report("new", o, 0, order[o].qty, 0)
             /\ UNCHANGED <<book, bound>> /\ BrokerStep

Reject(o) == /\ BrokerTurn
             /\ order[o].state = "sent"
             /\ order' = [order EXCEPT ![o].state = "ended"]
             /\ Report("error", o, 0, 0, 0)
             /\ Freeze(order[o].side, -order[o].qty)
             /\ UNCHANGED bound /\ BrokerStep

Fill(o) ==
  /\ BrokerTurn
  /\ order[o].state = "open"
  /\ LET cum == order[o].cum + 1
         left == order[o].qty - cum
     IN /\ order' = [order EXCEPT ![o].cum = cum,
                       ![o].state = IF left = 0 THEN "ended" ELSE "open"]
        /\ Report(IF left = 0 THEN "filled" ELSE "part", o, cum, left, 1)
        /\ book' = [book EXCEPT !.total =
                      IF order[o].side = "buy" THEN @ + 1 ELSE @ - 1]
  /\ UNCHANGED bound /\ BrokerStep

Withdraw(o) == /\ BrokerTurn
               /\ order[o].state = "open" /\ cancel[o] = "asked"
               /\ order' = [order EXCEPT ![o].state = "ended"]
               /\ Report("canceled", o, order[o].cum, 0, 0)
               /\ Freeze(order[o].side, order[o].cum - order[o].qty)
               /\ UNCHANGED bound /\ BrokerStep

(* on_rsp_cash_auction_order: the response binds the broker's number to    *)
(* the route.  When it refuses the order nothing else is said of it, and   *)
(* the strategy has no handler for it.                                     *)
Respond(o) ==
  /\ BrokerTurn
  /\ order[o].state # "none" /\ ~bound[o]
  /\ bound' = [bound EXCEPT ![o] = TRUE]
  /\ \/ UNCHANGED <<order, book>>
     \/ /\ order[o].state = "sent"
        /\ order' = [order EXCEPT ![o].state = "refused"]
        /\ Freeze(order[o].side, -order[o].qty)
  /\ UNCHANGED rep /\ BrokerStep

(* cancel_order on the timer, req_order_action: without the broker's       *)
(* number the cancel fails, and nothing asks again.                        *)
CancelFires(o) ==
  /\ BrokerTurn
  /\ cancel[o] = "armed"
  /\ cancel' = [cancel EXCEPT ![o] = IF bound[o] THEN "asked" ELSE "missed"]
  /\ UNCHANGED <<day, account, phase, tables, sig, cb, sent, broker,
                 gateway, counted>>

-----------------------------------------------------------------------------
(* A return: on_rtn_cash_auction_order hands on an order return and, when  *)
(* the broker says that something was traded, a trade return.              *)

Ended == {"filled", "canceled", "error"}
Route(o) == IF bound[o] THEN "request" ELSE "reference"

TradeQty(o, r) ==
  IF r.last > 0 THEN r.last
  ELSE NotNegative(r.cum - IF bound[o] THEN lastCum[o] ELSE 0)

(* What ZStrategy::on_rtn_order makes of report r under key k.             *)
(* Mutated forms: the report's own trade instead of the difference to what *)
(* was counted; nothing released but fills; no case for a last return.     *)
TradedDeltaOfReport(k, r) == r.last

TradedDelta(k, r) == NotNegative(r.cum - traded[k])

CancelDelta(k, r) ==
  IF leaves[k] >= 0 THEN NotNegative(leaves[k] - r.leaves - TradedDelta(k, r))
  ELSE 0

TerminalRelease(k, r) ==
  IF leaves[k] >= 0 THEN leaves[k]
  ELSE Larger(r.leaves + TradedDelta(k, r), order[k[1]].qty - traded[k])

PendingReleaseOfFills(k, r) == TradedDelta(k, r)
PendingReleasePlain(k, r) == TradedDelta(k, r) + CancelDelta(k, r)

PendingRelease(k, r) ==
  LET plain == TradedDelta(k, r) + CancelDelta(k, r)
  IN IF r.status \in Ended THEN Larger(plain, TerminalRelease(k, r)) ELSE plain

Repeated(k, r) == r.status \in Ended /\ TradedDelta(k, r) = 0 /\ over[k]

(* What is left to do of a return: store the pending quantity, then the    *)
(* position, then hand on the trade.                                       *)
Onward(c) == IF c.release > 0 THEN [c EXCEPT !.at = "loaded"]
             ELSE IF c.delta > 0 THEN [c EXCEPT !.at = "released"]
             ELSE IF c.trade > 0 THEN [c EXCEPT !.at = "trade"]
             ELSE CbIdle

OnRtnOrder(o, i) ==
  LET r == rep[o][i]
      k == <<o, Route(o)>>
      handled == [cb EXCEPT !.order = o, !.report = i, !.key = Route(o),
                            !.trade = TradeQty(o, r)]
  IN /\ CallbackTurn
     /\ lastCum' = IF bound[o]
                   THEN [lastCum EXCEPT ![o] = Larger(@, r.cum)] ELSE lastCum
     /\ \/ /\ Repeated(k, r)
           /\ cb' = Onward(handled)
           /\ UNCHANGED tables
        \/ /\ ~Repeated(k, r)
           /\ traded' = [traded EXCEPT ![k] = Larger(@, r.cum)]
           /\ leaves' = [leaves EXCEPT ![k] =
                           IF r.status \in Ended THEN -1 ELSE r.leaves]
           /\ fillSeen' = [fillSeen EXCEPT ![k] = @ \/ TradedDelta(k, r) > 0]
           /\ over' = [over EXCEPT ![k] = @ \/ r.status \in Ended]
           /\ cb' = Onward([handled EXCEPT !.release = PendingRelease(k, r),
                                           !.delta = TradedDelta(k, r),
                                           !.seen = pending[order[o].side]])
           /\ UNCHANGED trades
     /\ UNCHANGED <<day, account, phase, sig, sent, broker, bound, cancel,
                    counted>>

(* The next return of an order, or one that the broker sends again.        *)
NextReturn(o) == /\ got[o] < Len(rep[o])
                 /\ OnRtnOrder(o, got[o] + 1)
                 /\ got' = [got EXCEPT ![o] = @ + 1]
                 /\ UNCHANGED resends

ReturnAgain(o) == /\ resends < day.resends
                  /\ \E i \in 1..got[o] : OnRtnOrder(o, i)
                  /\ resends' = resends + 1
                  /\ UNCHANGED got

(* Mutated form: no floor.                                                 *)
StoreReleaseUnclamped ==
  /\ cb.at = "loaded"
  /\ pending' = [pending EXCEPT ![order[cb.order].side] = cb.seen - cb.release]
  /\ cb' = Onward([cb EXCEPT !.release = 0, !.seen = 0])
  /\ UNCHANGED <<day, pi, shortable, phase, tables, sig, sent, broker,
                 gateway, cancel, counted>>

(* vl_pos = max(0, vl_pos - pending_release), likewise vs_pos.             *)
StoreRelease ==
  /\ cb.at = "loaded"
  /\ pending' = [pending EXCEPT ![order[cb.order].side] =
                   NotNegative(cb.seen - cb.release)]
  /\ cb' = Onward([cb EXCEPT !.release = 0, !.seen = 0])
  /\ UNCHANGED <<day, pi, shortable, phase, tables, sig, sent, broker,
                 gateway, cancel, counted>>

(* Bought or sold q lots: pi, and what can still be sold today.            *)
Traded(o, q) ==
  /\ pi' = IF order[o].side = "buy" THEN pi + q ELSE pi - q
  /\ shortable' = IF order[o].side = "buy" THEN shortable
                  ELSE NotNegative(shortable - q)
  /\ counted' = [counted EXCEPT ![o] = @ + q]

StorePosition ==
  /\ cb.at = "released"
  /\ Traded(cb.order, cb.delta)
  /\ cb' = Onward([cb EXCEPT !.delta = 0])
  /\ UNCHANGED <<day, pending, phase, tables, sig, sent, broker, gateway,
                 cancel>>

(* Mutated form: only a trade seen before is left alone.                   *)
OnRtnTradeById ==
  LET id == <<cb.order, cb.report>>
  IN /\ cb.at = "trade" /\ cb' = CbIdle
     /\ IF id \in trades
        THEN UNCHANGED <<account, tables, counted>>
        ELSE /\ trades' = trades \cup {id}
             /\ Traded(cb.order, cb.trade)
             /\ UNCHANGED <<pending, traded, leaves, fillSeen, over>>
     /\ UNCHANGED <<day, phase, sig, sent, broker, gateway, cancel>>

(* ZStrategy::on_rtn_trade: left alone when an order return has brought    *)
(* the order's fills, or when the trade was seen.                          *)
OnRtnTrade ==
  LET k == <<cb.order, cb.key>>
      id == <<cb.order, cb.report>>
      side == order[cb.order].side
  IN /\ cb.at = "trade"
     /\ cb' = CbIdle
     /\ IF fillSeen[k] \/ id \in trades
        THEN UNCHANGED <<account, tables, counted>>
        ELSE /\ trades' = trades \cup {id}
             /\ traded' = [traded EXCEPT ![k] = @ + cb.trade]
             /\ leaves' = [leaves EXCEPT ![k] =
                             IF @ < 0 THEN @ ELSE NotNegative(@ - cb.trade)]
             /\ pending' = [pending EXCEPT ![side] = NotNegative(@ - cb.trade)]
             /\ Traded(cb.order, cb.trade)
             /\ UNCHANGED <<fillSeen, over>>
     /\ UNCHANGED <<day, phase, sig, sent, broker, gateway, cancel>>

-----------------------------------------------------------------------------
(* The periodic position query: position_sync_loop, and                    *)
(* on_rtn_pos_option with sync_startup_position for its answer.            *)

(* One query is in flight at a time; the broker answers with what it knows *)
(* when the query reaches it.                                              *)
QueryPositions ==
  /\ BrokerTurn /\ query.at = "none" /\ queries < day.queries
  /\ query' = [at |-> "answered", total |-> book.total,
                available |-> NotNegative(book.available)]
  /\ queries' = queries + 1
  /\ UNCHANGED <<day, account, phase, tables, sig, cb, sent, order, rep, book,
                 gateway, cancel, counted, crossed>>

(* Mutated form: all of the position can be sold.                          *)
RemainingOfTotal(q) == NotNegative(q.total)

(* What can still be sold, by an answer: NormalizeStartupPosition.         *)
Remaining(q) == Smaller(q.available, NotNegative(q.total))

(* The answer overwrites what was counted since the broker gave it.        *)
OnRtnPosOption ==
  /\ CallbackTurn /\ query.at = "answered"
  /\ pi' = NotNegative(query.total) - Static
  /\ shortable' = Remaining(query)
  /\ query' = NoQuery
  /\ UNCHANGED <<day, pending, phase, tables, sig, cb, sent, order, rep, book,
                 queries, gateway, cancel, counted, crossed>>

-----------------------------------------------------------------------------
SignalStep == LoadReserve \/ StoreReserve
CallbackStep == StoreRelease \/ StorePosition \/ OnRtnTrade

Next == \/ \E s \in Sides : Submit(s)
        \/ SignalStep
        \/ \E o \in Orders : \/ Accept(o) \/ Reject(o) \/ Fill(o)
                             \/ Withdraw(o) \/ Respond(o) \/ CancelFires(o)
                             \/ NextReturn(o) \/ ReturnAgain(o)
        \/ CallbackStep
        \/ QueryPositions \/ OnRtnPosOption

Spec == Init /\ [][Next]_vars

(* The two threads run on; the framework delivers what the broker sent;    *)
(* the timer fires; the broker answers an order and grants a cancel.       *)
Fairness ==
  /\ WF_vars(SignalStep) /\ WF_vars(CallbackStep)
  /\ WF_vars(\E o \in Orders : NextReturn(o))
  /\ WF_vars(\E o \in Orders : CancelFires(o))
  /\ WF_vars(\E o \in Orders : Accept(o) \/ Reject(o))
  /\ WF_vars(\E o \in Orders : Withdraw(o))

FairSpec == Spec /\ Fairness

-----------------------------------------------------------------------------
(* Properties.                                                             *)

ReportType == [status : {"new", "part", "filled", "canceled", "error"},
               cum : Nat, leaves : Nat, last : {0, 1}]

(* Every variable has its type; a pending quantity is never negative.      *)
TypeOK ==
  /\ day \in Days
  /\ pi \in Int /\ shortable \in Int /\ pending \in [Sides -> Nat]
  /\ phase \in 1..Len(day.limits)
  /\ traded \in [Keys -> Nat] /\ leaves \in [Keys -> Nat \cup {-1}]
  /\ fillSeen \in [Keys -> BOOLEAN] /\ over \in [Keys -> BOOLEAN]
  /\ trades \subseteq Orders \X Nat
  /\ sig \in [at : {"idle", "accepted", "loaded"}, order : Nat, seen : Nat]
  /\ cb \in [at : {"idle", "loaded", "released", "trade"}, order : Nat,
             report : Nat, key : {"request", "reference"}, release : Nat,
             delta : Nat, seen : Nat, trade : Nat]
  /\ sig.at # "idle" => sig.order \in Orders
  /\ cb.at # "idle" => cb.order \in Orders
  /\ sent \in 0..MaxOrders
  /\ order \in [Orders -> [side : Sides, qty : Nat, cum : Nat,
                  state : {"none", "sent", "open", "ended", "refused"}]]
  /\ book \in [total : Int, available : Int]
  /\ rep \in [Orders -> Seq(ReportType)] /\ got \in [Orders -> Nat]
  /\ bound \in [Orders -> BOOLEAN] /\ lastCum \in [Orders -> Nat]
  /\ cancel \in [Orders -> {"none", "armed", "asked", "missed"}]
  /\ query \in [at : {"none", "answered"}, total : Int, available : Nat]
  /\ queries \in Nat /\ resends \in Nat
  /\ counted \in [Orders -> Nat] /\ crossed \in BOOLEAN

Reported(o) == IF got[o] = 0 THEN 0 ELSE rep[o][got[o]].cum

(* The accounting has met a return of the order under this key.            *)
Met(k) == leaves[k] >= 0 \/ over[k]
TwoKeys(o) == Met(<<o, "request">>) /\ Met(<<o, "reference">>)

(* What the return at hand will still move pi by.                          *)
Unstored(o) ==
  IF cb.at \in {"loaded", "released"} /\ cb.order = o THEN cb.delta ELSE 0

(* However the order returns, their repetitions and the trade returns are  *)
(* interleaved with a signal on the other thread, pi has been moved by     *)
(* what the broker last reported of an order: no fill is lost or counted   *)
(* twice (traded_delta, over, fillSeen and trades of on_rtn_order and      *)
(* on_rtn_trade).  The exception is an order whose returns came under two  *)
(* keys: a return that overtakes the broker's response is kept under the   *)
(* order's reference, and its fills are counted again under its request.   *)
FillsCountedOnce ==
  \A o \in Orders : TwoKeys(o) \/ counted[o] + Unstored(o) = Reported(o)

SumOver(f, S) == FoldFunctionOnSet(+, 0, f, S)
Sent(side) == {o \in 1..sent : order[o].side = side}
Filled(side) == SumOver([o \in Orders |-> order[o].cum], Sent(side))

(* What an order takes or may still take.                                  *)
Exposure(o) ==
  IF order[o].state \in {"sent", "open"} THEN order[o].qty ELSE order[o].cum
Exposed(side) == SumOver([o \in Orders |-> Exposure(o)], Sent(side))

AtRest == cb.at = "idle" /\ sig.at = "idle"
OneKeyEach == \A o \in Orders : ~TwoKeys(o)

(* What the strategy has not been told of the end of.                      *)
ToldEnded(o) == \E i \in 1..got[o] : rep[o][i].status \in Ended
Outstanding(o) == IF ToldEnded(o) THEN 0 ELSE order[o].qty - Reported(o)

(* With signals and returns on one thread, and no return sent twice, the   *)
(* pending quantity of a side is exactly what its orders may still trade   *)
(* as far as the strategy knows: the releases of partial fills, of         *)
(* cancels, of refusals and of the last fill (PendingRelease) add up to    *)
(* the reservation and never take another order's.                         *)
PendingIsOutstanding ==
  ~day.threaded /\ resends = 0 /\ OneKeyEach /\ AtRest =>
    \A s \in Sides :
      pending[s] = SumOver([o \in Orders |-> Outstanding(o)], Sent(s))

Working(o) == order[o].state \in {"sent", "open"}
LargestLimit == CHOOSE l \in Range(day.limits) :
                  \A m \in Range(day.limits) : m <= l

(* The orders of the day never sell more than could be sold when it began. *)
SellsCovered == Exposed("sell") <= day.available

(* The answer to a position query may be older than returns the strategy   *)
(* was told of, and puts pi and shortable back, but not the pending        *)
(* quantities.  Still the orders of the day never sell more than could be  *)
(* sold when it began, not even if every open order fills, as long as no   *)
(* order was sent between a query and its answer: what the answer counts   *)
(* again is at most what is still pending (sync_startup_position,          *)
(* MaxCanSell).  An order sent in between is neither in the answer nor,    *)
(* once its fills are told, pending: those days are left out.              *)
AnswersKeepSales ==
  ~day.threaded /\ resends = 0 /\ OneKeyEach /\ ~crossed => SellsCovered

(* Under the conditions of PendingIsOutstanding, and as long as no query   *)
(* was made: the orders of the day never take the position past the        *)
(* largest limit of the day on either side, not even if every open order   *)
(* fills, or, when it began past the limit, further; and the two sides are *)
(* never open at once.                                                     *)
CapacityRespected ==
  ~day.threaded /\ resends = 0 /\ queries = 0 /\ OneKeyEach =>
    /\ day.total - Static + Filled("buy") - Exposed("sell")
         >= Smaller(day.total - Static, -LargestLimit)
    /\ day.total - Static + Exposed("buy") - Filled("sell")
         <= Larger(day.total - Static,
                   Smaller(day.available, LargestLimit))
    /\ ~(\E a, b \in 1..sent : /\ Working(a) /\ Working(b)
                               /\ order[a].side # order[b].side)

(* TDEngineGXBSE hands on a trade only behind the order return that        *)
(* reported it: on_rtn_trade finds the fill counted, whatever the key the  *)
(* order return was kept under, and changes nothing.                       *)
TradeReturnsAreInert ==
  [][OnRtnTrade => UNCHANGED <<account, tables>>]_vars

(* Nothing happened that the strategy does not recover a reservation from. *)
Troubled ==
  \/ day.threaded \/ resends > 0
  \/ \E o \in Orders : \/ order[o].state = "refused" \/ TwoKeys(o)
                       \/ cancel[o] = "missed"

(* A pending quantity does not stay: the order fills, is refused or is     *)
(* withdrawn after its cancel, and the other side can trade again.  What   *)
(* keeps it for the rest of the day is named in Troubled: a reservation    *)
(* made after its returns, a refusal that comes only as a response, a      *)
(* cancel that fired before the broker's number was known.                 *)
ReservationsEnd ==
  \A s \in Sides : pending[s] > 0 ~> pending[s] = 0 \/ Troubled
=============================================================================
