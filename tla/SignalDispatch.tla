--------------------------- MODULE SignalDispatch ---------------------------
(***************************************************************************)
(* How a prediction becomes a signal for a strategy when the recovery      *)
(* consumer is on (src/t0-main/strategy/StrategyBase.cpp and               *)
(* sze_prediction_arbiter.h).  Three threads share two bounded queues and  *)
(* four atomic flags:                                                      *)
(*  - the consumer thread reads the recovered stream, stores for each      *)
(*    status it reads whether the stream is replayed, continuous and live, *)
(*    and queues the full order book's predictions;                        *)
(*  - the framework's thread queues the snapshot's predictions;            *)
(*  - the poll thread takes one of each queue a turn, keeps the newest of  *)
(*    each source, loads the flags one by one, and hands the better one to *)
(*    the strategy.                                                        *)
(* A queue that is full ends the trading of the session.                   *)
(*                                                                         *)
(* What the consumer reads is external here and modelled in ReplayHandoff: *)
(* any status may follow any other until the stream is invalid.  Exchange  *)
(* times are small numbers, of one trading day; a turnover is that of its  *)
(* source at that time of the day.                                         *)
(***************************************************************************)
EXTENDS Integers, Sequences, SequencesExt

CONSTANTS Codes,         \* instruments
          Times,         \* exchange times
          Predictions,   \* bound: what each source may predict, and when
          Turnover,      \* turnover of the day by source and time
          MaxStaleness,  \* max_staleness_us_
          Capacity,      \* kSzeTradingSignalCapacity
          MaxSignals     \* bound: signals of one source

Sources == {"full", "snapshot"}

(* The turnover of a day only grows.                                       *)
ASSUME DispatchAssumption ==
  /\ Times \subseteq Nat \ {0}
  /\ Predictions \in [Sources -> SUBSET (Codes \X Times)]
  /\ Turnover \in [Sources -> [Times -> Nat]]
  /\ \A s \in Sources : \A t, u \in Times :
       t <= u => Turnover[s][t] <= Turnover[s][u]
  /\ MaxStaleness \in Nat /\ Capacity \in Nat /\ MaxSignals \in Nat

VARIABLES
  risk,        \* is_risk_data_ready
  healthy,     \* mSzeTradingQueueHealthy
  live,        \* mSzeRecoveryLiveReady
  continuity,  \* mSzeRecoveryContinuityValid
  replaying,   \* mSzeRecoveryReplayContext
  queue, head, \* the queues, and how many signals each has taken
  con,         \* the consumer thread: where it is, the status it read
  frame,       \* the framework's thread
  poll,        \* the poll thread: where it is, what it has to dispatch
  cand,        \* the arbiters' candidates (sequence 0: not valid)
  last,        \* last_dispatched_ (sequence 0: not ready)
  sent,        \* history: the signals handed to each strategy
  late         \* history: what was sent after trading should have stopped

flags == <<healthy, live, continuity, replaying>>
queues == <<queue, head>>
arbiter == <<cand, last, sent, late>>
vars == <<risk, flags, queues, con, frame, poll, arbiter>>

NoSignal == [time |-> 0, turnover |-> 0, seq |-> 0]
NoDispatch == [source |-> "full", seq |-> 0]
Polling == [at |-> "top", codes |-> <<>>, valid |-> FALSE, chosen |-> NoDispatch]
Reading == [at |-> "read", mode |-> "replay", event |-> FALSE]

(* start_sze_recovery_consumer, after the risk queries were sent: the      *)
(* model starts where the consumer's stream is open and its continuity,    *)
(* false until then, has been stored as true.                              *)
Init == /\ risk = FALSE /\ healthy = TRUE /\ live = FALSE
        /\ continuity = TRUE /\ replaying = TRUE
        /\ queue = [s \in Sources |-> <<>>] /\ head = [s \in Sources |-> 0]
        /\ con = Reading /\ frame = "idle" /\ poll = Polling
        /\ cand = [c \in Codes |-> [s \in Sources |-> NoSignal]]
        /\ last = [c \in Codes |-> NoDispatch]
        /\ sent = [c \in Codes |-> <<>>]
        /\ late = [overrun |-> 0, invalid |-> 0]

(* The account and position answers of every source have come.             *)
RiskReady == /\ ~risk /\ risk' = TRUE
             /\ UNCHANGED <<flags, queues, con, frame, poll, arbiter>>

-----------------------------------------------------------------------------
(* enqueue_sze_trading_signal                                              *)

(* Mutated form: one signal too many.                                      *)
HasRoomOffByOne(s) == Len(queue[s]) <= Capacity
HasRoom(s) == Len(queue[s]) < Capacity

Enqueue(s, p) ==
  /\ head' = [head EXCEPT ![s] = @ + 1]
  /\ queue' = [queue EXCEPT ![s] =
       Append(@, [code |-> p[1], time |-> p[2], turnover |-> Turnover[s][p[2]],
                  seq |-> head[s] + 1])]

-----------------------------------------------------------------------------
(* The consumer thread: sze_recovery_consumer_loop.                        *)

Consumer == UNCHANGED <<risk, frame, poll, arbiter>>

(* An event, live or replayed; the end of a live stream, for now; or a     *)
(* status that ends the stream.  Whether it is replayed is stored first.   *)
NextStatus ==
  /\ con.at = "read"
  /\ \E m \in {"live", "replay", "invalid"}, e \in BOOLEAN :
       /\ m = "invalid" => ~e
       /\ replaying' = (m = "replay")
       /\ con' = [at |-> "continuity", mode |-> m, event |-> e]
  /\ UNCHANGED <<healthy, live, continuity, queues>> /\ Consumer

StoreContinuity ==
  /\ con.at = "continuity"
  /\ continuity' = (con.mode # "invalid")
  /\ con' = [con EXCEPT !.at = "live"]
  /\ UNCHANGED <<healthy, live, replaying, queues>> /\ Consumer

AfterStatus == IF con.mode = "invalid" THEN "stopped"
               ELSE IF con.event THEN "process" ELSE "read"

StoreLive ==
  /\ con.at = "live"
  /\ live' = (con.mode = "live")
  /\ con' = [con EXCEPT !.at = AfterStatus]
  /\ UNCHANGED <<healthy, continuity, replaying, queues>> /\ Consumer

(* can_dispatch_trading_signal                                             *)
CanDispatch == risk /\ live /\ continuity /\ healthy /\ ~replaying

(* An event with a prediction that may not be dispatched.                  *)
NoPrediction == /\ con.at = "process" /\ ~CanDispatch /\ con' = Reading
                /\ UNCHANGED <<flags, queues>> /\ Consumer

PredictFull ==
  /\ con.at = "process" /\ CanDispatch /\ head["full"] < MaxSignals
  /\ \E p \in Predictions["full"] :
       IF HasRoom("full")
       THEN Enqueue("full", p) /\ con' = Reading /\ UNCHANGED flags
       ELSE /\ healthy' = FALSE /\ con' = [con EXCEPT !.at = "overrun"]
            /\ UNCHANGED <<live, continuity, replaying, queues>>
  /\ Consumer

OverrunFull == /\ con.at = "overrun" /\ live' = FALSE /\ con' = Reading
               /\ UNCHANGED <<healthy, continuity, replaying, queues>>
               /\ Consumer

(* process_sze_recovery_event fails: the loop ends.                        *)
ProcessFails == /\ con.at = "process" /\ continuity' = FALSE
                /\ con' = [con EXCEPT !.at = "failed"]
                /\ UNCHANGED <<healthy, live, replaying, queues>> /\ Consumer

StopFailed == /\ con.at = "failed" /\ live' = FALSE
              /\ con' = [con EXCEPT !.at = "stopped"]
              /\ UNCHANGED <<healthy, continuity, replaying, queues>>
              /\ Consumer

-----------------------------------------------------------------------------
(* The framework's thread: the snapshot's predictions need no live stream. *)

PredictSnapshot ==
  /\ frame = "idle" /\ risk /\ healthy /\ head["snapshot"] < MaxSignals
  /\ \E p \in Predictions["snapshot"] :
       IF HasRoom("snapshot")
       THEN Enqueue("snapshot", p) /\ UNCHANGED <<flags, frame>>
       ELSE /\ healthy' = FALSE /\ frame' = "overrun"
            /\ UNCHANGED <<live, continuity, replaying, queues>>
  /\ UNCHANGED <<risk, con, poll, arbiter>>

OverrunSnapshot ==
  /\ frame = "overrun" /\ live' = FALSE /\ frame' = "idle"
  /\ UNCHANGED <<risk, healthy, continuity, replaying, queues, con, poll,
                 arbiter>>

-----------------------------------------------------------------------------
(* The arbiter of one instrument.                                          *)

(* Mutated form: an older candidate replaces a newer one.                  *)
AcceptsAny(s, x) == TRUE

(* Arbiter::update: not older than the candidate it replaces.              *)
Accepts(s, x) == x.time >= cand[x.code][s].time

Latest(c) == IF cand[c]["full"].time >= cand[c]["snapshot"].time
             THEN cand[c]["full"].time ELSE cand[c]["snapshot"].time

Fresh(c, s) == /\ cand[c][s].seq > 0
               /\ Latest(c) - cand[c][s].time <= MaxStaleness

(* Mutated form: whether or not the stream is live.                        *)
FullChosenAnyway(c, valid) ==
  /\ Fresh(c, "full")
  /\ Fresh(c, "snapshot") =>
       cand[c]["full"].turnover >= cand[c]["snapshot"].turnover

(* Arbiter::select                                                         *)
FullChosen(c, valid) ==
  /\ valid /\ Fresh(c, "full")
  /\ Fresh(c, "snapshot") =>
       cand[c]["full"].turnover >= cand[c]["snapshot"].turnover

Select(c, valid) ==
  IF FullChosen(c, valid)
  THEN [source |-> "full", seq |-> cand[c]["full"].seq]
  ELSE IF Fresh(c, "snapshot")
  THEN [source |-> "snapshot", seq |-> cand[c]["snapshot"].seq]
  ELSE NoDispatch

ShouldDispatch(c, choice) == choice.seq > 0 /\ choice # last[c]

-----------------------------------------------------------------------------
(* The poll thread: sze_trading_poll_loop.                                 *)

Poll == UNCHANGED <<risk, flags, con, frame>>

(* Take a signal if there is one, and keep it if the arbiter does.         *)
Keeps(s) == queue[s] # <<>> /\ Accepts(s, Head(queue[s]))

Kept(x) == [time |-> x.time, turnover |-> x.turnover, seq |-> x.seq]

Take(s) ==
  /\ queue' = [queue EXCEPT ![s] = IF @ = <<>> THEN @ ELSE Tail(@)]
  /\ cand' = IF Keeps(s)
             THEN LET x == Head(queue[s])
                  IN [cand EXCEPT ![x.code][s] = Kept(x)]
             ELSE cand

(* The instruments to dispatch, with that of the signal taken.             *)
CodesWith(s) ==
  IF Keeps(s) /\ ~Contains(poll.codes, Head(queue[s]).code)
  THEN Append(poll.codes, Head(queue[s]).code) ELSE poll.codes

Dispatching(codes) ==
  IF codes = <<>> THEN Polling
  ELSE [Polling EXCEPT !.at = "live", !.codes = codes]

TakeFull ==
  /\ poll.at = "top" /\ \E s \in Sources : queue[s] # <<>>
  /\ Take("full")
  /\ poll' = [poll EXCEPT !.at = "snapshot", !.codes = CodesWith("full")]
  /\ UNCHANGED <<head, last, sent, late>> /\ Poll

TakeSnapshot ==
  /\ poll.at = "snapshot"
  /\ Take("snapshot")
  /\ poll' = Dispatching(CodesWith("snapshot"))
  /\ UNCHANGED <<head, last, sent, late>> /\ Poll

(* full_runtime_valid: the flags are loaded until one refuses.             *)
Load(here, ok, next) ==
  /\ poll.at = here
  /\ poll' = [poll EXCEPT !.at = IF ok THEN next ELSE "select",
                          !.valid = ok /\ next = "select"]
  /\ UNCHANGED <<queues, arbiter>> /\ Poll

LoadLive == Load("live", live, "continuity")
LoadContinuity == Load("continuity", continuity, "replaying")
LoadReplaying == Load("replaying", ~replaying, "select")

(* Mutated form: an overrun is not looked at.                              *)
MayDispatchAnyway(c, choice) == ShouldDispatch(c, choice) /\ risk
MayDispatch(c, choice) == ShouldDispatch(c, choice) /\ risk /\ healthy

SelectCandidate ==
  LET c == Head(poll.codes)
      choice == Select(c, poll.valid)
  IN /\ poll.at = "select"
     /\ poll' = IF MayDispatch(c, choice)
                THEN [poll EXCEPT !.at = "send", !.chosen = choice]
                ELSE Dispatching(Tail(poll.codes))
     /\ UNCHANGED <<queues, arbiter>> /\ Poll

(* on_signal and mark_dispatched                                           *)
Stopped == con.at = "stopped"

Send ==
  LET c == Head(poll.codes)
      s == poll.chosen.source
  IN /\ poll.at = "send"
     /\ last' = [last EXCEPT ![c] = poll.chosen]
     /\ sent' = [sent EXCEPT ![c] =
          Append(@, [source |-> s, seq |-> poll.chosen.seq,
                     time |-> cand[c][s].time, valid |-> poll.valid])]
     /\ late' = [overrun |-> late.overrun + IF healthy THEN 0 ELSE 1,
                 invalid |-> late.invalid +
                               IF Stopped /\ s = "full" THEN 1 ELSE 0]
     /\ poll' = Dispatching(Tail(poll.codes))
     /\ UNCHANGED <<queues, cand>> /\ Poll

-----------------------------------------------------------------------------
ConsumerStep == \/ NextStatus \/ StoreContinuity \/ StoreLive
                \/ NoPrediction \/ PredictFull \/ OverrunFull
                \/ ProcessFails \/ StopFailed
FrameStep == PredictSnapshot \/ OverrunSnapshot
PollStep == \/ TakeFull \/ TakeSnapshot \/ LoadLive \/ LoadContinuity
            \/ LoadReplaying \/ SelectCandidate \/ Send

Next == RiskReady \/ ConsumerStep \/ FrameStep \/ PollStep

Spec == Init /\ [][Next]_vars

(* The poll thread runs on.                                                *)
FairSpec == Spec /\ WF_vars(PollStep)

-----------------------------------------------------------------------------
(* Properties.                                                             *)

Signal == [code : Codes, time : Times, turnover : Nat, seq : Nat]
Choice == [source : Sources, seq : Nat]

(* Every variable has its type, and no queue holds more than its slots.    *)
TypeOK ==
  /\ {risk, healthy, live, continuity, replaying} \subseteq BOOLEAN
  /\ queue \in [Sources -> Seq(Signal)]
  /\ \A s \in Sources : Len(queue[s]) <= Capacity
  /\ head \in [Sources -> 0..MaxSignals]
  /\ con \in [at : {"read", "continuity", "live", "process", "overrun",
                    "failed", "stopped"},
              mode : {"live", "replay", "invalid"}, event : BOOLEAN]
  /\ frame \in {"idle", "overrun"}
  /\ poll \in [at : {"top", "snapshot", "live", "continuity", "replaying",
                     "select", "send"},
               codes : Seq(Codes), valid : BOOLEAN, chosen : Choice]
  /\ poll.at \notin {"top", "snapshot"} => poll.codes # <<>>
  /\ cand \in [Codes -> [Sources -> [time : Nat, turnover : Nat, seq : Nat]]]
  /\ last \in [Codes -> Choice]
  /\ sent \in [Codes -> Seq([source : Sources, seq : Nat, time : Nat,
                             valid : BOOLEAN])]
  /\ late \in [overrun : Nat, invalid : Nat]

(* The flags are loaded one after the other while two threads store them,  *)
(* and the consumer may raise "live" again after an overrun.  Still no     *)
(* more than the one signal the poll thread has in hand is traded after a  *)
(* queue overran, and no more than one prediction of the full order book   *)
(* after the stream was declared invalid, whatever is queued.              *)
StopIsPrompt == late.overrun <= 1 /\ late.invalid <= 1

Repeats(x, y) == x.source = y.source /\ x.seq = y.seq

(* Two sources compete and each may fall behind, be late or be cut off.    *)
(* What a strategy is handed never goes back in exchange time by more than *)
(* the staleness allowed, and a signal is handed on again only when the    *)
(* poll thread found the stream's validity changed in between: with the    *)
(* stream steady, comparing with the last dispatch alone is enough.        *)
DispatchOrder ==
  \A c \in Codes : \A j \in 1..Len(sent[c]) : \A i \in 1..(j - 1) :
    LET x == sent[c][i]
        y == sent[c][j]
    IN /\ y.time + MaxStaleness >= x.time
       /\ Repeats(x, y) => \E k \in (i + 1)..j : sent[c][k].valid # x.valid

(* Snapshot n is queued, and nothing that is kept or queued of its         *)
(* instrument outdates it.                                                 *)
Leading(n) ==
  \E x \in ToSet(queue["snapshot"]) :
    /\ x.seq = n
    /\ \A y \in {z \in ToSet(queue["snapshot"]) : z.code = x.code}
                 \cup {cand[x.code]["snapshot"]} : y.time <= x.time
    /\ \A y \in ToSet(queue["full"]) \cup {cand[x.code]["full"]} :
         y.time <= x.time + MaxStaleness

TradedLast(n) == \E c \in Codes : last[c] = [source |-> "snapshot", seq |-> n]

(* When the recovered stream has stopped, the snapshot takes over: one     *)
(* that is queued and not outdated is traded, although a newer candidate   *)
(* of the full order book with more turnover may still be kept.            *)
SnapshotTakesOver ==
  \A n \in 1..MaxSignals :
    Stopped /\ Leading(n) ~> TradedLast(n) \/ ~healthy
=============================================================================
