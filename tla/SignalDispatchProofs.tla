------------------------ MODULE SignalDispatchProofs ------------------------
(***************************************************************************)
(* Proofs about SignalDispatch, for every set of instruments, every bound  *)
(* on the queues and every set of predictions: its type invariant, and     *)
(* that trading stops with at most the signal in hand; and for every day   *)
(* whose turnover only grows, that signals are handed on in order: the     *)
(* exchange time of what a strategy is handed goes back by no more than    *)
(* the staleness allowed, and nothing is handed on twice while the stream  *)
(* stays as it is.                                                         *)
(***************************************************************************)
EXTENDS SignalDispatch, TLAPS

(* The consumer's thread has stored that the stream is not continuous      *)
(* before it ends, and stores nothing afterwards; only the overrun of the  *)
(* other thread does.                                                      *)
ConsumerInv ==
  /\ con.at = "live" /\ con.mode = "invalid" => ~continuity
  /\ con.at = "failed" => ~continuity
  /\ Stopped => ~continuity /\ ~live

(* A prediction of the full order book is only chosen after every flag was *)
(* found good.                                                             *)
PollInv == poll.at = "send" /\ poll.chosen.source = "full" => poll.valid

(* The poll thread may still send a signal that it chose before an overrun *)
(* or a prediction for which it loaded the flags before the stream ended.  *)
InHand == IF poll.at = "send" THEN 1 ELSE 0
FullInHand ==
  IF poll.at = "replaying" \/ (poll.at \in {"select", "send"} /\ poll.valid)
  THEN 1 ELSE 0

LateInv ==
  /\ healthy => late.overrun = 0
  /\ ~healthy => late.overrun + InHand <= 1
  /\ ~Stopped => late.invalid = 0
  /\ Stopped => late.invalid + FullInHand <= 1

IInv == TypeOK /\ ConsumerInv /\ PollInv /\ LateInv

ConType == [at : {"read", "continuity", "live", "process", "overrun",
                  "failed", "stopped"},
            mode : {"live", "replay", "invalid"}, event : BOOLEAN]
PollType == [at : {"top", "snapshot", "live", "continuity", "replaying",
                   "select", "send"},
             codes : Seq(Codes), valid : BOOLEAN, chosen : Choice]
CandType == [Codes -> [Sources -> [time : Nat, turnover : Nat, seq : Nat]]]
SentType == [Codes -> Seq([source : Sources, seq : Nat, time : Nat,
                           valid : BOOLEAN])]
QueueType == [Sources -> Seq(Signal)]

-----------------------------------------------------------------------------
LEMMA DispatchingFacts ==
  ASSUME NEW codes \in Seq(Codes), NEW p, p = Dispatching(codes)
  PROVE  /\ p \in PollType /\ ~p.valid
         /\ p.at \in {"top", "live"} /\ (p.at # "top" => p.codes # <<>>)
<1>1. NoDispatch \in Choice
  BY DEF NoDispatch, Choice, Sources
<1>2. Polling \in PollType /\ Polling.at = "top" /\ Polling.valid = FALSE
  BY <1>1 DEF Polling, PollType
<1>3. CASE codes = <<>>
  BY <1>2, <1>3 DEF Dispatching
<1>4. CASE codes # <<>>
  <2>1. p = [Polling EXCEPT !.at = "live", !.codes = codes]
    BY <1>4 DEF Dispatching
  <2> HIDE DEF Polling
  <2> QED
    BY <1>2, <1>4, <2>1 DEF PollType
<1> QED
  BY <1>3, <1>4

LEMMA InitInv == Init => IInv
<1> SUFFICES ASSUME Init PROVE IInv
  OBVIOUS
<1> USE DEF Init
<1>1. NoDispatch \in Choice /\ con \in ConType /\ poll \in PollType
  BY DEF NoDispatch, Choice, Sources, Polling, PollType, Reading, ConType
<1>2. TypeOK
  <2>1. /\ head \in [Sources -> 0..MaxSignals] /\ cand \in CandType
        /\ last \in [Codes -> Choice] /\ sent \in SentType
    BY <1>1, DispatchAssumption DEF NoSignal, CandType, SentType
  <2>2. queue \in QueueType /\ \A s \in Sources : Len(queue[s]) <= Capacity
    BY DispatchAssumption DEF QueueType
  <2> QED
    BY <1>1, <2>1, <2>2 DEF TypeOK, ConType, PollType, CandType, SentType, QueueType, Polling
<1> QED
  BY <1>2 DEF IInv, ConsumerInv, PollInv, LateInv, InHand, FullInHand, Stopped,
              Reading, Polling

-----------------------------------------------------------------------------
(* The threads that fill the queues and store the flags.                   *)

(* A signal that is queued is typed, and there is room for it.             *)
LEMMA EnqueueFacts ==
  ASSUME TypeOK, NEW s \in Sources, NEW p \in Predictions[s], HasRoom(s),
         head[s] < MaxSignals, Enqueue(s, p)
  PROVE  /\ head' \in [Sources -> 0..MaxSignals]
         /\ queue' \in QueueType /\ \A q \in Sources : Len(queue'[q]) <= Capacity
<1>1. /\ p[1] \in Codes /\ p[2] \in Times /\ Turnover[s][p[2]] \in Nat
      /\ MaxSignals \in Nat /\ Capacity \in Nat
  <2>1. Predictions[s] \in SUBSET (Codes \X Times)
    BY DispatchAssumption
  <2>2. p \in Codes \X Times
    BY <2>1
  <2> QED
    BY <2>2, DispatchAssumption
<1>2. /\ head \in [Sources -> 0..MaxSignals]
      /\ queue \in QueueType /\ \A q \in Sources : Len(queue[q]) <= Capacity
  BY DEF TypeOK, QueueType
<1>3. head[s] \in Nat /\ head[s] + 1 \in 0..MaxSignals
  BY <1>1, <1>2
<1> DEFINE x == [code |-> p[1], time |-> p[2], turnover |-> Turnover[s][p[2]],
                 seq |-> head[s] + 1]
<1>4. x \in Signal
  BY <1>1, <1>3 DEF Signal
<1>5. queue' = [queue EXCEPT ![s] = Append(queue[s], x)]
      /\ head' = [head EXCEPT ![s] = head[s] + 1]
  BY DEF Enqueue
<1> HIDE DEF x
<1>6. Append(queue[s], x) \in Seq(Signal) /\ Len(Append(queue[s], x)) <= Capacity
  BY <1>1, <1>2, <1>4 DEF HasRoom, QueueType
<1> QED
  BY <1>2, <1>3, <1>5, <1>6 DEF QueueType

(* What the poll thread has in hand is counted before and after the flags  *)
(* fall.                                                                   *)
LEMMA LateKept ==
  ASSUME IInv, UNCHANGED <<poll, late>>, healthy' => healthy, Stopped => Stopped'
  PROVE  PollInv' /\ LateInv'
BY DEF IInv, TypeOK, PollInv, LateInv, InHand, FullInHand

LEMMA RiskReadyInv == ASSUME IInv, RiskReady PROVE IInv'
<1>1. TypeOK'
  BY ZenonT(40) DEF IInv, TypeOK, RiskReady, flags, queues, arbiter
<1>2. PollInv' /\ LateInv'
  BY LateKept DEF RiskReady, flags, arbiter, Stopped
<1>3. ConsumerInv'
  BY DEF IInv, ConsumerInv, RiskReady, flags, Stopped
<1> QED
  BY <1>1, <1>2, <1>3 DEF IInv

(* The two sources of predictions: what is queued, and what overruns.      *)
LEMMA PredictFullInv == ASSUME IInv, PredictFull PROVE IInv'
<1>1. PICK p \in Predictions["full"] :
        IF HasRoom("full")
        THEN Enqueue("full", p) /\ con' = Reading /\ UNCHANGED flags
        ELSE /\ healthy' = FALSE /\ con' = [con EXCEPT !.at = "overrun"]
             /\ UNCHANGED <<live, continuity, replaying, queues>>
  BY DEF PredictFull
<1>2. /\ UNCHANGED <<risk, frame, poll, cand, last, sent, late>>
      /\ con \in ConType /\ con.at = "process" /\ head["full"] < MaxSignals
  BY DEF PredictFull, Consumer, arbiter, IInv, TypeOK, ConType
<1>3. /\ head' \in [Sources -> 0..MaxSignals] /\ queue' \in QueueType
      /\ \A q \in Sources : Len(queue'[q]) <= Capacity
  <2>1. CASE HasRoom("full")
    BY <1>1, <1>2, <2>1, EnqueueFacts DEF IInv, Sources
  <2>2. CASE ~HasRoom("full")
    BY <1>1, <2>2 DEF queues, IInv, TypeOK, QueueType
  <2> QED
    BY <2>1, <2>2
<1>4. con' \in ConType /\ con'.at \in {"read", "overrun"}
  <2>1. CASE HasRoom("full")
    <3>1. con' = Reading
      BY <1>1, <2>1
    <3> QED
      BY <3>1 DEF Reading, ConType
  <2>2. CASE ~HasRoom("full")
    BY <1>1, <1>2, <2>2 DEF ConType
  <2> QED
    BY <2>1, <2>2
<1>5. /\ UNCHANGED <<live, continuity, replaying>> /\ (healthy' => healthy)
      /\ healthy' \in BOOLEAN
  <2>1. healthy \in BOOLEAN
    BY DEF IInv, TypeOK
  <2> QED
    BY <1>1, <2>1 DEF flags
<1>6. TypeOK'
  BY <1>2, <1>3, <1>4, <1>5 DEF IInv, TypeOK, ConType, QueueType
<1>7. ConsumerInv' /\ ~Stopped
  BY <1>2, <1>4 DEF ConsumerInv, Stopped
<1>8. PollInv' /\ LateInv'
  BY <1>2, <1>5, <1>7, LateKept
<1> QED
  BY <1>6, <1>7, <1>8 DEF IInv

LEMMA PredictSnapshotInv == ASSUME IInv, PredictSnapshot PROVE IInv'
<1>1. PICK p \in Predictions["snapshot"] :
        IF HasRoom("snapshot")
        THEN Enqueue("snapshot", p) /\ UNCHANGED <<flags, frame>>
        ELSE /\ healthy' = FALSE /\ frame' = "overrun"
             /\ UNCHANGED <<live, continuity, replaying, queues>>
  BY DEF PredictSnapshot
<1>2. /\ UNCHANGED <<risk, con, poll, cand, last, sent, late>>
      /\ head["snapshot"] < MaxSignals
  BY DEF PredictSnapshot, arbiter
<1>3. /\ head' \in [Sources -> 0..MaxSignals] /\ queue' \in QueueType
      /\ \A q \in Sources : Len(queue'[q]) <= Capacity
  <2>1. CASE HasRoom("snapshot")
    BY <1>1, <1>2, <2>1, EnqueueFacts DEF IInv, Sources
  <2>2. CASE ~HasRoom("snapshot")
    BY <1>1, <2>2 DEF queues, IInv, TypeOK, QueueType
  <2> QED
    BY <2>1, <2>2
<1>4. /\ UNCHANGED <<live, continuity, replaying>> /\ (healthy' => healthy)
      /\ healthy' \in BOOLEAN /\ frame' \in {"idle", "overrun"}
  <2>1. healthy \in BOOLEAN /\ frame \in {"idle", "overrun"}
    BY DEF IInv, TypeOK
  <2> QED
    BY <1>1, <2>1 DEF flags
<1>5. TypeOK'
  BY <1>2, <1>3, <1>4, ZenonT(40) DEF IInv, TypeOK, QueueType
<1>6. ConsumerInv'
  BY <1>2, <1>4 DEF IInv, ConsumerInv, Stopped
<1>7. PollInv' /\ LateInv'
  BY <1>2, <1>4, LateKept DEF Stopped
<1> QED
  BY <1>5, <1>6, <1>7 DEF IInv

LEMMA OverrunSnapshotInv == ASSUME IInv, OverrunSnapshot PROVE IInv'
<1>1. TypeOK'
  BY DEF IInv, TypeOK, OverrunSnapshot, queues, arbiter
<1>2. ConsumerInv'
  BY DEF IInv, ConsumerInv, OverrunSnapshot, Stopped
<1>3. PollInv' /\ LateInv'
  BY LateKept DEF OverrunSnapshot, arbiter, Stopped
<1> QED
  BY <1>1, <1>2, <1>3 DEF IInv

(* What the consumer stores of a status.                                   *)
Storing == \/ NextStatus \/ StoreContinuity \/ StoreLive \/ NoPrediction
           \/ OverrunFull \/ ProcessFails \/ StopFailed

LEMMA StoringInv == ASSUME IInv, Storing PROVE IInv'
<1>1. /\ UNCHANGED <<risk, frame, poll, cand, last, sent, late, queue, head, healthy>>
      /\ con \in ConType /\ con.at # "stopped"
  BY DEF Storing, NextStatus, StoreContinuity, StoreLive, NoPrediction, OverrunFull,
         ProcessFails, StopFailed, Consumer, arbiter, queues, flags, IInv, TypeOK, ConType
<1>2. /\ con' \in ConType /\ {live, continuity, replaying}' \subseteq BOOLEAN
      /\ ConsumerInv'
  <2>0. {live, continuity, replaying} \subseteq BOOLEAN /\ ConsumerInv
    BY DEF IInv, TypeOK
  <2>1. CASE NextStatus
    <3>1. PICK m \in {"live", "replay", "invalid"}, e \in BOOLEAN :
            /\ replaying' = (m = "replay")
            /\ con' = [at |-> "continuity", mode |-> m, event |-> e]
      BY <2>1 DEF NextStatus
    <3>2. UNCHANGED <<live, continuity>>
      BY <2>1 DEF NextStatus
    <3>3. con' \in ConType
      BY <3>1 DEF ConType
    <3>4. replaying' \in BOOLEAN
      BY <3>1
    <3> QED
      BY <2>0, <3>1, <3>2, <3>3, <3>4 DEF ConsumerInv, Stopped
  <2>2. CASE StoreContinuity
    <3>1. con' \in ConType /\ con'.at = "live" /\ con'.mode = con.mode
      BY <1>1, <2>2 DEF StoreContinuity, ConType
    <3>2. continuity' = (con.mode # "invalid") /\ UNCHANGED <<live, replaying>>
      BY <2>2 DEF StoreContinuity
    <3>3. continuity' \in BOOLEAN
      BY <3>2
    <3> QED
      BY <2>0, <3>1, <3>2, <3>3 DEF ConsumerInv, Stopped
  <2>3. CASE StoreLive
    <3>1. AfterStatus \in {"stopped", "process", "read"}
          /\ (AfterStatus = "stopped" => con.mode = "invalid")
      BY DEF AfterStatus
    <3>2. con' \in ConType /\ con'.at = AfterStatus
      BY <1>1, <2>3, <3>1 DEF StoreLive, ConType
    <3>3. /\ con.at = "live" /\ live' = (con.mode = "live")
          /\ UNCHANGED <<continuity, replaying>>
      BY <2>3 DEF StoreLive
    <3>4. live' \in BOOLEAN
      BY <3>3
    <3> QED
      BY <2>0, <3>1, <3>2, <3>3, <3>4 DEF ConsumerInv, Stopped
  <2>4. CASE NoPrediction
    BY <2>0, <2>4 DEF NoPrediction, Reading, ConType, ConsumerInv, Stopped, flags
  <2>5. CASE OverrunFull
    BY <2>0, <2>5 DEF OverrunFull, Reading, ConType, ConsumerInv, Stopped
  <2>6. CASE ProcessFails
    <3>1. con' \in ConType /\ con'.at = "failed"
      BY <1>1, <2>6 DEF ProcessFails, ConType
    <3> QED
      BY <2>0, <2>6, <3>1 DEF ProcessFails, ConsumerInv, Stopped
  <2>7. CASE StopFailed
    <3>1. con' \in ConType /\ con'.at = "stopped"
      BY <1>1, <2>7 DEF StopFailed, ConType
    <3> QED
      BY <2>0, <2>7, <3>1 DEF StopFailed, ConsumerInv, Stopped
  <2> QED
    BY <2>1, <2>2, <2>3, <2>4, <2>5, <2>6, <2>7 DEF Storing
<1>3. TypeOK'
  BY <1>1, <1>2 DEF IInv, TypeOK, ConType
<1>4. PollInv' /\ LateInv'
  BY <1>1, LateKept DEF Stopped
<1> QED
  BY <1>2, <1>3, <1>4 DEF IInv

-----------------------------------------------------------------------------
(* The poll thread.                                                        *)

LEMMA TakeFacts ==
  ASSUME TypeOK, NEW s \in Sources, Take(s)
  PROVE  /\ queue' \in QueueType /\ \A q \in Sources : Len(queue'[q]) <= Capacity
         /\ cand' \in CandType /\ CodesWith(s) \in Seq(Codes)
<1>1. /\ queue \in QueueType /\ (\A q \in Sources : Len(queue[q]) <= Capacity)
      /\ cand \in CandType /\ poll.codes \in Seq(Codes) /\ Capacity \in Nat
  BY DispatchAssumption DEF TypeOK, QueueType, CandType
<1>2. queue[s] \in Seq(Signal)
  BY <1>1 DEF QueueType
<1>3. queue' \in QueueType /\ \A q \in Sources : Len(queue'[q]) <= Capacity
  <2>1. CASE queue[s] = <<>>
    <3>1. queue' = queue
      BY <1>1, <2>1 DEF Take, QueueType
    <3> QED
      BY <1>1, <3>1
  <2>2. CASE queue[s] # <<>>
    <3>1. queue' = [queue EXCEPT ![s] = Tail(queue[s])]
      BY <2>2 DEF Take
    <3>2. /\ Tail(queue[s]) \in Seq(Signal)
          /\ Len(Tail(queue[s])) = Len(queue[s]) - 1 /\ Len(queue[s]) \in Nat
      BY <1>2, <2>2
    <3>3. Len(Tail(queue[s])) <= Capacity
      BY <1>1, <3>2
    <3> QED
      BY <1>1, <3>1, <3>2, <3>3 DEF QueueType
  <2> QED
    BY <2>1, <2>2
<1>4. CASE ~Keeps(s)
  <2>1. cand' = cand /\ CodesWith(s) = poll.codes
    BY <1>4 DEF Take, CodesWith
  <2> QED
    BY <1>1, <1>3, <2>1
<1>5. CASE Keeps(s)
  <2>1. Head(queue[s]) \in Signal
    BY <1>2, <1>5 DEF Keeps
  <2>2. PICK x \in Signal : x = Head(queue[s])
    BY <2>1
  <2>3. /\ x.code \in Codes
        /\ Kept(x) \in [time : Nat, turnover : Nat, seq : Nat]
    BY <2>2, DispatchAssumption DEF Signal, Kept
  <2>4. cand' = [cand EXCEPT ![x.code][s] = Kept(x)]
    BY <1>5, <2>2 DEF Take
  <2>5. cand' \in CandType
    BY <1>1, <2>3, <2>4 DEF CandType
  <2>6. CodesWith(s) \in {poll.codes, Append(poll.codes, x.code)}
    BY <2>2 DEF CodesWith
  <2>7. Append(poll.codes, x.code) \in Seq(Codes)
    BY <1>1, <2>3
  <2> QED
    BY <1>1, <1>3, <2>5, <2>6, <2>7
<1> QED
  BY <1>4, <1>5

(* A step of the poll thread that sends nothing.                           *)
LEMMA PollStepInv ==
  ASSUME IInv, Poll, UNCHANGED <<head, last, sent, late>>, poll' \in PollType,
         queue' \in QueueType, \A q \in Sources : Len(queue'[q]) <= Capacity,
         cand' \in CandType,
         poll'.at \notin {"top", "snapshot"} => poll'.codes # <<>>,
         PollInv', healthy \/ InHand' <= InHand,
         Stopped => FullInHand' <= FullInHand
  PROVE  IInv'
<1>1. TypeOK'
  BY DEF IInv, TypeOK, Poll, flags, PollType, QueueType, CandType
<1>2. ConsumerInv'
  BY DEF IInv, ConsumerInv, Poll, flags, Stopped
<1>3. late' = late /\ healthy' = healthy /\ Stopped' = Stopped
  BY DEF Poll, flags, Stopped
<1>4. /\ late.overrun \in Nat /\ late.invalid \in Nat /\ InHand \in Nat /\ InHand' \in Nat
      /\ FullInHand \in Nat /\ FullInHand' \in Nat
  BY DEF IInv, TypeOK, InHand, FullInHand
<1>5. LateInv'
  BY <1>3, <1>4 DEF IInv, LateInv
<1> QED
  BY <1>1, <1>2, <1>5 DEF IInv

LEMMA TakeFullInv == ASSUME IInv, TakeFull PROVE IInv'
<1>1. poll \in PollType /\ TypeOK
  BY DEF IInv, TypeOK, PollType
<1>2. /\ queue' \in QueueType /\ \A q \in Sources : Len(queue'[q]) <= Capacity
      /\ cand' \in CandType /\ CodesWith("full") \in Seq(Codes)
  BY <1>1, TakeFacts DEF TakeFull, Sources
<1>3. poll' \in PollType /\ poll'.at = "snapshot"
  BY <1>1, <1>2 DEF TakeFull, PollType
<1> QED
  BY <1>2, <1>3, PollStepInv DEF TakeFull, InHand, FullInHand, PollInv

LEMMA TakeSnapshotInv == ASSUME IInv, TakeSnapshot PROVE IInv'
<1>1. TypeOK
  BY DEF IInv
<1>2. /\ queue' \in QueueType /\ \A q \in Sources : Len(queue'[q]) <= Capacity
      /\ cand' \in CandType /\ CodesWith("snapshot") \in Seq(Codes)
  BY <1>1, TakeFacts DEF TakeSnapshot, Sources
<1>3. /\ poll' \in PollType /\ ~poll'.valid /\ poll'.at \in {"top", "live"}
      /\ (poll'.at # "top" => poll'.codes # <<>>)
  BY <1>2, DispatchingFacts DEF TakeSnapshot
<1> QED
  BY <1>2, <1>3, PollStepInv DEF TakeSnapshot, InHand, FullInHand, PollInv

(* After the stream has stopped, the first two loads find it so.           *)
LEMMA LoadInv == ASSUME IInv, LoadLive \/ LoadContinuity \/ LoadReplaying PROVE IInv'
<1>1. /\ poll \in PollType /\ {live, continuity, replaying} \subseteq BOOLEAN
      /\ (Stopped => ~live /\ ~continuity)
      /\ (poll.at \notin {"top", "snapshot"} => poll.codes # <<>>)
      /\ UNCHANGED <<queue, head, cand, last, sent, late>> /\ Poll
      /\ queue \in QueueType /\ cand \in CandType
      /\ \A q \in Sources : Len(queue[q]) <= Capacity
  BY DEF IInv, TypeOK, PollType, ConsumerInv, LoadLive, LoadContinuity, LoadReplaying,
         Load, queues, arbiter, QueueType, CandType
<1>2. /\ poll' \in PollType /\ poll'.codes = poll.codes
      /\ poll.at \in {"live", "continuity", "replaying"}
      /\ poll'.at \in {"continuity", "replaying", "select"}
      /\ Stopped => FullInHand' <= FullInHand
  <2>1. CASE LoadLive
    <3>1. poll' = [poll EXCEPT !.at = IF live THEN "continuity" ELSE "select",
                               !.valid = FALSE]
      BY <2>1 DEF LoadLive, Load
    <3>2. poll.at = "live"
      BY <2>1 DEF LoadLive, Load
    <3>3. CASE live
      <4>1. poll' = [poll EXCEPT !.at = "continuity", !.valid = FALSE]
        BY <3>1, <3>3
      <4> QED
        BY <1>1, <3>2, <3>3, <4>1 DEF PollType, FullInHand
    <3>4. CASE ~live
      <4>1. poll' = [poll EXCEPT !.at = "select", !.valid = FALSE]
        BY <3>1, <3>4
      <4>2. poll' \in PollType /\ poll'.codes = poll.codes /\ poll'.at = "select"
        BY <1>1, <4>1 DEF PollType
      <4>3. ~poll'.valid
        BY <1>1, <4>1 DEF PollType
      <4> QED
        BY <3>2, <4>2, <4>3 DEF FullInHand
    <3> QED
      BY <3>3, <3>4
  <2>2. CASE LoadContinuity
    <3>1. poll' = [poll EXCEPT !.at = IF continuity THEN "replaying" ELSE "select",
                               !.valid = FALSE]
      BY <2>2 DEF LoadContinuity, Load
    <3>2. poll.at = "continuity"
      BY <2>2 DEF LoadContinuity, Load
    <3>3. CASE continuity
      <4>1. poll' = [poll EXCEPT !.at = "replaying", !.valid = FALSE]
        BY <3>1, <3>3
      <4> QED
        BY <1>1, <3>2, <3>3, <4>1 DEF PollType, FullInHand
    <3>4. CASE ~continuity
      <4>1. poll' = [poll EXCEPT !.at = "select", !.valid = FALSE]
        BY <3>1, <3>4
      <4>2. poll' \in PollType /\ poll'.codes = poll.codes /\ poll'.at = "select"
        BY <1>1, <4>1 DEF PollType
      <4>3. ~poll'.valid
        BY <1>1, <4>1 DEF PollType
      <4> QED
        BY <3>2, <4>2, <4>3 DEF FullInHand
    <3> QED
      BY <3>3, <3>4
  <2>3. CASE LoadReplaying
    <3>1. poll.at = "replaying" /\ poll' = [poll EXCEPT !.at = "select", !.valid = ~replaying]
      BY <2>3 DEF LoadReplaying, Load
    <3>2. (~replaying) \in BOOLEAN
      OBVIOUS
    <3>3. poll' \in PollType /\ poll'.codes = poll.codes /\ poll'.at = "select"
      BY <1>1, <3>1, <3>2 DEF PollType
    <3> QED
      BY <3>1, <3>3 DEF FullInHand
  <2> QED
    BY <2>1, <2>2, <2>3
<1>3. PollInv' /\ InHand' <= InHand
  BY <1>2 DEF PollInv, InHand
<1> QED
  BY <1>1, <1>2, <1>3, PollStepInv

LEMMA SelectCandidateInv == ASSUME IInv, SelectCandidate PROVE IInv'
<1>1. /\ poll \in PollType /\ poll.at = "select" /\ poll.codes # <<>>
      /\ poll.codes \in Seq(Codes)
      /\ UNCHANGED <<queue, head, cand, last, sent, late>> /\ Poll
      /\ queue \in QueueType /\ cand \in CandType
      /\ \A q \in Sources : Len(queue[q]) <= Capacity
  BY DEF IInv, TypeOK, PollType, SelectCandidate, queues, arbiter, QueueType, CandType
<1> DEFINE h == Head(poll.codes)
           choice == Select(h, poll.valid)
<1>2. h \in Codes /\ Tail(poll.codes) \in Seq(Codes)
  BY <1>1
<1>3. CASE MayDispatch(h, choice)
  <2>1. poll' = [poll EXCEPT !.at = "send", !.chosen = choice]
    BY <1>3 DEF SelectCandidate
  <2>2. choice \in Choice
    BY <1>1, <1>2 DEF Select, NoDispatch, Choice, Sources, CandType
  <2>3. choice.source = "full" => poll.valid
    <3>1. choice.seq > 0
      BY <1>3 DEF MayDispatch, ShouldDispatch
    <3> QED
      BY <3>1 DEF Select, NoDispatch, FullChosen
  <2>4. healthy
    BY <1>3 DEF MayDispatch
  <2> HIDE DEF choice
  <2>5. /\ poll' \in PollType /\ poll'.at = "send" /\ poll'.codes = poll.codes
        /\ poll'.valid = poll.valid /\ poll'.chosen = choice
    BY <1>1, <2>1, <2>2 DEF PollType
  <2>6. PollInv' /\ FullInHand' <= FullInHand
    BY <1>1, <2>3, <2>5 DEF PollInv, FullInHand
  <2> QED
    BY <1>1, <2>4, <2>5, <2>6, PollStepInv
<1>4. CASE ~MayDispatch(h, choice)
  <2>1. poll' = Dispatching(Tail(poll.codes))
    BY <1>4 DEF SelectCandidate
  <2>2. /\ poll' \in PollType /\ ~poll'.valid /\ poll'.at \in {"top", "live"}
        /\ (poll'.at # "top" => poll'.codes # <<>>)
    BY <1>2, <2>1, DispatchingFacts
  <2> QED
    BY <1>1, <2>2, PollStepInv DEF InHand, FullInHand, PollInv
<1> QED
  BY <1>3, <1>4

LEMMA SendInv == ASSUME IInv, Send PROVE IInv'
<1>1. /\ poll \in PollType /\ poll.at = "send" /\ poll.codes # <<>>
      /\ poll.codes \in Seq(Codes) /\ poll.chosen \in Choice /\ poll.valid \in BOOLEAN
      /\ UNCHANGED <<queue, head, cand>> /\ Poll
      /\ cand \in CandType /\ last \in [Codes -> Choice] /\ sent \in SentType
      /\ late \in [overrun : Nat, invalid : Nat]
      /\ PollInv /\ LateInv
  BY DEF IInv, TypeOK, PollType, Send, queues, CandType, SentType
<1> DEFINE h == Head(poll.codes)
           s == poll.chosen.source
           x == [source |-> s, seq |-> poll.chosen.seq, time |-> cand[h][s].time,
                 valid |-> poll.valid]
<1>2. h \in Codes /\ Tail(poll.codes) \in Seq(Codes)
  BY <1>1
<1>3. s \in Sources /\ poll.chosen.seq \in Nat
  BY <1>1 DEF Choice
<1>4. x \in [source : Sources, seq : Nat, time : Nat, valid : BOOLEAN]
  BY <1>1, <1>2, <1>3 DEF CandType
<1>5. last' \in [Codes -> Choice] /\ sent' \in SentType
  <2>1. sent' = [sent EXCEPT ![h] = Append(sent[h], x)] /\ last' = [last EXCEPT ![h] = poll.chosen]
    BY DEF Send
  <2> HIDE DEF x, h
  <2> DEFINE T == [source : Sources, seq : Nat, time : Nat, valid : BOOLEAN]
  <2>2. Append(sent[h], x) \in Seq(T)
    <3>1. sent[h] \in Seq(T) /\ x \in T
      BY <1>1, <1>2, <1>4 DEF SentType
    <3> HIDE DEF T
    <3> QED
      BY <3>1
  <2> QED
    BY <1>1, <1>2, <2>1, <2>2 DEF SentType
<1>6. /\ late'.overrun = late.overrun + IF healthy THEN 0 ELSE 1
      /\ late'.invalid = late.invalid + IF Stopped /\ s = "full" THEN 1 ELSE 0
      /\ late' \in [overrun : Nat, invalid : Nat]
  BY <1>1 DEF Send
<1>7. /\ poll' \in PollType /\ ~poll'.valid /\ poll'.at \in {"top", "live"}
      /\ (poll'.at # "top" => poll'.codes # <<>>)
  BY <1>2, DispatchingFacts DEF Send
<1>8. TypeOK'
  BY <1>1, <1>5, <1>6, <1>7 DEF IInv, TypeOK, Poll, flags, PollType, CandType, SentType
<1>9. ConsumerInv' /\ PollInv'
  BY <1>1, <1>7 DEF IInv, ConsumerInv, PollInv, Poll, flags, Stopped
<1>10. LateInv'
  <2>1. healthy' = healthy /\ Stopped' = Stopped
    BY <1>1 DEF Poll, flags, Stopped
  <2>2. InHand' = 0 /\ InHand = 1 /\ FullInHand' = 0
    BY <1>1, <1>7 DEF InHand, FullInHand
  <2>3. s = "full" => FullInHand = 1
    BY <1>1 DEF PollInv, FullInHand
  <2>4. FullInHand \in {0, 1}
    BY DEF FullInHand
  <2>5. late.overrun \in Nat /\ late.invalid \in Nat
    BY <1>1
  <2> HIDE DEF s
  <2> QED
    BY <1>1, <1>6, <2>1, <2>2, <2>3, <2>4, <2>5 DEF LateInv
<1> QED
  BY <1>8, <1>9, <1>10 DEF IInv

-----------------------------------------------------------------------------
LEMMA NextInv == IInv /\ [Next]_vars => IInv'
<1> SUFFICES ASSUME IInv, [Next]_vars PROVE IInv'
  OBVIOUS
<1>1. CASE RiskReady
  BY <1>1, RiskReadyInv
<1>2. CASE ConsumerStep
  BY <1>2, PredictFullInv, StoringInv DEF ConsumerStep, Storing
<1>3. CASE FrameStep
  BY <1>3, PredictSnapshotInv, OverrunSnapshotInv DEF FrameStep
<1>4. CASE PollStep
  BY <1>4, TakeFullInv, TakeSnapshotInv, LoadInv, SelectCandidateInv, SendInv DEF PollStep
<1>5. CASE UNCHANGED vars
  <2>1. TypeOK' /\ ConsumerInv'
    BY <1>5, ZenonT(40) DEF IInv, TypeOK, ConsumerInv, Stopped, vars, flags, queues, arbiter
  <2>2. PollInv' /\ LateInv'
    BY <1>5, LateKept DEF vars, flags, arbiter, Stopped
  <2> QED
    BY <2>1, <2>2 DEF IInv
<1> QED
  BY <1>1, <1>2, <1>3, <1>4, <1>5 DEF Next

THEOREM Invariance == Spec => []IInv
BY InitInv, NextInv, PTL DEF Spec

(* Every variable keeps its type, and no queue holds more than its slots   *)
(* (enqueue_sze_trading_signal, sze_trading_poll_loop).                    *)
THEOREM TypeCorrect == Spec => []TypeOK
<1>1. IInv => TypeOK
  BY DEF IInv
<1> QED
  BY <1>1, Invariance, PTL

(* For every number of instruments, every capacity and every interleaving  *)
(* of the flags' loads and stores: after a queue overran one signal at     *)
(* most is traded, and after the stream was declared invalid one           *)
(* prediction of the full order book at most                               *)
(* (dispatch_sze_prediction_candidate).                                    *)
THEOREM StopsPromptly == Spec => []StopIsPrompt
<1>1. IInv => StopIsPrompt
  <2> SUFFICES ASSUME IInv PROVE StopIsPrompt
    OBVIOUS
  <2>1. late.overrun \in Nat /\ late.invalid \in Nat /\ InHand \in Nat /\ FullInHand \in Nat
    BY DEF IInv, TypeOK, InHand, FullInHand
  <2> QED
    BY <2>1 DEF IInv, LateInv, StopIsPrompt
<1> QED
  BY <1>1, Invariance, PTL

-----------------------------------------------------------------------------

(* The signals of a source are numbered in the order they were queued, and *)
(* the candidate kept of a source is older than all that is queued of it.  *)
QueueInv ==
  \A s \in Sources :
    /\ \A i \in 1..Len(queue[s]) :
         /\ queue[s][i].seq <= head[s]
         /\ queue[s][i].turnover = Turnover[s][queue[s][i].time]
         /\ \A j \in 1..(i - 1) : queue[s][j].seq < queue[s][i].seq
         /\ \A c \in Codes : cand[c][s].seq < queue[s][i].seq
    /\ \A c \in Codes : cand[c][s].seq <= head[s]

(* A candidate has the turnover of its time.                               *)
CandInv ==
  \A c \in Codes, s \in Sources :
    cand[c][s].seq > 0 => /\ cand[c][s].time \in Times
                          /\ cand[c][s].turnover = Turnover[s][cand[c][s].time]

(* last is the last signal sent.                                           *)
LastInv ==
  \A c \in Codes :
    sent[c] # <<>> => LET x == sent[c][Len(sent[c])]
                      IN last[c] = [source |-> x.source, seq |-> x.seq]

(* The signal the poll thread is about to send is still the arbiter's      *)
(* choice, and not the last one sent.                                      *)
ChosenInv ==
  LET c == Head(poll.codes)
  IN poll.at = "send" => /\ poll.chosen = Select(c, poll.valid)
                         /\ ShouldDispatch(c, poll.chosen)

(* A signal that may not be chosen again as long as the stream is valid,   *)
(* or is not: its source has a newer candidate, or the other one is better.*)
Beaten(c, x) ==
  \/ cand[c][x.source].seq > x.seq
  \/ x.valid /\ (FullChosen(c, TRUE) <=> x.source = "snapshot")

(* The stream was as valid for every later signal as it was for signal i.  *)
Steady(c, i) == \A k \in i..Len(sent[c]) : sent[c][k].valid = sent[c][i].valid

SentInv ==
  \A c \in Codes : \A i \in 1..Len(sent[c]) :
    LET x == sent[c][i]
    IN /\ x.seq > 0 /\ x.seq <= cand[c][x.source].seq
       /\ x.time <= Latest(c)
       /\ x.source = "full" => x.valid
       /\ i < Len(sent[c]) /\ Steady(c, i) => Beaten(c, x)

OInv == /\ QueueInv /\ CandInv /\ LastInv /\ ChosenInv /\ SentInv /\ DispatchOrder

CandRecord == [time : Nat, turnover : Nat, seq : Nat]
SentRecord == [source : Sources, seq : Nat, time : Nat, valid : BOOLEAN]

-----------------------------------------------------------------------------
(* The arbiter's comparison of a full-order-book candidate f with a        *)
(* snapshot n, both valid and fresh or not.                                *)
Newest(f, n) == IF f.time >= n.time THEN f.time ELSE n.time
Wins(f, n) ==
  /\ f.seq > 0 /\ Newest(f, n) - f.time <= MaxStaleness
  /\ n.seq > 0 /\ Newest(f, n) - n.time <= MaxStaleness => f.turnover >= n.turnover

LEMMA ChosenIffWins ==
  ASSUME NEW c
  PROVE  FullChosen(c, TRUE) <=> Wins(cand[c]["full"], cand[c]["snapshot"])
BY DEF FullChosen, Fresh, Latest, Wins, Newest

(* A later candidate has at least the turnover of the one before, so the   *)
(* better source stays the better one until the other has a newer one.     *)
LEMMA LaterFullWins ==
  ASSUME NEW f \in CandRecord, NEW g \in CandRecord, NEW n \in CandRecord,
         Wins(f, n), g.seq > 0, g.time >= f.time, g.turnover >= f.turnover
  PROVE  Wins(g, n)
BY DispatchAssumption DEF CandRecord, Wins, Newest

LEMMA LaterSnapshotWins ==
  ASSUME NEW f \in CandRecord, NEW n \in CandRecord, NEW m \in CandRecord,
         ~Wins(f, n), f.seq > 0, m.seq > 0, m.time >= n.time,
         n.seq > 0 => m.turnover >= n.turnover
  PROVE  ~Wins(f, m)
BY DispatchAssumption DEF CandRecord, Wins, Newest

(* What a step of the poll thread may do to the candidates of instrument c.*)
Grows(a, b) ==
  \/ b = a
  \/ b.seq > a.seq /\ b.time >= a.time /\ (a.seq > 0 => b.turnover >= a.turnover)

LEMMA GrowsUp ==
  ASSUME NEW a \in CandRecord, NEW b \in CandRecord, Grows(a, b)
  PROVE  b.seq >= a.seq /\ b.time >= a.time
<1>1. CASE b = a
  BY <1>1 DEF CandRecord
<1>2. CASE b # a
  BY <1>2 DEF Grows, CandRecord
<1> QED
  BY <1>1, <1>2

LEMMA BeatenKept ==
  ASSUME NEW c \in Codes, cand \in CandType, cand' \in CandType,
         NEW x \in SentRecord, x.seq > 0, x.seq <= cand[c][x.source].seq,
         Grows(cand[c]["full"], cand'[c]["full"]),
         Grows(cand[c]["snapshot"], cand'[c]["snapshot"]),
         \/ cand'[c]["full"] = cand[c]["full"]
         \/ cand'[c]["snapshot"] = cand[c]["snapshot"],
         Beaten(c, x)
  PROVE  Beaten(c, x)'
<1> DEFINE f == cand[c]["full"]
           g == cand'[c]["full"]
           n == cand[c]["snapshot"]
           m == cand'[c]["snapshot"]
<1>1. /\ f \in CandRecord /\ g \in CandRecord /\ n \in CandRecord /\ m \in CandRecord
      /\ x.source \in {"full", "snapshot"} /\ x.seq \in Nat
  BY DEF CandType, CandRecord, Sources, SentRecord
<1>2. /\ FullChosen(c, TRUE) <=> Wins(f, n)
      /\ FullChosen(c, TRUE)' <=> Wins(g, m)
  <2>1. FullChosen(c, TRUE)' <=> Wins(g, m)
    BY DEF FullChosen, Fresh, Latest, Wins, Newest
  <2> QED
    BY <2>1, ChosenIffWins
<1>3. /\ Grows(f, g) /\ Grows(n, m) /\ (g = f \/ m = n)
      /\ x.source = "full" => x.seq <= f.seq
      /\ x.source = "snapshot" => x.seq <= n.seq
  OBVIOUS
<1>4. CASE cand[c][x.source].seq > x.seq
  <2>1. /\ x.source = "full" => g.seq > x.seq
        /\ x.source = "snapshot" => m.seq > x.seq
    <3> HIDE DEF f, g, n, m
    <3>1. /\ x.source = "full" => f.seq > x.seq
          /\ x.source = "snapshot" => n.seq > x.seq
      BY <1>4 DEF f, n
    <3> QED
      BY <1>1, <1>3, <3>1 DEF Grows, CandRecord
  <2> QED
    BY <1>1, <2>1 DEF Beaten
<1>5. CASE ~(cand[c][x.source].seq > x.seq)
  <2>1. x.valid /\ (Wins(f, n) <=> x.source = "snapshot")
    BY <1>2, <1>5 DEF Beaten
  <2>2. CASE x.source = "full"
    <3>1. CASE g = f
      <4>1. ~Wins(g, m)
        <5> HIDE DEF f, g, n, m
        <5>1. CASE m = n
          BY <2>1, <2>2, <3>1, <5>1
        <5>2. CASE m # n
          <6>1. m.seq > n.seq /\ m.time >= n.time /\ (n.seq > 0 => m.turnover >= n.turnover)
            BY <1>3, <5>2 DEF Grows
          <6>2. m.seq > 0 /\ f.seq > 0
            BY <1>1, <1>3, <2>2, <6>1 DEF CandRecord
          <6> QED
            BY <1>1, <2>1, <2>2, <3>1, <6>1, <6>2, LaterSnapshotWins
        <5> QED
          BY <5>1, <5>2
      <4> QED
        BY <1>2, <2>1, <2>2, <4>1 DEF Beaten
    <3>2. CASE g # f
      <4>1. g.seq > x.seq
        <5> HIDE DEF f, g, n, m
        <5> QED
          BY <1>1, <1>3, <2>2, <3>2 DEF Grows, CandRecord
      <4> QED
        BY <2>2, <4>1 DEF Beaten
    <3> QED
      BY <3>1, <3>2
  <2>3. CASE x.source = "snapshot"
    <3>1. CASE m = n
      <4>1. Wins(g, m)
        <5> HIDE DEF f, g, n, m
        <5>1. CASE g = f
          BY <2>1, <2>3, <3>1, <5>1
        <5>2. CASE g # f
          <6>1. /\ g.seq > f.seq /\ g.time >= f.time
                /\ f.seq > 0 => g.turnover >= f.turnover
            BY <1>3, <5>2 DEF Grows
          <6>2. Wins(f, n) /\ f.seq > 0
            BY <2>1, <2>3 DEF Wins
          <6>3. g.seq > 0
            BY <1>1, <6>1, <6>2 DEF CandRecord
          <6> QED
            BY <1>1, <3>1, <6>1, <6>2, <6>3, LaterFullWins
        <5> QED
          BY <5>1, <5>2
      <4> QED
        BY <1>2, <2>1, <2>3, <4>1 DEF Beaten
    <3>2. CASE m # n
      <4>1. m.seq > x.seq
        <5> HIDE DEF f, g, n, m
        <5> QED
          BY <1>1, <1>3, <2>3, <3>2 DEF Grows, CandRecord
      <4> QED
        BY <2>3, <4>1 DEF Beaten
    <3> QED
      BY <3>1, <3>2
  <2> QED
    BY <1>1, <2>2, <2>3
<1> QED
  BY <1>4, <1>5

-----------------------------------------------------------------------------
LEMMA InitOrder == Init => OInv
<1> SUFFICES ASSUME Init PROVE OInv
  OBVIOUS
<1> USE DEF Init
<1>1. QueueInv /\ CandInv
  BY DEF QueueInv, CandInv, NoSignal
<1>2. LastInv /\ SentInv /\ DispatchOrder
  BY DEF LastInv, SentInv, DispatchOrder
<1>3. ChosenInv
  BY DEF ChosenInv, Polling
<1> QED
  BY <1>1, <1>2, <1>3 DEF OInv

(* The steps that touch neither a queue nor the arbiter.                   *)
LEMMA OthersKept ==
  ASSUME OInv, UNCHANGED <<queues, cand, last, sent>>, ChosenInv'
  PROVE  OInv'
<1>1. /\ queue' = queue /\ head' = head /\ cand' = cand /\ last' = last /\ sent' = sent
  BY DEF queues
<1>2. QueueInv' /\ CandInv' /\ LastInv'
  BY <1>1 DEF OInv, QueueInv, CandInv, LastInv
<1>3. SentInv' /\ DispatchOrder'
  BY <1>1 DEF OInv, SentInv, Latest, Steady, Beaten, FullChosen, Fresh, DispatchOrder
<1> QED
  BY <1>2, <1>3 DEF OInv

LEMMA ChosenKept ==
  ASSUME OInv, UNCHANGED <<poll, cand, last>>
  PROVE  ChosenInv'
BY DEF OInv, ChosenInv, Select, FullChosen, Fresh, Latest, ShouldDispatch

(* A queued signal is numbered above all that were queued before.          *)
LEMMA EnqueueOrder ==
  ASSUME IInv, OInv, NEW s \in Sources, NEW p \in Predictions[s], Enqueue(s, p),
         UNCHANGED <<poll, arbiter>>
  PROVE  OInv'
<1>1. /\ queue \in QueueType /\ head \in [Sources -> 0..MaxSignals] /\ cand \in CandType
      /\ QueueInv /\ UNCHANGED <<poll, cand, last, sent>>
  BY DEF IInv, TypeOK, QueueType, CandType, OInv, arbiter
<1> DEFINE x == [code |-> p[1], time |-> p[2], turnover |-> Turnover[s][p[2]],
                 seq |-> head[s] + 1]
<1>2. /\ queue' = [queue EXCEPT ![s] = Append(queue[s], x)]
      /\ head' = [head EXCEPT ![s] = head[s] + 1]
  BY DEF Enqueue
<1>3. /\ x.seq = head[s] + 1 /\ x.turnover = Turnover[s][x.time]
      /\ head[s] \in Nat /\ x.seq \in Nat
  BY <1>1, DispatchAssumption
<1>4. x \in Signal
  <2>1. Predictions[s] \in SUBSET (Codes \X Times)
    BY DispatchAssumption
  <2>2. p \in Codes \X Times
    BY <2>1
  <2>3. p[1] \in Codes /\ p[2] \in Times /\ Turnover[s][p[2]] \in Nat
    BY <2>2, DispatchAssumption
  <2> QED
    BY <1>3, <2>3 DEF Signal
<1> HIDE DEF x
<1>5. QueueInv'
  <2> SUFFICES ASSUME NEW q \in Sources
               PROVE  /\ \A i \in 1..Len(queue'[q]) :
                            /\ queue'[q][i].seq <= head'[q]
                            /\ queue'[q][i].turnover = Turnover[q][queue'[q][i].time]
                            /\ \A j \in 1..(i - 1) : queue'[q][j].seq < queue'[q][i].seq
                            /\ \A c \in Codes : cand[c][q].seq < queue'[q][i].seq
                      /\ \A c \in Codes : cand[c][q].seq <= head'[q]
    BY <1>1 DEF QueueInv
  <2>1. CASE q # s
    <3>1. queue'[q] = queue[q] /\ head'[q] = head[q]
      BY <1>1, <1>2, <2>1 DEF QueueType
    <3> QED
      BY <1>1, <3>1 DEF QueueInv
  <2>2. CASE q = s
    <3>1. head'[q] = head[s] + 1 /\ queue'[q] = Append(queue[s], x) /\ queue[s] \in Seq(Signal)
      BY <1>1, <1>2, <2>2 DEF QueueType
    <3> DEFINE n == Len(queue[s])
    <3>2. /\ n \in Nat /\ Len(queue'[q]) = n + 1 /\ queue'[q][n + 1] = x
          /\ \A i \in 1..n : queue'[q][i] = queue[s][i] /\ queue[s][i].seq \in Nat
      <4>1. \A i \in 1..n : queue[s][i] \in Signal
        BY <3>1
      <4>2. \A i \in 1..n : queue[s][i].seq \in Nat
        BY <4>1 DEF Signal
      <4> QED
        BY <1>4, <3>1, <4>2
    <3>3. \A c \in Codes : cand[c][s].seq <= head[s] /\ cand[c][s].seq \in Nat
      BY <1>1 DEF QueueInv, CandType
    <3>4. \A i \in 1..n :
            /\ queue[s][i].seq <= head[s]
            /\ queue[s][i].turnover = Turnover[s][queue[s][i].time]
            /\ \A j \in 1..(i - 1) : queue[s][j].seq < queue[s][i].seq
            /\ \A c \in Codes : cand[c][s].seq < queue[s][i].seq
      BY <1>1 DEF QueueInv
    <3> HIDE DEF n
    <3>5. ASSUME NEW i \in 1..(n + 1)
          PROVE  /\ queue'[q][i].seq <= head'[q]
                 /\ queue'[q][i].turnover = Turnover[q][queue'[q][i].time]
                 /\ \A j \in 1..(i - 1) : queue'[q][j].seq < queue'[q][i].seq
                 /\ \A c \in Codes : cand[c][q].seq < queue'[q][i].seq
      <4>1. CASE i = n + 1
        <5>1. \A j \in 1..n : queue'[q][j].seq < x.seq
          <6> TAKE j \in 1..n
          <6>1. queue'[q][j] = queue[s][j] /\ queue[s][j].seq \in Nat /\ queue[s][j].seq <= head[s]
            BY <3>2, <3>4
          <6> QED
            BY <1>3, <6>1
        <5>2. \A c \in Codes : cand[c][q].seq < x.seq
          BY <1>3, <2>2, <3>3
        <5> QED
          BY <1>3, <2>2, <3>1, <3>2, <4>1, <5>1, <5>2
      <4>2. CASE i \in 1..n
        <5>1. queue'[q][i] = queue[s][i] /\ \A j \in 1..(i - 1) : queue'[q][j] = queue[s][j]
          BY <3>2, <4>2
        <5>2. /\ queue[s][i].seq \in Nat /\ queue[s][i].seq <= head[s]
              /\ queue[s][i].turnover = Turnover[s][queue[s][i].time]
              /\ \A j \in 1..(i - 1) : queue[s][j].seq < queue[s][i].seq
              /\ \A c \in Codes : cand[c][s].seq < queue[s][i].seq
          BY <3>2, <3>4, <4>2
        <5>3. queue'[q][i].seq <= head'[q]
          BY <1>3, <3>1, <5>1, <5>2
        <5> QED
          BY <2>2, <5>1, <5>2, <5>3
      <4> QED
        BY <3>2, <4>1, <4>2
    <3>6. \A c \in Codes : cand[c][q].seq <= head'[q]
      BY <1>3, <2>2, <3>1, <3>3
    <3> QED
      BY <3>2, <3>5, <3>6
  <2> QED
    BY <2>1, <2>2
<1>6. CandInv' /\ LastInv'
  BY <1>1 DEF OInv, CandInv, LastInv
<1>7. SentInv' /\ DispatchOrder'
  BY <1>1 DEF OInv, SentInv, Latest, Steady, Beaten, FullChosen, Fresh, DispatchOrder
<1> QED
  BY <1>1, <1>5, <1>6, <1>7, ChosenKept DEF OInv

LEMMA PredictOrder ==
  ASSUME IInv, OInv, PredictFull \/ PredictSnapshot
  PROVE  OInv'
<1>1. UNCHANGED <<poll, arbiter>>
  BY DEF PredictFull, PredictSnapshot, Consumer
<1>2. PICK s \in Sources : UNCHANGED queues \/ \E p \in Predictions[s] : Enqueue(s, p)
  <2>1. CASE PredictFull
    BY <2>1 DEF PredictFull, Sources
  <2>2. CASE PredictSnapshot
    BY <2>2 DEF PredictSnapshot, Sources
  <2> QED
    BY <2>1, <2>2
<1>3. CASE \E p \in Predictions[s] : Enqueue(s, p)
  BY <1>1, <1>3, EnqueueOrder
<1>4. CASE UNCHANGED queues
  BY <1>1, <1>4, OthersKept, ChosenKept DEF arbiter
<1> QED
  BY <1>2, <1>3, <1>4

(* The poll thread takes a signal: it is newer than its source's candidate *)
(* and older than the signals left.                                        *)
LEMMA TakeOrder ==
  ASSUME IInv, OInv, cand' \in CandType, NEW s \in Sources, Take(s),
         UNCHANGED <<head, last, sent>>, poll'.at # "send"
  PROVE  OInv'
<1>1. /\ queue \in QueueType /\ head \in [Sources -> 0..MaxSignals] /\ cand \in CandType
      /\ sent \in SentType
      /\ QueueInv /\ CandInv /\ LastInv /\ SentInv /\ DispatchOrder
  BY DEF IInv, TypeOK, QueueType, CandType, SentType, OInv
<1>2. ChosenInv'
  BY DEF ChosenInv
<1>3. CASE queue[s] = <<>>
  <2>1. queue' = queue /\ cand' = cand
    BY <1>1, <1>3 DEF Take, Keeps, QueueType
  <2> QED
    BY <1>2, <2>1, OthersKept DEF queues
<1>4. CASE queue[s] # <<>>
  <2> DEFINE n == Len(queue[s])
             x == queue[s][1]
  <2>1. /\ n \in Nat \ {0} /\ x = Head(queue[s])
        /\ queue' = [queue EXCEPT ![s] = Tail(queue[s])]
        /\ \A i \in 1..n : queue[s][i] \in Signal
    <3>1. queue[s] \in Seq(Signal)
      BY <1>1 DEF QueueType
    <3> QED
      BY <1>4, <3>1 DEF Take
  <2>2. /\ Len(queue'[s]) = n - 1 /\ \A i \in 1..(n - 1) : queue'[s][i] = queue[s][i + 1]
        /\ \A q \in Sources : q # s => queue'[q] = queue[q]
    <3>1. queue[s] \in Seq(Signal) /\ queue'[s] = Tail(queue[s])
      BY <1>1, <2>1 DEF QueueType
    <3> QED
      BY <1>1, <1>4, <2>1, <3>1 DEF QueueType
  <2>3. /\ x.code \in Codes /\ x.time \in Times /\ x.turnover \in Nat /\ x.seq \in Nat
        /\ x.turnover = Turnover[s][x.time] /\ x.seq <= head[s]
        /\ \A c \in Codes : cand[c][s].seq < x.seq
        /\ \A i \in 2..n : x.seq < queue[s][i].seq
    <3>1. x \in Signal /\ 1 \in 1..n
      BY <2>1
    <3>2. x.code \in Codes /\ x.time \in Times /\ x.turnover \in Nat /\ x.seq \in Nat
      BY <3>1 DEF Signal
    <3>3. /\ x.turnover = Turnover[s][x.time] /\ x.seq <= head[s]
          /\ \A c \in Codes : cand[c][s].seq < x.seq
      BY <1>1, <3>1 DEF QueueInv
    <3>4. ASSUME NEW i \in 2..n PROVE x.seq < queue[s][i].seq
      <4>1. i \in 1..n /\ 1 \in 1..(i - 1)
        BY <2>1
      <4> QED
        BY <1>1, <4>1 DEF QueueInv
    <3> QED
      BY <3>2, <3>3, <3>4
  <2> HIDE DEF n, x
  <2>4. \A c \in Codes :
          /\ \A q \in Sources : q # s => cand'[c][q] = cand[c][q]
          /\ cand'[c][s] # cand[c][s] =>
               /\ cand'[c][s].seq = x.seq /\ cand'[c][s].time = x.time
               /\ cand'[c][s].turnover = x.turnover /\ x.time >= cand[c][s].time
    <3>1. CASE ~Keeps(s)
      <4>1. cand' = cand
        BY <3>1 DEF Take
      <4> QED
        BY <4>1
    <3>2. CASE Keeps(s)
      <4>1. /\ cand' = [cand EXCEPT ![x.code][s] = Kept(x)]
            /\ x.time >= cand[x.code][s].time
        BY <2>1, <3>2 DEF Take, Keeps, Accepts
      <4>2. /\ Kept(x).seq = x.seq /\ Kept(x).time = x.time
            /\ Kept(x).turnover = x.turnover
        BY DEF Kept
      <4> HIDE DEF x
      <4>3. ASSUME NEW c \in Codes
            PROVE  /\ \A q \in Sources : q # s => cand'[c][q] = cand[c][q]
                   /\ cand'[c][s] # cand[c][s] =>
                        /\ cand'[c][s] = Kept(x) /\ x.time >= cand[c][s].time
        BY <1>1, <4>1 DEF CandType
      <4> QED
        BY <4>2, <4>3
    <3> QED
      BY <3>1, <3>2
  <2>5. \A c \in Codes : cand[c][s] \in CandRecord /\ cand'[c][s] \in CandRecord
    BY <1>1 DEF CandType, CandRecord
  <2>6. \A c \in Codes : cand'[c][s].seq <= x.seq
    <3> TAKE c \in Codes
    <3> QED
      BY <2>3, <2>4, <2>5 DEF CandRecord
  <2>7. QueueInv'
    <3> SUFFICES ASSUME NEW q \in Sources
                 PROVE  /\ \A i \in 1..Len(queue'[q]) :
                              /\ queue'[q][i].seq <= head[q]
                              /\ queue'[q][i].turnover = Turnover[q][queue'[q][i].time]
                              /\ \A j \in 1..(i - 1) : queue'[q][j].seq < queue'[q][i].seq
                              /\ \A c \in Codes : cand'[c][q].seq < queue'[q][i].seq
                        /\ \A c \in Codes : cand'[c][q].seq <= head[q]
      BY DEF QueueInv
    <3>1. CASE q # s
      <4>1. queue'[q] = queue[q] /\ \A c \in Codes : cand'[c][q] = cand[c][q]
        BY <2>2, <2>4, <3>1
      <4>2. /\ \A i \in 1..Len(queue[q]) :
                 /\ queue[q][i].seq <= head[q]
                 /\ queue[q][i].turnover = Turnover[q][queue[q][i].time]
                 /\ \A j \in 1..(i - 1) : queue[q][j].seq < queue[q][i].seq
                 /\ \A c \in Codes : cand[c][q].seq < queue[q][i].seq
            /\ \A c \in Codes : cand[c][q].seq <= head[q]
        BY <1>1 DEF QueueInv
      <4> QED
        BY <4>1, <4>2
    <3>2. CASE q = s
      <4>1. ASSUME NEW i \in 1..(n - 1)
            PROVE  /\ queue'[s][i].seq <= head[s]
                   /\ queue'[s][i].turnover = Turnover[s][queue'[s][i].time]
                   /\ \A j \in 1..(i - 1) : queue'[s][j].seq < queue'[s][i].seq
                   /\ \A c \in Codes : cand'[c][s].seq < queue'[s][i].seq
        <5>1. i + 1 \in 1..n /\ i + 1 \in 2..n /\ queue'[s][i] = queue[s][i + 1]
          BY <2>1, <2>2
        <5>2. /\ queue[s][i + 1].seq <= head[s]
              /\ queue[s][i + 1].turnover = Turnover[s][queue[s][i + 1].time]
              /\ \A j \in 1..((i + 1) - 1) : queue[s][j].seq < queue[s][i + 1].seq
          BY <1>1, <5>1 DEF QueueInv, n
        <5>3. \A j \in 1..(i - 1) :
                queue'[s][j] = queue[s][j + 1] /\ j + 1 \in 1..((i + 1) - 1)
          BY <2>1, <2>2
        <5>4. queue[s][i + 1] \in Signal /\ queue[s][i + 1].seq \in Nat
          BY <2>1, <5>1 DEF Signal
        <5>5. ASSUME NEW c \in Codes PROVE cand'[c][s].seq < queue'[s][i].seq
          <6>1. x.seq < queue[s][i + 1].seq /\ cand'[c][s].seq <= x.seq
            BY <2>3, <2>6, <5>1
          <6> QED
            BY <2>3, <2>5, <5>1, <5>4, <6>1 DEF CandRecord
        <5> QED
          BY <5>1, <5>2, <5>3, <5>5
      <4>2. ASSUME NEW c \in Codes PROVE cand'[c][s].seq <= head[s]
        BY <1>1, <2>3, <2>5, <2>6 DEF CandRecord
      <4> QED
        BY <2>2, <3>2, <4>1, <4>2
    <3> QED
      BY <3>1, <3>2
  <2>8. CandInv'
    <3> SUFFICES ASSUME NEW c \in Codes, NEW q \in Sources, cand'[c][q].seq > 0
                 PROVE  /\ cand'[c][q].time \in Times
                        /\ cand'[c][q].turnover = Turnover[q][cand'[c][q].time]
      BY DEF CandInv
    <3>1. CASE cand'[c][q] = cand[c][q]
      BY <1>1, <3>1 DEF CandInv
    <3>2. CASE cand'[c][q] # cand[c][q]
      BY <2>3, <2>4, <3>2
    <3> QED
      BY <3>1, <3>2
  <2>9. ASSUME NEW c \in Codes PROVE Grows(cand[c][s], cand'[c][s])
    <3>1. CASE cand'[c][s] = cand[c][s]
      BY <3>1 DEF Grows
    <3>2. CASE cand'[c][s] # cand[c][s]
      <4>1. /\ cand'[c][s].seq > cand[c][s].seq /\ cand'[c][s].time >= cand[c][s].time
            /\ cand'[c][s].time = x.time /\ cand'[c][s].turnover = Turnover[s][x.time]
        BY <2>3, <2>4, <2>5, <3>2 DEF CandRecord
      <4>2. ASSUME cand[c][s].seq > 0 PROVE cand'[c][s].turnover >= cand[c][s].turnover
        <5>1. /\ cand[c][s].time \in Times
              /\ cand[c][s].turnover = Turnover[s][cand[c][s].time]
          BY <1>1, <4>2 DEF CandInv
        <5>2. Turnover[s][cand[c][s].time] <= Turnover[s][x.time]
          BY <2>3, <4>1, <5>1, DispatchAssumption
        <5>3. /\ Turnover[s][cand[c][s].time] \in Nat /\ Turnover[s][x.time] \in Nat
          BY <2>3, <5>1, DispatchAssumption
        <5> QED
          BY <4>1, <5>1, <5>2, <5>3
      <4> QED
        BY <4>1, <4>2 DEF Grows
    <3> QED
      BY <3>1, <3>2
  <2>10. ASSUME NEW c \in Codes
         PROVE  /\ Grows(cand[c]["full"], cand'[c]["full"])
                /\ Grows(cand[c]["snapshot"], cand'[c]["snapshot"])
                /\ \/ cand'[c]["full"] = cand[c]["full"]
                   \/ cand'[c]["snapshot"] = cand[c]["snapshot"]
    <3>1. \A q \in Sources : q # s => cand'[c][q] = cand[c][q]
      BY <2>4
    <3>2. s = "full" \/ s = "snapshot"
      BY DEF Sources
    <3> QED
      BY <2>9, <3>1, <3>2 DEF Grows, Sources
  <2>11. SentInv'
    <3> SUFFICES ASSUME NEW c \in Codes, NEW i \in 1..Len(sent[c])
                 PROVE  LET z == sent[c][i]
                        IN /\ z.seq > 0 /\ z.seq <= cand'[c][z.source].seq
                           /\ z.time <= Latest(c)'
                           /\ z.source = "full" => z.valid
                           /\ i < Len(sent[c]) /\ Steady(c, i)' => Beaten(c, z)'
      BY DEF SentInv
    <3>1. PICK z \in SentRecord : z = sent[c][i]
      <4>1. sent[c] \in Seq(SentRecord)
        BY <1>1 DEF SentType, SentRecord
      <4> QED
        BY <4>1
    <3>2. /\ z.seq > 0 /\ z.seq <= cand[c][z.source].seq
          /\ z.time <= Latest(c) /\ (z.source = "full" => z.valid)
          /\ i < Len(sent[c]) /\ Steady(c, i) => Beaten(c, z)
      BY <1>1, <3>1 DEF SentInv
    <3>3. Steady(c, i)' => Steady(c, i)
      BY DEF Steady
    <3>4. z.source \in {"full", "snapshot"} /\ z.seq \in Nat /\ z.time \in Nat
      BY <3>1 DEF SentRecord, Sources
    <3>5. /\ cand[c]["full"] \in CandRecord /\ cand'[c]["full"] \in CandRecord
          /\ cand[c]["snapshot"] \in CandRecord /\ cand'[c]["snapshot"] \in CandRecord
      BY <1>1 DEF CandType, CandRecord, Sources
    <3>6. z.seq <= cand'[c][z.source].seq
      <4>1. /\ cand'[c]["full"].seq >= cand[c]["full"].seq
            /\ cand'[c]["snapshot"].seq >= cand[c]["snapshot"].seq
        BY <2>10, <3>5, GrowsUp
      <4>2. /\ cand'[c]["full"].seq \in Nat /\ cand[c]["full"].seq \in Nat
            /\ cand'[c]["snapshot"].seq \in Nat /\ cand[c]["snapshot"].seq \in Nat
        BY <3>5 DEF CandRecord
      <4>3. CASE z.source = "full"
        <5>1. z.seq <= cand[c]["full"].seq
          BY <3>2, <4>3
        <5> QED
          BY <3>4, <4>1, <4>2, <4>3, <5>1
      <4>4. CASE z.source = "snapshot"
        <5>1. z.seq <= cand[c]["snapshot"].seq
          BY <3>2, <4>4
        <5> QED
          BY <3>4, <4>1, <4>2, <4>4, <5>1
      <4> QED
        BY <3>4, <4>3, <4>4
    <3>7. z.time <= Latest(c)'
      <4>1. /\ cand'[c]["full"].time >= cand[c]["full"].time
            /\ cand'[c]["snapshot"].time >= cand[c]["snapshot"].time
        BY <2>10, <3>5, GrowsUp
      <4>2. /\ cand'[c]["full"].time \in Nat /\ cand[c]["full"].time \in Nat
            /\ cand'[c]["snapshot"].time \in Nat /\ cand[c]["snapshot"].time \in Nat
        BY <3>5 DEF CandRecord
      <4>3. \/ z.time <= cand[c]["full"].time
            \/ z.time <= cand[c]["snapshot"].time
        BY <3>2 DEF Latest
      <4>4. \/ z.time <= cand'[c]["full"].time
            \/ z.time <= cand'[c]["snapshot"].time
        BY <3>4, <4>1, <4>2, <4>3
      <4> QED
        BY <3>4, <4>2, <4>4 DEF Latest
    <3>8. Beaten(c, z) => Beaten(c, z)'
      BY <1>1, <2>10, <3>1, <3>2, BeatenKept
    <3> QED
      BY <3>2, <3>3, <3>6, <3>1, <3>7, <3>8
  <2>12. LastInv' /\ DispatchOrder'
    BY <1>1 DEF LastInv, DispatchOrder
  <2> QED
    BY <1>2, <2>7, <2>8, <2>11, <2>12 DEF OInv
<1> QED
  BY <1>3, <1>4

-----------------------------------------------------------------------------
(* The poll thread hands on the arbiter's choice.                          *)

LEMMA ChosenFacts ==
  ASSUME IInv, OInv, poll.at = "send", NEW c, c = Head(poll.codes),
         NEW s, s = poll.chosen.source
  PROVE  /\ s \in {"full", "snapshot"} /\ poll.chosen # last[c]
         /\ poll.chosen.seq = cand[c][s].seq /\ poll.chosen.seq > 0
         /\ Fresh(c, s)
         /\ s = "full" => poll.valid /\ FullChosen(c, TRUE)
         /\ s = "snapshot" => ~FullChosen(c, poll.valid)
<1>1. /\ poll.chosen = Select(c, poll.valid) /\ poll.chosen.seq > 0
      /\ poll.chosen # last[c]
  BY DEF OInv, ChosenInv, ShouldDispatch
<1>2. CASE FullChosen(c, poll.valid)
  <2>1. poll.chosen = [source |-> "full", seq |-> cand[c]["full"].seq]
    BY <1>1, <1>2 DEF Select
  <2>2. s = "full" /\ poll.chosen.seq = cand[c]["full"].seq
    BY <2>1
  <2>3. poll.valid /\ FullChosen(c, TRUE) /\ Fresh(c, "full")
    BY <1>2 DEF FullChosen
  <2> QED
    BY <1>1, <2>2, <2>3
<1>3. CASE ~FullChosen(c, poll.valid)
  <2>1. CASE Fresh(c, "snapshot")
    <3>1. poll.chosen = [source |-> "snapshot", seq |-> cand[c]["snapshot"].seq]
      BY <1>1, <1>3, <2>1 DEF Select
    <3>2. s = "snapshot" /\ poll.chosen.seq = cand[c]["snapshot"].seq
      BY <3>1
    <3> QED
      BY <1>1, <1>3, <2>1, <3>2
  <2>2. CASE ~Fresh(c, "snapshot")
    <3>1. poll.chosen = NoDispatch
      BY <1>1, <1>3, <2>2 DEF Select
    <3>2. poll.chosen.seq = 0
      BY <3>1 DEF NoDispatch
    <3> QED
      BY <1>1, <3>2
  <2> QED
    BY <2>1, <2>2
<1> QED
  BY <1>2, <1>3

(* What is sent of an instrument c: y, after everything sent before.       *)
LEMMA SendFacts ==
  ASSUME IInv, OInv, Send
  PROVE  \E c \in Codes, y \in SentRecord :
           /\ sent' = [sent EXCEPT ![c] = Append(sent[c], y)]
           /\ last' = [last EXCEPT ![c] = [source |-> y.source, seq |-> y.seq]]
           /\ last[c] # [source |-> y.source, seq |-> y.seq]
           /\ y.seq = cand[c][y.source].seq /\ y.seq > 0
           /\ y.time <= Latest(c) /\ y.time + MaxStaleness >= Latest(c)
           /\ y.source = "full" => y.valid /\ FullChosen(c, TRUE)
           /\ y.source = "snapshot" /\ y.valid => ~FullChosen(c, TRUE)
<1>1. /\ poll.at = "send" /\ poll.codes # <<>> /\ poll.codes \in Seq(Codes)
      /\ poll.chosen \in Choice /\ poll.valid \in BOOLEAN /\ cand \in CandType
  BY DEF IInv, TypeOK, Send, CandType
<1>2. PICK c \in Codes : c = Head(poll.codes)
  BY <1>1
<1>3. PICK s \in {"full", "snapshot"} : s = poll.chosen.source
  BY <1>1 DEF Choice, Sources
<1> DEFINE y == [source |-> s, seq |-> poll.chosen.seq, time |-> cand[c][s].time,
                 valid |-> poll.valid]
<1>4. /\ poll.chosen = [source |-> y.source, seq |-> y.seq]
      /\ cand[c][s] \in CandRecord /\ poll.chosen.seq \in Nat
  <2>1. cand[c][s] \in CandRecord
    <3>1. cand[c] \in [Sources -> CandRecord]
      BY <1>1 DEF CandType, CandRecord
    <3>2. s \in Sources
      BY <1>3 DEF Sources
    <3> QED
      BY <3>1, <3>2
  <2>2. poll.chosen = [source |-> s, seq |-> poll.chosen.seq] /\ poll.chosen.seq \in Nat
    BY <1>1, <1>3 DEF Choice
  <2> QED
    BY <2>1, <2>2
<1>5. y \in SentRecord
  BY <1>1, <1>4 DEF SentRecord, CandRecord, Sources
<1>6. /\ sent' = [sent EXCEPT ![c] = Append(sent[c], y)]
      /\ last' = [last EXCEPT ![c] = poll.chosen]
  BY <1>2, <1>3 DEF Send
<1>7. /\ poll.chosen # last[c] /\ y.seq = cand[c][y.source].seq /\ y.seq > 0
      /\ Fresh(c, s) /\ (s = "full" => y.valid /\ FullChosen(c, TRUE))
      /\ (s = "snapshot" => ~FullChosen(c, poll.valid))
  BY <1>1, <1>2, <1>3, ChosenFacts
<1>8. s = "snapshot" /\ poll.valid => ~FullChosen(c, TRUE)
  BY <1>7 DEF FullChosen
<1>9. /\ cand[c][s].time <= Latest(c) /\ cand[c][s].time + MaxStaleness >= Latest(c)
  <2>1. /\ cand[c]["full"].time \in Nat /\ cand[c]["snapshot"].time \in Nat
        /\ Latest(c) \in Nat
    BY <1>1 DEF CandType, Sources, Latest
  <2>2. Latest(c) - cand[c][s].time <= MaxStaleness
    BY <1>7 DEF Fresh
  <2>3. MaxStaleness \in Nat
    BY DispatchAssumption
  <2>4. cand[c][s].time <= Latest(c)
    BY <2>1 DEF Latest
  <2>5. cand[c][s].time \in Nat
    BY <2>1
  <2> QED
    BY <2>1, <2>2, <2>3, <2>4, <2>5
<1> QED
  BY <1>4, <1>5, <1>6, <1>7, <1>8, <1>9

LEMMA SendOrder ==
  ASSUME IInv, OInv, Send
  PROVE  OInv'
<1>1. PICK c \in Codes, y \in SentRecord :
        /\ sent' = [sent EXCEPT ![c] = Append(sent[c], y)]
        /\ last' = [last EXCEPT ![c] = [source |-> y.source, seq |-> y.seq]]
        /\ last[c] # [source |-> y.source, seq |-> y.seq]
        /\ y.seq = cand[c][y.source].seq /\ y.seq > 0
        /\ y.time <= Latest(c) /\ y.time + MaxStaleness >= Latest(c)
        /\ y.source = "full" => y.valid /\ FullChosen(c, TRUE)
        /\ y.source = "snapshot" /\ y.valid => ~FullChosen(c, TRUE)
  BY SendFacts
<1>2. /\ sent \in SentType /\ last \in [Codes -> Choice] /\ cand \in CandType
      /\ UNCHANGED <<queue, head, cand>>
      /\ QueueInv /\ CandInv /\ LastInv /\ SentInv /\ DispatchOrder
  BY DEF IInv, TypeOK, SentType, CandType, Send, queues, OInv
<1>3. QueueInv' /\ CandInv'
  BY <1>2 DEF QueueInv, CandInv
<1>4. ChosenInv'
  <2>1. poll' = Dispatching(Tail(poll.codes))
    BY DEF Send
  <2>2. poll'.at # "send"
    BY <2>1 DEF Dispatching, Polling
  <2> QED
    BY <2>2 DEF ChosenInv
<1> DEFINE n == Len(sent[c])
<1>5. /\ n \in Nat /\ Len(sent'[c]) = n + 1 /\ sent'[c][n + 1] = y
      /\ \A i \in 1..n : sent'[c][i] = sent[c][i] /\ sent[c][i] \in SentRecord
  <2>1. sent[c] \in Seq(SentRecord) /\ sent'[c] = Append(sent[c], y)
    BY <1>1, <1>2 DEF SentType, SentRecord
  <2> QED
    BY <2>1
<1>6. \A d \in Codes : d # c => sent'[d] = sent[d] /\ last'[d] = last[d]
  BY <1>1, <1>2 DEF SentType
<1>7. LastInv'
  <2> SUFFICES ASSUME NEW d \in Codes, sent'[d] # <<>>
               PROVE  LET x == sent'[d][Len(sent'[d])]
                      IN last'[d] = [source |-> x.source, seq |-> x.seq]
    BY DEF LastInv
  <2>1. CASE d = c
    BY <1>1, <1>2, <1>5, <2>1
  <2>2. CASE d # c
    BY <1>2, <1>6, <2>2 DEF LastInv
  <2> QED
    BY <2>1, <2>2
<1>8. y.source \in {"full", "snapshot"} /\ y.seq \in Nat /\ y.time \in Nat /\ y.valid \in BOOLEAN
  BY DEF SentRecord, Sources
<1> HIDE DEF n
(* A signal sent before, with the stream as valid for y as it was for it.  *)
<1>9. ASSUME NEW i \in 1..n, Steady(c, i)'
      PROVE  Beaten(c, sent[c][i])
  <2> DEFINE x == sent[c][i]
  <2>1. /\ x \in SentRecord /\ x.seq > 0 /\ x.seq <= cand[c][x.source].seq
        /\ x.source = "full" => x.valid
        /\ i < n /\ Steady(c, i) => Beaten(c, x)
    BY <1>2, <1>5 DEF SentInv, n
  <2>2. /\ \A k \in i..n : sent[c][k].valid = x.valid
        /\ y.valid = x.valid
    <3>1. /\ \A k \in i..(n + 1) : sent'[c][k].valid = sent'[c][i].valid
      BY <1>5, <1>9 DEF Steady
    <3>2. sent'[c][i] = x /\ n + 1 \in i..(n + 1)
      BY <1>5
    <3>3. \A k \in i..n : k \in i..(n + 1) /\ sent'[c][k] = sent[c][k]
      BY <1>5
    <3> QED
      BY <1>5, <3>1, <3>2, <3>3
  <2>3. CASE i < n
    BY <2>1, <2>2, <2>3 DEF Steady, n
  <2>4. CASE i = n
    <3>1. last[c] = [source |-> x.source, seq |-> x.seq]
      <4>1. sent[c] # <<>>
        BY <1>5, <2>4 DEF n
      <4> QED
        BY <1>2, <2>4, <4>1 DEF LastInv, n
    <3>2. x.seq \in Nat /\ x.source \in {"full", "snapshot"} /\ x.valid \in BOOLEAN
          /\ cand[c][x.source].seq \in Nat
      BY <1>2, <2>1 DEF SentRecord, Sources, CandType
    <3>3. CASE x.seq < cand[c][x.source].seq
      BY <3>2, <3>3 DEF Beaten
    <3>4. CASE x.seq = cand[c][x.source].seq
      <4>1. x.source # y.source
        BY <1>1, <3>1, <3>4
      <4>2. CASE y.source = "full"
        BY <1>1, <2>2, <3>2, <4>1, <4>2 DEF Beaten
      <4>3. CASE y.source = "snapshot"
        <5>1. x.source = "full" /\ x.valid
          BY <2>1, <3>2, <4>1, <4>3
        <5> QED
          BY <1>1, <2>2, <4>3, <5>1 DEF Beaten
      <4> QED
        BY <1>8, <4>2, <4>3
    <3> QED
      BY <2>1, <3>2, <3>3, <3>4
  <2> QED
    BY <1>5, <2>3, <2>4
<1>10. ASSUME NEW i \in 1..n
       PROVE  /\ sent[c][i].time \in Nat /\ sent[c][i].time <= Latest(c)
              /\ y.time + MaxStaleness >= sent[c][i].time
  <2>1. /\ sent[c][i].time \in Nat /\ sent[c][i].time <= Latest(c)
    BY <1>2, <1>5 DEF SentInv, SentRecord, n
  <2>2. Latest(c) \in Nat /\ MaxStaleness \in Nat
    BY <1>2, DispatchAssumption DEF Latest, CandType, Sources
  <2> QED
    BY <1>1, <1>8, <2>1, <2>2
<1>11. SentInv'
  <2> SUFFICES ASSUME NEW d \in Codes, NEW i \in 1..Len(sent'[d])
               PROVE  LET x == sent'[d][i]
                      IN /\ x.seq > 0 /\ x.seq <= cand[d][x.source].seq
                         /\ x.time <= Latest(d)
                         /\ x.source = "full" => x.valid
                         /\ i < Len(sent'[d]) /\ Steady(d, i)' => Beaten(d, x)
    BY <1>2 DEF SentInv, Latest, Beaten, FullChosen, Fresh
  <2>1. CASE d # c
    <3>1. sent'[d] = sent[d]
      BY <1>6, <2>1
    <3>2. Steady(d, i)' => Steady(d, i)
      BY <3>1 DEF Steady
    <3> QED
      BY <1>2, <3>1, <3>2 DEF SentInv
  <2>2. CASE d = c /\ i = n + 1
    <3>1. cand[c][y.source].seq \in Nat
      BY <1>2, <1>8 DEF CandType, Sources
    <3>2. sent'[d][i] = y /\ ~(i < Len(sent'[d]))
      BY <1>5, <2>2
    <3>3. y.seq <= cand[d][y.source].seq
      BY <1>1, <2>2, <3>1
    <3> QED
      BY <1>1, <2>2, <3>2, <3>3
  <2>3. CASE d = c /\ i \in 1..n
    <3>1. sent'[d][i] = sent[c][i]
      BY <1>5, <2>3
    <3>2. LET x == sent[c][i]
          IN /\ x.seq > 0 /\ x.seq <= cand[c][x.source].seq
             /\ x.time <= Latest(c)
             /\ x.source = "full" => x.valid
      BY <1>2, <2>3 DEF SentInv, n
    <3>3. Steady(d, i)' => Beaten(c, sent[c][i])
      BY <1>9, <2>3
    <3> QED
      BY <2>3, <3>1, <3>2, <3>3
  <2> QED
    BY <1>5, <2>1, <2>2, <2>3
<1>12. DispatchOrder'
  <2> SUFFICES ASSUME NEW d \in Codes, NEW j \in 1..Len(sent'[d]), NEW i \in 1..(j - 1)
               PROVE  LET a == sent'[d][i]
                          b == sent'[d][j]
                      IN /\ b.time + MaxStaleness >= a.time
                         /\ Repeats(a, b) =>
                              \E k \in (i + 1)..j : sent'[d][k].valid # a.valid
    BY DEF DispatchOrder, Repeats
  <2>1. CASE d # c
    <3>1. sent'[d] = sent[d]
      BY <1>6, <2>1
    <3> QED
      BY <1>2, <3>1 DEF DispatchOrder, Repeats
  <2>2. CASE d = c /\ j \in 1..n
    <3>1. /\ i \in 1..n /\ sent'[d][i] = sent[c][i] /\ sent'[d][j] = sent[c][j]
          /\ \A k \in (i + 1)..j : sent'[d][k] = sent[c][k]
      BY <1>5, <2>2
    <3>2. /\ sent[c][j].time + MaxStaleness >= sent[c][i].time
          /\ Repeats(sent[c][i], sent[c][j]) =>
               \E k \in (i + 1)..j : sent[c][k].valid # sent[c][i].valid
      BY <1>2, <2>2 DEF DispatchOrder, n
    <3> QED
      BY <3>1, <3>2 DEF Repeats
  <2>3. CASE d = c /\ j = n + 1
    <3>1. /\ i \in 1..n /\ sent'[d][i] = sent[c][i] /\ sent'[d][j] = y
      BY <1>5, <2>3
    <3>2. ASSUME Repeats(sent[c][i], y),
                 \A k \in (i + 1)..(n + 1) : sent'[c][k].valid = sent[c][i].valid
          PROVE  FALSE
      <4>1. Steady(c, i)'
        <5>1. \A k \in i..(n + 1) : k = i \/ k \in (i + 1)..(n + 1)
          BY <1>5, <3>1
        <5> QED
          BY <1>5, <3>1, <3>2, <5>1, <2>3 DEF Steady
      <4>2. Beaten(c, sent[c][i])
        BY <1>9, <3>1, <4>1
      <4>3. sent[c][i].source = y.source /\ sent[c][i].seq = cand[c][y.source].seq
        BY <1>1, <3>2 DEF Repeats
      <4>4. cand[c][y.source].seq \in Nat
        BY <1>2, <1>8 DEF CandType, Sources
      <4>5. sent[c][i].valid /\ (FullChosen(c, TRUE) <=> y.source = "snapshot")
        <5>1. ~(cand[c][sent[c][i].source].seq > sent[c][i].seq)
          BY <4>3, <4>4
        <5> QED
          BY <4>2, <4>3, <5>1 DEF Beaten
      <4>6. y.valid
        <5>1. n + 1 \in (i + 1)..(n + 1)
          BY <1>5, <3>1
        <5>2. y.valid = sent[c][i].valid
          BY <1>5, <3>2, <5>1
        <5> QED
          BY <4>5, <5>2
      <4> QED
        BY <1>1, <1>8, <4>5, <4>6
    <3> QED
      BY <1>10, <2>3, <3>1, <3>2
  <2> QED
    BY <1>5, <2>1, <2>2, <2>3
<1> QED
  BY <1>3, <1>4, <1>7, <1>11, <1>12 DEF OInv

(* Loads and choices of the poll thread, and all the other threads' steps. *)
LEMMA LoadOrder ==
  ASSUME IInv, OInv, LoadLive \/ LoadContinuity \/ LoadReplaying
  PROVE  OInv'
<1>1. UNCHANGED <<queues, cand, last, sent>>
  BY DEF LoadLive, LoadContinuity, LoadReplaying, Load, arbiter
<1>2. poll \in PollType
  BY DEF IInv, TypeOK, PollType
<1>3. poll'.at # "send"
  BY <1>2 DEF LoadLive, LoadContinuity, LoadReplaying, Load, PollType
<1>4. ChosenInv'
  BY <1>3 DEF ChosenInv
<1> QED
  BY <1>1, <1>4, OthersKept

LEMMA SelectOrder == ASSUME IInv, OInv, SelectCandidate PROVE OInv'
<1>1. UNCHANGED <<queues, cand, last, sent>>
  BY DEF SelectCandidate, arbiter
<1>2. poll \in PollType
  BY DEF IInv, TypeOK, PollType
<1> DEFINE c == Head(poll.codes)
           choice == Select(c, poll.valid)
<1>3. CASE MayDispatch(c, choice)
  <2>1. /\ poll' = [poll EXCEPT !.at = "send", !.chosen = choice]
        /\ ShouldDispatch(c, choice)
    BY <1>3 DEF SelectCandidate, MayDispatch
  <2>2. poll'.codes = poll.codes /\ poll'.valid = poll.valid /\ poll'.chosen = choice
    BY <1>2, <2>1 DEF PollType
  <2>3. ChosenInv'
    BY <1>1, <2>1, <2>2 DEF ChosenInv, Select, FullChosen, Fresh, Latest, ShouldDispatch
  <2> QED
    BY <1>1, <2>3, OthersKept
<1>4. CASE ~MayDispatch(c, choice)
  <2>1. poll' = Dispatching(Tail(poll.codes))
    BY <1>4 DEF SelectCandidate
  <2>2. poll'.at # "send"
    BY <2>1 DEF Dispatching, Polling
  <2> QED
    BY <1>1, <2>2, OthersKept DEF ChosenInv
<1> QED
  BY <1>3, <1>4

LEMMA NextOrder == IInv /\ OInv /\ [Next]_vars => OInv'
<1> SUFFICES ASSUME IInv, OInv, [Next]_vars PROVE OInv'
  OBVIOUS
<1>1. CASE RiskReady \/ Storing \/ OverrunSnapshot \/ UNCHANGED vars
  <2>1. UNCHANGED <<queues, cand, last, sent, poll>>
    BY <1>1 DEF RiskReady, OverrunSnapshot, Storing, NextStatus, StoreContinuity,
       StoreLive, NoPrediction, OverrunFull, ProcessFails, StopFailed, Consumer,
       arbiter, queues, vars
  <2> QED
    BY <2>1, OthersKept, ChosenKept
<1>2. CASE PredictFull \/ PredictSnapshot
  BY <1>2, PredictOrder
<1>3. CASE TakeFull \/ TakeSnapshot
  <2>1. PICK s \in Sources : Take(s)
    BY <1>3 DEF TakeFull, TakeSnapshot, Sources
  <2>2. UNCHANGED <<head, last, sent>> /\ poll \in PollType
    BY <1>3 DEF TakeFull, TakeSnapshot, IInv, TypeOK, PollType
  <2>3. poll'.at # "send"
    <3>1. CASE TakeFull
      BY <2>2, <3>1 DEF TakeFull, PollType
    <3>2. CASE TakeSnapshot
      BY <3>2 DEF TakeSnapshot, Dispatching, Polling
    <3> QED
      BY <1>3, <3>1, <3>2
  <2>4. cand' \in CandType
    BY <2>1, TakeFacts DEF IInv
  <2> QED
    BY <2>1, <2>2, <2>3, <2>4, TakeOrder
<1>4. CASE LoadLive \/ LoadContinuity \/ LoadReplaying
  BY <1>4, LoadOrder
<1>5. CASE SelectCandidate
  BY <1>5, SelectOrder
<1>6. CASE Send
  BY <1>6, SendOrder
<1> QED
  BY <1>1, <1>2, <1>3, <1>4, <1>5, <1>6
  DEF Next, ConsumerStep, FrameStep, PollStep, Storing

(* For every day, every capacity and every interleaving: the exchange time *)
(* of what a strategy is handed goes back by no more than MaxStaleness,    *)
(* and a signal is handed on again only after the stream's validity was    *)
(* found changed (Arbiter::select, should_dispatch and mark_dispatched).   *)
THEOREM DispatchesInOrder == Spec => []DispatchOrder
<1>1. IInv /\ OInv /\ [Next]_vars => OInv'
  BY NextOrder
<1>2. OInv => DispatchOrder
  BY DEF OInv
<1> QED
  BY <1>1, <1>2, InitOrder, Invariance, PTL DEF Spec
=============================================================================
