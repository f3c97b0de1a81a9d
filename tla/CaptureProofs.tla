---------------------------- MODULE CaptureProofs ----------------------------
(***************************************************************************)
(* Proofs about Capture, for any number of events, any packets and any     *)
(* number of logins: its type invariant, that the ring and the journal     *)
(* mean the same events by the same ids, that no event is dropped in       *)
(* silence, and that a broken day stays broken.                            *)
(***************************************************************************)
EXTENDS Capture, TLAPS

(* Where the worker has an event in hand.                                  *)
AtEvent == \/ wpc \in {"append", "tellDegraded", "number", "publish"}
           \/ wpc \in {"tell", "tellHealth"} /\ back = "append"

WorkerInv ==
  /\ AtEvent => pending # <<>>
  /\ up /\ wpc = "tellDegraded" => degraded

(* The events of the day the worker is done with.                          *)
Consumed == made - Len(pending)

(* A healthy journal has exactly the ids given out.  Without a journal the *)
(* ids count on; the event that was in hand when it was lost may have been *)
(* given two.                                                              *)
JournalInv ==
  /\ Len(journal) <= Consumed + IF wpc \in {"number", "publish"} THEN 1 ELSE 0
  /\ up => /\ Len(journal) <= ringLast
           /\ ringLast <= Consumed + IF wpc = "publish" THEN 2 ELSE 1
           /\ ~degraded => ringLast = Len(journal)

(* The id in hand stands for the event in hand.                            *)
HandInv ==
  up => /\ wpc = "number" /\ ~degraded =>
             /\ journal # <<>> /\ id = Len(journal)
             /\ journal[Len(journal)] = Head(pending)
        /\ wpc = "publish" =>
             /\ id = ringLast /\ id >= 1
             /\ id <= Len(journal) => journal[id] = Head(pending)

(* While the journal is healthy the ring is not ahead of it.               *)
RingInv == up /\ ~degraded /\ ring # <<>> => rfirst + Len(ring) <= Len(journal) + 1

(* Nobody trusts a broken day: while the process is up it knows, and what  *)
(* it leaves behind says so or was not closed.                             *)
DayInv ==
  /\ up => ~clean
  /\ broken /\ up => forced
  /\ broken /\ ~up => ~clean \/ jstate = "Invalid"

IInv == /\ TypeOK /\ WorkerInv /\ JournalInv /\ HandInv /\ RingInv /\ DayInv
        /\ RingFollowsJournal /\ NothingDroppedSilently /\ BrokenDayStaysBroken
-----------------------------------------------------------------------------
LEMMA InitInv == Init => IInv
<1> SUFFICES ASSUME Init PROVE IInv
  OBVIOUS
<1> USE DEF Init
<1>1. TypeOK
  <2>1. /\ journal \in Seq(Events) /\ ring \in Seq(Events) /\ sent \in Seq(Events)
        /\ pending \in Seq(Events) /\ Len(pending) <= MaxPacket
    BY BoundAssumption
  <2>2. /\ starts \in 0 .. MaxStarts /\ rfirst \in 1 .. MaxEvents + 1
        /\ ringLast \in 0 .. MaxEvents + 1 /\ id \in 0 .. MaxEvents + 1
        /\ made \in 0 .. MaxEvents
    BY BoundAssumption
  <2>3. /\ up \in BOOLEAN /\ clean \in BOOLEAN /\ forced \in BOOLEAN
        /\ degraded \in BOOLEAN /\ broken \in BOOLEAN
        /\ fseen \in BOOLEAN /\ wseen \in BOOLEAN
    OBVIOUS
  <2> QED
    BY <2>1, <2>2, <2>3 DEF TypeOK, States
<1>2. WorkerInv /\ JournalInv /\ HandInv /\ RingInv /\ DayInv
  BY BoundAssumption DEF WorkerInv, AtEvent, JournalInv, Consumed, HandInv, RingInv, DayInv
<1>3. RingFollowsJournal /\ NothingDroppedSilently /\ BrokenDayStaysBroken
  BY DEF RingFollowsJournal, NothingDroppedSilently, BrokenDayStaysBroken
<1> QED
  BY <1>1, <1>2, <1>3 DEF IInv

LEMMA TellInv == ASSUME IInv, Tell PROVE IInv'
<1> USE DEF IInv, Tell, disk, shm, health, flags, worker, flusher, history
<1>1. TypeOK'
  BY DEF TypeOK, FeedHealth, JournalHealth, States
<1>2. WorkerInv' /\ DayInv' /\ BrokenDayStaysBroken'
  BY DEF TypeOK, WorkerInv, AtEvent, DayInv, BrokenDayStaysBroken
<1>3. JournalInv' /\ RingInv'
  BY DEF TypeOK, WorkerInv, AtEvent, JournalInv, Consumed, RingInv
<1>4. HandInv' /\ RingFollowsJournal' /\ NothingDroppedSilently'
  BY DEF TypeOK, WorkerInv, HandInv, RingFollowsJournal, NothingDroppedSilently
<1> QED
  BY <1>1, <1>2, <1>3, <1>4

LEMMA TellHealthInv == ASSUME IInv, TellHealth PROVE IInv'
<1> USE DEF IInv, TellHealth, disk, shm, health, flags, worker, flusher, history
<1>1. TypeOK'
  BY DEF TypeOK, FeedHealth, JournalHealth, States
<1>2. WorkerInv' /\ DayInv' /\ BrokenDayStaysBroken'
  BY DEF TypeOK, WorkerInv, AtEvent, DayInv, BrokenDayStaysBroken
<1>3. JournalInv' /\ RingInv'
  BY DEF TypeOK, WorkerInv, AtEvent, JournalInv, Consumed, RingInv
<1>4. HandInv' /\ RingFollowsJournal' /\ NothingDroppedSilently'
  BY DEF TypeOK, WorkerInv, HandInv, RingFollowsJournal, NothingDroppedSilently
<1> QED
  BY <1>1, <1>2, <1>3, <1>4

LEMMA WorkerMetricsInv == ASSUME IInv, WorkerMetrics PROVE IInv'
<1> USE DEF IInv, WorkerMetrics, disk, shm, health, flags, worker, flusher, history
<1>1. TypeOK'
  BY DEF TypeOK, FeedHealth, JournalHealth, States
<1>2. WorkerInv' /\ DayInv' /\ BrokenDayStaysBroken'
  BY DEF TypeOK, WorkerInv, AtEvent, DayInv, BrokenDayStaysBroken
<1>3. JournalInv' /\ RingInv'
  BY DEF TypeOK, WorkerInv, AtEvent, JournalInv, Consumed, RingInv
<1>4. HandInv' /\ RingFollowsJournal' /\ NothingDroppedSilently'
  BY DEF TypeOK, WorkerInv, HandInv, RingFollowsJournal, NothingDroppedSilently
<1> QED
  BY <1>1, <1>2, <1>3, <1>4

LEMMA WorkerPublishesInv == ASSUME IInv, WorkerPublishes PROVE IInv'
<1> USE DEF IInv, WorkerPublishes, disk, shm, health, flags, worker, flusher, history
<1>1. TypeOK'
  BY DEF TypeOK, FeedHealth, JournalHealth, States
<1>2. WorkerInv' /\ DayInv' /\ BrokenDayStaysBroken'
  BY DEF TypeOK, WorkerInv, AtEvent, DayInv, BrokenDayStaysBroken
<1>3. JournalInv' /\ RingInv'
  BY DEF TypeOK, WorkerInv, AtEvent, JournalInv, Consumed, RingInv
<1>4. HandInv' /\ RingFollowsJournal' /\ NothingDroppedSilently'
  BY DEF TypeOK, WorkerInv, HandInv, RingFollowsJournal, NothingDroppedSilently
<1> QED
  BY <1>1, <1>2, <1>3, <1>4

LEMMA EndPacketInv == ASSUME IInv, EndPacket PROVE IInv'
<1> USE DEF IInv, EndPacket, disk, shm, health, flags, worker, flusher, history
<1>1. TypeOK'
  BY DEF TypeOK, FeedHealth, JournalHealth, States
<1>2. WorkerInv' /\ DayInv' /\ BrokenDayStaysBroken'
  BY DEF TypeOK, WorkerInv, AtEvent, DayInv, BrokenDayStaysBroken
<1>3. JournalInv' /\ RingInv'
  BY DEF TypeOK, WorkerInv, AtEvent, JournalInv, Consumed, RingInv
<1>4. HandInv' /\ RingFollowsJournal' /\ NothingDroppedSilently'
  BY DEF TypeOK, WorkerInv, HandInv, RingFollowsJournal, NothingDroppedSilently
<1> QED
  BY <1>1, <1>2, <1>3, <1>4

LEMMA SkipJournalInv == ASSUME IInv, SkipJournal PROVE IInv'
<1> USE DEF IInv, SkipJournal, disk, shm, health, flags, worker, flusher, history
<1>1. TypeOK'
  BY DEF TypeOK, FeedHealth, JournalHealth, States
<1>2. WorkerInv' /\ DayInv' /\ BrokenDayStaysBroken'
  BY DEF TypeOK, WorkerInv, AtEvent, DayInv, BrokenDayStaysBroken
<1>3. JournalInv' /\ RingInv'
  BY DEF TypeOK, WorkerInv, AtEvent, JournalInv, Consumed, RingInv
<1>4. HandInv' /\ RingFollowsJournal' /\ NothingDroppedSilently'
  BY DEF TypeOK, WorkerInv, HandInv, RingFollowsJournal, NothingDroppedSilently
<1> QED
  BY <1>1, <1>2, <1>3, <1>4

LEMMA AppendFailsInv == ASSUME IInv, AppendFails PROVE IInv'
<1> USE DEF IInv, AppendFails, disk, shm, health, flags, worker, flusher, history
<1>1. TypeOK'
  BY DEF TypeOK, FeedHealth, JournalHealth, States
<1>2. WorkerInv' /\ DayInv' /\ BrokenDayStaysBroken'
  BY DEF TypeOK, WorkerInv, AtEvent, DayInv, BrokenDayStaysBroken
<1>3. JournalInv' /\ RingInv'
  BY DEF TypeOK, WorkerInv, AtEvent, JournalInv, Consumed, RingInv
<1>4. HandInv' /\ RingFollowsJournal' /\ NothingDroppedSilently'
  BY DEF TypeOK, WorkerInv, HandInv, RingFollowsJournal, NothingDroppedSilently
<1> QED
  BY <1>1, <1>2, <1>3, <1>4

LEMMA TellDegradedInv == ASSUME IInv, TellDegraded PROVE IInv'
<1> USE DEF IInv, TellDegraded, disk, shm, health, flags, worker, flusher, history
<1>1. TypeOK'
  BY DEF TypeOK, FeedHealth, JournalHealth, States
<1>2. WorkerInv' /\ DayInv' /\ BrokenDayStaysBroken'
  BY DEF TypeOK, WorkerInv, AtEvent, DayInv, BrokenDayStaysBroken
<1>3. JournalInv' /\ RingInv'
  BY DEF TypeOK, WorkerInv, AtEvent, JournalInv, Consumed, RingInv
<1>4. HandInv' /\ RingFollowsJournal' /\ NothingDroppedSilently'
  BY DEF TypeOK, WorkerInv, HandInv, RingFollowsJournal, NothingDroppedSilently
<1> QED
  BY <1>1, <1>2, <1>3, <1>4

LEMMA StopReceivingInv == ASSUME IInv, StopReceiving PROVE IInv'
<1> USE DEF IInv, StopReceiving, MarkInvalid, disk, shm, health, flags, worker, flusher, history
<1>1. TypeOK'
  BY DEF TypeOK, FeedHealth, JournalHealth, States
<1>2. WorkerInv' /\ DayInv' /\ BrokenDayStaysBroken'
  BY DEF TypeOK, WorkerInv, AtEvent, DayInv, BrokenDayStaysBroken
<1>3. JournalInv' /\ RingInv'
  BY DEF TypeOK, WorkerInv, AtEvent, JournalInv, Consumed, RingInv
<1>4. HandInv' /\ RingFollowsJournal' /\ NothingDroppedSilently'
  BY DEF TypeOK, WorkerInv, HandInv, RingFollowsJournal, NothingDroppedSilently
<1> QED
  BY <1>1, <1>2, <1>3, <1>4

LEMMA StopInv == ASSUME IInv, Stop PROVE IInv'
<1> USE DEF IInv, Stop, disk, shm, health, flags, worker, flusher, history
<1>1. TypeOK'
  <2>1. /\ up' \in BOOLEAN /\ clean' \in BOOLEAN /\ rstate' \in States
        /\ hfeed' \in {"Healthy", "Failed"} /\ hjournal' \in {"Healthy", "Degraded"}
    BY DEF TypeOK, FeedHealth, JournalHealth, States
  <2> QED
    BY <2>1 DEF TypeOK
<1>2. WorkerInv' /\ DayInv' /\ BrokenDayStaysBroken'
  BY DEF TypeOK, WorkerInv, AtEvent, DayInv, BrokenDayStaysBroken
<1>3. JournalInv' /\ RingInv'
  BY DEF TypeOK, WorkerInv, AtEvent, JournalInv, Consumed, RingInv
<1>4. HandInv' /\ RingFollowsJournal' /\ NothingDroppedSilently'
  BY DEF TypeOK, WorkerInv, HandInv, RingFollowsJournal, NothingDroppedSilently
<1> QED
  BY <1>1, <1>2, <1>3, <1>4

LEMMA CrashInv == ASSUME IInv, Crash PROVE IInv'
<1> USE DEF IInv, Crash, disk, shm, health, flags, worker, flusher, history
<1>1. TypeOK'
  <2>1. up' \in BOOLEAN
    OBVIOUS
  <2> QED
    BY <2>1 DEF TypeOK
<1>2. WorkerInv' /\ DayInv' /\ BrokenDayStaysBroken'
  BY DEF TypeOK, WorkerInv, AtEvent, DayInv, BrokenDayStaysBroken
<1>3. JournalInv' /\ RingInv'
  BY DEF TypeOK, WorkerInv, AtEvent, JournalInv, Consumed, RingInv
<1>4. HandInv' /\ RingFollowsJournal' /\ NothingDroppedSilently'
  BY DEF TypeOK, WorkerInv, HandInv, RingFollowsJournal, NothingDroppedSilently
<1> QED
  BY <1>1, <1>2, <1>3, <1>4

(* An event of the packet is numbered by its place in the day.             *)
LEMMA CollectFacts ==
  ASSUME TypeOK, Collect
  PROVE  /\ made' \in 0 .. MaxEvents /\ made' >= made
         /\ pending' \in Seq(Events) /\ Len(pending') <= MaxPacket
         /\ made' - Len(pending') = made - Len(pending)
<1>1. CASE UNCHANGED <<pending, made>>
  BY <1>1 DEF TypeOK
<1>2. CASE /\ made < MaxEvents /\ Len(pending) < MaxPacket
           /\ made' = made + 1 /\ pending' = Append(pending, made + 1)
  <2>1. made + 1 \in Events
    BY <1>2, BoundAssumption DEF TypeOK, Events
  <2>2. pending' \in Seq(Events) /\ Len(pending') = Len(pending) + 1
    BY <1>2, <2>1 DEF TypeOK
  <2> QED
    BY <1>2, <2>1, <2>2, BoundAssumption DEF TypeOK
<1> QED
  BY <1>1, <1>2 DEF Collect

LEMMA ObserveInv == ASSUME IInv, Observe PROVE IInv'
<1> USE DEF IInv, Observe, disk, shm, health, flags, worker, flusher, history
<1>0. /\ made' \in 0 .. MaxEvents /\ made' >= made
      /\ pending' \in Seq(Events) /\ Len(pending') <= MaxPacket
      /\ made' - Len(pending') = made - Len(pending)
  BY CollectFacts
<1>1. TypeOK'
  BY <1>0 DEF TypeOK, Sticky, States
<1>2. WorkerInv' /\ DayInv' /\ BrokenDayStaysBroken'
  BY DEF TypeOK, WorkerInv, AtEvent, DayInv, BrokenDayStaysBroken, Sticky
<1>3. JournalInv' /\ RingInv'
  BY <1>0 DEF TypeOK, JournalInv, Consumed, RingInv
<1>4. HandInv' /\ RingFollowsJournal' /\ NothingDroppedSilently'
  BY DEF TypeOK, HandInv, RingFollowsJournal, NothingDroppedSilently, Sticky
<1> QED
  BY <1>1, <1>2, <1>3, <1>4

LEMMA ObserveBadInv == ASSUME IInv, ObserveBad PROVE IInv'
<1> USE DEF IInv, ObserveBad, MarkInvalid, disk, shm, health, flags, worker, flusher, history
<1>0. /\ made' \in 0 .. MaxEvents /\ made' >= made
      /\ pending' \in Seq(Events) /\ Len(pending') <= MaxPacket
      /\ made' - Len(pending') = made - Len(pending)
  BY CollectFacts
<1>1. TypeOK'
  BY <1>0 DEF TypeOK, Sticky, States
<1>2. WorkerInv' /\ DayInv' /\ BrokenDayStaysBroken'
  BY DEF TypeOK, WorkerInv, AtEvent, DayInv, BrokenDayStaysBroken, Sticky
<1>3. JournalInv' /\ RingInv'
  BY <1>0 DEF TypeOK, JournalInv, Consumed, RingInv
<1>4. HandInv' /\ RingFollowsJournal' /\ NothingDroppedSilently'
  BY DEF TypeOK, HandInv, RingFollowsJournal, NothingDroppedSilently, Sticky
<1> QED
  BY <1>1, <1>2, <1>3, <1>4

(* Where the worker has an event in hand there is room for its number.     *)
LEMMA HandFacts ==
  ASSUME IInv, wpc \in {"append", "number", "publish"}
  PROVE  /\ Len(pending) >= 1 /\ Head(pending) \in Events
         /\ Tail(pending) \in Seq(Events) /\ Len(Tail(pending)) = Len(pending) - 1
         /\ Consumed \in Int /\ Consumed + 1 <= MaxEvents
<1>1. pending \in Seq(Events) /\ pending # <<>> /\ Len(pending) \in Nat
  BY DEF IInv, TypeOK, WorkerInv, AtEvent
<1>2. Len(pending) >= 1
  BY <1>1
<1> QED
  BY <1>1, <1>2, BoundAssumption DEF IInv, TypeOK, Consumed

LEMMA NumberInv == ASSUME IInv, Number PROVE IInv'
<1> USE DEF IInv, Number, disk, shm, health, flags, worker, flusher, history
<1>0. /\ ringLast' \in 0 .. MaxEvents + 1 /\ id' \in 0 .. MaxEvents + 1
      /\ id' = ringLast' /\ id' >= 1
      /\ ~degraded => id' = id /\ ringLast' = ringLast
      /\ degraded => id' > Len(journal)
  <2>1. /\ ringLast \in 0 .. MaxEvents + 1 /\ Len(journal) \in Nat
        /\ ringLast <= MaxEvents
    BY HandFacts, BoundAssumption DEF TypeOK, JournalInv, Consumed
  <2>2. CASE degraded
    BY <2>1, <2>2, BoundAssumption DEF JournalInv
  <2>3. CASE ~degraded
    <3>1. journal # <<>> /\ id = Len(journal) /\ ringLast = Len(journal)
      BY <2>3 DEF HandInv, JournalInv
    <3>2. Len(journal) >= 1
      BY <3>1 DEF TypeOK
    <3> QED
      BY <2>1, <2>3, <3>1, <3>2
  <2> QED
    BY <2>2, <2>3
<1>1. TypeOK'
  BY <1>0 DEF TypeOK
<1>2. WorkerInv' /\ DayInv' /\ BrokenDayStaysBroken'
  BY DEF TypeOK, WorkerInv, AtEvent, DayInv, BrokenDayStaysBroken
<1>3. JournalInv' /\ RingInv'
  BY DEF TypeOK, WorkerInv, AtEvent, JournalInv, Consumed, RingInv
<1>4. HandInv'
  BY <1>0 DEF HandInv
<1>5. RingFollowsJournal' /\ NothingDroppedSilently'
  BY DEF RingFollowsJournal, NothingDroppedSilently
<1> QED
  BY <1>1, <1>2, <1>3, <1>4, <1>5

LEMMA AppendEventInv == ASSUME IInv, AppendEvent PROVE IInv'
<1> USE DEF IInv, AppendEvent, disk, shm, health, flags, worker, flusher, history
<1>0. /\ journal \in Seq(Events) /\ Head(pending) \in Events
      /\ Len(journal) + 1 <= Consumed + 1 /\ Consumed + 1 <= MaxEvents
      /\ Consumed \in Int /\ Len(journal) \in Nat
  BY HandFacts DEF TypeOK, JournalInv
<1>1. /\ journal' \in Seq(Events) /\ Len(journal') = Len(journal) + 1
      /\ journal'[Len(journal) + 1] = Head(pending)
      /\ \A i \in 1 .. Len(journal) : journal'[i] = journal[i]
  BY <1>0
<1>2. TypeOK'
  <2>1. id' \in 0 .. MaxEvents + 1 /\ ringLast' \in 0 .. MaxEvents + 1
    BY <1>0, BoundAssumption
  <2> QED
    BY <1>1, <2>1 DEF TypeOK
<1>3. WorkerInv' /\ DayInv' /\ BrokenDayStaysBroken'
  BY DEF TypeOK, WorkerInv, AtEvent, DayInv, BrokenDayStaysBroken
<1>4. JournalInv'
  <2>1. Consumed' = Consumed
    BY DEF Consumed
  <2> QED
    BY <1>0, <1>1, <2>1 DEF JournalInv
<1>5. RingInv' /\ HandInv'
  <2>1. journal' # <<>>
    BY <1>0, <1>1
  <2>2. RingInv'
    BY <1>0, <1>1 DEF TypeOK, RingInv
  <2>3. HandInv'
    BY <1>0, <1>1, <2>1 DEF HandInv
  <2> QED
    BY <2>2, <2>3
<1>6. RingFollowsJournal'
  <2> SUFFICES ASSUME NEW i \in 1 .. Len(ring), rfirst + i - 1 <= Len(journal')
               PROVE  ring[i] = journal'[rfirst + i - 1]
    BY DEF RingFollowsJournal
  <2>1. /\ rfirst \in Nat /\ rfirst >= 1 /\ i \in Nat /\ i <= Len(ring) /\ i >= 1
        /\ ring # <<>> /\ Len(ring) \in Nat
    BY DEF TypeOK
  <2>2. rfirst + Len(ring) <= Len(journal) + 1
    BY <2>1 DEF RingInv
  <2>3. rfirst + i - 1 \in 1 .. Len(journal)
    BY <1>0, <2>1, <2>2
  <2> QED
    BY <1>1, <2>3 DEF RingFollowsJournal
<1>7. NothingDroppedSilently'
  BY DEF NothingDroppedSilently
<1> QED
  BY <1>2, <1>3, <1>4, <1>5, <1>6, <1>7

(* Offering an event to the ring takes it from the packet.                 *)
LEMMA OfferFacts ==
  ASSUME IInv, Offer, made' = made
  PROVE  /\ Len(pending) >= 1 /\ Head(pending) \in Events
         /\ pending' \in Seq(Events) /\ Len(pending') = Len(pending) - 1
         /\ Consumed \in Int /\ Consumed + 1 <= MaxEvents /\ Consumed' = Consumed + 1
         /\ sent' \in Seq(Events)
<1>1. /\ Len(pending) >= 1 /\ Head(pending) \in Events
      /\ Tail(pending) \in Seq(Events) /\ Len(Tail(pending)) = Len(pending) - 1
      /\ Consumed \in Int /\ Consumed + 1 <= MaxEvents
  BY HandFacts DEF Offer
<1>2. pending' = Tail(pending) /\ sent' = Append(sent, Head(pending))
  BY DEF Offer
<1>3. sent \in Seq(Events) /\ pending \in Seq(Events) /\ made \in Int
  BY DEF IInv, TypeOK
<1>4. sent' \in Seq(Events)
  BY <1>1, <1>2, <1>3
<1>5. Consumed' = Consumed + 1
  <2>1. Len(pending) \in Int
    BY <1>3
  <2> QED
    BY <1>1, <1>2, <1>3, <2>1 DEF Consumed
<1> QED
  BY <1>1, <1>2, <1>4, <1>5

LEMMA PublishInv == ASSUME IInv, Publish PROVE IInv'
<1> USE DEF IInv, Publish, Offer, AfterPublish, disk, shm, health, flags, worker, flusher, history
<1>0. /\ Len(pending) >= 1 /\ Head(pending) \in Events
      /\ pending' \in Seq(Events) /\ Len(pending') = Len(pending) - 1
      /\ Consumed \in Int /\ Consumed + 1 <= MaxEvents
      /\ Consumed' = Consumed + 1
      /\ sent' \in Seq(Events)
  BY OfferFacts
<1>1. /\ id \in 1 .. MaxEvents + 1 /\ id = ringLast
      /\ id <= Len(journal) => journal[id] = Head(pending)
  BY DEF TypeOK, HandInv
<1>2. /\ ring' \in Seq(Events) /\ Len(ring') = Len(ring) + 1
      /\ ring'[Len(ring) + 1] = Head(pending)
      /\ \A i \in 1 .. Len(ring) : ring'[i] = ring[i]
      /\ ring' # <<>>
  <2>1. ring \in Seq(Events) /\ ring' = Append(ring, Head(pending))
    BY DEF TypeOK
  <2>2. /\ ring' \in Seq(Events) /\ Len(ring') = Len(ring) + 1
        /\ ring'[Len(ring) + 1] = Head(pending)
        /\ \A i \in 1 .. Len(ring) : ring'[i] = ring[i]
    <3> HIDE DEF IInv, Publish, Offer
    <3> QED
      BY <1>0, <2>1
  <2>3. Len(ring) \in Nat
    BY <2>1
  <2>4. ring' # <<>>
    <3> HIDE DEF IInv, Publish, Offer
    <3> QED
      BY <2>2, <2>3
  <2> QED
    BY <2>2, <2>4
<1>3. /\ rfirst' \in 1 .. MaxEvents + 1 /\ rfirst' + Len(ring) = id
      /\ ring # <<>> => rfirst' = rfirst
  <2>1. ring \in Seq(Events) /\ rfirst \in 1 .. MaxEvents + 1
    BY DEF TypeOK
  <2>2. /\ ring = <<>> \/ id = rfirst + Len(ring)
        /\ rfirst' = IF ring = <<>> THEN id ELSE rfirst
    BY DEF InSequence
  <2> HIDE DEF IInv, Publish, Offer
  <2>3. CASE ring = <<>>
    BY <1>1, <2>2, <2>3
  <2>4. CASE ring # <<>>
    BY <2>1, <2>2, <2>4
  <2> QED
    BY <2>3, <2>4
<1>4. TypeOK'
  <2>1. Len(pending') <= MaxPacket /\ wpc' \in {"append", "receive"}
    BY <1>0, BoundAssumption DEF TypeOK
  <2>2. /\ up' = up /\ starts' = starts /\ journal' = journal /\ jstate' = jstate
        /\ clean' = clean /\ rstate' = rstate /\ hfeed' = hfeed /\ hjournal' = hjournal
        /\ forced' = forced /\ reason' = reason /\ degraded' = degraded
        /\ ringLast' = ringLast /\ back' = back /\ id' = id /\ fpc' = fpc
        /\ fseen' = fseen /\ wseen' = wseen /\ made' = made /\ broken' = broken
    OBVIOUS
  <2>3. TypeOK
    OBVIOUS
  <2> HIDE DEF IInv, Publish, Offer, AfterPublish
  <2> QED
    BY <1>0, <1>2, <1>3, <2>1, <2>2, <2>3 DEF TypeOK
<1>5. WorkerInv' /\ DayInv' /\ BrokenDayStaysBroken'
  <2>1. Len(pending) > 1 => pending' # <<>>
    <3> HIDE DEF IInv, Publish, Offer, AfterPublish
    <3> QED
      BY <1>0
  <2> QED
    BY <2>1 DEF WorkerInv, AtEvent, DayInv, BrokenDayStaysBroken
<1>6. JournalInv' /\ HandInv'
  BY <1>0 DEF TypeOK, JournalInv, HandInv
<1>7. RingInv'
  BY <1>1, <1>2, <1>3 DEF TypeOK, RingInv, JournalInv
<1>8. RingFollowsJournal'
  <2> SUFFICES ASSUME NEW i \in 1 .. Len(ring'), rfirst' + i - 1 <= Len(journal)
               PROVE  ring'[i] = journal[rfirst' + i - 1]
    BY DEF RingFollowsJournal
  <2>1. Len(ring) \in Nat /\ rfirst' \in Nat
    BY <1>3 DEF TypeOK
  <2>2. CASE i = Len(ring) + 1
    <3>1. rfirst' + i - 1 = id
      BY <1>1, <1>3, <2>1, <2>2
    <3> QED
      BY <1>1, <1>2, <2>2, <3>1
  <2>3. CASE i \in 1 .. Len(ring)
    <3>1. ring # <<>>
      BY <2>3
    <3> QED
      BY <1>2, <1>3, <2>3, <3>1 DEF RingFollowsJournal
  <2> QED
    BY <1>2, <2>1, <2>2, <2>3
<1>9. NothingDroppedSilently'
  BY DEF NothingDroppedSilently
<1> QED
  BY <1>4, <1>5, <1>6, <1>7, <1>8, <1>9

LEMMA RejectInv == ASSUME IInv, Reject PROVE IInv'
<1> USE DEF IInv, Reject, Offer, MarkInvalid, AfterPublish, disk, shm, health, flags, worker,
            flusher, history
<1>0. /\ Len(pending) >= 1 /\ Head(pending) \in Events
      /\ pending' \in Seq(Events) /\ Len(pending') = Len(pending) - 1
      /\ Consumed \in Int /\ Consumed' = Consumed + 1
      /\ sent' \in Seq(Events)
  BY OfferFacts
<1>1. /\ up' = up /\ starts' = starts /\ journal' = journal /\ jstate' = jstate
      /\ clean' = clean /\ ring' = ring /\ rfirst' = rfirst /\ rstate' = rstate
      /\ hfeed' = hfeed /\ hjournal' = hjournal /\ degraded' = degraded
      /\ ringLast' = ringLast /\ id' = id /\ fpc' = fpc /\ fseen' = fseen
      /\ wseen' = wseen /\ made' = made /\ broken' = broken
  OBVIOUS
<1>2. TypeOK'
  <2>1. /\ Len(pending') <= MaxPacket /\ wpc' = "tell" /\ back' \in {"append", "receive"}
        /\ forced' = TRUE /\ reason' \in {reason, "RingOverrun"}
    BY <1>0, BoundAssumption DEF TypeOK
  <2>2. TypeOK
    OBVIOUS
  <2> HIDE DEF IInv, Reject, Offer, MarkInvalid, AfterPublish
  <2> QED
    BY <1>0, <1>1, <2>1, <2>2 DEF TypeOK
<1>3. WorkerInv' /\ DayInv' /\ BrokenDayStaysBroken'
  <2>1. Len(pending) > 1 => pending' # <<>>
    BY <1>0
  <2> QED
    BY <2>1 DEF WorkerInv, AtEvent, DayInv, BrokenDayStaysBroken
<1>4. JournalInv' /\ HandInv' /\ RingInv'
  BY <1>0 DEF TypeOK, JournalInv, HandInv, RingInv
<1>5. RingFollowsJournal' /\ NothingDroppedSilently'
  BY DEF RingFollowsJournal, NothingDroppedSilently
<1> QED
  BY <1>2, <1>3, <1>4, <1>5

LEMMA StartInv == ASSUME IInv, Start PROVE IInv'
<1> USE DEF IInv, Start
<1>1. StartState \in States /\ (broken => StartState = "Invalid")
  BY DEF TypeOK, DayInv, StartState, States
<1>2. Len(journal) <= made
  BY DEF TypeOK, JournalInv, WorkerInv, AtEvent, Consumed
<1>3. TypeOK'
  <2>1. /\ starts' \in 0 .. MaxStarts /\ ringLast' \in 0 .. MaxEvents + 1
        /\ rfirst' \in 1 .. MaxEvents + 1 /\ id' \in 0 .. MaxEvents + 1
    BY <1>2, BoundAssumption DEF TypeOK
  <2>2. /\ pending' \in Seq(Events) /\ Len(pending') <= MaxPacket
        /\ ring' \in Seq(Events) /\ sent' \in Seq(Events)
    BY BoundAssumption
  <2>3. /\ up' \in BOOLEAN /\ clean' \in BOOLEAN /\ forced' \in BOOLEAN
        /\ degraded' \in BOOLEAN /\ fseen' \in BOOLEAN /\ wseen' \in BOOLEAN
    OBVIOUS
  <2>4. /\ jstate' \in States /\ rstate' \in States
        /\ hfeed' \in {"Healthy", "Failed"} /\ hjournal' \in {"Healthy", "Degraded"}
        /\ reason' \in {"None", "Restored"}
    BY <1>1 DEF FeedHealth
  <2> QED
    BY <2>1, <2>2, <2>3, <2>4 DEF TypeOK
<1>4. WorkerInv' /\ DayInv' /\ BrokenDayStaysBroken'
  BY <1>1 DEF WorkerInv, AtEvent, DayInv, BrokenDayStaysBroken
<1>5. JournalInv'
  <2>1. Consumed' = made /\ made \in Nat
    BY BoundAssumption DEF Consumed, TypeOK
  <2> QED
    BY <1>2, <2>1 DEF TypeOK, JournalInv
<1>6. HandInv' /\ RingInv' /\ RingFollowsJournal' /\ NothingDroppedSilently'
  BY DEF HandInv, RingInv, RingFollowsJournal, NothingDroppedSilently
<1> QED
  BY <1>3, <1>4, <1>5, <1>6

LEMMA FlushInv == ASSUME IInv, Flush PROVE IInv'
<1> USE DEF IInv, Flush, FlushGoto, disk, shm, health, flags, worker, flusher, history
<1>1. TypeOK'
  BY DEF TypeOK, FeedHealth, JournalHealth, States
<1>2. WorkerInv' /\ DayInv' /\ BrokenDayStaysBroken'
  BY DEF TypeOK, WorkerInv, AtEvent, DayInv, BrokenDayStaysBroken
<1>3. JournalInv' /\ RingInv'
  BY DEF TypeOK, WorkerInv, AtEvent, JournalInv, Consumed, RingInv
<1>4. HandInv' /\ RingFollowsJournal' /\ NothingDroppedSilently'
  BY DEF TypeOK, WorkerInv, HandInv, RingFollowsJournal, NothingDroppedSilently
<1> QED
  BY <1>1, <1>2, <1>3, <1>4

LEMMA FlushFailsInv == ASSUME IInv, FlushFails PROVE IInv'
<1> USE DEF IInv, FlushFails, FlushGoto, disk, shm, health, flags, worker, flusher, history
<1>1. TypeOK'
  BY DEF TypeOK, FeedHealth, JournalHealth, States
<1>2. WorkerInv' /\ DayInv' /\ BrokenDayStaysBroken'
  BY DEF TypeOK, WorkerInv, AtEvent, DayInv, BrokenDayStaysBroken
<1>3. JournalInv' /\ RingInv'
  BY DEF TypeOK, WorkerInv, AtEvent, JournalInv, Consumed, RingInv
<1>4. HandInv' /\ RingFollowsJournal' /\ NothingDroppedSilently'
  BY DEF TypeOK, WorkerInv, HandInv, RingFollowsJournal, NothingDroppedSilently
<1> QED
  BY <1>1, <1>2, <1>3, <1>4

LEMMA FlushTellsDegradedInv == ASSUME IInv, FlushTellsDegraded PROVE IInv'
<1> USE DEF IInv, FlushTellsDegraded, FlushGoto, disk, shm, health, flags, worker, flusher, history
<1>1. TypeOK'
  BY DEF TypeOK, FeedHealth, JournalHealth, States
<1>2. WorkerInv' /\ DayInv' /\ BrokenDayStaysBroken'
  BY DEF TypeOK, WorkerInv, AtEvent, DayInv, BrokenDayStaysBroken
<1>3. JournalInv' /\ RingInv'
  BY DEF TypeOK, WorkerInv, AtEvent, JournalInv, Consumed, RingInv
<1>4. HandInv' /\ RingFollowsJournal' /\ NothingDroppedSilently'
  BY DEF TypeOK, WorkerInv, HandInv, RingFollowsJournal, NothingDroppedSilently
<1> QED
  BY <1>1, <1>2, <1>3, <1>4

LEMMA LoadForcedInv == ASSUME IInv, LoadForced PROVE IInv'
<1> USE DEF IInv, LoadForced, FlushGoto, disk, shm, health, flags, worker, flusher, history
<1>1. TypeOK'
  BY DEF TypeOK, FeedHealth, JournalHealth, States
<1>2. WorkerInv' /\ DayInv' /\ BrokenDayStaysBroken'
  BY DEF TypeOK, WorkerInv, AtEvent, DayInv, BrokenDayStaysBroken
<1>3. JournalInv' /\ RingInv'
  BY DEF TypeOK, WorkerInv, AtEvent, JournalInv, Consumed, RingInv
<1>4. HandInv' /\ RingFollowsJournal' /\ NothingDroppedSilently'
  BY DEF TypeOK, WorkerInv, HandInv, RingFollowsJournal, NothingDroppedSilently
<1> QED
  BY <1>1, <1>2, <1>3, <1>4

LEMMA PublishFeedInv == ASSUME IInv, PublishFeed PROVE IInv'
<1> USE DEF IInv, PublishFeed, FlushGoto, disk, shm, health, flags, worker, flusher, history
<1>1. TypeOK'
  BY DEF TypeOK, FeedHealth, JournalHealth, States
<1>2. WorkerInv' /\ DayInv' /\ BrokenDayStaysBroken'
  BY DEF TypeOK, WorkerInv, AtEvent, DayInv, BrokenDayStaysBroken
<1>3. JournalInv' /\ RingInv'
  BY DEF TypeOK, WorkerInv, AtEvent, JournalInv, Consumed, RingInv
<1>4. HandInv' /\ RingFollowsJournal' /\ NothingDroppedSilently'
  BY DEF TypeOK, WorkerInv, HandInv, RingFollowsJournal, NothingDroppedSilently
<1> QED
  BY <1>1, <1>2, <1>3, <1>4

LEMMA LoadDegradedInv == ASSUME IInv, LoadDegraded PROVE IInv'
<1> USE DEF IInv, LoadDegraded, FlushGoto, disk, shm, health, flags, worker, flusher, history
<1>1. TypeOK'
  BY DEF TypeOK, FeedHealth, JournalHealth, States
<1>2. WorkerInv' /\ DayInv' /\ BrokenDayStaysBroken'
  BY DEF TypeOK, WorkerInv, AtEvent, DayInv, BrokenDayStaysBroken
<1>3. JournalInv' /\ RingInv'
  BY DEF TypeOK, WorkerInv, AtEvent, JournalInv, Consumed, RingInv
<1>4. HandInv' /\ RingFollowsJournal' /\ NothingDroppedSilently'
  BY DEF TypeOK, WorkerInv, HandInv, RingFollowsJournal, NothingDroppedSilently
<1> QED
  BY <1>1, <1>2, <1>3, <1>4

LEMMA PublishJournalInv == ASSUME IInv, PublishJournal PROVE IInv'
<1> USE DEF IInv, PublishJournal, FlushGoto, disk, shm, health, flags, worker, flusher, history
<1>1. TypeOK'
  BY DEF TypeOK, FeedHealth, JournalHealth, States
<1>2. WorkerInv' /\ DayInv' /\ BrokenDayStaysBroken'
  BY DEF TypeOK, WorkerInv, AtEvent, DayInv, BrokenDayStaysBroken
<1>3. JournalInv' /\ RingInv'
  BY DEF TypeOK, WorkerInv, AtEvent, JournalInv, Consumed, RingInv
<1>4. HandInv' /\ RingFollowsJournal' /\ NothingDroppedSilently'
  BY DEF TypeOK, WorkerInv, HandInv, RingFollowsJournal, NothingDroppedSilently
<1> QED
  BY <1>1, <1>2, <1>3, <1>4

-----------------------------------------------------------------------------
LEMMA NextInv == IInv /\ [Next]_vars => IInv'
<1> SUFFICES ASSUME IInv, [Next]_vars PROVE IInv'
  OBVIOUS
<1>1. CASE WorkerRecords
  BY <1>1, ObserveInv, ObserveBadInv, StopReceivingInv, WorkerMetricsInv DEF WorkerRecords
<1>2. CASE WorkerInside
  BY <1>2, TellInv, TellHealthInv, WorkerPublishesInv, EndPacketInv, AppendEventInv,
     SkipJournalInv, AppendFailsInv, TellDegradedInv, NumberInv, PublishInv, RejectInv
     DEF WorkerInside
<1>3. CASE FlushThread
  BY <1>3, FlushInv, FlushFailsInv, FlushTellsDegradedInv, LoadForcedInv, PublishFeedInv,
     LoadDegradedInv, PublishJournalInv DEF FlushThread
<1>4. CASE Start \/ Stop \/ Crash
  BY <1>4, StartInv, StopInv, CrashInv
<1>5. CASE UNCHANGED vars
  <2> USE <1>5 DEF vars, disk, shm, health, flags, worker, flusher, history
  <2>1. TypeOK' /\ WorkerInv' /\ JournalInv' /\ HandInv'
    BY DEF IInv, TypeOK, WorkerInv, AtEvent, JournalInv, Consumed, HandInv
  <2>2. RingInv' /\ DayInv'
    BY DEF IInv, RingInv, DayInv
  <2>3. RingFollowsJournal' /\ NothingDroppedSilently' /\ BrokenDayStaysBroken'
    BY DEF IInv, RingFollowsJournal, NothingDroppedSilently, BrokenDayStaysBroken
  <2> QED
    BY <2>1, <2>2, <2>3 DEF IInv
<1> QED
  BY <1>1, <1>2, <1>3, <1>4, <1>5 DEF Next

(* Every step of the worker, the flush thread, a login, a logout and a     *)
(* crash keeps the inductive invariant.                                    *)
THEOREM Invariance == Spec => []IInv
BY InitInv, NextInv, PTL DEF Spec

(* Every variable keeps its type; the ids run at most one ahead of the     *)
(* day's events, although an event whose journal was lost while it was in  *)
(* hand is given two (publish_recovery_event).                             *)
THEOREM TypeCorrect == Spec => []TypeOK
<1>1. IInv => TypeOK
  BY DEF IInv
<1> QED
  BY <1>1, Invariance, PTL

(* For every packet size and every interleaving of the flush thread with   *)
(* the worker, an id means one event in the ring and in the journal        *)
(* (publish_recovery_event, mark_journal_degraded).                        *)
THEOREM SameIds == Spec => []RingFollowsJournal
<1>1. IInv => RingFollowsJournal
  BY DEF IInv
<1> QED
  BY <1>1, Invariance, PTL

(* A ring that does not say Invalid has taken every event it was offered,  *)
(* in order (publish_recovery_event, mark_recovery_invalid).               *)
THEOREM LossIsTold == Spec => []NothingDroppedSilently
<1>1. IInv => NothingDroppedSilently
  BY DEF IInv
<1> QED
  BY <1>1, Invariance, PTL

(* A day that a record ended is Invalid in the journal, the ring and the   *)
(* engine through every crash and restart (initialize_recovery,            *)
(* shutdown_recovery).                                                     *)
THEOREM DayStaysBroken == Spec => []BrokenDayStaysBroken
<1>1. IInv => BrokenDayStaysBroken
  BY DEF IInv
<1> QED
  BY <1>1, Invariance, PTL
=============================================================================
