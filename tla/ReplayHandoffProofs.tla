------------------------- MODULE ReplayHandoffProofs -------------------------
(***************************************************************************)
(* Proofs about ReplayHandoff, for every ring capacity and every bound:    *)
(* its type invariant, and that the strategy processes the events of the   *)
(* day in order, none skipped and none twice.                              *)
(***************************************************************************)
EXTENDS ReplayHandoff, TLAPS

LEMMA InitInv == Init => IInv
<1> SUFFICES ASSUME Init PROVE IInv
  OBVIOUS
<1> USE BoundAssumption DEF Init
<1>0. /\ clean \in BOOLEAN /\ invalid \in BOOLEAN /\ alive \in BOOLEAN
      /\ degraded \in BOOLEAN /\ mine \in BOOLEAN /\ live \in BOOLEAN
  BY Zenon
<1>1. TypeOK
  BY <1>0 DEF TypeOK, Readiness, Ids
<1>2. CaptureInv /\ ConsumerInv
  BY DEF CaptureInv, ConsumerInv, OnRing
<1>3. NothingSkipped
  BY DEF NothingSkipped
<1> QED
  BY <1>1, <1>2, <1>3 DEF IInv

-----------------------------------------------------------------------------
(* The capture process.  None of its steps touches what the consumer has   *)
(* taken.                                                                  *)
LEMMA LoginInv == IInv /\ Login => IInv'
<1> SUFFICES ASSUME IInv, Login PROVE IInv'
  OBVIOUS
<1> USE BoundAssumption, CapacityAssumption
<1> USE DEF IInv, Login, journal, ring, consumer
<1>0. alive' \in BOOLEAN /\ clean' \in BOOLEAN /\ invalid' \in BOOLEAN /\ mine' \in BOOLEAN
  BY Zenon
<1>1. TypeOK'
  BY <1>0 DEF TypeOK, CaptureInv, ConsumerInv, Readiness, Ids
<1>2. CaptureInv'
  BY DEF TypeOK, CaptureInv, Ids
<1>3. ConsumerInv'
  BY DEF TypeOK, CaptureInv, ConsumerInv, OnRing, Ids
<1>4. NothingSkipped'
  BY DEF NothingSkipped
<1> QED
  BY <1>1, <1>2, <1>3, <1>4

LEMMA PublishInitialInv == IInv /\ PublishInitial => IInv'
<1> SUFFICES ASSUME IInv, PublishInitial PROVE IInv'
  OBVIOUS
<1> USE BoundAssumption, CapacityAssumption
<1> USE DEF IInv, PublishInitial, WorkerGoto, journal, ring, consumer
<1>1. TypeOK'
  BY DEF TypeOK, CaptureInv, ConsumerInv, Readiness, Ids
<1>2. CaptureInv'
  BY DEF TypeOK, CaptureInv, Ids
<1>3. ConsumerInv'
  BY DEF TypeOK, CaptureInv, ConsumerInv, OnRing, Ids
<1>4. NothingSkipped'
  BY DEF NothingSkipped
<1> QED
  BY <1>1, <1>2, <1>3, <1>4

LEMMA AppendEventInv == IInv /\ AppendEvent => IInv'
<1> SUFFICES ASSUME IInv, AppendEvent PROVE IInv'
  OBVIOUS
<1> USE BoundAssumption, CapacityAssumption
<1> USE DEF IInv, AppendEvent, WorkerGoto, journal, ring, consumer
<1>1. TypeOK'
  BY DEF TypeOK, CaptureInv, ConsumerInv, Readiness, Ids
<1>2. CaptureInv'
  BY DEF TypeOK, CaptureInv, Ids
<1>3. ConsumerInv'
  BY DEF TypeOK, CaptureInv, ConsumerInv, OnRing, Ids
<1>4. NothingSkipped'
  BY DEF NothingSkipped
<1> QED
  BY <1>1, <1>2, <1>3, <1>4

LEMMA CountOnInv == IInv /\ CountOn => IInv'
<1> SUFFICES ASSUME IInv, CountOn PROVE IInv'
  OBVIOUS
<1> USE BoundAssumption, CapacityAssumption
<1> USE DEF IInv, CountOn, WorkerGoto, journal, ring, consumer
<1>1. TypeOK'
  BY DEF TypeOK, CaptureInv, ConsumerInv, Readiness, Ids
<1>2. CaptureInv'
  BY DEF TypeOK, CaptureInv, Ids
<1>3. ConsumerInv'
  BY DEF TypeOK, CaptureInv, ConsumerInv, OnRing, Ids
<1>4. NothingSkipped'
  BY DEF NothingSkipped
<1> QED
  BY <1>1, <1>2, <1>3, <1>4

LEMMA DegradeInv == IInv /\ Degrade => IInv'
<1> SUFFICES ASSUME IInv, Degrade PROVE IInv'
  OBVIOUS
<1> USE BoundAssumption, CapacityAssumption
<1> USE DEF IInv, Degrade, journal, ring, consumer
<1>1. TypeOK'
  BY DEF TypeOK, CaptureInv, ConsumerInv, Readiness, Ids
<1>2. CaptureInv'
  BY DEF TypeOK, CaptureInv, Ids
<1>3. ConsumerInv'
  BY DEF TypeOK, CaptureInv, ConsumerInv, OnRing, Ids
<1>4. NothingSkipped'
  BY DEF NothingSkipped
<1> QED
  BY <1>1, <1>2, <1>3, <1>4

LEMMA PublishInv == IInv /\ Publish => IInv'
<1> SUFFICES ASSUME IInv, Publish PROVE IInv'
  OBVIOUS
<1> USE BoundAssumption, CapacityAssumption
<1> USE DEF IInv, Publish, WorkerGoto, journal, ring, consumer
<1>1. TypeOK'
  BY DEF TypeOK, CaptureInv, ConsumerInv, Readiness, Ids
<1>2. CaptureInv'
  BY DEF TypeOK, CaptureInv, Ids
<1>3. ConsumerInv'
  BY DEF TypeOK, CaptureInv, ConsumerInv, OnRing, Ids
<1>4. NothingSkipped'
  BY DEF NothingSkipped
<1> QED
  BY <1>1, <1>2, <1>3, <1>4

LEMMA RefuseInv == IInv /\ Refuse => IInv'
<1> SUFFICES ASSUME IInv, Refuse PROVE IInv'
  OBVIOUS
<1> USE BoundAssumption, CapacityAssumption
<1> USE DEF IInv, Refuse, TellInvalid, WorkerGoto, journal, ring, consumer
<1>1. TypeOK'
  BY DEF TypeOK, CaptureInv, ConsumerInv, Readiness, Ids
<1>2. CaptureInv'
  BY DEF TypeOK, CaptureInv, Ids
<1>3. ConsumerInv'
  BY DEF TypeOK, CaptureInv, ConsumerInv, OnRing, Ids
<1>4. NothingSkipped'
  BY DEF NothingSkipped
<1> QED
  BY <1>1, <1>2, <1>3, <1>4

LEMMA MarkInvalidInv == IInv /\ MarkInvalid => IInv'
<1> SUFFICES ASSUME IInv, MarkInvalid PROVE IInv'
  OBVIOUS
<1> USE BoundAssumption, CapacityAssumption
<1> USE DEF IInv, MarkInvalid, TellInvalid, WorkerGoto, journal, ring, consumer
<1>1. TypeOK'
  BY DEF TypeOK, CaptureInv, ConsumerInv, Readiness, Ids
<1>2. CaptureInv'
  BY DEF TypeOK, CaptureInv, Ids
<1>3. ConsumerInv'
  BY DEF TypeOK, CaptureInv, ConsumerInv, OnRing, Ids
<1>4. NothingSkipped'
  BY DEF NothingSkipped
<1> QED
  BY <1>1, <1>2, <1>3, <1>4

LEMMA StoreNotReadyInv == IInv /\ StoreNotReady => IInv'
<1> SUFFICES ASSUME IInv, StoreNotReady PROVE IInv'
  OBVIOUS
<1> USE BoundAssumption, CapacityAssumption
<1> USE DEF IInv, StoreNotReady, WorkerGoto, journal, ring, consumer
<1>1. TypeOK'
  BY DEF TypeOK, CaptureInv, ConsumerInv, Readiness, Ids
<1>2. CaptureInv'
  BY DEF TypeOK, CaptureInv, Ids
<1>3. ConsumerInv'
  BY DEF TypeOK, CaptureInv, ConsumerInv, OnRing, Ids
<1>4. NothingSkipped'
  BY DEF NothingSkipped
<1> QED
  BY <1>1, <1>2, <1>3, <1>4

LEMMA LogoutInv == IInv /\ Logout => IInv'
<1> SUFFICES ASSUME IInv, Logout PROVE IInv'
  OBVIOUS
<1> USE BoundAssumption, CapacityAssumption
<1> USE DEF IInv, Logout, WorkerGoto, journal, ring, consumer
<1>1. TypeOK'
  BY DEF TypeOK, CaptureInv, ConsumerInv, Readiness, Ids
<1>2. CaptureInv'
  BY DEF TypeOK, CaptureInv, Ids
<1>3. ConsumerInv'
  BY DEF TypeOK, CaptureInv, ConsumerInv, OnRing, Ids
<1>4. NothingSkipped'
  BY DEF NothingSkipped
<1> QED
  BY <1>1, <1>2, <1>3, <1>4

LEMMA ExitInv == IInv /\ Exit => IInv'
<1> SUFFICES ASSUME IInv, Exit PROVE IInv'
  OBVIOUS
<1> USE BoundAssumption, CapacityAssumption
<1> USE DEF IInv, Exit, journal, ring, consumer
<1>0. alive' \in BOOLEAN
  BY Zenon
<1>1. TypeOK'
  BY <1>0 DEF TypeOK, CaptureInv, ConsumerInv, Readiness, Ids
<1>2. CaptureInv'
  BY DEF TypeOK, CaptureInv, Ids
<1>3. ConsumerInv'
  BY DEF TypeOK, CaptureInv, ConsumerInv, OnRing, Ids
<1>4. NothingSkipped'
  BY DEF NothingSkipped
<1> QED
  BY <1>1, <1>2, <1>3, <1>4

-----------------------------------------------------------------------------
(* The consumer.                                                           *)
LEMMA LoadContinuityInv == IInv /\ LoadContinuity => IInv'
<1> SUFFICES ASSUME IInv, LoadContinuity PROVE IInv'
  OBVIOUS
<1> USE BoundAssumption, CapacityAssumption
<1> USE DEF IInv, LoadContinuity, capture, journal, ring, process
<1>1. TypeOK'
  BY DEF TypeOK, CaptureInv, ConsumerInv, Readiness, Ids
<1>2. CaptureInv'
  BY DEF TypeOK, CaptureInv, Ids
<1>3. ConsumerInv'
  BY DEF TypeOK, CaptureInv, ConsumerInv, OnRing, Ids
<1>4. NothingSkipped'
  BY DEF NothingSkipped
<1> QED
  BY <1>1, <1>2, <1>3, <1>4

LEMMA StoreReadinessInv == IInv /\ StoreReadiness => IInv'
<1> SUFFICES ASSUME IInv, StoreReadiness PROVE IInv'
  OBVIOUS
<1> USE BoundAssumption, CapacityAssumption
<1> USE DEF IInv, StoreReadiness, capture, journal, ring, process
<1>1. TypeOK'
  BY DEF TypeOK, CaptureInv, ConsumerInv, Readiness, Ids
<1>2. CaptureInv'
  BY DEF TypeOK, CaptureInv, Ids
<1>3. ConsumerInv'
  BY DEF TypeOK, CaptureInv, ConsumerInv, OnRing, Ids
<1>4. NothingSkipped'
  BY DEF NothingSkipped
<1> QED
  BY <1>1, <1>2, <1>3, <1>4

LEMMA OpenInv == IInv /\ Open => IInv'
<1> SUFFICES ASSUME IInv, Open PROVE IInv'
  OBVIOUS
<1> USE BoundAssumption, CapacityAssumption
<1> USE DEF IInv, Open, SetReadiness, capture, journal, ring, process
<1>1. TypeOK'
  BY DEF TypeOK, CaptureInv, ConsumerInv, Readiness, Ids
<1>2. CaptureInv'
  BY DEF TypeOK, CaptureInv, Ids
<1>3. ConsumerInv'
  BY DEF TypeOK, CaptureInv, ConsumerInv, OnRing, Ids
<1>4. NothingSkipped'
  BY DEF NothingSkipped
<1> QED
  BY <1>1, <1>2, <1>3, <1>4

LEMMA CallWhenInvalidInv == IInv /\ CallWhenInvalid => IInv'
<1> SUFFICES ASSUME IInv, CallWhenInvalid PROVE IInv'
  OBVIOUS
<1> USE BoundAssumption, CapacityAssumption
<1> USE DEF IInv, CallWhenInvalid, Answer, NextUnchanged, capture, journal, ring, process
<1>1. TypeOK'
  BY DEF TypeOK, CaptureInv, ConsumerInv, Readiness, Ids
<1>2. CaptureInv'
  BY DEF TypeOK, CaptureInv, Ids
<1>3. ConsumerInv'
  BY DEF TypeOK, CaptureInv, ConsumerInv, OnRing, Ids
<1>4. NothingSkipped'
  BY DEF NothingSkipped
<1> QED
  BY <1>1, <1>2, <1>3, <1>4

LEMMA CallWhenBrokenInv == IInv /\ CallWhenBroken => IInv'
<1> SUFFICES ASSUME IInv, CallWhenBroken PROVE IInv'
  OBVIOUS
<1> USE BoundAssumption, CapacityAssumption
<1> USE DEF IInv, CallWhenBroken, Invalidate, SetReadiness, NextUnchanged, capture, journal, ring, process
<1>1. TypeOK'
  BY DEF TypeOK, CaptureInv, ConsumerInv, Readiness, Ids
<1>2. CaptureInv'
  BY DEF TypeOK, CaptureInv, Ids
<1>3. ConsumerInv'
  BY DEF TypeOK, CaptureInv, ConsumerInv, OnRing, Ids
<1>4. NothingSkipped'
  BY DEF NothingSkipped
<1> QED
  BY <1>1, <1>2, <1>3, <1>4

LEMMA CallInv == IInv /\ Call => IInv'
<1> SUFFICES ASSUME IInv, Call PROVE IInv'
  OBVIOUS
<1> USE BoundAssumption, CapacityAssumption
<1> USE DEF IInv, Call, NextUnchanged, capture, journal, ring, process
<1>1. TypeOK'
  BY DEF TypeOK, CaptureInv, ConsumerInv, Readiness, Ids
<1>2. CaptureInv'
  BY DEF TypeOK, CaptureInv, Ids
<1>3. ConsumerInv'
  BY DEF TypeOK, CaptureInv, ConsumerInv, OnRing, Ids
<1>4. NothingSkipped'
  BY DEF NothingSkipped
<1> QED
  BY <1>1, <1>2, <1>3, <1>4

LEMMA ReadJournalInv == IInv /\ ReadJournal => IInv'
<1> SUFFICES ASSUME IInv, ReadJournal PROVE IInv'
  OBVIOUS
<1> USE BoundAssumption, CapacityAssumption
<1> USE DEF IInv, ReadJournal, Answer, NextUnchanged, capture, journal, ring, process
<1>1. TypeOK'
  BY DEF TypeOK, CaptureInv, ConsumerInv, Readiness, Ids
<1>2. CaptureInv'
  BY DEF TypeOK, CaptureInv, Ids
<1>3. ConsumerInv'
  BY DEF TypeOK, CaptureInv, ConsumerInv, OnRing, Ids
<1>4. NothingSkipped'
  BY DEF NothingSkipped
<1> QED
  BY <1>1, <1>2, <1>3, <1>4

LEMMA JournalDrainedInv == IInv /\ JournalDrained => IInv'
<1> SUFFICES ASSUME IInv, JournalDrained PROVE IInv'
  OBVIOUS
<1> USE BoundAssumption, CapacityAssumption
<1> USE DEF IInv, JournalDrained, NextUnchanged, capture, journal, ring, process
<1>1. TypeOK'
  BY DEF TypeOK, CaptureInv, ConsumerInv, Readiness, Ids
<1>2. CaptureInv'
  BY DEF TypeOK, CaptureInv, Ids
<1>3. ConsumerInv'
  BY DEF TypeOK, CaptureInv, ConsumerInv, OnRing, Ids
<1>4. NothingSkipped'
  BY DEF NothingSkipped
<1> QED
  BY <1>1, <1>2, <1>3, <1>4

LEMMA JournalFailsInv == IInv /\ JournalFails => IInv'
<1> SUFFICES ASSUME IInv, JournalFails PROVE IInv'
  OBVIOUS
<1> USE BoundAssumption, CapacityAssumption
<1> USE DEF IInv, JournalFails, Invalidate, SetReadiness, NextUnchanged, capture, journal, ring, process
<1>1. TypeOK'
  BY DEF TypeOK, CaptureInv, ConsumerInv, Readiness, Ids
<1>2. CaptureInv'
  BY DEF TypeOK, CaptureInv, Ids
<1>3. ConsumerInv'
  BY DEF TypeOK, CaptureInv, ConsumerInv, OnRing, Ids
<1>4. NothingSkipped'
  BY DEF NothingSkipped
<1> QED
  BY <1>1, <1>2, <1>3, <1>4

LEMMA HandoffInv == IInv /\ Handoff => IInv'
<1> SUFFICES ASSUME IInv, Handoff PROVE IInv'
  OBVIOUS
<1> USE BoundAssumption, CapacityAssumption
<1> USE DEF IInv, Handoff, SetReadiness, NextUnchanged, capture, journal, ring, process
<1>1. TypeOK'
  BY DEF TypeOK, CaptureInv, ConsumerInv, Readiness, Ids
<1>2. CaptureInv'
  BY DEF TypeOK, CaptureInv, Ids
<1>3. ConsumerInv'
  BY DEF TypeOK, CaptureInv, ConsumerInv, OnRing, Ids
<1>4. NothingSkipped'
  BY DEF NothingSkipped
<1> QED
  BY <1>1, <1>2, <1>3, <1>4

LEMMA NotYetInv == IInv /\ NotYet => IInv'
<1> SUFFICES ASSUME IInv, NotYet PROVE IInv'
  OBVIOUS
<1> USE BoundAssumption, CapacityAssumption
<1> USE DEF IInv, NotYet, Answer, NextUnchanged, capture, journal, ring, process
<1>1. TypeOK'
  BY DEF TypeOK, CaptureInv, ConsumerInv, Readiness, Ids
<1>2. CaptureInv'
  BY DEF TypeOK, CaptureInv, Ids
<1>3. ConsumerInv'
  BY DEF TypeOK, CaptureInv, ConsumerInv, OnRing, Ids
<1>4. NothingSkipped'
  BY DEF NothingSkipped
<1> QED
  BY <1>1, <1>2, <1>3, <1>4

LEMMA RingBrokenInv == IInv /\ RingBroken => IInv'
<1> SUFFICES ASSUME IInv, RingBroken PROVE IInv'
  OBVIOUS
<1> USE BoundAssumption, CapacityAssumption
<1> USE DEF IInv, RingBroken, Invalidate, SetReadiness, NextUnchanged, capture, journal, ring, process
<1>1. TypeOK'
  BY DEF TypeOK, CaptureInv, ConsumerInv, Readiness, Ids
<1>2. CaptureInv'
  BY DEF TypeOK, CaptureInv, Ids
<1>3. ConsumerInv'
  BY DEF TypeOK, CaptureInv, ConsumerInv, OnRing, Ids
<1>4. NothingSkipped'
  BY DEF NothingSkipped
<1> QED
  BY <1>1, <1>2, <1>3, <1>4

LEMMA RingNotReadyInv == IInv /\ RingNotReady => IInv'
<1> SUFFICES ASSUME IInv, RingNotReady PROVE IInv'
  OBVIOUS
<1> USE BoundAssumption, CapacityAssumption
<1> USE DEF IInv, RingNotReady, Answer, NextUnchanged, capture, journal, ring, process
<1>1. TypeOK'
  BY DEF TypeOK, CaptureInv, ConsumerInv, Readiness, Ids
<1>2. CaptureInv'
  BY DEF TypeOK, CaptureInv, Ids
<1>3. ConsumerInv'
  BY DEF TypeOK, CaptureInv, ConsumerInv, OnRing, Ids
<1>4. NothingSkipped'
  BY DEF NothingSkipped
<1> QED
  BY <1>1, <1>2, <1>3, <1>4

LEMMA RingTakeInv == IInv /\ RingTake => IInv'
<1> SUFFICES ASSUME IInv, RingTake PROVE IInv'
  OBVIOUS
<1> USE BoundAssumption, CapacityAssumption
<1> USE DEF IInv, RingTake, Held, Broken, Answer, SetReadiness, NextUnchanged, capture, journal, ring, process
<1>1. TypeOK'
  BY DEF TypeOK, CaptureInv, ConsumerInv, Readiness, Ids
<1>2. CaptureInv'
  BY DEF TypeOK, CaptureInv, Ids
<1>3. ConsumerInv'
  BY DEF TypeOK, CaptureInv, ConsumerInv, OnRing, Ids
<1>4. NothingSkipped'
  BY DEF NothingSkipped
<1> QED
  BY <1>1, <1>2, <1>3, <1>4

LEMMA RingOverrunInv == IInv /\ RingOverrun => IInv'
<1> SUFFICES ASSUME IInv, RingOverrun PROVE IInv'
  OBVIOUS
<1> USE BoundAssumption, CapacityAssumption
<1> USE DEF IInv, RingOverrun, SeekFinds, SetReadiness, NextUnchanged, capture, journal, ring, process
<1>1. TypeOK'
  BY DEF TypeOK, CaptureInv, ConsumerInv, Readiness, Ids
<1>2. CaptureInv'
  BY DEF TypeOK, CaptureInv, Ids
<1>3. ConsumerInv'
  BY DEF TypeOK, CaptureInv, ConsumerInv, OnRing, Ids
<1>4. NothingSkipped'
  BY DEF NothingSkipped
<1> QED
  BY <1>1, <1>2, <1>3, <1>4

LEMMA RingLostInv == IInv /\ RingLost => IInv'
<1> SUFFICES ASSUME IInv, RingLost PROVE IInv'
  OBVIOUS
<1> USE BoundAssumption, CapacityAssumption
<1> USE DEF IInv, RingLost, Invalidate, SetReadiness, NextUnchanged, capture, journal, ring, process
<1>1. TypeOK'
  BY DEF TypeOK, CaptureInv, ConsumerInv, Readiness, Ids
<1>2. CaptureInv'
  BY DEF TypeOK, CaptureInv, Ids
<1>3. ConsumerInv'
  BY DEF TypeOK, CaptureInv, ConsumerInv, OnRing, Ids
<1>4. NothingSkipped'
  BY DEF NothingSkipped
<1> QED
  BY <1>1, <1>2, <1>3, <1>4

LEMMA HandleEventInv == IInv /\ HandleEvent => IInv'
<1> SUFFICES ASSUME IInv, HandleEvent PROVE IInv'
  OBVIOUS
<1> USE BoundAssumption, CapacityAssumption
<1> USE DEF IInv, HandleEvent, Taken, Resume, capture, journal, ring, process
<1>1. TypeOK'
  BY DEF TypeOK, CaptureInv, ConsumerInv, Readiness, Ids
<1>2. CaptureInv'
  BY DEF TypeOK, CaptureInv, Ids
<1>3. ConsumerInv'
  BY DEF TypeOK, CaptureInv, ConsumerInv, OnRing, Ids
<1>4. NothingSkipped'
  <2>1. taken \in Seq(Ids) /\ ev \in Ids /\ ev = Len(taken) + 1
    BY DEF TypeOK, ConsumerInv
  <2>2. /\ Len(taken') = Len(taken) + 1
        /\ taken'[Len(taken) + 1] = ev
        /\ \A i \in 1 .. Len(taken) : taken'[i] = taken[i]
    BY <2>1
  <2> QED
    BY <2>1, <2>2 DEF NothingSkipped
<1> QED
  BY <1>1, <1>2, <1>3, <1>4

LEMMA HandleNothingInv == IInv /\ HandleNothing => IInv'
<1> SUFFICES ASSUME IInv, HandleNothing PROVE IInv'
  OBVIOUS
<1> USE BoundAssumption, CapacityAssumption
<1> USE DEF IInv, HandleNothing, Taken, Resume, capture, journal, ring, process
<1>1. TypeOK'
  BY DEF TypeOK, CaptureInv, ConsumerInv, Readiness, Ids
<1>2. CaptureInv'
  BY DEF TypeOK, CaptureInv, Ids
<1>3. ConsumerInv'
  BY DEF TypeOK, CaptureInv, ConsumerInv, OnRing, Ids
<1>4. NothingSkipped'
  BY DEF NothingSkipped
<1> QED
  BY <1>1, <1>2, <1>3, <1>4

LEMMA HandleInvalidInv == IInv /\ HandleInvalid => IInv'
<1> SUFFICES ASSUME IInv, HandleInvalid PROVE IInv'
  OBVIOUS
<1> USE BoundAssumption, CapacityAssumption
<1> USE DEF IInv, HandleInvalid, Taken, Resume, capture, journal, ring, process
<1>0. live' \in BOOLEAN
  BY Zenon
<1>1. TypeOK'
  BY <1>0 DEF TypeOK, CaptureInv, ConsumerInv, Readiness, Ids
<1>2. CaptureInv'
  BY DEF TypeOK, CaptureInv, Ids
<1>3. ConsumerInv'
  BY DEF TypeOK, CaptureInv, ConsumerInv, OnRing, Ids
<1>4. NothingSkipped'
  BY DEF NothingSkipped
<1> QED
  BY <1>1, <1>2, <1>3, <1>4

LEMMA HandleUndecodableInv == IInv /\ HandleUndecodable => IInv'
<1> SUFFICES ASSUME IInv, HandleUndecodable PROVE IInv'
  OBVIOUS
<1> USE BoundAssumption, CapacityAssumption
<1> USE DEF IInv, HandleUndecodable, Taken, Close, SetReadiness, capture, journal, ring, process
<1>0. live' \in BOOLEAN
  BY Zenon
<1>1. TypeOK'
  BY <1>0 DEF TypeOK, CaptureInv, ConsumerInv, Readiness, Ids
<1>2. CaptureInv'
  BY DEF TypeOK, CaptureInv, Ids
<1>3. ConsumerInv'
  BY DEF TypeOK, CaptureInv, ConsumerInv, OnRing, Ids
<1>4. NothingSkipped'
  BY DEF NothingSkipped
<1> QED
  BY <1>1, <1>2, <1>3, <1>4

LEMMA StopInv == IInv /\ Stop => IInv'
<1> SUFFICES ASSUME IInv, Stop PROVE IInv'
  OBVIOUS
<1> USE BoundAssumption, CapacityAssumption
<1> USE DEF IInv, Stop, Close, SetReadiness, capture, journal, ring, process
<1>0. live' \in BOOLEAN
  BY Zenon
<1>1. TypeOK'
  BY <1>0 DEF TypeOK, CaptureInv, ConsumerInv, Readiness, Ids
<1>2. CaptureInv'
  BY DEF TypeOK, CaptureInv, Ids
<1>3. ConsumerInv'
  BY DEF TypeOK, CaptureInv, ConsumerInv, OnRing, Ids
<1>4. NothingSkipped'
  BY DEF NothingSkipped
<1> QED
  BY <1>1, <1>2, <1>3, <1>4

-----------------------------------------------------------------------------
(* A step that changes nothing keeps the invariant. *)
LEMMA StutterInv == IInv /\ UNCHANGED vars => IInv'
BY DEF vars, consumer, journal, ring, process, IInv, TypeOK, CaptureInv,
       ConsumerInv, OnRing, NothingSkipped

(* Every step of the two processes keeps the invariant. *)
LEMMA NextInv == IInv /\ [Next]_vars => IInv'
<1> SUFFICES ASSUME IInv, [Next]_vars PROVE IInv'
  OBVIOUS
<1>1. CASE CaptureStep
  BY <1>1, LoginInv, PublishInitialInv, AppendEventInv, CountOnInv, DegradeInv,
     PublishInv, RefuseInv, MarkInvalidInv, StoreNotReadyInv,
     LogoutInv, ExitInv
  DEF CaptureStep, Worker
<1>2. CASE Poll
  BY <1>2, LoadContinuityInv, StoreReadinessInv, CallWhenInvalidInv,
     CallWhenBrokenInv, CallInv, ReadJournalInv, JournalDrainedInv,
     HandoffInv, NotYetInv, RingBrokenInv, RingNotReadyInv,
     RingTakeInv, RingOverrunInv, RingLostInv, HandleEventInv,
     HandleNothingInv, HandleInvalidInv
  DEF Poll
<1>3. CASE Open \/ JournalFails \/ HandleUndecodable \/ Stop
  BY <1>3, OpenInv, JournalFailsInv, HandleUndecodableInv, StopInv
<1>4. CASE UNCHANGED vars
  BY <1>4, StutterInv
<1> QED
  BY <1>1, <1>2, <1>3, <1>4 DEF Next

(* The inductive invariant: where the consumer is determines what it has   *)
(* taken and what it asks for next, and a ring whose ids are ahead of the  *)
(* journal's begins beyond any event a consumer on the ring asks for.      *)
THEOREM Invariance == Spec => []IInv
<1>1. Init => IInv
  BY InitInv
<1>2. IInv /\ [Next]_vars => IInv'
  BY NextInv
<1> QED
  BY <1>1, <1>2, PTL DEF Spec

(* Type correctness of the consumer and the capture process.               *)
THEOREM TypeCorrect == Spec => []TypeOK
<1>1. IInv => TypeOK
  BY DEF IInv
<1> QED
  BY <1>1, Invariance, PTL

(* The strategy processes events 1, 2, 3, ...: the handoff from the        *)
(* journal to the ring and back loses none and repeats none, for any ring  *)
(* capacity, number of events, restarts and reopenings.                    *)
THEOREM InOrder == Spec => []NothingSkipped
<1>1. IInv => NothingSkipped
  BY DEF IInv
<1> QED
  BY <1>1, Invariance, PTL

-----------------------------------------------------------------------------
(* Refinement: the consumer and the capture process give the strategy what *)
(* DayDelivery promises.  First that the day only grows, and by one event  *)
(* at a time; then each step of the consumer.                              *)
LEMMA RefinesInit == Init => DeliveryInv /\ Delivery!Init
BY DEF Init, DeliveryInv, Delivery!Init, Captured, Phase

(* The capture process appends an event to the day, in the journal or,     *)
(* after it failed, in the ring; a new ring takes none away.               *)
LEMMA CaptureRefines ==
  ASSUME IInv, DeliveryInv, CaptureStep
  PROVE  DeliveryInv' /\ (Delivery!Capture \/ UNCHANGED Delivery!vars)
<1> USE DEF journal, ring, process, consumer, WorkerGoto
<1>1. /\ jlen \in Nat /\ latest \in Nat /\ first \in Nat /\ wid \in Nat /\ ev \in Nat
      /\ ahead \in {0, 1} /\ degraded \in BOOLEAN
  BY BoundAssumption DEF IInv, TypeOK, Ids
<1>2. /\ UNCHANGED <<pc, then, mode, status, ev, live, taken>>
      /\ Phase' = Phase
  BY DEF CaptureStep, Worker, Login, PublishInitial, AppendEvent, CountOn, Degrade, Publish,
     Refuse, MarkInvalid, TellInvalid, StoreNotReady, Logout, Exit, Phase
<1>3. CASE AppendEvent
  <2>1. DeliveryInv' /\ Captured' = Captured + 1
    BY <1>1, <1>2, <1>3 DEF AppendEvent, DeliveryInv, Captured, IInv, CaptureInv
  <2> QED
    BY <1>2, <2>1 DEF Delivery!Capture
<1>4. CASE Publish
  <2>1. DeliveryInv' /\ (Captured' = Captured + 1 \/ Captured' = Captured)
    BY <1>1, <1>2, <1>4 DEF Publish, DeliveryInv, Captured, IInv, CaptureInv
  <2> QED
    BY <1>2, <2>1 DEF Delivery!Capture, Delivery!vars
<1>5. CASE Login
  <2>1. DeliveryInv' /\ Captured' = Captured
    BY <1>1, <1>2, <1>5 DEF Login, DeliveryInv, Captured, IInv, CaptureInv
  <2> QED
    BY <1>2, <2>1 DEF Delivery!vars
<1>6. CASE Degrade
  <2>1. DeliveryInv' /\ Captured' = Captured
    BY <1>1, <1>2, <1>6 DEF Degrade, DeliveryInv, Captured, IInv, CaptureInv
  <2> QED
    BY <1>2, <2>1 DEF Delivery!vars
<1>7. CASE CountOn
  <2>1. DeliveryInv' /\ Captured' = Captured
    BY <1>1, <1>2, <1>7 DEF CountOn, DeliveryInv, Captured, IInv, CaptureInv
  <2> QED
    BY <1>2, <2>1 DEF Delivery!vars
<1>8. CASE PublishInitial \/ Refuse \/ MarkInvalid \/ StoreNotReady \/ Logout \/ Exit
  <2>1. UNCHANGED <<jlen, latest, ahead, degraded, wid>>
    BY <1>8 DEF PublishInitial, Refuse, MarkInvalid, TellInvalid, StoreNotReady, Logout, Exit
  <2>2. DeliveryInv' /\ Captured' = Captured
    BY <1>1, <1>2, <1>8, <2>1 DEF PublishInitial, Refuse, MarkInvalid, TellInvalid,
       StoreNotReady, Logout, Exit, DeliveryInv, Captured
  <2> QED
    BY <1>2, <2>2 DEF Delivery!vars
<1> QED
  BY <1>3, <1>4, <1>5, <1>6, <1>7, <1>8 DEF CaptureStep, Worker

(* The consumer's steps leave the day alone.  What they do inside next()   *)
(* is not seen, except that next() may end the consumer.                   *)
LEMMA ConsumerRefines ==
  ASSUME IInv, DeliveryInv, Poll \/ Open \/ JournalFails \/ HandleUndecodable \/ Stop
  PROVE  DeliveryInv' /\ (Delivery!Next \/ UNCHANGED Delivery!vars)
<1> USE DEF capture, journal, ring, process, NextUnchanged
<1>1. /\ jlen \in Nat /\ latest \in Nat /\ next \in Nat /\ rnext \in Nat /\ ev \in Nat
      /\ ahead \in {0, 1} /\ live \in BOOLEAN /\ taken \in Seq(Ids)
  BY BoundAssumption DEF IInv, TypeOK, Ids
<1>2. /\ Captured' = Captured /\ Captured \in Int
      /\ UNCHANGED <<jlen, latest, ahead, degraded, wid, wpc>>
  BY <1>1 DEF Poll, Open, JournalFails, HandleUndecodable, Stop, Taken, LoadContinuity,
     StoreReadiness, CallWhenInvalid, CallWhenBroken, Call, ReadJournal, JournalDrained,
     Handoff, NotYet, RingBroken, RingNotReady, RingTake, RingOverrun, RingLost,
     HandleEvent, HandleNothing, HandleInvalid, Captured
<1>3. CASE \/ LoadContinuity \/ StoreReadiness \/ CallWhenInvalid \/ Call \/ JournalDrained
           \/ Handoff \/ NotYet \/ RingNotReady \/ RingOverrun
  <2> USE <1>3 DEF LoadContinuity, StoreReadiness, CallWhenInvalid, Call, JournalDrained,
      Handoff, NotYet, RingNotReady, RingOverrun, Answer, SetReadiness, IInv, ConsumerInv
  <2>1. DeliveryInv'
    BY <1>2 DEF DeliveryInv
  <2>2. Phase' = Phase /\ taken' = taken /\ live' = live
    BY DEF Phase
  <2> QED
    BY <1>2, <2>1, <2>2 DEF Delivery!vars
(* The event that is returned was captured.                                *)
<1>4. CASE ReadJournal \/ RingTake
  <2> USE <1>4 DEF ReadJournal, RingTake, Answer, SetReadiness, IInv, ConsumerInv
  <2>1. ev' <= Captured
    BY <1>1 DEF Captured, Held
  <2>2. mode' \in {"Journal", "Live"} /\ status' = "Event"
    OBVIOUS
  <2>3. DeliveryInv'
    BY <1>2, <2>1, <2>2 DEF DeliveryInv
  <2>4. Phase' = Phase /\ taken' = taken /\ live' = live
    BY DEF Phase
  <2> QED
    BY <1>2, <2>3, <2>4 DEF Delivery!vars
<1>5. CASE CallWhenBroken \/ JournalFails \/ RingBroken \/ RingLost
  <2> USE <1>5 DEF CallWhenBroken, JournalFails, RingBroken, RingLost, Invalidate,
      SetReadiness, IInv, ConsumerInv
  <2>1. DeliveryInv'
    BY <1>2 DEF DeliveryInv
  <2>2. Phase = "open" /\ Phase' = "ended" /\ taken' = taken /\ live' = live
    BY DEF Phase
  <2> QED
    BY <1>2, <2>1, <2>2 DEF Delivery!Next, Delivery!End
<1>6. CASE HandleEvent
  <2> USE <1>6 DEF HandleEvent, Taken, Resume
  <2>1. (mode = "Live" => live') /\ live' \in BOOLEAN
    BY Zenon
  <2>2. DeliveryInv'
    BY <1>2, <2>1 DEF DeliveryInv
  <2>3. Phase = "open" /\ Phase' = "open"
    BY DEF Phase, DeliveryInv, IInv, ConsumerInv
  <2>4. ev = Len(taken) + 1 /\ ev <= Captured
    BY DEF IInv, ConsumerInv, DeliveryInv
  <2>5. Len(taken) < Captured /\ taken' = Append(taken, Len(taken) + 1)
    BY <1>1, <1>2, <2>4
  <2> QED
    BY <1>2, <2>1, <2>2, <2>3, <2>5 DEF Delivery!Next, Delivery!Take
(* A call that found nothing does not begin the trading: in mode Live the  *)
(* flags were stored with an earlier event.                                *)
<1>7. CASE HandleNothing
  <2> USE <1>7 DEF HandleNothing, Taken, Resume
  <2>1. live' = live
    BY <1>1 DEF DeliveryInv
  <2>2. DeliveryInv'
    BY <1>2, <2>1 DEF DeliveryInv
  <2>3. Phase' = Phase /\ taken' = taken
    BY DEF Phase, IInv, ConsumerInv
  <2> QED
    BY <1>2, <2>1, <2>2, <2>3 DEF Delivery!vars
<1>8. CASE HandleInvalid
  <2> USE <1>8 DEF HandleInvalid, Taken, Resume
  <2>1. DeliveryInv'
    BY <1>2 DEF DeliveryInv
  <2>2. Phase = "ended" /\ Phase' = "ended" /\ taken' = taken /\ live' = FALSE
    BY DEF Phase, DeliveryInv, IInv, ConsumerInv
  <2> QED
    BY <1>2, <2>1, <2>2 DEF Delivery!Next, Delivery!StopTrading
<1>9. CASE Open
  <2> USE <1>9 DEF Open, SetReadiness
  <2>1. DeliveryInv'
    BY <1>2 DEF DeliveryInv, IInv, ConsumerInv
  <2>2. Phase = "closed" /\ Phase' \in {"open", "ended"} /\ taken' = taken /\ live' = live
    BY DEF Phase
  <2> QED
    BY <1>2, <2>1, <2>2 DEF Delivery!Next, Delivery!Open
<1>10. CASE HandleUndecodable \/ Stop
  <2> USE <1>10 DEF HandleUndecodable, Stop, Taken, Close, SetReadiness
  <2>1. DeliveryInv'
    BY <1>2 DEF DeliveryInv, IInv, ConsumerInv
  <2>2. Phase # "closed" /\ Phase' = "closed" /\ taken' = <<>> /\ live' = FALSE
    BY DEF Phase, IInv, ConsumerInv
  <2> QED
    BY <1>2, <2>1, <2>2 DEF Delivery!Next, Delivery!Close
<1> QED
  BY <1>3, <1>4, <1>5, <1>6, <1>7, <1>8, <1>9, <1>10 DEF Poll

LEMMA StutterRefines ==
  ASSUME DeliveryInv, UNCHANGED vars
  PROVE  DeliveryInv' /\ UNCHANGED Delivery!vars
BY DEF vars, consumer, journal, ring, process, DeliveryInv, Captured, Phase, Delivery!vars

LEMMA RefinesNext ==
  IInv /\ DeliveryInv /\ [Next]_vars => DeliveryInv' /\ [Delivery!Next]_(Delivery!vars)
<1> SUFFICES ASSUME IInv, DeliveryInv, [Next]_vars
             PROVE  DeliveryInv' /\ (Delivery!Next \/ UNCHANGED Delivery!vars)
  OBVIOUS
<1>1. CASE CaptureStep
  BY <1>1, CaptureRefines DEF Delivery!Next
<1>2. CASE Poll \/ Open \/ JournalFails \/ HandleUndecodable \/ Stop
  BY <1>2, ConsumerRefines
<1>3. CASE UNCHANGED vars
  BY <1>3, StutterRefines
<1> QED
  BY <1>1, <1>2, <1>3 DEF Next

(* For any ring capacity and any number of events, restarts and            *)
(* reopenings: the strategy is handed captured events only, each once and  *)
(* in order; a consumer that ended hands out nothing more; trading begins  *)
(* only with an event (ReplayHandoffConsumer::next, StrategyBase.cpp:1471).*)
THEOREM RefinesDayDelivery == Spec => ImplementsDelivery
<1>1. Init => DeliveryInv /\ Delivery!Init
  BY RefinesInit
<1>2. IInv /\ DeliveryInv /\ [Next]_vars => DeliveryInv' /\ [Delivery!Next]_(Delivery!vars)
  BY RefinesNext
<1> QED
  BY <1>1, <1>2, Invariance, PTL DEF Spec, Delivery!Spec, ImplementsDelivery
=============================================================================
