---------------------------- MODULE JournalProofs ----------------------------
(***************************************************************************)
(* Proofs about Journal, for any size of the segments, any readers and any *)
(* bounds: its type invariant, that the segments chain, that a loss is     *)
(* declared, that Invalid stays and that no reader leaves its place.       *)
(***************************************************************************)
EXTENDS Journal, SequenceTheorems, TLAPS

InUse == wpc \in {"idle", "degraded"}

(* What reached the disk is part of what was published and of what         *)
(* validates.                                                              *)
FileInv ==
  \A i \in 1 .. End : /\ files[i].first - 1 <= files[i].durable
                      /\ files[i].durable <= files[i].last
                      /\ files[i].durable <= files[i].valid

(* A journal that is open is not marked clean and has no damaged record;   *)
(* in creation its last segment is empty and the one before is still       *)
(* marked in use.                                                          *)
WriterInv ==
  /\ wpc # "closed" => files # <<>> /\ ~Tail_.clean
  /\ InUse => Tail_.ready /\ Tail_.valid = Tail_.last
  /\ wpc = "creating" => /\ Tail_.last = Tail_.first - 1 /\ Tail_.valid = Tail_.last
                         /\ Tail_.state = "Initializing"
                         /\ End > 1 => /\ ~files[End - 1].clean
                                        /\ files[End - 1].valid = files[End - 1].last

(* Segment i tells the truth about the day: it has every event ever        *)
(* appended, or says Invalid; and it says Invalid if it was told.          *)
Truthful(i) == /\ files[i].state # "Invalid" => files[i].last = newest
               /\ doomed => files[i].state = "Invalid"

(* What the next open() will believe is true.                              *)
VerdictInv ==
  /\ files = <<>> => newest = 0 /\ ~doomed
  /\ InUse => Truthful(End)
  /\ wpc = "creating" => IF End = 1 THEN Tail_.first = 1 /\ newest = 0 /\ ~doomed
                                    ELSE Truthful(End - 1)
  /\ wpc = "closed" /\ files # <<>> /\ Tail_.clean =>
       /\ Tail_.durable = Tail_.last /\ Tail_.valid >= Tail_.last
       /\ Truthful(End)

(* A reader on its way has read nothing that does not validate, so what    *)
(* recovery cuts off is before it.                                         *)
Active(r) == pc[r] \in {"idle", "drained", "map"}
ReaderInv ==
  \A r \in Readers : Active(r) =>
    /\ seg[r] \in 1 .. End
    /\ files[seg[r]].first <= next[r]
    /\ next[r] <= files[seg[r]].last + 1 /\ next[r] <= files[seg[r]].valid + 1

IInv == TypeOK /\ FileInv /\ WriterInv /\ SegmentsChain /\ VerdictInv /\ ReaderInv

-----------------------------------------------------------------------------
LEMMA InitInv == Init => IInv
<1> SUFFICES ASSUME Init PROVE IInv
  OBVIOUS
<1> USE DEF Init
<1>1. TypeOK
  <2>1. files \in Seq(Segment)
    OBVIOUS
  <2>2. opens \in 0 .. MaxOpens /\ newest \in Ids
    BY BoundAssumption DEF Ids
  <2>3. next \in [Readers -> 0 .. LastId + 1]
    BY BoundAssumption
  <2> QED
    BY <2>1, <2>2, <2>3 DEF TypeOK
<1>2. FileInv /\ SegmentsChain
  BY DEF FileInv, SegmentsChain, End
<1>3. WriterInv /\ VerdictInv
  BY DEF WriterInv, VerdictInv, InUse
<1>4. ReaderInv
  BY DEF ReaderInv, Active
<1> QED
  BY <1>1, <1>2, <1>3, <1>4 DEF IInv

(* What the type invariant says of the last segment.                       *)
LEMMA TailFacts ==
  ASSUME TypeOK, files # <<>>
  PROVE  /\ End \in Nat /\ End >= 1 /\ Tail_ \in Segment
         /\ Tail_.first \in Int /\ Tail_.last \in Int /\ Tail_.valid \in Int
         /\ Tail_.durable \in Int
<1>1. End \in Nat /\ End >= 1 /\ Tail_ \in Segment
  BY DEF TypeOK, End, Tail_
<1> QED
  BY <1>1, BoundAssumption DEF Segment, Ids

(* A step that replaces the last segment by one that begins with the same  *)
(* event leaves the chain as it is.                                        *)
LEMMA LastChanged ==
  ASSUME TypeOK, FileInv, SegmentsChain, files # <<>>, NEW g \in Segment,
         files' = [files EXCEPT ![End] = g], g.first = Tail_.first,
         g.first - 1 <= g.durable, g.durable <= g.last, g.durable <= g.valid
  PROVE  /\ files' \in Seq(Segment) /\ files' # <<>> /\ End' = End /\ Tail_' = g
         /\ \A i \in 1 .. End - 1 : files'[i] = files[i]
         /\ FileInv' /\ SegmentsChain'
<1>1. End \in Nat /\ End >= 1 /\ files \in Seq(Segment)
  BY TailFacts DEF TypeOK
<1>2. files' \in Seq(Segment) /\ End' = End /\ files'[End] = g
  BY <1>1 DEF End
<1>3. files' # <<>>
  BY <1>1, <1>2 DEF End
<1>4. Tail_' = g
  BY <1>2 DEF Tail_
<1>5. \A i \in 1 .. End : i # End => files'[i] = files[i]
  BY <1>1 DEF End
<1>6. FileInv'
  BY <1>1, <1>2, <1>5 DEF FileInv
<1>7. SegmentsChain'
  <2> SUFFICES ASSUME NEW i \in 1 .. End - 1
               PROVE  /\ files'[i].ready
                      /\ files'[i + 1].first = files'[i].last + 1
                      /\ files'[i].durable = files'[i].last
    BY <1>2 DEF SegmentsChain
  <2>1. files'[i] = files[i] /\ files'[i + 1].first = files[i + 1].first
    BY <1>1, <1>2, <1>5 DEF Tail_
  <2> QED
    BY <1>1, <2>1 DEF SegmentsChain
<1> QED
  BY <1>1, <1>2, <1>3, <1>4, <1>5, <1>6, <1>7

(* Such a step does not move a reader out of its place if the new segment  *)
(* still holds every place in the old one.                                 *)
LEMMA ReadersKept ==
  ASSUME TypeOK, ReaderInv, UNCHANGED readerVars, files # <<>>, End' = End,
         \A i \in 1 .. End - 1 : files'[i] = files[i], Tail_'.first = Tail_.first,
         \A n \in Int : n <= Tail_.last + 1 /\ n <= Tail_.valid + 1
                          => n <= Tail_'.last + 1 /\ n <= Tail_'.valid + 1
  PROVE  ReaderInv'
<1> SUFFICES ASSUME NEW r \in Readers, Active(r)
             PROVE  /\ seg[r] \in 1 .. End
                    /\ files'[seg[r]].first <= next[r]
                    /\ next[r] <= files'[seg[r]].last + 1
                    /\ next[r] <= files'[seg[r]].valid + 1
  BY DEF ReaderInv, Active, readerVars
<1>1. /\ seg[r] \in 1 .. End /\ files[seg[r]].first <= next[r]
      /\ next[r] <= files[seg[r]].last + 1 /\ next[r] <= files[seg[r]].valid + 1
  BY DEF ReaderInv
<1>2. End \in Nat /\ next[r] \in Int
  BY BoundAssumption, TailFacts DEF TypeOK
<1>3. CASE seg[r] = End
  BY <1>1, <1>2, <1>3 DEF Tail_
<1>4. CASE seg[r] \in 1 .. End - 1
  BY <1>1, <1>4
<1> QED
  BY <1>1, <1>2, <1>3, <1>4

LEMMA OpenExistingInv == ASSUME IInv, OpenExisting PROVE IInv'
<1> DEFINE g == Recovered(Tail_)
<1>1. /\ TypeOK /\ FileInv /\ SegmentsChain /\ ReaderInv /\ files # <<>>
      /\ Tail_.ready /\ wpc = "closed" /\ wpc' = "idle" /\ newest' = newest
      /\ doomed' = (doomed \/ g.state = "Invalid") /\ opens' \in 0 .. MaxOpens
      /\ UNCHANGED readerVars
  BY BoundAssumption DEF IInv, OpenExisting, Opening, TypeOK
<1>2. /\ End \in Nat /\ End >= 1 /\ Tail_ \in Segment
      /\ Tail_.first \in Int /\ Tail_.last \in Int /\ Tail_.valid \in Int
      /\ Tail_.durable \in Int
  BY <1>1, TailFacts
<1>3. files' = [files EXCEPT ![End] = g]
  BY DEF OpenExisting, Tail_
<1>4. /\ Tail_.first - 1 <= Tail_.durable /\ Tail_.durable <= Tail_.last
      /\ Tail_.durable <= Tail_.valid
  BY <1>1, <1>2 DEF FileInv, Tail_
<1>5. /\ g \in Segment /\ g.first = Tail_.first /\ g.ready /\ ~g.clean
      /\ g.last = IF Tail_.valid < Tail_.last THEN Tail_.valid ELSE Tail_.last
      /\ g.valid = g.last /\ g.durable = g.last
      /\ g.state = IF Tail_.clean /\ Tail_.valid >= Tail_.last THEN Tail_.state
                                                               ELSE "Invalid"
  BY <1>1, <1>2 DEF Recovered, Segment, States
<1> HIDE DEF g
<1>6. /\ files' \in Seq(Segment) /\ files' # <<>> /\ End' = End /\ Tail_' = g
      /\ \A i \in 1 .. End - 1 : files'[i] = files[i]
      /\ FileInv' /\ SegmentsChain'
  <2>1. g.first - 1 <= g.durable /\ g.durable <= g.last /\ g.durable <= g.valid
    BY <1>2, <1>4, <1>5
  <2> QED
    BY <1>1, <1>3, <1>5, <2>1, LastChanged
<1>7. TypeOK'
  <2>1. doomed' \in BOOLEAN
    BY <1>1
  <2> QED
    BY <1>1, <1>6, <2>1 DEF TypeOK, readerVars
<1>8. WriterInv'
  BY <1>1, <1>2, <1>5, <1>6 DEF WriterInv, InUse
<1>9. VerdictInv'
  <2>1. g.state # "Invalid" => Tail_.clean /\ Tail_.valid >= Tail_.last /\ g.last = Tail_.last
                              /\ g.state = Tail_.state
    BY <1>2, <1>5
  <2>2. g.state # "Invalid" => g.last = newest /\ ~doomed
    BY <1>1, <2>1 DEF IInv, VerdictInv, Truthful, Tail_
  <2> QED
    BY <1>1, <1>6, <2>2 DEF VerdictInv, Truthful, InUse, Tail_
<1>10. ReaderInv'
  BY <1>1, <1>2, <1>5, <1>6, ReadersKept
<1> QED
  BY <1>6, <1>7, <1>8, <1>9, <1>10 DEF IInv

LEMMA InitSegmentInv == ASSUME IInv, InitSegment PROVE IInv'
<1> DEFINE g == [Tail_ EXCEPT !.ready = TRUE]
<1>1. /\ TypeOK /\ FileInv /\ SegmentsChain /\ ReaderInv /\ WriterInv /\ VerdictInv
      /\ files # <<>> /\ opens' = opens
      /\ wpc = "creating" /\ wpc' = wpc /\ UNCHANGED history /\ UNCHANGED readerVars
  BY DEF IInv, InitSegment, WriterInv
<1>2. /\ End \in Nat /\ End >= 1 /\ Tail_ \in Segment
      /\ Tail_.first \in Int /\ Tail_.last \in Int /\ Tail_.valid \in Int
      /\ Tail_.durable \in Int
  BY <1>1, TailFacts
<1>3. files' = [files EXCEPT ![End] = g]
  BY DEF InitSegment, Tail_
<1>4. /\ Tail_.first - 1 <= Tail_.durable /\ Tail_.durable <= Tail_.last
      /\ Tail_.durable <= Tail_.valid
  BY <1>1, <1>2 DEF FileInv, Tail_
<1>5. /\ g \in Segment /\ g.first = Tail_.first
      /\ ~g.clean /\ g.state = Tail_.state /\ g.last = Tail_.last
      /\ g.valid = Tail_.valid /\ g.durable = Tail_.durable
  BY <1>1, <1>2 DEF Segment, WriterInv
<1> HIDE DEF g
<1>6. /\ files' \in Seq(Segment) /\ files' # <<>> /\ End' = End /\ Tail_' = g
      /\ \A i \in 1 .. End - 1 : files'[i] = files[i]
      /\ FileInv' /\ SegmentsChain'
  <2>1. g.first - 1 <= g.durable /\ g.durable <= g.last /\ g.durable <= g.valid
    BY <1>2, <1>4, <1>5
  <2> QED
    BY <1>1, <1>3, <1>5, <2>1, LastChanged
<1>7. TypeOK'
  BY <1>1, <1>6 DEF TypeOK, readerVars, history
<1>8. WriterInv'
  BY <1>1, <1>2, <1>5, <1>6 DEF WriterInv, InUse
<1>9. VerdictInv'
  BY <1>1, <1>2, <1>5, <1>6 DEF VerdictInv, Truthful, InUse, history
<1>10. ReaderInv'
  BY <1>1, <1>2, <1>5, <1>6, ReadersKept
<1> QED
  BY <1>6, <1>7, <1>8, <1>9, <1>10 DEF IInv

LEMMA WriteRecordInv == ASSUME IInv, WriteRecord PROVE IInv'
<1> DEFINE g == [Tail_ EXCEPT !.last = @ + 1, !.valid = @ + 1]
<1>1. /\ TypeOK /\ FileInv /\ SegmentsChain /\ ReaderInv /\ WriterInv /\ VerdictInv
      /\ files # <<>> /\ opens' = opens
      /\ wpc = "idle" /\ wpc' = wpc /\ newest' = Tail_.last + 1 /\ Tail_.last < LastId
      /\ doomed' = doomed /\ UNCHANGED readerVars
  BY DEF IInv, WriteRecord, WriterInv
<1>2. /\ End \in Nat /\ End >= 1 /\ Tail_ \in Segment
      /\ Tail_.first \in Int /\ Tail_.last \in Int /\ Tail_.valid \in Int
      /\ Tail_.durable \in Int
  BY <1>1, TailFacts
<1>3. files' = [files EXCEPT ![End] = g]
  BY DEF WriteRecord, Tail_
<1>4. /\ Tail_.first - 1 <= Tail_.durable /\ Tail_.durable <= Tail_.last
      /\ Tail_.durable <= Tail_.valid
  BY <1>1, <1>2 DEF FileInv, Tail_
<1>5. /\ g \in Segment /\ g.first = Tail_.first
      /\ ~g.clean /\ g.ready /\ g.state = Tail_.state
      /\ g.last = Tail_.last + 1 /\ g.valid = Tail_.valid + 1 /\ g.durable = Tail_.durable
  <2>1. Tail_.valid = Tail_.last /\ ~Tail_.clean /\ Tail_.ready
    BY <1>1 DEF WriterInv, InUse
  <2>2. Tail_.last + 1 \in Ids
    BY <1>1, <1>2, BoundAssumption DEF Segment, Ids
  <2> QED
    BY <1>2, <2>1, <2>2 DEF Segment
<1> HIDE DEF g
<1>6. /\ files' \in Seq(Segment) /\ files' # <<>> /\ End' = End /\ Tail_' = g
      /\ \A i \in 1 .. End - 1 : files'[i] = files[i]
      /\ FileInv' /\ SegmentsChain'
  <2>1. g.first - 1 <= g.durable /\ g.durable <= g.last /\ g.durable <= g.valid
    BY <1>2, <1>4, <1>5
  <2> QED
    BY <1>1, <1>3, <1>5, <2>1, LastChanged
<1>7. TypeOK'
  <2>1. newest' \in Ids
    BY <1>1, <1>2, <1>5 DEF Segment
  <2> QED
    BY <1>1, <1>6, <2>1 DEF TypeOK, readerVars
<1>8. WriterInv'
  BY <1>1, <1>2, <1>5, <1>6 DEF WriterInv, InUse
<1>9. VerdictInv'
  BY <1>1, <1>2, <1>5, <1>6 DEF VerdictInv, Truthful, InUse, Tail_
<1>10. ReaderInv'
  BY <1>1, <1>2, <1>5, <1>6, ReadersKept
<1> QED
  BY <1>6, <1>7, <1>8, <1>9, <1>10 DEF IInv

LEMMA PublishContinuityInv == ASSUME IInv, NEW s \in {"Valid", "Invalid"}, PublishContinuity(s) PROVE IInv'
<1> DEFINE g == [Tail_ EXCEPT !.state = s]
<1>1. /\ TypeOK /\ FileInv /\ SegmentsChain /\ ReaderInv /\ WriterInv /\ VerdictInv
      /\ files # <<>> /\ opens' = opens
      /\ InUse /\ wpc' = wpc /\ Tail_.state # "Invalid" /\ newest' = newest
      /\ doomed' = (doomed \/ s = "Invalid") /\ UNCHANGED readerVars
  BY DEF IInv, PublishContinuity, WriterInv, InUse
<1>2. /\ End \in Nat /\ End >= 1 /\ Tail_ \in Segment
      /\ Tail_.first \in Int /\ Tail_.last \in Int /\ Tail_.valid \in Int
      /\ Tail_.durable \in Int
  BY <1>1, TailFacts
<1>3. files' = [files EXCEPT ![End] = g]
  BY DEF PublishContinuity, Tail_
<1>4. /\ Tail_.first - 1 <= Tail_.durable /\ Tail_.durable <= Tail_.last
      /\ Tail_.durable <= Tail_.valid
  BY <1>1, <1>2 DEF FileInv, Tail_
<1>5. /\ g \in Segment /\ g.first = Tail_.first
      /\ ~g.clean /\ g.ready /\ g.state = s /\ g.last = Tail_.last
      /\ g.valid = Tail_.valid /\ g.durable = Tail_.durable
  BY <1>1, <1>2 DEF Segment, States, WriterInv, InUse
<1> HIDE DEF g
<1>6. /\ files' \in Seq(Segment) /\ files' # <<>> /\ End' = End /\ Tail_' = g
      /\ \A i \in 1 .. End - 1 : files'[i] = files[i]
      /\ FileInv' /\ SegmentsChain'
  <2>1. g.first - 1 <= g.durable /\ g.durable <= g.last /\ g.durable <= g.valid
    BY <1>2, <1>4, <1>5
  <2> QED
    BY <1>1, <1>3, <1>5, <2>1, LastChanged
<1>7. TypeOK'
  BY <1>1, <1>6 DEF TypeOK, readerVars, history
<1>8. WriterInv'
  BY <1>1, <1>5, <1>6 DEF WriterInv, InUse
<1>9. VerdictInv'
  BY <1>1, <1>2, <1>5, <1>6 DEF VerdictInv, Truthful, InUse, Tail_
<1>10. ReaderInv'
  BY <1>1, <1>2, <1>5, <1>6, ReadersKept
<1> QED
  BY <1>6, <1>7, <1>8, <1>9, <1>10 DEF IInv

LEMMA CloseCleanInv == ASSUME IInv, CloseClean PROVE IInv'
<1> DEFINE g == [Tail_ EXCEPT !.durable = Tail_.last, !.clean = TRUE]
<1>1. /\ TypeOK /\ FileInv /\ SegmentsChain /\ ReaderInv /\ WriterInv /\ VerdictInv
      /\ files # <<>> /\ opens' = opens
      /\ InUse /\ wpc' = "closed" /\ UNCHANGED history /\ UNCHANGED readerVars
  BY DEF IInv, CloseClean, WriterInv, InUse
<1>2. /\ End \in Nat /\ End >= 1 /\ Tail_ \in Segment
      /\ Tail_.first \in Int /\ Tail_.last \in Int /\ Tail_.valid \in Int
      /\ Tail_.durable \in Int
  BY <1>1, TailFacts
<1>3. files' = [files EXCEPT ![End] = g]
  BY DEF CloseClean, Tail_
<1>4. /\ Tail_.first - 1 <= Tail_.durable /\ Tail_.durable <= Tail_.last
      /\ Tail_.durable <= Tail_.valid
  BY <1>1, <1>2 DEF FileInv, Tail_
<1>5. /\ g \in Segment /\ g.first = Tail_.first
      /\ g.clean /\ g.state = Tail_.state /\ g.last = Tail_.last
      /\ g.valid = Tail_.valid /\ g.durable = Tail_.last
  BY <1>1, <1>2 DEF Segment
<1> HIDE DEF g
<1>6. /\ files' \in Seq(Segment) /\ files' # <<>> /\ End' = End /\ Tail_' = g
      /\ \A i \in 1 .. End - 1 : files'[i] = files[i]
      /\ FileInv' /\ SegmentsChain'
  <2>1. g.first - 1 <= g.durable /\ g.durable <= g.last /\ g.durable <= g.valid
    BY <1>1, <1>2, <1>4, <1>5 DEF WriterInv
  <2> QED
    BY <1>1, <1>3, <1>5, <2>1, LastChanged
<1>7. TypeOK'
  BY <1>1, <1>6 DEF TypeOK, readerVars, history
<1>8. WriterInv'
  <2>1. wpc' = "closed" /\ ~InUse'
    BY <1>1 DEF InUse
  <2> QED
    BY <2>1 DEF WriterInv
<1>9. VerdictInv'
  <2>1. Truthful(End)'
    <3>1. Truthful(End) /\ newest' = newest /\ doomed' = doomed
      BY <1>1 DEF VerdictInv, history
    <3>2. files'[End] = g /\ End' = End /\ g.state = files[End].state /\ g.last = files[End].last
      BY <1>5, <1>6 DEF Tail_
    <3> QED
      BY <3>1, <3>2 DEF Truthful
  <2>2. wpc' = "closed" /\ ~InUse' /\ files' # <<>>
    BY <1>1, <1>6 DEF InUse
  <2>3. Tail_'.durable = Tail_'.last /\ Tail_'.valid >= Tail_'.last
    BY <1>1, <1>2, <1>5, <1>6 DEF WriterInv, InUse
  <2> QED
    BY <2>1, <2>2, <2>3 DEF VerdictInv
<1>10. ReaderInv'
  BY <1>1, <1>2, <1>5, <1>6, ReadersKept
<1> QED
  BY <1>6, <1>7, <1>8, <1>9, <1>10 DEF IInv

(* The steps that leave the files alone.                                   *)
LEMMA FilesKept ==
  ASSUME IInv, files' = files
  PROVE  FileInv' /\ SegmentsChain' /\ End' = End /\ Tail_' = Tail_
BY DEF IInv, FileInv, SegmentsChain, End, Tail_

LEMMA WriterStopsInv == ASSUME IInv, OpenFails \/ RotateFails \/ Crash PROVE IInv'
<1>1. /\ files' = files /\ UNCHANGED history /\ UNCHANGED readerVars
      /\ opens' \in 0 .. MaxOpens
      /\ \/ wpc' = wpc
         \/ wpc = "idle" /\ wpc' = "degraded"
         \/ wpc # "closed" /\ wpc' = "closed"
  <2>1. CASE OpenFails
    <3>1. files' = files /\ UNCHANGED history /\ UNCHANGED readerVars /\ wpc' = wpc
      BY <2>1 DEF OpenFails
    <3>2. opens' \in 0 .. MaxOpens
      BY <2>1, BoundAssumption DEF IInv, TypeOK, OpenFails, Opening
    <3> QED
      BY <3>1, <3>2
  <2>2. CASE RotateFails
    <3>1. /\ files' = files /\ UNCHANGED history /\ UNCHANGED readerVars
          /\ opens' = opens /\ wpc = "idle" /\ wpc' = "degraded"
      BY <2>2 DEF RotateFails
    <3> QED
      BY <3>1 DEF IInv, TypeOK
  <2>3. CASE Crash
    BY <2>3 DEF IInv, Crash, TypeOK
  <2> QED
    BY <2>1, <2>2, <2>3
<1>2. FileInv' /\ SegmentsChain' /\ End' = End /\ Tail_' = Tail_
  BY <1>1, FilesKept
<1>3. TypeOK'
  BY <1>1 DEF IInv, TypeOK, history, readerVars
<1>4. WriterInv'
  BY <1>1, <1>2 DEF IInv, WriterInv, InUse
<1>5. VerdictInv'
  BY <1>1, <1>2 DEF IInv, VerdictInv, WriterInv, Truthful, InUse, history
<1>6. ReaderInv'
  BY <1>1, <1>2 DEF IInv, ReaderInv, Active, readerVars
<1> QED
  BY <1>2, <1>3, <1>4, <1>5, <1>6 DEF IInv

LEMMA OpenNewInv == ASSUME IInv, OpenNew PROVE IInv'
<1> DEFINE g == NewFile(1)
<1>1. /\ TypeOK /\ files = <<>> /\ files' = <<g>> /\ wpc' = "creating"
      /\ UNCHANGED <<history, readerVars>> /\ opens' \in 0 .. MaxOpens
      /\ newest = 0 /\ ~doomed
  BY BoundAssumption DEF IInv, OpenNew, Opening, TypeOK, VerdictInv
<1>2. /\ g \in Segment /\ g.first = 1 /\ g.last = 0 /\ g.valid = 0 /\ g.durable = 0
      /\ ~g.clean /\ g.state = "Initializing"
  BY BoundAssumption DEF NewFile, Segment, Ids, States
<1> HIDE DEF g
<1>3. /\ files' \in Seq(Segment) /\ files' # <<>> /\ End' = 1 /\ files'[1] = g
  BY <1>1, <1>2 DEF End
<1>4. Tail_' = g
  BY <1>3 DEF Tail_
<1>5. TypeOK'
  BY <1>1, <1>3 DEF TypeOK, history, readerVars
<1>6. FileInv' /\ SegmentsChain'
  BY <1>2, <1>3 DEF FileInv, SegmentsChain
<1>7. WriterInv'
  BY <1>1, <1>2, <1>3, <1>4 DEF WriterInv, InUse
<1>8. VerdictInv'
  BY <1>1, <1>2, <1>3, <1>4 DEF VerdictInv, InUse, history
<1>9. ReaderInv'
  <2>1. End = 0
    BY <1>1 DEF End
  <2> QED
    BY <1>1, <2>1 DEF IInv, ReaderInv, Active, readerVars
<1> QED
  BY <1>5, <1>6, <1>7, <1>8, <1>9 DEF IInv

LEMMA SwitchInv == ASSUME IInv, Switch PROVE IInv'
<1>1. /\ TypeOK /\ FileInv /\ SegmentsChain /\ ReaderInv /\ WriterInv /\ VerdictInv
      /\ files # <<>> /\ opens' = opens /\ wpc = "creating" /\ wpc' = "idle"
      /\ Tail_.ready /\ UNCHANGED history /\ UNCHANGED readerVars
      /\ ~Tail_.clean /\ Tail_.valid = Tail_.last /\ Tail_.last = Tail_.first - 1
      /\ Tail_.state = "Initializing"
  BY DEF IInv, Switch, WriterInv
<1>2. /\ End \in Nat /\ End >= 1 /\ Tail_ \in Segment
      /\ Tail_.first \in Int /\ Tail_.last \in Int /\ Tail_.valid \in Int
      /\ Tail_.durable \in Int
  BY <1>1, TailFacts
<1>3. CASE End = 1
  <2>1. files' = files
    BY <1>3 DEF Switch
  <2>2. FileInv' /\ SegmentsChain' /\ End' = End /\ Tail_' = Tail_
    BY <2>1, FilesKept
  <2>3. TypeOK' /\ ReaderInv'
    BY <1>1, <2>1, <2>2 DEF TypeOK, ReaderInv, Active, history, readerVars
  <2>4. WriterInv'
    BY <1>1, <2>1, <2>2 DEF WriterInv, InUse
  <2>5. Truthful(End)'
    BY <1>1, <1>3, <2>1, <2>2 DEF VerdictInv, Truthful, Tail_, history
  <2>6. VerdictInv'
    BY <1>1, <2>1, <2>5 DEF VerdictInv, InUse
  <2> QED
    BY <2>2, <2>3, <2>4, <2>6 DEF IInv
<1>4. CASE End > 1
  <2> DEFINE g == [Tail_ EXCEPT !.state = files[End - 1].state]
  <2>1. files' = [files EXCEPT ![End] = g]
    BY <1>2, <1>4 DEF Switch, Tail_
  <2>2. files[End - 1] \in Segment
    BY <1>1, <1>2, <1>4 DEF TypeOK, End
  <2>3. /\ g \in Segment /\ g.first = Tail_.first /\ g.state = files[End - 1].state
        /\ g.last = Tail_.last /\ g.valid = Tail_.valid /\ g.durable = Tail_.durable
        /\ g.ready /\ ~g.clean
    BY <1>1, <1>2, <2>2 DEF Segment
  <2> HIDE DEF g
  <2>4. /\ g.first - 1 <= g.durable /\ g.durable <= g.last /\ g.durable <= g.valid
    BY <1>1, <1>2, <2>3 DEF FileInv, Tail_
  <2>5. /\ files' \in Seq(Segment) /\ files' # <<>> /\ End' = End /\ Tail_' = g
        /\ \A i \in 1 .. End - 1 : files'[i] = files[i]
        /\ FileInv' /\ SegmentsChain'
    BY <1>1, <2>1, <2>3, <2>4, LastChanged
  <2>6. TypeOK'
    BY <1>1, <2>5 DEF TypeOK, history, readerVars
  <2>7. WriterInv'
    BY <1>1, <1>2, <2>3, <2>5 DEF WriterInv, InUse
  <2>8. Truthful(End)'
    <3>1. Truthful(End - 1)
      BY <1>1, <1>2, <1>4 DEF VerdictInv
    <3>2. g.last = files[End - 1].last
      BY <1>1, <1>2, <1>4, <2>2, <2>3, BoundAssumption, SMTT(30) DEF SegmentsChain, Tail_, Segment, Ids
    <3> QED
      BY <1>1, <2>3, <2>5, <3>1, <3>2 DEF Truthful, Tail_, history
  <2>9. VerdictInv'
    BY <1>1, <2>5, <2>8 DEF VerdictInv, InUse
  <2>10. ReaderInv'
    BY <1>1, <1>2, <2>3, <2>5, ReadersKept
  <2> QED
    BY <2>5, <2>6, <2>7, <2>9, <2>10 DEF IInv
<1> QED
  BY <1>2, <1>3, <1>4

LEMMA PowerLossInv == ASSUME IInv, PowerLoss PROVE IInv'
<1>1. /\ TypeOK /\ FileInv /\ SegmentsChain /\ WriterInv /\ VerdictInv
      /\ files # <<>> /\ opens' = opens /\ wpc' = "closed" /\ UNCHANGED history
      /\ pc' = [r \in Readers |-> "off"] /\ seg' = seg /\ next' = next
  BY DEF IInv, PowerLoss
<1>2. /\ End \in Nat /\ End >= 1 /\ Tail_ \in Segment
      /\ Tail_.first \in Int /\ Tail_.last \in Int /\ Tail_.valid \in Int
      /\ Tail_.durable \in Int
  BY <1>1, TailFacts
<1>3. PICK p \in Tail_.durable .. Tail_.last, v \in Tail_.durable .. Tail_.last,
           s \in IF Tail_.clean THEN {Tail_.state} ELSE States :
        files' = [files EXCEPT ![End].last = p, ![End].valid = v, ![End].state = s]
  BY DEF PowerLoss
<1> DEFINE g == [Tail_ EXCEPT !.last = p, !.valid = v, !.state = s]
<1>4. files' = [files EXCEPT ![End] = g]
  BY <1>3 DEF Tail_
<1>5. p \in Ids /\ v \in Ids /\ s \in States
  BY <1>2, BoundAssumption DEF Segment, Ids
<1>6. /\ g \in Segment /\ g.first = Tail_.first /\ g.last = p /\ g.valid = v
      /\ g.durable = Tail_.durable /\ g.state = s /\ g.clean = Tail_.clean
  BY <1>2, <1>5 DEF Segment
<1> HIDE DEF g
<1>7. /\ files' \in Seq(Segment) /\ files' # <<>> /\ End' = End /\ Tail_' = g
      /\ \A i \in 1 .. End - 1 : files'[i] = files[i]
      /\ FileInv' /\ SegmentsChain'
  <2>1. Tail_.first - 1 <= Tail_.durable
    BY <1>1, <1>2 DEF FileInv, Tail_
  <2>2. g.first - 1 <= g.durable /\ g.durable <= g.last /\ g.durable <= g.valid
    BY <1>2, <1>6, <2>1
  <2> QED
    BY <1>1, <1>4, <1>6, <2>2, LastChanged
<1>8. TypeOK'
  BY <1>1, <1>7 DEF TypeOK, history
<1>9. WriterInv'
  <2>1. wpc' = "closed" /\ ~InUse'
    BY <1>1 DEF InUse
  <2> QED
    BY <2>1 DEF WriterInv
<1>10. VerdictInv'
  <2>1. wpc' = "closed" /\ ~InUse' /\ files' # <<>>
    BY <1>1, <1>7 DEF InUse
  <2>2. ASSUME Tail_.clean
        PROVE  g.durable = g.last /\ g.valid >= g.last /\ Truthful(End)'
    <3>1. wpc = "closed" /\ Tail_.durable = Tail_.last /\ Truthful(End)
      BY <1>1, <2>2 DEF WriterInv, VerdictInv
    <3>2. p = Tail_.last /\ v = Tail_.last /\ s = Tail_.state
      BY <1>2, <2>2, <3>1
    <3>3. newest' = newest /\ doomed' = doomed
      BY <1>1 DEF history
    <3> QED
      BY <1>2, <1>6, <1>7, <3>1, <3>2, <3>3 DEF Truthful, Tail_
  <2>3. Tail_'.clean => Tail_.clean
    BY <1>6, <1>7
  <2> QED
    BY <1>7, <2>1, <2>2, <2>3 DEF VerdictInv
<1>11. ReaderInv'
  BY <1>1 DEF ReaderInv, Active
<1> QED
  BY <1>7, <1>8, <1>9, <1>10, <1>11 DEF IInv

LEMMA BeginRotateInv == ASSUME IInv, BeginRotate PROVE IInv'
<1> DEFINE g == [Tail_ EXCEPT !.durable = Tail_.last]
           h == NewFile(Tail_.last + 1)
           flushed == [files EXCEPT ![End] = g]
<1>1. /\ TypeOK /\ FileInv /\ SegmentsChain /\ ReaderInv /\ WriterInv /\ VerdictInv
      /\ files # <<>> /\ opens' = opens /\ wpc = "idle" /\ wpc' = "creating"
      /\ Tail_.last < LastId /\ UNCHANGED <<history, readerVars>>
      /\ ~Tail_.clean /\ Tail_.ready /\ Tail_.valid = Tail_.last
  BY DEF IInv, BeginRotate, WriterInv, InUse
<1>2. /\ End \in Nat /\ End >= 1 /\ Tail_ \in Segment
      /\ Tail_.first \in Int /\ Tail_.last \in Int /\ Tail_.valid \in Int
      /\ Tail_.durable \in Int
  BY <1>1, TailFacts
<1>3. files' = Append(flushed, h)
  BY DEF BeginRotate, Tail_
<1>4. /\ g \in Segment /\ g.first = Tail_.first /\ g.last = Tail_.last
      /\ g.valid = Tail_.last /\ g.durable = Tail_.last /\ g.ready /\ ~g.clean
      /\ g.state = Tail_.state
  BY <1>1, <1>2 DEF Segment
<1>5. Tail_.last \in Nat /\ Tail_.last + 1 \in 1 .. LastId + 1 /\ Tail_.last \in Ids
  BY <1>1, <1>2, BoundAssumption DEF Segment, Ids
<1>6. /\ h \in Segment /\ h.first = Tail_.last + 1 /\ h.last = Tail_.last
      /\ h.valid = Tail_.last /\ h.durable = Tail_.last /\ ~h.clean
      /\ h.state = "Initializing"
  <2>1. (Tail_.last + 1) - 1 = Tail_.last
    BY <1>5
  <2> QED
    BY <1>5, <2>1 DEF NewFile, Segment, States
<1> HIDE DEF g, h
<1>7. /\ flushed \in Seq(Segment) /\ Len(flushed) = End /\ flushed[End] = g
      /\ \A i \in 1 .. End - 1 : flushed[i] = files[i]
  BY <1>1, <1>2, <1>4 DEF TypeOK, End
<1> HIDE DEF flushed
<1>8. /\ files' \in Seq(Segment) /\ Len(files') = End + 1 /\ files'[End + 1] = h
      /\ \A i \in 1 .. End : files'[i] = flushed[i]
  BY <1>2, <1>3, <1>6, <1>7
<1>9. /\ End' = End + 1 /\ Tail_' = h /\ files' # <<>> /\ files'[End] = g
      /\ \A i \in 1 .. End - 1 : files'[i] = files[i]
  <2>1. End' = End + 1
    BY <1>8 DEF End
  <2>2. Tail_' = h
    BY <1>8, <2>1 DEF Tail_
  <2>3. files' # <<>>
    BY <1>2, <1>8
  <2> QED
    BY <1>2, <1>7, <1>8, <2>1, <2>2, <2>3
<1>10. TypeOK'
  BY <1>1, <1>8 DEF TypeOK, history, readerVars
<1>11. FileInv'
  <2> SUFFICES ASSUME NEW i \in 1 .. End + 1
               PROVE  /\ files'[i].first - 1 <= files'[i].durable
                      /\ files'[i].durable <= files'[i].last
                      /\ files'[i].durable <= files'[i].valid
    BY <1>9 DEF FileInv
  <2>1. CASE i = End + 1
    BY <1>5, <1>6, <1>8, <2>1
  <2>2. CASE i = End
    <3>1. Tail_.first - 1 <= Tail_.last
      BY <1>1, <1>2 DEF FileInv, Tail_
    <3> QED
      BY <1>4, <1>5, <1>9, <2>2, <3>1
  <2>3. CASE i \in 1 .. End - 1
    BY <1>1, <1>2, <1>9, <2>3 DEF FileInv
  <2> QED
    BY <1>2, <2>1, <2>2, <2>3
<1>12. SegmentsChain'
  <2> SUFFICES ASSUME NEW i \in 1 .. End
               PROVE  /\ files'[i].ready
                      /\ files'[i + 1].first = files'[i].last + 1
                      /\ files'[i].durable = files'[i].last
    BY <1>2, <1>9 DEF SegmentsChain
  <2>1. CASE i = End
    BY <1>4, <1>6, <1>8, <1>9, <2>1
  <2>2. CASE i \in 1 .. End - 1
    <3>1. files'[i] = files[i]
      BY <1>9, <2>2
    <3>2. files'[i + 1].first = files[i + 1].first
      <4>1. CASE i + 1 = End
        BY <1>4, <1>9, <4>1 DEF Tail_
      <4>2. CASE i + 1 \in 1 .. End - 1
        BY <1>9, <4>2
      <4> QED
        BY <1>2, <2>2, <4>1, <4>2
    <3> QED
      BY <1>1, <2>2, <3>1, <3>2 DEF SegmentsChain
  <2> QED
    BY <1>2, <2>1, <2>2
<1>13. WriterInv'
  <2>1. ~InUse' /\ wpc' = "creating" /\ End' - 1 = End
    BY <1>1, <1>2, <1>9 DEF InUse
  <2>2. Tail_'.last = Tail_'.first - 1
    BY <1>5, <1>6, <1>9
  <2> QED
    BY <1>4, <1>6, <1>9, <2>1, <2>2 DEF WriterInv
<1>14. VerdictInv'
  <2>1. ~InUse' /\ wpc' = "creating" /\ End' - 1 = End /\ End' # 1
    BY <1>1, <1>2, <1>9 DEF InUse
  <2>2. Truthful(End) /\ newest' = newest /\ doomed' = doomed
    BY <1>1 DEF VerdictInv, InUse, history
  <2>3. Truthful(End - 1)'
    BY <1>4, <1>9, <2>1, <2>2 DEF Truthful, Tail_
  <2> QED
    BY <1>9, <2>1, <2>3 DEF VerdictInv
<1>15. ReaderInv'
  <2> SUFFICES ASSUME NEW r \in Readers, Active(r)
               PROVE  /\ seg[r] \in 1 .. End + 1
                      /\ files'[seg[r]].first <= next[r]
                      /\ next[r] <= files'[seg[r]].last + 1
                      /\ next[r] <= files'[seg[r]].valid + 1
    BY <1>1, <1>9 DEF ReaderInv, Active, readerVars
  <2>1. /\ seg[r] \in 1 .. End /\ files[seg[r]].first <= next[r]
        /\ next[r] <= files[seg[r]].last + 1 /\ next[r] <= files[seg[r]].valid + 1
    BY <1>1 DEF ReaderInv
  <2>2. CASE seg[r] = End
    BY <1>1, <1>2, <1>4, <1>9, <2>1, <2>2 DEF Tail_
  <2>3. CASE seg[r] \in 1 .. End - 1
    BY <1>2, <1>9, <2>1, <2>3
  <2> QED
    BY <1>2, <2>1, <2>2, <2>3
<1> QED
  BY <1>10, <1>11, <1>12, <1>13, <1>14, <1>15 DEF IInv

LEMMA AbortCreateInv == ASSUME IInv, AbortCreate PROVE IInv'
<1>1. /\ TypeOK /\ FileInv /\ SegmentsChain /\ ReaderInv /\ WriterInv /\ VerdictInv
      /\ files # <<>> /\ opens' = opens /\ wpc = "creating" /\ UNCHANGED history
      /\ files' = SubSeq(files, 1, End - 1) /\ seg' = seg /\ next' = next
      /\ wpc' = IF End = 1 THEN "closed" ELSE "degraded"
      /\ pc' = [r \in Readers |-> IF seg[r] = End /\ pc[r] # "Dead" THEN "Lost" ELSE pc[r]]
  BY DEF IInv, AbortCreate, WriterInv
<1>2. End \in Nat /\ End >= 1 /\ files \in Seq(Segment)
  BY <1>1, TailFacts DEF TypeOK
<1>3. /\ files' \in Seq(Segment) /\ Len(files') = End - 1
      /\ \A i \in 1 .. End - 1 : files'[i] = files[i]
  <2>1. 1 \in Int /\ End - 1 \in Int /\ \A i \in 1 .. End - 1 : files[i] \in Segment
    BY <1>2 DEF End
  <2>2. /\ files' \in Seq(Segment)
        /\ Len(files') = IF 1 <= End - 1 THEN (End - 1) - 1 + 1 ELSE 0
        /\ \A i \in 1 .. (End - 1) - 1 + 1 : files'[i] = files[1 + i - 1]
    BY <1>1, <2>1, SubSeqProperties
  <2>3. (End - 1) - 1 + 1 = End - 1 /\ \A i \in 1 .. End - 1 : 1 + i - 1 = i
    BY <1>2
  <2> QED
    BY <1>2, <2>2, <2>3
<1>4. End' = End - 1
  BY <1>3 DEF End
<1>5. TypeOK'
  BY <1>1, <1>3 DEF TypeOK, history
<1>6. FileInv' /\ SegmentsChain'
  BY <1>1, <1>2, <1>3, <1>4 DEF FileInv, SegmentsChain
<1>7. ReaderInv'
  <2> SUFFICES ASSUME NEW r \in Readers, Active(r)'
               PROVE  /\ seg[r] \in 1 .. End - 1
                      /\ files'[seg[r]].first <= next[r]
                      /\ next[r] <= files'[seg[r]].last + 1
                      /\ next[r] <= files'[seg[r]].valid + 1
    BY <1>1, <1>4 DEF ReaderInv
  <2>1. Active(r) /\ seg[r] # End
    BY <1>1 DEF Active
  <2> QED
    BY <1>1, <1>2, <1>3, <2>1 DEF ReaderInv
<1>8. CASE End = 1
  <2>1. files' = <<>> /\ wpc' = "closed" /\ ~InUse' /\ newest' = 0 /\ ~doomed'
    BY <1>1, <1>3, <1>8 DEF VerdictInv, history, InUse
  <2>2. WriterInv' /\ VerdictInv'
    BY <2>1 DEF WriterInv, VerdictInv
  <2> QED
    BY <1>5, <1>6, <1>7, <2>2 DEF IInv
<1>9. CASE End > 1
  <2>1. /\ files' # <<>> /\ wpc' = "degraded" /\ InUse'
        /\ newest' = newest /\ doomed' = doomed
    BY <1>1, <1>2, <1>3, <1>9 DEF history, InUse
  <2>2. Tail_' = files[End - 1]
    BY <1>2, <1>3, <1>4, <1>9 DEF Tail_
  <2>3. /\ Tail_'.ready /\ ~Tail_'.clean /\ Tail_'.valid = Tail_'.last
    BY <1>1, <1>2, <1>9, <2>2 DEF SegmentsChain, WriterInv
  <2>4. WriterInv'
    BY <2>1, <2>3 DEF WriterInv
  <2>5. Truthful(End - 1)
    BY <1>1, <1>2, <1>9 DEF VerdictInv
  <2>6. Truthful(End)'
    BY <1>2, <1>3, <1>4, <1>9, <2>1, <2>5 DEF Truthful
  <2>7. VerdictInv'
    BY <2>1, <2>6 DEF VerdictInv
  <2> QED
    BY <1>5, <1>6, <1>7, <2>4, <2>7 DEF IInv
<1> QED
  BY <1>2, <1>8, <1>9

-----------------------------------------------------------------------------
(* A reader changes nothing of the writer's.                               *)
LEMMA WriterKept ==
  ASSUME IInv, UNCHANGED <<files, wpc, opens, history>>,
         /\ pc' \in [Readers -> {"off", "idle", "drained", "map", "Dead", "Damaged", "Lost"}]
         /\ seg' \in [Readers -> Nat] /\ next' \in [Readers -> 0 .. LastId + 1],
         ReaderInv'
  PROVE  IInv'
<1>1. /\ files' = files /\ wpc' = wpc /\ opens' = opens /\ newest' = newest
      /\ doomed' = doomed
  BY DEF history
<1>2. FileInv' /\ SegmentsChain' /\ End' = End /\ Tail_' = Tail_
  BY <1>1, FilesKept
<1>3. TypeOK'
  BY <1>1 DEF IInv, TypeOK
<1>4. WriterInv'
  BY <1>1, <1>2 DEF IInv, WriterInv, InUse
<1>5. VerdictInv'
  BY <1>1, <1>2 DEF IInv, VerdictInv, Truthful, InUse
<1> QED
  BY <1>2, <1>3, <1>4, <1>5 DEF IInv

LEMMA OpenReaderInv == ASSUME IInv, NEW r \in Readers, OpenReader(r) PROVE IInv'
<1>1. /\ TypeOK /\ FileInv /\ ReaderInv /\ files # <<>>
      /\ UNCHANGED <<files, wpc, opens, history>> /\ files' = files
      /\ pc' = [pc EXCEPT ![r] = "idle"] /\ seg' = [seg EXCEPT ![r] = 1]
      /\ next' = [next EXCEPT ![r] = files[1].first]
  BY DEF IInv, OpenReader
<1>2. End \in Nat /\ End >= 1 /\ End' = End
  BY <1>1, TailFacts DEF End
<1>3. files[1] \in Segment
  BY <1>1, <1>2 DEF TypeOK, End
<1>4. /\ files[1].first \in 0 .. LastId + 1 /\ files[1].first \in Int
      /\ files[1].last \in Int /\ files[1].valid \in Int /\ files[1].durable \in Int
  BY <1>3, BoundAssumption DEF Segment, Ids
<1>5. files[1].first <= files[1].last + 1 /\ files[1].first <= files[1].valid + 1
  BY <1>1, <1>2, <1>4, SMTT(30) DEF FileInv
<1>6. /\ pc' \in [Readers -> {"off", "idle", "drained", "map", "Dead", "Damaged", "Lost"}]
      /\ seg' \in [Readers -> Nat] /\ next' \in [Readers -> 0 .. LastId + 1]
  BY <1>1, <1>4 DEF TypeOK
<1>7. ReaderInv'
  <2> SUFFICES ASSUME NEW q \in Readers, Active(q)'
               PROVE  /\ seg'[q] \in 1 .. End
                      /\ files[seg'[q]].first <= next'[q]
                      /\ next'[q] <= files[seg'[q]].last + 1
                      /\ next'[q] <= files[seg'[q]].valid + 1
    BY <1>1, <1>2 DEF ReaderInv
  <2>1. CASE q = r
    <3>1. seg'[q] = 1 /\ next'[q] = files[1].first
      BY <1>1, <2>1 DEF TypeOK
    <3> QED
      BY <1>2, <1>4, <1>5, <3>1
  <2>2. CASE q # r
    <3>1. seg'[q] = seg[q] /\ next'[q] = next[q] /\ Active(q)
      BY <1>1, <2>2 DEF TypeOK, Active
    <3> QED
      BY <1>1, <3>1 DEF ReaderInv
  <2> QED
    BY <2>1, <2>2
<1> QED
  BY <1>1, <1>6, <1>7, WriterKept

(* The reader moves on in its segment, or to the next one.                 *)
LEMMA ReadInv == ASSUME IInv, NEW r \in Readers, Read(r) PROVE IInv'
<1>1. /\ TypeOK /\ FileInv /\ ReaderInv /\ SegmentsChain
      /\ UNCHANGED <<files, wpc, opens, history>> /\ files' = files /\ Active(r)
  BY DEF IInv, Read, ReadEvent, MeetDamage, ReachEnd, LookForNext, MapNext, Active
<1>2. End' = End
  BY <1>1 DEF End
<1>3. /\ seg[r] \in 1 .. End /\ files[seg[r]].first <= next[r]
      /\ next[r] <= files[seg[r]].last + 1 /\ next[r] <= files[seg[r]].valid + 1
  BY <1>1 DEF ReaderInv
<1>4. /\ End \in Nat /\ \A i \in 1 .. End : files[i] \in Segment
  BY <1>1 DEF TypeOK, End
<1>5. \A i \in 1 .. End : /\ files[i].first \in Int /\ files[i].last \in Int
                           /\ files[i].valid \in Int /\ files[i].durable \in Int
                           /\ files[i].last <= LastId
  BY <1>4, BoundAssumption DEF Segment, Ids
<1>6. next[r] \in Int /\ next[r] >= 0 /\ LastId \in Int
  BY <1>1, BoundAssumption DEF TypeOK
<1> DEFINE Labels == {"off", "idle", "drained", "map", "Dead", "Damaged", "Lost"}
           Placed(s, n) == /\ s \in 1 .. End /\ n \in 0 .. LastId + 1
                           /\ files[s].first <= n
                           /\ n <= files[s].last + 1 /\ n <= files[s].valid + 1
<1>7. \E l \in Labels, s \in Nat, n \in 0 .. LastId + 1 :
        /\ pc' = [pc EXCEPT ![r] = l] /\ seg' = [seg EXCEPT ![r] = s]
        /\ next' = [next EXCEPT ![r] = n]
        /\ l \in {"idle", "drained", "map"} => Placed(s, n)
  <2>0. /\ seg = [seg EXCEPT ![r] = seg[r]] /\ next = [next EXCEPT ![r] = next[r]]
        /\ seg[r] \in Nat /\ next[r] \in 0 .. LastId + 1 /\ Placed(seg[r], next[r])
    BY <1>1, <1>3 DEF TypeOK
  <2>1. CASE ReadEvent(r)
    <3>1. /\ pc = [pc EXCEPT ![r] = "idle"] /\ pc' = pc /\ seg' = seg
          /\ next' = [next EXCEPT ![r] = next[r] + 1]
          /\ next[r] <= files[seg[r]].last /\ next[r] <= files[seg[r]].valid
      BY <1>1, <2>1 DEF ReadEvent, TypeOK
    <3>2. Placed(seg[r], next[r] + 1)
      BY <1>3, <1>5, <1>6, <3>1
    <3> QED
      BY <2>0, <3>1, <3>2
  <2>2. CASE MeetDamage(r)
    BY <2>0, <2>2 DEF MeetDamage, Goto
  <2>3. CASE ReachEnd(r)
    BY <2>0, <2>3 DEF ReachEnd, Goto
  <2>4. CASE LookForNext(r)
    BY <2>0, <2>4 DEF LookForNext, Goto
  <2>5. CASE MapNext(r)
    <3>1. CASE /\ Exists(seg[r] + 1) /\ files[seg[r] + 1].ready
               /\ files[seg[r] + 1].first = next[r]
      <4>1. seg[r] + 1 \in 1 .. End /\ seg[r] + 1 \in Nat
        BY <1>3, <1>4, <3>1 DEF Exists
      <4>2. /\ files[seg[r] + 1].first - 1 <= files[seg[r] + 1].durable
            /\ files[seg[r] + 1].durable <= files[seg[r] + 1].last
            /\ files[seg[r] + 1].durable <= files[seg[r] + 1].valid
        BY <1>1, <4>1 DEF FileInv
      <4>3. Placed(seg[r] + 1, next[r])
        BY <1>5, <1>6, <2>0, <3>1, <4>1, <4>2
      <4>4. /\ pc' = [pc EXCEPT ![r] = "idle"] /\ seg' = [seg EXCEPT ![r] = seg[r] + 1]
            /\ next' = next
        BY <2>5, <3>1 DEF MapNext, Goto
      <4> QED
        BY <2>0, <4>1, <4>3, <4>4
    <3>2. CASE ~(/\ Exists(seg[r] + 1) /\ files[seg[r] + 1].ready
                 /\ files[seg[r] + 1].first = next[r])
      BY <2>0, <2>5, <3>2 DEF MapNext, Goto
    <3> QED
      BY <3>1, <3>2
  <2> QED
    BY <2>1, <2>2, <2>3, <2>4, <2>5 DEF Read
<1>8. PICK l \in Labels, s \in Nat, n \in 0 .. LastId + 1 :
        /\ pc' = [pc EXCEPT ![r] = l] /\ seg' = [seg EXCEPT ![r] = s]
        /\ next' = [next EXCEPT ![r] = n]
        /\ l \in {"idle", "drained", "map"} => Placed(s, n)
  BY <1>7
<1>9. /\ pc' \in [Readers -> Labels] /\ seg' \in [Readers -> Nat]
      /\ next' \in [Readers -> 0 .. LastId + 1]
  BY <1>1, <1>8 DEF TypeOK
<1>10. ReaderInv'
  <2> SUFFICES ASSUME NEW q \in Readers, Active(q)'
               PROVE  /\ seg'[q] \in 1 .. End
                      /\ files[seg'[q]].first <= next'[q]
                      /\ next'[q] <= files[seg'[q]].last + 1
                      /\ next'[q] <= files[seg'[q]].valid + 1
    BY <1>1, <1>2 DEF ReaderInv
  <2>1. CASE q = r
    <3>1. pc'[q] = l /\ seg'[q] = s /\ next'[q] = n
      BY <1>1, <1>8, <2>1 DEF TypeOK
    <3> QED
      BY <1>8, <3>1 DEF Active
  <2>2. CASE q # r
    <3>1. seg'[q] = seg[q] /\ next'[q] = next[q] /\ Active(q)
      BY <1>1, <1>8, <2>2 DEF TypeOK, Active
    <3> QED
      BY <1>1, <3>1 DEF ReaderInv
  <2> QED
    BY <2>1, <2>2
<1> QED
  BY <1>1, <1>9, <1>10, WriterKept

-----------------------------------------------------------------------------
LEMMA NextInv == IInv /\ [Next]_vars => IInv'
<1> SUFFICES ASSUME IInv, [Next]_vars PROVE IInv'
  OBVIOUS
<1>1. CASE Write
  <2>1. ASSUME NEW s \in {"Valid", "Invalid"}, PublishContinuity(s) PROVE IInv'
    BY <2>1, PublishContinuityInv
  <2> QED
    BY <1>1, <2>1, OpenNewInv, OpenExistingInv, WriterStopsInv, BeginRotateInv,
       InitSegmentInv, SwitchInv, AbortCreateInv, WriteRecordInv, CloseCleanInv DEF Write
<1>2. CASE Crash
  BY <1>2, WriterStopsInv
<1>3. CASE PowerLoss
  BY <1>3, PowerLossInv
<1>4. CASE \E r \in Readers : OpenReader(r)
  BY <1>4, OpenReaderInv
<1>5. CASE \E r \in Readers : Read(r)
  BY <1>5, ReadInv
<1>6. CASE UNCHANGED vars
  <2>1. /\ UNCHANGED <<files, wpc, opens, history>> /\ files' = files
        /\ pc' = pc /\ seg' = seg /\ next' = next
    BY <1>6 DEF vars, readerVars
  <2>2. ReaderInv'
    BY <2>1 DEF IInv, ReaderInv, Active, End
  <2> QED
    BY <2>1, <2>2, WriterKept DEF IInv, TypeOK
<1> QED
  BY <1>1, <1>2, <1>3, <1>4, <1>5, <1>6 DEF Next

(* Every step of the writer and of a reader, a crash and a power loss      *)
(* included, keeps the inductive invariant.                                *)
THEOREM Invariance == Spec => []IInv
BY InitInv, NextInv, PTL DEF Spec

(* Every variable keeps its type.                                          *)
THEOREM TypeCorrect == Spec => []TypeOK
<1>1. IInv => TypeOK
  BY DEF IInv
<1> QED
  BY <1>1, Invariance, PTL

(* For every size of the segments they hold consecutive events, and all    *)
(* but the last are complete on disk (rotate, open).                       *)
THEOREM Chained == Spec => []SegmentsChain
<1>1. IInv => SegmentsChain
  BY DEF IInv
<1> QED
  BY <1>1, Invariance, PTL

(* A journal in use that does not say Invalid has every event ever         *)
(* appended, whatever crashes and power losses came before (open, rotate,  *)
(* append, close).                                                         *)
THEOREM LossDeclared == Spec => []LossIsDeclared
<1>1. IInv => LossIsDeclared
  BY DEF IInv, VerdictInv, InUse, Truthful, LossIsDeclared, Tail_
<1> QED
  BY <1>1, Invariance, PTL

(* A journal that was told, or found itself, Invalid says so in every      *)
(* later segment and after every reopening (publish_continuity, rotate,    *)
(* open).                                                                  *)
THEOREM InvalidSticks == Spec => []InvalidIsSticky
<1>1. IInv => InvalidIsSticky
  BY DEF IInv, VerdictInv, InUse, Truthful, InvalidIsSticky, Tail_
<1> QED
  BY <1>1, Invariance, PTL

(* No reader passes over an event, or reads one twice, at the boundary of  *)
(* two segments (JournalReader::next).                                     *)
THEOREM ReadersInPlace == Spec => []ReaderInPlace
<1>1. IInv => ReaderInPlace
  <2> SUFFICES ASSUME IInv, NEW r \in Readers, Active(r)
               PROVE  /\ Exists(seg[r])
                      /\ files[seg[r]].first <= next[r]
                      /\ next[r] <= files[seg[r]].last + 1
    BY DEF ReaderInPlace, Active
  <2> QED
    BY DEF IInv, ReaderInv, Exists
<1> QED
  BY <1>1, Invariance, PTL
=============================================================================
