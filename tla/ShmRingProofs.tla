---------------------------- MODULE ShmRingProofs ----------------------------
(***************************************************************************)
(* Proofs about ShmRing, for every capacity, every set of readers and      *)
(* every bound on the ids: its type invariant, the exactness of what       *)
(* read() returns, the justification of its failures, and the refinement   *)
(* of EventLog.                                                            *)
(***************************************************************************)
EXTENDS ShmRing, TLAPS

-----------------------------------------------------------------------------
(* Arithmetic of the slot index. *)

LEMMA IndexType ==
  ASSUME NEW n \in Nat \ {0}
  PROVE  Index(n) \in Slots
BY CapacityAssumption DEF Index, Slots

LEMMA DivMod ==
  ASSUME NEW a \in Nat
  PROVE  /\ a \div Capacity \in Nat
         /\ a = Capacity * (a \div Capacity) + (a % Capacity)
         /\ a % Capacity \in Slots
BY CapacityAssumption DEF Slots

LEMMA ModUnique ==
  ASSUME NEW q \in Int, NEW m \in Slots, NEW a \in Nat, a = Capacity * q + m
  PROVE  a % Capacity = m
BY CapacityAssumption DEF Slots

LEMMA TimesCapacity ==
  ASSUME NEW k \in Nat, k > 0
  PROVE  Capacity * k >= Capacity
BY CapacityAssumption

(* Two events less than a lap apart are in different slots. *)
LEMMA IndexApart ==
  ASSUME NEW a \in Nat \ {0}, NEW b \in Nat \ {0}, a < b, b < a + Capacity
  PROVE  Index(a) # Index(b)
<1>1. SUFFICES ASSUME (a - 1) % Capacity = (b - 1) % Capacity
               PROVE  FALSE
  BY DEF Index
<1> DEFINE p == (a - 1) \div Capacity
           q == (b - 1) \div Capacity
           m == (a - 1) % Capacity
<1>2. /\ p \in Nat /\ q \in Nat /\ m \in Nat
      /\ a - 1 = Capacity * p + m
      /\ b - 1 = Capacity * q + m
  BY <1>1, DivMod DEF Slots
<1> HIDE DEF p, q, m
<1>3. b - a = Capacity * (q - p)
  BY <1>2, CapacityAssumption
<1>4. q > p
  BY <1>2, <1>3, CapacityAssumption
<1>5. Capacity * (q - p) >= Capacity
  BY <1>2, <1>4, TimesCapacity
<1> QED
  BY <1>2, <1>3, <1>5, CapacityAssumption

(* Two events exactly a lap apart share their slot. *)
LEMMA IndexWrap ==
  ASSUME NEW n \in Nat \ {0}
  PROVE  Index(n + Capacity) = Index(n)
<1> DEFINE q == (n - 1) \div Capacity
           m == (n - 1) % Capacity
<1>1. q \in Nat /\ m \in Slots /\ n - 1 = Capacity * q + m
  BY DivMod
<1>2. Index(n) = m
  BY DEF Index
<1> HIDE DEF q, m
<1> DEFINE b == (n + Capacity) - 1
<1>3. b \in Nat /\ q + 1 \in Int /\ b = Capacity * (q + 1) + m
  BY <1>1, CapacityAssumption DEF Slots
<1> HIDE DEF b
<1>4. b % Capacity = m
  BY <1>1, <1>3, ModUnique
<1> QED
  BY <1>2, <1>4 DEF Index, b

-----------------------------------------------------------------------------
LEMMA InitInv == Init => IInv
<1> SUFFICES ASSUME Init PROVE IInv
  OBVIOUS
<1> USE LastIdAssumption, CapacityAssumption DEF Init
<1>1. TypeOK
  BY DEF TypeOK, Nothing, Fields, Words, ReadSteps
<1>2. WriterInv /\ SlotInv /\ Retained
  BY DEF WriterInv, SlotInv, Retained, Fields, Words
<1>3. \A r \in Readers : ReaderInv(r)
  BY DEF ReaderInv, ReadSteps, Nothing
<1> QED
  BY <1>1, <1>2, <1>3 DEF IInv

(* A step of the producer keeps what the readers know, as long as events   *)
(* only get lost and no slot forgets its generation.                       *)
LEMMA ProducerKeepsReaders ==
  ASSUME TypeOK, first <= latest,
         latest' \in Nat, first' \in Nat, wid' \in Nat,
         latest <= latest', wid <= wid',
         first' = first \/ latest = 0, first <= first',
         \A i \in Slots : slot[i]["gen"] = Generation => slot'[i]["gen"] = Generation,
         UNCHANGED <<pc, next, copy, got>>,
         NEW r \in Readers, ReaderInv(r)
  PROVE  ReaderInv(r)'
<1> USE CapacityAssumption, LastIdAssumption
<1>1. next[r] \in Nat \ {0} /\ Index(next[r]) \in Slots
  BY IndexType DEF TypeOK
<1>2. Gone(next[r]) => Gone(next[r])'
  BY <1>1 DEF Gone, TypeOK
<1>3. Source(r)["gen"] = Generation => (Source(r)["gen"] = Generation)'
  BY <1>1 DEF Source
<1> QED
  BY <1>1, <1>2, <1>3 DEF ReaderInv, TypeOK, ReadSteps

(* The producer's steps. *)
LEMMA BeginPublishInv ==
  ASSUME IInv, NEW n \in 1 .. LastId, BeginPublish(n)
  PROVE  IInv'
<1> USE CapacityAssumption, LastIdAssumption
<1>1. Index(n) \in Slots
  BY IndexType
<1>2. TypeOK'
  BY <1>1 DEF IInv, TypeOK, BeginPublish, Fields, Words
<1>3. \A i \in Slots, f \in Fields :
        slot'[i][f] = IF i = Index(n) /\ f = "pub" THEN 0 ELSE slot[i][f]
  BY <1>1 DEF BeginPublish, IInv, TypeOK, Fields
<1>4. wid' = n /\ latest' = latest /\ first' = first /\ todo' = Words
  BY DEF BeginPublish
<1>5. WriterInv'
  BY <1>1, <1>3, <1>4 DEF IInv, WriterInv, TypeOK, BeginPublish, InOrder, Fields
<1>6. wid = latest /\ (latest # 0 => n = wid + 1)
  BY DEF IInv, WriterInv, BeginPublish, InOrder
<1>7. SlotInv'
  <2> SUFFICES ASSUME NEW i \in Slots, slot'[i]["pub"] # 0
               PROVE  LET p == slot'[i]["pub"] IN
                        /\ Index(p) = i
                        /\ p <= n /\ n < p + Capacity
                        /\ IF latest = 0 THEN p = n ELSE first <= p
                        /\ \A w \in Words : slot'[i][w] = WordOf(w, p)
    BY <1>4 DEF SlotInv
  <2> DEFINE p == slot[i]["pub"]
  <2>1. i # Index(n) /\ slot'[i]["pub"] = p
    BY <1>3 DEF Fields
  <2>2. /\ p \in Nat \ {0} /\ Index(p) = i
        /\ p <= wid /\ wid < p + Capacity
        /\ IF latest = 0 THEN p = wid ELSE first <= p
        /\ \A w \in Words : slot[i][w] = WordOf(w, p)
    BY <2>1 DEF IInv, SlotInv, TypeOK, Fields
  <2>3. n = wid + 1
    BY <1>6, <2>2 DEF IInv, TypeOK
  <2>4. n # p + Capacity
    BY <2>1, <2>2, IndexWrap
  <2>5. \A w \in Words : slot'[i][w] = slot[i][w]
    BY <1>3 DEF Fields, Words
  <2>6. wid \in Nat /\ latest \in Nat
    BY DEF IInv, TypeOK
  <2> HIDE DEF p
  <2>7. p <= n /\ n < p + Capacity /\ latest # 0
    BY <1>6, <2>2, <2>3, <2>4, <2>6
  <2> QED
    BY <2>1, <2>2, <2>5, <2>7
<1>8. Retained'
  <2> SUFFICES ASSUME NEW m \in 1 .. LastId, latest # 0, m <= latest,
                      ~(m < first), ~(m + Capacity <= n)
               PROVE  slot'[Index(m)]["pub"] = m
    BY <1>4 DEF Retained, Gone
  <2>1. slot[Index(m)]["pub"] = m
    BY <1>6 DEF IInv, Retained, Gone, TypeOK
  <2>2. Index(m) # Index(n)
    BY <1>6, IndexApart DEF IInv, TypeOK
  <2> QED
    BY <1>3, <2>1, <2>2, IndexType DEF Fields
<1>9. \A r \in Readers : ReaderInv(r)'
  <2>1. wid <= wid'
    BY <1>4, <1>6 DEF IInv, TypeOK
  <2>2. \A i \in Slots : slot'[i]["gen"] = slot[i]["gen"]
    BY <1>3 DEF Fields, Words
  <2> QED
    BY <1>2, <1>4, <2>1, <2>2, ProducerKeepsReaders
       DEF IInv, WriterInv, TypeOK, BeginPublish
<1> QED
  BY <1>2, <1>5, <1>7, <1>8, <1>9 DEF IInv

LEMMA StoreWordInv ==
  ASSUME IInv, NEW w \in Words, StoreWord(w)
  PROVE  IInv'
<1> USE CapacityAssumption, LastIdAssumption
<1>1. wid \in Nat \ {0} /\ wid \in 1 .. LastId /\ Index(wid) \in Slots
  BY IndexType DEF IInv, TypeOK, WriterInv, StoreWord
<1>2. WordOf(w, wid) \in 0 .. LastId
  BY <1>1 DEF WordOf, Generation
<1>3. TypeOK'
  BY <1>1, <1>2 DEF IInv, TypeOK, StoreWord, Fields
<1>4. \A i \in Slots, f \in Fields :
        slot'[i][f] = IF i = Index(wid) /\ f = w THEN WordOf(w, wid) ELSE slot[i][f]
  BY <1>1 DEF StoreWord, IInv, TypeOK, Fields
<1>5. \A i \in Slots : slot'[i]["pub"] = slot[i]["pub"]
  BY <1>4 DEF Fields, Words
<1>6. slot[Index(wid)]["pub"] = 0
  BY DEF IInv, WriterInv, StoreWord
<1>7. WriterInv'
  BY <1>1, <1>4, <1>5 DEF IInv, WriterInv, StoreWord, InOrder, Fields
<1>8. SlotInv'
  <2>1. \A i \in Slots : slot[i]["pub"] # 0 =>
          \A v \in Words : slot'[i][v] = slot[i][v]
    BY <1>4, <1>6 DEF Fields
  <2> QED
    BY <1>5, <2>1 DEF IInv, SlotInv, StoreWord
<1>9. Retained'
  BY <1>5, IndexType DEF IInv, Retained, Gone, StoreWord
<1>10. \A r \in Readers : ReaderInv(r)'
  <2>1. \A i \in Slots : slot[i]["gen"] = Generation => slot'[i]["gen"] = Generation
    BY <1>4 DEF Fields, Words, WordOf
  <2> QED
    BY <2>1, ProducerKeepsReaders DEF IInv, WriterInv, TypeOK, StoreWord
<1> QED
  BY <1>3, <1>7, <1>8, <1>9, <1>10 DEF IInv

LEMMA CommitSlotInv ==
  ASSUME IInv, CommitSlot
  PROVE  IInv'
<1> USE CapacityAssumption, LastIdAssumption
<1>1. wid \in Nat \ {0} /\ wid \in 1 .. LastId /\ Index(wid) \in Slots
  BY IndexType DEF IInv, TypeOK, WriterInv, CommitSlot
<1>2. TypeOK'
  BY <1>1 DEF IInv, TypeOK, CommitSlot, Fields
<1>3. \A i \in Slots, f \in Fields :
        slot'[i][f] = IF i = Index(wid) /\ f = "pub" THEN wid ELSE slot[i][f]
  BY <1>1 DEF CommitSlot, IInv, TypeOK, Fields
<1>4. \A i \in Slots, v \in Words : slot'[i][v] = slot[i][v]
  BY <1>3 DEF Fields, Words
<1>5. WriterInv'
  BY <1>1, <1>3, <1>4 DEF IInv, WriterInv, CommitSlot, InOrder, Fields
<1>6. SlotInv'
  <2> SUFFICES ASSUME NEW i \in Slots, slot'[i]["pub"] # 0
               PROVE  LET p == slot'[i]["pub"] IN
                        /\ Index(p) = i
                        /\ p <= wid /\ wid < p + Capacity
                        /\ IF latest = 0 THEN p = wid ELSE first <= p
                        /\ \A v \in Words : slot'[i][v] = WordOf(v, p)
    BY DEF SlotInv, CommitSlot
  <2>1. CASE i = Index(wid)
    <3>1. slot'[i]["pub"] = wid
      BY <1>3, <2>1 DEF Fields
    <3>2. \A v \in Words : slot'[i][v] = WordOf(v, wid)
      BY <1>4, <2>1 DEF IInv, WriterInv, CommitSlot
    <3>3. first <= wid
      BY DEF IInv, WriterInv, CommitSlot, TypeOK, InOrder
    <3> QED
      BY <1>1, <2>1, <3>1, <3>2, <3>3
  <2>2. CASE i # Index(wid)
    BY <1>3, <1>4, <2>2 DEF IInv, SlotInv, Fields
  <2> QED
    BY <2>1, <2>2
<1>7. Retained'
  <2> SUFFICES ASSUME NEW m \in 1 .. LastId, latest # 0, m <= latest, ~Gone(m)
               PROVE  slot'[Index(m)]["pub"] = m
    BY DEF Retained, Gone, CommitSlot
  <2>1. slot[Index(m)]["pub"] = m
    BY DEF IInv, Retained
  <2>2. m < wid /\ wid < m + Capacity
    BY DEF IInv, WriterInv, CommitSlot, InOrder, Gone, TypeOK
  <2>3. Index(m) # Index(wid)
    BY <1>1, <2>2, IndexApart
  <2> QED
    BY <1>3, <2>1, <2>3, IndexType DEF Fields
<1>8. \A r \in Readers : ReaderInv(r)'
  <2>1. \A i \in Slots : slot'[i]["gen"] = slot[i]["gen"]
    BY <1>4 DEF Words
  <2> QED
    BY <2>1, ProducerKeepsReaders DEF IInv, WriterInv, TypeOK, CommitSlot
<1> QED
  BY <1>2, <1>5, <1>6, <1>7, <1>8 DEF IInv

LEMMA AdvanceLatestInv ==
  ASSUME IInv, AdvanceLatest
  PROVE  IInv'
<1> USE CapacityAssumption, LastIdAssumption
<1>1. wid \in Nat \ {0} /\ wid \in 1 .. LastId /\ InOrder(wid)
  BY DEF IInv, TypeOK, WriterInv, AdvanceLatest
<1>2. TypeOK'
  BY DEF IInv, TypeOK, AdvanceLatest
<1>3. WriterInv'
  BY <1>1 DEF IInv, WriterInv, AdvanceLatest, TypeOK, InOrder
<1>4. SlotInv'
  <2> SUFFICES ASSUME NEW i \in Slots, slot[i]["pub"] # 0, latest = 0
               PROVE  wid <= slot[i]["pub"]
    BY <1>1 DEF IInv, SlotInv, AdvanceLatest, TypeOK
  <2> QED
    BY <1>1 DEF IInv, SlotInv, TypeOK, Fields
<1>5. Retained'
  <2> SUFFICES ASSUME NEW m \in 1 .. LastId, m <= wid, ~Gone(m)'
               PROVE  slot[Index(m)]["pub"] = m
    BY DEF Retained, AdvanceLatest
  <2>1. CASE m = wid
    BY <2>1 DEF IInv, WriterInv, AdvanceLatest
  <2>2. CASE m # wid
    BY <1>1, <2>2 DEF IInv, Retained, AdvanceLatest, Gone, InOrder, TypeOK
  <2> QED
    BY <2>1, <2>2
<1>6. \A r \in Readers : ReaderInv(r)'
  BY <1>1, ProducerKeepsReaders DEF IInv, WriterInv, TypeOK, AdvanceLatest, InOrder
<1> QED
  BY <1>2, <1>3, <1>4, <1>5, <1>6 DEF IInv

-----------------------------------------------------------------------------
(* The readers' steps: the ring itself is unchanged, and so is every other *)
(* reader.                                                                 *)
LEMMA ReaderStepInv ==
  ASSUME IInv, UNCHANGED writerVars, TypeOK',
         NEW r \in Readers, ReaderInv(r)',
         \A s \in Readers \ {r} : /\ pc'[s] = pc[s] /\ next'[s] = next[s]
                                  /\ copy'[s] = copy[s] /\ got'[s] = got[s]
  PROVE  IInv'
<1>1. WriterInv' /\ SlotInv' /\ Retained'
  BY DEF IInv, WriterInv, SlotInv, Retained, Gone, InOrder, writerVars
<1>2. \A s \in Readers : ReaderInv(s)'
  BY DEF IInv, ReaderInv, Gone, Source, writerVars
<1> QED
  BY <1>1, <1>2 DEF IInv

(* An event that is published, and not lost, is whole in its slot. *)
LEMMA RetainedIsWhole ==
  ASSUME IInv, NEW n \in 1 .. LastId, n <= latest, ~Gone(n)
  PROVE  /\ slot[Index(n)]["pub"] = n
         /\ \A w \in Words : slot[Index(n)][w] = WordOf(w, n)
<1> USE CapacityAssumption, LastIdAssumption
<1>1. slot[Index(n)]["pub"] = n
  BY DEF IInv, Retained, TypeOK
<1> QED
  BY <1>1, IndexType DEF IInv, SlotInv

(* A slot that carries the id n holds event n, which is not lost. *)
LEMMA PublishedIsRetained ==
  ASSUME IInv, NEW n \in 1 .. LastId, slot[Index(n)]["pub"] = n, n <= latest
  PROVE  ~Gone(n) /\ first <= n
<1> USE CapacityAssumption, LastIdAssumption
<1> QED
  BY IndexType DEF IInv, SlotInv, Gone, TypeOK

LEMMA BeginReadInv ==
  ASSUME IInv, NEW r \in Readers, BeginRead(r)
  PROVE  IInv'
<1> USE CapacityAssumption, LastIdAssumption DEF BeginRead, Goto
<1>1. TypeOK'
  BY DEF IInv, TypeOK, ReadSteps, writerVars
<1>2. latest <= wid
  BY DEF IInv, WriterInv, InOrder, TypeOK
<1>3. Lapped(latest, next[r]) => Gone(next[r])
  BY <1>2 DEF Lapped, Gone, IInv, TypeOK
<1>4. ReaderInv(r)'
  BY <1>3 DEF IInv, ReaderInv, TypeOK, ReadSteps, Gone, Source, writerVars
<1> QED
  BY <1>1, <1>4, ReaderStepInv DEF IInv, TypeOK

LEMMA CheckPublishedInv ==
  ASSUME IInv, NEW r \in Readers, CheckPublished(r)
  PROVE  IInv'
<1> USE CapacityAssumption, LastIdAssumption DEF CheckPublished, Goto
<1>1. TypeOK'
  BY DEF IInv, TypeOK, ReadSteps, writerVars
<1>2. next[r] \in 1 .. LastId /\ next[r] <= latest
  BY DEF IInv, ReaderInv, TypeOK, ReadSteps
<1>3. CASE Source(r)["pub"] = next[r]
  <2>1. first <= next[r] /\ ~Gone(next[r])
    BY <1>2, <1>3, PublishedIsRetained DEF Source
  <2>2. Source(r)["gen"] = Generation
    BY <1>2, <2>1, RetainedIsWhole DEF Source, WordOf, Words
  <2> QED
    BY <1>1, <1>2, <1>3, <2>1, <2>2, ReaderStepInv
       DEF IInv, ReaderInv, TypeOK, ReadSteps, Source, writerVars
<1>4. CASE Source(r)["pub"] # next[r]
  <2>1. Gone(next[r])
    BY <1>2, <1>4, RetainedIsWhole DEF Source
  <2> QED
    BY <1>1, <1>2, <1>4, <2>1, ReaderStepInv
       DEF IInv, ReaderInv, TypeOK, ReadSteps, Gone, writerVars
<1> QED
  BY <1>3, <1>4

LEMMA CheckGenerationInv ==
  ASSUME IInv, NEW r \in Readers, CheckGeneration(r)
  PROVE  IInv'
<1> USE CapacityAssumption, LastIdAssumption DEF CheckGeneration, Goto
<1>1. TypeOK'
  BY DEF IInv, TypeOK, ReadSteps, writerVars
<1>2. ReaderInv(r)'
  BY DEF IInv, ReaderInv, TypeOK, ReadSteps, Gone, Source, writerVars
<1> QED
  BY <1>1, <1>2, ReaderStepInv DEF IInv, TypeOK

LEMMA CopyEventInv ==
  ASSUME IInv, NEW r \in Readers, CopyEvent(r)
  PROVE  IInv'
<1> USE CapacityAssumption, LastIdAssumption DEF CopyEvent, Goto
<1>1. next[r] \in 1 .. LastId /\ next[r] <= latest /\ Index(next[r]) \in Slots
  BY IndexType DEF IInv, ReaderInv, TypeOK, ReadSteps
<1>2. Source(r)["id"] \in 0 .. LastId
  BY <1>1 DEF IInv, TypeOK, Source, Fields, Words
<1>3. TypeOK'
  BY <1>2 DEF IInv, TypeOK, ReadSteps, writerVars
<1>4. Source(r)["id"] # next[r] => Gone(next[r])
  BY <1>1, RetainedIsWhole DEF Source, Words, WordOf
<1>5. ReaderInv(r)'
  BY <1>1, <1>4 DEF IInv, ReaderInv, TypeOK, ReadSteps, Gone, Source, writerVars
<1> QED
  BY <1>3, <1>5, ReaderStepInv DEF IInv, TypeOK

LEMMA CopyPayloadInv ==
  ASSUME IInv, NEW r \in Readers, CopyPayload(r)
  PROVE  IInv'
<1> USE CapacityAssumption, LastIdAssumption DEF CopyPayload, Goto
<1>1. next[r] \in 1 .. LastId /\ next[r] <= latest /\ Index(next[r]) \in Slots
  BY IndexType DEF IInv, ReaderInv, TypeOK, ReadSteps
<1>2. Source(r)["body"] \in 0 .. LastId
  BY <1>1 DEF IInv, TypeOK, Source, Fields, Words
<1>3. TypeOK'
  BY <1>2 DEF IInv, TypeOK, ReadSteps, writerVars
<1>4. Source(r)["body"] = next[r] \/ Gone(next[r])
  BY <1>1, RetainedIsWhole DEF Source, Words, WordOf
<1>5. ReaderInv(r)'
  BY <1>1, <1>4 DEF IInv, ReaderInv, TypeOK, ReadSteps, Gone, Source, writerVars
<1> QED
  BY <1>3, <1>5, ReaderStepInv DEF IInv, TypeOK

LEMMA CheckCrcInv ==
  ASSUME IInv, NEW r \in Readers, CheckCrc(r)
  PROVE  IInv'
<1> USE CapacityAssumption, LastIdAssumption DEF CheckCrc, Goto
<1>1. next[r] \in 1 .. LastId /\ next[r] <= latest
  BY DEF IInv, ReaderInv, TypeOK, ReadSteps
<1>2. PICK collide \in BOOLEAN :
        pc' = [pc EXCEPT ![r] = IF CrcAccepts(r, collide) THEN "recheck" ELSE "Overrun"]
  OBVIOUS
<1>3. TypeOK'
  BY <1>2 DEF IInv, TypeOK, ReadSteps, writerVars
<1>4. ~CrcAccepts(r, collide) => Gone(next[r])
  <2> SUFFICES ASSUME ~Gone(next[r])
               PROVE  CrcAccepts(r, collide)
    OBVIOUS
  <2>1. copy[r].id = next[r] /\ copy[r].body = next[r]
    BY DEF IInv, ReaderInv
  <2>2. Source(r)["crc"] = next[r]
    BY <1>1, RetainedIsWhole DEF Source, Words, WordOf
  <2> QED
    BY <2>1, <2>2 DEF CrcAccepts
<1>5. ReaderInv(r)'
  BY <1>1, <1>2, <1>4 DEF IInv, ReaderInv, TypeOK, ReadSteps, Gone, Source, writerVars
<1> QED
  BY <1>2, <1>3, <1>5, ReaderStepInv DEF IInv, TypeOK

LEMMA RecheckInv ==
  ASSUME IInv, NEW r \in Readers, Recheck(r)
  PROVE  IInv'
<1> USE CapacityAssumption, LastIdAssumption DEF Recheck, Goto
<1>1. next[r] \in 1 .. LastId /\ next[r] <= latest
  BY DEF IInv, ReaderInv, TypeOK, ReadSteps
<1>2. CASE Source(r)["pub"] = next[r]
  <2>1. ~Gone(next[r])
    BY <1>1, <1>2, PublishedIsRetained DEF Source
  <2>2. copy[r].id = next[r] /\ copy[r].body = next[r]
    BY <2>1 DEF IInv, ReaderInv
  <2>3. Deliver(r)
    BY <1>2
  <2>4. TypeOK'
    BY <1>1, <2>2, <2>3 DEF IInv, TypeOK, Deliver, ReadSteps, writerVars
  <2>5. ReaderInv(r)'
    BY <2>2, <2>3 DEF IInv, TypeOK, ReaderInv, Deliver, ReadSteps, writerVars
  <2> QED
    BY <2>3, <2>4, <2>5, ReaderStepInv DEF IInv, TypeOK, Deliver
<1>3. CASE Source(r)["pub"] # next[r]
  <2>1. Gone(next[r])
    BY <1>1, <1>3, RetainedIsWhole DEF Source
  <2>2. TypeOK'
    BY <1>3 DEF IInv, TypeOK, ReadSteps, writerVars
  <2>3. ReaderInv(r)'
    BY <1>1, <1>3, <2>1 DEF IInv, ReaderInv, TypeOK, ReadSteps, Gone, writerVars
  <2> QED
    BY <1>3, <2>2, <2>3, ReaderStepInv DEF IInv, TypeOK
<1> QED
  BY <1>2, <1>3

LEMMA RepositionInv ==
  ASSUME IInv, NEW r \in Readers, NEW n \in 1 .. LastId + 1, Reposition(r, n)
  PROVE  IInv'
<1> USE CapacityAssumption, LastIdAssumption DEF Reposition, Goto
<1>1. TypeOK'
  BY DEF IInv, TypeOK, ReadSteps, writerVars
<1>2. ReaderInv(r)'
  BY DEF IInv, ReaderInv, TypeOK, ReadSteps
<1> QED
  BY <1>1, <1>2, ReaderStepInv DEF IInv, TypeOK

LEMMA StutterInv ==
  ASSUME IInv, UNCHANGED vars
  PROVE  IInv'
BY DEF IInv, TypeOK, WriterInv, SlotInv, Retained, ReaderInv, Gone, Source,
       InOrder, vars

LEMMA NextInv == IInv /\ [Next]_vars => IInv'
<1> SUFFICES ASSUME IInv, [Next]_vars
             PROVE  IInv'
  OBVIOUS
<1>1. ASSUME NEW n \in 1 .. LastId, BeginPublish(n) PROVE IInv'
  BY <1>1, BeginPublishInv
<1>2. ASSUME NEW w \in Words, StoreWord(w) PROVE IInv'
  BY <1>2, StoreWordInv
<1>3. CASE CommitSlot
  BY <1>3, CommitSlotInv
<1>4. CASE AdvanceLatest
  BY <1>4, AdvanceLatestInv
<1>5. ASSUME NEW r \in Readers, Read(r) PROVE IInv'
  BY <1>5, BeginReadInv, CheckPublishedInv, CheckGenerationInv, CopyEventInv,
     CopyPayloadInv, CheckCrcInv, RecheckInv DEF Read
<1>6. ASSUME NEW r \in Readers, NEW n \in 1 .. LastId + 1, Reposition(r, n)
      PROVE  IInv'
  BY <1>6, RepositionInv
<1>7. CASE UNCHANGED vars
  BY <1>7, StutterInv
<1> QED
  BY <1>1, <1>2, <1>3, <1>4, <1>5, <1>6, <1>7 DEF Next, Publish

(* The inductive invariant holds in every reachable state of the ring.     *)
THEOREM Invariance == Spec => []IInv
<1>1. Init => IInv
  BY InitInv
<1>2. IInv /\ [Next]_vars => IInv'
  BY NextInv
<1> QED
  BY <1>1, <1>2, PTL DEF Spec

(* Every shared word of the ring and every local of a reader keeps its     *)
(* type, whatever the capacity, the readers and the interleaving.          *)
THEOREM TypeCorrect == Spec => []TypeOK
<1>1. IInv => TypeOK
  BY DEF IInv
<1> QED
  BY <1>1, Invariance, PTL

(* read() never hands over a torn or a wrong event: the published id that  *)
(* is zeroed first, stored last and tested twice is enough by itself, even *)
(* if every CRC collided.                                                  *)
THEOREM ReadsAreExact == Spec => []ReadExact
<1>1. IInv => ReadExact
  BY DEF IInv, ReadExact, ReaderInv
<1> QED
  BY <1>1, Invariance, PTL

(* An overrun, or an invalid slot, is reported only for an event the ring  *)
(* no longer holds: a slow reader is never sent away from an event that    *)
(* is still whole in its slot.                                             *)
THEOREM FailuresAreJustified == Spec => []FailureJustified
<1>1. IInv => FailureJustified
  BY DEF IInv, FailureJustified, ReaderInv
<1> QED
  BY <1>1, Invariance, PTL

(* read() of a ring never answers that the slot's generation is stale.     *)
THEOREM GenerationNeverStale == Spec => []NeverStale
<1>1. IInv => NeverStale
  BY DEF IInv, NeverStale, ReaderInv
<1> QED
  BY <1>1, Invariance, PTL

-----------------------------------------------------------------------------
(* Refinement: the log's variables are the ring's own latest, first, next  *)
(* and got; a step of the ring appends, takes, skips, or leaves them.      *)

LEMMA RefinesInit == Init => Log!Init
BY LastIdAssumption DEF Init, Log!Init, Log!Nothing, Nothing

LEMMA RefinesAdvance ==
  ASSUME IInv, AdvanceLatest
  PROVE  Log!Append
<1>1. wid \in Nat \ {0} /\ InOrder(wid)
  BY LastIdAssumption DEF IInv, TypeOK, WriterInv, AdvanceLatest
<1> QED
  BY <1>1 DEF Log!Append, AdvanceLatest, InOrder

LEMMA RefinesRecheck ==
  ASSUME IInv, NEW r \in Readers, Recheck(r)
  PROVE  Log!Take(r) \/ UNCHANGED Log!vars
<1> USE CapacityAssumption, LastIdAssumption
<1>1. next[r] \in 1 .. LastId /\ next[r] <= latest /\ copy[r].id = next[r]
  BY DEF IInv, ReaderInv, TypeOK, ReadSteps, Recheck
<1>2. CASE Source(r)["pub"] = next[r]
  <2>1. copy[r].body = next[r]
    BY <1>1, <1>2, PublishedIsRetained DEF IInv, ReaderInv, Recheck, Source
  <2> QED
    BY <1>1, <1>2, <2>1 DEF Recheck, Deliver, Log!Take, Log!Event, writerVars
<1>3. CASE Source(r)["pub"] # next[r]
  BY <1>3 DEF Recheck, Log!vars, writerVars
<1> QED
  BY <1>2, <1>3

LEMMA RefinesReposition ==
  ASSUME IInv, NEW r \in Readers, NEW n \in 1 .. LastId + 1, Reposition(r, n)
  PROVE  Log!Skip(r)
<1> USE CapacityAssumption, LastIdAssumption
<1>1. Gone(next[r]) /\ next[r] <= latest
  BY DEF IInv, ReaderInv, Reposition
<1>2. wid <= latest + 1
  BY <1>1 DEF IInv, WriterInv, TypeOK, InOrder
<1>3. Log!Lost(next[r])
  BY <1>1, <1>2 DEF Gone, Log!Lost, IInv, TypeOK
<1>4. n \in next[r] + 1 .. latest + 1
  BY DEF Reposition, IInv, TypeOK
<1> QED
  BY <1>3, <1>4 DEF Reposition, Log!Skip, writerVars

LEMMA RefinesNext == IInv /\ [Next]_vars => [Log!Next]_(Log!vars)
<1> SUFFICES ASSUME IInv, [Next]_vars
             PROVE  Log!Next \/ UNCHANGED Log!vars
  OBVIOUS
<1>1. ASSUME NEW n \in 1 .. LastId, BeginPublish(n) PROVE UNCHANGED Log!vars
  BY <1>1 DEF BeginPublish, Log!vars
<1>2. ASSUME NEW w \in Words, StoreWord(w) PROVE UNCHANGED Log!vars
  BY <1>2 DEF StoreWord, Log!vars
<1>3. CASE CommitSlot
  BY <1>3 DEF CommitSlot, Log!vars
<1>4. CASE AdvanceLatest
  BY <1>4, RefinesAdvance DEF Log!Next
<1>5. ASSUME NEW r \in Readers, Read(r)
      PROVE  Log!Next \/ UNCHANGED Log!vars
  <2>1. CASE Recheck(r)
    BY <2>1, RefinesRecheck DEF Log!Next
  <2>2. CASE ~Recheck(r)
    BY <1>5, <2>2 DEF Read, BeginRead, CheckPublished, CheckGeneration,
       CopyEvent, CopyPayload, CheckCrc, writerVars, Log!vars
  <2> QED
    BY <2>1, <2>2
<1>6. ASSUME NEW r \in Readers, NEW n \in 1 .. LastId + 1, Reposition(r, n)
      PROVE  Log!Next
  BY <1>6, RefinesReposition DEF Log!Next
<1>7. CASE UNCHANGED vars
  BY <1>7 DEF vars, Log!vars
<1> QED
  BY <1>1, <1>2, <1>3, <1>4, <1>5, <1>6, <1>7 DEF Next, Publish

(* The ring of slots, checksums and racing copies is, to its readers, a    *)
(* log that keeps its last Capacity events and is read in order.           *)
THEOREM RefinesEventLog == Spec => ImplementsEventLog
<1>1. Init => Log!Init
  BY RefinesInit
<1>2. IInv /\ [Next]_vars => [Log!Next]_(Log!vars)
  BY RefinesNext
<1> QED
  BY <1>1, <1>2, Invariance, PTL DEF Spec, Log!Spec, ImplementsEventLog
=============================================================================
