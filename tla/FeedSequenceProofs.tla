------------------------- MODULE FeedSequenceProofs -------------------------
(***************************************************************************)
(* Proofs about FeedSequence, for every word size that is a multiple of 16 *)
(* and every feed that never jumps by a sixteenth of it: the rebuilt       *)
(* number is exact and no loss is silent.                                  *)
(***************************************************************************)
EXTENDS FeedSequence, TLAPS

LEMMA WordSize == Sixteenth \in Nat \ {0} /\ Word = 16 * Sixteenth
BY WordAssumption DEF Sixteenth

LEMMA ModUnique ==
  ASSUME NEW q \in Int, NEW m \in 0 .. Word - 1, NEW a \in Int, a = Word * q + m
  PROVE  a % Word = m
BY WordAssumption

LEMMA DivMod ==
  ASSUME NEW a \in Nat
  PROVE  /\ a \div Word \in Nat
         /\ a = Word * (a \div Word) + (a % Word)
         /\ a % Word \in 0 .. Word - 1
BY WordAssumption

(* A step of d numbers, forward or back, from a number a of residue m. *)
LEMMA Residue ==
  ASSUME NEW a \in Nat, NEW d \in Int, a + d \in Nat, -Word < d, d < Word,
         NEW m \in 0 .. Word - 1, m = a % Word
  PROVE  (a + d) % Word = IF m + d >= Word THEN m + d - Word
                          ELSE IF m + d < 0 THEN m + d + Word
                          ELSE m + d
<1> DEFINE q == a \div Word
<1>1. q \in Nat /\ a = Word * q + m
  BY DivMod
<1> HIDE DEF q
<1>2. CASE m + d >= Word
  <2>1. a + d = Word * (q + 1) + (m + d - Word)
    BY <1>1, WordAssumption
  <2>2. m + d - Word \in 0 .. Word - 1 /\ q + 1 \in Int /\ a + d \in Int
    BY <1>1, <1>2, WordAssumption
  <2> QED
    BY <1>2, <2>1, <2>2, ModUnique
<1>3. CASE m + d < 0
  <2>1. a + d = Word * (q - 1) + (m + d + Word)
    BY <1>1, WordAssumption
  <2>2. m + d + Word \in 0 .. Word - 1 /\ q - 1 \in Int /\ a + d \in Int
    BY <1>1, <1>3, WordAssumption
  <2>3. (a + d) % Word = m + d + Word
    BY <2>1, <2>2, ModUnique
  <2> QED
    BY <1>3, <2>3, WordAssumption
<1>4. CASE m + d \in 0 .. Word - 1
  <2>1. a + d = Word * q + (m + d) /\ a + d \in Int /\ q \in Int
    BY <1>1, WordAssumption
  <2>2. (a + d) % Word = m + d
    BY <1>4, <2>1, ModUnique
  <2> QED
    BY <1>4, <2>2, WordAssumption
<1> QED
  BY <1>2, <1>3, <1>4, WordAssumption

(* Unsigned subtraction of two raw numbers. *)
LEMMA MinusResidue ==
  ASSUME NEW x \in -Word .. Word - 1
  PROVE  x % Word = IF x < 0 THEN x + Word ELSE x
<1>1. CASE x < 0
  <2>1. x = Word * (-1) + (x + Word) /\ x + Word \in 0 .. Word - 1
    BY <1>1, WordAssumption
  <2> QED
    BY <1>1, <2>1, ModUnique, WordAssumption
<1>2. CASE x >= 0
  <2>1. x = Word * 0 + x /\ x \in 0 .. Word - 1
    BY <1>2, WordAssumption
  <2> QED
    BY <1>2, <2>1, ModUnique, WordAssumption
<1> QED
  BY <1>1, <1>2, WordAssumption

(* Unsigned subtraction from the residue of a later, or an earlier, number. *)
LEMMA MinusAhead ==
  ASSUME NEW m \in 0 .. Word - 1, NEW d \in 1 .. Sixteenth - 1,
         NEW r \in 0 .. Word - 1,
         r = IF m + d >= Word THEN m + d - Word ELSE m + d
  PROVE  Minus(r, m) = d /\ Minus(r, m + 1) = d - 1
<1>1. \A x \in -Word .. Word - 1 : x % Word = IF x < 0 THEN x + Word ELSE x
  BY MinusResidue
<1>2. r - m \in -Word .. Word - 1 /\ r - (m + 1) \in -Word .. Word - 1
  BY WordSize
<1>3. (r - m) % Word = d
  <2>1. (r - m) % Word = IF r - m < 0 THEN r - m + Word ELSE r - m
    BY <1>1, <1>2
  <2> QED
    BY <2>1, WordSize
<1>4. (r - (m + 1)) % Word = d - 1
  <2>1. (r - (m + 1)) % Word = IF r - (m + 1) < 0 THEN r - (m + 1) + Word ELSE r - (m + 1)
    BY <1>1, <1>2
  <2> QED
    BY <2>1, WordSize
<1> QED
  BY <1>3, <1>4 DEF Minus

LEMMA MinusBehind ==
  ASSUME NEW m \in 0 .. Word - 1, NEW d \in 1 .. Sixteenth - 1,
         NEW r \in 0 .. Word - 1,
         r = IF m - d < 0 THEN m - d + Word ELSE m - d
  PROVE  Minus(r, m) = Word - d /\ Minus(r, m + 1) = Word - d - 1
<1>1. \A x \in -Word .. Word - 1 : x % Word = IF x < 0 THEN x + Word ELSE x
  BY MinusResidue
<1>2. r - m \in -Word .. Word - 1 /\ r - (m + 1) \in -Word .. Word - 1
  BY WordSize
<1>3. (r - m) % Word = Word - d
  <2>1. (r - m) % Word = IF r - m < 0 THEN r - m + Word ELSE r - m
    BY <1>1, <1>2
  <2> QED
    BY <2>1, WordSize
<1>4. (r - (m + 1)) % Word = Word - d - 1
  <2>1. (r - (m + 1)) % Word = IF r - (m + 1) < 0 THEN r - (m + 1) + Word ELSE r - (m + 1)
    BY <1>1, <1>2
  <2> QED
    BY <2>1, WordSize
<1> QED
  BY <1>3, <1>4 DEF Minus

(* What observe() computes from the low word of a newer number. *)
LEMMA Forward ==
  ASSUME NEW t \in Nat, TypeOK, raw = last % Word, base = last - raw,
         t > last, t - last < Sixteenth
  PROVE  /\ t % Word \in 0 .. Word - 1
         /\ Candidate(t % Word) = t
         /\ t % Word # raw
         /\ Minus(t % Word, raw) = t - last
         /\ Minus(t % Word, raw + 1) = t - last - 1
<1>1. PICK d \in 1 .. Sixteenth - 1 : t = last + d
  <2>1. t - last \in 1 .. Sixteenth - 1 /\ t = last + (t - last)
    BY WordSize DEF TypeOK
  <2> QED
    BY <2>1
<1>2. PICK r \in 0 .. Word - 1 : r = t % Word
  BY DivMod
<1>3. raw \in 0 .. Word - 1 /\ last \in Nat /\ base \in Nat
  BY DEF TypeOK
<1>4. r = IF raw + d >= Word THEN raw + d - Word ELSE raw + d
  <2>1. (last + d) % Word = IF raw + d >= Word THEN raw + d - Word
                           ELSE IF raw + d < 0 THEN raw + d + Word
                           ELSE raw + d
    <3>1. d \in Int /\ last + d \in Nat /\ -Word < d /\ d < Word
      BY <1>1, <1>3, WordSize
    <3> QED
      BY <1>3, <3>1, Residue
  <2>2. r = (last + d) % Word
    BY <1>1, <1>2
  <2> QED
    BY <1>3, <2>1, <2>2, WordSize
<1>5. Minus(r, raw) = d /\ Minus(r, raw + 1) = d - 1
  BY <1>3, <1>4, MinusAhead
<1>6. Wraps(r) <=> raw + d >= Word
  BY <1>3, <1>4, WordSize DEF Wraps, WrapFrom, WrapTo
<1>7. Candidate(r) = t /\ r # raw
  BY <1>1, <1>3, <1>4, <1>6, WordSize DEF Candidate, CandidateBase
<1>8. t - last = d
  BY <1>1, <1>3
<1> HIDE DEF Minus, Candidate
<1> QED
  BY <1>2, <1>5, <1>7, <1>8

(* What it computes from the low word of an older one. *)
LEMMA Backward ==
  ASSUME NEW t \in Nat, TypeOK, raw = last % Word,
         t < last, last - t < Sixteenth
  PROVE  /\ t % Word \in 0 .. Word - 1
         /\ t % Word # raw
         /\ Minus(t % Word, raw) >= Half
         /\ Minus(t % Word, raw + 1) >= Half
         /\ Minus(t % Word, raw + 1) # 0
<1>1. PICK d \in 1 .. Sixteenth - 1 : t = last + (-d)
  <2>1. last - t \in 1 .. Sixteenth - 1 /\ t = last + (-(last - t))
    BY WordSize DEF TypeOK
  <2> QED
    BY <2>1
<1>2. PICK r \in 0 .. Word - 1 : r = t % Word
  BY DivMod
<1>3. raw \in 0 .. Word - 1 /\ last \in Nat
  BY DEF TypeOK
<1>4. r = IF raw - d < 0 THEN raw - d + Word ELSE raw - d
  <2>1. (last + (-d)) % Word = IF raw + (-d) >= Word THEN raw + (-d) - Word
                              ELSE IF raw + (-d) < 0 THEN raw + (-d) + Word
                              ELSE raw + (-d)
    <3>1. -d \in Int /\ last + (-d) \in Nat /\ -Word < -d /\ -d < Word
      BY <1>1, WordSize
    <3> QED
      BY <1>3, <3>1, Residue
  <2>2. r = (last + (-d)) % Word
    BY <1>1, <1>2
  <2> QED
    BY <1>3, <2>1, <2>2, WordSize
<1>5. Minus(r, raw) = Word - d /\ Minus(r, raw + 1) = Word - d - 1
  BY <1>3, <1>4, MinusBehind
<1>6. Word - d >= Half /\ Word - d - 1 >= Half /\ Word - d - 1 # 0 /\ r # raw
  BY <1>3, <1>4, WordSize DEF Half
<1> QED
  BY <1>2, <1>5, <1>6

LEMMA ZeroResidue == 0 % Word = 0
<1>1. 0 = Word * 0 + 0 /\ 0 \in 0 .. Word - 1
  BY WordAssumption
<1> QED
  BY <1>1, ModUnique

LEMMA SmallResidue ==
  ASSUME NEW t \in 0 .. Word - 1
  PROVE  t % Word = t
<1>1. t = Word * 0 + t /\ t \in 0 .. Word - 1
  BY WordSize
<1> QED
  BY <1>1, ModUnique

(* The word base carries over: the number an advance computes has the      *)
(* residue it was computed from.                                           *)
LEMMA CandidateWord ==
  ASSUME IInv, NEW r \in 0 .. Word - 1
  PROVE  /\ Candidate(r) \in Nat /\ CandidateBase(r) \in Nat
         /\ Candidate(r) % Word = r /\ CandidateBase(r) = Candidate(r) - r
<1>1. last \in Nat /\ raw = last % Word /\ base = last - raw
  BY DEF IInv, TypeOK
<1>2. PICK q \in Nat : base = Word * q
  <2> DEFINE d == last \div Word
             m == last % Word
  <2>1. d \in Nat /\ last = Word * d + m /\ m \in 0 .. Word - 1
    BY <1>1, DivMod
  <2>2. base = last - m
    BY <1>1
  <2> HIDE DEF d, m
  <2>3. base = Word * d
    BY <2>1, <2>2, WordAssumption
  <2> QED
    BY <2>1, <2>3
<1>3. CASE Wraps(r)
  <2>1. CandidateBase(r) = Word * (q + 1) /\ q + 1 \in Int
    BY <1>2, <1>3, WordAssumption DEF CandidateBase
  <2>2. Word * (q + 1) \in Nat
    BY <1>2, WordAssumption
  <2>3. Candidate(r) = Word * (q + 1) + r /\ Candidate(r) \in Int
    BY <2>1, <2>2, WordAssumption DEF Candidate
  <2>4. Candidate(r) % Word = r
    BY <2>1, <2>3, ModUnique
  <2> QED
    BY <2>1, <2>2, <2>3, <2>4
<1>4. CASE ~Wraps(r)
  <2>1. CandidateBase(r) = Word * q /\ q \in Int
    BY <1>2, <1>4, WordAssumption DEF CandidateBase
  <2>2. Word * q \in Nat
    BY <1>2, WordAssumption
  <2>3. Candidate(r) = Word * q + r /\ Candidate(r) \in Int
    BY <2>1, <2>2, WordAssumption DEF Candidate
  <2>4. Candidate(r) % Word = r
    BY <2>1, <2>3, ModUnique
  <2> QED
    BY <2>1, <2>2, <2>3, <2>4
<1> QED
  BY <1>3, <1>4

LEMMA InitIInv == Init => IInv
<1> SUFFICES ASSUME Init PROVE IInv
  OBVIOUS
<1>1. raw \in 0 .. Word - 1
  BY WordSize DEF Init
<1>2. result \in [status : Statuses, sequence : Nat, missing : Nat]
  BY DEF Init, NoResult, Statuses
<1>3. initialized = FALSE /\ state = "Initializing" /\ reason = "None" /\ reason \in Reasons
      /\ stale = FALSE
  BY DEF Init, Reasons
<1>4. /\ base \in Nat /\ last \in Nat /\ missing \in Nat /\ top \in Nat /\ lost \in Nat
      /\ saved \in Nat /\ tail \in Nat
      /\ last = top /\ raw = last % Word /\ base = last - raw /\ last = 0 /\ top = 0 /\ lost = 0
      /\ saved = 0 /\ tail = 0
  BY ZeroResidue DEF Init
<1>5. TypeOK
  BY <1>1, <1>2, <1>3, <1>4, Zenon DEF TypeOK
<1>6. Recent(0)
  BY <1>4, FeedAssumption DEF Recent
<1> QED
  BY <1>3, <1>4, <1>5, <1>6 DEF IInv

-----------------------------------------------------------------------------
(* The fields an arrival writes keep their types.                          *)
LEMMA ResultType ==
  ASSUME NEW s \in Statuses, NEW n \in Nat, NEW m \in Nat
  PROVE  /\ Result(s, n, m) \in [status : Statuses, sequence : Nat, missing : Nat]
         /\ Result(s, n, m).status = s /\ Result(s, n, m).sequence = n
         /\ Result(s, n, m).missing = m
BY DEF Result

LEMMA ArriveTypes ==
  ASSUME IInv, NEW t \in 1 .. LastTop, Arrive(t)
  PROVE  /\ TypeOK'
         /\ raw' = last' % Word /\ base' = last' - raw'
         /\ state' \in {"Valid", "Invalid"}
         /\ state' = "Valid" => initialized'
         /\ initialized' \/ state' = "Invalid"
         /\ state = "Invalid" => state' = "Invalid" /\ reason' = reason
         /\ state' = "Valid" => reason' = "None"
         /\ stale' = stale
<1>1. PICK r \in 0 .. Word - 1 : Observe(r)
  BY DivMod DEF Arrive
<1>2. /\ raw \in 0 .. Word - 1 /\ base \in Nat /\ last \in Nat /\ missing \in Nat
      /\ reason \in Reasons /\ initialized \in BOOLEAN /\ stale \in BOOLEAN
      /\ state \in {"Initializing", "Valid", "Invalid"}
      /\ state = "Valid" => initialized
      /\ initialized => state # "Initializing"
      /\ state # "Invalid" => reason = "None"
      /\ raw = last % Word /\ base = last - raw
      /\ top \in Nat /\ lost \in Nat /\ tail \in Nat
  BY DEF IInv, TypeOK
<1>3. /\ Candidate(r) \in Nat /\ CandidateBase(r) \in Nat
      /\ Candidate(r) % Word = r /\ CandidateBase(r) = Candidate(r) - r
      /\ Minus(r, raw + 1) \in Nat
  <2>1. Minus(r, raw + 1) \in Nat
    BY <1>2, WordAssumption DEF Minus
  <2> QED
    BY <2>1, CandidateWord
<1> DEFINE Numbers == /\ raw' \in 0 .. Word - 1 /\ base' \in Nat /\ last' \in Nat
                      /\ raw' = last' % Word /\ base' = last' - raw'
           Verdict == /\ state' \in {"Valid", "Invalid"}
                      /\ state' = "Valid" => initialized' /\ reason' = "None"
                      /\ initialized' \/ state' = "Invalid"
                      /\ state = "Invalid" => state' = "Invalid" /\ reason' = reason
                      /\ reason' \in Reasons /\ initialized' \in BOOLEAN
                      /\ missing' \in Nat
           Answer == result' \in [status : Statuses, sequence : Nat, missing : Nat]
<1>4. Advance(r) => Numbers
  BY <1>3 DEF Advance
<1>5. Stay => Numbers
  BY <1>2 DEF Stay
<1>6. ASSUME ObserveInvalid(r) PROVE Numbers /\ Verdict /\ Answer
  <2>1. UNCHANGED <<missing, state, reason, initialized>> /\ state = "Invalid"
    BY <1>6 DEF ObserveInvalid
  <2>2. Verdict
    BY <1>2, <2>1
  <2>3. \E n \in Nat : result' = Result("AlreadyInvalid", n, 0)
    BY <1>2, <1>3, <1>6 DEF ObserveInvalid
  <2>4. Answer
    BY <2>3, ResultType DEF Statuses
  <2>5. Numbers
    BY <1>4, <1>5, <1>6 DEF ObserveInvalid
  <2> QED
    BY <2>2, <2>4, <2>5
<1>7. ASSUME ObserveFirst(r) PROVE Numbers /\ Verdict /\ Answer
  <2>1. Verdict
    BY <1>2, <1>7 DEF ObserveFirst
  <2>2. Answer
    BY <1>7, ResultType DEF ObserveFirst, Statuses
  <2>3. r % Word = r
    BY SmallResidue
  <2>4. Numbers
    BY <1>7, <2>3 DEF ObserveFirst
  <2> QED
    BY <2>1, <2>2, <2>4
<1>8. ASSUME ObserveDuplicate(r) PROVE Numbers /\ Verdict /\ Answer
  <2>1. Verdict
    BY <1>2, <1>8 DEF ObserveDuplicate, trackerVars
  <2>2. Answer
    BY <1>2, <1>8, ResultType DEF ObserveDuplicate, Statuses
  <2>3. Numbers
    BY <1>5, <1>8 DEF ObserveDuplicate, trackerVars, Stay
  <2> QED
    BY <2>1, <2>2, <2>3
<1>9. ASSUME ObserveAccepted(r) PROVE Numbers /\ Verdict /\ Answer
  <2>1. Verdict
    BY <1>2, <1>9 DEF ObserveAccepted
  <2>2. Answer
    BY <1>3, <1>9, ResultType DEF ObserveAccepted, Statuses
  <2>3. Numbers
    BY <1>4, <1>9 DEF ObserveAccepted
  <2> QED
    BY <2>1, <2>2, <2>3
<1>10. ASSUME ObserveGap(r) PROVE Numbers /\ Verdict /\ Answer
  <2>1. /\ missing' = missing + Minus(r, raw + 1) /\ initialized' = initialized
        /\ state # "Invalid" /\ state' = "Invalid" /\ reason' = "ForwardGap"
        /\ result' = Result("Gap", Candidate(r), Minus(r, raw + 1))
        /\ Advance(r)
    BY <1>10 DEF ObserveGap, Invalidate
  <2>2. Verdict
    BY <1>2, <1>3, <2>1 DEF Reasons
  <2>3. Answer
    BY <1>3, <2>1, ResultType DEF Statuses
  <2> QED
    BY <1>4, <2>1, <2>2, <2>3
<1>11. ASSUME ObserveRegression(r) PROVE Numbers /\ Verdict /\ Answer
  <2>1. Verdict
    BY <1>2, <1>11 DEF ObserveRegression, Invalidate, Reasons
  <2>2. Answer
    BY <1>3, <1>11, ResultType DEF ObserveRegression, Statuses
  <2>3. Numbers
    BY <1>5, <1>11 DEF ObserveRegression
  <2> QED
    BY <2>1, <2>2, <2>3
<1>12. Numbers /\ Verdict /\ Answer
  BY <1>1, <1>6, <1>7, <1>8, <1>9, <1>10, <1>11 DEF Observe
<1>13. /\ top' \in Nat /\ lost' \in Nat /\ stale' = stale
       /\ saved' = result'.sequence /\ tail' \in {tail, result'.sequence}
  BY <1>2 DEF Arrive, KeepEvent
<1>14. result'.sequence \in Nat
  BY <1>12
<1>15. TypeOK'
  <2> HIDE DEF Numbers, Verdict, Answer
  <2>1. raw' \in 0 .. Word - 1 /\ base' \in Nat /\ last' \in Nat
    BY <1>12 DEF Numbers
  <2>2. /\ state' \in {"Initializing", "Valid", "Invalid"} /\ reason' \in Reasons
        /\ initialized' \in BOOLEAN /\ missing' \in Nat
    BY <1>12 DEF Verdict
  <2>3. saved' \in Nat /\ tail' \in Nat
    BY <1>2, <1>13, <1>14
  <2>4. stale' \in BOOLEAN
    BY <1>2, <1>13
  <2> QED
    BY <1>12, <1>13, <2>1, <2>2, <2>3, <2>4, Zenon DEF TypeOK, Answer
<1> QED
  BY <1>12, <1>13, <1>15

-----------------------------------------------------------------------------
(* How the number restored from the journal, and the feed's next record,   *)
(* lie relative to each other.                                             *)
LEMMA Near ==
  ASSUME IInv, NEW t \in 1 .. LastTop, Arrive(t), top > 0,
         state # "Invalid" \/ ~stale
  PROVE  /\ t \in Nat /\ top \in Nat /\ last \in Nat /\ last <= top
         /\ t - last < Sixteenth
         /\ last - t < Sixteenth
         /\ ~stale => last = top
<1>1. t \in Nat /\ top \in Nat /\ last \in Nat /\ stale \in BOOLEAN
  BY DEF IInv, TypeOK
<1>2. last <= top /\ top - last < MaxPacket
  BY <1>1, FeedAssumption DEF IInv, Recent
<1>3. top - MaxBack <= t /\ t <= top + MaxJump
  BY <1>1, FeedAssumption DEF Arrive
<1> QED
  BY <1>1, <1>2, <1>3, FeedAssumption, WordSize DEF IInv

(* The first record of all: the tracker takes its number as it is. *)
LEMMA ArriveVeryFirst ==
  ASSUME IInv, NEW t \in 1 .. LastTop, Arrive(t), top = 0,
         state # "Invalid" \/ ~stale
  PROVE  /\ last' = t /\ result'.sequence = t
         /\ result'.status \in {"First", "AlreadyInvalid"}
         /\ reason' = reason
<1>1. t \in 1 .. Half - 1 /\ Observe(t % Word)
  BY DEF Arrive
<1>2. t % Word = t /\ t \in 0 .. Word - 1
  BY <1>1, SmallResidue, WordSize DEF Half
<1>3. raw = 0 /\ base = 0 /\ (~initialized \/ state = "Invalid")
  <2>1. last = 0
    BY DEF IInv, TypeOK, Recent
  <2> QED
    BY <2>1, ZeroResidue DEF IInv, TypeOK
<1>4. CASE ObserveFirst(t)
  BY <1>2, <1>4 DEF ObserveFirst, Result
<1>5. CASE ObserveInvalid(t)
  <2>1. Minus(t, raw) = t
    BY <1>2, <1>3 DEF Minus
  <2>2. Candidate(t) = t
    BY <1>1, <1>3 DEF Candidate, CandidateBase, Wraps
  <2>3. t # raw /\ Minus(t, raw) < Half
    BY <1>1, <1>3, <2>1, WordSize DEF Half
  <2>4. /\ Advance(t) /\ result' = Result("AlreadyInvalid", Candidate(t), 0)
        /\ reason' = reason
    BY <1>5, <2>3 DEF ObserveInvalid
  <2> QED
    BY <1>1, <1>2, <2>2, <2>4 DEF Advance, Result
<1> QED
  BY <1>1, <1>2, <1>3, <1>4, <1>5
  DEF Observe, ObserveDuplicate, ObserveAccepted, ObserveGap, ObserveRegression

(* A record newer than the tracker's number. *)
LEMMA ArriveAhead ==
  ASSUME IInv, NEW t \in 1 .. LastTop, Arrive(t), top > 0,
         state # "Invalid" \/ ~stale, t > last
  PROVE  /\ last' = t /\ result'.sequence = t
         /\ \/ result'.status = "AlreadyInvalid" /\ state = "Invalid" /\ reason' = reason
            \/ result'.status = "Accepted" /\ t = last + 1 /\ reason' = reason
            \/ /\ result'.status = "Gap" /\ t > last + 1
               /\ result'.missing = t - last - 1
               /\ missing' = missing + result'.missing
<1>1. t \in Nat /\ last \in Nat /\ t - last < Sixteenth
  BY Near
<1>2. PICK r \in 0 .. Word - 1 : r = t % Word
  BY DivMod, <1>1
<1>3. /\ Candidate(r) = t /\ r # raw
      /\ Minus(r, raw) = t - last
      /\ Minus(r, raw + 1) = t - last - 1
  <2>1. TypeOK /\ raw = last % Word /\ base = last - raw
    BY DEF IInv
  <2> QED
    BY <1>1, <1>2, <2>1, Forward
<1>4. Observe(r)
  BY <1>2 DEF Arrive
<1>5. t - last < Half /\ ~(Minus(r, raw + 1) >= Half)
  BY <1>1, <1>3, WordSize DEF Half
<1>6. state = "Invalid" \/ initialized
  BY DEF IInv, TypeOK
<1>7. CASE ObserveInvalid(r)
  <2>1. /\ Advance(r) /\ result' = Result("AlreadyInvalid", Candidate(r), 0)
        /\ state = "Invalid" /\ reason' = reason
    BY <1>3, <1>5, <1>7 DEF ObserveInvalid
  <2> QED
    BY <1>3, <2>1 DEF Result, Advance
<1>8. CASE ObserveAccepted(r)
  <2>1. /\ Advance(r) /\ result' = Result("Accepted", Candidate(r), 0)
        /\ Minus(r, raw + 1) = 0 /\ reason' = reason
    BY <1>8 DEF ObserveAccepted
  <2>2. t = last + 1
    BY <1>1, <1>3, <2>1
  <2> QED
    BY <1>3, <2>1, <2>2 DEF Result, Advance
<1>9. CASE ObserveGap(r)
  <2>1. /\ Advance(r) /\ result' = Result("Gap", Candidate(r), t - last - 1)
        /\ missing' = missing + (t - last - 1) /\ t - last - 1 # 0
    BY <1>3, <1>9 DEF ObserveGap
  <2>2. t > last + 1
    BY <1>1, <2>1
  <2> QED
    BY <1>3, <2>1, <2>2 DEF Result, Advance
<1> QED
  BY <1>3, <1>4, <1>5, <1>6, <1>7, <1>8, <1>9
  DEF Observe, ObserveFirst, ObserveDuplicate, ObserveRegression

(* A record that is not newer leaves the tracker's numbers alone; on a     *)
(* Valid day it is the last one again, or the day ends.                    *)
LEMMA ArriveBehind ==
  ASSUME IInv, NEW t \in 1 .. LastTop, Arrive(t), top > 0,
         state # "Invalid" \/ ~stale, t <= last
  PROVE  /\ last' = last
         /\ \/ result'.status = "AlreadyInvalid" /\ state = "Invalid" /\ reason' = reason
            \/ result'.status = "Duplicate" /\ result'.sequence = last /\ reason' = reason
            \/ /\ result'.status = "Regression" /\ state' = "Invalid"
               /\ reason' = "Regression"
<1>1. t \in Nat /\ last \in Nat /\ last - t < Sixteenth
  BY Near
<1>2. PICK r \in 0 .. Word - 1 : r = t % Word
  BY DivMod, <1>1
<1>3. Observe(r)
  BY <1>2 DEF Arrive
<1>4. TypeOK /\ raw = last % Word /\ initialized \in BOOLEAN /\ raw \in 0 .. Word - 1
  BY DEF IInv, TypeOK
<1>5. r = raw \/ (/\ r # raw
                  /\ Minus(r, raw) >= Half
                  /\ Minus(r, raw + 1) >= Half
                  /\ Minus(r, raw + 1) # 0)
  <2>1. CASE t = last
    BY <1>2, <1>4, <2>1
  <2>2. CASE t < last
    BY <1>1, <1>2, <1>4, <2>2, Backward
  <2> QED
    BY <1>1, <2>1, <2>2
<1>6. ~(r # raw /\ Minus(r, raw) < Half) /\ ~(r # raw /\ Minus(r, raw + 1) < Half)
  <2>1. Half \in Int /\ Minus(r, raw) \in Int /\ Minus(r, raw + 1) \in Int
    BY <1>4, WordSize DEF Half, Minus
  <2> QED
    BY <1>5, <2>1
<1>7. CASE ObserveInvalid(r)
  <2>1. /\ Stay /\ result' = Result("AlreadyInvalid", last, 0)
        /\ state = "Invalid" /\ reason' = reason
    BY <1>6, <1>7 DEF ObserveInvalid
  <2> QED
    BY <2>1 DEF Result, Stay
<1>8. CASE ObserveDuplicate(r)
  BY <1>8 DEF ObserveDuplicate, Result, trackerVars
<1>9. CASE ObserveRegression(r)
  BY <1>9 DEF ObserveRegression, Result, Invalidate, Stay
<1>10. state = "Invalid" \/ initialized
  BY DEF IInv, TypeOK
<1> QED
  BY <1>3, <1>5, <1>6, <1>7, <1>8, <1>9, <1>10
  DEF Observe, ObserveFirst, ObserveAccepted, ObserveGap

-----------------------------------------------------------------------------
(* A day that is Valid after a record has missed nothing, and the journal  *)
(* is less than a packet behind.                                           *)
LEMMA ArriveValid ==
  ASSUME IInv, NEW t \in 1 .. LastTop, Arrive(t), state' # "Invalid"
  PROVE  /\ lost' = 0
         /\ Recent(last)' /\ Recent(saved)' /\ (tail # 0 => Recent(tail))'
         /\ top' > 0 /\ last' > 0 /\ saved' > 0
<1>1. /\ t \in Nat /\ top \in Nat /\ last \in Nat /\ tail \in Nat
      /\ state # "Invalid" /\ lost = 0 /\ Recent(last) /\ (tail # 0 => Recent(tail))
      /\ (top > 0 => last > 0)
  <2>1. state # "Invalid"
    BY ArriveTypes
  <2>2. state \in {"Initializing", "Valid"}
    BY <2>1 DEF IInv, TypeOK
  <2> QED
    BY <2>1, <2>2 DEF IInv, TypeOK
<1>2. /\ top' = (IF t > top THEN t ELSE top)
      /\ lost' = (IF top # 0 /\ t > top THEN lost + (t - top - 1) ELSE lost)
      /\ saved' = result'.sequence
      /\ tail' \in {tail, result'.sequence}
      /\ tail # 0 => t - tail < MaxPacket
  BY DEF Arrive, KeepEvent
<1>3. CASE top = 0
  <2>1. last' = t /\ result'.sequence = t
    BY <1>1, <1>3, ArriveVeryFirst
  <2>2. top' = t /\ lost' = 0 /\ tail' \in {0, t}
    BY <1>1, <1>2, <1>3, <2>1 DEF Recent
  <2>3. last' = t /\ saved' = t /\ top' - t < MaxPacket /\ t <= top' /\ t > 0
    BY <1>1, <1>2, <2>1, <2>2, FeedAssumption
  <2> QED
    BY <2>2, <2>3 DEF Recent
<1>4. CASE top > 0 /\ t > last
  <2>1. last' = t /\ result'.sequence = t
    BY <1>1, <1>4, ArriveAhead
  <2>2. t = last + 1
    <3>1. result'.status # "Gap"
      <4>1. PICK r \in 0 .. Word - 1 : Observe(r)
        BY DivMod DEF Arrive
      <4> QED
        BY <1>1, <4>1 DEF Observe, ObserveInvalid, ObserveFirst, ObserveDuplicate,
          ObserveAccepted, ObserveGap, ObserveRegression, Result, Invalidate
    <3> QED
      BY <1>1, <1>4, <3>1, ArriveAhead
  <2>3. lost' = 0 /\ top' >= t /\ (top' = t \/ top' = top)
    BY <1>1, <1>2, <1>4, <2>2 DEF Recent
  <2>4. top' - t < MaxPacket
    BY <1>1, <1>2, <2>2, FeedAssumption DEF Recent
  <2>5. tail # 0 => tail <= top' /\ top' - tail < MaxPacket
    BY <1>1, <1>2, <1>4, FeedAssumption DEF Recent
  <2>6. last' <= top' /\ top' - last' < MaxPacket /\ saved' = last' /\ last' > 0 /\ top' > 0
    BY <1>1, <1>2, <1>4, <2>1, <2>3, <2>4
  <2>7. tail' # 0 => tail' <= top' /\ top' - tail' < MaxPacket
    BY <1>2, <2>1, <2>5, <2>6
  <2> QED
    BY <2>3, <2>6, <2>7 DEF Recent
<1>5. CASE top > 0 /\ t <= last
  <2>1. last' = last /\ result'.sequence = last
    BY <1>1, <1>5, ArriveBehind
  <2>2. top' = top /\ lost' = 0
    BY <1>1, <1>2, <1>5 DEF Recent
  <2> QED
    BY <1>1, <1>2, <1>5, <2>1, <2>2 DEF Recent
<1> QED
  BY <1>1, <1>3, <1>4, <1>5

(* With no stale restart the number is exact, and a gap is a loss. *)
LEMMA ArriveExact ==
  ASSUME IInv, NEW t \in 1 .. LastTop, Arrive(t), ~stale
  PROVE  last' = top' /\ (reason' = "ForwardGap" => lost' > 0)
<1>1. /\ t \in Nat /\ top \in Nat /\ lost \in Nat /\ last = top
      /\ (reason = "ForwardGap" => lost > 0)
  BY DEF IInv, TypeOK
<1>2. /\ top' = (IF t > top THEN t ELSE top)
      /\ lost' = (IF top # 0 /\ t > top THEN lost + (t - top - 1) ELSE lost)
  BY DEF Arrive
<1>3. CASE top = 0
  BY <1>1, <1>2, <1>3, ArriveVeryFirst
<1>4. CASE top > 0 /\ t > last
  BY <1>1, <1>2, <1>4, ArriveAhead
<1>5. CASE top > 0 /\ t <= last
  BY <1>1, <1>2, <1>5, ArriveBehind
<1> QED
  BY <1>1, <1>3, <1>4, <1>5

LEMMA ArriveIInv ==
  ASSUME IInv, NEW t \in 1 .. LastTop, Arrive(t)
  PROVE  IInv'
<1>1. /\ TypeOK' /\ raw' = last' % Word /\ base' = last' - raw'
      /\ state' \in {"Valid", "Invalid"}
      /\ (state' = "Valid" => initialized' /\ reason' = "None")
      /\ (initialized' \/ state' = "Invalid")
      /\ stale' = stale
  BY ArriveTypes
<1>2. ~stale' => last' = top' /\ (reason' = "ForwardGap" => lost' > 0)
  BY <1>1, ArriveExact
<1>3. state' # "Invalid" =>
        /\ lost' = 0
        /\ Recent(last)' /\ Recent(saved)' /\ (tail # 0 => Recent(tail))'
        /\ top' > 0 /\ last' > 0 /\ saved' > 0
  BY ArriveValid
<1> QED
  BY <1>1, <1>2, <1>3 DEF IInv

LEMMA AppendIInv == IInv /\ AppendEvents => IInv'
BY DEF IInv, TypeOK, AppendEvents, trackerVars, Recent

LEMMA ExternalIInv == IInv /\ External => IInv'
<1> SUFFICES ASSUME IInv, External PROVE IInv'
  OBVIOUS
<1>1. /\ state' = "Invalid" /\ reason' \in {reason, "External"}
      /\ (state # "Invalid" => reason' = "External")
      /\ UNCHANGED <<raw, base, last, missing, initialized, result, tail, top, lost, stale>>
      /\ saved' \in {saved, result.sequence}
  BY DEF External, Invalidate
<1>2. result.sequence \in Nat
  BY DEF IInv, TypeOK
<1>3. TypeOK'
  BY <1>1, <1>2 DEF IInv, TypeOK, Reasons
<1> QED
  BY <1>1, <1>3 DEF IInv

LEMMA RestartIInv == IInv /\ Restart => IInv'
<1> SUFFICES ASSUME IInv, Restart PROVE IInv'
  OBVIOUS
<1>1. /\ UNCHANGED <<saved, top, lost>> /\ missing' = 0 /\ result' = NoResult /\ tail' = 0
      /\ stale' = (stale \/ last' # last)
  BY DEF Restart
<1>2. /\ NoResult \in [status : Statuses, sequence : Nat, missing : Nat]
      /\ saved \in Nat /\ top \in Nat /\ lost \in Nat /\ stale \in BOOLEAN /\ last \in Nat
      /\ reason \in Reasons /\ state \in {"Initializing", "Valid", "Invalid"}
  BY DEF NoResult, Statuses, IInv, TypeOK
<1>3. ~stale' => ~stale /\ last' = last /\ last = top
  BY <1>1, <1>2 DEF IInv
<1>4. CASE Reset /\ saved = 0 /\ state # "Invalid"
  <2>1. /\ raw' = 0 /\ base' = 0 /\ last' = 0 /\ state' = "Initializing"
        /\ reason' = "None" /\ initialized' = FALSE
    BY <1>4 DEF Reset
  <2>2. 0 \in 0 .. Word - 1
    BY WordSize
  <2>3. TypeOK'
    BY <1>1, <1>2, <2>1, <2>2, Zenon DEF TypeOK, Reasons
  <2>4. lost = 0 /\ Recent(saved) /\ top = 0
    BY <1>2, <1>4 DEF IInv, TypeOK
  <2> QED
    BY <1>1, <1>2, <1>3, <1>4, <2>1, <2>3, <2>4, ZeroResidue DEF IInv, Recent
<1>5. ASSUME NEW s, NEW why, Restore(s, why), why \in Reasons,
             \/ s = "Invalid" /\ (why = "UncleanRestart" \/ (state = "Invalid" /\ why = reason))
             \/ s = state /\ state = "Valid" /\ why = "None"
      PROVE  IInv'
  <2>1. /\ raw' = saved % Word /\ base' = saved - (saved % Word) /\ last' = saved
        /\ state' = s /\ reason' = why /\ initialized' = TRUE
    BY <1>5 DEF Restore
  <2>2. raw' \in 0 .. Word - 1 /\ base' \in Nat
    <3>1. saved % Word \in 0 .. Word - 1
      BY <1>2, DivMod
    <3>2. saved = Word * (saved \div Word) + (saved % Word) /\ saved \div Word \in Nat
      BY <1>2, DivMod
    <3>3. Word * (saved \div Word) \in Nat
      BY <3>2, WordAssumption
    <3> QED
      BY <2>1, <3>1, <3>2, <3>3
  <2>3. s \in {"Initializing", "Valid", "Invalid"}
    BY <1>5
  <2>4. TypeOK'
    BY <1>1, <1>2, <1>5, <2>1, <2>2, <2>3 DEF TypeOK
  <2>5. raw' = last' % Word /\ base' = last' - raw'
    BY <2>1
  <2>6. state' = "Valid" => /\ top' > 0 /\ last' > 0 /\ saved' > 0 /\ lost' = 0
                            /\ Recent(saved)' /\ Recent(last)' /\ reason' = "None"
    BY <1>1, <1>5, <2>1 DEF IInv, Recent
  <2>7. reason' = "ForwardGap" /\ ~stale' => lost' > 0
    BY <1>1, <1>3, <1>5, <2>1 DEF IInv
  <2> QED
    BY <1>1, <1>3, <1>5, <2>1, <2>4, <2>5, <2>6, <2>7 DEF IInv
<1>6. CASE CleanRestart
  <2>1. CASE saved = 0 /\ state # "Invalid"
    BY <1>4, <1>6, <2>1 DEF CleanRestart
  <2>2. CASE state = "Invalid"
    BY <1>2, <1>5, <1>6, <2>2 DEF CleanRestart
  <2>3. CASE state # "Invalid" /\ saved # 0
    <3>1. state = "Valid"
      <4>1. state = "Initializing" => saved = 0
        BY <1>2, <2>3 DEF IInv, Recent
      <4> QED
        BY <1>2, <2>3, <4>1
    <3> QED
      BY <1>5, <1>6, <2>3, <3>1 DEF CleanRestart, Reasons
  <2> QED
    BY <2>1, <2>2, <2>3
<1>7. CASE Crash
  BY <1>5, <1>7 DEF Crash, Reasons
<1> QED
  BY <1>6, <1>7 DEF Restart

LEMMA StutterIInv == IInv /\ UNCHANGED vars => IInv'
BY DEF IInv, TypeOK, vars, Recent

(* The invariant holds in every state of every behaviour. *)
THEOREM Invariance == Spec => []IInv
<1>1. IInv /\ [Next]_vars => IInv'
  BY ArriveIInv, AppendIInv, ExternalIInv, RestartIInv, StutterIInv DEF Next
<1> QED
  BY <1>1, InitIInv, PTL DEF Spec

(* Every variable of the tracker keeps its type, for every word size. *)
THEOREM TypeCorrect == Spec => []TypeOK
<1>1. IInv => TypeOK
  BY DEF IInv
<1> QED
  BY <1>1, Invariance, PTL

(* A day still called Valid has every record up to the newest one, for     *)
(* every word size and every feed within FeedAssumption.                   *)
THEOREM NoLossIsSilent == Spec => []NoSilentLoss
<1>1. IInv => NoSilentLoss
  BY DEF IInv, NoSilentLoss
<1> QED
  BY <1>1, Invariance, PTL

(* The 64-bit number rebuilt from the low words is the true one, until a   *)
(* restart goes back to an older number.                                   *)
THEOREM NumbersAreExact == Spec => []RebuiltExactly
<1>1. IInv => RebuiltExactly
  BY DEF IInv, RebuiltExactly
<1> QED
  BY <1>1, Invariance, PTL

(* Without such a restart no day is condemned for a gap that lost nothing. *)
THEOREM GapsAreLosses == Spec => []NoFalseGap
<1>1. IInv => NoFalseGap
  BY DEF IInv, NoFalseGap
<1> QED
  BY <1>1, Invariance, PTL

(* A record never seen is never taken for a duplicate. *)
THEOREM NewRecordsAreKept == Spec => NewRecordKept
<1>1. IInv /\ [Next]_vars =>
        [top' > top /\ (stale => state # "Invalid")
           => result'.status # "Duplicate" /\ result'.sequence = top']_vars
  <2> SUFFICES ASSUME IInv, Next, top' > top, stale => state # "Invalid"
               PROVE  result'.status # "Duplicate" /\ result'.sequence = top'
    BY DEF vars
  <2>1. top \in Nat /\ stale \in BOOLEAN
    BY DEF IInv, TypeOK
  <2>2. PICK t \in 1 .. LastTop : Arrive(t)
    BY <2>1 DEF Next, AppendEvents, External, Restart
  <2>3. top' = t /\ t > top
    BY <2>1, <2>2 DEF Arrive
  <2>4. CASE top = 0
    BY <2>1, <2>2, <2>3, <2>4, ArriveVeryFirst
  <2>5. CASE top > 0
    <3>1. t > last
      BY <2>1, <2>2, <2>3, <2>5, Near
    <3> QED
      BY <2>1, <2>2, <2>3, <2>5, <3>1, ArriveAhead
  <2> QED
    BY <2>1, <2>4, <2>5
<1> QED
  BY <1>1, Invariance, PTL DEF Spec, NewRecordKept

(* A gap is counted as exactly the records it passes over. *)
THEOREM GapsAreMeasured == Spec => GapMeasured
<1>1. IInv /\ [Next]_vars =>
        [result'.status = "Gap" /\ top' > top /\ ~stale =>
           result'.missing = top' - top - 1 /\ missing' = missing + result'.missing]_vars
  <2> SUFFICES ASSUME IInv, Next, top' > top, result'.status = "Gap", ~stale
               PROVE  /\ result'.missing = top' - top - 1
                      /\ missing' = missing + result'.missing
    BY DEF vars
  <2>1. top \in Nat /\ last = top
    BY DEF IInv, TypeOK
  <2>2. PICK t \in 1 .. LastTop : Arrive(t)
    BY <2>1 DEF Next, AppendEvents, External, Restart
  <2>3. top' = t /\ t > top
    BY <2>1, <2>2 DEF Arrive
  <2>4. top # 0
    BY <2>2, ArriveVeryFirst
  <2> QED
    BY <2>1, <2>2, <2>3, <2>4, ArriveAhead
<1> QED
  BY <1>1, Invariance, PTL DEF Spec, GapMeasured

(* An Invalid day stays Invalid, for its first reason or for the crash. *)
THEOREM InvalidDaysStay == Spec => InvalidIsFinal
<1>1. IInv /\ [Next]_vars =>
        [state = "Invalid" =>
           state' = "Invalid" /\ reason' \in {reason, "UncleanRestart"}]_vars
  <2> SUFFICES ASSUME IInv, Next, state = "Invalid"
               PROVE  state' = "Invalid" /\ reason' \in {reason, "UncleanRestart"}
    BY DEF vars
  <2>1. ASSUME NEW t \in 1 .. LastTop, Arrive(t)
        PROVE  state' = "Invalid" /\ reason' \in {reason, "UncleanRestart"}
    BY <2>1, ArriveTypes
  <2>2. CASE AppendEvents
    BY <2>2 DEF AppendEvents, trackerVars
  <2>3. CASE External
    BY <2>3 DEF External, Invalidate
  <2>4. CASE Restart
    BY <2>4 DEF Restart, CleanRestart, Crash, Restore
  <2> QED
    BY <2>1, <2>2, <2>3, <2>4 DEF Next
<1> QED
  BY <1>1, Invariance, PTL DEF Spec, InvalidIsFinal
=============================================================================
