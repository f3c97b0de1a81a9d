---------------------------- MODULE FeedSequence ----------------------------
(***************************************************************************)
(* FeedSequenceTracker of modules/deepwin_guoxin/md/SZERecoverable.cpp:    *)
(* the exchange numbers its records 1, 2, 3, ... but sends only the low    *)
(* 32 bits; the tracker rebuilds the 64-bit number, suppresses duplicates  *)
(* and turns the day Invalid at the first record that is missing or late.  *)
(* With it, the number the capture engine leaves in the journal and        *)
(* restores the tracker from when it starts again (MDEngineSZE.cpp).       *)
(*                                                                         *)
(* The feed is the environment: record t is the one with true number t,    *)
(* and the multicast may lose, repeat and reorder records.  Word stands    *)
(* for 2^32, and the code's three literals are fractions of it.            *)
(***************************************************************************)
EXTENDS Integers

CONSTANTS Word,      \* 2^32
          MaxJump,   \* the feed: at most this far ahead of the newest record
          MaxBack,   \* the feed: at most this far behind it
          MaxPacket, \* the numbers of one packet's records span less than this
          LastTop    \* bound: true numbers stay below it

ASSUME WordAssumption == Word \in Nat \ {0} /\ Word % 16 = 0
Sixteenth == Word \div 16
Half == 8 * Sixteenth           \* 0x80000000
WrapFrom == 15 * Sixteenth      \* 0xf0000000
WrapTo == Sixteenth             \* 0x10000000

(* A sixteenth of the word is 2^28 records: no outage or reordering of a   *)
(* trading day comes near it.                                              *)
ASSUME FeedAssumption == /\ MaxJump \in Nat /\ MaxPacket \in Nat \ {0}
                         /\ MaxJump + MaxPacket < Sixteenth
                         /\ MaxBack \in Nat /\ MaxBack < Sixteenth
ASSUME LastTopAssumption == LastTop \in Nat

VARIABLES raw,          \* last_raw_sequence_
          base,         \* wrap_base_
          last,         \* last_sequence_
          missing,      \* missing_count_
          state,        \* state_
          reason,       \* invalid_reason_
          initialized,  \* initialized_
          result,       \* the SequenceResult of the last observe()
          saved,        \* JournalSuperblock::last_feed_sequence
          tail,         \* number of the last event of the packet, 0 if none
          top,          \* history: the newest record that arrived
          lost,         \* history: the records passed over, now or while down
          stale         \* history: a restart went back to an older number

trackerVars == <<raw, base, last, missing, state, reason, initialized>>
journalVars == <<saved, tail>>
vars == <<raw, base, last, missing, state, reason, initialized, result, saved,
          tail, top, lost, stale>>

Reasons == {"None", "ForwardGap", "Regression", "External", "UncleanRestart"}
NoResult == [status |-> "None", sequence |-> 0, missing |-> 0]
Result(s, n, m) == [status |-> s, sequence |-> n, missing |-> m]

Init == /\ raw = 0 /\ base = 0 /\ last = 0 /\ missing = 0
        /\ state = "Initializing" /\ reason = "None"
        /\ initialized = FALSE
        /\ result = NoResult
        /\ saved = 0 /\ tail = 0
        /\ top = 0 /\ lost = 0 /\ stale = FALSE

MinusSigned(a, b) == a - b

(* Unsigned subtraction of two raw numbers. *)
Minus(a, b) == (a - b) % Word

NeverWraps(r) == FALSE
Wraps(r) == r < raw /\ raw > WrapFrom /\ r < WrapTo
CandidateBase(r) == IF Wraps(r) THEN base + Word ELSE base
Candidate(r) == CandidateBase(r) + r

Advance(r) == raw' = r /\ base' = CandidateBase(r) /\ last' = Candidate(r)
Stay == UNCHANGED <<raw, base, last>>

(* invalidate(): the first reason sticks. *)
Invalidate(why) == /\ state' = "Invalid"
                   /\ reason' = IF state = "Invalid" THEN reason ELSE why

ObserveInvalid(r) ==
  /\ state = "Invalid"
  /\ IF r # raw /\ Minus(r, raw) < Half
       THEN Advance(r) /\ result' = Result("AlreadyInvalid", Candidate(r), 0)
       ELSE Stay /\ result' = Result("AlreadyInvalid", last, 0)
  /\ UNCHANGED <<missing, state, reason, initialized>>

ObserveFirst(r) ==
  /\ state # "Invalid" /\ ~initialized
  /\ initialized' = TRUE
  /\ raw' = r /\ last' = r /\ base' = 0
  /\ state' = "Valid"
  /\ result' = Result("First", r, 0)
  /\ UNCHANGED <<missing, reason>>

ObserveDuplicate(r) ==
  /\ state # "Invalid" /\ initialized
  /\ r = raw
  /\ result' = Result("Duplicate", last, 0)
  /\ UNCHANGED trackerVars

ObserveAccepted(r) ==
  /\ state # "Invalid" /\ initialized
  /\ r # raw
  /\ Minus(r, raw + 1) = 0
  /\ Advance(r)
  /\ result' = Result("Accepted", Candidate(r), 0)
  /\ UNCHANGED <<missing, state, reason, initialized>>

ObserveGapKeepsValid(r) ==
  LET delta == Minus(r, raw + 1) IN
  /\ state # "Invalid" /\ initialized /\ r # raw /\ delta # 0 /\ delta < Half
  /\ Advance(r) /\ missing' = missing + delta
  /\ result' = Result("Gap", Candidate(r), delta)
  /\ UNCHANGED <<initialized, state, reason>>

ObserveGapFromLast(r) ==
  LET delta == Minus(r, raw) IN
  /\ state # "Invalid" /\ initialized /\ r # raw /\ delta # 0 /\ delta < Half
  /\ Advance(r) /\ missing' = missing + delta
  /\ Invalidate("ForwardGap")
  /\ result' = Result("Gap", Candidate(r), delta)
  /\ UNCHANGED initialized

ObserveGap(r) ==
  LET delta == Minus(r, raw + 1) IN
  /\ state # "Invalid" /\ initialized
  /\ r # raw
  /\ delta # 0 /\ delta < Half
  /\ Advance(r)
  /\ missing' = missing + delta
  /\ Invalidate("ForwardGap")
  /\ result' = Result("Gap", Candidate(r), delta)
  /\ UNCHANGED initialized

ObserveRegression(r) ==
  /\ state # "Invalid" /\ initialized
  /\ r # raw
  /\ Minus(r, raw + 1) >= Half
  /\ Stay
  /\ Invalidate("Regression")
  /\ result' = Result("Regression", Candidate(r), 0)
  /\ UNCHANGED <<missing, initialized>>

Observe(r) == \/ ObserveInvalid(r)
              \/ ObserveFirst(r)
              \/ ObserveDuplicate(r)
              \/ ObserveAccepted(r)
              \/ ObserveGap(r)
              \/ ObserveRegression(r)

(* The event of a duplicate is dropped; of the others, orders and          *)
(* executions are kept for the end of the packet, heartbeats are not.      *)
KeepEvent == tail' \in IF result'.status = "Duplicate" THEN {tail}
                                                       ELSE {tail, result'.sequence}

(* observe_recovery_sequence() on record t.  The feed begins at 1, and the *)
(* first record heard is in the first half of the first word.              *)
Arrive(t) ==
  /\ t <= LastTop
  /\ IF top = 0 THEN t \in 1 .. Half - 1
                ELSE t \in top - MaxBack .. top + MaxJump /\ t > 0
  /\ tail # 0 => t - tail < MaxPacket
  /\ Observe(t % Word)
  /\ saved' = result'.sequence
  /\ KeepEvent
  /\ top' = IF t > top THEN t ELSE top
  /\ lost' = IF top # 0 /\ t > top THEN lost + (t - top - 1) ELSE lost
  /\ UNCHANGED stale

(* The events of the packet are appended to the journal, and each append   *)
(* records its own event's number again.                                   *)
AppendEvents == /\ tail # 0
                /\ saved' = tail /\ tail' = 0
                /\ UNCHANGED <<trackerVars, result, top, lost, stale>>

(* A malformed record, a wrong trading day, a full ring: invalidate() for  *)
(* a reason that is not a sequence number, the last number published again.*)
External == /\ Invalidate("External")
            /\ saved' = IF result.status = "None" THEN saved ELSE result.sequence
            /\ UNCHANGED <<raw, base, last, missing, initialized, result, tail,
                           top, lost, stale>>

(* The capture engine starts again: initialize_recovery() resets the       *)
(* tracker when no number was ever recorded, and otherwise restores the    *)
(* recorded number and state; a crash makes the state Invalid.  The        *)
(* records sent meanwhile are the next Arrive's jump.                      *)
Reset == /\ raw' = 0 /\ base' = 0 /\ last' = 0
         /\ state' = "Initializing" /\ reason' = "None"
         /\ initialized' = FALSE

RestoreForgets(s, why) == Reset

Restore(s, why) == /\ raw' = saved % Word
                   /\ base' = saved - (saved % Word)
                   /\ last' = saved
                   /\ state' = s
                   /\ reason' = why
                   /\ initialized' = TRUE

CleanRestart == /\ tail = 0
                /\ IF saved = 0 /\ state # "Invalid"
                     THEN Reset
                     ELSE Restore(state, IF state = "Invalid" THEN reason ELSE "None")

Crash == Restore("Invalid", "UncleanRestart")

Restart == /\ CleanRestart \/ Crash
           /\ missing' = 0 /\ result' = NoResult /\ tail' = 0
           /\ stale' = (stale \/ last' # last)
           /\ UNCHANGED <<saved, top, lost>>

Next == \/ \E t \in 1 .. LastTop : Arrive(t)
        \/ AppendEvents
        \/ External
        \/ Restart

Spec == Init /\ [][Next]_vars

-----------------------------------------------------------------------------
Statuses == {"None", "First", "Accepted", "Duplicate", "Gap", "Regression",
             "AlreadyInvalid"}

TypeOK ==
  /\ raw \in 0 .. Word - 1
  /\ base \in Nat /\ last \in Nat /\ missing \in Nat
  /\ state \in {"Initializing", "Valid", "Invalid"}
  /\ reason \in Reasons
  /\ initialized \in BOOLEAN
  /\ result \in [status : Statuses, sequence : Nat, missing : Nat]
  /\ saved \in Nat /\ tail \in Nat
  /\ top \in Nat /\ lost \in Nat /\ stale \in BOOLEAN

(* A day still called Valid has every record up to the newest one: no loss *)
(* goes unnoticed, across wraps of the raw number and clean restarts alike *)
(* (SZERecoverable.cpp:336-366).                                           *)
NoSilentLoss == state = "Valid" => lost = 0 /\ initialized

(* The rebuilt number is the true number of the newest record that         *)
(* arrived, 0 before any, whether the day is Valid or not: late and        *)
(* repeated records do not move it, and a wrap of the 32-bit number        *)
(* carries into the high half (SZERecoverable.cpp:301-366, 286-288).  The  *)
(* exception: a restart that finds an older number in the journal.         *)
RebuiltExactly == ~stale => last = top

(* A record that was never seen is never taken for a duplicate, and its    *)
(* event gets its own number, on a Valid day even after such a restart     *)
(* (SZERecoverable.cpp:328-352).                                           *)
NewRecordKept ==
  [][top' > top /\ (stale => state # "Invalid")
       => result'.status # "Duplicate" /\ result'.sequence = top']_vars

(* A gap is counted as exactly the records it passes over                  *)
(* (SZERecoverable.cpp:354-357).                                           *)
GapMeasured ==
  [][result'.status = "Gap" /\ top' > top /\ ~stale =>
       result'.missing = top' - top - 1 /\ missing' = missing + result'.missing]_vars

(* A day is condemned for a gap only when a record was lost, or a restart  *)
(* went back to an older number: append() records the number of an event   *)
(* after observe() recorded those of the later records of its packet       *)
(* (SZERecoverable.cpp:718-720, MDEngineSZE.cpp:1241).                     *)
NoFalseGap == reason = "ForwardGap" /\ ~stale => lost > 0

(* Invalid is for the rest of the day, with the first reason, through      *)
(* clean restarts (SZERecoverable.cpp:369-375, 289-290).                   *)
InvalidIsFinal ==
  [][state = "Invalid" =>
       state' = "Invalid" /\ reason' \in {reason, "UncleanRestart"}]_vars
-----------------------------------------------------------------------------
(* The invariant FeedSequenceProofs shows to be inductive.  A day that is  *)
(* not Invalid has missed nothing, and the number in the journal is less   *)
(* than a packet behind.                                                   *)
Recent(n) == n <= top /\ top - n < MaxPacket

IInv ==
  /\ TypeOK
  /\ raw = last % Word
  /\ base = last - raw
  /\ ~stale => last = top
  /\ state = "Initializing" => ~initialized /\ top = 0
  /\ state = "Valid" => initialized /\ top > 0 /\ last > 0 /\ saved > 0
  /\ state # "Invalid" =>
       /\ lost = 0
       /\ Recent(last) /\ Recent(saved)
       /\ tail # 0 => Recent(tail)
       /\ reason = "None"
  /\ reason = "ForwardGap" /\ ~stale => lost > 0
  /\ initialized \/ last = 0 \/ state = "Invalid"
=============================================================================
