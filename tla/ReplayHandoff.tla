----------------------------- MODULE ReplayHandoff -----------------------------
(***************************************************************************)
(* ReplayHandoffConsumer of modules/deepwin_guoxin/md/SZERecoverable.cpp   *)
(* and the strategy thread that calls it                                   *)
(* (StrategyBase::sze_recovery_consumer_loop): the consumer replays the    *)
(* journal from its first event, goes over to the ring when it has caught  *)
(* up, comes back to the journal when the ring laps it, and ends when the  *)
(* feed is Invalid or the capture process is gone.  The capture process    *)
(* appends, publishes, gives the journal up, invalidates the day, leaves,  *)
(* dies and starts again while the consumer is anywhere inside next().     *)
(*                                                                         *)
(* Journal and ring are what the other modules show them to be: the        *)
(* journal the events 1 .. jlen, the ring an EventLog of which read()      *)
(* delivers an event exactly or reports it lost.  Simplifications:         *)
(*  - event n is n, and has the id n in the journal.  An engine whose       *)
(*    journal failed is not started again here: it would give ids a second *)
(*    time (Capture);                                                      *)
(*  - each login is a process of its own, no process id is used twice, and *)
(*    the ring file stays until the next one replaces it;                  *)
(*  - a strategy that is killed without close() is left out.               *)
(***************************************************************************)
EXTENDS Integers, Sequences

CONSTANTS Capacity,   \* slots of the ring
          MaxEvents,  \* bound: events of the day
          MaxLogins,  \* bound: how often the capture process starts
          MaxOpens    \* bound: how often the strategy opens its consumer

ASSUME CapacityAssumption == Capacity \in Nat /\ Capacity >= 2
ASSUME BoundAssumption == MaxEvents \in Nat /\ MaxLogins \in Nat /\ MaxOpens \in Nat

VARIABLES
  jlen, jstate, clean,  \* the journal: its last event, Invalid?, clean?
  latest, first,        \* the ring: its newest and its oldest event
  invalid, ready,       \*   continuity_state is Invalid; readiness_state
  ahead,                \*   by how much its ids are ahead of its events
  alive, degraded,      \* the capture process runs; its journal failed
  wpc, wid, logins,     \* where its worker is, and the event in hand
  pc,                   \* where the consumer is inside next() or open()
  mine,                 \* the ring it attached is the current one
  mode, next,           \* mode_ and next_event_id_
  rnext,                \* the journal reader's own next_event_id_
  want, then,           \* the readiness to store, and where to go then
  status, ev,           \* what next() answers, and the event it returns
  live,                 \* the strategy's flags say: replayed, valid, live
  taken, opens          \* history: the events processed since open()

journal == <<jlen, jstate, clean>>
ring == <<latest, first, invalid, ahead>>
process == <<alive, degraded, wpc, wid, logins>>
consumer == <<pc, mine, mode, next, rnext, want, then, status, ev, live, taken, opens>>
vars == <<journal, ring, ready, process, consumer>>

Init ==
  /\ jlen = 0 /\ jstate = "Valid" /\ clean = TRUE
  /\ latest = 0 /\ first = 0 /\ invalid = FALSE /\ ahead = 0
  /\ ready = "NotReady"
  /\ alive = FALSE /\ degraded = FALSE /\ wpc = "idle" /\ wid = 0 /\ logins = 0
  /\ pc = "closed" /\ mine = FALSE /\ mode = "Invalid" /\ next = 0 /\ rnext = 0
  /\ want = "NotReady" /\ then = "idle" /\ status = "None" /\ ev = 0
  /\ live = FALSE /\ taken = <<>> /\ opens = 0

-----------------------------------------------------------------------------
(* The capture process (see Capture for its threads).                      *)

WorkerGoto(label) == alive /\ wpc' = label

(* login(): the ring file is replaced, and told the journal's state later. *)
Login ==
  /\ ~alive /\ ~degraded /\ logins < MaxLogins
  /\ alive' = TRUE /\ logins' = logins + 1
  /\ wpc' = "starting" /\ wid' = jlen
  /\ jstate' = IF clean THEN jstate ELSE "Invalid"
  /\ clean' = FALSE
  /\ latest' = 0 /\ first' = 0 /\ invalid' = FALSE /\ ahead' = 0 /\ ready' = "NotReady"
  /\ mine' = FALSE
  /\ UNCHANGED <<jlen, degraded, pc, mode, next, rnext, want, then, status, ev,
                 live, taken, opens>>

PublishInitial ==
  /\ wpc = "starting" /\ WorkerGoto("idle")
  /\ invalid' = (jstate = "Invalid")
  /\ ready' = "NotReady"
  /\ UNCHANGED <<journal, latest, first, ahead, alive, degraded, wid, logins, consumer>>

AppendEvent ==
  /\ wpc = "idle" /\ ~degraded /\ wid < MaxEvents
  /\ WorkerGoto("publish")
  /\ jlen' = jlen + 1 /\ wid' = jlen + 1
  /\ UNCHANGED <<jstate, clean, ring, ready, alive, degraded, logins, consumer>>

(* Without a journal the id counts on. *)
CountOn ==
  /\ wpc = "idle" /\ degraded /\ wid < MaxEvents
  /\ WorkerGoto("publish")
  /\ wid' = wid + 1
  /\ UNCHANGED <<journal, ring, ready, alive, degraded, logins, consumer>>

(* The journal fails.  Between append() and publish() that gives the event *)
(* in hand another id, which only an empty ring accepts.                   *)
Degrade ==
  /\ alive /\ wpc \in {"idle", "publish"} /\ ~degraded
  /\ degraded' = TRUE
  /\ wid' = IF wpc = "publish" THEN wid + 1 ELSE wid
  /\ ahead' = IF wpc = "publish" /\ latest = 0 THEN 1 ELSE 0
  /\ UNCHANGED <<journal, latest, first, invalid, ready, alive, wpc, logins, consumer>>

Publish ==
  /\ wpc = "publish" /\ (latest = 0 \/ wid = latest + 1)
  /\ WorkerGoto("idle")
  /\ latest' = wid
  /\ first' = IF latest = 0 THEN wid ELSE first
  /\ UNCHANGED <<journal, invalid, ahead, ready, alive, degraded, wid, logins, consumer>>

(* mark_recovery_invalid(): the ring refused an id, or the feed broke.     *)
TellInvalid ==
  /\ WorkerGoto("notReady")
  /\ jstate' = "Invalid" /\ invalid' = TRUE
  /\ UNCHANGED <<jlen, clean, latest, first, ahead, ready, alive, degraded, wid,
                 logins, consumer>>

Refuse == wpc = "publish" /\ latest # 0 /\ wid # latest + 1 /\ TellInvalid

MarkInvalid == wpc = "idle" /\ TellInvalid

StoreNotReady ==
  /\ wpc = "notReady" /\ WorkerGoto("idle")
  /\ ready' = "NotReady"
  /\ UNCHANGED <<journal, ring, alive, degraded, wid, logins, consumer>>

(* logout(): publish_state(..., NotReady), close(true), and the process    *)
(* ends.                                                                   *)
Logout ==
  /\ wpc = "idle" /\ WorkerGoto("leaving")
  /\ ready' = "NotReady" /\ clean' = TRUE
  /\ UNCHANGED <<jlen, jstate, ring, alive, degraded, wid, logins, consumer>>

Exit ==
  /\ alive /\ alive' = FALSE
  /\ UNCHANGED <<journal, ring, ready, degraded, wpc, wid, logins, consumer>>

-----------------------------------------------------------------------------
(* The consumer.  set_readiness(): the continuity is loaded, then the      *)
(* readiness stored; the capture process may come in between.              *)

capture == <<journal, ring, process>>
Invalid == mine /\ invalid
Broken == Invalid \/ ~(mine /\ alive)

SetReadiness(r, label) == pc' = "load" /\ want' = r /\ then' = label

LoadContinuity ==
  /\ pc = "load" /\ pc' = "store"
  /\ want' = IF Invalid THEN "NotReady" ELSE want
  /\ UNCHANGED <<capture, ready, mine, mode, next, rnext, then, status, ev, live,
                 taken, opens>>

StoreReadiness ==
  /\ pc = "store" /\ pc' = then
  /\ ready' = IF mine THEN want ELSE ready
  /\ want' = "NotReady" /\ then' = "idle"
  /\ UNCHANGED <<capture, mine, mode, next, rnext, status, ev, live, taken, opens>>

Open ==
  /\ pc = "closed" /\ logins > 0 /\ opens < MaxOpens
  /\ opens' = opens + 1
  /\ mine' = TRUE
  /\ mode' = IF invalid THEN "Invalid" ELSE "Journal"
  /\ SetReadiness(IF invalid THEN "NotReady" ELSE "Replaying", "idle")
  /\ next' = 1 /\ rnext' = 1
  /\ UNCHANGED <<capture, ready, status, ev, live, taken>>

(* next() *)
NextUnchanged == UNCHANGED <<capture, ready, mine, live, taken, opens>>

Answer(s) == pc' = "return" /\ status' = s /\ UNCHANGED <<want, then>>

InvalidateQuietly == /\ mode' = "Invalid" /\ Answer("Invalid")
                     /\ UNCHANGED <<next, rnext, ev>>

Invalidate == /\ mode' = "Invalid"
              /\ SetReadiness("NotReady", "return")
              /\ status' = "Invalid"
              /\ UNCHANGED <<next, rnext, ev>>

CallWhenInvalid ==
  /\ pc = "idle" /\ mode = "Invalid"
  /\ Answer("Invalid")
  /\ UNCHANGED <<mode, next, rnext, ev>> /\ NextUnchanged

CallWhenBroken ==
  /\ pc = "idle" /\ mode # "Invalid" /\ Broken
  /\ Invalidate /\ NextUnchanged

Call ==
  /\ pc = "idle" /\ mode # "Invalid" /\ ~Broken
  /\ pc' = IF mode = "Journal" THEN "journal" ELSE "ring"
  /\ UNCHANGED <<mode, next, rnext, want, then, status, ev>> /\ NextUnchanged

(* The journal: its next event, nothing yet, or an answer that ends the    *)
(* consumer (damage, or a segment caught half made: see Journal).          *)
ReadJournal ==
  /\ pc = "journal" /\ rnext <= jlen
  /\ ev' = rnext
  /\ rnext' = rnext + 1 /\ next' = rnext + 1
  /\ Answer("Event")
  /\ UNCHANGED mode /\ NextUnchanged

JournalDrained ==
  /\ pc = "journal" /\ rnext > jlen
  /\ pc' = "tail"
  /\ UNCHANGED <<mode, next, rnext, want, then, status, ev>> /\ NextUnchanged

JournalFails == pc = "journal" /\ Invalidate /\ NextUnchanged

HandoffWhenDrained ==
  /\ pc = "tail"
  /\ mode' = "Handoff"
  /\ SetReadiness("Handoff", "ring")
  /\ UNCHANGED <<next, rnext, status, ev>> /\ NextUnchanged

Handoff ==
  /\ pc = "tail" /\ next = latest + 1
  /\ mode' = "Handoff"
  /\ SetReadiness("Handoff", "ring")
  /\ UNCHANGED <<next, rnext, status, ev>> /\ NextUnchanged

NotYet ==
  /\ pc = "tail" /\ next # latest + 1
  /\ Answer("WouldBlock")
  /\ UNCHANGED <<mode, next, rnext, ev>> /\ NextUnchanged

-----------------------------------------------------------------------------
(* read_ring().  A consumer of a replaced ring sees its process gone.      *)

RingBroken == pc = "ring" /\ Broken /\ Invalidate /\ NextUnchanged

RingNotReadyAdvances ==
  /\ pc = "ring" /\ ~Broken /\ next > latest
  /\ next' = next + 1
  /\ Answer("WouldBlock")
  /\ UNCHANGED <<mode, rnext, ev>> /\ NextUnchanged

RingNotReady ==
  /\ pc = "ring" /\ ~Broken /\ next > latest
  /\ Answer("WouldBlock")
  /\ UNCHANGED <<mode, next, rnext, ev>> /\ NextUnchanged

Held(n) == first <= n /\ n <= latest /\ latest - n < Capacity

RingTake ==
  /\ pc = "ring" /\ ~Broken /\ Held(next)
  /\ ev' = next - ahead /\ next' = next + 1
  /\ IF mode = "Handoff"
       THEN /\ mode' = "Live"
            /\ SetReadiness("LiveReady", "return") /\ status' = "Event"
       ELSE Answer("Event") /\ UNCHANGED mode
  /\ UNCHANGED rnext /\ NextUnchanged

(* The event is gone, or its slot is being overwritten. *)
Lost(n) == n <= latest /\ (n < first \/ n + Capacity <= latest + 1)

(* seek(): the event, or the place behind the last one, is in the journal. *)
SeekFinds(n) == n <= jlen + 1

RingOverrunRetries ==
  /\ pc = "ring" /\ ~Broken /\ Lost(next)
  /\ Answer("WouldBlock")
  /\ UNCHANGED <<mode, next, rnext, ev>> /\ NextUnchanged

RingOverrun ==
  /\ pc = "ring" /\ ~Broken /\ Lost(next) /\ SeekFinds(next)
  /\ mode' = "Journal" /\ rnext' = next /\ status' = "WouldBlock"
  /\ SetReadiness("Replaying", "return")
  /\ UNCHANGED <<next, ev>> /\ NextUnchanged

(* The seek fails, or read() met the overwriting and answered Invalid      *)
(* (ShmRing).                                                              *)
RingLost == pc = "ring" /\ ~Broken /\ Lost(next) /\ Invalidate /\ NextUnchanged

-----------------------------------------------------------------------------
(* The strategy thread takes the answer.                                   *)

(* An answer is taken, and the next call begins. *)
Taken(s) == /\ pc = "return" /\ status = s
            /\ status' = "None" /\ ev' = 0
            /\ UNCHANGED <<capture, ready, mine, opens>>

Resume(label) == pc' = label /\ UNCHANGED <<mode, next, rnext, want, then>>

HandleEventKeepsLive ==
  /\ Taken("Event") /\ Resume("idle")
  /\ taken' = Append(taken, ev)
  /\ live' = (live \/ mode = "Live")

HandleEvent ==
  /\ Taken("Event") /\ Resume("idle")
  /\ taken' = Append(taken, ev)
  /\ live' = (mode = "Live")

HandleNothing ==
  /\ Taken("WouldBlock") /\ Resume("idle")
  /\ live' = (live \/ mode = "Live")
  /\ UNCHANGED taken

HandleInvalidKeepsLive ==
  /\ Taken("Invalid") /\ Resume("ended")
  /\ UNCHANGED <<live, taken>>

(* Invalid data is observed rather than traded: the loop waits to be       *)
(* stopped.                                                                *)
HandleInvalid ==
  /\ Taken("Invalid") /\ Resume("ended")
  /\ live' = FALSE
  /\ UNCHANGED taken

(* close() *)
Close == /\ live' = FALSE /\ mode' = "Invalid" /\ next' = 0 /\ rnext' = 0
         /\ taken' = <<>>
         /\ SetReadiness("NotReady", "closed")

(* The event cannot be decoded: the loop ends.                             *)
HandleUndecodable == Taken("Event") /\ Close

(* The strategy is stopped between two calls.                              *)
Stop == /\ pc \in {"idle", "ended"}
        /\ Close
        /\ UNCHANGED <<capture, ready, mine, status, ev, opens>>

-----------------------------------------------------------------------------
Worker == PublishInitial \/ Publish \/ Refuse \/ StoreNotReady
CaptureStep == \/ Worker \/ Login \/ AppendEvent \/ CountOn \/ Degrade
               \/ MarkInvalid \/ Logout \/ Exit

Poll == \/ LoadContinuity \/ StoreReadiness
        \/ CallWhenInvalid \/ CallWhenBroken \/ Call
        \/ ReadJournal \/ JournalDrained \/ Handoff \/ NotYet
        \/ RingBroken \/ RingNotReady \/ RingTake \/ RingOverrun \/ RingLost
        \/ HandleEvent \/ HandleNothing \/ HandleInvalid

Next == CaptureStep \/ Poll \/ Open \/ JournalFails \/ HandleUndecodable \/ Stop

Spec == Init /\ [][Next]_vars

(* The strategy thread polls in a loop; a worker inside a call leaves it,  *)
(* unless it dies.  Nothing else is promised.                              *)
FairSpec == Spec /\ WF_vars(Poll) /\ WF_vars(Worker)

-----------------------------------------------------------------------------
Readiness == {"NotReady", "Replaying", "Handoff", "LiveReady"}
Ids == 0 .. MaxEvents + 1

TypeOK ==
  /\ jlen \in 0 .. MaxEvents /\ jstate \in {"Valid", "Invalid"} /\ clean \in BOOLEAN
  /\ latest \in Ids /\ first \in Ids /\ invalid \in BOOLEAN /\ ahead \in {0, 1}
  /\ ready \in Readiness
  /\ alive \in BOOLEAN /\ degraded \in BOOLEAN
  /\ wpc \in {"idle", "starting", "publish", "notReady", "leaving"}
  /\ wid \in Ids /\ logins \in 0 .. MaxLogins
  /\ pc \in {"closed", "load", "store", "idle", "journal", "tail", "ring",
             "return", "ended"}
  /\ then \in {"closed", "idle", "ring", "return"}
  /\ mine \in BOOLEAN /\ mode \in {"Journal", "Handoff", "Live", "Invalid"}
  /\ next \in 0 .. MaxEvents + 2 /\ rnext \in 0 .. MaxEvents + 2
  /\ want \in Readiness /\ status \in {"None", "Event", "WouldBlock", "Invalid"}
  /\ ev \in Ids /\ live \in BOOLEAN
  /\ taken \in Seq(Ids) /\ opens \in 0 .. MaxOpens

(* The strategy processes event 1, 2, 3, ... of the day: across the        *)
(* handoff, overruns, restarts of the capture process and a ring whose ids *)
(* got ahead of the journal's, none is skipped and none comes twice        *)
(* (SZERecoverable.cpp:1522-1565, 1579-1603).                              *)
NothingSkipped == \A i \in 1 .. Len(taken) : taken[i] = i

(* The events of the day: a ring holds those the journal has, and more     *)
(* after the journal failed.                                               *)
Captured == IF jlen < latest - ahead THEN latest - ahead ELSE jlen

Phase == IF "closed" \in {pc, then} THEN "closed"
         ELSE IF mode = "Invalid" THEN "ended" ELSE "open"

(* The pipeline gives the strategy the day it promises: every event once   *)
(* and in order, through crashes and restarts on either side, nothing      *)
(* after the consumer ended, and trading not before the first event        *)
(* (SZERecoverable.cpp:1471-1604, StrategyBase.cpp:1471-1541).             *)
Delivery == INSTANCE DayDelivery
  WITH captured <- Captured, phase <- Phase, trading <- live
ImplementsDelivery == Delivery!Spec

(* An event that is in the journal, or in the ring the consumer reads, is  *)
(* taken, unless the consumer ends or the ring loses an event that the     *)
(* journal does not have (SZERecoverable.cpp:1532-1564, 1583-1603).        *)
CatchesUp ==
  \A n \in 1 .. MaxEvents :
    pc = "idle" /\ next = n /\ (n <= jlen \/ (mode = "Live" /\ n <= latest))
      ~> \/ next > n
         \/ mode = "Invalid" \/ "closed" \in {pc, then}
         \/ mode = "Journal" /\ n > jlen

(* "Invalid data is observed rather than traded" (StrategyBase.cpp:1513):  *)
(* when the feed is Invalid, or the capture process gone, the strategy's   *)
(* flags are taken back.                                                   *)
BrokenFeedNotTraded == Broken /\ live ~> ~live

(* A strategy that fell back to the journal does not go on trading with    *)
(* the flags of before the overrun, as long as the journal works           *)
(* (SZERecoverable.cpp:1537-1550, StrategyBase.cpp:1522-1525).             *)
FallbackStopsTrading == mode = "Journal" /\ live ~> ~live \/ mode = "Live" \/ degraded

(* However the two processes that store the ring's readiness word come in  *)
(* each other's way, it does not stay on for an Invalid feed               *)
(* (SZERecoverable.cpp:1327-1338, 1291-1299).                              *)
ReadinessSettles == <>[](invalid => ready = "NotReady")
-----------------------------------------------------------------------------
(* The invariant ReplayHandoffProofs shows to be inductive.                *)

OnRing == mine /\ mode \in {"Handoff", "Live"}

(* The worker's id is the journal's as long as there is one; a ring whose  *)
(* ids are ahead begins where the journal ends.                            *)
CaptureInv ==
  /\ ~degraded => wid = jlen /\ ahead = 0
  /\ wpc = "publish" => wid > 0 /\ (~degraded => jlen > 0)
  /\ latest # 0 => 0 < first /\ first <= latest
  /\ ahead = 1 => /\ jlen > 0
                  /\ IF latest = 0 THEN wpc = "publish" /\ wid = jlen + 1
                                   ELSE first = jlen + 1

(* Where the consumer is decides what it knows: what it has returned, what *)
(* it asks for next, and that a ring it asks is one it can go on with.     *)
ConsumerInv ==
  /\ then # "idle" => pc \in {"load", "store"}
  /\ status # "None" => pc = "return" \/ then = "return"
  /\ "closed" \in {pc, then} => taken = <<>>
  /\ "closed" \notin {pc, then} =>
       IF status = "Event" THEN ev = Len(taken) + 1 /\ next = Len(taken) + 2
                           ELSE next = Len(taken) + 1
  /\ pc \in {"journal", "tail"} => mode = "Journal"
  /\ "ring" \in {pc, then} => mode \in {"Handoff", "Live"}
  /\ mode = "Journal" => rnext = next /\ next <= jlen + 1
  /\ OnRing /\ latest = 0 => next = 1
  /\ OnRing /\ ahead = 1 => next <= jlen

IInv == TypeOK /\ CaptureInv /\ ConsumerInv /\ NothingSkipped

(* What the refinement needs besides: how far the ring may be ahead of the *)
(* journal, and that an answer says what became of the consumer.           *)
DeliveryInv ==
  /\ ~degraded => latest <= jlen
  /\ latest = 0 /\ ahead = 0 => wid <= IF wpc = "publish" THEN jlen + 1 ELSE jlen
  /\ status = "Event" => ev <= Captured /\ mode \in {"Journal", "Live"}
  /\ status = "Invalid" => mode = "Invalid"
  /\ mode = "Live" /\ status # "Event" => live
=============================================================================
