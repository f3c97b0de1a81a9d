------------------------------- MODULE Capture -------------------------------
(***************************************************************************)
(* The recoverable pipeline of the SZE capture engine                      *)
(* (modules/deepwin_guoxin/md/MDEngineSZE.cpp): the worker thread observes *)
(* the records of a packet and then appends their events to the journal    *)
(* and publishes them to the ring; the flush thread writes the journal     *)
(* back and refreshes the health page; a journal that fails is given up,   *)
(* and the ring goes on alone; the process stops, crashes and starts       *)
(* again.                                                                  *)
(*                                                                         *)
(* Journal and ring are what Journal and ShmRing show them to be: the      *)
(* journal a sequence of events with the ids 1, 2, ..., the ring a         *)
(* sequence whose ids begin anywhere.  Feed numbers are left to            *)
(* FeedSequence: a record is good, or it ends the day.  Event n is the     *)
(* n-th record of the day that carries one.                                *)
(***************************************************************************)
EXTENDS Integers, Sequences

CONSTANTS MaxEvents,  \* bound: events of the day
          MaxPacket,  \* bound: events of one packet
          MaxStarts   \* bound: how often the engine logs in

ASSUME BoundAssumption == /\ MaxEvents \in Nat /\ MaxPacket \in Nat \ {0}
                          /\ MaxStarts \in Nat \ {0}

VARIABLES
  up, starts,         \* logged in; how often so far
  journal, jstate,    \* the journal's events, its continuity_state and
  clean,              \*   clean_shutdown
  ring, rfirst,       \* the ring's events, the id of its first, and its
  rstate,             \*   continuity_state
  hfeed, hjournal,    \* the capture health page
  forced, reason,     \* recovery_forced_invalid_, recovery_invalid_reason_
  degraded,           \* recovery_journal_degraded_
  ringLast,           \* recovery_ring_last_event_id_
  wpc, back,          \* where the worker is, and where it returns to
  pending, id,        \* the packet's events; the id of the one in hand
  wseen,              \* the degraded flag it loaded for the metrics
  fpc, fseen,         \* where the flush thread is, and the flag it loaded
  made,               \* history: how many events the day has had
  sent,               \* history: events offered to the ring since the login
  broken              \* history: a record ended the day

disk == <<journal, jstate, clean>>
shm == <<ring, rfirst, rstate>>
health == <<hfeed, hjournal>>
flags == <<forced, reason, degraded, ringLast>>
worker == <<wpc, back, pending, id>>
flusher == <<fpc, fseen, wseen>>
history == <<made, sent, broken>>
vars == <<up, starts, disk, shm, health, flags, worker, flusher, history>>

FeedHealth(invalid) == IF invalid THEN "Failed" ELSE "Healthy"
JournalHealth(bad) == IF bad THEN "Degraded" ELSE "Healthy"

Init == /\ up = FALSE /\ starts = 0
        /\ journal = <<>> /\ jstate = "Initializing" /\ clean = TRUE
        /\ ring = <<>> /\ rfirst = 1 /\ rstate = "Initializing"
        /\ hfeed = "Healthy" /\ hjournal = "Healthy"
        /\ forced = FALSE /\ reason = "None" /\ degraded = FALSE /\ ringLast = 0
        /\ wpc = "receive" /\ back = "receive" /\ pending = <<>> /\ id = 0
        /\ wseen = FALSE
        /\ fpc = "sleep" /\ fseen = FALSE
        /\ made = 0 /\ sent = <<>> /\ broken = FALSE

-----------------------------------------------------------------------------
(* The worker observes the records of a packet.                            *)

Sticky(state, new) == IF state = "Invalid" THEN "Invalid" ELSE new

(* A record of the packet carries an event to forward, or none: a          *)
(* heartbeat, a duplicate, a symbol nobody asked for.                      *)
Collect == \/ UNCHANGED <<pending, made>>
           \/ /\ made < MaxEvents /\ Len(pending) < MaxPacket
              /\ made' = made + 1
              /\ pending' = Append(pending, made + 1)

Observe == /\ up /\ wpc = "receive"
           /\ jstate' = Sticky(jstate, IF forced THEN "Invalid" ELSE "Valid")
           /\ rstate' = Sticky(rstate, IF forced THEN "Invalid" ELSE "Valid")
           /\ Collect
           /\ UNCHANGED <<up, starts, journal, clean, ring, rfirst, health, flags,
                          wpc, back, id, flusher, sent, broken>>

(* mark_recovery_invalid(): the first reason sticks; then the journal and  *)
(* the ring are told, then the health page.                                *)
MarkInvalid(why, return) ==
  /\ forced' = TRUE
  /\ reason' = IF forced THEN reason ELSE why
  /\ wpc' = "tell" /\ back' = return
  /\ UNCHANGED <<degraded, ringLast>>

(* A gap, a regression, a malformed record, another trading day.           *)
ObserveBad == /\ up /\ wpc = "receive"
              /\ MarkInvalid("Feed", "receive")
              /\ broken' = TRUE
              /\ Collect
              /\ UNCHANGED <<up, starts, disk, shm, health, id, flusher, sent>>

(* The socket fails and the worker leaves its loop.                        *)
StopReceiving == /\ up /\ wpc = "receive" /\ pending = <<>>
                 /\ MarkInvalid("ReceiverStopped", "stopped")
                 /\ broken' = TRUE
                 /\ UNCHANGED <<up, starts, disk, shm, health, pending, id,
                                flusher, made, sent>>

Tell == /\ up /\ wpc = "tell"
        /\ jstate' = "Invalid" /\ rstate' = "Invalid"
        /\ wpc' = "tellHealth"
        /\ UNCHANGED <<up, starts, journal, clean, ring, rfirst, health, flags,
                       back, pending, id, flusher, history>>

TellHealth == /\ up /\ wpc = "tellHealth"
              /\ hfeed' = "Failed"
              /\ wpc' = back
              /\ UNCHANGED <<up, starts, disk, shm, hjournal, flags, back,
                             pending, id, flusher, history>>

(* Every 4096 records the worker publishes the metrics as well; the flush  *)
(* thread may degrade the journal after the worker loaded the flag.        *)
WorkerMetrics == /\ up /\ wpc = "receive"
                 /\ hfeed' = FeedHealth(forced)
                 /\ wseen' = degraded
                 /\ wpc' = "metrics"
                 /\ UNCHANGED <<up, starts, disk, shm, hjournal, flags, back, pending,
                                id, fpc, fseen, history>>

WorkerPublishes == /\ up /\ wpc = "metrics"
                   /\ hjournal' = JournalHealth(wseen)
                   /\ wpc' = "receive"
                   /\ UNCHANGED <<up, starts, disk, shm, hfeed, flags, back, pending,
                                  id, flusher, history>>

-----------------------------------------------------------------------------
(* The end of the packet: publish_recovery_event() for each event.         *)

EndPacket == /\ up /\ wpc = "receive" /\ pending # <<>>
             /\ wpc' = "append"
             /\ UNCHANGED <<up, starts, disk, shm, health, flags, back, pending,
                            id, flusher, history>>

AppendEvent ==
  /\ up /\ wpc = "append" /\ ~degraded
  /\ journal' = Append(journal, Head(pending))
  /\ id' = Len(journal) + 1
  /\ ringLast' = Len(journal) + 1
  /\ wpc' = "number"
  /\ UNCHANGED <<up, starts, jstate, clean, shm, health, forced, reason,
                 degraded, back, pending, flusher, history>>

SkipJournal == /\ up /\ wpc = "append" /\ degraded
               /\ wpc' = "number"
               /\ UNCHANGED <<up, starts, disk, shm, health, flags, back,
                              pending, id, flusher, history>>

(* append() fails, for want of disk space: mark_journal_degraded().        *)
AppendFails == /\ up /\ wpc = "append" /\ ~degraded
               /\ degraded' = TRUE
               /\ wpc' = "tellDegraded"
               /\ UNCHANGED <<up, starts, disk, shm, health, forced, reason,
                              ringLast, back, pending, id, flusher, history>>

TellDegraded == /\ up /\ wpc = "tellDegraded"
                /\ hjournal' = "Degraded"
                /\ wpc' = "number"
                /\ UNCHANGED <<up, starts, disk, shm, hfeed, flags, back,
                               pending, id, flusher, history>>

NumberAlways == /\ up /\ wpc = "number"
                /\ id' = ringLast + 1 /\ ringLast' = ringLast + 1
                /\ wpc' = "publish"
                /\ UNCHANGED <<up, starts, disk, shm, health, forced, reason,
                               degraded, back, pending, flusher, history>>

(* The flag is loaded again, and without a journal the id counts on.       *)
Number == /\ up /\ wpc = "number"
          /\ IF degraded THEN id' = ringLast + 1 /\ ringLast' = ringLast + 1
                         ELSE UNCHANGED <<id, ringLast>>
          /\ wpc' = "publish"
          /\ UNCHANGED <<up, starts, disk, shm, health, forced, reason,
                         degraded, back, pending, flusher, history>>

AfterPublish == IF Len(pending) > 1 THEN "append" ELSE "receive"

OfferKeepsPacket == /\ up /\ wpc = "publish"
                    /\ sent' = Append(sent, Head(pending))
                    /\ UNCHANGED pending

Offer == /\ up /\ wpc = "publish"
         /\ sent' = Append(sent, Head(pending))
         /\ pending' = Tail(pending)

InSequence == ring = <<>> \/ id = rfirst + Len(ring)

Publish == /\ Offer
           /\ InSequence
           /\ ring' = Append(ring, Head(pending))
           /\ rfirst' = IF ring = <<>> THEN id ELSE rfirst
           /\ wpc' = AfterPublish
           /\ UNCHANGED <<up, starts, disk, rstate, health, flags, back, id,
                          flusher, made, broken>>

RejectSilently == /\ Offer /\ ~InSequence
                  /\ wpc' = AfterPublish
                  /\ UNCHANGED <<up, starts, disk, shm, health, flags, back, id,
                                 flusher, made, broken>>

Reject == /\ Offer
          /\ ~InSequence
          /\ MarkInvalid("RingOverrun", AfterPublish)
          /\ UNCHANGED <<up, starts, disk, shm, health, id, flusher, made, broken>>

-----------------------------------------------------------------------------
(* The flush thread: flush(), then publish_recovery_metrics().             *)

FlushGoto(label) ==
  /\ up /\ fpc' = label
  /\ UNCHANGED <<up, starts, disk, shm, forced, reason, ringLast, worker, wseen, history>>

Flush == /\ fpc = "sleep"
         /\ FlushGoto("metrics")
         /\ UNCHANGED <<health, degraded, fseen>>

FlushFails == /\ fpc = "sleep"
              /\ degraded' = TRUE
              /\ FlushGoto("degraded")
              /\ UNCHANGED <<health, fseen>>

FlushTellsDegraded == /\ fpc = "degraded"
                      /\ hjournal' = "Degraded"
                      /\ FlushGoto("metrics")
                      /\ UNCHANGED <<hfeed, degraded, fseen>>

LoadOnce == /\ fpc = "metrics"
            /\ FlushGoto("feed")
            /\ UNCHANGED <<health, degraded, fseen>>

LoadForced == /\ fpc = "metrics"
              /\ fseen' = forced
              /\ FlushGoto("feed")
              /\ UNCHANGED <<health, degraded>>

PublishFeed == /\ fpc = "feed"
               /\ hfeed' = FeedHealth(fseen)
               /\ FlushGoto("load")
               /\ UNCHANGED <<hjournal, degraded, fseen>>

LoadDegraded == /\ fpc = "load"
                /\ fseen' = degraded
                /\ FlushGoto("journal")
                /\ UNCHANGED <<health, degraded>>

PublishJournal == /\ fpc = "journal"
                  /\ hjournal' = JournalHealth(fseen)
                  /\ FlushGoto("sleep")
                  /\ UNCHANGED <<hfeed, degraded, fseen>>

-----------------------------------------------------------------------------
(* login() and initialize_recovery(): an unclean journal is Invalid; a new *)
(* ring is empty, and the health page starts afresh.                       *)
StartStateTrusting == jstate

StartState == IF clean THEN jstate ELSE "Invalid"

Start ==
  /\ ~up /\ starts < MaxStarts
  /\ up' = TRUE /\ starts' = starts + 1
  /\ jstate' = StartState /\ clean' = FALSE
  /\ ring' = <<>> /\ rfirst' = 1 /\ rstate' = StartState
  /\ forced' = (StartState = "Invalid")
  /\ reason' = IF StartState = "Invalid" THEN "Restored" ELSE "None"
  /\ degraded' = FALSE
  /\ ringLast' = Len(journal)
  /\ hfeed' = FeedHealth(StartState = "Invalid") /\ hjournal' = "Healthy"
  /\ wpc' = "receive" /\ back' = "receive" /\ pending' = <<>> /\ id' = 0
  /\ fpc' = "sleep" /\ fseen' = FALSE /\ wseen' = FALSE
  /\ sent' = <<>>
  /\ UNCHANGED <<journal, made, broken>>

(* logout() and shutdown_recovery(): the worker finishes its packet, the   *)
(* flush thread its round, and the journal is closed; if that fails it is  *)
(* left unclean.                                                           *)
Stop == /\ up
        /\ wpc \in {"receive", "stopped"} /\ pending = <<>> /\ fpc = "sleep"
        /\ up' = FALSE
        /\ clean' \in BOOLEAN
        /\ rstate' = IF forced THEN "Invalid" ELSE rstate
        /\ hfeed' = FeedHealth(forced) /\ hjournal' = JournalHealth(degraded)
        /\ UNCHANGED <<starts, journal, jstate, ring, rfirst, flags, worker,
                       flusher, history>>

Crash == /\ up
         /\ up' = FALSE
         /\ UNCHANGED <<starts, disk, shm, health, flags, worker, flusher, history>>

-----------------------------------------------------------------------------
WorkerRecords == Observe \/ ObserveBad \/ StopReceiving \/ WorkerMetrics
WorkerInside == \/ Tell \/ TellHealth \/ WorkerPublishes
                \/ EndPacket \/ AppendEvent \/ SkipJournal \/ AppendFails
                \/ TellDegraded \/ Number \/ Publish \/ Reject
FlushThread == \/ Flush \/ FlushFails \/ FlushTellsDegraded
               \/ LoadForced \/ PublishFeed \/ LoadDegraded \/ PublishJournal

Next == \/ WorkerRecords \/ WorkerInside
        \/ FlushThread
        \/ Start \/ Stop \/ Crash

Spec == Init /\ [][Next]_vars

(* The flush thread wakes up every interval, and the worker never waits    *)
(* inside a packet; records may stop coming, and nobody need restart it.   *)
FairSpec == Spec /\ WF_vars(FlushThread) /\ WF_vars(WorkerInside)

-----------------------------------------------------------------------------
States == {"Initializing", "Valid", "Invalid"}
Events == 1 .. MaxEvents

TypeOK ==
  /\ up \in BOOLEAN /\ starts \in 0 .. MaxStarts
  /\ journal \in Seq(Events) /\ jstate \in States /\ clean \in BOOLEAN
  /\ ring \in Seq(Events) /\ rfirst \in 1 .. MaxEvents + 1 /\ rstate \in States
  /\ hfeed \in {"Healthy", "Failed"} /\ hjournal \in {"Healthy", "Degraded"}
  /\ forced \in BOOLEAN /\ degraded \in BOOLEAN
  /\ reason \in {"None", "Feed", "ReceiverStopped", "RingOverrun", "Restored"}
  /\ ringLast \in 0 .. MaxEvents + 1
  /\ wpc \in {"receive", "stopped", "tell", "tellHealth", "append",
              "tellDegraded", "number", "publish", "metrics"}
  /\ back \in {"receive", "stopped", "append"}
  /\ pending \in Seq(Events) /\ Len(pending) <= MaxPacket
  /\ id \in 0 .. MaxEvents + 1
  /\ fpc \in {"sleep", "degraded", "metrics", "feed", "load", "journal"}
  /\ fseen \in BOOLEAN /\ wseen \in BOOLEAN
  /\ made \in 0 .. MaxEvents /\ sent \in Seq(Events) /\ broken \in BOOLEAN

(* An id means one event: what the ring holds under an id of the journal   *)
(* is the journal's event, so that a consumer can go from one to the other *)
(* (MDEngineSZE.cpp:1260-1280).                                            *)
RingFollowsJournal ==
  \A i \in 1 .. Len(ring) : rfirst + i - 1 <= Len(journal) =>
    ring[i] = journal[rfirst + i - 1]

(* While the ring does not say Invalid, it has taken every event it was    *)
(* offered since the login, in order: none is dropped without a word       *)
(* (MDEngineSZE.cpp:1276-1281).                                            *)
NothingDroppedSilently ==
  up /\ wpc # "tell" /\ rstate # "Invalid" => ring = sent

(* A day a record ended is Invalid for everyone, whatever crash or restart *)
(* follows (deploy/sze_compact_daily/README.md:107-108;                    *)
(* MDEngineSZE.cpp:875-902).                                               *)
BrokenDayStaysBroken ==
  broken /\ up /\ wpc # "tell" => jstate = "Invalid" /\ rstate = "Invalid" /\ forced

(* The two threads that write the health page cannot leave it wrong: a     *)
(* stale flag the flush thread publishes is put right by its next round    *)
(* (MDEngineSZE.cpp:1317-1331).                                            *)
HealthSettles ==
  <>[](up => hfeed = FeedHealth(forced) /\ hjournal = JournalHealth(degraded))

(* "Journal degradation does not change feed continuity"                   *)
(* (docs/sze_health_and_direct_sharded_ring.md:29).  The code does not     *)
(* give it: a flush that fails between append() and the second load of the *)
(* flag gives the event a second id, which the ring refuses.               *)
ContinuityIndependentOfJournal ==
  rstate = "Invalid" => reason # "RingOverrun"

(* "Journal degradation ... blocks new risk by default because a restart   *)
(* can no longer reconstruct the online state"                             *)
(* (docs/sze_health_and_direct_sharded_ring.md:29-31): a capture that      *)
(* reports both domains Healthy has every event it ever published in its   *)
(* journal.  The code does not give it: a clean restart after a failed     *)
(* journal reports Healthy again.                                          *)
Quiet == up /\ wpc = "receive" /\ pending = <<>> /\ fpc = "sleep"
HealthyMeansReplayable ==
  Quiet /\ starts > 1 /\ sent = <<>> /\ hfeed = "Healthy" /\ hjournal = "Healthy"
    => Len(journal) = made
=============================================================================
