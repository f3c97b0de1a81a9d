------------------------------- MODULE ShmRing -------------------------------
(***************************************************************************)
(* ShmEventRing of modules/deepwin_guoxin/md/SZERecoverable.cpp: one       *)
(* producer process publishes events into a ring of slots in shared        *)
(* memory; consumer processes copy them out without any lock.  A slot is   *)
(* guarded by its published_event_id, zeroed before the slot is rewritten  *)
(* and stored again after it.                                              *)
(*                                                                         *)
(* One action is one shared-memory access that another process can fall    *)
(* between.  Simplifications:                                              *)
(*  - event n has the id n and a body (the other fields of the             *)
(*    CanonicalEvent and its payload) that is also called n;               *)
(*  - the plain stores between the two release stores of publish() may     *)
(*    reach memory in any order; accesses are otherwise in program order,  *)
(*    as on the x86-64 hosts the build targets;                            *)
(*  - a CRC always accepts what it was computed over and may, by           *)
(*    collision, accept anything else;                                     *)
(*  - the header's generation is called 1; memory starts as zeroes.        *)
(***************************************************************************)
EXTENDS Integers

CONSTANTS Capacity,   \* slots of the ring
          Readers,    \* consumers attached to it
          LastId      \* bound: the producer publishes no id above it

ASSUME CapacityAssumption == Capacity \in Nat /\ Capacity >= 2
ASSUME LastIdAssumption == LastId \in Nat

VARIABLES
  latest,     \* ShmRingHeader::latest_event_id
  slot,       \* the slots: published id, generation, event id, body, crc
  wpc,        \* where the producer is inside publish()
  wid,        \* the event it is publishing, or published last
  todo,       \* the words of the slot it has still to store
  first,      \* history: the first event published
  pc,         \* pc[r]: where consumer r is inside read(), or how it ended
  next,       \* next[r]: the event id it asks for
  copy,       \* copy[r]: local_event and the payload buffer
  got         \* got[r]: history, the last event read() handed to its caller

writerVars == <<latest, slot, wpc, wid, todo, first>>
vars == <<latest, slot, wpc, wid, todo, first, pc, next, copy, got>>

Words == {"gen", "id", "body", "crc"}
Fields == Words \cup {"pub"}
Generation == 1
Nothing == [want |-> 0, id |-> 0, body |-> 0]

Slots == 0 .. Capacity - 1
Index(n) == (n - 1) % Capacity

Init == /\ latest = 0
        /\ slot = [i \in Slots |-> [f \in Fields |-> 0]]
        /\ wpc = "idle"
        /\ wid = 0
        /\ todo = {}
        /\ first = 0
        /\ pc = [r \in Readers |-> "idle"]
        /\ next \in [Readers -> 1 .. LastId + 1]
        /\ copy = [r \in Readers |-> [id |-> 0, body |-> 0]]
        /\ got = [r \in Readers |-> Nothing]

-----------------------------------------------------------------------------
(* The producer: publish(event n).  An id that does not continue the ring  *)
(* is refused and changes nothing; an empty ring takes any id.             *)

InOrder(n) == latest = 0 \/ n = latest + 1

BeginPublishNoZeroing(n) ==
  /\ wpc = "idle" /\ n <= LastId /\ InOrder(n)
  /\ wpc' = "fill" /\ wid' = n /\ todo' = Words
  /\ UNCHANGED <<latest, slot, first, pc, next, copy, got>>

BeginPublish(n) ==
  /\ wpc = "idle"
  /\ n <= LastId
  /\ InOrder(n)
  /\ slot' = [slot EXCEPT ![Index(n)]["pub"] = 0]
  /\ wpc' = "fill"
  /\ wid' = n
  /\ todo' = Words
  /\ UNCHANGED <<latest, first, pc, next, copy, got>>

WordOf(w, n) == IF w = "gen" THEN Generation ELSE n

StoreWord(w) ==
  /\ wpc = "fill"
  /\ w \in todo
  /\ slot' = [slot EXCEPT ![Index(wid)][w] = WordOf(w, wid)]
  /\ todo' = todo \ {w}
  /\ UNCHANGED <<latest, wpc, wid, first, pc, next, copy, got>>

CommitSlotEarly ==
  /\ wpc = "fill"
  /\ slot' = [slot EXCEPT ![Index(wid)]["pub"] = wid]
  /\ wpc' = "advance"
  /\ UNCHANGED <<latest, wid, todo, first, pc, next, copy, got>>

CommitSlot ==
  /\ wpc = "fill"
  /\ todo = {}
  /\ slot' = [slot EXCEPT ![Index(wid)]["pub"] = wid]
  /\ wpc' = "advance"
  /\ UNCHANGED <<latest, wid, todo, first, pc, next, copy, got>>

AdvancePastId ==
  /\ wpc = "advance"
  /\ latest' = wid + 1
  /\ first' = IF latest = 0 THEN wid ELSE first
  /\ wpc' = "idle"
  /\ UNCHANGED <<slot, wid, todo, pc, next, copy, got>>

AdvanceLatest ==
  /\ wpc = "advance"
  /\ latest' = wid
  /\ first' = IF latest = 0 THEN wid ELSE first
  /\ wpc' = "idle"
  /\ UNCHANGED <<slot, wid, todo, pc, next, copy, got>>

-----------------------------------------------------------------------------
(* A consumer: read(next[r]).  Not ready leaves it where it is; Ok hands   *)
(* the event over and moves on, as every caller does.                      *)

Goto(r, label) == pc' = [pc EXCEPT ![r] = label]
Source(r) == slot[Index(next[r])]

LappedOffByOne(l, n) == l - n >= Capacity - 1
Lapped(l, n) == l - n >= Capacity

BeginReadBehind(r) ==
  /\ pc[r] = "idle" /\ next[r] < latest
  /\ Goto(r, IF Lapped(latest, next[r]) THEN "Overrun" ELSE "published")
  /\ UNCHANGED <<writerVars, next, copy, got>>

BeginRead(r) ==
  /\ pc[r] = "idle"
  /\ next[r] <= latest
  /\ Goto(r, IF Lapped(latest, next[r]) THEN "Overrun" ELSE "published")
  /\ UNCHANGED <<writerVars, next, copy, got>>

CheckPublished(r) ==
  /\ pc[r] = "published"
  /\ Goto(r, IF Source(r)["pub"] = next[r] THEN "generation" ELSE "Overrun")
  /\ UNCHANGED <<writerVars, next, copy, got>>

CheckGeneration(r) ==
  /\ pc[r] = "generation"
  /\ Goto(r, IF Source(r)["gen"] = Generation THEN "event" ELSE "Stale")
  /\ UNCHANGED <<writerVars, next, copy, got>>

CopyEvent(r) ==
  /\ pc[r] = "event"
  /\ copy' = [copy EXCEPT ![r].id = Source(r)["id"]]
  /\ Goto(r, IF Source(r)["id"] = next[r] THEN "payload" ELSE "Invalid")
  /\ UNCHANGED <<writerVars, next, got>>

CopyPayload(r) ==
  /\ pc[r] = "payload"
  /\ copy' = [copy EXCEPT ![r].body = Source(r)["body"]]
  /\ Goto(r, "crc")
  /\ UNCHANGED <<writerVars, next, got>>

(* The CRC of the copy against the stored one; collide is a collision.     *)
CrcAccepts(r, collide) ==
  collide \/ (copy[r].id = Source(r)["crc"] /\ copy[r].body = Source(r)["crc"])

CheckCrc(r) ==
  /\ pc[r] = "crc"
  /\ \E collide \in BOOLEAN :
       Goto(r, IF CrcAccepts(r, collide) THEN "recheck" ELSE "Overrun")
  /\ UNCHANGED <<writerVars, next, copy, got>>

Deliver(r) ==
  /\ got' = [got EXCEPT ![r] = [want |-> next[r], id |-> copy[r].id,
                                body |-> copy[r].body]]
  /\ next' = [next EXCEPT ![r] = next[r] + 1]
  /\ Goto(r, "idle")
  /\ UNCHANGED <<writerVars, copy>>

RecheckDropped(r) == pc[r] = "recheck" /\ Deliver(r)

Recheck(r) ==
  /\ pc[r] = "recheck"
  /\ IF Source(r)["pub"] = next[r]
       THEN Deliver(r)
       ELSE Goto(r, "Overrun") /\ UNCHANGED <<writerVars, next, copy, got>>

(* After an overrun the caller replays the missing events from the journal *)
(* and returns to the ring further on (ReplayHandoffConsumer::read_ring).  *)
(* Invalid and Stale end the consumer (invalidate()).                      *)
Reposition(r, n) ==
  /\ pc[r] = "Overrun"
  /\ n > next[r]
  /\ n <= latest + 1
  /\ next' = [next EXCEPT ![r] = n]
  /\ Goto(r, "idle")
  /\ UNCHANGED <<writerVars, copy, got>>

-----------------------------------------------------------------------------
Publish == \/ \E n \in 1 .. LastId : BeginPublish(n)
           \/ \E w \in Words : StoreWord(w)
           \/ CommitSlot
           \/ AdvanceLatest

Read(r) == \/ BeginRead(r)
           \/ CheckPublished(r)
           \/ CheckGeneration(r)
           \/ CopyEvent(r)
           \/ CopyPayload(r)
           \/ CheckCrc(r)
           \/ Recheck(r)

Next == \/ Publish
        \/ \E r \in Readers : Read(r)
        \/ \E r \in Readers, n \in 1 .. LastId + 1 : Reposition(r, n)

Spec == Init /\ [][Next]_vars

(* The consumer polls in a loop and its replay of the journal ends; the    *)
(* producer may stop anywhere, but not inside publish(), which has no loop *)
(* and takes no lock.                                                      *)
Fairness ==
  /\ WF_vars((\E w \in Words : StoreWord(w)) \/ CommitSlot \/ AdvanceLatest)
  /\ \A r \in Readers : WF_vars(Read(r))
  /\ \A r \in Readers : WF_vars(\E n \in 1 .. LastId + 1 : Reposition(r, n))

FairSpec == Spec /\ Fairness

-----------------------------------------------------------------------------
ReadSteps == {"published", "generation", "event", "payload", "crc", "recheck"}

TypeOK ==
  /\ latest \in 0 .. LastId
  /\ slot \in [Slots -> [Fields -> 0 .. LastId]]
  /\ wpc \in {"idle", "fill", "advance"}
  /\ wid \in 0 .. LastId
  /\ todo \in SUBSET Words
  /\ first \in 0 .. LastId
  /\ pc \in [Readers -> ReadSteps \cup {"idle", "Overrun", "Invalid", "Stale"}]
  /\ next \in [Readers -> 1 .. LastId + 1]
  /\ copy \in [Readers -> [id : 0 .. LastId, body : 0 .. LastId]]
  /\ got \in [Readers -> [want : 0 .. LastId, id : 0 .. LastId,
                           body : 0 .. LastId]]

(* A read() that returns Ok hands over exactly the event asked for: never  *)
(* a torn copy and never an older or newer event of the same slot, however *)
(* the producer laps the reader and even when CRCs collide                 *)
(* (SZERecoverable.cpp:1248-1272).                                         *)
ReadExact ==
  \A r \in Readers : got[r].id = got[r].want /\ got[r].body = got[r].want

(* The producer has started to rewrite the slot of event n, or never put   *)
(* event n in this ring.                                                   *)
Gone(n) == n < first \/ n + Capacity <= wid

(* A reader is sent back to the journal, or given up, only for an event    *)
(* the ring really lost: no interleaving makes read() report an overrun,   *)
(* or an invalid slot, for an event that is still there                    *)
(* (SZERecoverable.cpp:1244-1270).                                         *)
FailureJustified ==
  \A r \in Readers : pc[r] \in {"Overrun", "Invalid"} => Gone(next[r])

(* read() never reports a stale generation: the check after the published  *)
(* id cannot see a slot before its generation was stored                   *)
(* (SZERecoverable.cpp:1252).  A consumer ends for good on that answer.    *)
NeverStale == \A r \in Readers : pc[r] # "Stale"

(* The ring implements the event log: in-order, exact delivery, and a      *)
(* reader skips events only when they left the ring.                       *)
Log == INSTANCE EventLog WITH Retention <- Capacity
ImplementsEventLog == Log!Spec

(* A reader that wants a published event gets past it: it takes the event, *)
(* comes back to the ring further on after an overrun, or has ended.       *)
ReaderProgress ==
  \A r \in Readers, n \in 1 .. LastId :
    next[r] = n /\ n <= latest ~> next[r] > n \/ pc[r] \in {"Invalid", "Stale"}

(* A reader the producer laps keeps the way back through the journal open  *)
(* (test_replay_handoff_and_overrun_fallback: overrun, then WouldBlock in  *)
(* mode kReplayJournal).  The code does not give it: a producer that       *)
(* rewrites the slot after the published id was checked is answered        *)
(* kRingReadInvalid by the id check that follows (SZERecoverable.cpp:1256).*)
LappedReaderRecovers == \A r \in Readers : pc[r] # "Invalid"
-----------------------------------------------------------------------------
(* The invariant ShmRingProofs shows to be inductive.                      *)

WriterInv ==
  /\ wpc = "idle" => wid = latest
  /\ wpc # "fill" => todo = {}
  /\ wpc # "idle" => wid > 0 /\ InOrder(wid)
  /\ wpc = "fill" =>
       /\ slot[Index(wid)]["pub"] = 0
       /\ \A w \in Words \ todo : slot[Index(wid)][w] = WordOf(w, wid)
  /\ wpc = "advance" => slot[Index(wid)]["pub"] = wid
  /\ latest = 0 <=> first = 0
  /\ first <= latest

(* A slot that carries a published id holds that event and nothing newer.  *)
SlotInv ==
  \A i \in Slots : LET p == slot[i]["pub"] IN
    p # 0 => /\ Index(p) = i
             /\ p <= wid /\ wid < p + Capacity
             /\ IF latest = 0 THEN p = wid ELSE first <= p
             /\ \A w \in Words : slot[i][w] = WordOf(w, p)

(* An event the ring has not lost is in its slot. *)
Retained ==
  \A n \in 1 .. LastId :
    latest # 0 /\ n <= latest /\ ~Gone(n) => slot[Index(n)]["pub"] = n

ReaderInv(r) ==
  /\ pc[r] \in ReadSteps \cup {"Overrun"} => next[r] <= latest
  /\ pc[r] \in ReadSteps \ {"published"} =>
       first <= next[r] /\ Source(r)["gen"] = Generation
  /\ pc[r] \in {"payload", "crc", "recheck"} => copy[r].id = next[r]
  /\ pc[r] \in {"crc", "recheck"} => copy[r].body = next[r] \/ Gone(next[r])
  /\ pc[r] \in {"Overrun", "Invalid"} => Gone(next[r])
  /\ pc[r] # "Stale"
  /\ got[r].id = got[r].want /\ got[r].body = got[r].want

IInv == TypeOK /\ WriterInv /\ SlotInv /\ Retained /\ \A r \in Readers : ReaderInv(r)
=============================================================================
