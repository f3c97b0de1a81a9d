------------------------------- MODULE Journal -------------------------------
(***************************************************************************)
(* JournalWriter and JournalReader of                                      *)
(* modules/deepwin_guoxin/md/SZERecoverable.cpp: one writer appends events *)
(* to memory-mapped segment files and rotates to a new file when one is    *)
(* full; readers of other processes follow it, from the first event on,    *)
(* while the writer is running, crashes and starts again.                  *)
(*                                                                         *)
(* Simplifications:                                                        *)
(*  - event n is n; offsets are counted in events;                         *)
(*  - a killed writer loses nothing it stored, since the page cache stays; *)
(*    a power loss keeps what a synchronous flush covered, any amount of   *)
(*    the rest, and takes the readers down too; a new file keeps its name; *)
(*  - flush(false) starts a write-back, promises nothing and is left out;  *)
(*  - seek() is left out.                                                  *)
(***************************************************************************)
EXTENDS Integers, Sequences

CONSTANTS SegmentEvents,  \* events after which a segment is full
          Readers,        \* processes with a JournalReader
          LastId,         \* bound: no event above it is appended
          MaxOpens        \* bound: how often the writer opens the journal

ASSUME SegmentAssumption == SegmentEvents \in Nat \ {0}
ASSUME BoundAssumption == LastId \in Nat /\ MaxOpens \in Nat

VARIABLES
  files,    \* the segment files, oldest first
  wpc,      \* what the writer is doing
  opens,    \* how often it opened the journal
  newest,   \* history: the newest event whose append() returned Ok
  doomed,   \* history: the journal was told, or found itself, Invalid
  pc,       \* pc[r]: where reader r is inside next(), or how it ended
  seg,      \* seg[r]: the segment it has mapped
  next      \* next[r]: next_event_id_

history == <<newest, doomed>>
readerVars == <<pc, seg, next>>
vars == <<files, wpc, opens, history, readerVars>>

States == {"Initializing", "Valid", "Invalid"}

(* A segment: ready once it has its size and a valid superblock; its       *)
(* first event; the last one published and the last one whose record       *)
(* validates; the last one known to be on disk; superblock flags.          *)
NewFile(n) == [ready |-> FALSE, first |-> n, last |-> n - 1, valid |-> n - 1,
               durable |-> n - 1, clean |-> FALSE, state |-> "Initializing"]

End == Len(files)
Tail_ == files[End]
Full == Tail_.last - Tail_.first + 1 >= SegmentEvents
Exists(i) == i <= End

Init == /\ files = <<>>
        /\ wpc = "closed" /\ opens = 0 /\ newest = 0 /\ doomed = FALSE
        /\ pc = [r \in Readers |-> "off"]
        /\ seg = [r \in Readers |-> 0]
        /\ next = [r \in Readers |-> 0]

-----------------------------------------------------------------------------
(* The writer: open().                                                     *)

Opening == wpc = "closed" /\ opens < MaxOpens /\ opens' = opens + 1

OpenNewFromZero == /\ Opening /\ files = <<>>
                   /\ files' = <<NewFile(0)>>
                   /\ wpc' = "creating"
                   /\ UNCHANGED <<history, readerVars>>

OpenNew == /\ Opening
           /\ files = <<>>
           /\ files' = <<NewFile(1)>>
           /\ wpc' = "creating"
           /\ UNCHANGED <<history, readerVars>>

RecoveredTrusting(f) ==
  LET kept == IF f.valid < f.last THEN f.valid ELSE f.last
  IN [f EXCEPT !.last = kept, !.valid = kept, !.durable = kept, !.clean = FALSE]

(* The records of the last segment are validated up to published_offset;   *)
(* an unclean or damaged journal is Invalid from here on.  The file is     *)
(* synchronised before open() returns.                                     *)
Recovered(f) ==
  LET kept == IF f.valid < f.last THEN f.valid ELSE f.last
  IN [f EXCEPT !.last = kept,
               !.valid = kept,
               !.durable = kept,
               !.clean = FALSE,
               !.state = IF f.clean /\ f.valid >= f.last THEN @ ELSE "Invalid"]

OpenExisting == /\ Opening
                /\ files # <<>> /\ Tail_.ready
                /\ files' = [files EXCEPT ![End] = Recovered(@)]
                /\ wpc' = "idle"
                /\ doomed' = (doomed \/ Recovered(Tail_).state = "Invalid")
                /\ UNCHANGED <<newest, readerVars>>

(* The last file is half made: open() answers kJournalFormatError.         *)
OpenFails == /\ Opening
             /\ files # <<>> /\ ~Tail_.ready
             /\ UNCHANGED <<files, wpc, history, readerVars>>

(* append(): a full segment is flushed to disk, and the next file made.    *)
BeginRotateNoFlush == /\ wpc = "idle" /\ Tail_.last < LastId /\ Full
                      /\ files' = Append(files, NewFile(Tail_.last + 1))
                      /\ wpc' = "creating"
                      /\ UNCHANGED <<opens, history, readerVars>>

BeginRotate == /\ wpc = "idle" /\ Tail_.last < LastId
               /\ Full
               /\ files' = Append([files EXCEPT ![End].durable = Tail_.last],
                                  NewFile(Tail_.last + 1))
               /\ wpc' = "creating"
               /\ UNCHANGED <<opens, history, readerVars>>

(* No room, or the flush fails: the caller stops using the journal.        *)
RotateFails == /\ wpc = "idle" /\ Tail_.last < LastId
               /\ Full
               /\ wpc' = "degraded"
               /\ UNCHANGED <<files, opens, history, readerVars>>

InitSegment == /\ wpc = "creating" /\ ~Tail_.ready
               /\ files' = [files EXCEPT ![End].ready = TRUE]
               /\ UNCHANGED <<wpc, opens, history, readerVars>>

(* rotate() carries the continuity state over; open() starts a new one.    *)
SwitchForgetsState ==
  /\ wpc = "creating" /\ Tail_.ready
  /\ wpc' = "idle"
  /\ UNCHANGED <<files, opens, history, readerVars>>

Switch ==
  /\ wpc = "creating" /\ Tail_.ready
  /\ files' = IF End = 1 THEN files
              ELSE [files EXCEPT ![End].state = files[End - 1].state]
  /\ wpc' = "idle"
  /\ UNCHANGED <<opens, history, readerVars>>

(* Sizing, mapping or syncing the new file fails: it is unlinked, and a    *)
(* reader that mapped it keeps a file nobody writes to.                    *)
AbortCreate ==
  /\ wpc = "creating"
  /\ files' = SubSeq(files, 1, End - 1)
  /\ wpc' = IF End = 1 THEN "closed" ELSE "degraded"
  /\ pc' = [r \in Readers |-> IF seg[r] = End /\ pc[r] # "Dead"
                           THEN "Lost" ELSE pc[r]]
  /\ UNCHANGED <<opens, history, seg, next>>

WriteRecord == /\ wpc = "idle" /\ Tail_.last < LastId
               /\ ~Full
               /\ files' = [files EXCEPT ![End].last = @ + 1, ![End].valid = @ + 1]
               /\ newest' = Tail_.last + 1
               /\ UNCHANGED <<wpc, opens, doomed, readerVars>>

(* publish_continuity(): Invalid stays.                                    *)
PublishContinuity(s) ==
  /\ wpc \in {"idle", "degraded"}
  /\ Tail_.state # "Invalid"
  /\ files' = [files EXCEPT ![End].state = s]
  /\ doomed' = (doomed \/ s = "Invalid")
  /\ UNCHANGED <<wpc, opens, newest, readerVars>>

CloseClean ==
  /\ wpc \in {"idle", "degraded"}
  /\ files' = [files EXCEPT ![End].durable = Tail_.last, ![End].clean = TRUE]
  /\ wpc' = "closed"
  /\ UNCHANGED <<opens, history, readerVars>>

(* The process is killed, or the flush of close(true) fails.               *)
Crash == /\ wpc # "closed"
         /\ wpc' = "closed"
         /\ UNCHANGED <<files, opens, history, readerVars>>

(* The host goes down: of what no flush covered, the superblock and the    *)
(* records reach the disk independently.                                   *)
PowerLoss ==
  /\ files # <<>>
  /\ \E p, v \in Tail_.durable .. Tail_.last,
        s \in IF Tail_.clean THEN {Tail_.state} ELSE States :
       files' = [files EXCEPT ![End].last = p, ![End].valid = v, ![End].state = s]
  /\ wpc' = "closed"
  /\ pc' = [r \in Readers |-> "off"]
  /\ UNCHANGED <<opens, history, seg, next>>

-----------------------------------------------------------------------------
(* A reader.                                                               *)

OpenReader(r) ==
  /\ pc[r] = "off"
  /\ files # <<>> /\ files[1].ready /\ Tail_.ready
  /\ pc' = [pc EXCEPT ![r] = "idle"]
  /\ seg' = [seg EXCEPT ![r] = 1]
  /\ next' = [next EXCEPT ![r] = files[1].first]
  /\ UNCHANGED <<files, wpc, opens, history>>

Goto(r, label) == pc' = [pc EXCEPT ![r] = label]

(* next(): an event below published_offset is returned when its record     *)
(* validates; at the end of the segment the reader looks for another file. *)
ReadEvent(r) ==
  /\ pc[r] = "idle" /\ next[r] <= files[seg[r]].last
  /\ next[r] <= files[seg[r]].valid
  /\ next' = [next EXCEPT ![r] = @ + 1]
  /\ UNCHANGED <<files, wpc, opens, history, pc, seg>>

MeetDamage(r) ==
  /\ pc[r] = "idle" /\ next[r] <= files[seg[r]].last
  /\ next[r] > files[seg[r]].valid
  /\ Goto(r, "Damaged")
  /\ UNCHANGED <<files, wpc, opens, history, seg, next>>

ReachEnd(r) ==
  /\ pc[r] = "idle" /\ next[r] > files[seg[r]].last
  /\ Goto(r, "drained")
  /\ UNCHANGED <<files, wpc, opens, history, seg, next>>

LookForNextAfterClose(r) ==
  /\ pc[r] = "drained"
  /\ Goto(r, IF Exists(seg[r] + 1) /\ files[seg[r]].clean THEN "map" ELSE "idle")
  /\ UNCHANGED <<files, wpc, opens, history, seg, next>>

LookForNext(r) ==
  /\ pc[r] = "drained"
  /\ Goto(r, IF Exists(seg[r] + 1) THEN "map" ELSE "idle")
  /\ UNCHANGED <<files, wpc, opens, history, seg, next>>

MapNextUnchecked(r) ==
  /\ pc[r] = "map"
  /\ IF Exists(seg[r] + 1) /\ files[seg[r] + 1].ready
       THEN seg' = [seg EXCEPT ![r] = @ + 1] /\ Goto(r, "idle")
       ELSE Goto(r, "Dead") /\ UNCHANGED seg
  /\ UNCHANGED <<files, wpc, opens, history, next>>

(* map_segment(): a file that vanished, has no superblock yet or does not  *)
(* begin with the next event ends the reader.                              *)
MapNext(r) ==
  /\ pc[r] = "map"
  /\ IF Exists(seg[r] + 1) /\ files[seg[r] + 1].ready /\ files[seg[r] + 1].first = next[r]
       THEN seg' = [seg EXCEPT ![r] = @ + 1] /\ Goto(r, "idle")
       ELSE Goto(r, "Dead") /\ UNCHANGED seg
  /\ UNCHANGED <<files, wpc, opens, history, next>>

-----------------------------------------------------------------------------
Write == \/ OpenNew \/ OpenExisting \/ OpenFails
         \/ BeginRotate \/ RotateFails \/ InitSegment \/ Switch \/ AbortCreate
         \/ WriteRecord
         \/ \E s \in {"Valid", "Invalid"} : PublishContinuity(s)
         \/ CloseClean

Read(r) == \/ ReadEvent(r)
           \/ MeetDamage(r)
           \/ ReachEnd(r)
           \/ LookForNext(r)
           \/ MapNext(r)

Next == \/ Write
        \/ Crash
        \/ PowerLoss
        \/ \E r \in Readers : OpenReader(r)
        \/ \E r \in Readers : Read(r)

Spec == Init /\ [][Next]_vars

(* A reader polls in a loop; the writer may stop anywhere.                 *)
FairSpec == Spec /\ \A r \in Readers : WF_vars(Read(r))

-----------------------------------------------------------------------------
Ids == 0 .. LastId
Segment == [ready : BOOLEAN, first : 1 .. LastId + 1, last : Ids, valid : Ids,
            durable : Ids, clean : BOOLEAN, state : States]

TypeOK ==
  /\ files \in Seq(Segment)
  /\ wpc \in {"closed", "creating", "idle", "degraded"}
  /\ opens \in 0 .. MaxOpens
  /\ newest \in Ids /\ doomed \in BOOLEAN
  /\ pc \in [Readers -> {"off", "idle", "drained", "map", "Dead", "Damaged", "Lost"}]
  /\ seg \in [Readers -> Nat]
  /\ next \in [Readers -> 0 .. LastId + 1]

(* The segments hold consecutive events, and a segment that was rotated    *)
(* out is on disk to its last event, through crashes and failed rotations  *)
(* (SZERecoverable.cpp:770-792, 562-643).                                  *)
SegmentsChain ==
  \A i \in 1 .. End - 1 : /\ files[i].ready
                          /\ files[i + 1].first = files[i].last + 1
                          /\ files[i].durable = files[i].last

(* A journal in use that does not say Invalid has every event ever         *)
(* appended: whatever a crash or a power loss took is declared             *)
(* (SZERecoverable.cpp:455-472, 794-812).                                  *)
LossIsDeclared ==
  wpc \in {"idle", "degraded"} /\ Tail_.state # "Invalid" => Tail_.last = newest

(* An Invalid journal stays Invalid through rotations, crashes, power      *)
(* losses and reopening: whenever it is in use its last segment says so    *)
(* (SZERecoverable.cpp:455-472, 734-740, 773-790).                         *)
InvalidIsSticky == doomed /\ wpc \in {"idle", "degraded"} => Tail_.state = "Invalid"

(* A reader's next event belongs to the segment it has mapped, or is the   *)
(* next one to be appended after it: no event is passed over or read twice *)
(* at a segment boundary (SZERecoverable.cpp:933-944).                     *)
ReaderInPlace ==
  \A r \in Readers : pc[r] \in {"idle", "drained", "map"} =>
    /\ Exists(seg[r])
    /\ files[seg[r]].first <= next[r] /\ next[r] <= files[seg[r]].last + 1

InJournal(n) == files # <<>> /\ n <= Tail_.last /\ n <= Tail_.valid

(* A reader that is still running gets every event that is in the journal. *)
ReaderCatchesUp ==
  \A r \in Readers, n \in 1 .. LastId :
    pc[r] = "idle" /\ next[r] = n /\ InJournal(n)
      ~> next[r] > n \/ pc[r] \in {"Dead", "Damaged", "Lost", "off"}

(* A reader is never ended by the writer going on to its next segment      *)
(* (test_long_restart_concurrent_capture_and_no_timeout: every answer is   *)
(* an event or WouldBlock).                                                *)
ReaderSurvivesRotation == \A r \in Readers : pc[r] # "Dead"
=============================================================================
