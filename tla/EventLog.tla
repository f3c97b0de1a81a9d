------------------------------ MODULE EventLog ------------------------------
(***************************************************************************)
(* What the shared-memory event ring promises its readers, without slots,  *)
(* checksums or program counters: a log that grows by one event at a time  *)
(* and keeps the last Retention events.  A reader takes the events in      *)
(* order, each one exactly as it was appended, and skips ahead only when   *)
(* the event it wants is no longer retained (it then replays the skipped   *)
(* events from the journal).  ShmRing implements this module.              *)
(***************************************************************************)
EXTENDS Integers

CONSTANTS Readers,    \* the consumers attached to the ring
          Retention   \* how many events the ring keeps

VARIABLES latest,     \* id of the newest event of the log, 0 when it is empty
          first,      \* id of the oldest event ever appended, 0 when empty
          next,       \* next[r]: the event reader r takes next
          got         \* got[r]: what r took last, and the event it asked for

vars == <<latest, first, next, got>>

Nothing == [want |-> 0, id |-> 0, body |-> 0]

(* Event n carries the id n and a body that is named by n. *)
Event(n) == [want |-> n, id |-> n, body |-> n]

Init == /\ latest = 0
        /\ first = 0
        /\ next \in [Readers -> Nat \ {0}]
        /\ got = [r \in Readers |-> Nothing]

(* The first event may have any id: after a restart the ring starts empty  *)
(* while the journal already holds events.                                 *)
Append == /\ latest' \in Nat \ {0}
          /\ latest = 0 \/ latest' = latest + 1
          /\ first' = IF latest = 0 THEN latest' ELSE first
          /\ UNCHANGED <<next, got>>

Take(r) == /\ next[r] <= latest
           /\ got' = [got EXCEPT ![r] = Event(next[r])]
           /\ next' = [next EXCEPT ![r] = next[r] + 1]
           /\ UNCHANGED <<latest, first>>

(* Event n is lost to readers: older than the log, or about to be dropped. *)
Lost(n) == n < first \/ n + Retention <= latest + 1

Skip(r) == /\ Lost(next[r])
           /\ \E n \in next[r] + 1 .. latest + 1 :
                next' = [next EXCEPT ![r] = n]
           /\ UNCHANGED <<latest, first, got>>

Next == Append \/ \E r \in Readers : Take(r) \/ Skip(r)

Spec == Init /\ [][Next]_vars
=============================================================================
