---------------------------- MODULE DayDelivery -----------------------------
(***************************************************************************)
(* What the recoverable pipeline promises a strategy, without journal,     *)
(* ring, handoff or processes: a day of events that only grows, whatever   *)
(* crashes; a consumer that hands the strategy each of them once and in    *)
(* order, from the first; an end that is final until the strategy opens a  *)
(* new consumer; and a strategy that begins to trade only with an event it *)
(* is handed.  ReplayHandoff implements this module.                       *)
(***************************************************************************)
EXTENDS Integers, Sequences

VARIABLES captured,  \* how many events the day has, in journal or ring
          phase,     \* the consumer: "closed", "open" or "ended"
          taken,     \* the events the strategy was handed since open()
          trading    \* the strategy's flags say: replayed, valid, live

vars == <<captured, phase, taken, trading>>

Init == /\ captured = 0
        /\ phase = "closed"
        /\ taken = <<>>
        /\ trading = FALSE

Capture == /\ captured' = captured + 1
           /\ UNCHANGED <<phase, taken, trading>>

(* A consumer that finds the feed Invalid ends as it is opened.            *)
Open == /\ phase = "closed"
        /\ phase' \in {"open", "ended"}
        /\ UNCHANGED <<captured, taken, trading>>

(* The next event; once all that was to be replayed is, with trading on.   *)
Take == /\ phase = "open" /\ Len(taken) < captured
        /\ taken' = Append(taken, Len(taken) + 1)
        /\ trading' \in BOOLEAN
        /\ UNCHANGED <<captured, phase>>

(* A strategy whose consumer ended stops to trade, in a step of its own.   *)
StopTrading == /\ phase = "ended" /\ trading' = FALSE
               /\ UNCHANGED <<captured, phase, taken>>

End == /\ phase = "open" /\ phase' = "ended"
       /\ UNCHANGED <<captured, taken, trading>>

Close == /\ phase # "closed" /\ phase' = "closed"
         /\ taken' = <<>> /\ trading' = FALSE
         /\ UNCHANGED captured

Next == Capture \/ Open \/ Take \/ StopTrading \/ End \/ Close

Spec == Init /\ [][Next]_vars
=============================================================================
