------------------------ MODULE MCOrderAccounting --------------------------
EXTENDS OrderAccounting

Day(t, l, n, again, asks) ==
  [threaded |-> t, total |-> 2, available |-> 2, limits |-> <<2>>, lots |-> l,
   orders |-> n, resends |-> again, queries |-> asks]

(* Two orders of two lots on a quiet day that begins above the static      *)
(* position and whose limit falls; two of one lot on one that begins below *)
(* the limit; two orders of one lot with one kind of trouble at a time     *)
(* (and one lot that may be sold on the day with a position query);        *)
(* one order of two lots with all of it.                                   *)
MCDays == {[Day(FALSE, 2, 2, 0, 0) EXCEPT !.total = 3, !.limits = <<2, 1>>],
           [Day(FALSE, 1, 2, 0, 0) EXCEPT !.total = 0, !.limits = <<1>>],
           Day(FALSE, 1, 2, 1, 0),
           [Day(FALSE, 1, 2, 0, 1) EXCEPT !.available = 1],
           Day(TRUE, 1, 2, 0, 0), Day(TRUE, 2, 1, 1, 1)}

(* Three orders of one lot, with signals on the poll thread.               *)
ThreadedDay == {Day(TRUE, 1, 3, 0, 0)}
=============================================================================
