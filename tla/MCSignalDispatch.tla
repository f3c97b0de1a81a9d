------------------------- MODULE MCSignalDispatch --------------------------
EXTENDS SignalDispatch
CONSTANTS c1, c2
MCTimes == 1..3
MCTurnover == [full |-> <<1, 2, 3>>, snapshot |-> <<2, 3, 3>>]

(* One instrument that both sources predict; another that only takes its   *)
(* turn.                                                                   *)
MCPredictions == [full |-> {c1} \X MCTimes,
                  snapshot |-> {<<c1, 1>>, <<c1, 3>>, <<c2, 1>>}]
=============================================================================
