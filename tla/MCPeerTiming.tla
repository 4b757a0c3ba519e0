---------------------------- MODULE MCPeerTiming ----------------------------
(* The two clocks of a peer, of which a behaviour shows one: retransmission *)
(* to a peer that acknowledges nothing, or the round trips of one that does.*)
EXTENDS RttEstimator, RetransmitTimer

VARIABLE shown

MCInit ==
  /\ shown \in {"timer", "rtt"} /\ TimerInit /\ Init
  /\ shown = "rtt" => <<clock, first>> = CHOOSE x \in Starts \X Timeouts : TRUE

MCNext ==
  /\ UNCHANGED shown
  /\ \/ shown = "timer" /\ TimerNext /\ UNCHANGED vars
     \/ shown = "rtt" /\ Next /\ UNCHANGED timerVars

MCSpec == MCInit /\ [][MCNext]_<<shown, vars, timerVars>>
=============================================================================
