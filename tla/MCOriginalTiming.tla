-------------------------- MODULE MCOriginalTiming --------------------------
(* What a host of the C library measures and limits, of which a behaviour   *)
(* shows one part: the timers of a peer, or the flow to its peers.          *)
EXTENDS OriginalTimers, MCOriginalFlow

VARIABLE shown

MCInit ==
    /\ shown \in {"timers", "flow"} /\ Init /\ FlowInit
    /\ shown = "timers" =>
        <<host.in, host.out, budget>> = CHOOSE x \in HostIn \X HostOut \X Budgets : TRUE

MCNext ==
    /\ UNCHANGED shown
    /\ \/ shown = "timers" /\ Next /\ UNCHANGED flowVars
       \/ shown = "flow" /\ FlowNext /\ UNCHANGED vars

MCSpec == MCInit /\ [][MCNext]_<<shown, vars, flowVars>>
=============================================================================
