---------------------------- MODULE ReliableLink ----------------------------
(***************************************************************************)
(* What one direction of a reliable channel promises, without sequence     *)
(* numbers, windows, acknowledgements or timers: packets come out in the   *)
(* order in which they went in, none is skipped or repeated, and a         *)
(* graceful close waits until everything has come out.  A receiver that    *)
(* runs out of room breaks the link.                                       *)
(***************************************************************************)
EXTENDS Integers, Sequences

CONSTANT Packet

VARIABLES
  sent,     \* packets accepted for transmission, in order
  got,      \* packets handed over at the other end, in order
  status    \* "open", "closing" (gracefully), "gone" or "broken"

linkVars == <<sent, got, status>>

Init == sent = <<>> /\ got = <<>> /\ status = "open"

\* Accept one or more packets.
Send ==
  /\ status = "open"
  /\ sent' \in Seq(Packet)
  /\ Len(sent') > Len(sent)
  /\ SubSeq(sent', 1, Len(sent)) = sent
  /\ UNCHANGED <<got, status>>

\* Hand over the next packets; those under way still arrive once it is gone.
Handover ==
  /\ \E k \in (Len(got) + 1) .. Len(sent) : got' = SubSeq(sent, 1, k)
  /\ UNCHANGED <<sent, status>>

\* A graceful close: nothing is under way any more.
Close ==
  /\ status = "open" /\ got = sent
  /\ status' = "closing"
  /\ UNCHANGED <<sent, got>>

\* The sending side forgets the connection, gracefully closed or not.
Vanish ==
  /\ status \in {"open", "closing"}
  /\ status' = "gone"
  /\ UNCHANGED <<sent, got>>

\* The receiving side has no room for a packet under way: none of the promises
\* is kept any longer.
Break ==
  /\ status # "broken" /\ got # sent
  /\ status' = "broken"
  /\ UNCHANGED <<sent, got>>

Broken == status = "broken" /\ status' = "broken"

Next == Send \/ Handover \/ Close \/ Vanish \/ Break \/ Broken

Spec == Init /\ [][Next]_linkVars
=============================================================================
