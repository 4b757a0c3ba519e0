-------------------------- MODULE UnsequencedWindow --------------------------
(***************************************************************************)
(* Unsequenced packets: the group counters of the sender (send_packet,     *)
(* next_unsequenced_group) and the receiver's sliding bitmap of recent     *)
(* groups (UnsequencedWindow of channel.rs), which is to drop duplicates   *)
(* and nothing else.  Group numbers are u16 and wrap.                      *)
(*                                                                         *)
(* The network loses (never delivers), duplicates and reorders packets.    *)
(* It is assumed neither to hold a packet until the receiver is HalfMod    *)
(* groups further nor to lose HalfMod consecutive groups (InReach).        *)
(***************************************************************************)
EXTENDS SeqNum, Sequences

CONSTANTS
  Channels,    \* channels unsequenced packets are sent on
  WindowSize,  \* 1024: bits of the window
  MaxSends     \* bound: packets per channel

ASSUME WindowAssumption ==
  /\ WindowSize \in Nat \ {0}
  /\ WindowSize <= HalfMod
  /\ \E m \in 1 .. SeqRange : SeqRange = m * WindowSize
  /\ MaxSends \in Nat

VARIABLES
  outgoing_unsequenced_group,  \* Channel::outgoing_unsequenced_group
  sends,                       \* history: the same counters, not wrapped
  net,                         \* packets sent; each may arrive any number of times
  group,                       \* UnsequencedWindow::group, the high-water mark
  high,                        \* history: the same, not wrapped
  window,                      \* UnsequencedWindow::window, the bits set
  delivered                    \* packets given to deliver, in order

vars == <<outgoing_unsequenced_group, sends, net, group, high, window, delivered>>

Init ==
  /\ outgoing_unsequenced_group = [ch \in Channels |-> 0]
  /\ sends = [ch \in Channels |-> 0]
  /\ net = {} /\ group = 0 /\ high = 0 /\ window = {} /\ delivered = <<>>

\* send_packet, SendMode::Unsequenced.  no is the position of the packet among
\* those of its channel and stands for its payload.
Send(ch) ==
  /\ sends[ch] < MaxSends
  /\ sends' = [sends EXCEPT ![ch] = @ + 1]
  /\ outgoing_unsequenced_group' =
       [outgoing_unsequenced_group EXCEPT ![ch] = WrapAdd(@, 1)]
  /\ net' = net \cup {[ch |-> ch, no |-> sends[ch] + 1,
                       group |-> WrapAdd(outgoing_unsequenced_group[ch], 1)]}
  /\ UNCHANGED <<group, high, window, delivered>>

\* check_and_set reads the distance to the high-water mark as an i16.
Ahead(g)  == seq_lt(group, g)
Behind(g) == WrapSub(group, g)   \* meaningful when the group is not ahead

Bit(g) == g % WindowSize

\* Mutants: every bit is cleared; the bits are left as they are.
Slide_All(g) == {}

Slide_None(g) == window

\* Sliding forward clears the bits that are recycled, all of them when the
\* whole window is passed.
Slide(g) ==
  IF WrapSub(g, group) >= WindowSize THEN {}
  ELSE window \ {Bit(WrapAdd(group, i)) : i \in 1 .. WrapSub(g, group)}

InReach(p) == p.no + HalfMod > high /\ p.no < high + HalfMod

\* check_and_set answers true: the bit is set and the packet delivered.
Accept(p, bits) ==
  /\ Bit(p.group) \notin bits
  /\ window' = bits \cup {Bit(p.group)}
  /\ delivered' = Append(delivered, [ch |-> p.ch, no |-> p.no])

\* check_and_set answers false: the packet is dropped.
Refuse(p, bits) ==
  /\ Bit(p.group) \in bits
  /\ window' = bits
  /\ UNCHANGED delivered

\* on_command, CMD_SEND_UNSEQUENCED, of a packet ahead of the high-water mark.
RecvAhead(p) ==
  /\ InReach(p) /\ Ahead(p.group)
  /\ group' = p.group /\ high' = p.no
  /\ Accept(p, Slide(p.group)) \/ Refuse(p, Slide(p.group))

\* The same, not ahead but within the window.
RecvRecent(p) ==
  /\ InReach(p) /\ ~Ahead(p.group) /\ Behind(p.group) < WindowSize
  /\ Accept(p, window) \/ Refuse(p, window)
  /\ UNCHANGED <<group, high>>

\* The same, too old for the window: dropped without a look at the bits.
RecvOld(p) ==
  /\ InReach(p) /\ ~Ahead(p.group) /\ Behind(p.group) >= WindowSize
  /\ UNCHANGED <<group, high, window, delivered>>

Recv(p) ==
  /\ RecvAhead(p) \/ RecvRecent(p) \/ RecvOld(p)
  /\ UNCHANGED <<outgoing_unsequenced_group, sends, net>>

Next == (\E ch \in Channels : Send(ch)) \/ (\E p \in net : Recv(p))

Spec == Init /\ [][Next]_vars

----------------------------------------------------------------------------
(* Properties.                                                              *)

Packet == [ch : Channels, no : 1 .. MaxSends]

\* Groups stay u16 and the set bits within the bitmap (UnsequencedWindow).
TypeOK ==
  /\ outgoing_unsequenced_group \in [Channels -> SeqNo]
  /\ sends \in [Channels -> 0 .. MaxSends]
  /\ net \subseteq [ch : Channels, no : 1 .. MaxSends, group : SeqNo]
  /\ group \in SeqNo /\ high \in 0 .. MaxSends
  /\ window \subseteq 0 .. (WindowSize - 1)
  /\ delivered \in Seq(Packet)

\* No packet is delivered twice, however often and however late within reach
\* its datagram is repeated, across the wrap-around of the group numbers and
\* the recycling of the bits (check_and_set).
NoDuplicate ==
  \A i, j \in 1 .. Len(delivered) : delivered[i] = delivered[j] => i = j

Delivered(x) == \E i \in 1 .. Len(delivered) : delivered[i] = x

\* channel.rs says of check_and_set that it returns true if the packet with
\* this group is new: no packet within the window that has not been delivered
\* would be dropped if it arrived now.
NewIsAccepted ==
  \A p \in net :
    InReach(p) /\ p.no + WindowSize > high /\ ~Delivered([ch |-> p.ch, no |-> p.no])
      => Bit(p.group) \notin (IF Ahead(p.group) THEN Slide(p.group) ELSE window)

----------------------------------------------------------------------------
(* The inductive invariant behind NoDuplicate: within the window the bits   *)
(* remember every delivered packet.                                         *)

WindowInv ==
  /\ group = Wrap(high)
  /\ \A ch \in Channels : outgoing_unsequenced_group[ch] = Wrap(sends[ch])
  /\ \A p \in net : p.group = Wrap(p.no)
  /\ \A i \in 1 .. Len(delivered) :
       /\ delivered[i].no <= high
       /\ delivered[i].no + WindowSize > high
            => delivered[i].no % WindowSize \in window

UnsequencedInv == WindowInv /\ NoDuplicate
=============================================================================
