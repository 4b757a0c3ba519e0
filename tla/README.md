# enet-rs: a TLA+ model, checked and partly proved

The repository holds two implementations of the ENet protocol: the Rust crate
(`src/src`) and the original C library (`src/original`), the other end in the
interoperability test. Both are modelled, each from its own source; modules of
the C library begin with `Original`.

enet-rs is an asynchronous Rust implementation of the ENet protocol: reliable,
unreliable and unsequenced packets over UDP, on up to 255 channels per
connection. One task per host (`HostTask::run` in `src/src/task.rs`) owns all
protocol state and alternates between three sources of events: a datagram from
the socket, a request of the application, and a ticker of 20 ms. The handlers
do not run concurrently inside a host, so an action of a module is a whole
handler; concurrency is between hosts, the network and the applications.

The C library has no thread of its own: everything happens inside a call of the
application, mostly `enet_host_service`, which dispatches events, divides the
bandwidth, sends, receives and sends again. An action is one of these steps for
one command, or a whole call of the application.

## The system

| Part | State | Operations | Talks to |
|---|---|---|---|
| Reliable channel (`channel.rs`, `task.rs`) | counters, `outgoing_reliable`, `pending_send`, `incoming_queue` | `send_packet`, `make_reliable`, `on_ack`, `receive_reliable`, `deliver`, `service_one` | peer host by commands and ACKs, application by a queue of 256 |
| Connection lifecycle (`task.rs`, `lib.rs`, `peer.rs`) | `peers`, `addr_map`, accept channel, the `Peer`s applications hold | `begin_connect`, `on_connect`, `on_verify_connect`, `on_ack`, `send_disconnect`, `remove_peer`, `service_one`, `accept`, drop | every other part, whose state lives in the entry |
| Fragments (`channel.rs`, `task.rs`) | `fragment_buffers`, `fragment_bytes_in_flight` | `send_packet`, `on_fragment`, `FragmentBuffer::receive` | the reliable and unreliable order of the channel |
| Unsequenced (`channel.rs`) | `outgoing_unsequenced_group`, `UnsequencedWindow` | `check_and_set` | application |
| Retransmission timer (`task.rs`) | `OutstandingReliable` | `service_one` | removes the peer |
| Round trip and throttle (`task.rs`) | `rtt`, `rtt_var`, `packet_throttle` | `on_ack`, `update_rtt` | send window, initial timeout |
| Flow control (`task.rs`) | `window_size`, throttle parameters | `on_connect`, `on_verify_connect`, `bandwidth_throttle`, `CMD_BANDWIDTH_LIMIT`, `CMD_THROTTLE_CONFIGURE` | send window |
| Application interface (`lib.rs`, `peer.rs`) | request queue of 1024, `PeerSender`, `PeerReceiver` | `send_packet`, `recv`, `disconnect`, drop, Sink and Stream | host task |
| Batching (`task.rs`) | none | `flush_batch`, `emit_by_key`, `parse_commands` | socket |
| Wire format (`protocol.rs`) | none | parse and write | |

The C library:

| Part | State | Operations | Talks to |
|---|---|---|---|
| Channels (`peer.c`, `protocol.c`) | `ENetChannel`, outgoing, sent, incoming and dispatched queues, `totalWaitingData` | `enet_peer_send`, `enet_peer_receive`, `check_outgoing_commands`, `queue_incoming_command`, `dispatch_incoming_*`, `queue_acknowledgement` | other host, application by RECEIVE events |
| Connections (`protocol.c`, `peer.c`, `host.c`) | `ENetPeer.state`, sessions, `dispatchQueue`, `connectedPeers`, `bandwidthLimitedPeers` | `enet_host_connect`, `enet_peer_disconnect*`, `enet_peer_reset`, `handle_connect`, `handle_verify_connect`, `handle_disconnect`, `notify_*`, `dispatch_incoming_commands` | every other part |
| Timeouts and pings (`protocol.c`, `time.h`) | `nextTimeout`, `earliestTimeout`, `lastReceiveTime`, `sentTime`, `roundTripTimeout` | `check_timeouts`, `send_outgoing_commands`, `handle_acknowledge` | ends the connection |
| Bandwidth and throttle (`host.c`, `peer.c`) | windows, bandwidths, `packetThrottle*`, round-trip estimates | `enet_host_bandwidth_limit`, `enet_host_bandwidth_throttle`, `enet_peer_throttle` | what channels may send |
| Range coder, sockets, lists, packets | | `compress.c`, `unix.c`, `win32.c`, `list.c`, `packet.c` | |

What is hard here: 16-bit numbers and a 32-bit clock that wrap; datagrams that
are lost, repeated, overtaken or left over from an earlier connection; queues
that are full at the wrong moment; acknowledgements that are sent before the
work is done; slots, addresses and handles that are reused; requests to close
that race with data. PROJECT.json lists these hazards with their lines and the
properties aimed at them.

## Modules

| Module | Models | Runs | Theorems in |
|---|---|---|---|
| `SeqNum` | wrapping numbers, `seq_lt` | | `SeqNumProofs`, with the facts about remainders that the other proofs use |
| `ReliableChannel` | one direction of a connection | Channel* | `ReliableChannelProofs` |
| `ReliableLink` | abstract: packets are released in order, once | ChannelWrap | `ReliableChannelProofs` |
| `HostPeers` | hosts, slots, handshake, disconnect | Host* | `HostPeersProofs` |
| `FragmentReassembly` | fragmented and whole messages of a channel | Fragment* | `FragmentProofs` |
| `UnsequencedWindow` | groups and the window of recent ones | Unsequenced* | `WindowProofs` |
| `RetransmitTimer` | one outstanding command and the clock | PeerTiming, TimerHardLimit | `TimingProofs` |
| `RttEstimator` | samples, estimates, throttle | PeerTiming | `TimingProofs` |
| `FlowControl` | windows and bandwidth limits | Flow* | |
| `OriginalChannel` | C: one channel, data one way | OriginalChannel, OriginalStall | `WindowProofs` |
| `OriginalPeers` | C: connections of several hosts, events | OriginalPeers, OriginalQueue, OriginalBothDial, OriginalPromises | `OriginalPeersProofs` |
| `OriginalTimers` | C: clock, retransmission, pings | OriginalTiming, OriginalStarved | `OriginalTimingProofs` |
| `OriginalFlow` | C: windows, bandwidth, throttle | OriginalTiming, OriginalLimits, OriginalOverflow, OriginalThrottle | `OriginalTimingProofs` |
| `MC...` | the bounds, plans and hosts of the runs of the module named; `MCPeerTiming` and `MCOriginalTiming` show in each behaviour one of two modules that share no state | | |

Variables and actions carry the names of fields and handlers. A definition
called `X_Something` is a deliberately wrong variant of `X` used to make sure
that a property would notice the mistake; nothing else uses it.

**ReliableChannel.** A sender and a receiver, data one way, ACKs the other.
`UserSend` is `send_packet` (window, `pending_send`, transmission), `Service*`
the branches of `service_one`, `RecvReliable`, `RecvPing` and `RecvDisconnect`
the arrivals in `on_command`. Every command has an index `idx` that never wraps
besides its wrapped number, so that properties can speak about identity. The
network keeps what was sent; it may deliver it any number of times or lose it.
A datagram does not survive until half of the number range has been sent after
it (`Fresh`): without a limit on the life of a datagram no 16-bit numbering is
sound. What a timer decides is a choice at every tick; which choices the timer
really has is the subject of RetransmitTimer. `refused` records the packets that
found the reorder queue full: they are acknowledged all the same and never come
again. The queue of the code (4096) is smaller than its window (32768), so this
happens, and every promise of the channel is one until it happens.

**HostPeers.** A server with slots, clients with fixed addresses that may
connect again. Datagrams stay in `net` once sent, so one from an earlier
connection may arrive at any later time. The reliable commands are those of the
connection channel: CONNECT, VERIFY_CONNECT, PING, DISCONNECT. The host of a
client ends as soon as its `Peer` is dropped (`run` breaks when the request
channel closes), so it retransmits nothing. When the server drops a `Peer` the
handle is gone at once; `try_send` leaves a request in `requests`, which the task
takes at any later time (`TakeRequest`), or loses it at a full channel (`lost`).
A Connected slot whose request was lost is held by nobody. Of a client a lost
request shows as a DISCONNECT that is never received, since its task ends.
`PeerSender::disconnect` keeps the handle and can be called at any time, so its
request is taken at once.

**FragmentReassembly.** Messages of one, two or three fragments, reliable and
unreliable, with the reassembly buffers, their count and byte budget, the order
checks of both kinds and the epoch check of unreliable messages. `Mixes` says how
long messages of either kind are; in the run both are fragmented. Numbers do not
wrap here: ReliableChannel covers that. An unreliable packet that the throttle
drops is a lost one.

**UnsequencedWindow.** `check_and_set` by its branches (ahead, recent, old).
`InReach` limits the life of a datagram as `Fresh` does.

**RetransmitTimer, RttEstimator.** The arithmetic that the other modules leave
out, with the clock reduced modulo its width.

**FlowControl.** A server, clients of this crate (which offer the largest
window and no limit) and clients of other implementations, which announce what
they like.

**OriginalChannel.** The application follows a plan of reliable, unreliable,
unsequenced and fragmented packets; `PeerSend` is `enet_peer_send` with
`setup_outgoing_command`. `CheckOutgoing` is `check_outgoing_commands`:
`WindowWrap` and `Take` are its two tests and its accounting, `Throttled` what
the throttle drops with a packet's first fragment (which packets is a choice
here; OriginalFlow has the counter). `Receive` is the handler of a command and
then the acknowledgement, in the code's order, so a handler that fails
acknowledges nothing. `QueueIncoming`, `WalkReliable` and `WalkUnreliable` keep
the two sorted queues, the release of one by the other and the discarding of
what was left behind. Packet sizes are counted in fragments.

**OriginalPeers.** All ten states of a peer. A command keeps the header of its
datagram (peer ID, session); commands that were sent stay in `net`, so any may
arrive late or again, and a retransmission adds nothing. `event` tells whether
the application passed an event structure: if not, what happened waits in the
dispatch queue. `told` is what the application knows, for the properties.
Inserting a peer that is already in the queue sets `broken`, after which the
host does nothing: in the code its list has lost its end. The functions on a
host `H` and a slot `i` are the static functions of `protocol.c` and `peer.c`.
The commands that a peer has to send and those that it has sent are sets, since
the network reorders them anyway; the loops of the code over all peers
(`SendAll`, `TellAll`) are recursive functions of the slot.

**OriginalTimers.** `Service` is the part of `send_outgoing_commands` that looks
at the clock. The time since the connection was made is kept besides the
wrapping one, and every command remembers the true time of its first and of its
latest transmission, for the properties. Any transmission may be acknowledged
at any later time.

**OriginalFlow.** One host and its peers, which announce any bandwidths.
Products are reduced modulo `Word` as 32-bit ones are. The loops of
`enet_host_bandwidth_throttle` over the peers (`LimitPass`, `GrantPass`), and
their repetition, are recursive functions of the slot and of the pass. `hist` and `told` record
the round trips and what peers were told, for the properties. The states
CONNECTION_PENDING and CONNECTION_SUCCEEDED, in which a peer waits for its event
to be fetched, are CONNECTED here; OriginalPeers tells them apart.

## Runs

Passing runs, with what they rule out:

| Run | Properties | Bounds and why they are enough |
|---|---|---|
| ChannelWrap | `InOrder`, `AckedIsReceived`, `ImplementsLink` | range 6, window 3, 7 packets, reorder queue of 1: the numbers wrap with a full window under way, and the queue is smaller than the window, as in the code, so it does refuse packets |
| ChannelClose | `GracefulDisconnect`, `UserOrder`, `EventuallyReleased`, `DisconnectCompletes` | 2 packets, a ping, windows 0 and 2, one place pending, 2 attempts, losses everywhere: a close meets outstanding, pending and control commands. Numbers do not wrap here; `GracefulDisconnect` is about transmitted packets, pending ones are lost (`PendingIsSent`) |
| HostTwoClients | `SlotsConsistent` (`TypeOK`, `AddrMapConsistent`, `ConnectedIsOwned`), `SessionAgreement`, `ClosingIsFinal`, `HalfOpenEnds`, `DeadPeerFreed` | two connection attempts, by two clients or twice by one, of which the server may drop the first `Peer`; or one with retransmissions, two pings and a repeated CONNECT; two slots, accept channel of one. `SessionAgreement` finds a mix-up of sessions, not that every new slot uses the same ones (HostStale) |
| Fragments | `Intact`, `ReliablePrefix`, `BuffersExact` (`TypeOK`, `BudgetExact`), `UnreliableInTurn` (`UnreliableOrder`, `EpochRespected`) | three messages, reliable ones of up to three fragments beside unreliable ones of up to two, or whole reliable ones beside unreliable ones of up to three; two buffers and five bytes, so that count and budget both refuse. Until two fragmented messages have the same first number (`NoClash`), which the run reaches. `ReliablePrefix` is about what is released; that a message may stall the channel is `NoStall` (FragmentRepeats) |
| UnsequencedWrap | `NoDuplicate`, `NewIsAccepted` | range 8, ring of 4, 10 packets: ring and range both wrap |
| PeerTiming | `FoundOut`, `RttBounded`, `SampleExact` | starts just before the clock wraps; both ways to give up are reached; low part 16, clock 32: carries and a wrap of the whole clock |
| FlowBounds | `HonoursServerLimit` | a client of this crate and two others, bandwidths on both sides of every clamp, limits and handshakes in every order |
| OriginalChannel | `DispatchOrder` (`SequencedOrder`, `ReliableNoGap`, `UnsequencedOnce`), `ReceiverExact` (`ChannelTypeOK`, `AckedIsKept`, `WaitingExact`, `QueuesSorted`), `WindowsKept` (`WindowsExact`, `SpanBounded`), `LaterAfterData`, `NoStall` | 6 windows of 2 numbers, started at number 9 of 12 and group 6 of 8 so that all numbers wrap; five plans: seven reliable packets (enough for the window check to block and reopen), and four of mixed kinds and fragments; one retransmission of any set of commands |
| OriginalPeers | `CountsAgree` (`TypeOK`, `CountersExact`), `EventsComplete` (`EventsMatch`, `AwaitsDispatch`), `NoLimbo`, `SessionsApart` (`SessionsAgree`, `NoCrossTalk`), `AttemptsEnd` | a client and a server of one slot, two calls of the application. Either two accepted CONNECTs: connect twice, or once with data, a ping or a new limit, serviced with and without events. Or five accepted CONNECTs, which late and repeated ones make possible: sessions come round. `SessionsApart` asks for `NoCrossTalk` up to the fourth, and for `SessionsAgree` always |
| OriginalTiming | `TimersExact` (`TypeOK`, `NextTimeoutExact`), `EchoExact`, `SilenceEnds`, `NotTooEarly` | clock of 64 started at 58, digits of 8: both wrap; two commands, three timeouts of each, given up in both ways. A command is given up within the maximum timeout and the longest single one, at most three times the maximum, because only the timeout of the first command of the list is looked at; a command sent when the clock shows 0 is exempt, as 0 stands for no earliest timeout (protocol.c:1375). An echo older than half the range of the digits may be read as recent: `EchoExact` only bounds it |
| OriginalTiming | `ShareKept`, `NoNeedlessLimit`, `LimitsFit` (`GrantsFit`, `WindowFits`), `ThrottleExact` (`FlowTypeOK`, `RttWithin`, `DropShare`) | two peers and three calls, or one peer and five round trips; bandwidths on both sides of each other and unlimited; periods of one second and longer. `Word` is 32, so that of the products of a bandwidth and a period (up to 33) some wrap. `LimitsFit` counts a peer told 0 as 0 and looks at the limits of the peer, not at a changed bandwidth of the host (`OnlyLimits`, `OwnWindowFits`) |

The names in parentheses are the parts of a conjunction. The type invariants of
ReliableChannel, UnsequencedWindow, RetransmitTimer and RttEstimator, and
`UnsequencedInv`, `TimerInv` and `NotTooEarly` of RetransmitTimer, hold in these
runs too and are not listed there because they are proved.

The type invariant of FlowControl holds in FlowBounds too. The invariants of
OriginalPeers also hold for a server of two slots with three accepted CONNECTs
(`Slots <- ClientServer`).

Several properties hold up to a point that the code does reach: until the reorder
queue refuses a packet, until two fragmented messages have the same first number,
until sessions come round, in a period in which no product wraps. The runs go
past these points, and what fails there is a property of its own in the table
below. `ShareKept` and `DropShare` allow one packet of 32 more than the throttle
says, because the counter is compared with `>` (protocol.c:1529).

Most of these runs stop when their bounds are used up, so deadlock is not
checked there: a connection may end and nothing remain to be done.

Disagreements between the code and what its comments or documents say. Two of
them, OriginalQueue and FragmentMixed, are runs of PROJECT.json with findings
that quote the lines; the others are kept as configurations (Channel: module
ReliableChannel, Host: MCHostPeers, Fragment: MCFragmentReassembly, Unsequenced:
UnsequencedWindow, Timer: RetransmitTimer, Flow: FlowControl, Original: as
named), and TLC finds every property they list violated:
`tlc -config ChannelPromises.cfg ReliableChannel`. Where a configuration lists
several, TLC stops at the first it meets; `-continue` goes on to the others.

| Configuration | Property | What the code does | What is said |
|---|---|---|---|
| ChannelPromises | `SubmissionOrder` | a new packet overtakes older ones in `pending_send` (task.rs:1107) | lib.rs:68 "Reliable, ordered delivery (retransmitted until ACKed)." |
| ChannelPromises | `PendingIsSent` | a graceful disconnect drops `pending_send` (task.rs:1324) | task.rs:82 "draining the reliable-send queue before sending CMD_DISCONNECT." |
| ChannelPromises | `NothingDropped` | an acknowledged packet is dropped at a full application queue (task.rs:791) | lib.rs:68, as above |
| ChannelQueueFull | `NothingRefused` | a packet is acknowledged and dropped when the reorder queue (4096) is full, although the window admits 32768 (channel.rs:145) | protocol.md:269 "up to 8 × 4096 = 32 768 sequence numbers of unacknowledged data may be in flight per channel at once" |
| HostStale | `StaleDisconnectHarmless` | a DISCONNECT of the previous connection ends the new one | task.rs:559-560 "That stale CMD_DISCONNECT must not kill the newly-created peer." |
| HostStale | `BothSidesConnected` | an ACK of the previous VERIFY_CONNECT completes the new handshake (task.rs:1038) | protocol.md:253-254 "Client sends ACK for VERIFY_CONNECT." "Both sides are now CONNECTED." |
| HostDuplicateConnect | `NoneMeansTimeout` | a repeated CONNECT ends the connection it opened (task.rs:805) | peer.rs:177 "Returns `Err(Error::Disconnected(None))` on connection timeout." |
| HostHandles | `HandleActsOnItsPeer` | a `Peer` of a past connection closes the present one | task.rs:1318-1320, which ignores it during the handshake only |
| HostHandles | `DropDisconnects` | the request of a dropped `Peer` is lost at a full channel, and its Connected slot can no longer be closed by anyone (peer.rs:39) | peer.rs:37-38 "Best-effort graceful disconnect when the sending half is dropped without an explicit call to `disconnect()`. Silently ignored if the task is gone." |
| FragmentMixed | `DeliveredWhole` | fragments of a reliable and of an unreliable message with the same first number share a buffer (task.rs:733), and a mixture is delivered | protocol.md:324 "delivery occurs when all `fragmentCount` fragments have arrived", channel.rs:91 "Reliable fragment reassembly: start_seq -> buffer" |
| FragmentEpochSkipped | `EveryEpochRespected` | fragmented unreliable messages evade the epoch check | task.rs:772 "Apply the same sequence ordering check as non-fragmented unreliable packets." |
| FragmentRepeats | `NoStall` | a message assembled ahead of a gap stalls the channel (task.rs:757) | task.rs:754 "Advance frag_count-1 more so the next expected seq is start_seq+frag_count," |
| FragmentRepeats | `BuffersInProgress` | a repeated fragment opens a buffer that never closes (task.rs:733) | task.rs:136 "Total bytes currently committed to in-progress fragment reassembly buffers." |
| UnsequencedTwoChannels | `NewIsAccepted` | groups are counted per channel, the window is kept per peer (task.rs:1256) | channel.rs:184 "Returns true if the packet with this group is new (not a duplicate)." |
| TimerHardLimit | `HardLimit` | the maximum timeout is exceeded by up to a doubled interval (task.rs:1442) | task.rs:1444-1445 "resetting sent_time on retransmit doesn't prevent 30 s max timeout." |
| FlowBudget | `WithinBudget` | the smallest windows add up to more than the bandwidth (task.rs:1398) | task.rs:1369-1370 "the sum of all peer windows does not exceed the host's `outgoing_bandwidth`" |
| FlowPromises | `PeerLimitHonoured` | `bandwidth_throttle` overrides the limit a peer announced (task.rs:1401) | task.rs:1407 "incoming_bandwidth tells the peer how fast it may send to us." |
| FlowPromises | `VerifyAsDocumented` | the window of VERIFY_CONNECT also depends on the peer window (task.rs:855) | protocol.md:351 "min(serverWindow, client's requested windowSize)" |
| FlowPromises | `ThrottleClamped` | throttle parameters of the handshake are not clamped (task.rs:872) | task.rs:666 "Clamp acceleration/deceleration to the throttle scale range." |
| OriginalQueue (MCOriginalPeers) | `QueueIntact` | `enet_peer_reset` clears the flags (peer.c:434) before it looks whether the peer is queued (peer.c:323): it stays in `dispatchQueue`, is inserted again later and becomes its own successor; `dispatch_incoming_commands` then never returns | protocol.c:1761 "Checks for any queued events on the host and dispatches one if available.", protocol.c:1766 "@retval 0 if no events are available" |
| OriginalBothDial (MCOriginalPeers) | `NoLimbo` | when both hosts dial each other, a late acknowledgement of number 1 from the earlier connection removes a CONNECT that was not received: the peer stays CONNECTING without a command that could be given up | docs/tutorial.dox:321-323 "If the connection attempt times out or otherwise fails, an event of type ENET_EVENT_TYPE_DISCONNECT will be generated." |
| OriginalStall (MCOriginalChannel) | `NoStall` | packets ahead of a gap fill `maximumWaitingData`; the missing one is refused, again at every retransmission (peer.c:959) | include/enet/enet.h:396 "the maximum aggregate amount of buffer space a peer may use waiting for packets to be delivered" |
| OriginalStarved (OriginalTimers) | `UnackedEnds` | any acknowledgement resets `earliestTimeout` (protocol.c:916), so a command that is never acknowledged among others that are never ends the connection | peer.c:484-486 "if reliable packets have been sent but not acknowledged for a certain maximum time period, the peer will be disconnected regardless of the current timeout limit value." |
| OriginalLimits (MCOriginalFlow) | `OnlyLimits` | a peer that announced no outgoing limit is told an incoming bandwidth of 0, no limit (host.c:494) | host.c:23-24 "to ensure the host's bandwidth is not overwhelmed" |
| OriginalLimits (MCOriginalFlow) | `OwnWindowFits` | `enet_host_bandwidth_limit` leaves the windows of connected peers as they are (host.c:334) | host.c:24-26 "The bandwidth parameters also determine the window size of a connection", host.c:327-328 "identical in function" |
| OriginalOverflow (MCOriginalFlow) | `NeverNeedless` | `outgoingBandwidth * elapsedTime` wraps above 4.29 MB/s (host.c:363) and the throttle drops what would fit | host.c:23-24, as above |
| OriginalThrottle (MCOriginalFlow) | `SteadyKeeps` | rounding keeps the mean below round trips that are all alike, and they lower the throttle | peer.c:25-27 "significantly greater than the mean round trip time" |
| OriginalThrottle (MCOriginalFlow) | `ZeroDropsAll` | at a throttle of 0 the packet passes for which the counter is 0, one of 32 (protocol.c:1529) | peer.c:30-32 "When the throttle has a value of 0, all unreliable packets are dropped by ENet" |
| OriginalPromises (MCOriginalPeers) | `DisconnectTold` | `enet_peer_disconnect` of a peer that is not connected yet resets it, and no event follows (peer.c:570-574) | peer.c:537-538 "An ENET_EVENT_DISCONNECT event will be generated by enet_host_service() once the disconnection is complete." |

One limit is in no document: OriginalPromises.cfg (MCOriginalPeers) violates
`NoCrossTalk`. Sessions have two bits, so with the fifth connection of a slot a
command that is left over from the first is taken for one of the fifth
(protocol.c:352-362).

## Fairness

Only what the ticker of `run` does is assumed to happen: every 20 ms
`service_all` visits every slot and `bandwidth_throttle`. It retransmits what
is due, gives up what is overdue, pings and finishes disconnects. Nothing is
assumed of the network, of a client or of an application, so liveness means:
delivered, or given up.

In HostPeers the bound on pings does not apply to an entry whose client is
gone, because otherwise the bound itself would keep the dead peer from being
noticed. A due command and an overdue one are both possible at each tick, and
weak fairness of the tick is enough because attempts are bounded.

In OriginalPeers both applications keep calling `enet_host_service` and fetch
their events, so a host with something to send sends it and a dispatch queue is
emptied; and a command that stays unacknowledged is given up, which is
`check_timeouts` with its doubled timeouts (SilenceEnds of OriginalTimers bounds
the time). No arrival is assumed. `AttemptsEnd` allows for a host whose queue is
broken, which is the finding above.

## Proofs

All theorems hold for every value of the constants that satisfies the named
assumptions.

**ReliableChannel** (`ReliableChannelProofs`). `TypeCorrect` is `Spec => []TypeOK`.
`InOrder` is not inductive: a command under way is only harmless if its index
is tied to the sender's and the receiver's counters. `IndInv` therefore adds

- `CountersInv`: the counters are the lengths of the histories, reduced;
- `OutstandingInv`: what is outstanding lies within the window, and what is
  not outstanding has been acknowledged;
- `NetInv`, `AcksInv`: whatever is under way is something sent, not older than
  half a range, and an ACK under way is true;
- `QueueInv`: the queue of the receiver holds only packets ahead of the gap;
- `ClosingInv`: DISCONNECT is sent only when no data is outstanding.

The heart of it is that two indices less than half a range apart are ordered by
`seq_lt` on their numbers exactly as they are themselves (`SeqNumProofs`).
All are theorems for every size of queue and window, and speak of the time until
the queue refuses a packet (`refused = {}`): `IndUntilRefused` is `IndInv` under
that condition, which no step restores once it is lost. `InductiveInvariant`,
`ReliableInOrder`, `NoFalseAck`, `UserReadsInOrder` and `DisconnectAfterData`
follow. With the code's sizes this is no restriction for a window of at most 4097
numbers, for then the queue has room for all that can be ahead of a gap; for
larger ones ChannelQueueFull shows what happens afterwards. `UserReadsInOrder`
needs besides `IndInv` that what the application has read or has waiting is
increasing, was all released, and holds no disconnect event while the receiver
has the connection (`SeenInv`). `ChannelImplementsLink` (at the end of
`ReliableChannelProofs`) maps every step to a step of `ReliableLink` or a
stutter; a refusal is the step that breaks the link.

**HostPeers** (`HostPeersProofs`). No property of the slots is inductive alone:
a datagram of an earlier connection can do anything unless it is tied to what
the hosts did when they sent it. `IndInv` has six parts:

- `Tables`: the slots have their types, slots and address map describe each
  other, and an entry of the server is what `on_connect` makes of it, one of a
  client what `begin_connect` and `on_verify_connect` do: the two ends never take
  each other's part;
- `Books`: the accept channel, the handles, the requests of dropped `Peer`s and
  the counters stay within their types and bounds;
- `ConnectedIsOwned`, which is a part of the property itself: the `Peer` of a
  Connected slot is held, waits to be accepted, has left a request, or its
  request was lost;
- `ClientsIdle`: a client that does not run has no entry and no handle;
- `NetOK`: a CONNECT goes to the server and a VERIFY_CONNECT to a client, with a
  slot of the server and the sessions that `on_connect` chooses;
- `OneDialer`: an attempt that a datagram or an entry knows was made by one
  client, so a connect_id names one connection.

`SlotsStayConsistent` and `SessionsAgree` are consequences; `ClosingStaysFinal`
goes through the handlers once more, with `IndInv` as the fact about the state
before. Nothing is assumed of the numbers of clients, slots and attempts.

**FragmentReassembly** (`FragmentProofs`). `IndInv` says what the numbers of
messages are (`Numbered`: they follow each other without a hole), that what is
under way was sent (`Carried`), that the queue of the receiver holds messages
ahead of the gap (`Queued`), that a buffer holds pieces of one message in their
places and is paid for (`Buffered`), that what was delivered is whole and is all
that was sent before the number expected next (`Passed`), and what was the
latest unreliable message (`Latest`). Nothing is assumed of what the application
sends. A buffer holds pieces of one message only as long as no two fragmented
messages have the same first number (`NoClash`), since both kinds share the table
(FragmentMixed); so the theorems are `Spec => []P` with `P` under `NoClash`, and
`IndUntilClash` is inductive because a clash stays. `UnreliableStaysInTurn` is
about the epoch of messages that were sent whole: fragmented ones evade the
check (FragmentEpochSkipped).

The run that `receive_reliable` drains from the queue is described by its least
missing number, so no induction over the queue is needed.

**UnsequencedWindow** (`WindowProofs`). `NoDuplicates`: a bit that was set
for an accepted group stays set until the mark is a whole ring further.
`NothingNewDropped`: with a single channel every bit within the ring stands for
an accepted packet. For two channels the statement is false
(UnsequencedTwoChannels.cfg).

**OriginalChannel** (`WindowProofs`). `WindowsStayKept`: the reliable windows of
the sender are exact and never span more than the receiver accepts, for every
number and size of the windows with `ConstantsAssumption` (twice as many windows
as are kept free, as in `enet.h`) and any plans. The invariant
`SenderInv` describes the queue of waiting commands by a frontier: its first `k`
commands were sent before and timed out, the others are new and have consecutive
numbers up to the last one given. No window in use lies further behind the
window of the frontier than `FREE_RELIABLE_WINDOWS - 2`. The check at
`protocol.c:1457` is made only when the frontier enters a window, so the proof
shows that entering the next window with `WindowWrap` false keeps the distance,
and that a timeout, which puts commands back in front of the frontier, and an
acknowledgement, of a command under way or of one that waits again, do not move
it. `TakeAll` and `Pick` walk a queue of any length; their proofs need an
induction, which `Induct` derives from the least element of a set of numbers.

**RetransmitTimer** (`TimingProofs`). `TimeoutWindow`: `TimerInv` ties
the wrapping times to true ages and bounds the doubled timeout by the age
reached, so the peer is given up within twice the maximum timeout plus the
first timeout and a tick, and never before the minimum. It
needs `TimerAssumption`: the clock does not wrap within the longest time looked
at.

**RttEstimator** (`TimingProofs`). `RoundTrip`: the sent time completed from its
low half is the true one or lies in the future. `EstimatesBounded`: the estimates
stay below the range of the low half, the throttle on its scale.

**OriginalTimers** (`OriginalTimingProofs`). `EchoesExact`: the invariant
`EchoInv` says of every transmission that its digits are those of the wrapped
time at which it was made. The rest is arithmetic of two clocks, one a multiple
of the other: `Between` (the smaller clock measures the time between two times
modulo its range), `Halves` (which cases the comparison of the upper bits tells
apart) and `ReadBack` (what `SentTime` and the macros of `time.h` make of it).
It needs `TimeAssumption` only: the range of the digits is even and divides that
of the clock, and ENET_TIME_OVERFLOW leaves at least one such range on either
side.

`TimersInvariant` is about the list of sent commands. Its parts are

- `Types`: what was sent has a timeout, and its `sentTime` is what the clock
  showed at the true time of its latest transmission;
- `Listed`: the list is in the order of sending, and `nextTimeout` is that of
  its head;
- `EarlyInv`: `earliestTimeout` is not before the first transmission of some
  command that is still unacknowledged;
- `SilenceInv`: no timeout exceeds the longest one and no command waits longer
  than that (`Rescanned`: the head's timeout bounds when the whole list is looked
  at); a command sent twice since the last acknowledgement has set
  `earliestTimeout`, less than the maximum timeout before (`Counted`); and
  `earliestTimeout` was looked at when some command was sent again (`Looked`).

The walk of `check_timeouts` is a recursive function over the list; what it keeps
(`WalkInv`, `WalkSilent`) is shown for all lengths by looking at the least
position at which it would fail, which needs a least element of a set of
naturals and no induction rule. From the invariant follow

- `TimersStayExact`, without further hypotheses;
- `SilenceIsNoticed`, under `ClockFits`: maximum timeout, longest single timeout
  and one step of the service are together less than what the macros of `time.h`
  take for a wrap (24 hours; the defaults are 30 seconds);
- `NotGivenUpEarly`, under `MinimumFits`: the minimum timeout is not more than
  the maximum, nor more than the clock tells. `enet_peer_timeout` does not check
  this; with a minimum above the maximum the maximum decides.

**OriginalFlow** (`OriginalTimingProofs`). `FlowInvariant`: `FlowInv` says of
every peer

- `Handshake`: before it is connected nothing was announced to it, and the
  data of the period is at most one command, so that the handshake fits in
  `MaxTotal`;
- `WindowOf`: its window is not above what the bandwidth it announced allows.
  The dialer's window is bounded by the answer to its CONNECT (`AnswerFits`), the
  other by the lower of two bandwidths (`SharedFits`);
- `Trips`: among the round trips measured are a shortest and a longest that
  enclose the mean. The truncated steps of the mean and the variance never
  overshoot (`Averages`);
- its fields are typed and its throttle is not above its limit,

and of the host that `GrantsFit` holds. The hard part is that the announced
bandwidths add up to no more than the host has (`GrantsAddUp`), after passes
that each recompute the share. The loop invariant `Granting` is about the
assignment that would result if the loop stopped and gave *any* amount `c` to
the peers left: it sums to what was taken from the bandwidth plus `c` times
their number. Since the share times that number is not above the bandwidth left,
a grant below the share leaves that true, and the unsigned subtraction does not
wrap. `CounterShare`: the drop counter visits every residue once in `Scale`
packets, a bijection, because no smaller multiple of its step is one of `Scale`.

`FlowAssumption` bounds bandwidths by the word, lets a round trip take at least
1 (`ENET_MAX (roundTripTime, 1)`), a period at least a second, and asks that the
counter's step and scale have no common multiple below their product, as 7 and
32 have none. From `FlowInv` follow `LimitsStayFitting` and `ThrottleStaysExact`
without further hypotheses. Products that wrap (OriginalOverflow.cfg) can make
the limits of the throttle too low, but none of what is stated here false.

**OriginalPeers** (`OriginalPeersProofs`). `PeersInvariant`: `IndInv` has three
layers, since a step runs many of the library's functions one after the other
and the state is not at rest in between.

- `HostOK`, of a host whichever peer is being worked on: the types, the two
  counters (`Exact`), and that a marked peer is in the dispatch queue.
- `PeerFit`, of a peer also in the middle of a step. `EventOK`: what the
  application may know of it by its state (`KnownAs`); only a peer that was
  connected keeps packets; a DISCONNECT is acknowledged only by a peer that
  ends; and who has an event is marked.
- `Waits`, of a peer at rest: it holds what ends its wait, and as a *reliable*
  command if it is still to be sent. This is the strengthening that `NoLimbo`
  needs, because an unreliable command is forgotten once it was sent.

`Linked` says that a function of the library left the rest of the host alone and
moved the counters by what it did to its own peer; it is transitive, so every
handler is a chain of `Linked` steps with the peer's new fields written down
next to it. `Good` adds that the peer is right again at the end. The walks of
`SendAll` and `TellAll` keep a host (`Kept`) because no least slot exists at
which they would fail. From the invariant follow

- `CountersAreExact` and `EventsReachOnce`, without hypotheses: for any hosts,
  slots, dialers, and any loss, repetition and delay. The bound of the runs on
  the number of connections plays no role.
- `NobodyIsStuck`, under `OneDialer`: at most one host dials. A peer that waits
  in CONNECTING must not take an acknowledgement meant for something else for
  that of its CONNECT. Two facts about roles exclude it (`Stock`, `Carries`): the
  CONNECT of a dialer is number 1 of channel 0xFF and nothing else a dialer sends
  there is; and a CONNECT is answered by VERIFY_CONNECT, not by an
  acknowledgement, so a host that only accepts never acknowledges number 1 of
  that channel. If both ends dial each other this fails, and the property with it
  (OriginalBothDial.cfg): the hypothesis excludes that disagreement and no more.

`IndInv` was checked by TLC on small instances before it was proved.

Only model-checked:

- everything under fairness (`EventuallyReleased`, `DisconnectCompletes`,
  `HalfOpenEnds`, `DeadPeerFreed`, `AttemptsEnd`), because the prover handles
  neither fairness nor ENABLED;
- `SessionsApart` of OriginalPeers: up to the fourth connection of a slot every
  session is new, and what keeps commands apart is how many were accepted, by
  whom and in which order, which the proved invariant does not record. The run
  goes on to the fifth, where the first session is used again: both ends still
  agree, but a late command may be taken (OriginalPromises);
- `ShareKept` and `NoNeedlessLimit` of OriginalFlow: they rest on nested
  truncations that the arithmetic of the prover does not relate;
- the receiver of OriginalChannel (`DispatchOrder`, `ReceiverExact`,
  `LaterAfterData`, `NoStall`), whose queues are sorted sequences that a handler
  walks from both ends and that release each other: what these walks compute for
  every length was not derived. Besides, the network keeps every command for
  ever, so that what the receiver promises holds only as long as the numbers of a
  run do not come round;
- FlowControl, whose windows are clamped wherever they are set.

## Not modelled

- The bytes of headers and commands, checksum and compression: a datagram that
  does not pass them is a lost one.
- Batching: every command travels alone. The commands of a datagram are
  handled one after the other anyway, and single ones may be reordered.
- The order of requests in the queue between `Peer` and task, Sink and Stream.
- Of the C library: the range coder (`compress.c`), a pure algorithm over bytes
  whose rescaling and model reset need inputs far beyond what TLC enumerates;
  sockets (`unix.c`, `win32.c`) and callbacks; memory, taken to be available;
  the packing of several commands into a datagram and the limit of 32 commands;
  data in both directions of one channel at once, which share only the
  connection's acknowledgements.
- The interoperability test, a program that uses both.

## Plan

Done: the modules above, in the order reliable channel, lifecycle, fragments,
unsequenced, timers, flow control of the crate; then channels, connections,
timers and flow control of the C library.

1. `UserApi`: the order of requests in the queue of 1024, `split`, Sink and
   Stream, composed with HostPeers' slots. What it would settle: packets dropped
   silently beyond 1024 pending ones (`task.rs:1116`), a send on a channel the
   peer does not have (`task.rs:1204`).
2. `Batching`: `flush_batch` against the MTU and the 32 commands of
   `parse_commands`, ACKs and retransmissions included, and the same for
   `check_outgoing_commands` of the C library.
3. A connection between the two implementations, which is what the
   interoperability test exercises: HostPeers' client against OriginalPeers'
   server and the other way round. The sessions of both and the window rules
   differ.
4. `ReliableDuplex`: data in both directions over one connection channel.
5. Proofs: `ReceiverExact` and `DispatchOrder` of OriginalChannel, which need a
   network that forgets commands older than half the range of the numbers.
