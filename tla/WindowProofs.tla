----------------------------- MODULE WindowProofs -----------------------------
(***************************************************************************)
(* Proofs about windows of numbers that wrap.                              *)
(*                                                                         *)
(* UnsequencedWindow, for every sequence space and every window size that  *)
(* divides it: the bitmap recognises every duplicate and, on a single      *)
(* channel, drops nothing else.                                            *)
(*                                                                         *)
(* OriginalChannel, for every number and size of the windows: the reliable *)
(* windows of the sender count exactly what is under way and never span    *)
(* more than the receiver tells apart.                                     *)
(***************************************************************************)
EXTENDS UnsequencedWindow, OriginalChannel, SeqNumProofs, SequenceTheorems,
        WellFoundedInduction, FiniteSetTheorems, TLAPS

\* Numbers less than a window apart have different bits.
LEMMA BitsDiffer ==
  ASSUME NEW a \in Int, NEW b \in Int, a % WindowSize = b % WindowSize,
         a - b < WindowSize, b - a < WindowSize
  PROVE  a = b
<1> DEFINE W == WindowSize
           da == a \div W
           db == b \div W
           r == a % W
<1>1. W \in Nat \ {0}
  BY WindowAssumption
<1>2. da \in Int /\ a = W * da + r /\ r \in 0 .. (W - 1)
  BY <1>1, Division
<1>3. db \in Int /\ b = W * db + r
  BY <1>1, Division
<1>4. a - b < W /\ b - a < W
  OBVIOUS
<1> HIDE DEF W, da, db, r
<1>5. W * (da - db) = W * da - W * db /\ W * da \in Int /\ W * db \in Int /\ r \in Int
  BY <1>1, <1>2, <1>3
<1>6. a - b = W * (da - db)
  BY <1>2, <1>3, <1>5
<1>7. W * (da - db) < W /\ -W < W * (da - db)
  BY <1>1, <1>4, <1>6
<1>8. da - db = 0
  <2>1. CASE da - db >= 1
    <3>1. W * (da - db) >= W
      BY <2>1, <1>1, <1>2, <1>3
    <3> QED BY <3>1, <1>7, <1>1, <1>2, <1>3, <1>5
  <2>2. CASE da - db <= -1
    <3>1. W * (da - db) <= -W
      BY <2>2, <1>1, <1>2, <1>3
    <3> QED BY <3>1, <1>7, <1>1, <1>2, <1>3, <1>5
  <2> QED BY <2>1, <2>2, <1>2, <1>3
<1>9. da = db
  BY <1>8, <1>2, <1>3
<1> QED BY <1>9, <1>2, <1>3

\* The window divides the sequence space, so that the bit of a wrapped group
\* is the bit of the number it stands for.
LEMMA BitOfWrap ==
  ASSUME NEW n \in Int
  PROVE  Bit(Wrap(n)) = n % WindowSize
<1>1. PICK m \in 1 .. SeqRange : SeqRange = m * WindowSize
  BY WindowAssumption
<1>2. WindowSize \in Nat \ {0} /\ m \in Nat \ {0} /\ SeqRange \in Nat \ {0}
  BY <1>1, WindowAssumption, SeqRangeAssumption
<1> QED BY <1>1, <1>2, RemainderOfRemainder DEF Bit, Wrap

----------------------------------------------------------------------------

\* The number a packet in flight stands for decides how it is received.
LEMMA Position ==
  ASSUME TypeOK, WindowInv, NEW p \in net, InReach(p)
  PROVE  /\ p.no \in 1 .. MaxSends /\ high \in Nat /\ p.no \in Int /\ high \in Int
         /\ Bit(p.group) = p.no % WindowSize
         /\ Ahead(p.group) <=> high < p.no
         /\ high <= p.no => WrapSub(p.group, group) = p.no - high
         /\ p.no <= high => Behind(p.group) = high - p.no
<1>1. p.no \in 1 .. MaxSends /\ high \in 0 .. MaxSends
  BY DEF TypeOK
<1>2. p.no \in Int /\ high \in Int /\ high \in Nat
  BY <1>1, WindowAssumption
<1>3. p.group = Wrap(p.no) /\ group = Wrap(high)
  BY DEF WindowInv
<1>4. high - p.no < HalfMod /\ p.no - high < HalfMod
  BY <1>2, HalfModFacts DEF InReach
<1>5. Bit(p.group) = p.no % WindowSize
  BY <1>2, <1>3, BitOfWrap
<1>6. high - p.no <= HalfMod
  BY <1>2, <1>4, HalfModFacts
<1>7. Ahead(p.group) <=> high < p.no
  BY <1>2, <1>3, <1>4, <1>6, SeqLtWrap DEF Ahead
<1>8. ASSUME high <= p.no PROVE WrapSub(p.group, group) = p.no - high
  <2>1. 0 <= p.no - high /\ p.no - high < SeqRange
    BY <1>2, <1>4, <1>8, HalfModFacts
  <2> QED BY <2>1, <1>2, <1>3, WrapDistance
<1>9. ASSUME p.no <= high PROVE Behind(p.group) = high - p.no
  <2>1. 0 <= high - p.no /\ high - p.no < SeqRange
    BY <1>2, <1>4, <1>9, HalfModFacts
  <2> QED BY <2>1, <1>2, <1>3, WrapDistance DEF Behind
<1> QED BY <1>1, <1>2, <1>5, <1>7, <1>8, <1>9

\* A remainder is a bit of the window.
LEMMA BitType == \A n \in Int : n % WindowSize \in 0 .. (WindowSize - 1)
  BY WindowAssumption

\* The bits recycled on the way to p are those of the numbers passed.
LEMMA SlideBits ==
  ASSUME TypeOK, WindowInv, NEW p \in net, InReach(p), high < p.no
  PROVE  /\ Slide(p.group) \subseteq window
         /\ p.no - high >= WindowSize => Slide(p.group) = {}
         /\ p.no - high < WindowSize =>
              \A b : b \in Slide(p.group) <=>
                       b \in window /\ \A n \in (high + 1) .. p.no : b # n % WindowSize
<1>1. /\ p.no \in Int /\ high \in Int
      /\ WrapSub(p.group, group) = p.no - high /\ group = Wrap(high)
  BY Position DEF WindowInv
<1>2. \A j \in Int : Bit(WrapAdd(group, j)) = (high + j) % WindowSize
  <2> TAKE j \in Int
  <2>1. WrapAdd(group, j) = Wrap(high + j)
    BY <1>1, WrapAddWrap
  <2> QED BY <1>1, <2>1, BitOfWrap
<1> DEFINE R == {Bit(WrapAdd(group, i)) : i \in 1 .. (p.no - high)}
<1>3. \A b : b \in R <=> \E n \in (high + 1) .. p.no : b = n % WindowSize
  <2> TAKE b
  <2>1. ASSUME b \in R PROVE \E n \in (high + 1) .. p.no : b = n % WindowSize
    <3>1. PICK i \in 1 .. (p.no - high) : b = Bit(WrapAdd(group, i))
      BY <2>1
    <3>2. i \in Int /\ high + i \in (high + 1) .. p.no
      BY <1>1
    <3> QED BY <3>1, <3>2, <1>2
  <2>2. ASSUME NEW n \in (high + 1) .. p.no, b = n % WindowSize PROVE b \in R
    <3>1. n - high \in 1 .. (p.no - high) /\ n - high \in Int /\ high + (n - high) = n
      BY <1>1
    <3>2. b = Bit(WrapAdd(group, n - high))
      BY <3>1, <2>2, <1>2
    <3> QED BY <3>1, <3>2
  <2> QED BY <2>1, <2>2
<1>4. /\ p.no - high >= WindowSize => Slide(p.group) = {}
      /\ ~(p.no - high >= WindowSize) => Slide(p.group) = window \ R
  BY <1>1 DEF Slide
<1>5. WindowSize \in Int
  BY WindowAssumption
<1> HIDE DEF R
<1>6. CASE p.no - high >= WindowSize
  BY <1>1, <1>4, <1>5, <1>6
<1>7. CASE p.no - high < WindowSize
  <2>1. Slide(p.group) = window \ R
    BY <1>1, <1>4, <1>5, <1>7
  <2> QED BY <2>1, <1>1, <1>3, <1>5, <1>7
<1> QED BY <1>1, <1>5, <1>6, <1>7

\* Every step preserves the types of the state.
LEMMA TypeStep == TypeOK /\ WindowInv /\ [Next]_vars => TypeOK'
<1> SUFFICES ASSUME TypeOK, WindowInv, [Next]_vars PROVE TypeOK'
  OBVIOUS
<1>1. ASSUME NEW ch \in Channels, Send(ch) PROVE TypeOK'
  <2>1. sends[ch] + 1 \in 1 .. MaxSends /\ sends' \in [Channels -> 0 .. MaxSends]
    BY <1>1, WindowAssumption DEF TypeOK, Send
  <2>2. WrapAdd(outgoing_unsequenced_group[ch], 1) \in SeqNo
    BY WrapAddType, SeqRangeAssumption DEF TypeOK, SeqNo
  <2>3. outgoing_unsequenced_group' \in [Channels -> SeqNo]
    BY <1>1, <2>2 DEF TypeOK, Send
  <2>4. net' \subseteq [ch : Channels, no : 1 .. MaxSends, group : SeqNo]
    BY <1>1, <2>1, <2>2 DEF TypeOK, Send
  <2> QED BY <1>1, <2>1, <2>3, <2>4 DEF TypeOK, Send
<1>2. ASSUME NEW p \in net, Recv(p) PROVE TypeOK'
  <2>1. p \in [ch : Channels, no : 1 .. MaxSends, group : SeqNo] /\ InReach(p)
    BY <1>2 DEF TypeOK, Recv, RecvAhead, RecvRecent, RecvOld
  <2>2. p.no \in 0 .. MaxSends /\ p.group \in SeqNo /\ [ch |-> p.ch, no |-> p.no] \in Packet
    BY <2>1, WindowAssumption DEF Packet
  <2>3. Bit(p.group) \in 0 .. (WindowSize - 1)
    BY <2>1, Position, BitType
  <2>4. ASSUME NEW bits, bits \subseteq window, Accept(p, bits) \/ Refuse(p, bits)
        PROVE  window' \subseteq 0 .. (WindowSize - 1) /\ delivered' \in Seq(Packet)
    <3>1. window' \subseteq 0 .. (WindowSize - 1)
      BY <2>3, <2>4 DEF TypeOK, Accept, Refuse
    <3>2. delivered \in Seq(Packet)
      BY DEF TypeOK
    <3>3. Append(delivered, [ch |-> p.ch, no |-> p.no]) \in Seq(Packet)
      BY <2>2, <3>2, AppendProperties
    <3> QED BY <2>4, <3>1, <3>2, <3>3 DEF Accept, Refuse
  <2>5. CASE RecvAhead(p)
    <3>1. Slide(p.group) \subseteq window
      BY <2>1, <2>5, Position, SlideBits DEF RecvAhead
    <3> QED BY <1>2, <2>2, <2>4, <2>5, <3>1 DEF TypeOK, Recv, RecvAhead
  <2>6. CASE RecvRecent(p)
    BY <1>2, <2>4, <2>6 DEF TypeOK, Recv, RecvRecent
  <2>7. CASE RecvOld(p)
    BY <1>2, <2>7 DEF TypeOK, Recv, RecvOld
  <2> QED BY <1>2, <2>5, <2>6, <2>7 DEF Recv
<1>3. ASSUME UNCHANGED vars PROVE TypeOK'
  BY <1>3 DEF TypeOK, vars
<1> QED BY <1>1, <1>2, <1>3 DEF Next

\* A packet of the history is a packet.
LEMMA DeliveredTyped ==
  ASSUME TypeOK, NEW i \in 1 .. Len(delivered)
  PROVE  /\ delivered[i] \in Packet /\ delivered[i].no \in 1 .. MaxSends
         /\ delivered[i].no \in Int
<1>1. delivered[i] \in Packet
  BY ElementOfSeq DEF TypeOK
<1> QED BY <1>1, WindowAssumption DEF Packet

\* What is delivered stays delivered at its place; at most one is added.
LEMMA Appended ==
  ASSUME TypeOK, NEW x, delivered' = Append(delivered, x)
  PROVE  /\ Len(delivered') = Len(delivered) + 1 /\ Len(delivered) \in Nat
         /\ \A i \in 1 .. Len(delivered) : delivered'[i] = delivered[i]
         /\ delivered'[Len(delivered) + 1] = x
  BY DEF TypeOK

\* Every step preserves WindowInv and NoDuplicate: a bit that is recycled
\* belongs to a number that has left the window, so a delivered packet finds
\* its own bit set for as long as check_and_set looks at the bits at all.
LEMMA WindowStep == TypeOK /\ UnsequencedInv /\ [Next]_vars => UnsequencedInv'
<1> SUFFICES ASSUME TypeOK, WindowInv, NoDuplicate, [Next]_vars
             PROVE  WindowInv' /\ NoDuplicate'
  BY DEF UnsequencedInv
<1> USE DEF UnsequencedInv
<1>0. WindowSize \in Nat \ {0} /\ WindowSize \in Int
  BY WindowAssumption
<1>1. ASSUME NEW ch \in Channels, Send(ch) PROVE WindowInv' /\ NoDuplicate'
  <2>1. UNCHANGED <<group, high, window, delivered>>
    BY <1>1 DEF Send
  <2>2. sends[ch] \in Int
    BY WindowAssumption DEF TypeOK
  <2>3. WrapAdd(outgoing_unsequenced_group[ch], 1) = Wrap(sends[ch] + 1)
    <3>1. outgoing_unsequenced_group[ch] = Wrap(sends[ch])
      BY DEF WindowInv
    <3>2. 1 \in Int
      OBVIOUS
    <3>3. WrapAdd(Wrap(sends[ch]), 1) = Wrap(sends[ch] + 1)
      BY <2>2, <3>2, WrapAddWrap, Zenon
    <3> QED BY <3>1, <3>3
  <2>4. \A c \in Channels : outgoing_unsequenced_group'[c] = Wrap(sends'[c])
    BY <1>1, <2>3 DEF Send, TypeOK, WindowInv
  <2>5. \A p \in net' : p.group = Wrap(p.no)
    BY <1>1, <2>3 DEF Send, WindowInv
  <2>6. NoDuplicate'
    BY <2>1 DEF NoDuplicate
  <2> QED BY <2>1, <2>4, <2>5, <2>6 DEF WindowInv
<1>2. ASSUME NEW p \in net, Recv(p) PROVE WindowInv' /\ NoDuplicate'
  <2>0. InReach(p) /\ UNCHANGED <<outgoing_unsequenced_group, sends, net>>
    BY <1>2 DEF Recv, RecvAhead, RecvRecent, RecvOld
  <2>1. /\ p.no \in Int /\ high \in Int
        /\ Bit(p.group) = p.no % WindowSize
        /\ Ahead(p.group) <=> high < p.no
        /\ p.no <= high => Behind(p.group) = high - p.no
    BY <2>0, Position
  <2>2. p.group = Wrap(p.no) /\ group = Wrap(high)
    BY DEF WindowInv
  \* The part of the invariant that speaks of the bits, in the new state.
  <2>3. ASSUME group' = Wrap(high'), high <= high', high' \in Int,
               \A i \in 1 .. Len(delivered) :
                 delivered[i].no + WindowSize > high'
                   => delivered[i].no % WindowSize \in window',
               \/ UNCHANGED delivered
               \/ /\ delivered' = Append(delivered, [ch |-> p.ch, no |-> p.no])
                  /\ p.no <= high' /\ p.no % WindowSize \in window'
                  /\ \A i \in 1 .. Len(delivered) : delivered[i].no # p.no
        PROVE  WindowInv' /\ NoDuplicate'
    <3>1. \A i \in 1 .. Len(delivered) : delivered[i].no <= high'
      BY <2>1, <2>3, DeliveredTyped DEF WindowInv
    <3>2. CASE UNCHANGED delivered
      BY <2>0, <2>3, <3>1, <3>2 DEF WindowInv, NoDuplicate
    <3>3. CASE /\ delivered' = Append(delivered, [ch |-> p.ch, no |-> p.no])
               /\ p.no <= high' /\ p.no % WindowSize \in window'
               /\ \A i \in 1 .. Len(delivered) : delivered[i].no # p.no
      <4>1. /\ Len(delivered') = Len(delivered) + 1 /\ Len(delivered) \in Nat
            /\ \A i \in 1 .. Len(delivered) : delivered'[i] = delivered[i]
            /\ delivered'[Len(delivered) + 1] = [ch |-> p.ch, no |-> p.no]
        BY <3>3, Appended
      <4>2. \A i \in 1 .. Len(delivered') :
              i \in 1 .. Len(delivered) \/ i = Len(delivered) + 1
        BY <4>1
      <4>3. NoDuplicate'
        <5> SUFFICES ASSUME NEW i \in 1 .. Len(delivered'), NEW j \in 1 .. Len(delivered'),
                            delivered'[i] = delivered'[j]
                     PROVE  i = j
          BY DEF NoDuplicate
        <5>1. CASE i \in 1 .. Len(delivered) /\ j \in 1 .. Len(delivered)
          BY <4>1, <5>1 DEF NoDuplicate
        <5>2. CASE i \in 1 .. Len(delivered) /\ j = Len(delivered) + 1
          BY <3>3, <4>1, <5>2
        <5>3. CASE j \in 1 .. Len(delivered) /\ i = Len(delivered) + 1
          BY <3>3, <4>1, <5>3
        <5> QED BY <4>2, <5>1, <5>2, <5>3
      <4>4. \A i \in 1 .. Len(delivered') :
              /\ delivered'[i].no <= high'
              /\ delivered'[i].no + WindowSize > high'
                   => delivered'[i].no % WindowSize \in window'
        <5> TAKE i \in 1 .. Len(delivered')
        <5>1. CASE i \in 1 .. Len(delivered)
          BY <2>3, <3>1, <4>1, <5>1
        <5>2. CASE i = Len(delivered) + 1
          BY <3>3, <4>1, <5>2
        <5> QED BY <4>2, <5>1, <5>2
      <4> QED BY <2>0, <2>3, <4>3, <4>4 DEF WindowInv
    <3> QED BY <2>3, <3>2, <3>3
  <2>4. CASE RecvAhead(p)
    <3>1. high < p.no /\ group' = p.group /\ high' = p.no
      BY <2>1, <2>4 DEF RecvAhead
    <3>2. \A i \in 1 .. Len(delivered) :
            delivered[i].no + WindowSize > p.no
              => delivered[i].no % WindowSize \in Slide(p.group)
      <4> SUFFICES ASSUME NEW i \in 1 .. Len(delivered),
                          delivered[i].no + WindowSize > p.no
                   PROVE  delivered[i].no % WindowSize \in Slide(p.group)
        OBVIOUS
      <4> DEFINE n == delivered[i].no
      <4>1. n \in Int /\ n <= high
        BY DeliveredTyped DEF WindowInv
      <4>2. n % WindowSize \in window
        BY <1>0, <2>1, <3>1, <4>1 DEF WindowInv
      <4>3. p.no - high < WindowSize
        BY <1>0, <2>1, <4>1
      <4>4. \A m \in (high + 1) .. p.no : n % WindowSize # m % WindowSize
        <5> TAKE m \in (high + 1) .. p.no
        <5>1. m \in Int /\ n < m /\ m - n < WindowSize /\ n - m < WindowSize
          BY <1>0, <2>1, <4>1
        <5> HIDE DEF n
        <5> QED BY <4>1, <5>1, BitsDiffer
      <4> HIDE DEF n
      <4>5. n % WindowSize \in Slide(p.group)
        BY <2>0, <3>1, <4>2, <4>3, <4>4, SlideBits
      <4> QED BY <4>5 DEF n
    <3>3. \A i \in 1 .. Len(delivered) : delivered[i].no # p.no
      BY <2>1, <3>1, DeliveredTyped DEF WindowInv
    <3>4. CASE Accept(p, Slide(p.group))
      <4>1. /\ window' = Slide(p.group) \cup {p.no % WindowSize}
            /\ delivered' = Append(delivered, [ch |-> p.ch, no |-> p.no])
        BY <2>1, <3>4 DEF Accept
      <4> QED BY <2>1, <2>2, <2>3, <3>1, <3>2, <3>3, <4>1
    <3>5. CASE Refuse(p, Slide(p.group))
      <4>1. window' = Slide(p.group) /\ UNCHANGED delivered
        BY <3>5 DEF Refuse
      <4> QED BY <2>1, <2>2, <2>3, <3>1, <3>2, <4>1
    <3> QED BY <2>4, <3>4, <3>5 DEF RecvAhead
  <2>5. CASE RecvRecent(p)
    <3>1. p.no <= high /\ high - p.no < WindowSize /\ UNCHANGED <<group, high>>
      BY <2>1, <2>5 DEF RecvRecent
    <3>2. \A i \in 1 .. Len(delivered) :
            delivered[i].no + WindowSize > high => delivered[i].no % WindowSize \in window
      BY DEF WindowInv
    <3>3. CASE Accept(p, window)
      <4>1. /\ window' = window \cup {p.no % WindowSize}
            /\ p.no % WindowSize \notin window
            /\ delivered' = Append(delivered, [ch |-> p.ch, no |-> p.no])
        BY <2>1, <3>3 DEF Accept
      <4>2. p.no + WindowSize > high
        BY <1>0, <2>1, <3>1
      <4>3. \A i \in 1 .. Len(delivered) : delivered[i].no # p.no
        BY <3>2, <4>1, <4>2
      <4> QED BY <2>1, <2>2, <2>3, <3>1, <3>2, <4>1, <4>3
    <3>4. CASE Refuse(p, window)
      <4>1. UNCHANGED <<window, delivered>>
        BY <3>4 DEF Refuse
      <4> QED BY <2>1, <2>2, <2>3, <3>1, <3>2, <4>1
    <3> QED BY <2>5, <3>3, <3>4 DEF RecvRecent
  <2>6. CASE RecvOld(p)
    BY <2>0, <2>6 DEF RecvOld, WindowInv, NoDuplicate
  <2> QED BY <1>2, <2>4, <2>5, <2>6 DEF Recv
<1>3. ASSUME UNCHANGED vars PROVE WindowInv' /\ NoDuplicate'
  BY <1>3 DEF vars, WindowInv, NoDuplicate
<1> QED BY <1>1, <1>2, <1>3 DEF Next

\* The invariant holds initially.
LEMMA WindowInit == Init => TypeOK /\ UnsequencedInv
<1> SUFFICES ASSUME Init PROVE TypeOK /\ UnsequencedInv
  OBVIOUS
<1>1. 0 \in SeqNo /\ Wrap(0) = 0 /\ 0 \in 0 .. MaxSends
  BY SeqRangeAssumption, WindowAssumption DEF SeqNo, Wrap
<1>2. TypeOK
  BY <1>1 DEF Init, TypeOK
<1>3. Len(delivered) = 0 /\ 1 .. Len(delivered) = {}
  BY DEF Init
<1> QED BY <1>1, <1>2, <1>3 DEF Init, UnsequencedInv, WindowInv, NoDuplicate

\* check_and_set never lets a packet through twice: for every sequence space,
\* every window size dividing it and any number of channels.
THEOREM NoDuplicates == Spec => [](TypeOK /\ NoDuplicate)
<1>1. Init => TypeOK /\ UnsequencedInv
  BY WindowInit
<1>2. TypeOK /\ UnsequencedInv /\ [Next]_vars => (TypeOK /\ UnsequencedInv)'
  BY TypeStep, WindowStep DEF UnsequencedInv
<1>3. TypeOK /\ UnsequencedInv => TypeOK /\ NoDuplicate
  BY DEF UnsequencedInv
<1> QED BY <1>1, <1>2, <1>3, PTL DEF Spec

----------------------------------------------------------------------------
(* The converse: a bit that is set is due to a packet in the window.        *)

Marks(i, b) == delivered[i].no % WindowSize = b /\ delivered[i].no + WindowSize > high

BitsInv == \A b \in window : \E i \in 1 .. Len(delivered) : Marks(i, b)

\* Every step preserves BitsInv: the bit of a packet that leaves the window
\* is among the recycled ones.
LEMMA BitsStep == TypeOK /\ WindowInv /\ BitsInv /\ [Next]_vars => BitsInv'
<1> SUFFICES ASSUME TypeOK, WindowInv, BitsInv, [Next]_vars PROVE BitsInv'
  OBVIOUS
<1>0. WindowSize \in Nat \ {0} /\ WindowSize \in Int
  BY WindowAssumption
<1>1. ASSUME UNCHANGED <<high, window, delivered>> PROVE BitsInv'
  BY <1>1 DEF BitsInv, Marks
<1>2. ASSUME NEW ch \in Channels, Send(ch) PROVE BitsInv'
  BY <1>1, <1>2 DEF Send
<1>3. ASSUME NEW p \in net, Recv(p) PROVE BitsInv'
  <2>0. InReach(p)
    BY <1>3 DEF Recv, RecvAhead, RecvRecent, RecvOld
  <2>1. /\ p.no \in Int /\ high \in Int
        /\ Bit(p.group) = p.no % WindowSize
        /\ Ahead(p.group) <=> high < p.no
        /\ p.no <= high => Behind(p.group) = high - p.no
    BY <2>0, Position
  \* Old bits keep their packet, and the new bit has the new one.
  <2>2. ASSUME NEW bits, high' \in Int, p.no + WindowSize > high',
               \A b \in bits : \E i \in 1 .. Len(delivered) :
                 delivered[i].no % WindowSize = b /\ delivered[i].no + WindowSize > high',
               Accept(p, bits) \/ Refuse(p, bits)
        PROVE  BitsInv'
    <3>1. CASE Accept(p, bits)
      <4>1. /\ window' = bits \cup {p.no % WindowSize}
            /\ delivered' = Append(delivered, [ch |-> p.ch, no |-> p.no])
        BY <2>1, <3>1 DEF Accept
      <4>2. /\ Len(delivered') = Len(delivered) + 1 /\ Len(delivered) \in Nat
            /\ \A i \in 1 .. Len(delivered) : delivered'[i] = delivered[i]
            /\ delivered'[Len(delivered) + 1] = [ch |-> p.ch, no |-> p.no]
        BY <4>1, Appended
      <4>3. /\ \A i \in 1 .. Len(delivered) : i \in 1 .. Len(delivered')
            /\ Len(delivered) + 1 \in 1 .. Len(delivered')
        BY <4>2
      <4> SUFFICES ASSUME NEW b \in window'
                   PROVE  \E i \in 1 .. Len(delivered') :
                            /\ delivered'[i].no % WindowSize = b
                            /\ delivered'[i].no + WindowSize > high'
        BY DEF BitsInv, Marks
      <4>4. CASE b \in bits
        <5>1. PICK i \in 1 .. Len(delivered) :
                delivered[i].no % WindowSize = b /\ delivered[i].no + WindowSize > high'
          BY <2>2, <4>4
        <5> QED BY <4>2, <4>3, <5>1
      <4>5. CASE b = p.no % WindowSize
        BY <2>2, <4>2, <4>3, <4>5
      <4> QED BY <4>1, <4>4, <4>5
    <3>2. CASE Refuse(p, bits)
      BY <2>2, <3>2 DEF Refuse, BitsInv, Marks
    <3> QED BY <2>2, <3>1, <3>2
  <2>3. CASE RecvAhead(p)
    <3>1. high < p.no /\ high' = p.no
      BY <2>1, <2>3 DEF RecvAhead
    <3>2. \A b \in Slide(p.group) : \E i \in 1 .. Len(delivered) :
            delivered[i].no % WindowSize = b /\ delivered[i].no + WindowSize > p.no
      <4> SUFFICES ASSUME NEW b \in Slide(p.group)
                   PROVE  \E i \in 1 .. Len(delivered) :
                            /\ delivered[i].no % WindowSize = b
                            /\ delivered[i].no + WindowSize > p.no
        OBVIOUS
      <4>1. p.no - high < WindowSize
        BY <1>0, <2>0, <2>1, <3>1, SlideBits
      <4>2. b \in window /\ \A n \in (high + 1) .. p.no : b # n % WindowSize
        BY <2>0, <3>1, <4>1, SlideBits
      <4>3. PICK i \in 1 .. Len(delivered) : Marks(i, b)
        BY <4>2 DEF BitsInv
      <4> DEFINE n == delivered[i].no
      <4>4. n \in Int /\ n % WindowSize = b /\ n + WindowSize > high
        BY <4>3, DeliveredTyped DEF Marks
      <4> HIDE DEF n
      <4>5. (n + WindowSize) % WindowSize = n % WindowSize
        <5>1. (n + WindowSize * 1) % WindowSize = n % WindowSize
          BY <1>0, <4>4, RemainderShift, 1 \in Int
        <5>2. WindowSize * 1 = WindowSize
          BY <1>0
        <5> QED BY <5>1, <5>2
      <4>6. ~(n + WindowSize <= p.no)
        BY <1>0, <2>1, <4>2, <4>4, <4>5
      <4>7. n + WindowSize > p.no
        BY <1>0, <2>1, <4>4, <4>6
      <4> QED BY <4>4, <4>7 DEF n
    <3>3. p.no + WindowSize > p.no
      BY <1>0, <2>1
    <3> QED BY <2>1, <2>2, <2>3, <3>1, <3>2, <3>3 DEF RecvAhead
  <2>4. CASE RecvRecent(p)
    <3>1. p.no <= high /\ high - p.no < WindowSize /\ high' = high
      BY <2>1, <2>4 DEF RecvRecent
    <3>2. p.no + WindowSize > high
      BY <1>0, <2>1, <3>1
    <3>3. \A b \in window : \E i \in 1 .. Len(delivered) :
            delivered[i].no % WindowSize = b /\ delivered[i].no + WindowSize > high
      BY DEF BitsInv, Marks
    <3> QED BY <2>1, <2>2, <2>4, <3>1, <3>2, <3>3 DEF RecvRecent
  <2>5. CASE RecvOld(p)
    BY <1>1, <2>5 DEF RecvOld
  <2> QED BY <1>3, <2>3, <2>4, <2>5 DEF Recv
<1>4. ASSUME UNCHANGED vars PROVE BitsInv'
  BY <1>1, <1>4 DEF vars
<1> QED BY <1>2, <1>3, <1>4 DEF Next

\* On a single channel a set bit is the packet's own.
LEMMA BitsAccept ==
  ASSUME NEW c, Channels = {c}, TypeOK, WindowInv, BitsInv
  PROVE  NewIsAccepted
<1> SUFFICES ASSUME NEW p \in net, InReach(p), p.no + WindowSize > high,
                    ~Delivered([ch |-> p.ch, no |-> p.no]),
                    Bit(p.group) \in (IF Ahead(p.group) THEN Slide(p.group) ELSE window)
             PROVE  FALSE
  BY DEF NewIsAccepted
<1>0. WindowSize \in Nat \ {0} /\ WindowSize \in Int
  BY WindowAssumption
<1>1. /\ p.no \in Int /\ high \in Int
      /\ Bit(p.group) = p.no % WindowSize
      /\ Ahead(p.group) <=> high < p.no
  BY Position
<1>2. CASE high < p.no
  <2>1. p.no % WindowSize \in Slide(p.group)
    BY <1>1, <1>2
  <2>2. p.no - high < WindowSize
    <3>1. ~(p.no - high >= WindowSize)
      BY <1>2, <2>1, SlideBits
    <3> QED BY <1>0, <1>1, <3>1
  <2>3. p.no \in (high + 1) .. p.no
    BY <1>1, <1>2
  <2> QED BY <1>2, <2>1, <2>2, <2>3, SlideBits
<1>3. CASE ~(high < p.no)
  <2>1. p.no % WindowSize \in window
    BY <1>1, <1>3
  <2>2. PICK i \in 1 .. Len(delivered) : Marks(i, p.no % WindowSize)
    BY <2>1 DEF BitsInv
  <2> DEFINE n == delivered[i].no
  <2>3. /\ n \in Int /\ n <= high
        /\ n % WindowSize = p.no % WindowSize /\ n + WindowSize > high
    BY <2>2, DeliveredTyped DEF Marks, WindowInv
  <2> HIDE DEF n
  <2>4. n - p.no < WindowSize /\ p.no - n < WindowSize
    BY <1>0, <1>1, <1>3, <2>3, SMTT(30)
  <2>5. n = p.no
    BY <1>1, <2>3, <2>4, BitsDiffer
  <2>6. delivered[i] \in [ch : {c}, no : 1 .. MaxSends] /\ p.ch = c
    BY DeliveredTyped DEF Packet, TypeOK
  <2>7. delivered[i] = [ch |-> p.ch, no |-> p.no]
    BY <2>5, <2>6 DEF n
  <2> QED BY <2>7 DEF Delivered
<1> QED BY <1>2, <1>3

\* As long as one channel only carries unsequenced packets, check_and_set
\* drops no new packet within the window.
THEOREM NothingNewDropped ==
  ASSUME NEW c, Channels = {c}
  PROVE  Spec => []NewIsAccepted
<1>1. Init => TypeOK /\ UnsequencedInv /\ BitsInv
  BY WindowInit DEF Init, BitsInv
<1>2. TypeOK /\ UnsequencedInv /\ BitsInv /\ [Next]_vars
        => (TypeOK /\ UnsequencedInv /\ BitsInv)'
  BY TypeStep, WindowStep, BitsStep DEF UnsequencedInv
<1>3. TypeOK /\ UnsequencedInv /\ BitsInv => NewIsAccepted
  BY BitsAccept DEF UnsequencedInv
<1> QED BY <1>1, <1>2, <1>3, PTL DEF Spec

----------------------------------------------------------------------------
(* The reliable windows of the sender: OriginalChannel.                     *)

Numbers == 0 .. Range16 - 1
WindowNos == 0 .. RELIABLE_WINDOWS - 1

\* A reliable command in a queue of the sender.
ReliableCmd ==
    [type : Reliable, id : Nat, frag : Nat, count : Nat, rel : Numbers, unrel : {0},
     start : Nat, attempts : BOOLEAN]

\* How many commands of s were sent and are of window w.
CountedIn(s, w) == {i \in DOMAIN s : s[i].attempts /\ Window(s[i].rel) = w}
Count(s, w) == Cardinality(CountedIn(s, w))

\* The first k commands of t wait to be sent again, the others for the first
\* time; these have the numbers up to o. No window in use lies further behind
\* that of the last number sent than the receiver accepts ahead.
Frontier(t, used, o, k) ==
    /\ \A i \in 1 .. k : t[i].attempts
    /\ \A i \in k + 1 .. Len(t) : ~t[i].attempts /\ t[i].rel = (o - (Len(t) - i)) % Range16
    /\ \A u \in used :
        (Window((o - (Len(t) - k)) % Range16) - u) % RELIABLE_WINDOWS <= FREE_RELIABLE_WINDOWS - 2

\* s are the commands under way, t those that wait, w the windows and o the
\* last number given.
SenderOK(s, t, w, o) ==
    /\ s \in Seq(ReliableCmd) /\ t \in Seq(ReliableCmd)
    /\ \A i \in DOMAIN s : s[i].attempts
    /\ w = [reliable |-> w.reliable, used |-> w.used, transit |-> Len(s)]
    /\ w.reliable \in [WindowNos -> Nat] /\ w.used \subseteq WindowNos
    /\ \A v \in WindowNos : /\ w.reliable[v] = Count(s, v) + Count(t, v)
                            /\ v \in w.used <=> w.reliable[v] # 0
    /\ \E k \in 0 .. Len(t) : Frontier(t, w.used, o, k)

\* The inductive invariant. It speaks of a connection that is not being closed:
\* enet_peer_disconnect frees the channel and its windows.
SenderInv ==
    /\ plan \in Plans /\ sent \in Nat
    /\ out = [rel |-> out.rel, unrel |-> out.unrel, group |-> out.group] /\ out.rel \in Numbers
    /\ queued = [commands |-> queued.commands, sendReliable |-> queued.sendReliable,
                 sentReliable |-> queued.sentReliable]
    /\ state # "DISCONNECTING" =>
           SenderOK(queued.sentReliable, queued.sendReliable, windows, out.rel)

\* Every nonempty set of natural numbers has a least element.
LEMMA LeastElement ==
    ASSUME NEW S, S \subseteq Nat, S # {}
    PROVE  \E x \in S : \A y \in S : x <= y
<1> DEFINE R == OpToRel(<, Nat)
<1>1. IsWellFoundedOn(R, Nat)
  BY NatLessThanWellFounded
<1>2. \A x, y \in Nat : y < x => <<y, x>> \in R
  BY DEF OpToRel
<1> HIDE DEF R
<1>3. PICK x \in S : \A y \in S : ~ (<<y, x>> \in R)
  BY <1>1, WFMin
<1>4. \A y \in S : ~ (y < x)
  BY <1>2, <1>3, Zenon
<1> QED BY <1>4

\* A set that has 0 and with every number the next has all numbers.
LEMMA Induct ==
    ASSUME NEW T, 0 \in T, \A n \in Nat : n \in T => n + 1 \in T
    PROVE  Nat \subseteq T
<1> DEFINE S == {n \in Nat : n \notin T}
<1> SUFFICES ASSUME S # {} PROVE FALSE
  OBVIOUS
<1>1. S \subseteq Nat
  OBVIOUS
<1>2. PICK x \in S : \A y \in S : x <= y
  BY <1>1, LeastElement
<1>3. x # 0 /\ x \in Nat
  BY <1>2
<1>4. x - 1 \in T /\ x - 1 \in Nat
  BY <1>2, <1>3
<1> QED BY <1>2, <1>3, <1>4

\* The elements of two sequences in a row.
LEMMA Joined ==
    ASSUME NEW S, NEW a \in Seq(S), NEW b \in Seq(S)
    PROVE  LET n == Len(a)
               m == Len(b)
           IN  /\ n \in Nat /\ m \in Nat /\ DOMAIN a = 1 .. n /\ DOMAIN b = 1 .. m
               /\ a \o b \in Seq(S) /\ DOMAIN (a \o b) = 1 .. n + m
               /\ \A i \in 1 .. n : (a \o b)[i] = a[i]
               /\ \A i \in 1 .. m : n + i \in DOMAIN (a \o b) /\ (a \o b)[n + i] = b[i]
<1> DEFINE n == Len(a)
           m == Len(b)
           c == a \o b
<1>1. n \in Nat /\ m \in Nat /\ DOMAIN a = 1 .. n /\ DOMAIN b = 1 .. m
  OBVIOUS
<1>2. c \in Seq(S) /\ Len(c) = n + m /\ DOMAIN c = 1 .. n + m
  OBVIOUS
<1>3. \A i \in 1 .. n + m : c[i] = IF i <= n THEN a[i] ELSE b[i - n]
  OBVIOUS
<1> HIDE DEF n, m, c
<1>4. \A i \in 1 .. n : c[i] = a[i]
  BY <1>1, <1>3
<1>5. ASSUME NEW i \in 1 .. m PROVE n + i \in DOMAIN c /\ c[n + i] = b[i]
  <2>1. n + i \in 1 .. n + m /\ ~(n + i <= n) /\ (n + i) - n = i
    BY <1>1
  <2> QED BY <1>2, <1>3, <2>1
<1> QED BY <1>1, <1>2, <1>4, <1>5 DEF n, m, c

\* Sequences with the same elements are the same.
LEMMA SameSequence ==
    ASSUME NEW S, NEW a \in Seq(S), NEW b \in Seq(S), Len(a) = Len(b),
           \A i \in 1 .. Len(a) : a[i] = b[i]
    PROVE  a = b
  OBVIOUS

----------------------------------------------------------------------------
(* Arithmetic of the windows.                                               *)

LEMMA ChannelConstants ==
    /\ FREE_RELIABLE_WINDOWS \in Nat /\ FREE_RELIABLE_WINDOWS > 2
    /\ RELIABLE_WINDOWS = 2 * FREE_RELIABLE_WINDOWS /\ RELIABLE_WINDOWS \in Nat \ {0}
    /\ RELIABLE_WINDOW_SIZE \in Nat \ {0}
    /\ Range16 \in Nat \ {0} /\ Range16 = RELIABLE_WINDOWS * RELIABLE_WINDOW_SIZE
    /\ Start \in Numbers
<1>1. /\ FREE_RELIABLE_WINDOWS \in Nat /\ FREE_RELIABLE_WINDOWS > 2
      /\ RELIABLE_WINDOWS = 2 * FREE_RELIABLE_WINDOWS
      /\ RELIABLE_WINDOW_SIZE \in Nat \ {0} /\ Start \in Numbers
  BY ConstantsAssumption DEF Numbers
<1>2. RELIABLE_WINDOWS \in Nat \ {0}
  BY <1>1
<1>3. Range16 = RELIABLE_WINDOWS * RELIABLE_WINDOW_SIZE
  BY DEF Range16
<1>4. Range16 \in Nat \ {0}
  BY <1>1, <1>2, <1>3
<1> QED BY <1>1, <1>2, <1>3, <1>4

\* The window of a number is one of the windows.
LEMMA WindowIn ==
    ASSUME NEW r \in Numbers
    PROVE  Window(r) \in WindowNos
<1> DEFINE Z == RELIABLE_WINDOW_SIZE
           W == RELIABLE_WINDOWS
           d == r \div Z
<1>1. Z \in Nat \ {0} /\ W \in Nat \ {0} /\ Range16 = W * Z /\ Range16 \in Nat
  BY ChannelConstants
<1>2. r \in Nat /\ r < W * Z
  BY <1>1 DEF Numbers
<1>3. d \in Nat /\ r % Z <= r /\ r - (r % Z) = Z * d
  BY <1>1, <1>2, RemainderBelow
<1>4. r % Z \in Nat
  BY <1>1, <1>2, Division
<1> DEFINE m == r % Z
<1>5. m \in Nat /\ r - m = Z * d
  BY <1>3, <1>4
<1>6. Window(r) = d
  BY DEF Window
<1> HIDE DEF d, Z, W, m
<1>7. d < W
  <2> SUFFICES ASSUME d >= W PROVE FALSE
    BY <1>1, <1>3
  <2>1. PICK e \in Nat : d = W + e
    <3>1. d - W \in Nat /\ d = W + (d - W)
      BY <1>1, <1>3
    <3> QED BY <3>1
  <2>2. Z * d = Z * W + Z * e /\ Z * e \in Nat /\ Z * W = W * Z /\ W * Z \in Nat
    BY <1>1, <2>1
  <2> QED BY <1>2, <1>5, <2>2
<1> QED BY <1>1, <1>3, <1>6, <1>7 DEF WindowNos, W

\* A number that does not begin a window is of the window of the one before.
LEMMA WindowGoesOn ==
    ASSUME NEW f \in Numbers, NEW c, c = (f + 1) % Range16, c % RELIABLE_WINDOW_SIZE # 0
    PROVE  Window(c) = Window(f)
<1> DEFINE Z == RELIABLE_WINDOW_SIZE
           R == Range16
           d == f \div Z
           m == f % Z
<1>1. Z \in Nat \ {0} /\ R \in Nat \ {0} /\ f \in Nat /\ f < R
  BY ChannelConstants DEF Numbers
<1>2. d \in Int /\ f = Z * d + m /\ m \in 0 .. Z - 1
  BY <1>1, Division
<1>3. 0 % Z = 0
  <2>1. 0 = Z * 0 + 0 /\ 0 \in 0 .. Z - 1 /\ 0 \in Int
    BY <1>1
  <2> QED BY <1>1, <2>1, RemainderUnique
<1>4. c = f + 1
  <2>1. CASE f + 1 < R
    <3>1. (f + 1) % R = f + 1
      <4>1. f + 1 \in Int /\ -R <= f + 1 /\ f + 1 >= 0
        BY <1>1
      <4> HIDE DEF R
      <4> QED BY <1>1, <2>1, <4>1, RemainderNear
    <3> QED BY <3>1
  <2>2. CASE f + 1 = R
    <3>1. R % R = 0
      <4>1. R = R * 1 + 0 /\ 0 \in 0 .. R - 1 /\ 1 \in Int /\ R \in Int
        BY <1>1
      <4> HIDE DEF R
      <4> QED BY <1>1, <4>1, RemainderUnique
    <3> QED BY <1>3, <2>2, <3>1
  <2> QED BY <1>1, <2>1, <2>2
<1> HIDE DEF d, m, Z
<1>5. m + 1 # Z
  <2> SUFFICES ASSUME m + 1 = Z PROVE c % Z = 0
    BY DEF Z
  <2>1. Z * (d + 1) = Z * d + Z /\ Z * d \in Int /\ d + 1 \in Int
    BY <1>1, <1>2
  <2>2. c = Z * (d + 1) + 0 /\ 0 \in 0 .. Z - 1
    BY <1>1, <1>2, <1>4, <2>1
  <2>3. c \in Int
    BY <1>1, <1>4
  <2> DEFINE q == d + 1
             e == 0
  <2>4. q \in Int /\ e \in 0 .. Z - 1 /\ c = Z * q + e
    BY <2>1, <2>2
  <2> HIDE DEF q, e
  <2>5. c % Z = e
    BY <1>1, <2>3, <2>4, RemainderUnique
  <2> QED BY <2>5 DEF e
<1>6. m + 1 \in 0 .. Z - 1
  BY <1>1, <1>2, <1>5
<1>7. c = Z * d + (m + 1) /\ c \in Int /\ Z * d \in Int
  BY <1>1, <1>2, <1>4
<1>8. c % Z = m + 1
  BY <1>1, <1>2, <1>6, <1>7, RemainderUnique
<1>9. c \div Z \in Int /\ c = Z * (c \div Z) + (c % Z)
  BY <1>1, <1>7, Division
<1> DEFINE e == c \div Z
<1>e. e \in Int /\ c = Z * e + (m + 1)
  BY <1>8, <1>9
<1> HIDE DEF e
<1>10. Z * e = Z * d /\ e \in Int
  <2> DEFINE P == Z * e
             Q == Z * d
  <2>1. P \in Int /\ Q \in Int /\ m + 1 \in Int
    BY <1>1, <1>2, <1>e
  <2>2. c = P + (m + 1) /\ c = Q + (m + 1)
    BY <1>7, <1>e
  <2> HIDE DEF P, Q
  <2>3. P = Q
    BY <2>1, <2>2
  <2> QED BY <1>e, <2>3 DEF P, Q
<1>11. e = d
  <2>1. Z * (e - d) = 0 /\ e - d \in Int
    BY <1>1, <1>2, <1>10
  <2> QED BY <1>1, <1>2, <1>10, <2>1
<1> QED BY <1>11 DEF e, d, Z, Window

\* Adding commutes with taking the remainder.
LEMMA RemainderPlus ==
    ASSUME NEW M \in Nat \ {0}, NEW n \in Int, NEW k \in Int
    PROVE  ((n % M) + k) % M = (n + k) % M
<1> DEFINE d == n \div M
           r == n % M
<1>1. d \in Int /\ n = M * d + r /\ r \in 0 .. (M - 1)
  BY Division
<1> HIDE DEF d, r
<1>2. r + k \in Int /\ n + k = (r + k) + M * d
  BY <1>1
<1>3. ((r + k) + M * d) % M = (r + k) % M
  BY <1>1, <1>2, RemainderShift
<1> QED BY <1>2, <1>3 DEF r

\* A remainder by Range16 is a number.
LEMMA NumberOf ==
    ASSUME NEW n \in Int
    PROVE  n % Range16 \in Numbers
  BY ChannelConstants, Division DEF Numbers

\* The distance from window u on to window f.
LEMMA WindowDistance ==
    ASSUME NEW f \in WindowNos, NEW u \in WindowNos
    PROVE  (f - u) % RELIABLE_WINDOWS = IF f >= u THEN f - u ELSE f - u + RELIABLE_WINDOWS
<1> DEFINE W == RELIABLE_WINDOWS
<1>1. W \in Nat \ {0}
  BY ChannelConstants
<1>2. f - u \in Int /\ -W <= f - u /\ f - u < W /\ (f - u >= 0 <=> f >= u)
  BY <1>1 DEF WindowNos
<1> QED BY <1>1, <1>2, RemainderNear

\* A window entered with none of the FREE + 2 windows from it on in use is
\* near to every window in use.
LEMMA WindowEntered ==
    ASSUME NEW c \in WindowNos, NEW u \in WindowNos,
           \A k \in 0 .. FREE_RELIABLE_WINDOWS + 1 : (c + k) % RELIABLE_WINDOWS # u
    PROVE  (c - u) % RELIABLE_WINDOWS <= FREE_RELIABLE_WINDOWS - 2
<1> DEFINE W == RELIABLE_WINDOWS
           F == FREE_RELIABLE_WINDOWS
           k == IF c >= u THEN W - c + u ELSE u - c
<1>1. W \in Nat \ {0} /\ F \in Nat /\ F > 2 /\ W = 2 * F
  BY ChannelConstants
<1>2. c \in 0 .. W - 1 /\ u \in 0 .. W - 1 /\ u \in Int
  BY DEF WindowNos
<1>i. -W <= u /\ u < W /\ u >= 0 /\ 1 \in Int
  BY <1>1, <1>2
<1> HIDE DEF W
<1>3. u % W = u
  BY <1>1, <1>2, <1>i, RemainderNear
<1>4. (u + W * 1) % W = u % W
  BY <1>1, <1>2, <1>i, RemainderShift
<1> USE DEF W
<1>5. (c - u) % W = IF c >= u THEN c - u ELSE c - u + W
  BY WindowDistance
<1>6. CASE c = u
  BY <1>1, <1>2, <1>5, <1>6
<1>7. CASE c > u
  <2>1. (c + (W - c + u)) % W = u
    <3>1. c + (W - c + u) = u + W * 1
      BY <1>1, <1>2
    <3> QED BY <1>3, <1>4, <3>1
  <2>2. ~(W - c + u \in 0 .. F + 1)
    BY <2>1
  <2> QED BY <1>1, <1>2, <1>5, <1>7, <2>2
<1>8. CASE c < u
  <2>1. (c + (u - c)) % W = u
    <3>1. c + (u - c) = u
      BY <1>1, <1>2
    <3> QED BY <1>3, <3>1
  <2>2. ~(u - c \in 0 .. F + 1)
    BY <2>1
  <2> QED BY <1>1, <1>2, <1>5, <1>8, <2>2
<1> QED BY <1>2, <1>6, <1>7, <1>8

\* Windows near to the same one are near to each other, one way round.
LEMMA WindowsNear ==
    ASSUME NEW f \in WindowNos, NEW u \in WindowNos, NEW w \in WindowNos,
           (f - u) % RELIABLE_WINDOWS <= FREE_RELIABLE_WINDOWS - 2,
           (f - w) % RELIABLE_WINDOWS <= FREE_RELIABLE_WINDOWS - 2
    PROVE  LET d == (w - u + RELIABLE_WINDOWS) % RELIABLE_WINDOWS
           IN  d < FREE_RELIABLE_WINDOWS - 1 \/ d > FREE_RELIABLE_WINDOWS + 1
<1> DEFINE W == RELIABLE_WINDOWS
           F == FREE_RELIABLE_WINDOWS
<1>1. W \in Nat \ {0} /\ F \in Nat /\ F > 2 /\ W = 2 * F
  BY ChannelConstants
<1>2. f \in 0 .. W - 1 /\ u \in 0 .. W - 1 /\ w \in 0 .. W - 1
  BY DEF WindowNos
<1>3. /\ (f - u) % W = IF f >= u THEN f - u ELSE f - u + W
      /\ (f - w) % W = IF f >= w THEN f - w ELSE f - w + W
      /\ (w - u) % W = IF w >= u THEN w - u ELSE w - u + W
  BY WindowDistance
<1>4. (w - u + W) % W = (w - u) % W
  <2>1. w - u \in Int /\ w - u + W = w - u + W * 1 /\ 1 \in Int
    BY <1>1, <1>2
  <2>2. ((w - u) + W * 1) % W = (w - u) % W
    BY <1>1, <2>1, RemainderShift
  <2> QED BY <2>1, <2>2
<1> DEFINE D == (w - u) % W
           A == (f - u) % W
           B == (f - w) % W
<1>5. D = (IF w >= u THEN w - u ELSE w - u + W) /\ A = (IF f >= u THEN f - u ELSE f - u + W)
      /\ B = (IF f >= w THEN f - w ELSE f - w + W) /\ A <= F - 2 /\ B <= F - 2
  BY <1>3
<1> HIDE DEF D, A, B
<1>6. D < F - 1 \/ D > F + 1
  BY <1>1, <1>2, <1>5
<1> QED BY <1>4, <1>6 DEF D

----------------------------------------------------------------------------
(* Commands counted by window.                                              *)

LEMMA CountType ==
    ASSUME NEW s \in Seq(ReliableCmd), NEW v
    PROVE  /\ IsFiniteSet(CountedIn(s, v)) /\ Count(s, v) \in Nat
           /\ Count(s, v) = 0 <=> CountedIn(s, v) = {}
<1>1. IsFiniteSet(1 .. Len(s)) /\ DOMAIN s = 1 .. Len(s)
  BY FS_Interval
<1>2. CountedIn(s, v) \in SUBSET (1 .. Len(s))
  BY <1>1 DEF CountedIn
<1>3. IsFiniteSet(CountedIn(s, v))
  BY <1>1, <1>2, FS_Subset
<1> QED BY <1>3, FS_CardinalityType, FS_EmptySet DEF Count

\* The counts of two sequences in a row add up.
LEMMA CountJoin ==
    ASSUME NEW a \in Seq(ReliableCmd), NEW b \in Seq(ReliableCmd), NEW v
    PROVE  Count(a \o b, v) = Count(a, v) + Count(b, v)
<1> DEFINE n == Len(a)
           c == a \o b
           A == CountedIn(a, v)
           B == CountedIn(b, v)
           B2 == {n + i : i \in B}
           f == [i \in B |-> n + i]
<1>1. /\ n \in Nat /\ Len(b) \in Nat /\ DOMAIN a = 1 .. n /\ DOMAIN b = 1 .. Len(b)
      /\ c \in Seq(ReliableCmd) /\ DOMAIN c = 1 .. n + Len(b)
      /\ \A i \in 1 .. n : c[i] = a[i]
      /\ \A i \in 1 .. Len(b) : n + i \in DOMAIN c /\ c[n + i] = b[i]
  BY Joined
<1>2. A \subseteq 1 .. n /\ B \subseteq 1 .. Len(b)
  BY <1>1 DEF CountedIn
<1> DEFINE C == CountedIn(c, v)
           m == Len(b)
<1>3. C = A \cup B2
  <2>1. ASSUME NEW i \in C PROVE i \in A \cup B2
    <3>1. i \in 1 .. n + m /\ c[i].attempts /\ Window(c[i].rel) = v
      BY <1>1 DEF CountedIn
    <3>2. CASE i <= n
      <4>1. i \in 1 .. n
        BY <3>1, <3>2
      <4> QED BY <1>1, <3>1, <4>1 DEF CountedIn
    <3>3. CASE i > n
      <4>1. i - n \in 1 .. m /\ i = n + (i - n)
        BY <1>1, <3>1, <3>3
      <4>2. c[i] = b[i - n]
        BY <1>1, <4>1
      <4>3. i - n \in B
        BY <1>1, <3>1, <4>1, <4>2 DEF CountedIn
      <4> HIDE DEF B
      <4> QED BY <4>1, <4>3
    <3> QED BY <1>1, <3>1, <3>2, <3>3
  <2>2. ASSUME NEW i \in A PROVE i \in C
    <3>1. i \in 1 .. n /\ a[i].attempts /\ Window(a[i].rel) = v
      BY <1>1 DEF CountedIn
    <3>2. i \in DOMAIN c /\ c[i] = a[i]
      BY <1>1, <3>1
    <3> HIDE DEF c
    <3> QED BY <3>1, <3>2 DEF CountedIn
  <2>3. ASSUME NEW i \in B PROVE n + i \in C
    <3>1. i \in 1 .. m /\ b[i].attempts /\ Window(b[i].rel) = v
      BY <1>1 DEF CountedIn
    <3>2. n + i \in DOMAIN c /\ c[n + i] = b[i]
      BY <1>1, <3>1
    <3> HIDE DEF c
    <3> QED BY <3>1, <3>2 DEF CountedIn
  <2> HIDE DEF A, B, C
  <2> QED BY <2>1, <2>2, <2>3
<1>4. IsFiniteSet(A) /\ IsFiniteSet(B) /\ Cardinality(A) \in Nat /\ Cardinality(B) \in Nat
  BY CountType DEF Count
<1>5. Cardinality(B2) = Cardinality(B) /\ IsFiniteSet(B2)
  <2> HIDE DEF A, B
  <2>1. f \in [B -> B2] /\ \A i, j \in B : f[i] = f[j] => i = j
    BY <1>1, <1>2
  <2>2. \A y \in B2 : \E i \in B : f[i] = y
    OBVIOUS
  <2> HIDE DEF f, B2
  <2>3. f \in Injection(B, B2) /\ f \in Surjection(B, B2)
    BY <2>1, <2>2 DEF Injection, Surjection, IsInjective
  <2>4. f \in Bijection(B, B2)
    BY <2>3 DEF Bijection
  <2> QED BY <1>4, <2>4, FS_Bijection DEF ExistsBijection
<1>6. A \cap B2 = {}
  <2> HIDE DEF A, B
  <2> QED BY <1>1, <1>2
<1> HIDE DEF A, B, B2, C, c
<1>7. Cardinality(C) = Cardinality(A) + Cardinality(B)
  <2>1. Cardinality(A \cup B2) = Cardinality(A) + Cardinality(B2) - Cardinality(A \cap B2)
    BY <1>4, <1>5, FS_Union
  <2>2. Cardinality(A \cap B2) = 0
    BY <1>6, FS_EmptySet
  <2> QED BY <1>3, <1>4, <1>5, <2>1, <2>2
<1> QED BY <1>7 DEF Count, A, B, C, c

\* What one command adds.
One(c, v) == IF c.attempts /\ Window(c.rel) = v THEN 1 ELSE 0

LEMMA CountOne ==
    ASSUME NEW c \in ReliableCmd, NEW v
    PROVE  Count(<<c>>, v) = One(c, v)
<1>1. CountedIn(<<c>>, v) = IF c.attempts /\ Window(c.rel) = v THEN {1} ELSE {}
  BY DEF CountedIn
<1> QED BY <1>1, FS_EmptySet, FS_Singleton DEF Count, One

LEMMA CountAppend ==
    ASSUME NEW s \in Seq(ReliableCmd), NEW c \in ReliableCmd, NEW v
    PROVE  Count(Append(s, c), v) = Count(s, v) + One(c, v)
<1>1. Append(s, c) = s \o <<c>> /\ <<c>> \in Seq(ReliableCmd)
  OBVIOUS
<1>2. Count(s \o <<c>>, v) = Count(s, v) + Count(<<c>>, v) /\ Count(<<c>>, v) = One(c, v)
  BY <1>1, CountJoin, CountOne
<1> QED BY <1>1, <1>2

LEMMA CountHead ==
    ASSUME NEW t \in Seq(ReliableCmd), t # <<>>, NEW v
    PROVE  Count(t, v) = One(t[1], v) + Count(Tail(t), v)
<1>1. t = <<t[1]>> \o Tail(t) /\ <<t[1]>> \in Seq(ReliableCmd) /\ Tail(t) \in Seq(ReliableCmd)
      /\ t[1] \in ReliableCmd
  OBVIOUS
<1> DEFINE a == <<t[1]>>
           b == Tail(t)
<1>2. Count(a, v) = One(t[1], v)
  BY <1>1, CountOne
<1> HIDE DEF a, b
<1>3. Count(a \o b, v) = Count(a, v) + Count(b, v)
  BY <1>1, CountJoin DEF a, b
<1>4. t = a \o b
  BY <1>1 DEF a, b
<1> QED BY <1>2, <1>3, <1>4 DEF b

\* Without its entry i, a queue counts one less if the entry counts.
LEMMA RemovedFacts ==
    ASSUME NEW s \in Seq(ReliableCmd), NEW i \in DOMAIN s
    PROVE  LET r == RemoveAt(s, i)
           IN  /\ r \in Seq(ReliableCmd) /\ Len(r) = Len(s) - 1
               /\ \A j \in 1 .. Len(r) : r[j] = IF j < i THEN s[j] ELSE s[j + 1]
               /\ \A v : Count(s, v) = Count(r, v) + One(s[i], v)
<1> DEFINE a == SubSeq(s, 1, i - 1)
           b == SubSeq(s, i + 1, Len(s))
           x == s[i]
           r == a \o b
<1>1. i \in 1 .. Len(s) /\ i \in Nat /\ Len(s) \in Nat /\ DOMAIN s = 1 .. Len(s)
  OBVIOUS
<1>2. /\ a \in Seq(ReliableCmd) /\ Len(a) = i - 1 /\ \A j \in 1 .. i - 1 : a[j] = s[j]
      /\ b \in Seq(ReliableCmd) /\ Len(b) = Len(s) - i
      /\ \A j \in 1 .. Len(s) - i : b[j] = s[i + j]
      /\ x \in ReliableCmd
  <2>1. a \in Seq(ReliableCmd) /\ Len(a) = i - 1 /\ \A j \in 1 .. i - 1 : a[j] = s[j]
    BY <1>1
  <2>2. /\ b \in Seq(ReliableCmd) /\ Len(b) = Len(s) - i
        /\ \A j \in 1 .. Len(s) - i : b[j] = s[(i + 1) + j - 1]
    BY <1>1
  <2>3. \A j \in 1 .. Len(s) - i : (i + 1) + j - 1 = i + j
    BY <1>1
  <2>4. x \in ReliableCmd
    BY <1>1
  <2> HIDE DEF a, b, x
  <2> QED BY <2>1, <2>2, <2>3, <2>4
<1>3. RemoveAt(s, i) = r
  BY DEF RemoveAt
<1> HIDE DEF a, b, x
<1>4. /\ r \in Seq(ReliableCmd) /\ Len(r) = Len(s) - 1
      /\ \A j \in 1 .. Len(s) - 1 : r[j] = IF j <= Len(a) THEN a[j] ELSE b[j - Len(a)]
  <2>1. /\ r \in Seq(ReliableCmd) /\ Len(r) = Len(a) + Len(b)
        /\ \A j \in 1 .. Len(a) + Len(b) : r[j] = IF j <= Len(a) THEN a[j] ELSE b[j - Len(a)]
    <3>1. a \in Seq(ReliableCmd) /\ b \in Seq(ReliableCmd)
      BY <1>2
    <3> QED BY <3>1
  <2>2. Len(a) + Len(b) = Len(s) - 1
    BY <1>1, <1>2
  <2> HIDE DEF r
  <2> QED BY <2>1, <2>2
<1>5. ASSUME NEW j \in 1 .. Len(r) PROVE r[j] = IF j < i THEN s[j] ELSE s[j + 1]
  <2>1. CASE j < i
    <3>1. j <= Len(a) /\ j \in 1 .. i - 1
      BY <1>1, <1>2, <1>4, <2>1
    <3> QED BY <1>2, <1>4, <2>1, <3>1
  <2>2. CASE ~(j < i)
    <3>1. ~(j <= Len(a)) /\ j - Len(a) \in 1 .. Len(s) - i /\ i + (j - Len(a)) = j + 1
      BY <1>1, <1>2, <1>4, <2>2
    <3>2. b[j - Len(a)] = s[j + 1]
      BY <1>2, <3>1
    <3> QED BY <1>4, <2>2, <3>1, <3>2
  <2> QED BY <2>1, <2>2
<1>6. s = Append(a, x) \o b
  <2> DEFINE y == Append(a, x)
             z == y \o b
  <2>1. /\ y \in Seq(ReliableCmd) /\ Len(y) = i
        /\ \A j \in 1 .. i : y[j] = s[j]
    <3>1. /\ y \in Seq(ReliableCmd) /\ Len(y) = i
          /\ \A j \in 1 .. i : y[j] = IF j <= i - 1 THEN a[j] ELSE x
      BY <1>1, <1>2
    <3> HIDE DEF y
    <3>2. ASSUME NEW j \in 1 .. i PROVE y[j] = s[j]
      <4>1. CASE j <= i - 1
        BY <1>1, <1>2, <3>1, <4>1
      <4>2. CASE j = i
        BY <1>1, <3>1, <4>2 DEF x
      <4> QED BY <1>1, <4>1, <4>2
    <3> QED BY <3>1, <3>2
  <2> HIDE DEF y
  <2>2. z \in Seq(ReliableCmd) /\ Len(z) = Len(s)
        /\ \A j \in 1 .. Len(s) : z[j] = IF j <= i THEN y[j] ELSE b[j - i]
    <3>0. y \in Seq(ReliableCmd) /\ b \in Seq(ReliableCmd)
      BY <1>2, <2>1
    <3>1. /\ z \in Seq(ReliableCmd) /\ Len(z) = Len(y) + Len(b)
          /\ \A j \in 1 .. Len(y) + Len(b) : z[j] = IF j <= Len(y) THEN y[j] ELSE b[j - Len(y)]
      BY <3>0
    <3>2. Len(y) + Len(b) = Len(s)
      BY <1>1, <1>2, <2>1
    <3> HIDE DEF z
    <3> QED BY <2>1, <3>1, <3>2
  <2> HIDE DEF z
  <2>3. ASSUME NEW j \in 1 .. Len(s) PROVE z[j] = s[j]
    <3>1. CASE j <= i
      BY <1>1, <2>1, <2>2, <3>1
    <3>2. CASE j > i
      <4>1. j - i \in 1 .. Len(s) - i /\ i + (j - i) = j /\ ~(j <= i)
        BY <1>1, <3>2
      <4> QED BY <1>2, <2>2, <4>1
    <3> QED BY <1>1, <3>1, <3>2
  <2>4. s = z
    BY <2>2, <2>3
  <2> QED BY <2>4 DEF z, y
<1>7. ASSUME NEW v PROVE Count(s, v) = Count(r, v) + One(x, v)
  <2>1. Append(a, x) \in Seq(ReliableCmd)
    BY <1>2
  <2>2. Count(s, v) = (Count(a, v) + One(x, v)) + Count(b, v)
    <3>1. Count(Append(a, x) \o b, v) = Count(Append(a, x), v) + Count(b, v)
      BY <1>2, <2>1, CountJoin
    <3>2. Count(Append(a, x), v) = Count(a, v) + One(x, v)
      BY <1>2, CountAppend
    <3> QED BY <1>6, <3>1, <3>2
  <2>3. Count(r, v) = Count(a, v) + Count(b, v)
    BY <1>2, CountJoin
  <2>4. Count(a, v) \in Nat /\ Count(b, v) \in Nat /\ One(x, v) \in Nat
    BY <1>2, CountType DEF One
  <2> QED BY <2>2, <2>3, <2>4
<1> QED BY <1>3, <1>4, <1>5, <1>7 DEF x

----------------------------------------------------------------------------
(* Sending: Take and TakeAll.                                               *)

LEMMA SenderFields ==
    ASSUME NEW s, NEW t, NEW w, NEW o, SenderOK(s, t, w, o)
    PROVE  /\ s \in Seq(ReliableCmd) /\ t \in Seq(ReliableCmd)
           /\ Len(s) \in Nat /\ Len(t) \in Nat
           /\ DOMAIN s = 1 .. Len(s) /\ DOMAIN t = 1 .. Len(t)
           /\ \A i \in DOMAIN s : s[i].attempts
           /\ w.transit = Len(s)
           /\ w.reliable \in [WindowNos -> Nat] /\ w.used \subseteq WindowNos
           /\ \A v \in WindowNos : /\ w.reliable[v] = Count(s, v) + Count(t, v)
                                   /\ v \in w.used <=> w.reliable[v] # 0
<1>1. /\ s \in Seq(ReliableCmd) /\ t \in Seq(ReliableCmd)
      /\ \A i \in DOMAIN s : s[i].attempts
      /\ w = [reliable |-> w.reliable, used |-> w.used, transit |-> Len(s)]
      /\ w.reliable \in [WindowNos -> Nat] /\ w.used \subseteq WindowNos
      /\ \A v \in WindowNos : /\ w.reliable[v] = Count(s, v) + Count(t, v)
                              /\ v \in w.used <=> w.reliable[v] # 0
  BY DEF SenderOK
<1>2. w.transit = Len(s)
  BY <1>1
<1> QED BY <1>1, <1>2

LEMMA SenderMade ==
    ASSUME NEW s \in Seq(ReliableCmd), NEW t \in Seq(ReliableCmd), NEW w, NEW o,
           NEW re \in [WindowNos -> Nat], NEW us \in SUBSET WindowNos,
           \A i \in DOMAIN s : s[i].attempts,
           w = [reliable |-> re, used |-> us, transit |-> Len(s)],
           \A v \in WindowNos : /\ re[v] = Count(s, v) + Count(t, v)
                                /\ v \in us <=> re[v] # 0,
           NEW k \in 0 .. Len(t), Frontier(t, us, o, k)
    PROVE  SenderOK(s, t, w, o)
<1>1. w.reliable = re /\ w.used = us
  OBVIOUS
<1>2. w = [reliable |-> w.reliable, used |-> w.used, transit |-> Len(s)]
  BY <1>1
<1>3. \E i \in 0 .. Len(t) : Frontier(t, w.used, o, i)
  BY <1>1
<1> QED BY <1>1, <1>2, <1>3 DEF SenderOK

Now(c) == [c EXCEPT !.attempts = TRUE]

LEMMA NowFacts ==
    ASSUME NEW c \in ReliableCmd
    PROVE  /\ Now(c) \in ReliableCmd /\ Now(c).attempts /\ Now(c).rel = c.rel
           /\ c.rel \in Numbers /\ c.attempts \in BOOLEAN /\ Window(c.rel) \in WindowNos
           /\ \A v : One(Now(c), v) = IF Window(c.rel) = v THEN 1 ELSE 0
<1>1. /\ Now(c) \in ReliableCmd /\ Now(c).attempts /\ Now(c).rel = c.rel
      /\ c.rel \in Numbers /\ c.attempts \in BOOLEAN
  BY DEF Now, ReliableCmd
<1>2. Window(c.rel) \in WindowNos
  BY <1>1, WindowIn
<1>3. ASSUME NEW v PROVE One(Now(c), v) = IF Window(c.rel) = v THEN 1 ELSE 0
  BY <1>1 DEF One
<1> QED BY <1>1, <1>2, <1>3

\* The number in front of the commands that wait for the first time moves on
\* by one when the first of them is sent, and stays near all windows in use.
LEMMA FrontierSent ==
    ASSUME NEW o \in Numbers, NEW t \in Seq(ReliableCmd), NEW used \in SUBSET WindowNos,
           t # <<>>, NEW w, w.used = used, Frontier(t, used, o, 0), ~WindowWrap(w, t[1]),
           ~t[1].attempts
    PROVE  Frontier(Tail(t), used \cup {Window(t[1].rel)}, o, 0)
<1> DEFINE n == Len(t)
           c == t[1]
           R == Range16
           f == (o - n) % R
           F == FREE_RELIABLE_WINDOWS
           W == RELIABLE_WINDOWS
           r == Tail(t)
<1>1. /\ n \in Nat /\ n >= 1 /\ Len(r) = n - 1 /\ r \in Seq(ReliableCmd)
      /\ \A i \in 1 .. n - 1 : r[i] = t[i + 1]
  OBVIOUS
<1>2. /\ \A i \in 1 .. n : ~t[i].attempts /\ t[i].rel = (o - (n - i)) % R
      /\ \A u \in used : (Window(f) - u) % W <= F - 2
  <2>1. /\ \A i \in 0 + 1 .. n : ~t[i].attempts /\ t[i].rel = (o - (n - i)) % R
        /\ \A u \in used : (Window((o - (n - 0)) % R) - u) % W <= F - 2
    BY DEF Frontier
  <2>2. n - 0 = n /\ 0 + 1 = 1
    BY <1>1
  <2> QED BY <2>1, <2>2
<1>3. o \in Int /\ o - n \in Int /\ R \in Nat \ {0} /\ W \in Nat \ {0} /\ F \in Nat /\ F > 2
  BY <1>1, ChannelConstants DEF Numbers
<1>4. c.rel = (o - (n - 1)) % R /\ c.rel \in Numbers /\ Window(c.rel) \in WindowNos
  <2>1. 1 \in 1 .. n /\ c \in ReliableCmd
    BY <1>1
  <2> QED BY <1>2, <2>1, NowFacts
<1>5. f \in Numbers /\ Window(f) \in WindowNos
  BY <1>3, NumberOf, WindowIn
<1>6. c.rel = (f + 1) % R
  <2>1. (((o - n) % R) + 1) % R = ((o - n) + 1) % R
    <3> HIDE DEF R, n
    <3>1. \A z \in Int : ((z % R) + 1) % R = (z + 1) % R
      BY <1>3, RemainderPlus, 1 \in Int
    <3> QED BY <1>3, <3>1
  <2>2. (o - n) + 1 = o - (n - 1)
    BY <1>1, <1>3
  <2> QED BY <1>4, <2>1, <2>2
<1> DEFINE x == Window(c.rel)
<1>7. ASSUME NEW u \in used PROVE (x - u) % W <= F - 2
  <2>1. CASE c.rel % RELIABLE_WINDOW_SIZE # 0
    <3>1. x = Window(f)
      BY <1>5, <1>6, <2>1, WindowGoesOn
    <3> HIDE DEF x
    <3> QED BY <1>2, <3>1
  <2>2. CASE c.rel % RELIABLE_WINDOW_SIZE = 0
    <3>1. \A k \in 0 .. F + 1 : (x + k) % W \notin used
      BY <2>2 DEF WindowWrap
    <3>2. \A k \in 0 .. F + 1 : (x + k) % W # u
      BY <3>1
    <3>3. x \in WindowNos /\ u \in WindowNos
      BY <1>4
    <3> HIDE DEF x
    <3> QED BY <3>2, <3>3, WindowEntered
  <2> QED BY <2>1, <2>2
<1>8. (x - x) % W <= F - 2
  <2>1. (x - x) % W = IF x >= x THEN x - x ELSE x - x + W
    BY <1>4, WindowDistance
  <2>2. x \in Int
    BY <1>4 DEF WindowNos
  <2> HIDE DEF x
  <2> QED BY <1>3, <2>1, <2>2
<1> HIDE DEF n, c, f, x, r
<1>9. /\ n - 1 - 0 = n - 1 /\ 0 + 1 = 1
      /\ \A i \in 1 .. n - 1 : i + 1 \in 1 .. n /\ n - (i + 1) = n - 1 - i
  BY <1>1
<1>10. \A i \in 1 .. n - 1 : ~r[i].attempts /\ r[i].rel = (o - (n - 1 - i)) % R
  BY <1>1, <1>2, <1>9
<1>11. \A u \in used \cup {x} : (Window((o - (n - 1)) % R) - u) % W <= F - 2
  <2>1. Window((o - (n - 1)) % R) = x
    BY <1>4 DEF x
  <2> QED BY <1>7, <1>8, <2>1
<1>12. Frontier(r, used \cup {x}, o, 0)
  <2>1. \A i \in 1 .. 0 : r[i].attempts
    OBVIOUS
  <2> QED BY <1>1, <1>9, <1>10, <1>11, <2>1 DEF Frontier
<1> QED BY <1>12 DEF r, x, c

\* A command that waits to be sent again leaves the front of the queue.
LEMMA FrontierAgain ==
    ASSUME NEW o \in Int, NEW t \in Seq(ReliableCmd), NEW used, t # <<>>,
           NEW k \in 1 .. Len(t), Frontier(t, used, o, k)
    PROVE  Frontier(Tail(t), used, o, k - 1)
<1> DEFINE n == Len(t)
           r == Tail(t)
<1>1. /\ n \in Nat /\ n >= 1 /\ Len(r) = n - 1
      /\ \A i \in 1 .. n - 1 : r[i] = t[i + 1]
  OBVIOUS
<1>2. /\ \A i \in 1 .. k : t[i].attempts
      /\ \A i \in k + 1 .. n : ~t[i].attempts /\ t[i].rel = (o - (n - i)) % Range16
      /\ \A u \in used :
            (Window((o - (n - k)) % Range16) - u) % RELIABLE_WINDOWS <= FREE_RELIABLE_WINDOWS - 2
  BY DEF Frontier
<1>k. k \in 1 .. n
  OBVIOUS
<1> HIDE DEF n, r
<1>3. n - 1 - (k - 1) = n - k /\ k - 1 + 1 = k
  BY <1>1, <1>k
<1>4. ASSUME NEW i \in 1 .. k - 1 PROVE r[i].attempts
  <2>1. i + 1 \in 1 .. k /\ i \in 1 .. n - 1
    BY <1>1, <1>k
  <2> QED BY <1>1, <1>2, <2>1
<1>5. ASSUME NEW i \in k .. n - 1
      PROVE  ~r[i].attempts /\ r[i].rel = (o - (n - 1 - i)) % Range16
  <2>1. i + 1 \in k + 1 .. n /\ i \in 1 .. n - 1 /\ n - (i + 1) = n - 1 - i
    BY <1>1, <1>k
  <2> QED BY <1>1, <1>2, <2>1
<1>6. Frontier(r, used, o, k - 1)
  BY <1>1, <1>2, <1>3, <1>4, <1>5 DEF Frontier
<1> QED BY <1>6 DEF r

LEMMA TakeKeeps ==
    ASSUME NEW o \in Numbers, NEW s, NEW t, NEW w, SenderOK(s, t, w, o), t # <<>>,
           ~WindowWrap(w, t[1])
    PROVE  SenderOK(Append(s, Now(t[1])), Tail(t), Entered(w, t[1]), o)
<1> DEFINE c == t[1]
           x == Window(c.rel)
           s2 == Append(s, Now(c))
           t2 == Tail(t)
           e == Entered(w, c)
           re == [w.reliable EXCEPT ![x] = IF c.attempts THEN @ ELSE @ + 1]
           us == IF c.attempts THEN w.used ELSE w.used \cup {x}
<1>1. /\ s \in Seq(ReliableCmd) /\ t \in Seq(ReliableCmd)
      /\ Len(s) \in Nat /\ Len(t) \in Nat /\ DOMAIN s = 1 .. Len(s)
      /\ \A i \in DOMAIN s : s[i].attempts
      /\ w.transit = Len(s)
      /\ w.reliable \in [WindowNos -> Nat] /\ w.used \subseteq WindowNos
      /\ \A v \in WindowNos : /\ w.reliable[v] = Count(s, v) + Count(t, v)
                              /\ v \in w.used <=> w.reliable[v] # 0
  BY SenderFields
<1>2. c \in ReliableCmd /\ t2 \in Seq(ReliableCmd) /\ Len(t) >= 1
  BY <1>1
<1>3. /\ Now(c) \in ReliableCmd /\ Now(c).attempts
      /\ c.attempts \in BOOLEAN /\ x \in WindowNos
      /\ \A v : One(Now(c), v) = IF x = v THEN 1 ELSE 0
      /\ \A v : One(c, v) = IF c.attempts /\ x = v THEN 1 ELSE 0
  BY <1>2, NowFacts DEF One
<1>4. /\ s2 \in Seq(ReliableCmd) /\ Len(s2) = Len(s) + 1 /\ DOMAIN s2 = 1 .. Len(s) + 1
      /\ \A i \in 1 .. Len(s) + 1 : s2[i] = IF i <= Len(s) THEN s[i] ELSE Now(c)
  BY <1>1, <1>3
<1>5. e = [reliable |-> re, used |-> us, transit |-> Len(s) + 1]
  BY <1>1 DEF Entered
<1>6. /\ \A v : Count(s2, v) = Count(s, v) + One(Now(c), v)
      /\ \A v : Count(t, v) = One(c, v) + Count(t2, v)
  BY <1>1, <1>3, CountAppend, CountHead
<1>7. \A v : Count(s, v) \in Nat /\ Count(t2, v) \in Nat
  BY <1>1, <1>2, CountType
<1>8. /\ re \in [WindowNos -> Nat] /\ us \subseteq WindowNos
      /\ \A v \in WindowNos : re[v] = IF v = x /\ ~c.attempts THEN w.reliable[v] + 1 ELSE w.reliable[v]
  BY <1>1, <1>3
<1> HIDE DEF c, x, s2, t2, e, re
<1>9. ASSUME NEW v \in WindowNos
      PROVE  re[v] = Count(s2, v) + Count(t2, v) /\ (v \in us <=> re[v] # 0)
  <2>1. w.reliable[v] = Count(s, v) + Count(t, v) /\ w.reliable[v] \in Nat
        /\ (v \in w.used <=> w.reliable[v] # 0)
    BY <1>1
  <2>2. CASE c.attempts
    BY <1>3, <1>6, <1>7, <1>8, <2>1, <2>2
  <2>3. CASE ~c.attempts
    <3>1. /\ Count(s, v) \in Nat /\ Count(t2, v) \in Nat
          /\ Count(s2, v) = Count(s, v) + One(Now(c), v) /\ Count(t, v) = 0 + Count(t2, v)
      BY <1>3, <1>6, <1>7, <2>3
    <3>2. CASE v = x
      <4>1. One(Now(c), v) = 1 /\ re[v] = w.reliable[v] + 1 /\ v \in us
        BY <1>3, <1>8, <2>3, <3>2
      <4> QED BY <2>1, <3>1, <4>1
    <3>3. CASE v # x
      <4>1. One(Now(c), v) = 0 /\ re[v] = w.reliable[v] /\ (v \in us <=> v \in w.used)
        BY <1>3, <1>8, <2>3, <3>3
      <4> QED BY <2>1, <3>1, <4>1
    <3> QED BY <3>2, <3>3
  <2> QED BY <1>3, <2>2, <2>3
<1>10. \A i \in DOMAIN s2 : s2[i].attempts
  BY <1>1, <1>3, <1>4
<1>11. \E k \in 0 .. Len(t2) : Frontier(t2, us, o, k)
  <2>1. PICK k \in 0 .. Len(t) : Frontier(t, w.used, o, k)
    BY DEF SenderOK
  <2>2. /\ \A i \in 1 .. k : t[i].attempts
        /\ \A i \in k + 1 .. Len(t) : ~t[i].attempts
    BY <2>1 DEF Frontier
  <2>3. Len(t2) = Len(t) - 1 /\ o \in Int
    BY <1>1, <1>2 DEF t2, Numbers
  <2>4. CASE c.attempts
    <3>1. k \in 1 .. Len(t)
      BY <1>1, <1>2, <2>2, <2>4 DEF c
    <3>2. Frontier(t2, us, o, k - 1)
      BY <1>1, <2>1, <2>3, <2>4, <3>1, FrontierAgain DEF t2
    <3> QED BY <1>1, <2>3, <3>1, <3>2
  <2>5. CASE ~c.attempts
    <3>1. k = 0
      BY <1>1, <1>2, <2>2, <2>5 DEF c
    <3>2. Frontier(t2, us, o, 0)
      BY <1>1, <2>1, <2>5, <3>1, FrontierSent DEF t2, c, x
    <3> QED BY <1>1, <1>2, <2>3, <3>2
  <2> QED BY <1>3, <2>4, <2>5
<1> HIDE DEF us
<1>12. e = [reliable |-> e.reliable, used |-> e.used, transit |-> Len(s2)]
       /\ e.reliable = re /\ e.used = us
  BY <1>4, <1>5
<1>13. SenderOK(s2, t2, e, o)
  BY <1>2, <1>4, <1>8, <1>9, <1>10, <1>11, <1>12 DEF SenderOK
<1> QED BY <1>13 DEF s2, t2, e, c

\* One step of a walk over a queue, by what the walk is for.
ChannelStep(kind, x, q, acc, i) ==
    CASE kind = "take" -> Take(acc, q[i])
      [] kind = "pick" -> IF i \in x THEN Append(acc, q[i]) ELSE acc

ChannelWalk(w, n, kind, x, q, A) ==
    w = [i \in 0 .. n |-> IF i = 0 THEN A ELSE ChannelStep(kind, x, q, w[i - 1], i)]

LEMMA ChannelWalkExists ==
    ASSUME NEW kind, NEW x, NEW q, NEW A, NEW n \in Nat
    PROVE  \E w : ChannelWalk(w, n, kind, x, q, A)
<1> DEFINE T == {m \in Nat : \E w : ChannelWalk(w, m, kind, x, q, A)}
<1>1. 0 \in T
  <2>1. ChannelWalk([i \in 0 .. 0 |-> A], 0, kind, x, q, A)
    BY DEF ChannelWalk
  <2> QED BY <2>1
<1>2. ASSUME NEW m \in Nat, m \in T PROVE m + 1 \in T
  <2>1. PICK w : ChannelWalk(w, m, kind, x, q, A)
    BY <1>2
  <2> DEFINE last == ChannelStep(kind, x, q, w[m], m + 1)
             g == [i \in 0 .. m + 1 |-> IF i = m + 1 THEN last ELSE w[i]]
             k == [i \in 0 .. m + 1 |-> IF i = 0 THEN A ELSE ChannelStep(kind, x, q, g[i - 1], i)]
  <2>2. \A i \in 0 .. m : w[i] = IF i = 0 THEN A ELSE ChannelStep(kind, x, q, w[i - 1], i)
    BY <2>1 DEF ChannelWalk
  <2>3. ASSUME NEW i \in 0 .. m + 1 PROVE g[i] = k[i]
    <3>1. CASE i = m + 1
      <4>1. g[i] = last /\ i # 0 /\ i - 1 = m /\ m \in 0 .. m + 1 /\ m # m + 1
        BY <3>1
      <4>2. g[i - 1] = w[m]
        BY <4>1
      <4> HIDE DEF g, last
      <4>3. k[i] = ChannelStep(kind, x, q, w[m], m + 1)
        BY <3>1, <4>1, <4>2
      <4> QED BY <4>1, <4>3 DEF last
    <3>2. CASE i = 0
      BY <3>2, <2>2
    <3>3. CASE i \in 1 .. m
      <4>1. i \in 0 .. m /\ i # 0 /\ i - 1 \in 0 .. m /\ i - 1 \in 0 .. m + 1 /\ i # m + 1 /\ i - 1 # m + 1
        BY <3>3
      <4>2. g[i] = w[i] /\ g[i - 1] = w[i - 1]
        BY <4>1
      <4> HIDE DEF g
      <4> QED BY <4>1, <4>2, <2>2
    <3> QED BY <3>1, <3>2, <3>3
  <2>4. g = k
    <3>1. g = [i \in 0 .. m + 1 |-> g[i]] /\ k = [i \in 0 .. m + 1 |-> k[i]]
      OBVIOUS
    <3> HIDE DEF g, k
    <3> QED BY <2>3, <3>1, Zenon
  <2>5. ChannelWalk(g, m + 1, kind, x, q, A)
    BY <2>4 DEF ChannelWalk
  <2> HIDE DEF g
  <2> QED BY <2>5
<1>3. Nat \subseteq T
  <2> HIDE DEF T
  <2> QED BY <1>1, <1>2, Induct
<1> QED BY <1>3

\* What a walk does, without the function.
LEMMA ChannelWalkSteps ==
    ASSUME NEW kind, NEW x, NEW q, NEW A, NEW n \in Nat, NEW w, ChannelWalk(w, n, kind, x, q, A)
    PROVE  /\ w[0] = A
           /\ \A i \in 1 .. n : w[i] = ChannelStep(kind, x, q, w[i - 1], i)
<1>1. \A i \in 0 .. n : w[i] = IF i = 0 THEN A ELSE ChannelStep(kind, x, q, w[i - 1], i)
  BY DEF ChannelWalk
<1>2. 0 \in 0 .. n /\ \A i \in 1 .. n : i \in 0 .. n /\ i # 0
  OBVIOUS
<1> QED BY <1>1, <1>2

LEMMA TakeAllWalks ==
    ASSUME NEW q, NEW w, Len(q) \in Nat
    PROVE  \E f : /\ TakeAll(q, w) = f[Len(q)]
                  /\ f[0] = [n |-> 0, blocked |-> FALSE, w |-> w]
                  /\ \A i \in 1 .. Len(q) : f[i] = Take(f[i - 1], q[i])
<1> DEFINE A == [n |-> 0, blocked |-> FALSE, w |-> w]
           f == CHOOSE f : ChannelWalk(f, Len(q), "take", 0, q, A)
<1>1. ChannelWalk(f, Len(q), "take", 0, q, A)
  BY ChannelWalkExists
<1>2. TakeAll(q, w) = f[Len(q)]
  BY DEF TakeAll, ChannelWalk, ChannelStep
<1> HIDE DEF f
<1>3. \A i \in 1 .. Len(q) : ChannelStep("take", 0, q, f[i - 1], i) = Take(f[i - 1], q[i])
  BY DEF ChannelStep
<1>4. f[0] = A /\ \A i \in 1 .. Len(q) : f[i] = ChannelStep("take", 0, q, f[i - 1], i)
  BY <1>1, ChannelWalkSteps
<1> QED BY <1>2, <1>3, <1>4

LEMMA PickWalks ==
    ASSUME NEW q, NEW I, Len(q) \in Nat
    PROVE  \E f : /\ Pick(q, I) = f[Len(q)] /\ f[0] = <<>>
                  /\ \A i \in 1 .. Len(q) :
                        f[i] = IF i \in I THEN Append(f[i - 1], q[i]) ELSE f[i - 1]
<1> DEFINE f == CHOOSE f : ChannelWalk(f, Len(q), "pick", I, q, <<>>)
<1>1. ChannelWalk(f, Len(q), "pick", I, q, <<>>)
  BY ChannelWalkExists
<1>2. Pick(q, I) = f[Len(q)]
  BY DEF Pick, ChannelWalk, ChannelStep
<1> HIDE DEF f
<1>3. \A i \in 1 .. Len(q) : ChannelStep("pick", I, q, f[i - 1], i)
                                = IF i \in I THEN Append(f[i - 1], q[i]) ELSE f[i - 1]
  BY DEF ChannelStep
<1>4. f[0] = <<>> /\ \A i \in 1 .. Len(q) : f[i] = ChannelStep("pick", I, q, f[i - 1], i)
  BY <1>1, ChannelWalkSteps
<1> QED BY <1>2, <1>3, <1>4

\* The windows and the queues when n of the waiting commands are taken.
Taking(acc, s, q, o) ==
    /\ acc = [n |-> acc.n, blocked |-> acc.blocked, w |-> acc.w]
    /\ acc.n \in 0 .. Len(q)
    /\ SenderOK(s \o Attempted(SubSeq(q, 1, acc.n)), SubSeq(q, acc.n + 1, Len(q)), acc.w, o)

\* One command more of q is taken.
LEMMA TakenOn ==
    ASSUME NEW s \in Seq(ReliableCmd), NEW q \in Seq(ReliableCmd), NEW m \in Nat, m < Len(q)
    PROVE  LET t == SubSeq(q, m + 1, Len(q))
           IN  /\ t # <<>> /\ t[1] = q[m + 1]
               /\ Tail(t) = SubSeq(q, m + 2, Len(q))
               /\ s \o Attempted(SubSeq(q, 1, m + 1))
                      = Append(s \o Attempted(SubSeq(q, 1, m)), Now(q[m + 1]))
<1> DEFINE t == SubSeq(q, m + 1, Len(q))
           n == Len(q)
           a == SubSeq(q, 1, m)
           b == SubSeq(q, 1, m + 1)
           A == Attempted(a)
           B == Attempted(b)
           y == Now(q[m + 1])
<1>1. n \in Nat /\ m + 1 \in 1 .. n /\ q[m + 1] \in ReliableCmd
  OBVIOUS
<1>2. /\ t \in Seq(ReliableCmd) /\ Len(t) = n - m /\ t # <<>> /\ t[1] = q[m + 1]
      /\ \A i \in 1 .. n - m : t[i] = q[m + i]
  <2>1. /\ t \in Seq(ReliableCmd) /\ Len(t) = n - (m + 1) + 1
        /\ \A i \in 1 .. n - (m + 1) + 1 : t[i] = q[(m + 1) + i - 1]
    BY <1>1
  <2>2. /\ n - (m + 1) + 1 = n - m /\ n - m >= 1
        /\ \A i \in 1 .. n - m : (m + 1) + i - 1 = m + i
    BY <1>1
  <2> HIDE DEF t
  <2>3. Len(t) = n - m /\ \A i \in 1 .. n - m : t[i] = q[m + i]
    BY <2>1, <2>2
  <2>4. 1 \in 1 .. n - m /\ t # <<>>
    BY <1>1, <2>1, <2>2
  <2> QED BY <2>1, <2>3, <2>4
<1>3. Tail(t) = SubSeq(q, m + 2, n)
  <2> DEFINE r == SubSeq(q, m + 2, n)
             z == Tail(t)
  <2>1. /\ r \in Seq(ReliableCmd) /\ Len(r) = n - m - 1
        /\ \A i \in 1 .. n - m - 1 : r[i] = q[m + 1 + i]
    BY <1>1
  <2>2. /\ z \in Seq(ReliableCmd) /\ Len(z) = n - m - 1
        /\ \A i \in 1 .. n - m - 1 : z[i] = t[i + 1]
    <3> HIDE DEF t
    <3> QED BY <1>1, <1>2
  <2>3. \A i \in 1 .. n - m - 1 : i + 1 \in 1 .. n - m /\ m + (i + 1) = m + 1 + i
    BY <1>1
  <2> HIDE DEF z, r, t
  <2>4. \A i \in 1 .. n - m - 1 : z[i] = r[i]
    BY <1>2, <2>1, <2>2, <2>3
  <2>5. z = r
    BY <2>1, <2>2, <2>4, SameSequence
  <2> QED BY <2>5 DEF z, r
<1>4. /\ a \in Seq(ReliableCmd) /\ Len(a) = m /\ \A i \in 1 .. m : a[i] = q[i]
      /\ b \in Seq(ReliableCmd) /\ Len(b) = m + 1 /\ \A i \in 1 .. m + 1 : b[i] = q[i]
  BY <1>1
<1>5. \A z \in Seq(ReliableCmd) :
          /\ Attempted(z) \in Seq(ReliableCmd) /\ Len(Attempted(z)) = Len(z)
          /\ \A i \in 1 .. Len(z) : Attempted(z)[i] = Now(z[i])
  <2> TAKE z \in Seq(ReliableCmd)
  <2>1. DOMAIN z = 1 .. Len(z) /\ Len(z) \in Nat /\ \A i \in 1 .. Len(z) : z[i] \in ReliableCmd
    OBVIOUS
  <2>2. Attempted(z) = [i \in 1 .. Len(z) |-> Now(z[i])]
    BY <2>1 DEF Attempted, Now
  <2>3. \A i \in 1 .. Len(z) : Now(z[i]) \in ReliableCmd
    BY <2>1, NowFacts
  <2> QED BY <2>1, <2>2, <2>3
<1>6. /\ A \in Seq(ReliableCmd) /\ Len(A) = m /\ \A i \in 1 .. m : A[i] = Now(q[i])
      /\ B \in Seq(ReliableCmd) /\ Len(B) = m + 1 /\ \A i \in 1 .. m + 1 : B[i] = Now(q[i])
  <2> HIDE DEF a, b
  <2>1. A \in Seq(ReliableCmd) /\ Len(A) = m /\ \A i \in 1 .. m : A[i] = Now(q[i])
    BY <1>4, <1>5
  <2>2. B \in Seq(ReliableCmd) /\ Len(B) = m + 1 /\ \A i \in 1 .. m + 1 : B[i] = Now(q[i])
    <3>1. B \in Seq(ReliableCmd) /\ Len(B) = Len(b) /\ \A i \in 1 .. Len(b) : B[i] = Now(b[i])
      BY <1>4, <1>5
    <3> HIDE DEF B
    <3> QED BY <1>4, <3>1
  <2> QED BY <2>1, <2>2
<1>7. y \in ReliableCmd
  BY <1>1, NowFacts
<1> HIDE DEF a, b, A, B, y, t
<1>8. B = Append(A, y)
  <2> DEFINE C == Append(A, y)
  <2>1. C \in Seq(ReliableCmd) /\ Len(C) = m + 1
        /\ \A i \in 1 .. m + 1 : C[i] = IF i <= m THEN A[i] ELSE y
    BY <1>6, <1>7
  <2> HIDE DEF C
  <2>2. ASSUME NEW i \in 1 .. m + 1 PROVE B[i] = C[i]
    <3>1. CASE i <= m
      <4>1. i \in 1 .. m
        BY <3>1
      <4> QED BY <1>6, <2>1, <3>1, <4>1
    <3>2. CASE i = m + 1
      <4>1. ~(i <= m)
        BY <3>2
      <4> QED BY <1>6, <2>1, <3>2, <4>1 DEF y
    <3> QED BY <3>1, <3>2
  <2>3. B = C
    BY <1>6, <2>1, <2>2
  <2> QED BY <2>3 DEF C
<1>9. s \o Append(A, y) = Append(s \o A, y)
  BY <1>6, <1>7
<1> QED BY <1>2, <1>3, <1>8, <1>9 DEF a, b, A, B, y, t

LEMMA TakeIs ==
    ASSUME NEW acc, NEW c, acc = [n |-> acc.n, blocked |-> acc.blocked, w |-> acc.w]
    PROVE  Take(acc, c) =
             IF acc.blocked \/ WindowWrap(acc.w, c) \/ acc.w.transit + 1 > WindowBytes
             THEN [n |-> acc.n, blocked |-> TRUE, w |-> acc.w]
             ELSE [n |-> acc.n + 1, blocked |-> FALSE, w |-> Entered(acc.w, c)]
<1> DEFINE T == TRUE
           m == acc.n
           b == acc.blocked
           w == acc.w
<1>1. [acc EXCEPT !.blocked = TRUE] = [n |-> acc.n, blocked |-> TRUE, w |-> acc.w]
  <2>1. acc = [n |-> m, blocked |-> b, w |-> w]
    BY Zenon
  <2> HIDE DEF T, m, b, w
  <2>2. [acc EXCEPT !.blocked = T] = [n |-> m, blocked |-> T, w |-> w]
    BY <2>1
  <2> QED BY <2>2, Zenon DEF T, m, w
<1> QED BY <1>1, Zenon DEF Take

LEMMA TakingOn ==
    ASSUME NEW s \in Seq(ReliableCmd), NEW q \in Seq(ReliableCmd), NEW o \in Numbers,
           NEW acc, Taking(acc, s, q, o), NEW i \in 1 .. Len(q),
           acc.n <= i - 1, acc.blocked \/ acc.n = i - 1
    PROVE  LET b == Take(acc, q[i])
           IN  Taking(b, s, q, o) /\ b.n <= i /\ (b.blocked \/ b.n = i)
<1> DEFINE c == q[i]
           m == acc.n
           w == acc.w
           s1 == s \o Attempted(SubSeq(q, 1, m))
           t1 == SubSeq(q, m + 1, Len(q))
           no == acc.blocked \/ WindowWrap(w, c) \/ w.transit + 1 > WindowBytes
<1>1. /\ acc = [n |-> m, blocked |-> acc.blocked, w |-> w] /\ m \in 0 .. Len(q)
      /\ SenderOK(s1, t1, w, o)
  BY DEF Taking
<1>5. Take(acc, c) = IF no THEN [n |-> m, blocked |-> TRUE, w |-> w]
                     ELSE [n |-> m + 1, blocked |-> FALSE, w |-> Entered(w, c)]
  BY <1>1, TakeIs, Zenon
<1> DEFINE b == Take(acc, c)
<1>6. CASE no
  <2>1. b = [n |-> m, blocked |-> TRUE, w |-> w]
    BY <1>5, <1>6
  <2> HIDE DEF b
  <2>2. b.n = m /\ b.blocked = TRUE /\ b.w = w
    BY <2>1
  <2>3. Taking(b, s, q, o)
    BY <1>1, <2>1, <2>2 DEF Taking
  <2>4. b.n <= i
    BY <1>1, <2>2
  <2> QED BY <2>2, <2>3, <2>4 DEF b
<1>7. CASE ~no
  <2>1. b = [n |-> m + 1, blocked |-> FALSE, w |-> Entered(w, c)] /\ ~acc.blocked
    BY <1>5, <1>7
  <2> HIDE DEF b
  <2>2. b.n = m + 1 /\ b.w = Entered(w, c) /\ b = [n |-> b.n, blocked |-> b.blocked, w |-> b.w]
    BY <2>1
  <2>3. m \in Nat /\ m < Len(q) /\ m + 1 = i /\ m + 1 + 1 = m + 2 /\ m + 1 \in 0 .. Len(q)
    BY <1>1, <2>1
  <2>4. /\ t1 # <<>> /\ t1[1] = q[m + 1] /\ Tail(t1) = SubSeq(q, m + 2, Len(q))
        /\ s \o Attempted(SubSeq(q, 1, m + 1)) = Append(s1, Now(q[m + 1]))
    BY <2>3, TakenOn
  <2> HIDE DEF s1, t1, w, m
  <2>5. t1[1] = c /\ ~WindowWrap(w, t1[1])
    BY <1>7, <2>3, <2>4
  <2>6. SenderOK(Append(s1, Now(t1[1])), Tail(t1), Entered(w, t1[1]), o)
    BY <1>1, <2>4, <2>5, TakeKeeps
  <2>7. SenderOK(s \o Attempted(SubSeq(q, 1, m + 1)), SubSeq(q, m + 1 + 1, Len(q)), Entered(w, c), o)
    BY <2>3, <2>4, <2>5, <2>6
  <2>8. Taking(b, s, q, o)
    BY <2>1, <2>2, <2>3, <2>7 DEF Taking
  <2> QED BY <2>2, <2>3, <2>8 DEF b
<1> QED BY <1>6, <1>7

\* The service takes what the windows let it, and they stay exact.
LEMMA TakeAllKeeps ==
    ASSUME NEW s, NEW q, NEW w, NEW o \in Numbers, SenderOK(s, q, w, o)
    PROVE  Taking(TakeAll(q, w), s, q, o)
<1>1. s \in Seq(ReliableCmd) /\ q \in Seq(ReliableCmd) /\ Len(q) \in Nat
  BY SenderFields
<1>2. PICK f : /\ TakeAll(q, w) = f[Len(q)]
               /\ f[0] = [n |-> 0, blocked |-> FALSE, w |-> w]
               /\ \A i \in 1 .. Len(q) : f[i] = Take(f[i - 1], q[i])
  BY <1>1, TakeAllWalks
<1> DEFINE R == {m \in Nat : m <= Len(q) =>
                   Taking(f[m], s, q, o) /\ f[m].n <= m /\ (f[m].blocked \/ f[m].n = m)}
<1>3. 0 \in R
  <2>1. SubSeq(q, 1, 0) = <<>> /\ SubSeq(q, 0 + 1, Len(q)) = q
    BY <1>1
  <2>2. s \o Attempted(<<>>) = s
    <3>1. Attempted(<<>>) = <<>>
      BY DEF Attempted
    <3> QED BY <1>1, <3>1
  <2>3. f[0] = [n |-> 0, blocked |-> f[0].blocked, w |-> w] /\ f[0].n = 0 /\ f[0].w = w
    BY <1>2
  <2>4. 0 \in 0 .. Len(q)
    BY <1>1
  <2>5. Taking(f[0], s, q, o)
    BY <2>1, <2>2, <2>3, <2>4 DEF Taking
  <2> QED BY <2>3, <2>5
<1>4. ASSUME NEW m \in Nat, m \in R PROVE m + 1 \in R
  <2> SUFFICES ASSUME m + 1 <= Len(q)
               PROVE  /\ Taking(f[m + 1], s, q, o)
                      /\ f[m + 1].n <= m + 1 /\ (f[m + 1].blocked \/ f[m + 1].n = m + 1)
    OBVIOUS
  <2>1. m + 1 \in 1 .. Len(q) /\ (m + 1) - 1 = m
        /\ Taking(f[m], s, q, o) /\ f[m].n <= m /\ (f[m].blocked \/ f[m].n = m)
    BY <1>1, <1>4
  <2>2. f[m + 1] = Take(f[m], q[m + 1])
    BY <1>2, <2>1
  <2> HIDE DEF R
  <2> QED BY <1>1, <2>1, <2>2, TakingOn
<1>5. Nat \subseteq R
  <2> HIDE DEF R
  <2> QED BY <1>3, <1>4, Induct
<1>6. Len(q) \in R
  BY <1>1, <1>5
<1> QED BY <1>1, <1>2, <1>6

----------------------------------------------------------------------------
(* Timeouts: Pick.                                                          *)

LEMMA PickType ==
    ASSUME NEW S, NEW q \in Seq(S), NEW I, I \subseteq 1 .. Len(q)
    PROVE  Pick(q, I) \in Seq(S) /\ Len(Pick(q, I)) = Cardinality(I)
<1> DEFINE n == Len(q)
<1>1. n \in Nat /\ \A i \in 1 .. n : q[i] \in S
  OBVIOUS
<1>2. PICK f : /\ Pick(q, I) = f[n] /\ f[0] = <<>>
               /\ \A i \in 1 .. n : f[i] = IF i \in I THEN Append(f[i - 1], q[i]) ELSE f[i - 1]
  BY <1>1, PickWalks
<1>i. I \subseteq 1 .. n
  OBVIOUS
<1> HIDE DEF n
<1> DEFINE J(m) == I \cap (1 .. m)
           R == {m \in Nat : m <= n => /\ f[m] \in Seq(S) /\ Len(f[m]) = Cardinality(J(m))
                                       /\ IsFiniteSet(J(m))}
<1>3. 0 \in R
  <2>1. J(0) = {}
    OBVIOUS
  <2>2. f[0] \in Seq(S) /\ Len(f[0]) = 0
    BY <1>2
  <2> QED BY <2>1, <2>2, FS_EmptySet
<1>4. ASSUME NEW m \in Nat, m \in R PROVE m + 1 \in R
  <2> SUFFICES ASSUME m + 1 <= n
               PROVE  /\ f[m + 1] \in Seq(S) /\ Len(f[m + 1]) = Cardinality(J(m + 1))
                      /\ IsFiniteSet(J(m + 1))
    OBVIOUS
  <2>1. m + 1 \in 1 .. n /\ (m + 1) - 1 = m /\ f[m] \in Seq(S)
        /\ Len(f[m]) = Cardinality(J(m)) /\ IsFiniteSet(J(m)) /\ q[m + 1] \in S
    BY <1>1, <1>4
  <2>2. f[m + 1] = IF m + 1 \in I THEN Append(f[m], q[m + 1]) ELSE f[m]
    BY <1>2, <2>1
  <2>3. CASE m + 1 \in I
    <3>1. J(m + 1) = J(m) \cup {m + 1} /\ m + 1 \notin J(m)
      BY <1>1, <1>i, <2>3
    <3> HIDE DEF J
    <3>2. Cardinality(J(m + 1)) = Cardinality(J(m)) + 1 /\ IsFiniteSet(J(m + 1))
      BY <2>1, <3>1, FS_AddElement
    <3>3. f[m + 1] \in Seq(S) /\ Len(f[m + 1]) = Len(f[m]) + 1
      BY <2>1, <2>2, <2>3
    <3> QED BY <2>1, <3>2, <3>3
  <2>4. CASE m + 1 \notin I
    <3>1. J(m + 1) = J(m)
      BY <1>1, <1>i, <2>4
    <3> QED BY <2>1, <2>2, <2>4, <3>1
  <2> QED BY <2>3, <2>4
<1>5. Nat \subseteq R
  <2> HIDE DEF R
  <2> QED BY <1>3, <1>4, Induct
<1>6. J(n) = I
  BY <1>1, <1>i
<1> HIDE DEF J
<1>7. f[n] \in Seq(S) /\ Len(f[n]) = Cardinality(J(n))
  BY <1>1, <1>5
<1> QED BY <1>2, <1>6, <1>7

\* What is picked and what is left count together what there was.
LEMMA PickCounts ==
    ASSUME NEW q \in Seq(ReliableCmd), NEW I, NEW v
    PROVE  Count(Pick(q, I), v) + Count(Pick(q, DOMAIN q \ I), v) = Count(q, v)
<1> DEFINE n == Len(q)
           K == DOMAIN q \ I
           p(m) == SubSeq(q, 1, m)
<1>1. n \in Nat /\ DOMAIN q = 1 .. n /\ \A i \in 1 .. n : q[i] \in ReliableCmd
  OBVIOUS
<1>k. \A i \in 1 .. n : i \in K <=> i \notin I
  BY <1>1
<1>w. \A J : \E f : /\ Pick(q, J) = f[n] /\ f[0] = <<>>
                    /\ \A i \in 1 .. n : f[i] = IF i \in J THEN Append(f[i - 1], q[i]) ELSE f[i - 1]
  BY <1>1, PickWalks
<1>2. PICK f : /\ Pick(q, I) = f[n] /\ f[0] = <<>>
               /\ \A i \in 1 .. n : f[i] = IF i \in I THEN Append(f[i - 1], q[i]) ELSE f[i - 1]
  BY <1>w, Zenon
<1> HIDE DEF K
<1>3. PICK g : /\ Pick(q, K) = g[n] /\ g[0] = <<>>
               /\ \A i \in 1 .. n : g[i] = IF i \in K THEN Append(g[i - 1], q[i]) ELSE g[i - 1]
  BY <1>w, Zenon
<1>4. /\ p(0) = <<>> /\ p(n) = q
      /\ \A m \in 0 .. n - 1 : p(m) \in Seq(ReliableCmd) /\ p(m + 1) = Append(p(m), q[m + 1])
  <2>1. p(0) = <<>> /\ p(n) = q
    BY <1>1
  <2>2. ASSUME NEW m \in 0 .. n - 1
        PROVE  p(m) \in Seq(ReliableCmd) /\ p(m + 1) = Append(p(m), q[m + 1])
    <3> DEFINE a == p(m)
               b == p(m + 1)
               c == Append(a, q[m + 1])
    <3>1. m \in Nat /\ m + 1 \in 1 .. n
      BY <1>1
    <3>2. /\ a \in Seq(ReliableCmd) /\ Len(a) = m /\ \A i \in 1 .. m : a[i] = q[i]
          /\ b \in Seq(ReliableCmd) /\ Len(b) = m + 1 /\ \A i \in 1 .. m + 1 : b[i] = q[i]
      BY <1>1, <3>1
    <3> HIDE DEF a, b
    <3>3. c \in Seq(ReliableCmd) /\ Len(c) = m + 1
          /\ \A i \in 1 .. m + 1 : c[i] = IF i <= m THEN a[i] ELSE q[m + 1]
      BY <1>1, <3>1, <3>2
    <3> HIDE DEF c
    <3>4. ASSUME NEW i \in 1 .. m + 1 PROVE b[i] = c[i]
      <4>1. CASE i <= m
        <5>1. i \in 1 .. m
          BY <3>1, <4>1
        <5> QED BY <3>2, <3>3, <4>1, <5>1
      <4>2. CASE ~(i <= m)
        <5>1. i = m + 1
          BY <3>1, <4>2
        <5> QED BY <3>2, <3>3, <4>2, <5>1
      <4> QED BY <4>1, <4>2
    <3>5. b = c
      BY <3>2, <3>3, <3>4, SameSequence
    <3> QED BY <3>2, <3>5 DEF a, b, c
  <2> QED BY <2>1, <2>2
<1> HIDE DEF p, n
<1> DEFINE R == {m \in Nat : m <= n => /\ f[m] \in Seq(ReliableCmd) /\ g[m] \in Seq(ReliableCmd)
                                       /\ Count(f[m], v) + Count(g[m], v) = Count(p(m), v)}
<1>5. 0 \in R
  <2>1. <<>> \in Seq(ReliableCmd) /\ CountedIn(<<>>, v) = {}
    BY DEF CountedIn
  <2>2. Count(<<>>, v) = 0
    BY <2>1, FS_EmptySet DEF Count
  <2>3. f[0] = <<>> /\ g[0] = <<>> /\ p(0) = <<>>
    BY <1>2, <1>3, <1>4
  <2>4. Count(f[0], v) + Count(g[0], v) = Count(p(0), v)
    BY <2>2, <2>3
  <2> QED BY <2>1, <2>3, <2>4
<1>6. ASSUME NEW m \in Nat, m \in R PROVE m + 1 \in R
  <2> SUFFICES ASSUME m + 1 <= n
               PROVE  /\ f[m + 1] \in Seq(ReliableCmd) /\ g[m + 1] \in Seq(ReliableCmd)
                      /\ Count(f[m + 1], v) + Count(g[m + 1], v) = Count(p(m + 1), v)
    OBVIOUS
  <2> DEFINE c == q[m + 1]
  <2>1. m + 1 \in 1 .. n /\ (m + 1) - 1 = m /\ m \in 0 .. n - 1 /\ c \in ReliableCmd
    BY <1>1
  <2>2. f[m] \in Seq(ReliableCmd) /\ g[m] \in Seq(ReliableCmd)
        /\ Count(f[m], v) + Count(g[m], v) = Count(p(m), v)
    BY <1>1, <1>6, <2>1
  <2>3. f[m + 1] = (IF m + 1 \in I THEN Append(f[m], c) ELSE f[m])
        /\ g[m + 1] = (IF m + 1 \in K THEN Append(g[m], c) ELSE g[m])
        /\ (m + 1 \in K <=> m + 1 \notin I)
    BY <1>2, <1>3, <1>k, <2>1
  <2>4. p(m) \in Seq(ReliableCmd) /\ p(m + 1) = Append(p(m), c)
    BY <1>4, <2>1
  <2>5. Count(p(m + 1), v) = Count(p(m), v) + One(c, v)
    BY <2>1, <2>4, CountAppend
  <2>6. Count(f[m], v) \in Nat /\ Count(g[m], v) \in Nat /\ One(c, v) \in Nat
    BY <2>2, CountType DEF One
  <2>7. CASE m + 1 \in I
    <3>1. f[m + 1] = Append(f[m], c) /\ g[m + 1] = g[m]
      BY <2>3, <2>7
    <3>2. f[m + 1] \in Seq(ReliableCmd) /\ Count(f[m + 1], v) = Count(f[m], v) + One(c, v)
      BY <2>1, <2>2, <3>1, CountAppend
    <3> QED BY <2>2, <2>5, <2>6, <3>1, <3>2
  <2>8. CASE m + 1 \notin I
    <3>1. g[m + 1] = Append(g[m], c) /\ f[m + 1] = f[m]
      BY <2>3, <2>8
    <3>2. g[m + 1] \in Seq(ReliableCmd) /\ Count(g[m + 1], v) = Count(g[m], v) + One(c, v)
      BY <2>1, <2>2, <3>1, CountAppend
    <3> QED BY <2>2, <2>5, <2>6, <3>1, <3>2
  <2> QED BY <2>7, <2>8
<1>7. Nat \subseteq R
  <2> HIDE DEF R
  <2> QED BY <1>5, <1>6, Induct
<1>8. n \in R
  BY <1>1, <1>7
<1>9. Count(f[n], v) + Count(g[n], v) = Count(p(n), v)
  BY <1>1, <1>8
<1> QED BY <1>2, <1>3, <1>4, <1>9 DEF K

\* Commands that were sent join the front of the queue.
LEMMA FrontierJoined ==
    ASSUME NEW o \in Int, NEW a \in Seq(ReliableCmd), NEW t \in Seq(ReliableCmd), NEW used,
           \A i \in DOMAIN a : a[i].attempts, NEW k \in 0 .. Len(t), Frontier(t, used, o, k)
    PROVE  Frontier(a \o t, used, o, Len(a) + k) /\ Len(a) + k \in 0 .. Len(a \o t)
<1> DEFINE n == Len(a)
           m == Len(t)
           c == a \o t
<1>1. /\ n \in Nat /\ m \in Nat /\ DOMAIN a = 1 .. n
      /\ c \in Seq(ReliableCmd) /\ DOMAIN c = 1 .. n + m /\ Len(c) = n + m
      /\ \A i \in 1 .. n : c[i] = a[i]
      /\ \A i \in 1 .. m : n + i \in DOMAIN c /\ c[n + i] = t[i]
  <2>1. Len(c) = n + m
    OBVIOUS
  <2> QED BY <2>1, Joined
<1>2. /\ \A i \in 1 .. k : t[i].attempts
      /\ \A i \in k + 1 .. m : ~t[i].attempts /\ t[i].rel = (o - (m - i)) % Range16
      /\ \A u \in used :
            (Window((o - (m - k)) % Range16) - u) % RELIABLE_WINDOWS <= FREE_RELIABLE_WINDOWS - 2
  BY DEF Frontier
<1>k. k \in 0 .. m /\ \A i \in 1 .. n : a[i].attempts
  BY <1>1
<1> HIDE DEF n, m, c
<1>3. n + m - (n + k) = m - k /\ n + k \in 0 .. n + m
  BY <1>1, <1>k
<1>4. ASSUME NEW i \in 1 .. n + k PROVE c[i].attempts
  <2>1. CASE i <= n
    <3>1. i \in 1 .. n
      BY <2>1
    <3> QED BY <1>1, <1>k, <3>1
  <2>2. CASE i > n
    <3>1. i - n \in 1 .. k /\ i - n \in 1 .. m /\ n + (i - n) = i
      BY <1>1, <1>k, <2>2
    <3>2. c[i] = t[i - n]
      BY <1>1, <3>1
    <3> QED BY <1>2, <3>1, <3>2
  <2> QED BY <1>1, <1>k, <2>1, <2>2
<1>5. ASSUME NEW i \in n + k + 1 .. n + m
      PROVE  ~c[i].attempts /\ c[i].rel = (o - (n + m - i)) % Range16
  <2>1. i - n \in k + 1 .. m /\ i - n \in 1 .. m /\ n + (i - n) = i /\ m - (i - n) = n + m - i
    BY <1>1, <1>k
  <2>2. c[i] = t[i - n]
    BY <1>1, <2>1
  <2> QED BY <1>2, <2>1, <2>2
<1>6. Frontier(c, used, o, n + k)
  BY <1>1, <1>2, <1>3, <1>4, <1>5 DEF Frontier
<1> QED BY <1>1, <1>3, <1>6 DEF c, n

\* Commands that time out are no longer in transit and are counted still.
LEMMA TimeoutsKeep ==
    ASSUME NEW o \in Numbers, NEW s, NEW t, NEW w, SenderOK(s, t, w, o), NEW I \in SUBSET DOMAIN s
    PROVE  SenderOK(Pick(s, DOMAIN s \ I), Pick(s, I) \o t,
                    [w EXCEPT !.transit = @ - Cardinality(I)], o)
<1> DEFINE K == DOMAIN s \ I
           a == Pick(s, I)
           b == Pick(s, K)
           t2 == a \o t
           tr == w.transit - Cardinality(I)
           w2 == [w EXCEPT !.transit = tr]
           X == {c \in ReliableCmd : c.attempts}
<1>1. /\ s \in Seq(ReliableCmd) /\ t \in Seq(ReliableCmd)
      /\ Len(s) \in Nat /\ Len(t) \in Nat /\ DOMAIN s = 1 .. Len(s)
      /\ \A i \in DOMAIN s : s[i].attempts
      /\ w.transit = Len(s)
      /\ w.reliable \in [WindowNos -> Nat] /\ w.used \subseteq WindowNos
      /\ \A v \in WindowNos : /\ w.reliable[v] = Count(s, v) + Count(t, v)
                              /\ v \in w.used <=> w.reliable[v] # 0
  BY SenderFields
<1>2. s \in Seq(X) /\ I \subseteq 1 .. Len(s) /\ K \subseteq 1 .. Len(s)
  BY <1>1
<1>3. a \in Seq(X) /\ Len(a) = Cardinality(I) /\ b \in Seq(X) /\ Len(b) = Cardinality(K)
  BY <1>2, PickType
<1>4. Cardinality(K) = Len(s) - Cardinality(I)
  <2>1. IsFiniteSet(1 .. Len(s)) /\ Cardinality(1 .. Len(s)) = Len(s)
    <3>1. \A m \in Nat : IsFiniteSet(1 .. m) /\ Cardinality(1 .. m) = m
      BY FS_Interval, 1 \in Int
    <3> QED BY <1>1, <3>1
  <2>2. IsFiniteSet(I) /\ IsFiniteSet(K)
    BY <1>2, <2>1, FS_Subset
  <2>3. I \cup K = 1 .. Len(s) /\ I \cap K = {}
    BY <1>1
  <2>4. Cardinality(I \cup K) = Cardinality(I) + Cardinality(K) - Cardinality(I \cap K)
    BY <2>2, FS_Union
  <2>5. Cardinality(I) \in Nat /\ Cardinality(K) \in Nat /\ Cardinality({}) = 0
    BY <2>2, FS_CardinalityType, FS_EmptySet
  <2>6. Cardinality(I \cup K) = Len(s) /\ Cardinality(I \cap K) = 0
    BY <2>1, <2>3, <2>5
  <2> DEFINE x == Cardinality(I)
             y == Cardinality(K)
  <2>7. Len(s) = x + y - 0 /\ x \in Nat /\ y \in Nat
    BY <2>4, <2>5, <2>6
  <2> HIDE DEF x, y
  <2>8. y = Len(s) - x
    BY <1>1, <2>7
  <2> QED BY <2>8 DEF x, y
<1>5. \A v : Count(a, v) + Count(b, v) = Count(s, v)
  BY <1>1, PickCounts
<1> HIDE DEF a, b, K
<1>6. /\ a \in Seq(ReliableCmd) /\ b \in Seq(ReliableCmd)
      /\ \A i \in DOMAIN a : a[i].attempts
      /\ \A i \in DOMAIN b : b[i].attempts
  BY <1>3
<1>7. t2 \in Seq(ReliableCmd) /\ \A v : Count(t2, v) = Count(a, v) + Count(t, v)
  BY <1>1, <1>6, CountJoin
<1>8. \A v : Count(a, v) \in Nat /\ Count(b, v) \in Nat /\ Count(t, v) \in Nat
  BY <1>1, <1>6, CountType
<1>9. \A v : Count(b, v) + Count(t2, v) = Count(s, v) + Count(t, v)
  BY <1>5, <1>7, <1>8
<1>10. w = [reliable |-> w.reliable, used |-> w.used, transit |-> Len(s)]
  BY DEF SenderOK
<1>11. w2 = [reliable |-> w.reliable, used |-> w.used, transit |-> Len(b)]
  <2>1. tr = Len(b)
    BY <1>1, <1>3, <1>4
  <2> HIDE DEF tr
  <2>2. w2 = [reliable |-> w.reliable, used |-> w.used, transit |-> tr]
    BY <1>10
  <2> QED BY <2>1, <2>2
<1>12. PICK k \in 0 .. Len(t2) : Frontier(t2, w.used, o, k)
  <2>1. PICK k \in 0 .. Len(t) : Frontier(t, w.used, o, k)
    BY DEF SenderOK
  <2>2. o \in Int
    BY ChannelConstants DEF Numbers
  <2> QED BY <1>1, <1>6, <2>1, <2>2, FrontierJoined
<1> HIDE DEF t2, w2
<1>13. \A v \in WindowNos : /\ w.reliable[v] = Count(b, v) + Count(t2, v)
                            /\ v \in w.used <=> w.reliable[v] # 0
  BY <1>1, <1>9
<1>14. SenderOK(b, t2, w2, o)
  BY <1>1, <1>6, <1>7, <1>11, <1>12, <1>13, SenderMade
<1> QED BY <1>14 DEF b, t2, a, K, w2

----------------------------------------------------------------------------
(* Acknowledgements.                                                        *)

\* The windows with one command of window x less, n bytes less in transit.
Left(w, x, n) ==
    [reliable |-> [w.reliable EXCEPT ![x] = w.reliable[x] - 1],
     used |-> IF w.reliable[x] - 1 = 0 THEN w.used \ {x} ELSE w.used,
     transit |-> w.transit - n]

\* The entry of a window that is no longer in use no longer matters.
LEMMA FrontierShrinks ==
    ASSUME NEW t, NEW us, NEW us2, us2 \subseteq us, NEW o, NEW k, Frontier(t, us, o, k)
    PROVE  Frontier(t, us2, o, k)
  BY DEF Frontier

LEMMA LeftKeeps ==
    ASSUME NEW s, NEW t, NEW w, NEW o, SenderOK(s, t, w, o), NEW x \in WindowNos, NEW n \in Nat,
           NEW s2 \in Seq(ReliableCmd), NEW t2 \in Seq(ReliableCmd),
           \A i \in DOMAIN s2 : s2[i].attempts, Len(s2) = Len(s) - n,
           \A v \in WindowNos :
              Count(s, v) + Count(t, v) = Count(s2, v) + Count(t2, v) + (IF v = x THEN 1 ELSE 0),
           NEW k \in 0 .. Len(t2), Frontier(t2, w.used, o, k)
    PROVE  SenderOK(s2, t2, Left(w, x, n), o)
<1> DEFINE m == w.reliable[x] - 1
           re == [w.reliable EXCEPT ![x] = m]
           us == IF m = 0 THEN w.used \ {x} ELSE w.used
<1>1. /\ w.transit = Len(s) /\ w.reliable \in [WindowNos -> Nat] /\ w.used \subseteq WindowNos
      /\ \A v \in WindowNos : /\ w.reliable[v] = Count(s, v) + Count(t, v)
                              /\ v \in w.used <=> w.reliable[v] # 0
  BY SenderFields
<1>2. \A v : Count(s2, v) \in Nat /\ Count(t2, v) \in Nat
  BY CountType
<1>3. m = Count(s2, x) + Count(t2, x) /\ m \in Nat /\ w.reliable[x] = m + 1
  BY <1>1, <1>2
<1> HIDE DEF m
<1>4. re \in [WindowNos -> Nat] /\ us \in SUBSET WindowNos /\ us \subseteq w.used
      /\ \A v \in WindowNos : re[v] = IF v = x THEN m ELSE w.reliable[v]
  BY <1>1, <1>3
<1>5. ASSUME NEW v \in WindowNos
      PROVE  re[v] = Count(s2, v) + Count(t2, v) /\ (v \in us <=> re[v] # 0)
  <2>1. CASE v = x
    <3>1. re[v] = m /\ x \in w.used
      BY <1>1, <1>3, <1>4, <2>1
    <3> QED BY <1>3, <2>1, <3>1
  <2>2. CASE v # x
    <3>1. re[v] = w.reliable[v] /\ (v \in us <=> v \in w.used)
      BY <1>4, <2>2
    <3>2. w.reliable[v] = Count(s2, v) + Count(t2, v)
      BY <1>1, <1>2, <2>2
    <3> QED BY <1>1, <3>1, <3>2
  <2> QED BY <2>1, <2>2
<1> HIDE DEF re, us
<1>6. Frontier(t2, us, o, k)
  BY <1>4, FrontierShrinks
<1>7. Left(w, x, n) = [reliable |-> re, used |-> us, transit |-> Len(s2)]
  BY <1>1 DEF Left, re, us, m
<1> QED BY <1>4, <1>5, <1>6, <1>7, SenderMade

\* A command under way is acknowledged.
LEMMA AckedSent ==
    ASSUME NEW s, NEW t, NEW w, NEW o, SenderOK(s, t, w, o), NEW i \in DOMAIN s
    PROVE  SenderOK(RemoveAt(s, i), t, Left(w, Window(s[i].rel), 1), o)
<1> DEFINE r == RemoveAt(s, i)
           x == Window(s[i].rel)
<1>1. /\ s \in Seq(ReliableCmd) /\ t \in Seq(ReliableCmd) /\ Len(s) \in Nat
      /\ DOMAIN s = 1 .. Len(s) /\ \A j \in DOMAIN s : s[j].attempts
  BY SenderFields
<1>2. /\ r \in Seq(ReliableCmd) /\ Len(r) = Len(s) - 1
      /\ \A j \in 1 .. Len(r) : r[j] = IF j < i THEN s[j] ELSE s[j + 1]
      /\ \A v : Count(s, v) = Count(r, v) + One(s[i], v)
  BY <1>1, RemovedFacts
<1>3. s[i] \in ReliableCmd /\ s[i].attempts
  BY <1>1
<1>4. x \in WindowNos /\ \A v : One(s[i], v) = IF v = x THEN 1 ELSE 0
  BY <1>3, NowFacts DEF One
<1> HIDE DEF r, x
<1>5. ASSUME NEW j \in DOMAIN r PROVE r[j].attempts
  <2>1. j \in 1 .. Len(r) /\ j \in 1 .. Len(s) /\ j + 1 \in 1 .. Len(s)
    BY <1>1, <1>2
  <2>2. r[j] = s[j] \/ r[j] = s[j + 1]
    BY <1>2, <2>1
  <2> QED BY <1>1, <2>1, <2>2
<1>6. \A v : Count(r, v) \in Nat /\ Count(t, v) \in Nat /\ One(s[i], v) \in Nat
  BY <1>1, <1>2, CountType DEF One
<1>7. ASSUME NEW v \in WindowNos
      PROVE  Count(s, v) + Count(t, v) = Count(r, v) + Count(t, v) + (IF v = x THEN 1 ELSE 0)
  <2>1. Count(s, v) = Count(r, v) + One(s[i], v) /\ One(s[i], v) = (IF v = x THEN 1 ELSE 0)
        /\ Count(r, v) \in Nat /\ Count(t, v) \in Nat
    BY <1>2, <1>4, <1>6
  <2> QED BY <2>1
<1>8. PICK k \in 0 .. Len(t) : Frontier(t, w.used, o, k)
  BY DEF SenderOK
<1>9. SenderOK(r, t, Left(w, x, 1), o)
  BY <1>1, <1>2, <1>4, <1>5, <1>7, <1>8, LeftKeeps
<1> QED BY <1>9 DEF r, x

\* A command that waits to be sent again is acknowledged.
LEMMA AckedAgain ==
    ASSUME NEW s, NEW t, NEW w, NEW o \in Int, SenderOK(s, t, w, o), NEW i \in DOMAIN t,
           t[i].attempts
    PROVE  SenderOK(s, RemoveAt(t, i), Left(w, Window(t[i].rel), 0), o)
<1> DEFINE r == RemoveAt(t, i)
           x == Window(t[i].rel)
           n == Len(t)
<1>1. /\ s \in Seq(ReliableCmd) /\ t \in Seq(ReliableCmd) /\ Len(s) \in Nat /\ n \in Nat
      /\ DOMAIN t = 1 .. n /\ \A j \in DOMAIN s : s[j].attempts
  BY SenderFields
<1>2. /\ r \in Seq(ReliableCmd) /\ Len(r) = n - 1
      /\ \A j \in 1 .. Len(r) : r[j] = IF j < i THEN t[j] ELSE t[j + 1]
      /\ \A v : Count(t, v) = Count(r, v) + One(t[i], v)
  BY <1>1, RemovedFacts
<1>3. t[i] \in ReliableCmd
  BY <1>1
<1>4. x \in WindowNos /\ \A v : One(t[i], v) = IF v = x THEN 1 ELSE 0
  BY <1>3, NowFacts DEF One
<1> HIDE DEF r, x
<1>6. \A v : Count(r, v) \in Nat /\ Count(s, v) \in Nat
  BY <1>1, <1>2, CountType
<1>7. ASSUME NEW v \in WindowNos
      PROVE  Count(s, v) + Count(t, v) = Count(s, v) + Count(r, v) + (IF v = x THEN 1 ELSE 0)
  <2>1. Count(t, v) = Count(r, v) + One(t[i], v) /\ One(t[i], v) = (IF v = x THEN 1 ELSE 0)
        /\ Count(r, v) \in Nat /\ Count(s, v) \in Nat
    BY <1>2, <1>4, <1>6
  <2> QED BY <2>1
<1>8. PICK k \in 0 .. n : Frontier(t, w.used, o, k)
  BY DEF SenderOK
<1>9. /\ \A j \in 1 .. k : t[j].attempts
      /\ \A j \in k + 1 .. n : ~t[j].attempts /\ t[j].rel = (o - (n - j)) % Range16
      /\ \A u \in w.used :
            (Window((o - (n - k)) % Range16) - u) % RELIABLE_WINDOWS <= FREE_RELIABLE_WINDOWS - 2
  BY <1>8 DEF Frontier
<1>10. i \in 1 .. n /\ i \in 1 .. k
  BY <1>1, <1>8, <1>9
<1> HIDE DEF n
<1>11. ASSUME NEW j \in 1 .. k - 1 PROVE r[j].attempts
  <2>1. j \in 1 .. Len(r) /\ j \in 1 .. k /\ j + 1 \in 1 .. k
    BY <1>1, <1>2, <1>8
  <2>2. r[j] = t[j] \/ r[j] = t[j + 1]
    BY <1>2, <2>1
  <2> QED BY <1>9, <2>1, <2>2
<1>12. ASSUME NEW j \in k .. n - 1
       PROVE  ~r[j].attempts /\ r[j].rel = (o - (n - 1 - j)) % Range16
  <2>1. j \in 1 .. Len(r) /\ j + 1 \in k + 1 .. n /\ n - (j + 1) = n - 1 - j /\ ~(j < i)
    BY <1>1, <1>2, <1>8, <1>10
  <2>2. r[j] = t[j + 1]
    BY <1>2, <2>1
  <2> QED BY <1>9, <2>1, <2>2
<1>13. n - 1 - (k - 1) = n - k /\ k - 1 + 1 = k /\ k - 1 \in 0 .. Len(r)
  BY <1>1, <1>2, <1>8, <1>10
<1>14. Frontier(r, w.used, o, k - 1)
  <2>1. Len(r) = n - 1
    BY <1>2
  <2>2. \A j \in 1 .. k - 1 : r[j].attempts
    BY <1>11
  <2>3. \A j \in (k - 1) + 1 .. Len(r) :
           ~r[j].attempts /\ r[j].rel = (o - (Len(r) - j)) % Range16
    BY <1>12, <1>13, <2>1
  <2>4. \A u \in w.used :
           (Window((o - (Len(r) - (k - 1))) % Range16) - u) % RELIABLE_WINDOWS
              <= FREE_RELIABLE_WINDOWS - 2
    BY <1>9, <1>13, <2>1
  <2> HIDE DEF r
  <2> QED BY <2>2, <2>3, <2>4 DEF Frontier
<1>15. Len(s) = Len(s) - 0 /\ 0 \in Nat
  BY <1>1
<1>16. SenderOK(s, r, Left(w, x, 0), o)
  <2>1. r \in Seq(ReliableCmd) /\ s \in Seq(ReliableCmd) /\ x \in WindowNos
    BY <1>1, <1>2, <1>4
  <2>2. \A j \in DOMAIN s : s[j].attempts
    BY <1>1
  <2>3. k - 1 \in 0 .. Len(r)
    BY <1>13
  <2> DEFINE h == k - 1
             z == 0
  <2>4. h \in 0 .. Len(r) /\ Frontier(r, w.used, o, h) /\ z \in Nat /\ Len(s) = Len(s) - z
    BY <1>14, <1>15, <2>3
  <2> HIDE DEF h, z
  <2>5. SenderOK(s, r, Left(w, x, z), o)
    BY <1>7, <2>1, <2>2, <2>4, LeftKeeps
  <2> QED BY <2>5 DEF z
<1> QED BY <1>16 DEF r, x

----------------------------------------------------------------------------
(* Submitting.                                                              *)

\* New commands with the next numbers at the end of the queue.
LEMMA FrontierGrows ==
    ASSUME NEW o \in Numbers, NEW t \in Seq(ReliableCmd), NEW cs \in Seq(ReliableCmd), NEW used,
           \A j \in 1 .. Len(cs) : ~cs[j].attempts /\ cs[j].rel = (o + j) % Range16,
           NEW k \in 0 .. Len(t), Frontier(t, used, o, k)
    PROVE  /\ Frontier(t \o cs, used, (o + Len(cs)) % Range16, k)
           /\ k \in 0 .. Len(t \o cs)
<1> DEFINE n == Len(t)
           m == Len(cs)
           c == t \o cs
           R == Range16
           p == (o + m) % R
<1>1. /\ n \in Nat /\ m \in Nat /\ Len(c) = n + m
      /\ \A i \in 1 .. n : c[i] = t[i]
      /\ \A i \in 1 .. m : c[n + i] = cs[i]
  <2>1. Len(c) = n + m
    OBVIOUS
  <2> QED BY <2>1, Joined
<1>2. /\ \A i \in 1 .. k : t[i].attempts
      /\ \A i \in k + 1 .. n : ~t[i].attempts /\ t[i].rel = (o - (n - i)) % R
      /\ \A u \in used :
            (Window((o - (n - k)) % R) - u) % RELIABLE_WINDOWS <= FREE_RELIABLE_WINDOWS - 2
  BY DEF Frontier
<1>3. R \in Nat \ {0} /\ o \in Int /\ k \in 0 .. n
      /\ \A j \in 1 .. m : ~cs[j].attempts /\ cs[j].rel = (o + j) % R
  BY ChannelConstants DEF Numbers
<1> HIDE DEF n, m, c, R
<1>4. \A z \in Int : (p - z) % R = (o + m - z) % R
  <2> TAKE z \in Int
  <2>1. o + m \in Int /\ -z \in Int
    BY <1>1, <1>3
  <2>2. (((o + m) % R) + (-z)) % R = ((o + m) + (-z)) % R
    BY <1>3, <2>1, RemainderPlus
  <2>3. (o + m) % R \in Int
    BY <1>3, <2>1, Division
  <2>4. ((o + m) % R) + (-z) = p - z /\ (o + m) + (-z) = o + m - z
    <3> HIDE DEF p
    <3>1. p \in Int
      BY <2>3 DEF p
    <3>2. p + (-z) = p - z
      BY <3>1
    <3>3. (o + m) + (-z) = o + m - z
      BY <1>1, <1>3
    <3> QED BY <3>2, <3>3 DEF p
  <2> QED BY <2>2, <2>4
<1> HIDE DEF p
<1>5. ASSUME NEW i \in 1 .. k PROVE c[i].attempts
  <2>1. i \in 1 .. n
    BY <1>1, <1>3
  <2> QED BY <1>1, <1>2, <2>1
<1>6. ASSUME NEW i \in k + 1 .. n + m
      PROVE  ~c[i].attempts /\ c[i].rel = (p - (n + m - i)) % R
  <2>0. n + m - i \in Int /\ i \in Int
    BY <1>1, <1>3
  <2>1. (p - (n + m - i)) % R = (o + m - (n + m - i)) % R
    BY <1>4, <2>0
  <2>2. CASE i <= n
    <3>1. i \in 1 .. n /\ i \in k + 1 .. n /\ o + m - (n + m - i) = o - (n - i)
      BY <1>1, <1>3, <2>2
    <3> QED BY <1>1, <1>2, <2>1, <3>1
  <2>3. CASE i > n
    <3>1. i - n \in 1 .. m /\ n + (i - n) = i /\ o + m - (n + m - i) = o + (i - n)
      <4>1. i - n \in 1 .. m
        BY <1>1, <2>0, <2>3
      <4>2. n + (i - n) = i
        BY <1>1, <2>0
      <4>3. o + m - (n + m - i) = o + (i - n)
        BY <1>1, <1>3, <2>0
      <4> QED BY <4>1, <4>2, <4>3
    <3>2. c[i] = cs[i - n]
      BY <1>1, <3>1
    <3> QED BY <1>3, <2>1, <3>1, <3>2
  <2> QED BY <1>1, <2>0, <2>2, <2>3
<1>7. (p - (n + m - k)) % R = (o - (n - k)) % R
  <2>1. n + m - k \in Int /\ o + m - (n + m - k) = o - (n - k)
    BY <1>1, <1>3
  <2> QED BY <1>4, <2>1
<1>8. Frontier(c, used, p, k)
  BY <1>1, <1>2, <1>5, <1>6, <1>7 DEF Frontier, R
<1>9. k \in 0 .. n + m
  BY <1>1, <1>3
<1> QED BY <1>1, <1>8, <1>9 DEF c, p, m, R

LEMMA SubmittedKeeps ==
    ASSUME NEW o \in Numbers, NEW s, NEW t, NEW w, SenderOK(s, t, w, o),
           NEW cs \in Seq(ReliableCmd),
           \A j \in 1 .. Len(cs) : ~cs[j].attempts /\ cs[j].rel = (o + j) % Range16
    PROVE  SenderOK(s, t \o cs, w, (o + Len(cs)) % Range16)
<1> DEFINE t2 == t \o cs
           p == (o + Len(cs)) % Range16
<1>1. /\ s \in Seq(ReliableCmd) /\ t \in Seq(ReliableCmd)
      /\ Len(s) \in Nat /\ Len(t) \in Nat
      /\ \A i \in DOMAIN s : s[i].attempts
      /\ w.reliable \in [WindowNos -> Nat] /\ w.used \subseteq WindowNos
      /\ \A v \in WindowNos : /\ w.reliable[v] = Count(s, v) + Count(t, v)
                              /\ v \in w.used <=> w.reliable[v] # 0
  BY SenderFields
<1>2. w = [reliable |-> w.reliable, used |-> w.used, transit |-> Len(s)]
  BY DEF SenderOK
<1>3. ASSUME NEW v PROVE Count(t2, v) = Count(t, v)
  <2>1. DOMAIN cs = 1 .. Len(cs)
    OBVIOUS
  <2>2. CountedIn(cs, v) = {}
    BY <2>1 DEF CountedIn
  <2>3. Count(cs, v) = 0 /\ Count(t, v) \in Nat
    BY <1>1, <2>2, FS_EmptySet, CountType DEF Count
  <2>4. Count(t2, v) = Count(t, v) + Count(cs, v)
    BY <1>1, CountJoin
  <2> QED BY <2>3, <2>4
<1>4. PICK k \in 0 .. Len(t) : Frontier(t, w.used, o, k)
  BY DEF SenderOK
<1>5. Frontier(t2, w.used, p, k) /\ k \in 0 .. Len(t2)
  BY <1>1, <1>4, FrontierGrows
<1>6. t2 \in Seq(ReliableCmd)
  BY <1>1
<1> HIDE DEF t2, p
<1>7. \A v \in WindowNos : /\ w.reliable[v] = Count(s, v) + Count(t2, v)
                           /\ v \in w.used <=> w.reliable[v] # 0
  BY <1>1, <1>3
<1>8. SenderOK(s, t2, w, p)
  BY <1>1, <1>2, <1>5, <1>6, <1>7, SenderMade
<1> QED BY <1>8 DEF t2, p

----------------------------------------------------------------------------
(* The steps of the sender.                                                 *)

Queues(a, t, s) == [commands |-> a, sendReliable |-> t, sentReliable |-> s]

\* The part of the invariant that holds until the sender is disconnecting.
Connection(st, q, w, o) == st # "DISCONNECTING" => SenderOK(q.sentReliable, q.sendReliable, w, o)

LEMMA SenderShape ==
    SenderInv <=> /\ plan \in Plans /\ sent \in Nat
                  /\ out = [rel |-> out.rel, unrel |-> out.unrel, group |-> out.group]
                  /\ out.rel \in Numbers
                  /\ queued = Queues(queued.commands, queued.sendReliable, queued.sentReliable)
                  /\ Connection(state, queued, windows, out.rel)
  BY DEF SenderInv, Queues, Connection

LEMMA QueueRead ==
    \A q, a, t, s : q = Queues(a, t, s) =>
        /\ q.commands = a /\ q.sendReliable = t /\ q.sentReliable = s
        /\ q = Queues(q.commands, q.sendReliable, q.sentReliable)
<1> SUFFICES ASSUME NEW q, NEW a, NEW t, NEW s, q = Queues(a, t, s)
             PROVE  /\ q.commands = a /\ q.sendReliable = t /\ q.sentReliable = s
                    /\ q = Queues(q.commands, q.sendReliable, q.sentReliable)
  BY Zenon
<1>1. q.commands = a /\ q.sendReliable = t /\ q.sentReliable = s
  BY DEF Queues
<1> QED BY <1>1

LEMMA QueueWrite ==
    \A q, a, t, s, z : q = Queues(a, t, s) =>
        /\ [q EXCEPT !.commands = z] = Queues(z, t, s)
        /\ [q EXCEPT !.sendReliable = z] = Queues(a, z, s)
<1> SUFFICES ASSUME NEW q, NEW a, NEW t, NEW s, NEW z, q = Queues(a, t, s)
             PROVE  /\ [q EXCEPT !.commands = z] = Queues(z, t, s)
                    /\ [q EXCEPT !.sendReliable = z] = Queues(a, z, s)
  BY Zenon
<1>1. q = [commands |-> a, sendReliable |-> t, sentReliable |-> s]
  BY DEF Queues
<1>2. [q EXCEPT !.commands = z] = Queues(z, t, s)
  BY <1>1 DEF Queues
<1>3. [q EXCEPT !.sendReliable = z] = Queues(a, z, s)
  BY <1>1 DEF Queues
<1> QED BY <1>2, <1>3

\* The state after a step of the sender that gives no number.
LEMMA SenderAfter ==
    ASSUME SenderInv, plan' = plan, sent' \in Nat, out' = out,
           NEW a, NEW t, NEW s, queued' = Queues(a, t, s),
           state' = "DISCONNECTING" \/ SenderOK(s, t, windows', out.rel)
    PROVE  SenderInv'
<1>1. /\ plan \in Plans
      /\ out = [rel |-> out.rel, unrel |-> out.unrel, group |-> out.group] /\ out.rel \in Numbers
  BY SenderShape
<1>2. queued'.sendReliable = t /\ queued'.sentReliable = s
      /\ queued' = Queues(queued'.commands, queued'.sendReliable, queued'.sentReliable)
  BY QueueRead
<1>3. Connection(state', queued', windows', out.rel)
  BY <1>2 DEF Connection
<1> QED BY <1>1, <1>2, <1>3 DEF SenderInv, Queues, Connection

LEMMA DisconnectShape ==
    ASSUME PeerDisconnect
    PROVE  state' = "DISCONNECTING" /\ queued' = Queues(<<Disconnect>>, <<>>, <<>>)
<1>1. state' = "DISCONNECTING" /\ queued' = [NoCommands EXCEPT !.commands = <<Disconnect>>]
  BY DEF PeerDisconnect
<1>2. NoCommands = Queues(<<>>, <<>>, <<>>)
  BY DEF NoCommands, Queues
<1> DEFINE z == <<Disconnect>>
<1> HIDE DEF z
<1>3. [NoCommands EXCEPT !.commands = z] = Queues(z, <<>>, <<>>)
  BY <1>2, QueueWrite
<1> QED BY <1>1, <1>3 DEF z

\* The commands of a reliable packet take the next numbers.
LEMMA CommandsFacts ==
    ASSUME plan \in Plans, sent \in Nat, sent < Len(plan), out.rel \in Numbers,
           Commands(sent + 1)[1].type \in Reliable
    PROVE  /\ Commands(sent + 1) \in Seq(ReliableCmd)
           /\ \A j \in 1 .. Len(Commands(sent + 1)) :
                 /\ ~Commands(sent + 1)[j].attempts
                 /\ Commands(sent + 1)[j].rel = (out.rel + j) % Range16
<1> DEFINE id == sent + 1
           p == plan[id]
           cs == Commands(id)
           rel(k) == (out.rel + k) % Range16
           unreliable == out.unrel < UnreliableMax
<1>1. plan \in Seq([kind : Kinds, size : Nat \ {0}])
  BY ConstantsAssumption
<1>2. id \in 1 .. Len(plan) /\ id \in Nat
  BY <1>1
<1>3. p \in [kind : Kinds, size : Nat \ {0}]
  <2> DEFINE S == [kind : Kinds, size : Nat \ {0}]
  <2> HIDE DEF S
  <2>1. plan \in Seq(S)
    BY <1>1 DEF S
  <2>2. p \in S
    BY <1>2, <2>1
  <2> QED BY <2>2 DEF S
<1>4. p.size \in Nat \ {0}
  BY <1>3
<1>5. \A k \in Int : rel(k) \in Numbers /\ rel(k) \in Nat
  <2> TAKE k \in Int
  <2>1. out.rel + k \in Int
    BY ChannelConstants DEF Numbers
  <2>2. rel(k) \in Numbers
    BY <2>1, NumberOf
  <2> QED BY <2>2, ChannelConstants DEF Numbers
<1> HIDE DEF id, p
<1>6. \A y \in Reliable, f \in Nat, n \in Nat, r \in Numbers, st \in Nat : \A c :
         c = Command(y, id, f, n, r, 0, st) => c \in ReliableCmd /\ ~c.attempts /\ c.rel = r
  BY <1>2 DEF Command, ReliableCmd
<1>7. CASE p.size > 1
  <2>1. cs = [k \in 1 .. p.size |->
                IF p.kind = "fragment" /\ unreliable
                THEN Command("SEND_UNRELIABLE_FRAGMENT", id, k - 1, p.size,
                             out.rel, out.unrel + 1, out.unrel + 1)
                ELSE Command("SEND_FRAGMENT", id, k - 1, p.size, rel(k), 0, rel(1))]
    BY <1>7 DEF Commands, p
  <2>2. 1 \in 1 .. p.size
    BY <1>4
  <2>3. ~(p.kind = "fragment" /\ unreliable)
    <3> SUFFICES ASSUME p.kind = "fragment" /\ unreliable PROVE FALSE
      OBVIOUS
    <3>1. cs[1] = Command("SEND_UNRELIABLE_FRAGMENT", id, 1 - 1, p.size,
                          out.rel, out.unrel + 1, out.unrel + 1)
      BY <2>1, <2>2
    <3>2. cs[1].type = "SEND_UNRELIABLE_FRAGMENT"
      BY <3>1 DEF Command
    <3> QED BY <3>2 DEF Reliable, id
  <2>4. cs = [k \in 1 .. p.size |-> Command("SEND_FRAGMENT", id, k - 1, p.size, rel(k), 0, rel(1))]
    BY <2>1, <2>3
  <2> HIDE DEF cs
  <2>5. ASSUME NEW k \in 1 .. p.size
        PROVE  cs[k] \in ReliableCmd /\ ~cs[k].attempts /\ cs[k].rel = rel(k)
    <3>1. k \in Int /\ k - 1 \in Nat /\ p.size \in Nat /\ 1 \in Int
      BY <1>4
    <3>2. rel(k) \in Numbers /\ rel(1) \in Nat
      BY <1>5, <3>1
    <3>3. cs[k] = Command("SEND_FRAGMENT", id, k - 1, p.size, rel(k), 0, rel(1))
      BY <2>4
    <3>4. "SEND_FRAGMENT" \in Reliable
      BY DEF Reliable
    <3> HIDE DEF rel
    <3> DEFINE x == rel(k)
               y == rel(1)
               f == k - 1
               n == p.size
               c == cs[k]
    <3>5. x \in Numbers /\ y \in Nat /\ f \in Nat /\ n \in Nat
          /\ c = Command("SEND_FRAGMENT", id, f, n, x, 0, y)
      BY <3>1, <3>2, <3>3
    <3> HIDE DEF x, y, f, n, c
    <3>6. c \in ReliableCmd /\ ~c.attempts /\ c.rel = x
      BY <1>2, <3>4, <3>5 DEF Command, ReliableCmd
    <3> QED BY <3>6 DEF c, x
  <2>6. DOMAIN cs = 1 .. p.size /\ cs = [k \in 1 .. p.size |-> cs[k]]
    BY <2>4
  <2>7. cs \in Seq(ReliableCmd) /\ Len(cs) = p.size
    <3> DEFINE n == p.size
    <3>1. n \in Nat /\ DOMAIN cs = 1 .. n /\ cs = [k \in 1 .. n |-> cs[k]]
          /\ \A k \in 1 .. n : cs[k] \in ReliableCmd
      BY <1>4, <2>5, <2>6
    <3> HIDE DEF n
    <3>2. cs \in Seq(ReliableCmd) /\ Len(cs) = n
      BY <3>1
    <3> QED BY <3>2 DEF n
  <2> QED BY <2>5, <2>7 DEF cs, id
<1>8. CASE ~(p.size > 1)
  <2> DEFINE cu == Command("SEND_UNSEQUENCED", id, 0, 0, 0, 0, (out.group + 1) % GroupRange)
             cr == Command("SEND_RELIABLE", id, 0, 0, rel(1), 0, 0)
             cn == Command("SEND_UNRELIABLE", id, 0, 0, out.rel, out.unrel + 1, 0)
  <2>1. cs = IF p.kind = "unsequenced" THEN <<cu>>
             ELSE IF p.kind = "reliable" \/ ~unreliable THEN <<cr>> ELSE <<cn>>
    BY <1>8 DEF Commands, p
  <2>2. cu.type = "SEND_UNSEQUENCED" /\ cn.type = "SEND_UNRELIABLE"
    BY DEF Command
  <2>3. "SEND_UNSEQUENCED" \notin Reliable /\ "SEND_UNRELIABLE" \notin Reliable
        /\ "SEND_RELIABLE" \in Reliable
    BY DEF Reliable
  <2>4. cs[1].type \in Reliable
    BY DEF id
  <2> HIDE DEF cu, cn, cr, cs
  <2>5. cs = <<cr>>
    <3>1. cs # <<cu>> /\ cs # <<cn>>
      BY <2>2, <2>3, <2>4
    <3> QED BY <2>1, <3>1, Zenon
  <2>6. cr \in ReliableCmd /\ ~cr.attempts /\ cr.rel = rel(1)
    <3>1. rel(1) \in Numbers /\ 0 \in Nat
      BY <1>5, 1 \in Int
    <3> HIDE DEF rel
    <3> QED BY <1>6, <2>3, <3>1 DEF cr
  <2>7. cs \in Seq(ReliableCmd) /\ Len(cs) = 1 /\ cs[1] = cr
    BY <2>5, <2>6
  <2>8. \A j \in 1 .. Len(cs) : j = 1
    BY <2>7
  <2> QED BY <2>6, <2>7, <2>8 DEF cs, id
<1> QED BY <1>7, <1>8

LEMMA OutFields ==
    ASSUME NEW x, NEW r, NEW u, NEW g, x = [rel |-> r, unrel |-> u, group |-> g]
    PROVE  /\ \A z : [x EXCEPT !.group = z] = [rel |-> r, unrel |-> u, group |-> z]
           /\ \A z : [x EXCEPT !.unrel = z] = [rel |-> r, unrel |-> z, group |-> g]
<1>1. ASSUME NEW z PROVE [x EXCEPT !.group = z] = [rel |-> r, unrel |-> u, group |-> z]
  OBVIOUS
<1>2. ASSUME NEW z PROVE [x EXCEPT !.unrel = z] = [rel |-> r, unrel |-> z, group |-> g]
  OBVIOUS
<1> QED BY <1>1, <1>2

LEMMA PeerSendKeeps == SenderInv /\ PeerSend => SenderInv'
<1> SUFFICES ASSUME SenderInv, PeerSend PROVE SenderInv'
  OBVIOUS
<1> DEFINE cs == Commands(sent + 1)
           a == queued.commands
           t == queued.sendReliable
           s == queued.sentReliable
           r == out.rel
           u == out.unrel
           g == out.group
           p == (r + Len(cs)) % Range16
<1>1. /\ plan \in Plans /\ sent \in Nat /\ out = [rel |-> r, unrel |-> u, group |-> g]
      /\ r \in Numbers /\ queued = Queues(a, t, s) /\ Connection(state, queued, windows, r)
  BY SenderShape, Zenon
<1>2. /\ state = "CONNECTED" /\ sent < Len(plan) /\ sent' = sent + 1 /\ Setup(cs)
      /\ plan' = plan /\ state' = state /\ windows' = windows
  BY DEF PeerSend
<1>3. sent' \in Nat
  BY <1>1, <1>2
<1>4. SenderOK(s, t, windows, r)
  BY <1>1, <1>2 DEF Connection
<1> DEFINE type == cs[1].type
<1>5. CASE type \in Reliable
  <2>2. /\ cs \in Seq(ReliableCmd)
        /\ \A j \in 1 .. Len(cs) : ~cs[j].attempts /\ cs[j].rel = (r + j) % Range16
    BY <1>1, <1>2, <1>5, CommandsFacts
  <2> HIDE DEF cs
  <2>1. /\ out' = [rel |-> p, unrel |-> 0, group |-> g]
        /\ queued' = [queued EXCEPT !.sendReliable = t \o cs]
    BY <1>2, <1>5 DEF Setup, Reliable
  <2>3. SenderOK(s, t \o cs, windows, p)
    BY <1>1, <1>4, <2>2, SubmittedKeeps
  <2>4. p \in Numbers
    <3>1. r + Len(cs) \in Int
      BY <1>1, <2>2, ChannelConstants DEF Numbers
    <3> QED BY <3>1, NumberOf
  <2> HIDE DEF a, t, s, r, u, g, p
  <2>6. out'.rel = p /\ out' = [rel |-> out'.rel, unrel |-> out'.unrel, group |-> out'.group]
    BY <2>1
  <2> DEFINE t2 == t \o cs
  <2>t. queued' = [queued EXCEPT !.sendReliable = t2] /\ SenderOK(s, t2, windows, p)
    BY <2>1, <2>3
  <2> HIDE DEF t2
  <2>7. queued' = Queues(a, t2, s)
    <3>1. queued = Queues(a, t, s) /\ queued' = [queued EXCEPT !.sendReliable = t2]
      BY <1>1, <2>t
    <3>2. [queued EXCEPT !.sendReliable = t2] = Queues(a, t2, s)
      BY <3>1, QueueWrite
    <3> QED BY <3>1, <3>2, Zenon
  <2>8. /\ queued'.sendReliable = t2 /\ queued'.sentReliable = s
        /\ queued' = Queues(queued'.commands, queued'.sendReliable, queued'.sentReliable)
    BY <2>7, QueueRead
  <2>9. Connection(state', queued', windows', out'.rel)
    BY <1>2, <2>6, <2>8, <2>t DEF Connection
  <2> QED BY <1>1, <1>2, <1>3, <2>4, <2>6, <2>8, <2>9 DEF SenderInv, Queues, Connection
<1>6. CASE type \notin Reliable
  <2>1. PICK z : queued' = [queued EXCEPT !.commands = z]
    BY <1>2, <1>6 DEF Setup
  <2>2. PICK y : out' = [out EXCEPT !.group = y] \/ out' = [out EXCEPT !.unrel = y]
    BY <1>2, <1>6 DEF Setup
  <2> HIDE DEF a, t, s, r, u, g, cs
  <2>3. out' = [rel |-> r, unrel |-> u, group |-> y] \/ out' = [rel |-> r, unrel |-> y, group |-> g]
    BY <1>1, <2>2, OutFields
  <2>4. out'.rel = r /\ out' = [rel |-> out'.rel, unrel |-> out'.unrel, group |-> out'.group]
    BY <2>3
  <2>5. queued' = Queues(z, t, s)
    BY <1>1, <2>1, QueueWrite
  <2>6. /\ queued'.sendReliable = t /\ queued'.sentReliable = s
        /\ queued' = Queues(queued'.commands, queued'.sendReliable, queued'.sentReliable)
    BY <2>5, QueueRead
  <2>7. Connection(state', queued', windows', out'.rel)
    BY <1>2, <1>4, <2>4, <2>6 DEF Connection
  <2> QED BY <1>1, <1>2, <1>3, <2>4, <2>6, <2>7 DEF SenderInv, Queues, Connection
<1> QED BY <1>5, <1>6

\* A disconnect, at once or when the queues are empty.
LEMMA DisconnectNowKeeps == SenderInv /\ DisconnectNow => SenderInv'
<1> SUFFICES ASSUME SenderInv, DisconnectNow PROVE SenderInv'
  OBVIOUS
<1>1. PeerDisconnect /\ plan' = plan /\ sent' = sent /\ out' = out
  BY DEF DisconnectNow
<1>2. sent' \in Nat
  BY <1>1, SenderShape
<1> QED BY <1>1, <1>2, DisconnectShape, SenderAfter

LEMMA DisconnectLaterKeeps == SenderInv /\ DisconnectLater => SenderInv'
<1> SUFFICES ASSUME SenderInv, DisconnectLater PROVE SenderInv'
  OBVIOUS
<1>1. plan' = plan /\ sent' = sent /\ out' = out /\ windows' = windows /\ state = "CONNECTED"
      /\ (PeerDisconnect \/ queued' = queued)
  BY DEF DisconnectLater
<1>2. sent' \in Nat
  BY <1>1, SenderShape
<1>3. CASE PeerDisconnect
  BY <1>1, <1>2, <1>3, DisconnectShape, SenderAfter
<1>4. CASE queued' = queued
  <2>1. queued = Queues(queued.commands, queued.sendReliable, queued.sentReliable)
        /\ SenderOK(queued.sentReliable, queued.sendReliable, windows, out.rel)
    BY <1>1, SenderShape DEF Connection
  <2> DEFINE a == queued.commands
             t == queued.sendReliable
             s == queued.sentReliable
  <2>2. queued' = Queues(a, t, s) /\ SenderOK(s, t, windows', out.rel)
    BY <1>1, <1>4, <2>1, Zenon
  <2> HIDE DEF a, t, s
  <2> QED BY <1>1, <1>2, <2>2, SenderAfter
<1> QED BY <1>1, <1>3, <1>4

LEMMA CheckOutgoingKeeps == SenderInv /\ CheckOutgoing => SenderInv'
<1> SUFFICES ASSUME SenderInv, CheckOutgoing PROVE SenderInv'
  OBVIOUS
<1> DEFINE acc == TakeAll(queued.sendReliable, windows)
           t == SubSeq(queued.sendReliable, acc.n + 1, Len(queued.sendReliable))
           s == queued.sentReliable \o Attempted(SubSeq(queued.sendReliable, 1, acc.n))
<1>1. /\ plan' = plan /\ sent' = sent /\ out' = out /\ windows' = acc.w
      /\ PeerDisconnect \/ (queued' = Queues(<<>>, t, s) /\ state' = state)
  BY DEF CheckOutgoing, Queues
<1>2. sent' \in Nat /\ out.rel \in Numbers /\ Connection(state, queued, windows, out.rel)
  BY <1>1, SenderShape
<1>3. CASE PeerDisconnect
  BY <1>1, <1>2, <1>3, DisconnectShape, SenderAfter
<1>4. CASE queued' = Queues(<<>>, t, s) /\ state' = state
  <2>1. state' = "DISCONNECTING" \/ SenderOK(s, t, acc.w, out.rel)
    <3> SUFFICES ASSUME state # "DISCONNECTING" PROVE SenderOK(s, t, acc.w, out.rel)
      BY <1>4
    <3>1. SenderOK(queued.sentReliable, queued.sendReliable, windows, out.rel)
      BY <1>2 DEF Connection
    <3>2. Taking(acc, queued.sentReliable, queued.sendReliable, out.rel)
      BY <1>2, <3>1, TakeAllKeeps
    <3> HIDE DEF acc
    <3> QED BY <3>2 DEF Taking
  <2> HIDE DEF acc, t, s
  <2>2. state' = "DISCONNECTING" \/ SenderOK(s, t, windows', out.rel)
    BY <1>1, <2>1
  <2> QED BY <1>1, <1>2, <1>4, <2>2, SenderAfter
<1> QED BY <1>1, <1>3, <1>4

LEMMA CheckTimeoutsKeeps == SenderInv /\ CheckTimeouts => SenderInv'
<1> SUFFICES ASSUME SenderInv, CheckTimeouts PROVE SenderInv'
  OBVIOUS
<1>1. PICK I \in SUBSET (DOMAIN queued.sentReliable) :
        /\ queued' = Queues(queued.commands,
                            Pick(queued.sentReliable, I) \o queued.sendReliable,
                            Pick(queued.sentReliable, DOMAIN queued.sentReliable \ I))
        /\ windows' = [windows EXCEPT !.transit = @ - Cardinality(I)]
        /\ plan' = plan /\ sent' = sent /\ out' = out /\ state' = state
  BY DEF CheckTimeouts, Queues
<1> DEFINE a == queued.commands
           t == Pick(queued.sentReliable, I) \o queued.sendReliable
           s == Pick(queued.sentReliable, DOMAIN queued.sentReliable \ I)
<1>2. sent' \in Nat /\ out.rel \in Numbers /\ Connection(state, queued, windows, out.rel)
  BY <1>1, SenderShape
<1>3. state' = "DISCONNECTING" \/ SenderOK(s, t, windows', out.rel)
  <2> SUFFICES ASSUME state # "DISCONNECTING" PROVE SenderOK(s, t, windows', out.rel)
    BY <1>1
  <2>1. SenderOK(queued.sentReliable, queued.sendReliable, windows, out.rel)
    BY <1>2 DEF Connection
  <2>2. SenderOK(s, t, [windows EXCEPT !.transit = @ - Cardinality(I)], out.rel)
    BY <1>2, <2>1, TimeoutsKeep
  <2> HIDE DEF s, t
  <2> QED BY <1>1, <2>2
<1>4. queued' = Queues(a, t, s)
  BY <1>1
<1> HIDE DEF a, t, s
<1> QED BY <1>1, <1>2, <1>3, <1>4, SenderAfter

\* The first entry that is found is one of those found.
LEMMA FirstFound ==
    ASSUME NEW q \in Seq(ReliableCmd), NEW rel, IndexOf(q, rel) # {}
    PROVE  LET i == Min(IndexOf(q, rel))
           IN  i \in DOMAIN q /\ q[i].attempts /\ q[i].rel = rel
<1> DEFINE S == IndexOf(q, rel)
<1>1. S \subseteq Nat /\ S \subseteq DOMAIN q
  BY DEF IndexOf
<1> HIDE DEF S
<1>2. \E x \in S : \A y \in S : x <= y
  BY <1>1, LeastElement DEF S
<1>3. Min(S) \in S
  BY <1>2 DEF Min
<1> QED BY <1>3 DEF S, IndexOf

LEMMA AcknowledgeKeeps ==
    ASSUME SenderInv, NEW rel \in acks, HandleAcknowledge(rel)
    PROVE  SenderInv'
<1> DEFINE s0 == queued.sentReliable
           t0 == queued.sendReliable
           a == queued.commands
           under == IndexOf(s0, rel)
           again == IF under = {} THEN IndexOf(t0, rel) ELSE {}
           s == IF under = {} THEN s0 ELSE RemoveAt(s0, Min(under))
           t == IF again = {} THEN t0 ELSE RemoveAt(t0, Min(again))
           n == IF under = {} THEN 0 ELSE 1
<1>1. /\ plan' = plan /\ sent' = sent /\ out' = out /\ under \cup again # {}
      /\ windows' = Left(windows, Window(rel), n)
      /\ PeerDisconnect \/ (queued' = Queues(a, t, s) /\ state' = state)
  BY DEF HandleAcknowledge, Queues, Left
<1>2. sent' \in Nat /\ out.rel \in Numbers /\ Connection(state, queued, windows, out.rel)
  BY <1>1, SenderShape
<1>3. CASE PeerDisconnect
  BY <1>1, <1>2, <1>3, DisconnectShape, SenderAfter
<1>4. CASE queued' = Queues(a, t, s) /\ state' = state
  <2>1. state' = "DISCONNECTING" \/ SenderOK(s, t, windows', out.rel)
    <3> SUFFICES ASSUME state # "DISCONNECTING" PROVE SenderOK(s, t, windows', out.rel)
      BY <1>4
    <3>1. SenderOK(s0, t0, windows, out.rel)
      BY <1>2 DEF Connection
    <3>2. s0 \in Seq(ReliableCmd) /\ t0 \in Seq(ReliableCmd) /\ out.rel \in Int
      BY <1>2, <3>1, SenderFields, ChannelConstants DEF Numbers
    <3>3. CASE under # {}
      <4> DEFINE i == Min(under)
      <4>1. i \in DOMAIN s0 /\ s0[i].rel = rel
        BY <3>2, <3>3, FirstFound
      <4>2. SenderOK(RemoveAt(s0, i), t0, Left(windows, Window(s0[i].rel), 1), out.rel)
        BY <3>1, <4>1, AckedSent
      <4>3. s = RemoveAt(s0, i) /\ t = t0 /\ n = 1
        BY <3>3
      <4> HIDE DEF i, s, t, n
      <4> QED BY <1>1, <4>1, <4>2, <4>3
    <3>4. CASE under = {}
      <4> DEFINE i == Min(IndexOf(t0, rel))
      <4>0. IndexOf(t0, rel) # {}
        BY <1>1, <3>4
      <4>1. i \in DOMAIN t0 /\ t0[i].attempts /\ t0[i].rel = rel
        BY <3>2, <4>0, FirstFound
      <4>2. SenderOK(s0, RemoveAt(t0, i), Left(windows, Window(t0[i].rel), 0), out.rel)
        BY <3>1, <3>2, <4>1, AckedAgain
      <4>3. s = s0 /\ t = RemoveAt(t0, i) /\ n = 0
        BY <3>4, <4>0
      <4> HIDE DEF i, s, t, n
      <4> QED BY <1>1, <4>1, <4>2, <4>3
    <3> QED BY <3>3, <3>4
  <2> HIDE DEF a, s, t
  <2> QED BY <1>1, <1>2, <1>4, <2>1, SenderAfter
<1> QED BY <1>1, <1>3, <1>4

LEMMA SenderStarts == ChannelInit => SenderInv
<1> SUFFICES ASSUME ChannelInit PROVE SenderInv
  OBVIOUS
<1> DEFINE re == [w \in WindowNos |-> 0]
<1>1. /\ plan \in Plans /\ sent = 0 /\ out = [rel |-> Start, unrel |-> 0, group |-> StartGroup]
      /\ queued = Queues(<<>>, <<>>, <<>>)
      /\ windows = [reliable |-> re, used |-> {}, transit |-> 0]
  BY DEF ChannelInit, NoCommands, Queues, WindowNos
<1>2. /\ <<>> \in Seq(ReliableCmd) /\ Len(<<>>) = 0 /\ DOMAIN <<>> = {}
      /\ \A v : Count(<<>>, v) = 0
  <2>1. \A v : CountedIn(<<>>, v) = {}
    BY DEF CountedIn
  <2> QED BY <2>1, FS_EmptySet DEF Count
<1>3. re \in [WindowNos -> Nat] /\ {} \in SUBSET WindowNos
      /\ \A v \in WindowNos : re[v] = 0
  OBVIOUS
<1>4. 0 \in 0 .. Len(<<>>) /\ Frontier(<<>>, {}, Start, 0)
  BY <1>2 DEF Frontier
<1> HIDE DEF re
<1>5. SenderOK(<<>>, <<>>, windows, Start)
  <2>1. windows = [reliable |-> re, used |-> {}, transit |-> Len(<<>>)]
    BY <1>1, <1>2
  <2>2. \A v \in WindowNos : /\ re[v] = Count(<<>>, v) + Count(<<>>, v)
                             /\ v \in {} <=> re[v] # 0
    BY <1>2, <1>3
  <2>3. \A i \in DOMAIN <<>> : <<>>[i].attempts
    BY <1>2
  <2> QED BY <1>2, <1>3, <1>4, <2>1, <2>2, <2>3, SenderMade
<1>6. /\ queued.sendReliable = <<>> /\ queued.sentReliable = <<>>
      /\ queued = Queues(queued.commands, queued.sendReliable, queued.sentReliable)
  BY <1>1, QueueRead
<1>7. out.rel = Start /\ out = [rel |-> out.rel, unrel |-> out.unrel, group |-> out.group]
  BY <1>1
<1>8. Connection(state, queued, windows, out.rel)
  BY <1>5, <1>6, <1>7 DEF Connection
<1> QED BY <1>1, <1>6, <1>7, <1>8, ChannelConstants, SenderShape

LEMMA SenderStep == SenderInv /\ [ChannelNext]_channelVars => SenderInv'
<1> SUFFICES ASSUME SenderInv, [ChannelNext]_channelVars PROVE SenderInv'
  OBVIOUS
<1>1. ASSUME UNCHANGED senderVars PROVE SenderInv'
  BY <1>1 DEF SenderInv, senderVars
<1>2. CASE PeerSend
  BY <1>2, PeerSendKeeps
<1>3. CASE DisconnectNow
  BY <1>3, DisconnectNowKeeps
<1>4. CASE DisconnectLater
  BY <1>4, DisconnectLaterKeeps
<1>5. CASE CheckOutgoing
  BY <1>5, CheckOutgoingKeeps
<1>6. CASE CheckTimeouts
  BY <1>6, CheckTimeoutsKeeps
<1>7. CASE \E rel \in acks : HandleAcknowledge(rel)
  BY <1>7, AcknowledgeKeeps
<1>8. CASE \E c \in wire : Receive(c)
  BY <1>1, <1>8 DEF Receive
<1>9. CASE PeerReceive
  BY <1>1, <1>9 DEF PeerReceive
<1>10. CASE ReceiverLater
  BY <1>1, <1>10 DEF ReceiverLater
<1>11. CASE ReceiveDisconnect
  BY <1>1, <1>11 DEF ReceiveDisconnect
<1>12. CASE UNCHANGED channelVars
  BY <1>1, <1>12 DEF channelVars
<1> QED BY <1>2, <1>3, <1>4, <1>5, <1>6, <1>7, <1>8, <1>9, <1>10, <1>11, <1>12 DEF ChannelNext

LEMMA SenderRead == SenderInv => WindowsKept
<1> SUFFICES ASSUME SenderInv, state # "DISCONNECTING" PROVE WindowsExact /\ SpanBounded
  BY DEF WindowsKept, WindowsExact, SpanBounded
<1> DEFINE s == queued.sentReliable
           t == queued.sendReliable
           all == s \o t
           W == RELIABLE_WINDOWS
           F == FREE_RELIABLE_WINDOWS
<1>1. out.rel \in Numbers /\ SenderOK(s, t, windows, out.rel)
  BY SenderShape DEF Connection
<1>2. /\ s \in Seq(ReliableCmd) /\ t \in Seq(ReliableCmd) /\ Len(t) \in Nat
      /\ windows.transit = Len(s)
      /\ windows.reliable \in [WindowNos -> Nat] /\ windows.used \subseteq WindowNos
      /\ \A v \in WindowNos : /\ windows.reliable[v] = Count(s, v) + Count(t, v)
                              /\ v \in windows.used <=> windows.reliable[v] # 0
  BY <1>1, SenderFields
<1>3. all \in Seq(ReliableCmd) /\ \A v : Count(all, v) = Count(s, v) + Count(t, v)
  BY <1>2, CountJoin
<1>4. \A v : Count(all, v) = 0 <=> CountedIn(all, v) = {}
  BY <1>3, CountType
<1>5. WindowsExact
  <2>1. ASSUME NEW w \in DOMAIN windows.reliable
        PROVE  /\ windows.reliable[w] = Cardinality(CountedIn(all, w))
               /\ w \in windows.used <=> CountedIn(all, w) # {}
    <3>1. w \in WindowNos
      BY <1>2
    <3>2. windows.reliable[w] = Count(all, w) /\ (w \in windows.used <=> Count(all, w) # 0)
      BY <1>2, <1>3, <3>1
    <3> HIDE DEF all
    <3> QED BY <1>4, <3>2 DEF Count
  <2> QED BY <1>2, <2>1 DEF WindowsExact, CountedIn
<1>6. SpanBounded
  <2>1. PICK k \in 0 .. Len(t) : Frontier(t, windows.used, out.rel, k)
    BY <1>1 DEF SenderOK
  <2> DEFINE f == Window((out.rel - (Len(t) - k)) % Range16)
  <2>2. \A u \in windows.used : (f - u) % W <= F - 2
    BY <2>1 DEF Frontier
  <2>3. f \in WindowNos
    <3>1. out.rel - (Len(t) - k) \in Int
      BY <1>1, <1>2, ChannelConstants DEF Numbers
    <3> QED BY <3>1, NumberOf, WindowIn
  <2> HIDE DEF f
  <2>4. ASSUME NEW u \in windows.used, NEW w \in windows.used
        PROVE  LET d == (w - u + W) % W IN d < F - 1 \/ d > F + 1
    <3>1. u \in WindowNos /\ w \in WindowNos
      BY <1>2
    <3> QED BY <2>2, <2>3, <3>1, WindowsNear
  <2> QED BY <2>4 DEF SpanBounded
<1> QED BY <1>5, <1>6

\* The reliable windows of the sender count exactly the commands that were sent
\* and are not acknowledged, whatever timeouts and late acknowledgements did, and
\* the windows in use never span more than the receiver accepts: the check of
\* enet_protocol_check_outgoing_commands is enough for every number of windows.
THEOREM WindowsStayKept == ChannelSpec => []WindowsKept
<1>1. ChannelInit => SenderInv
  BY SenderStarts
<1>2. SenderInv /\ [ChannelNext]_channelVars => SenderInv'
  BY SenderStep
<1>3. SenderInv => WindowsKept
  BY SenderRead
<1> QED BY <1>1, <1>2, <1>3, PTL DEF ChannelSpec

=============================================================================
