--------------------------- MODULE FragmentProofs ---------------------------
(***************************************************************************)
(* FragmentReassembly, proved for any number of messages, fragments,       *)
(* buffers and bytes and any mix of modes.  Buffers are named by the first *)
(* number of a message, and reliable and unreliable messages are numbered  *)
(* apart: the theorems hold until two fragmented messages have been sent   *)
(* under one first number.                                                 *)
(***************************************************************************)
EXTENDS FragmentReassembly, SequenceTheorems, FiniteSetTheorems, WellFoundedInduction,
        TLAPS

----------------------------------------------------------------------------
(* The inductive invariant.                                                 *)

Modes == {"reliable", "unreliable"}
SentType == [mode : Modes, start : Nat \ {0}, count : Nat \ {0}, epoch : Nat]
Data == UNION {[0 .. (n - 1) -> Nat \X Nat] : n \in Nat}
DeliveredType == [mode : Modes, data : Data]
BufferType == [count : Nat, mask : SUBSET Nat, buf : Data]

\* Every message takes up the numbers behind the ones sent before it: its own
\* numbers are epoch + 1 .. epoch + count if it is reliable, and start alone if
\* it is not.
Numbered ==
  /\ outgoing_reliable_seq \in Nat /\ outgoing_unreliable_seq \in Nat
  /\ sent \in Seq(SentType)
  /\ sent # <<>> => Mixed(sent)
  /\ \A m \in 1 .. Len(sent) :
       IF sent[m].mode = "reliable"
       THEN /\ sent[m].start = sent[m].epoch + 1
            /\ sent[m].epoch + sent[m].count <= outgoing_reliable_seq
       ELSE /\ sent[m].start <= outgoing_unreliable_seq
            /\ sent[m].epoch <= outgoing_reliable_seq
  /\ \A l, m \in 1 .. Len(sent) : l < m =>
       /\ sent[l].epoch <= sent[m].epoch
       /\ sent[l].mode = "reliable" => sent[l].epoch + sent[l].count <= sent[m].epoch
       /\ sent[l].mode = "unreliable" /\ sent[m].mode = "unreliable"
            => sent[l].start < sent[m].start

\* c is a fragment of a message that has been sent, or the whole of it.
PieceOf(c, m) ==
  /\ m \in 1 .. Len(sent) /\ c.msg = m
  /\ c.mode = sent[m].mode /\ c.start = sent[m].start /\ c.count = sent[m].count
  /\ c.number \in 0 .. (sent[m].count - 1)
  /\ c.mode = "unreliable" => c.reliable_seq = sent[m].epoch

Carried ==
  /\ \A c \in net : PieceOf(c, c.msg)
  /\ acked \subseteq net

\* data is all of message m.
WholeOf(data, m, mode) ==
  m \in SentBy(mode) /\ data = Payload(m, sent[m].count)

\* What waits for its turn is a whole message, under its first number, which
\* is behind the one expected next.
Queued ==
  /\ incoming_reliable_seq \in 0 .. outgoing_reliable_seq
  /\ IsFiniteSet(DOMAIN incoming_reliable_queue)
  /\ \A s \in DOMAIN incoming_reliable_queue :
       /\ s \in Nat /\ s > incoming_reliable_seq + 1
       /\ \E m \in SentBy("reliable") :
            sent[m].start = s /\ WholeOf(incoming_reliable_queue[s], m, "reliable")

\* b holds pieces of message m, each in its place, and not yet all of them.
HoldsPiecesOf(b, m) ==
  /\ b \in BufferType
  /\ b.count = sent[m].count /\ b.count > 1
  /\ b.buf \in [0 .. (b.count - 1) -> Nat \X Nat]
  /\ b.mask \subseteq 0 .. (b.count - 1)
  /\ \A i \in b.mask : b.buf[i] = <<m, i>>

Buffered ==
  /\ IsFiniteSet(DOMAIN fragment_buffers)
  /\ Cardinality(DOMAIN fragment_buffers) <= MaxBuffers
  /\ \A s \in DOMAIN fragment_buffers :
       \E m \in 1 .. Len(sent) :
         sent[m].start = s /\ HoldsPiecesOf(fragment_buffers[s], m)
  /\ IsFiniteSet(Reserved) /\ BudgetExact

\* A reliable message has been delivered when its first number has been passed.
Passed ==
  /\ delivered \in Seq(DeliveredType)
  /\ \A i \in 1 .. Len(delivered) :
       WholeOf(delivered[i].data, MessageOf(delivered[i]), delivered[i].mode)
  /\ \A i \in Delivered("reliable") :
       sent[MessageOf(delivered[i])].start <= incoming_reliable_seq
  /\ \A m \in SentBy("reliable") : sent[m].start <= incoming_reliable_seq =>
       \E i \in Delivered("reliable") : MessageOf(delivered[i]) = m
  /\ \A i, j \in Delivered("reliable") :
       i < j => MessageOf(delivered[i]) < MessageOf(delivered[j])

\* The latest unreliable message delivered is incoming_unreliable_seq.
Latest ==
  /\ incoming_unreliable_seq \in 0 .. outgoing_unreliable_seq
  /\ \A i \in Delivered("unreliable") :
       sent[MessageOf(delivered[i])].start <= incoming_unreliable_seq
  /\ UnreliableOrder

IndInv == Numbered /\ Carried /\ Queued /\ Buffered /\ Passed /\ Latest

----------------------------------------------------------------------------
(* Numbers, payloads and the run that is drained.                           *)

\* A set of natural numbers that is not empty has a least element.
LEMMA LeastElement ==
  ASSUME NEW S, S \subseteq Nat, S # {}
  PROVE  \E x \in S : \A y \in S : x <= y
<1> DEFINE R == OpToRel(<, Nat)
<1>1. IsWellFoundedOn(R, Nat)
  BY NatLessThanWellFounded
<1>2. \A x, y \in Nat : y < x => <<y, x>> \in R
  BY DEF OpToRel
<1> HIDE DEF R
<1>3. PICK x \in S : \A y \in S : ~ (<<y, x>> \in R)
  BY <1>1, WFMin
<1>4. \A y \in S : ~ (y < x)
  BY <1>2, <1>3, Zenon
<1> QED BY <1>4

\* A finite set of numbers above a that has no gap is an interval.
LEMMA NoGap ==
  ASSUME NEW a \in Nat, NEW R, R \subseteq Nat, IsFiniteSet(R),
         \A s \in R : s > a /\ (a + 1) .. s \subseteq R
  PROVE  Cardinality(R) \in Nat /\ R = (a + 1) .. (a + Cardinality(R))
<1> DEFINE k == Cardinality(R)
           G == {n \in Nat : n > a /\ n \notin R}
<1>1. k \in Nat
  BY FS_CardinalityType
<1>2. G # {}
  <2> SUFFICES ASSUME G = {} PROVE FALSE
    OBVIOUS
  <2>1. (a + 1) .. (a + k + 1) \in SUBSET R
    BY <1>1
  <2>2. a + 1 \in Int /\ a + k + 1 \in Int /\ ~ (a + 1 > a + k + 1)
    BY <1>1
  <2>3. Cardinality((a + 1) .. (a + k + 1)) = (a + k + 1) - (a + 1) + 1
    BY <2>2, FS_Interval
  <2>4. Cardinality((a + 1) .. (a + k + 1)) <= k
    BY <2>1, FS_Subset
  <2> QED BY <1>1, <2>3, <2>4
<1>3. PICK g \in G : \A y \in G : g <= y
  BY <1>2, LeastElement
<1>4. R = (a + 1) .. (g - 1)
  <2>1. ASSUME NEW s \in R PROVE s \in (a + 1) .. (g - 1)
    <3>1. s \in Nat /\ s > a /\ (a + 1) .. s \subseteq R
      OBVIOUS
    <3>2. ~ (g <= s)
      BY <1>3, <3>1
    <3> QED BY <3>1, <3>2
  <2>2. ASSUME NEW s \in (a + 1) .. (g - 1) PROVE s \in R
    BY <1>3
  <2> QED BY <2>1, <2>2
<1>5. Cardinality((a + 1) .. (g - 1)) = g - 1 - a
  <2>1. a + 1 \in Int /\ g - 1 \in Int /\ g > a /\ g \in Nat
    BY <1>3
  <2>2. Cardinality((a + 1) .. (g - 1)) = IF a + 1 > g - 1 THEN 0 ELSE (g - 1) - (a + 1) + 1
    BY <2>1, FS_Interval
  <2> QED BY <2>1, <2>2
<1>6. k = g - 1 - a
  BY <1>4, <1>5
<1> HIDE DEF k
<1>7. g - 1 = a + k
  BY <1>3, <1>6
<1> QED BY <1>1, <1>4, <1>7 DEF k

\* The first unit of a payload names its message.
LEMMA PayloadFacts ==
  ASSUME NEW m \in Nat, NEW n \in Nat \ {0}
  PROVE  Payload(m, n) \in Data /\ Payload(m, n)[0][1] = m
<1>1. Payload(m, n) \in [0 .. (n - 1) -> Nat \X Nat]
  BY DEF Payload
<1>2. 0 \in 0 .. (n - 1)
  OBVIOUS
<1> QED BY <1>1, <1>2 DEF Payload, Data

LEMMA WholeFacts ==
  ASSUME Numbered, NEW mode \in Modes, NEW m, NEW data, WholeOf(data, m, mode)
  PROVE  /\ [mode |-> mode, data |-> data] \in DeliveredType
         /\ MessageOf([mode |-> mode, data |-> data]) = m
         /\ m \in 1 .. Len(sent) /\ sent[m] \in SentType /\ sent[m].mode = mode
         /\ data \in Data
<1>1. m \in 1 .. Len(sent) /\ sent[m] \in SentType /\ sent[m].mode = mode
  BY DEF WholeOf, SentBy, Numbered
<1>2. m \in Nat /\ sent[m].count \in Nat \ {0}
  BY <1>1 DEF SentType, Numbered
<1>3. data \in Data /\ data[0][1] = m
  BY <1>2, PayloadFacts DEF WholeOf
<1> QED BY <1>1, <1>3 DEF DeliveredType, MessageOf

\* Reliable messages take up ranges of numbers that follow each other.
LEMMA ReliableRanges ==
  ASSUME Numbered, NEW l \in SentBy("reliable"), NEW m \in SentBy("reliable")
  PROVE  /\ l \in Nat /\ sent[l].start \in Nat \ {0} /\ sent[l].count \in Nat \ {0}
         /\ sent[l].start + sent[l].count - 1 <= outgoing_reliable_seq
         /\ l < m => sent[l].start + sent[l].count <= sent[m].start
         /\ l < m <=> sent[l].start < sent[m].start
         /\ l = m <=> sent[l].start = sent[m].start
<1>1. /\ l \in 1 .. Len(sent) /\ m \in 1 .. Len(sent) /\ Len(sent) \in Nat
      /\ sent[l] \in SentType /\ sent[m] \in SentType
      /\ sent[l].mode = "reliable" /\ sent[m].mode = "reliable"
  BY DEF Numbered, SentBy
<1>2. /\ sent[l].start = sent[l].epoch + 1 /\ sent[m].start = sent[m].epoch + 1
      /\ sent[l].epoch + sent[l].count <= outgoing_reliable_seq
  BY <1>1 DEF Numbered
<1>3. /\ sent[l].start \in Nat \ {0} /\ sent[l].count \in Nat \ {0} /\ sent[l].epoch \in Nat
      /\ sent[m].start \in Nat \ {0} /\ sent[m].count \in Nat \ {0} /\ sent[m].epoch \in Nat
      /\ outgoing_reliable_seq \in Nat
  BY <1>1 DEF SentType, Numbered
<1>4. l < m => sent[l].epoch + sent[l].count <= sent[m].epoch
  BY <1>1 DEF Numbered
<1>5. m < l => sent[m].epoch + sent[m].count <= sent[l].epoch
  BY <1>1 DEF Numbered
<1>6. l < m => sent[l].start + sent[l].count <= sent[m].start
  BY <1>2, <1>3, <1>4
<1>7. m < l => sent[m].start + sent[m].count <= sent[l].start
  BY <1>2, <1>3, <1>5
<1>8. l \in Nat /\ m \in Nat
  BY <1>1
<1>9. sent[l].start + sent[l].count - 1 <= outgoing_reliable_seq
  BY <1>2, <1>3
<1>10. (l < m <=> sent[l].start < sent[m].start) /\ (l = m <=> sent[l].start = sent[m].start)
  <2>1. CASE l < m
    BY <1>3, <1>6, <1>8, <2>1
  <2>2. CASE m < l
    BY <1>3, <1>7, <1>8, <2>2
  <2>3. CASE l = m
    BY <1>3, <1>8, <2>3
  <2> QED BY <1>8, <2>1, <2>2, <2>3
<1> QED BY <1>3, <1>6, <1>8, <1>9, <1>10

\* Unreliable messages have numbers that grow.
LEMMA UnreliableNumbers ==
  ASSUME Numbered, NEW l \in SentBy("unreliable"), NEW m \in SentBy("unreliable")
  PROVE  /\ l \in Nat /\ sent[l].start \in 1 .. outgoing_unreliable_seq
         /\ l < m <=> sent[l].start < sent[m].start
         /\ l = m <=> sent[l].start = sent[m].start
<1>1. /\ l \in 1 .. Len(sent) /\ m \in 1 .. Len(sent) /\ Len(sent) \in Nat
      /\ sent[l] \in SentType /\ sent[m] \in SentType
      /\ sent[l].mode = "unreliable" /\ sent[m].mode = "unreliable"
  BY DEF Numbered, SentBy
<1>2. sent[l].start <= outgoing_unreliable_seq
  BY <1>1 DEF Numbered
<1>3. /\ sent[l].start \in Nat \ {0} /\ sent[m].start \in Nat \ {0}
      /\ outgoing_unreliable_seq \in Nat
  BY <1>1 DEF SentType, Numbered
<1>4. l < m => sent[l].start < sent[m].start
  BY <1>1 DEF Numbered
<1>5. m < l => sent[m].start < sent[l].start
  BY <1>1 DEF Numbered
<1> QED BY <1>1, <1>2, <1>3, <1>4, <1>5

\* What is drained after seq are the numbers behind it, without a gap.
LEMMA DrainedRun ==
  ASSUME NEW q, IsFiniteSet(DOMAIN q), DOMAIN q \subseteq Nat, NEW seq \in Nat
  PROVE  LET d == Cardinality(Drained(seq, q))
         IN  d \in Nat /\ Drained(seq, q) = (seq + 1) .. (seq + d)
             /\ Drained(seq, q) \subseteq DOMAIN q
             /\ seq + d + 1 \notin DOMAIN q
<1> DEFINE R == Drained(seq, q)
<1>1. R \in SUBSET DOMAIN q /\ R \subseteq Nat
  BY DEF Drained
<1>2. IsFiniteSet(R)
  BY <1>1, FS_Subset
<1>3. ASSUME NEW s \in R PROVE s > seq /\ (seq + 1) .. s \subseteq R
  <2>1. s > seq /\ s \in Nat /\ \A t \in (seq + 1) .. s : t \in DOMAIN q
    BY <1>1 DEF Drained
  <2>2. ASSUME NEW t \in (seq + 1) .. s PROVE t \in R
    <3>1. t \in Nat /\ t > seq /\ (seq + 1) .. t \subseteq (seq + 1) .. s
      BY <2>1
    <3> QED BY <2>1, <3>1 DEF Drained
  <2> QED BY <2>1, <2>2
<1> HIDE DEF R
<1>4. Cardinality(R) \in Nat /\ R = (seq + 1) .. (seq + Cardinality(R))
  BY <1>1, <1>2, <1>3, NoGap
<1>5. ASSUME seq + Cardinality(R) + 1 \in DOMAIN q PROVE FALSE
  <2> DEFINE n == seq + Cardinality(R) + 1
  <2>1. n \in Nat /\ n > seq /\ n \notin R /\ n \in DOMAIN q
    BY <1>4, <1>5
  <2>2. \A t \in (seq + 1) .. n : t \in DOMAIN q
    <3> TAKE t \in (seq + 1) .. n
    <3>1. t = n \/ t \in R
      BY <1>4
    <3> QED BY <1>1, <2>1, <3>1
  <2> HIDE DEF n
  <2> QED BY <2>1, <2>2 DEF R, Drained
<1> QED BY <1>1, <1>4, <1>5 DEF R

----------------------------------------------------------------------------
(* What a release delivers.                                                 *)

\* The message that a payload claims to be.
NameOf(data) == data[0][1]

\* The reliable messages whose first numbers are above a and not above b.
Between(a, b) == {m \in SentBy("reliable") : sent[m].start > a /\ sent[m].start <= b}

\* r is a state of the channel that lies ahead: out is what it has passed, in
\* order, and the queue is what it has not.
Ahead(r) ==
  /\ r.seq \in incoming_reliable_seq .. outgoing_reliable_seq
  /\ r.out \in Seq(Data)
  /\ IsFiniteSet(DOMAIN r.queue)
  /\ \A s \in DOMAIN r.queue :
       /\ s \in Nat /\ s > r.seq + 1
       /\ \E m \in SentBy("reliable") :
            sent[m].start = s /\ WholeOf(r.queue[s], m, "reliable")
  /\ \A i \in 1 .. Len(r.out) :
       /\ WholeOf(r.out[i], NameOf(r.out[i]), "reliable")
       /\ NameOf(r.out[i]) \in Between(incoming_reliable_seq, r.seq)
  /\ \A i, j \in 1 .. Len(r.out) : i < j => NameOf(r.out[i]) < NameOf(r.out[j])
  /\ \A m \in Between(incoming_reliable_seq, r.seq) :
       \E i \in 1 .. Len(r.out) : NameOf(r.out[i]) = m

\* delivered after a release: the messages before it stay in place.
LEMMA Extended ==
  ASSUME delivered \in Seq(DeliveredType), NEW out \in Seq(Data),
         delivered' = delivered \o [i \in 1 .. Len(out) |->
                                      [mode |-> "reliable", data |-> out[i]]]
  PROVE  /\ delivered' \in Seq(DeliveredType)
         /\ Len(delivered') = Len(delivered) + Len(out)
         /\ \A i \in 1 .. Len(delivered) : delivered'[i] = delivered[i]
         /\ \A i \in 1 .. Len(out) :
              delivered'[Len(delivered) + i] = [mode |-> "reliable", data |-> out[i]]
<1> DEFINE e(i) == [mode |-> "reliable", data |-> out[i]]
           t == [i \in 1 .. Len(out) |-> e(i)]
<1>1. \A i \in 1 .. Len(out) : e(i) \in DeliveredType
  <2>1. \A i \in 1 .. Len(out) : out[i] \in Data
    OBVIOUS
  <2> QED BY <2>1 DEF DeliveredType, Modes
<1>2. Len(out) \in Nat /\ Len(delivered) \in Nat
  OBVIOUS
<1>3. delivered' = delivered \o t
  OBVIOUS
<1> HIDE DEF e
<1>4. t \in Seq(DeliveredType) /\ Len(t) = Len(out) /\ \A i \in 1 .. Len(out) : t[i] = e(i)
  BY <1>1, <1>2
<1> HIDE DEF t
<1>5. /\ delivered \o t \in Seq(DeliveredType)
      /\ Len(delivered \o t) = Len(delivered) + Len(t)
      /\ \A i \in 1 .. Len(delivered) + Len(t) :
           (delivered \o t)[i] = IF i <= Len(delivered) THEN delivered[i]
                                 ELSE t[i - Len(delivered)]
  BY <1>4, ConcatProperties
<1>6. \A i \in 1 .. Len(out) : (delivered \o t)[Len(delivered) + i] = e(i)
  <2> TAKE i \in 1 .. Len(out)
  <2>1. /\ Len(delivered) + i \in 1 .. Len(delivered) + Len(t)
        /\ ~ (Len(delivered) + i <= Len(delivered))
        /\ (Len(delivered) + i) - Len(delivered) = i
    BY <1>2, <1>4
  <2> QED BY <1>4, <1>5, <2>1
<1>7. \A i \in 1 .. Len(delivered) : (delivered \o t)[i] = delivered[i]
  <2> TAKE i \in 1 .. Len(delivered)
  <2>1. i \in 1 .. Len(delivered) + Len(t) /\ i <= Len(delivered)
    BY <1>2, <1>4
  <2> QED BY <1>5, <2>1
<1> QED BY <1>3, <1>4, <1>5, <1>6, <1>7 DEF e

\* Committing a state that lies ahead.
LEMMA CommitStep ==
  ASSUME Numbered, Queued, Passed, Latest, NEW r, Ahead(r), CommitReliable(r),
         UNCHANGED <<sent, outgoing_reliable_seq, outgoing_unreliable_seq>>
  PROVE  Queued' /\ Passed' /\ Latest'
<1>1. /\ incoming_reliable_seq' = r.seq /\ incoming_reliable_queue' = r.queue
      /\ incoming_unreliable_seq' = incoming_unreliable_seq
  BY DEF CommitReliable
<1>2. Queued'
  BY <1>1 DEF Ahead, Queued, SentBy, WholeOf
<1> DEFINE N == Len(delivered)
           K == Len(r.out)
<1>3. /\ delivered' \in Seq(DeliveredType) /\ Len(delivered') = N + K
      /\ \A i \in 1 .. N : delivered'[i] = delivered[i]
      /\ \A i \in 1 .. K :
           delivered'[N + i] = [mode |-> "reliable", data |-> r.out[i]]
  <2>1. delivered \in Seq(DeliveredType) /\ r.out \in Seq(Data)
    BY DEF Passed, Ahead
  <2>2. delivered' = delivered \o [i \in 1 .. Len(r.out) |->
                                     [mode |-> "reliable", data |-> r.out[i]]]
    BY DEF CommitReliable
  <2> QED BY <2>1, <2>2, Extended
<1>4. N \in Nat /\ K \in Nat
  BY DEF Passed, Ahead
<1> HIDE DEF N, K
<1>5. ASSUME NEW i \in 1 .. (N + K)
      PROVE  \/ i \in 1 .. N /\ delivered'[i] = delivered[i]
             \/ \E k \in 1 .. K :
                  /\ i = N + k /\ delivered'[i].mode = "reliable"
                  /\ delivered'[i].data = r.out[k]
                  /\ MessageOf(delivered'[i]) = NameOf(r.out[k])
  <2>1. CASE i <= N
    <3>1. i \in 1 .. N
      BY <1>4, <2>1
    <3> QED BY <1>3, <3>1
  <2>2. CASE i > N
    <3>1. i - N \in 1 .. K /\ i = N + (i - N)
      BY <1>4, <2>2
    <3>2. delivered'[i] = [mode |-> "reliable", data |-> r.out[i - N]]
      BY <1>3, <3>1
    <3> QED BY <3>1, <3>2 DEF MessageOf, NameOf
  <2> QED BY <1>4, <2>1, <2>2
<1>6. (Len(delivered))' = N + K
  BY <1>3
<1>7. ASSUME NEW i \in 1 .. N + K
      PROVE  WholeOf(delivered'[i].data, MessageOf(delivered'[i]), delivered'[i].mode)
  <2>1. CASE i \in 1 .. N /\ delivered'[i] = delivered[i]
    BY <2>1 DEF Passed, N
  <2>2. CASE \E k \in 1 .. K :
               /\ i = N + k /\ delivered'[i].mode = "reliable"
               /\ delivered'[i].data = r.out[k]
               /\ MessageOf(delivered'[i]) = NameOf(r.out[k])
    BY <2>2 DEF Ahead, K
  <2> QED BY <1>5, <2>1, <2>2
<1>8. ASSUME NEW i, (i \in Delivered("reliable"))'
      PROVE  /\ i \in 1 .. N + K /\ MessageOf(delivered'[i]) \in SentBy("reliable")
             /\ \/ /\ i \in 1 .. N /\ i \in Delivered("reliable")
                   /\ MessageOf(delivered'[i]) = MessageOf(delivered[i])
                   /\ sent[MessageOf(delivered[i])].start <= incoming_reliable_seq
                \/ \E k \in 1 .. K : /\ i = N + k /\ MessageOf(delivered'[i]) = NameOf(r.out[k])
                                     /\ NameOf(r.out[k]) \in Between(incoming_reliable_seq, r.seq)
  <2>1. i \in 1 .. N + K /\ delivered'[i].mode = "reliable"
    BY <1>8, <1>6 DEF Delivered
  <2>2. MessageOf(delivered'[i]) \in SentBy("reliable")
    BY <2>1, <1>7 DEF WholeOf
  <2>3. CASE i \in 1 .. N /\ delivered'[i] = delivered[i]
    <3>1. i \in Delivered("reliable") /\ MessageOf(delivered'[i]) = MessageOf(delivered[i])
      BY <2>1, <2>3 DEF Delivered, MessageOf, N
    <3> QED BY <2>1, <2>2, <2>3, <3>1 DEF Passed
  <2>4. CASE \E k \in 1 .. K :
               /\ i = N + k /\ delivered'[i].mode = "reliable"
               /\ delivered'[i].data = r.out[k]
               /\ MessageOf(delivered'[i]) = NameOf(r.out[k])
    BY <2>1, <2>2, <2>4 DEF Ahead, K
  <2> QED BY <2>1, <1>5, <2>3, <2>4
<1>9. ASSUME NEW k \in 1 .. K
      PROVE  N + k \in Delivered("reliable")' /\ MessageOf(delivered'[N + k]) = NameOf(r.out[k])
  <2>1. N + k \in 1 .. N + K
    BY <1>4
  <2>2. delivered'[N + k] = [mode |-> "reliable", data |-> r.out[k]]
    BY <1>3
  <2> QED BY <1>6, <2>1, <2>2 DEF Delivered, MessageOf, NameOf
<1>10. ASSUME NEW i \in Delivered("reliable")
       PROVE  (i \in Delivered("reliable"))' /\ MessageOf(delivered'[i]) = MessageOf(delivered[i])
  <2>1. i \in 1 .. N /\ i \in 1 .. N + K /\ delivered[i].mode = "reliable"
    BY <1>4 DEF Delivered, N
  <2>2. delivered'[i] = delivered[i]
    BY <1>3, <2>1
  <2> QED BY <1>6, <2>1, <2>2 DEF Delivered, MessageOf
<1>11. incoming_reliable_seq \in Nat /\ r.seq \in Nat /\ incoming_reliable_seq <= r.seq
  BY DEF Queued, Ahead, Numbered
<1>12. ASSUME NEW m \in SentBy("reliable")
       PROVE  sent[m].start \in Nat
  BY <1>12, ReliableRanges
<1>13. ASSUME NEW i, (i \in Delivered("reliable"))'
       PROVE  sent[MessageOf(delivered'[i])].start <= r.seq
  BY <1>8, <1>11, <1>12, <1>13 DEF Between
<1>14. ASSUME NEW m \in SentBy("reliable"), sent[m].start <= r.seq
       PROVE  \E i : (i \in Delivered("reliable"))' /\ MessageOf(delivered'[i]) = m
  <2>1. CASE sent[m].start <= incoming_reliable_seq
    <3>1. PICK i \in Delivered("reliable") : MessageOf(delivered[i]) = m
      BY <2>1 DEF Passed
    <3> QED BY <3>1, <1>10
  <2>2. CASE ~ (sent[m].start <= incoming_reliable_seq)
    <3>1. m \in Between(incoming_reliable_seq, r.seq)
      BY <1>11, <1>12, <1>14, <2>2 DEF Between
    <3>2. PICK k \in 1 .. K : NameOf(r.out[k]) = m
      BY <3>1 DEF Ahead, K
    <3> QED BY <3>2, <1>9
  <2> QED BY <2>1, <2>2
<1>15. ASSUME NEW i, NEW j, (i \in Delivered("reliable"))', (j \in Delivered("reliable"))', i < j
       PROVE  MessageOf(delivered'[i]) < MessageOf(delivered'[j])
  <2> DEFINE a == MessageOf(delivered'[i])
             b == MessageOf(delivered'[j])
  <2>1. a \in SentBy("reliable") /\ b \in SentBy("reliable") /\ i \in 1 .. N + K /\ j \in 1 .. N + K
    BY <1>15, <1>8
  <2>2. CASE j \in 1 .. N
    <3>1. i \in 1 .. N /\ \A k \in 1 .. K : i # N + k /\ j # N + k
      BY <1>4, <1>15, <2>1, <2>2
    <3>2. /\ i \in Delivered("reliable") /\ j \in Delivered("reliable")
          /\ a = MessageOf(delivered[i]) /\ b = MessageOf(delivered[j])
      BY <1>8, <1>15, <3>1
    <3> QED BY <1>15, <3>2 DEF Passed
  <2>3. CASE i \in 1 .. N /\ j \notin 1 .. N
    <3>1. \A k \in 1 .. K : i # N + k
      BY <1>4, <2>3
    <3>2. sent[a].start <= incoming_reliable_seq
      BY <1>8, <1>15, <3>1
    <3>3. b \in Between(incoming_reliable_seq, r.seq)
      BY <1>8, <1>15, <2>3
    <3>4. sent[a].start < sent[b].start
      BY <1>11, <1>12, <2>1, <3>2, <3>3 DEF Between
    <3> HIDE DEF a, b
    <3>5. a < b
      BY <2>1, <3>4, ReliableRanges
    <3> QED BY <3>5 DEF a, b
  <2>4. CASE i \notin 1 .. N
    <3>1. PICK k \in 1 .. K : i = N + k /\ a = NameOf(r.out[k])
      BY <1>8, <1>15, <2>4
    <3>2. j \notin 1 .. N
      BY <1>4, <1>15, <2>1, <3>1
    <3>3. PICK l \in 1 .. K : j = N + l /\ b = NameOf(r.out[l])
      BY <1>8, <1>15, <3>2
    <3>4. k < l
      BY <1>4, <1>15, <3>1, <3>3
    <3> QED BY <3>1, <3>3, <3>4 DEF Ahead, K
  <2> QED BY <2>1, <2>2, <2>3, <2>4
<1>16. Passed'
  <2>1. SentBy("reliable")' = SentBy("reliable")
    BY DEF SentBy
  <2>3. delivered' \in Seq(DeliveredType)
    BY <1>3
  <2>4. \A i \in 1 .. Len(delivered') :
          WholeOf(delivered[i].data, MessageOf(delivered[i]), delivered[i].mode)'
    BY <1>6, <1>7 DEF WholeOf, SentBy, MessageOf
  <2>5. \A i \in Delivered("reliable")' : (sent[MessageOf(delivered[i])].start <= incoming_reliable_seq)'
    BY <1>1, <1>13 DEF MessageOf
  <2>6. \A m \in SentBy("reliable") : sent[m].start <= r.seq =>
          \E i \in Delivered("reliable")' : MessageOf(delivered[i])' = m
    BY <1>14 DEF MessageOf
  <2>7. \A i, j \in Delivered("reliable")' :
          i < j => MessageOf(delivered[i])' < MessageOf(delivered[j])'
    BY <1>15 DEF MessageOf
  <2> QED BY <1>1, <2>1, <2>3, <2>4, <2>5, <2>6, <2>7 DEF Passed
<1>17. Latest'
  <2>1. ASSUME NEW i, (i \in Delivered("unreliable"))'
        PROVE  i \in Delivered("unreliable") /\ delivered'[i] = delivered[i]
    <3>1. i \in 1 .. N + K /\ delivered'[i].mode = "unreliable"
      BY <2>1, <1>6 DEF Delivered
    <3>2. i \in 1 .. N /\ delivered'[i] = delivered[i]
      BY <3>1, <1>5
    <3> QED BY <3>1, <3>2 DEF Delivered, N
  <2> QED BY <1>1, <2>1 DEF Latest, UnreliableOrder, MessageOf
<1> QED BY <1>2, <1>16, <1>17

\* Releasing message m, when its first number is the next one expected, and the
\* queue behind its last number.
LEMMA ReleaseAhead ==
  ASSUME Numbered, Queued, NEW m \in SentBy("reliable"),
         sent[m].start = incoming_reliable_seq + 1,
         NEW data, WholeOf(data, m, "reliable"),
         NEW q, DOMAIN q = DOMAIN incoming_reliable_queue,
         \A s \in DOMAIN q : q[s] = incoming_reliable_queue[s],
         NEW seq, seq = sent[m].start + sent[m].count - 1
  PROVE  Ahead(Release(<<data>>, seq, q))
<1> DEFINE run == Drained(seq, q)
           d   == Cardinality(run)
           t   == [i \in 1 .. d |-> q[seq + i]]
           out == <<data>> \o t
           r   == Release(<<data>>, seq, q)
<1>1. r.seq = seq + d /\ r.queue = Drop(q, run) /\ r.out = out
  BY DEF Release
<1>2. /\ incoming_reliable_seq \in Nat /\ outgoing_reliable_seq \in Nat
      /\ incoming_reliable_seq <= outgoing_reliable_seq
      /\ sent[m].start \in Nat /\ sent[m].count \in Nat \ {0}
      /\ seq \in Nat /\ seq <= outgoing_reliable_seq /\ seq > incoming_reliable_seq
  <2>1. /\ sent[m].start \in Nat \ {0} /\ sent[m].count \in Nat \ {0}
        /\ sent[m].start + sent[m].count - 1 <= outgoing_reliable_seq
    BY ReliableRanges
  <2>2. /\ incoming_reliable_seq \in Nat /\ outgoing_reliable_seq \in Nat
        /\ incoming_reliable_seq <= outgoing_reliable_seq
    BY DEF Numbered, Queued
  <2> QED BY <2>1, <2>2
<1>3. /\ DOMAIN q \subseteq Nat /\ IsFiniteSet(DOMAIN q)
  BY DEF Queued
<1>4. /\ d \in Nat /\ run = (seq + 1) .. (seq + d) /\ run \subseteq DOMAIN q
      /\ seq + d + 1 \notin DOMAIN q
  BY <1>2, <1>3, DrainedRun
<1>5. ASSUME NEW s \in DOMAIN q
      PROVE  /\ s \in Nat /\ s > seq
             /\ \E l \in SentBy("reliable") :
                  /\ sent[l].start = s /\ WholeOf(q[s], l, "reliable") /\ NameOf(q[s]) = l
                  /\ s <= outgoing_reliable_seq
  <2>1. PICK l \in SentBy("reliable") :
          sent[l].start = s /\ WholeOf(incoming_reliable_queue[s], l, "reliable")
    BY DEF Queued
  <2>2. s \in Nat /\ s > incoming_reliable_seq + 1
    BY DEF Queued
  <2>3. /\ m < l <=> sent[m].start < sent[l].start
        /\ m < l => sent[m].start + sent[m].count <= sent[l].start
    BY ReliableRanges
  <2>4. sent[m].start < sent[l].start
    BY <1>2, <2>1, <2>2
  <2>5. s > seq
    BY <1>2, <2>1, <2>2, <2>3, <2>4
  <2>6. NameOf(q[s]) = l
    <3>1. MessageOf([mode |-> "reliable", data |-> incoming_reliable_queue[s]]) = l
      BY <2>1, WholeFacts DEF Modes
    <3> QED BY <3>1 DEF MessageOf, NameOf
  <2>7. s <= outgoing_reliable_seq
    <3>1. /\ sent[l].start \in Nat \ {0} /\ sent[l].count \in Nat \ {0}
          /\ sent[l].start + sent[l].count - 1 <= outgoing_reliable_seq
      BY ReliableRanges
    <3> QED BY <1>2, <2>1, <3>1
  <2> QED BY <2>1, <2>2, <2>5, <2>6, <2>7
<1> HIDE DEF run, d, r
<1>6. \A i \in 1 .. d : seq + i \in DOMAIN q /\ seq + i \in run
  BY <1>2, <1>4
<1>7. data \in Data /\ NameOf(data) = m
  <2>1. data \in Data /\ MessageOf([mode |-> "reliable", data |-> data]) = m
    BY WholeFacts DEF Modes
  <2> QED BY <2>1 DEF MessageOf, NameOf
<1>8. \A s \in DOMAIN q : q[s] \in Data
  BY <1>5, WholeFacts DEF Modes
<1>9. t \in Seq(Data) /\ Len(t) = d /\ \A i \in 1 .. d : t[i] = q[seq + i]
  BY <1>4, <1>6, <1>8
<1> HIDE DEF t
<1>10. <<data>> \in Seq(Data) /\ Len(<<data>>) = 1 /\ <<data>>[1] = data
  BY <1>7
<1>11. /\ out \in Seq(Data) /\ Len(out) = 1 + d
       /\ \A i \in 1 .. 1 + d : out[i] = IF i <= 1 THEN <<data>>[i] ELSE t[i - 1]
  <2>1. /\ <<data>> \o t \in Seq(Data) /\ Len(<<data>> \o t) = Len(<<data>>) + Len(t)
        /\ \A i \in 1 .. Len(<<data>>) + Len(t) :
             (<<data>> \o t)[i] = IF i <= Len(<<data>>) THEN <<data>>[i] ELSE t[i - Len(<<data>>)]
    BY <1>9, <1>10, ConcatProperties
  <2> QED BY <1>9, <1>10, <2>1
<1> HIDE DEF out
<1>12. out[1] = data
  BY <1>4, <1>10, <1>11
<1>13. ASSUME NEW k \in 1 .. d
       PROVE  k + 1 \in 1 .. 1 + d /\ out[k + 1] = q[seq + k]
  <2>1. k + 1 \in 1 .. 1 + d /\ ~ (k + 1 <= 1) /\ (k + 1) - 1 = k
    BY <1>4
  <2>2. out[k + 1] = t[(k + 1) - 1]
    BY <1>11, <2>1
  <2>3. t[k] = q[seq + k]
    BY <1>9
  <2> QED BY <2>1, <2>2, <2>3
<1>14. ASSUME NEW i \in 1 .. 1 + d
       PROVE  i = 1 \/ \E k \in 1 .. d : i = k + 1
  <2>1. i = 1 \/ (i - 1 \in 1 .. d /\ i = (i - 1) + 1)
    BY <1>4
  <2> QED BY <2>1
<1>15. ASSUME NEW i \in 1 .. 1 + d
       PROVE  /\ WholeOf(out[i], NameOf(out[i]), "reliable")
              /\ NameOf(out[i]) \in SentBy("reliable")
              /\ sent[NameOf(out[i])].start = IF i = 1 THEN sent[m].start ELSE seq + (i - 1)
  <2>1. CASE i = 1
    BY <1>7, <1>12, <2>1
  <2>2. ASSUME NEW k \in 1 .. d, i = k + 1
        PROVE  /\ WholeOf(out[i], NameOf(out[i]), "reliable")
               /\ NameOf(out[i]) \in SentBy("reliable")
               /\ sent[NameOf(out[i])].start = seq + k
               /\ i # 1 /\ i - 1 = k
    <3>1. out[i] = q[seq + k] /\ seq + k \in DOMAIN q
      BY <1>6, <1>13, <2>2
    <3>2. i # 1 /\ i - 1 = k
      BY <1>4, <2>2
    <3> QED BY <1>5, <3>1, <3>2
  <2> QED BY <1>14, <2>1, <2>2
<1>16. r.seq \in incoming_reliable_seq .. outgoing_reliable_seq
  <2>1. CASE d = 0
    BY <1>1, <1>2, <2>1
  <2>2. CASE d # 0
    <3>1. d \in 1 .. d
      BY <1>4, <2>2
    <3>2. seq + d \in DOMAIN q
      BY <1>6, <3>1
    <3>3. seq + d <= outgoing_reliable_seq
      BY <1>5, <3>2
    <3> QED BY <1>1, <1>2, <1>4, <3>3, SMTT(30)
  <2> QED BY <2>1, <2>2
<1>17. IsFiniteSet(DOMAIN r.queue)
  <2>1. DOMAIN r.queue = DOMAIN q \ run
    BY <1>1 DEF Drop
  <2>2. IsFiniteSet(DOMAIN q \ run)
    BY <1>3, FS_Difference
  <2> QED BY <2>1, <2>2
<1>18. ASSUME NEW s \in DOMAIN r.queue
       PROVE  /\ s \in Nat /\ s > r.seq + 1
              /\ \E l \in SentBy("reliable") :
                   sent[l].start = s /\ WholeOf(r.queue[s], l, "reliable")
  <2>1. s \in DOMAIN q /\ s \notin run /\ r.queue[s] = q[s]
    BY <1>1 DEF Drop
  <2>2. s \in Nat /\ s > seq /\ s # seq + d + 1
    BY <1>4, <1>5, <2>1
  <2>3. s \notin (seq + 1) .. (seq + d)
    BY <1>4, <2>1
  <2>4. s > seq + d + 1
    BY <1>2, <1>4, <2>2, <2>3, SMTT(30)
  <2> QED BY <1>1, <1>5, <2>1, <2>4
<1>19. ASSUME NEW i \in 1 .. 1 + d
       PROVE  NameOf(out[i]) \in Between(incoming_reliable_seq, r.seq)
  <2>1. i \in Nat /\ i >= 1 /\ i - 1 <= d
    BY <1>4
  <2>2. /\ sent[m].start > incoming_reliable_seq /\ sent[m].start <= seq + d
        /\ seq + (i - 1) > incoming_reliable_seq /\ seq + (i - 1) <= seq + d
    BY <1>2, <1>4, <2>1
  <2>3. /\ sent[NameOf(out[i])].start > incoming_reliable_seq
        /\ sent[NameOf(out[i])].start <= seq + d
    BY <1>15, <2>2
  <2> QED BY <1>1, <1>15, <2>3 DEF Between
<1>20. ASSUME NEW i \in 1 .. 1 + d, NEW j \in 1 .. 1 + d, i < j
       PROVE  NameOf(out[i]) < NameOf(out[j])
  <2>1. i \in Nat /\ i >= 1 /\ j \in Nat /\ j # 1
    BY <1>4, <1>20
  <2>2. sent[NameOf(out[i])].start < sent[NameOf(out[j])].start
    <3>1. sent[NameOf(out[j])].start = seq + (j - 1)
      BY <1>15, <2>1
    <3>2. CASE i = 1
      BY <1>2, <1>15, <1>20, <2>1, <3>1, <3>2
    <3>3. CASE i # 1
      <4>1. sent[NameOf(out[i])].start = seq + (i - 1)
        BY <1>15, <3>3
      <4> QED BY <1>2, <1>20, <2>1, <3>1, <4>1
    <3> QED BY <3>2, <3>3
  <2>3. NameOf(out[i]) \in SentBy("reliable") /\ NameOf(out[j]) \in SentBy("reliable")
    BY <1>15
  <2> QED BY <2>2, <2>3, ReliableRanges
<1>21. ASSUME NEW l \in Between(incoming_reliable_seq, r.seq)
       PROVE  \E i \in 1 .. 1 + d : NameOf(out[i]) = l
  <2>1. /\ l \in SentBy("reliable") /\ sent[l].start > incoming_reliable_seq
        /\ sent[l].start <= seq + d
    BY <1>1 DEF Between
  <2>2. sent[l].start \in Nat
    BY <2>1, ReliableRanges
  <2>3. CASE sent[l].start <= seq
    <3>1. /\ l = m <=> sent[l].start = sent[m].start
          /\ m < l <=> sent[m].start < sent[l].start
          /\ m < l => sent[m].start + sent[m].count <= sent[l].start
      BY <2>1, ReliableRanges
    <3>2. l = m
      BY <1>2, <2>1, <2>2, <2>3, <3>1
    <3>3. 1 \in 1 .. 1 + d
      BY <1>4
    <3> QED BY <1>7, <1>12, <3>2, <3>3
  <2>4. CASE sent[l].start > seq
    <3>1. sent[l].start - seq \in 1 .. d /\ seq + (sent[l].start - seq) = sent[l].start
      BY <1>2, <1>4, <2>1, <2>2, <2>4, SMTT(30)
    <3>2. PICK k \in 1 .. d : seq + k = sent[l].start
      BY <3>1
    <3>3. k + 1 \in 1 .. 1 + d /\ out[k + 1] = q[seq + k] /\ seq + k \in DOMAIN q
      BY <1>6, <1>13
    <3>4. NameOf(q[seq + k]) \in SentBy("reliable") /\ sent[NameOf(q[seq + k])].start = sent[l].start
      BY <1>5, <3>2, <3>3
    <3>5. NameOf(q[seq + k]) = l
      BY <2>1, <3>4, ReliableRanges
    <3> QED BY <3>3, <3>5
  <2> QED BY <1>2, <2>2, <2>3, <2>4
<1>22. Len(r.out) = 1 + d /\ r.out = out /\ r.out \in Seq(Data)
  BY <1>1, <1>11
<1>23. Ahead(r)
  BY <1>15, <1>16, <1>17, <1>18, <1>19, <1>20, <1>21, <1>22 DEF Ahead
<1> QED BY <1>23 DEF r

\* A message that is early waits in the queue, one that is late is dropped.
LEMMA OutOfTurn ==
  ASSUME Numbered, Queued, NEW m \in SentBy("reliable"),
         sent[m].start # incoming_reliable_seq + 1,
         NEW data, WholeOf(data, m, "reliable")
  PROVE  /\ Ahead(ReceiveReliable(sent[m].start, data))
         /\ ReceiveReliable(sent[m].start, data).out = <<>>
<1> DEFINE r == ReceiveReliable(sent[m].start, data)
           q == incoming_reliable_queue
           s == sent[m].start
<1>1. /\ r.seq = incoming_reliable_seq /\ r.out = <<>>
      /\ r.queue = IF s > incoming_reliable_seq + 1 THEN Put(q, s, data) ELSE q
  BY DEF ReceiveReliable
<1>2. /\ incoming_reliable_seq \in Nat /\ outgoing_reliable_seq \in Nat
      /\ incoming_reliable_seq <= outgoing_reliable_seq
      /\ s \in Nat
  BY ReliableRanges DEF Numbered, Queued
<1> HIDE DEF r, s
<1>3. r.seq \in incoming_reliable_seq .. outgoing_reliable_seq
  BY <1>1, <1>2
<1>4. r.out \in Seq(Data) /\ Len(r.out) = 0
  BY <1>1
<1>5. IsFiniteSet(DOMAIN r.queue) /\
      \A x \in DOMAIN r.queue :
        /\ x \in Nat /\ x > r.seq + 1
        /\ \E l \in SentBy("reliable") :
             sent[l].start = x /\ WholeOf(r.queue[x], l, "reliable")
  <2>1. CASE ~ (s > incoming_reliable_seq + 1)
    <3>1. r.queue = incoming_reliable_queue
      BY <1>1, <2>1
    <3> QED BY <1>1, <3>1 DEF Queued
  <2>2. CASE s > incoming_reliable_seq + 1
    <3>1. /\ DOMAIN r.queue = DOMAIN q \cup {s}
          /\ \A x \in DOMAIN q \cup {s} : r.queue[x] = IF x = s THEN data ELSE q[x]
      BY <1>1, <2>2 DEF Put
    <3>2. IsFiniteSet(DOMAIN q \cup {s})
      BY FS_AddElement DEF Queued
    <3>3. ASSUME NEW x \in DOMAIN r.queue
          PROVE  /\ x \in Nat /\ x > r.seq + 1
                 /\ \E l \in SentBy("reliable") :
                      sent[l].start = x /\ WholeOf(r.queue[x], l, "reliable")
      <4>1. CASE x = s
        BY <1>1, <1>2, <2>2, <3>1, <4>1 DEF s
      <4>2. CASE x # s
        BY <1>1, <3>1, <4>2 DEF Queued
      <4> QED BY <4>1, <4>2
    <3> QED BY <3>1, <3>2, <3>3
  <2> QED BY <2>1, <2>2
<1>6. Between(incoming_reliable_seq, r.seq) = {}
  <2> SUFFICES ASSUME NEW l \in Between(incoming_reliable_seq, r.seq) PROVE FALSE
    OBVIOUS
  <2>1. l \in SentBy("reliable") /\ sent[l].start > incoming_reliable_seq
        /\ sent[l].start <= incoming_reliable_seq
    BY <1>1 DEF Between
  <2>2. sent[l].start \in Nat
    BY <2>1, ReliableRanges
  <2> QED BY <1>2, <2>1, <2>2
<1>7. Ahead(r)
  BY <1>3, <1>4, <1>5, <1>6 DEF Ahead
<1> QED BY <1>1, <1>7 DEF r, s

\* No message waits under a number that a fragmented message has taken up.
LEMMA DrainsNothing ==
  ASSUME Numbered, Queued, NEW m \in SentBy("reliable"), sent[m].count > 1
  PROVE  sent[m].start + 1 \notin DOMAIN incoming_reliable_queue
<1> SUFFICES ASSUME sent[m].start + 1 \in DOMAIN incoming_reliable_queue PROVE FALSE
  OBVIOUS
<1>1. PICK l \in SentBy("reliable") : sent[l].start = sent[m].start + 1
  BY DEF Queued
<1>2. /\ m < l <=> sent[m].start < sent[l].start
      /\ m < l => sent[m].start + sent[m].count <= sent[l].start
      /\ sent[m].start \in Nat /\ sent[m].count \in Nat
  BY ReliableRanges
<1> QED BY <1>1, <1>2

\* CMD_SEND_RELIABLE and the completion of a fragmented message both commit a
\* state that lies ahead.
LEMMA ReceiveAhead ==
  ASSUME Numbered, Queued, NEW m \in SentBy("reliable"), sent[m].count = 1,
         NEW data, WholeOf(data, m, "reliable")
  PROVE  Ahead(ReceiveReliable(sent[m].start, data))
<1>1. sent[m].start \in Nat
  BY ReliableRanges
<1>2. CASE sent[m].start = incoming_reliable_seq + 1
  <2>1. ReceiveReliable(sent[m].start, data)
          = Release(<<data>>, sent[m].start, incoming_reliable_queue)
    BY <1>2 DEF ReceiveReliable
  <2>2. sent[m].start = sent[m].start + sent[m].count - 1
    BY <1>1
  <2>3. Ahead(Release(<<data>>, sent[m].start, incoming_reliable_queue))
    BY <1>2, <2>2, ReleaseAhead
  <2> QED BY <2>1, <2>3
<1>3. CASE sent[m].start # incoming_reliable_seq + 1
  BY <1>3, OutOfTurn
<1> QED BY <1>2, <1>3

LEMMA CompleteAhead ==
  ASSUME Numbered, Queued, NEW m \in SentBy("reliable"), NEW c, PieceOf(c, m),
         c.count > 1, NEW data, WholeOf(data, m, "reliable"), CompleteReliable(c, data)
  PROVE  \E r : Ahead(r) /\ CommitReliable(r)
<1> DEFINE q == incoming_reliable_queue
           r == ReceiveReliable(c.start, data)
<1>1. c.start = sent[m].start /\ c.count = sent[m].count
  BY DEF PieceOf
<1>2. sent[m].start \in Nat /\ sent[m].count \in Nat
  BY ReliableRanges
<1>3. CASE sent[m].start # incoming_reliable_seq + 1
  <2>1. Ahead(r) /\ r.out = <<>>
    BY <1>1, <1>3, OutOfTurn
  <2> HIDE DEF r
  <2>2. CommitReliable(r)
    BY <2>1 DEF CompleteReliable, r
  <2> QED BY <2>1, <2>2
<1>4. CASE sent[m].start = incoming_reliable_seq + 1
  <2> DEFINE run == Drained(c.start, q)
             d   == Cardinality(run)
  <2>1. /\ r.seq = c.start + d /\ r.queue = Drop(q, run)
        /\ r.out = <<data>> \o [i \in 1 .. d |-> q[c.start + i]]
    BY <1>1, <1>4 DEF ReceiveReliable, Release
  <2>2. IsFiniteSet(DOMAIN q) /\ DOMAIN q \subseteq Nat
    BY DEF Queued
  <2>3. d \in Nat /\ run = (c.start + 1) .. (c.start + d) /\ run \subseteq DOMAIN q
    BY <1>1, <1>2, <2>2, DrainedRun
  <2> HIDE DEF run, d, r
  <2>4. c.start + 1 \notin DOMAIN q
    BY <1>1, DrainsNothing
  <2>5. d = 0 /\ run = {}
    BY <1>1, <1>2, <2>3, <2>4
  <2>6. /\ DOMAIN r.queue = DOMAIN q /\ \A s \in DOMAIN r.queue : r.queue[s] = q[s]
    BY <2>1, <2>5 DEF Drop
  <2>7. r.out = <<data>>
    <3>1. data \in Data
      BY WholeFacts DEF Modes
    <3>2. [i \in 1 .. d |-> q[c.start + i]] = << >>
      BY <2>5
    <3>3. <<data>> \in Seq(Data)
      BY <3>1
    <3>4. <<data>> \o << >> = <<data>>
      BY <3>3, ConcatEmptySeq
    <3> QED BY <2>1, <3>2, <3>4
  <2>8. r.seq + c.count - 1 = sent[m].start + sent[m].count - 1
    BY <1>1, <1>2, <2>1, <2>5
  <2> DEFINE e == Release(r.out, r.seq + c.count - 1, r.queue)
  <2>9. Ahead(e)
    BY <1>4, <2>6, <2>7, <2>8, ReleaseAhead
  <2>10. r.out # <<>>
    BY <2>7
  <2>11. CommitReliable(e)
    BY <2>10 DEF CompleteReliable, r
  <2> HIDE DEF e
  <2> QED BY <2>9, <2>11
<1> QED BY <1>3, <1>4

\* Channel::receive_unreliable: the message is new and comes last, or it is
\* dropped.
LEMMA UnreliableStep ==
  ASSUME Numbered, Queued, Passed, Latest, NEW m \in SentBy("unreliable"),
         NEW data, WholeOf(data, m, "unreliable"), ReceiveUnreliable(sent[m].start, data),
         UNCHANGED <<sent, outgoing_reliable_seq, outgoing_unreliable_seq>>
  PROVE  Queued' /\ Passed' /\ Latest'
<1>1. CASE UNCHANGED <<incoming_unreliable_seq, delivered>>
  BY <1>1 DEF ReceiveUnreliable, Queued, Passed, Latest, UnreliableOrder, Delivered, SentBy,
              WholeOf, MessageOf
<1>2. CASE /\ sent[m].start > incoming_unreliable_seq
           /\ incoming_unreliable_seq' = sent[m].start
           /\ delivered' = Append(delivered, [mode |-> "unreliable", data |-> data])
  <2> DEFINE N == Len(delivered)
             e == [mode |-> "unreliable", data |-> data]
  <2>1. e \in DeliveredType /\ MessageOf(e) = m /\ e.mode = "unreliable" /\ e.data = data
    BY WholeFacts DEF Modes
  <2>2. delivered' = Append(delivered, e)
    BY <1>2
  <2> HIDE DEF e
  <2>3. N \in Nat /\ delivered \in Seq(DeliveredType)
    BY DEF Passed
  <2>4. /\ delivered' \in Seq(DeliveredType) /\ Len(delivered') = N + 1
        /\ \A i \in 1 .. N : delivered'[i] = delivered[i]
        /\ delivered'[N + 1] = e
    BY <2>1, <2>2, <2>3, AppendProperties
  <2> HIDE DEF N
  <2>5. ASSUME NEW i \in 1 .. (N + 1)
        PROVE  (i \in 1 .. N /\ delivered'[i] = delivered[i]) \/ (i = N + 1 /\ delivered'[i] = e)
    BY <2>3, <2>4
  <2>6. Queued'
    BY DEF ReceiveUnreliable, Queued, SentBy, WholeOf
  <2>7. Delivered("reliable")' = Delivered("reliable")
    <3>1. \A i \in 1 .. N : i \in 1 .. N + 1
      BY <2>3
    <3>2. \A i \in 1 .. N + 1 : delivered'[i].mode = "reliable" =>
                                  i \in 1 .. N /\ delivered[i].mode = "reliable"
      BY <2>1, <2>5
    <3> QED BY <2>4, <3>1, <3>2 DEF Delivered, N
  <2>8. \A i \in Delivered("reliable") : MessageOf(delivered[i])' = MessageOf(delivered[i])
    BY <2>4 DEF Delivered, MessageOf, N
  <2>9. \A i \in 1 .. Len(delivered') :
          WholeOf(delivered[i].data, MessageOf(delivered[i]), delivered[i].mode)'
    <3> TAKE i \in 1 .. Len(delivered')
    <3>1. CASE i \in 1 .. N /\ delivered'[i] = delivered[i]
      <4>1. WholeOf(delivered[i].data, MessageOf(delivered[i]), delivered[i].mode)
        BY <3>1 DEF Passed, N
      <4> QED BY <3>1, <4>1 DEF WholeOf, SentBy, MessageOf
    <3>2. CASE delivered'[i] = e
      <4>1. WholeOf(e.data, MessageOf(e), e.mode)
        BY <2>1
      <4> QED BY <3>2, <4>1 DEF WholeOf, SentBy, MessageOf
    <3> QED BY <2>4, <2>5, <3>1, <3>2
  <2>10. Passed'
    <3>1. SentBy("reliable")' = SentBy("reliable") /\ incoming_reliable_seq' = incoming_reliable_seq
      BY DEF SentBy, ReceiveUnreliable
    <3> QED BY <2>4, <2>7, <2>8, <2>9, <3>1 DEF Passed
  <2>11. sent[m].start \in 1 .. outgoing_unreliable_seq /\ incoming_unreliable_seq \in Nat
    BY UnreliableNumbers DEF Latest, Numbered
  <2>12. ASSUME NEW i \in Delivered("unreliable")'
         PROVE  \/ /\ i \in Delivered("unreliable") /\ i \in 1 .. N
                   /\ MessageOf(delivered[i])' = MessageOf(delivered[i])
                   /\ sent[MessageOf(delivered[i])].start <= incoming_unreliable_seq
                   /\ MessageOf(delivered[i]) \in SentBy("unreliable")
                \/ i = N + 1 /\ MessageOf(delivered[i])' = m
    <3>1. i \in 1 .. N + 1 /\ delivered'[i].mode = "unreliable"
      BY <2>4 DEF Delivered
    <3>2. CASE i \in 1 .. N /\ delivered'[i] = delivered[i]
      <4>1. i \in Delivered("unreliable") /\ MessageOf(delivered[i])' = MessageOf(delivered[i])
        BY <3>1, <3>2 DEF Delivered, MessageOf, N
      <4>2. MessageOf(delivered[i]) \in SentBy("unreliable")
        BY <3>1, <3>2 DEF Passed, WholeOf, N
      <4> QED BY <3>2, <4>1, <4>2 DEF Latest
    <3>3. CASE i = N + 1 /\ delivered'[i] = e
      BY <2>1, <3>3 DEF MessageOf
    <3> QED BY <2>5, <3>1, <3>2, <3>3
  <2>13. \A l \in SentBy("unreliable") : sent[l].start \in Nat
    BY UnreliableNumbers
  <2>14. \A i \in Delivered("unreliable")' :
           (sent[MessageOf(delivered[i])].start <= incoming_unreliable_seq)'
    <3> TAKE i \in Delivered("unreliable")'
    <3> DEFINE a == MessageOf(delivered[i])
    <3>1. CASE /\ a' = a /\ sent[a].start <= incoming_unreliable_seq
               /\ a \in SentBy("unreliable")
      <4>1. sent[a].start <= sent[m].start
        BY <1>2, <2>11, <2>13, <3>1
      <4> QED BY <1>2, <3>1, <4>1
    <3>2. CASE a' = m
      <4>1. sent[m].start <= sent[m].start
        BY <2>11
      <4> QED BY <1>2, <3>2, <4>1
    <3> QED BY <2>12, <3>1, <3>2
  <2>15. ASSUME NEW i \in Delivered("unreliable")', NEW j \in Delivered("unreliable")', i < j
         PROVE  MessageOf(delivered[i])' < MessageOf(delivered[j])'
    <3>1. i \in 1 .. N /\ (\A k \in 1 .. N : k # N + 1) /\ j \in 1 .. N + 1
      BY <2>3, <2>4, <2>15 DEF Delivered
    <3>2. /\ i \in Delivered("unreliable")
          /\ MessageOf(delivered[i])' = MessageOf(delivered[i])
          /\ sent[MessageOf(delivered[i])].start <= incoming_unreliable_seq
          /\ MessageOf(delivered[i]) \in SentBy("unreliable")
      BY <2>12, <3>1
    <3>3. CASE j \in 1 .. N
      <4>1. j \in Delivered("unreliable") /\ MessageOf(delivered[j])' = MessageOf(delivered[j])
        BY <2>12, <3>1, <3>3
      <4> QED BY <2>15, <3>2, <4>1 DEF Latest, UnreliableOrder
    <3>4. CASE j = N + 1
      <4>1. MessageOf(delivered[j])' = m
        BY <2>3, <2>12, <3>1, <3>4
      <4>2. sent[MessageOf(delivered[i])].start < sent[m].start
        BY <1>2, <2>11, <2>13, <3>2
      <4>3. MessageOf(delivered[i]) < m
        BY <3>2, <4>2, UnreliableNumbers
      <4> QED BY <3>2, <4>1, <4>3
    <3> QED BY <2>3, <3>1, <3>3, <3>4
  <2>16. Latest'
    <3>1. incoming_unreliable_seq' \in 0 .. outgoing_unreliable_seq'
      BY <1>2, <2>11
    <3> QED BY <2>14, <2>15, <3>1 DEF Latest, UnreliableOrder
  <2> QED BY <2>6, <2>10, <2>16
<1> QED BY <1>1, <1>2 DEF ReceiveUnreliable

----------------------------------------------------------------------------
(* Sending.                                                                 *)

\* A message joins the others with numbers behind theirs.
LEMMA SendStep ==
  ASSUME IndInv, NEW x \in SentType, sent' = Append(sent, x), Mixed(sent'),
         x.epoch = outgoing_reliable_seq, UNCHANGED receiverVars,
         \/ /\ x.mode = "reliable" /\ x.start = outgoing_reliable_seq + 1
            /\ outgoing_reliable_seq' = outgoing_reliable_seq + x.count
            /\ outgoing_unreliable_seq' = outgoing_unreliable_seq
         \/ /\ x.mode = "unreliable" /\ x.start = outgoing_unreliable_seq + 1
            /\ outgoing_unreliable_seq' = outgoing_unreliable_seq + 1
            /\ outgoing_reliable_seq' = outgoing_reliable_seq,
         \A c \in net' : c \in net \/ (/\ c.msg = Len(sent) + 1 /\ c.mode = x.mode
                                       /\ c.start = x.start /\ c.count = x.count
                                       /\ c.number \in 0 .. (x.count - 1)
                                       /\ c.mode = "unreliable" => c.reliable_seq = x.epoch),
         net \subseteq net'
  PROVE  IndInv'
<1> DEFINE N == Len(sent)
<1>1. /\ N \in Nat /\ outgoing_reliable_seq \in Nat /\ outgoing_unreliable_seq \in Nat
      /\ sent \in Seq(SentType)
  BY DEF IndInv, Numbered
<1>2. /\ sent' \in Seq(SentType) /\ sent' # <<>> /\ Len(sent') = N + 1
      /\ \A i \in 1 .. N : sent'[i] = sent[i]
      /\ sent'[N + 1] = x
  BY <1>1, AppendProperties
<1>3. /\ x.start \in Nat \ {0} /\ x.count \in Nat \ {0} /\ x.epoch \in Nat /\ x.mode \in Modes
  BY DEF SentType
<1> HIDE DEF N
<1>4. \A i \in 1 .. N + 1 : i \in 1 .. N \/ i = N + 1
  BY <1>1
<1>5. \A i \in 1 .. N : i \in 1 .. N + 1 /\ i < N + 1 /\ i # N + 1
  BY <1>1
<1>6. \A i \in 1 .. N : /\ sent[i].start \in Nat \ {0} /\ sent[i].count \in Nat \ {0}
                        /\ sent[i].epoch \in Nat /\ sent[i].mode \in Modes
  <2> TAKE i \in 1 .. N
  <2>1. sent[i] \in SentType
    BY <1>1 DEF N
  <2> QED BY <2>1 DEF SentType
<1>7. /\ outgoing_reliable_seq' \in Nat /\ outgoing_unreliable_seq' \in Nat
      /\ outgoing_reliable_seq <= outgoing_reliable_seq'
      /\ outgoing_unreliable_seq <= outgoing_unreliable_seq'
  BY <1>1, <1>3
<1>8. Numbered'
  <2>1. ASSUME NEW i \in 1 .. N + 1
        PROVE  IF sent'[i].mode = "reliable"
               THEN /\ sent'[i].start = sent'[i].epoch + 1
                    /\ sent'[i].epoch + sent'[i].count <= outgoing_reliable_seq'
               ELSE /\ sent'[i].start <= outgoing_unreliable_seq'
                    /\ sent'[i].epoch <= outgoing_reliable_seq'
    <3>1. CASE i \in 1 .. N
      <4>1. IF sent[i].mode = "reliable"
            THEN /\ sent[i].start = sent[i].epoch + 1
                 /\ sent[i].epoch + sent[i].count <= outgoing_reliable_seq
            ELSE /\ sent[i].start <= outgoing_unreliable_seq
                 /\ sent[i].epoch <= outgoing_reliable_seq
        BY <3>1 DEF IndInv, Numbered, N
      <4>2. /\ sent[i].start \in Nat \ {0} /\ sent[i].count \in Nat \ {0}
            /\ sent[i].epoch \in Nat /\ sent'[i] = sent[i]
        BY <1>2, <1>6, <3>1
      <4>3. CASE sent[i].mode = "reliable"
        <5>1. sent[i].epoch + sent[i].count <= outgoing_reliable_seq'
          BY <1>1, <1>7, <4>1, <4>2, <4>3, SMTT(30)
        <5> QED BY <4>1, <4>2, <4>3, <5>1
      <4>4. CASE sent[i].mode # "reliable"
        <5>1. sent[i].start <= outgoing_unreliable_seq' /\ sent[i].epoch <= outgoing_reliable_seq'
          BY <1>1, <1>7, <4>1, <4>2, <4>4, SMTT(30)
        <5> QED BY <4>2, <4>4, <5>1
      <4> QED BY <4>3, <4>4
    <3>2. CASE i = N + 1
      <4>1. sent'[i] = x
        BY <1>2, <3>2
      <4>2. CASE x.mode = "reliable"
        BY <1>1, <1>3, <4>1, <4>2
      <4>3. CASE x.mode = "unreliable"
        BY <1>1, <1>3, <4>1, <4>3
      <4> QED BY <1>3, <4>2, <4>3 DEF Modes
    <3> QED BY <1>4, <3>1, <3>2
  <2>2. ASSUME NEW l \in 1 .. N + 1, NEW m \in 1 .. N + 1, l < m
        PROVE  /\ sent'[l].epoch <= sent'[m].epoch
               /\ sent'[l].mode = "reliable" => sent'[l].epoch + sent'[l].count <= sent'[m].epoch
               /\ sent'[l].mode = "unreliable" /\ sent'[m].mode = "unreliable"
                    => sent'[l].start < sent'[m].start
    <3>1. l \in 1 .. N /\ sent'[l] = sent[l]
      BY <1>1, <1>2, <2>2
    <3>2. CASE m \in 1 .. N
      <4>1. sent'[m] = sent[m]
        BY <1>2, <3>2
      <4> QED BY <2>2, <3>1, <3>2, <4>1 DEF IndInv, Numbered, N
    <3>3. CASE m = N + 1
      <4>1. sent'[m] = x
        BY <1>2, <3>3
      <4>2. IF sent[l].mode = "reliable"
            THEN /\ sent[l].start = sent[l].epoch + 1
                 /\ sent[l].epoch + sent[l].count <= outgoing_reliable_seq
            ELSE /\ sent[l].start <= outgoing_unreliable_seq
                 /\ sent[l].epoch <= outgoing_reliable_seq
        BY <3>1 DEF IndInv, Numbered, N
      <4>3. /\ sent[l].start \in Nat \ {0} /\ sent[l].count \in Nat \ {0}
            /\ sent[l].epoch \in Nat
        BY <1>6, <3>1
      <4>4. CASE sent[l].mode = "reliable"
        BY <1>1, <1>3, <3>1, <4>1, <4>2, <4>3, <4>4, SMTT(30)
      <4>5. CASE sent[l].mode # "reliable"
        BY <1>1, <1>3, <3>1, <4>1, <4>2, <4>3, <4>5, SMTT(30)
      <4> QED BY <4>4, <4>5
    <3> QED BY <1>4, <3>2, <3>3
  <2> QED BY <1>2, <1>7, <2>1, <2>2 DEF Numbered, Mixed
<1>9. Carried'
  <2>1. ASSUME NEW c \in net' PROVE PieceOf(c, c.msg)'
    <3>1. CASE c \in net
      <4>1. PieceOf(c, c.msg) /\ c.msg \in 1 .. N
        BY <3>1 DEF IndInv, Carried, PieceOf, N
      <4>2. sent'[c.msg] = sent[c.msg] /\ c.msg \in 1 .. N + 1
        BY <1>2, <1>5, <4>1
      <4> QED BY <1>2, <4>1, <4>2 DEF PieceOf
    <3>2. CASE c \notin net
      <4>1. /\ c.msg = N + 1 /\ c.mode = x.mode
            /\ c.start = x.start /\ c.count = x.count
            /\ c.number \in 0 .. (x.count - 1)
            /\ c.mode = "unreliable" => c.reliable_seq = x.epoch
        BY <3>2 DEF N
      <4>2. N + 1 \in 1 .. N + 1
        BY <1>1
      <4> QED BY <1>2, <4>1, <4>2 DEF PieceOf
    <3> QED BY <3>1, <3>2
  <2>2. acked' \subseteq net'
    BY DEF IndInv, Carried, receiverVars
  <2> QED BY <2>1, <2>2 DEF Carried
<1>10. ASSUME NEW mode, NEW m \in SentBy(mode)
       PROVE  m \in 1 .. N /\ m \in SentBy(mode)' /\ sent'[m] = sent[m]
  BY <1>2, <1>5 DEF SentBy, N
<1>11. ASSUME NEW mode, NEW m \in SentBy(mode)'
       PROVE  \/ m \in SentBy(mode)
              \/ m = N + 1 /\ x.mode = mode
  BY <1>2, <1>4 DEF SentBy, N
<1>12. UNCHANGED <<acked, incoming_reliable_seq, incoming_reliable_queue,
                   incoming_unreliable_seq, fragment_buffers,
                   fragment_bytes_in_flight, delivered>>
  BY DEF receiverVars
<1>13. ASSUME NEW data, NEW m, NEW mode, WholeOf(data, m, mode) PROVE WholeOf(data, m, mode)'
  BY <1>10, <1>13 DEF WholeOf
<1>14. Queued'
  <2>1. incoming_reliable_seq' \in 0 .. outgoing_reliable_seq'
    BY <1>1, <1>7, <1>12 DEF IndInv, Queued
  <2>2. ASSUME NEW s \in DOMAIN incoming_reliable_queue
        PROVE  \E m \in SentBy("reliable")' :
                 sent'[m].start = s /\ WholeOf(incoming_reliable_queue[s], m, "reliable")'
    <3>1. PICK m \in SentBy("reliable") :
            sent[m].start = s /\ WholeOf(incoming_reliable_queue[s], m, "reliable")
      BY DEF IndInv, Queued
    <3>2. WholeOf(incoming_reliable_queue[s], m, "reliable")'
      BY <1>12, <3>1, <1>10 DEF WholeOf
    <3> QED BY <1>10, <3>1, <3>2
  <2> QED BY <1>12, <2>1, <2>2 DEF IndInv, Queued
<1>15. Buffered'
  <2>1. Reserved' = Reserved
    BY <1>12 DEF Reserved
  <2>2. ASSUME NEW s \in DOMAIN fragment_buffers
        PROVE  \E m \in 1 .. N + 1 :
                 sent'[m].start = s /\ HoldsPiecesOf(fragment_buffers[s], m)'
    <3>1. PICK m \in 1 .. N : sent[m].start = s /\ HoldsPiecesOf(fragment_buffers[s], m)
      BY DEF IndInv, Buffered, N
    <3>2. HoldsPiecesOf(fragment_buffers[s], m)'
      BY <1>2, <1>12, <3>1 DEF HoldsPiecesOf
    <3> QED BY <1>2, <1>5, <3>1, <3>2
  <2> QED BY <1>2, <1>12, <2>1, <2>2 DEF IndInv, Buffered, BudgetExact
<1>16. \A mode : Delivered(mode)' = Delivered(mode)
  BY <1>12 DEF Delivered
<1>17. \A i : MessageOf(delivered[i])' = MessageOf(delivered[i])
  BY <1>12 DEF MessageOf
<1>18. ASSUME NEW i \in 1 .. Len(delivered)
       PROVE  /\ MessageOf(delivered[i]) \in 1 .. N
              /\ sent'[MessageOf(delivered[i])] = sent[MessageOf(delivered[i])]
  <2>1. MessageOf(delivered[i]) \in SentBy(delivered[i].mode)
    BY DEF IndInv, Passed, WholeOf
  <2> QED BY <1>10, <2>1
<1>19. Passed'
  <2>1. \A i \in 1 .. Len(delivered) :
          WholeOf(delivered[i].data, MessageOf(delivered[i]), delivered[i].mode)'
    <3> TAKE i \in 1 .. Len(delivered)
    <3>1. WholeOf(delivered[i].data, MessageOf(delivered[i]), delivered[i].mode)
      BY DEF IndInv, Passed
    <3>2. /\ MessageOf(delivered[i]) \in 1 .. N + 1
          /\ sent[MessageOf(delivered[i])].mode = delivered[i].mode
          /\ delivered[i].data = Payload(MessageOf(delivered[i]), sent[MessageOf(delivered[i])].count)
      BY <1>5, <1>18, <3>1 DEF WholeOf, SentBy
    <3> QED BY <1>2, <1>12, <1>17, <1>18, <3>2 DEF WholeOf, SentBy
  <2>2. \A i \in Delivered("reliable") : i \in 1 .. Len(delivered)
    BY DEF Delivered
  <2>3. \A i \in Delivered("reliable") :
          (sent[MessageOf(delivered[i])].start <= incoming_reliable_seq)'
    BY <1>12, <1>17, <1>18, <2>2 DEF IndInv, Passed
  <2>4. ASSUME NEW m \in SentBy("reliable")', sent'[m].start <= incoming_reliable_seq
        PROVE  \E i \in Delivered("reliable") : MessageOf(delivered[i]) = m
    <3>1. CASE m \in SentBy("reliable")
      BY <1>10, <2>4, <3>1 DEF IndInv, Passed
    <3>2. CASE m = N + 1 /\ x.mode = "reliable"
      <4>1. sent'[m].start = outgoing_reliable_seq + 1
        BY <1>2, <3>2
      <4>2. incoming_reliable_seq \in Nat /\ incoming_reliable_seq <= outgoing_reliable_seq
        BY <1>1 DEF IndInv, Queued
      <4> QED BY <1>1, <2>4, <4>1, <4>2
    <3> QED BY <1>11, <3>1, <3>2
  <2> QED BY <1>12, <1>16, <1>17, <2>1, <2>3, <2>4 DEF IndInv, Passed
<1>20. Latest'
  <2>1. incoming_unreliable_seq' \in 0 .. outgoing_unreliable_seq'
    BY <1>1, <1>7, <1>12 DEF IndInv, Latest
  <2>2. \A i \in Delivered("unreliable") : i \in 1 .. Len(delivered)
    BY DEF Delivered
  <2>3. \A i \in Delivered("unreliable") :
          (sent[MessageOf(delivered[i])].start <= incoming_unreliable_seq)'
    BY <1>12, <1>17, <1>18, <2>2 DEF IndInv, Latest
  <2> QED BY <1>12, <1>16, <1>17, <2>1, <2>3 DEF IndInv, Latest, UnreliableOrder
<1> QED BY <1>8, <1>9, <1>14, <1>15, <1>19, <1>20 DEF IndInv

----------------------------------------------------------------------------
(* Reassembly buffers.                                                      *)

\* A buffer for n units: its share of Reserved.
LEMMA ShareSize ==
  ASSUME NEW s, NEW n \in Nat
  PROVE  /\ IsFiniteSet({s} \X (0 .. (n - 1)))
         /\ Cardinality({s} \X (0 .. (n - 1))) = n
<1>1. IsFiniteSet({s}) /\ Cardinality({s}) = 1
  BY FS_Singleton
<1>2. 0 \in Int /\ n - 1 \in Int
  OBVIOUS
<1>3. IsFiniteSet(0 .. (n - 1)) /\ Cardinality(0 .. (n - 1)) = n
  <2>1. Cardinality(0 .. (n - 1)) = IF 0 > n - 1 THEN 0 ELSE (n - 1) - 0 + 1
    BY <1>2, FS_Interval
  <2>2. IsFiniteSet(0 .. (n - 1))
    BY <1>2, FS_Interval
  <2> QED BY <2>1, <2>2
<1>4. /\ IsFiniteSet({s} \X (0 .. (n - 1)))
      /\ Cardinality({s} \X (0 .. (n - 1))) = Cardinality({s}) * Cardinality(0 .. (n - 1))
  BY <1>1, <1>3, FS_Product
<1> QED BY <1>1, <1>3, <1>4

\* Opening a buffer adds its share.
LEMMA OpenShare ==
  ASSUME NEW s, s \notin DOMAIN fragment_buffers, NEW b, NEW n \in Nat,
         DOMAIN b.buf = 0 .. (n - 1), fragment_buffers' = Put(fragment_buffers, s, b),
         IsFiniteSet(Reserved)
  PROVE  IsFiniteSet(Reserved') /\ Cardinality(Reserved') = Cardinality(Reserved) + n
<1> DEFINE A == {s} \X (0 .. (n - 1))
<1>1. /\ DOMAIN fragment_buffers' = DOMAIN fragment_buffers \cup {s}
      /\ fragment_buffers'[s] = b
      /\ \A x \in DOMAIN fragment_buffers : fragment_buffers'[x] = fragment_buffers[x]
  BY DEF Put
<1>2. Reserved' = Reserved \cup A
  <2>1. ASSUME NEW p \in Reserved' PROVE p \in Reserved \cup A
    <3>1. PICK x \in DOMAIN fragment_buffers' : p \in {x} \X DOMAIN fragment_buffers'[x].buf
      BY DEF Reserved
    <3>2. CASE x = s
      BY <1>1, <3>1, <3>2
    <3>3. CASE x # s
      <4>1. x \in DOMAIN fragment_buffers /\ p \in {x} \X DOMAIN fragment_buffers[x].buf
        BY <1>1, <3>1, <3>3
      <4> QED BY <4>1 DEF Reserved
    <3> QED BY <3>2, <3>3
  <2>2. ASSUME NEW p \in Reserved PROVE p \in Reserved'
    <3>1. PICK x \in DOMAIN fragment_buffers : p \in {x} \X DOMAIN fragment_buffers[x].buf
      BY DEF Reserved
    <3>2. x \in DOMAIN fragment_buffers' /\ p \in {x} \X DOMAIN fragment_buffers'[x].buf
      BY <1>1, <3>1
    <3> QED BY <3>2 DEF Reserved
  <2>3. ASSUME NEW p \in A PROVE p \in Reserved'
    <3>1. s \in DOMAIN fragment_buffers' /\ p \in {s} \X DOMAIN fragment_buffers'[s].buf
      BY <1>1
    <3> QED BY <3>1 DEF Reserved
  <2> QED BY <2>1, <2>2, <2>3
<1>3. Reserved \cap A = {}
  <2> SUFFICES ASSUME NEW p \in Reserved, p \in A PROVE FALSE
    OBVIOUS
  <2>1. PICK x \in DOMAIN fragment_buffers : p \in {x} \X DOMAIN fragment_buffers[x].buf
    BY DEF Reserved
  <2>2. p[1] = x /\ p[1] = s
    BY <2>1
  <2> QED BY <2>1, <2>2
<1>4. IsFiniteSet(A) /\ Cardinality(A) = n
  BY ShareSize
<1> HIDE DEF A
<1>5. /\ IsFiniteSet(Reserved \cup A)
      /\ Cardinality(Reserved \cup A) = Cardinality(Reserved) + Cardinality(A) - Cardinality(Reserved \cap A)
  BY <1>4, FS_Union
<1>6. Cardinality(Reserved \cap A) = 0 /\ Cardinality(Reserved) \in Nat
  BY <1>3, FS_EmptySet, FS_CardinalityType
<1> QED BY <1>2, <1>4, <1>5, <1>6

\* Storing a piece leaves the share of the buffer alone.
LEMMA StoreShare ==
  ASSUME NEW s \in DOMAIN fragment_buffers, NEW b,
         DOMAIN b.buf = DOMAIN fragment_buffers[s].buf,
         fragment_buffers' = Put(fragment_buffers, s, b)
  PROVE  Reserved' = Reserved /\ DOMAIN fragment_buffers' = DOMAIN fragment_buffers
<1>1. /\ DOMAIN fragment_buffers' = DOMAIN fragment_buffers
      /\ \A x \in DOMAIN fragment_buffers :
           DOMAIN fragment_buffers'[x].buf = DOMAIN fragment_buffers[x].buf
  BY DEF Put
<1>2. \A x \in DOMAIN fragment_buffers :
        {x} \X DOMAIN fragment_buffers'[x].buf = {x} \X DOMAIN fragment_buffers[x].buf
  BY <1>1
<1>3. \A p : p \in Reserved' <=> p \in Reserved
  BY <1>1, <1>2, ZenonT(40) DEF Reserved
<1> QED BY <1>1, <1>3

\* Closing a buffer gives its share back.
LEMMA CloseShare ==
  ASSUME NEW s \in DOMAIN fragment_buffers, NEW n \in Nat,
         DOMAIN fragment_buffers[s].buf = 0 .. (n - 1),
         fragment_buffers' = Drop(fragment_buffers, {s}), IsFiniteSet(Reserved)
  PROVE  /\ IsFiniteSet(Reserved') /\ Cardinality(Reserved) >= n
         /\ Cardinality(Reserved') = Cardinality(Reserved) - n
<1> DEFINE A == {s} \X (0 .. (n - 1))
<1>1. /\ DOMAIN fragment_buffers' = DOMAIN fragment_buffers \ {s}
      /\ \A x \in DOMAIN fragment_buffers' : fragment_buffers'[x] = fragment_buffers[x]
  BY DEF Drop
<1>2. Reserved' = Reserved \ A
  <2>1. ASSUME NEW p \in Reserved' PROVE p \in Reserved /\ p \notin A
    <3>1. PICK x \in DOMAIN fragment_buffers' : p \in {x} \X DOMAIN fragment_buffers'[x].buf
      BY DEF Reserved
    <3>2. x \in DOMAIN fragment_buffers /\ p \in {x} \X DOMAIN fragment_buffers[x].buf
      BY <1>1, <3>1
    <3>3. p[1] = x /\ x # s
      BY <1>1, <3>1
    <3> QED BY <3>2, <3>3 DEF Reserved
  <2>2. ASSUME NEW p \in Reserved, p \notin A PROVE p \in Reserved'
    <3>1. PICK x \in DOMAIN fragment_buffers : p \in {x} \X DOMAIN fragment_buffers[x].buf
      BY DEF Reserved
    <3>2. x # s
      BY <2>2, <3>1
    <3>3. x \in DOMAIN fragment_buffers' /\ p \in {x} \X DOMAIN fragment_buffers'[x].buf
      BY <1>1, <3>1, <3>2
    <3> QED BY <3>3 DEF Reserved
  <2> QED BY <2>1, <2>2
<1>3. A \in SUBSET Reserved
  BY DEF Reserved
<1>4. IsFiniteSet(A) /\ Cardinality(A) = n
  BY ShareSize
<1> HIDE DEF A
<1>5. /\ IsFiniteSet(Reserved \ A)
      /\ Cardinality(Reserved \ A) = Cardinality(Reserved) - Cardinality(Reserved \cap A)
  BY FS_Difference
<1>6. Reserved \cap A = A
  BY <1>3
<1>7. Cardinality(A) <= Cardinality(Reserved) /\ Cardinality(Reserved) \in Nat
  BY <1>3, FS_Subset, FS_CardinalityType
<1> QED BY <1>2, <1>4, <1>5, <1>6, <1>7

\* FragmentBuffer::new and FragmentBuffer::receive.
LEMMA NewHolds ==
  ASSUME Numbered, NEW m \in 1 .. Len(sent), NEW c, PieceOf(c, m), c.count > 1
  PROVE  HoldsPiecesOf(NewBuffer(c), m) /\ NewBuffer(c).mask = {}
<1>0. sent[m] \in SentType
  BY DEF Numbered
<1>1. c.count = sent[m].count /\ c.count \in Nat
  BY <1>0 DEF SentType, PieceOf
<1>2. [i \in 0 .. (c.count - 1) |-> Hole] \in [0 .. (c.count - 1) -> Nat \X Nat]
  BY DEF Hole
<1>3. [i \in 0 .. (c.count - 1) |-> Hole] \in Data
  BY <1>1, <1>2 DEF Data
<1> QED BY <1>1, <1>2, <1>3 DEF NewBuffer, HoldsPiecesOf, BufferType

LEMMA StoreHolds ==
  ASSUME Numbered, NEW m \in 1 .. Len(sent), NEW c, PieceOf(c, m), c.count > 1,
         NEW old, HoldsPiecesOf(old, m)
  PROVE  /\ HoldsPiecesOf(Store(old, c), m)
         /\ Store(old, c).mask = old.mask \cup {c.number}
         /\ Store(old, c).count = old.count /\ DOMAIN Store(old, c).buf = DOMAIN old.buf
<1>0. sent[m] \in SentType /\ m \in Nat
  BY DEF Numbered
<1>1. /\ c.count = sent[m].count /\ c.count \in Nat /\ c.msg = m /\ m \in Nat
      /\ c.number \in 0 .. (c.count - 1) /\ c.number \in Nat
  BY <1>0 DEF SentType, PieceOf
<1>2. /\ old \in BufferType /\ old.count = c.count
      /\ old.buf \in [0 .. (c.count - 1) -> Nat \X Nat]
      /\ old.mask \subseteq 0 .. (c.count - 1)
      /\ \A i \in old.mask : old.buf[i] = <<m, i>>
  BY <1>1 DEF HoldsPiecesOf
<1>3. CASE c.number \in old.mask
  <2>1. Store(old, c) = old
    BY <1>3 DEF Store
  <2> QED BY <1>3, <2>1
<1>4. CASE c.number \notin old.mask
  <2> DEFINE buf == [old.buf EXCEPT ![c.number] = <<c.msg, c.number>>]
             b   == Store(old, c)
  <2>1. c.number \in DOMAIN old.buf
    BY <1>1, <1>2
  <2>2. b = [old EXCEPT !.mask = @ \cup {c.number}, !.buf[c.number] = <<c.msg, c.number>>]
    BY <1>4, <2>1 DEF Store
  <2>3. /\ DOMAIN old = {"count", "mask", "buf"}
        /\ old.count \in Nat /\ old.mask \in SUBSET Nat
    BY <1>2 DEF BufferType
  <2>4. /\ b.count = old.count /\ b.mask = old.mask \cup {c.number} /\ b.buf = buf
    BY <1>2, <2>2 DEF BufferType
  <2>5. /\ buf \in [0 .. (c.count - 1) -> Nat \X Nat]
        /\ buf[c.number] = <<m, c.number>>
        /\ \A i \in 0 .. (c.count - 1) : i # c.number => buf[i] = old.buf[i]
        /\ DOMAIN buf = 0 .. (c.count - 1)
    BY <1>1, <1>2
  <2> HIDE DEF buf
  <2>6. buf \in Data
    BY <1>1, <2>5 DEF Data
  <2>7. b \in BufferType
    BY <1>1, <2>2, <2>3, <2>4, <2>6, <1>2 DEF BufferType, buf
  <2> HIDE DEF b
  <2>8. b.mask \subseteq 0 .. (b.count - 1) /\ \A i \in b.mask : b.buf[i] = <<m, i>>
    BY <1>1, <1>2, <2>4, <2>5
  <2>9. HoldsPiecesOf(b, m)
    BY <1>1, <1>2, <2>4, <2>5, <2>7, <2>8 DEF HoldsPiecesOf
  <2> QED BY <1>2, <2>4, <2>5, <2>9 DEF b
<1> QED BY <1>3, <1>4

\* When every fragment is marked, the buffer is the payload of its message.
LEMMA FullIsWhole ==
  ASSUME Numbered, NEW m \in 1 .. Len(sent), NEW b, HoldsPiecesOf(b, m),
         Cardinality(b.mask) = b.count
  PROVE  b.buf = Payload(m, sent[m].count)
<1>1. /\ b.count = sent[m].count /\ b.count \in Nat /\ b.count > 1
      /\ b.buf \in [0 .. (b.count - 1) -> Nat \X Nat]
      /\ b.mask \in SUBSET (0 .. (b.count - 1))
      /\ \A i \in b.mask : b.buf[i] = <<m, i>>
  BY DEF HoldsPiecesOf, BufferType
<1>2. 0 \in Int /\ b.count - 1 \in Int
  BY <1>1
<1>3. IsFiniteSet(0 .. (b.count - 1)) /\ Cardinality(0 .. (b.count - 1)) = b.count
  <2>1. Cardinality(0 .. (b.count - 1)) = IF 0 > b.count - 1 THEN 0 ELSE (b.count - 1) - 0 + 1
    BY <1>2, FS_Interval
  <2>2. IsFiniteSet(0 .. (b.count - 1))
    BY <1>2, FS_Interval
  <2> QED BY <1>1, <2>1, <2>2
<1>4. 0 .. (b.count - 1) = b.mask
  BY <1>1, <1>3, FS_Subset
<1> QED BY <1>1, <1>4 DEF Payload

----------------------------------------------------------------------------
(* Every step keeps the invariant.                                          *)

\* What a received command is: a piece of a message that has been sent.
LEMMA CommandFacts ==
  ASSUME Numbered, Carried, NEW c \in net
  PROVE  /\ c.msg \in 1 .. Len(sent) /\ PieceOf(c, c.msg) /\ sent[c.msg] \in SentType
         /\ c.msg \in SentBy(c.mode) /\ c.mode \in Modes /\ c.count \in Nat \ {0}
         /\ c.start = sent[c.msg].start /\ c.count = sent[c.msg].count
<1>1. PieceOf(c, c.msg) /\ c.msg \in 1 .. Len(sent)
  BY DEF Carried, PieceOf
<1>2. sent[c.msg] \in SentType
  BY <1>1 DEF Numbered
<1> QED BY <1>1, <1>2 DEF PieceOf, SentBy, SentType

\* The receiver leaves the sender alone.
LEMMA SenderFrame ==
  ASSUME Numbered, Carried, NEW c \in net, UNCHANGED senderVars,
         acked' = acked \/ Acknowledge(c)
  PROVE  Numbered' /\ Carried'
<1>1. UNCHANGED <<sent, outgoing_reliable_seq, outgoing_unreliable_seq, net>>
  BY DEF senderVars
<1>2. acked' \subseteq net'
  BY <1>1 DEF Carried, Acknowledge
<1> QED BY <1>1, <1>2 DEF Numbered, Carried, PieceOf, Mixed

LEMMA BufferFrame ==
  ASSUME Buffered, UNCHANGED <<sent, fragment_buffers, fragment_bytes_in_flight>>
  PROVE  Buffered'
<1>1. Reserved' = Reserved
  BY DEF Reserved
<1> QED BY <1>1 DEF Buffered, BudgetExact, HoldsPiecesOf

LEMMA DeliveryFrame ==
  ASSUME Queued, Passed, Latest,
         UNCHANGED <<sent, outgoing_reliable_seq, outgoing_unreliable_seq, delivered,
                     incoming_reliable_seq, incoming_reliable_queue, incoming_unreliable_seq>>
  PROVE  Queued' /\ Passed' /\ Latest'
  BY ZenonT(40) DEF Queued, Passed, Latest, UnreliableOrder, Delivered, SentBy, WholeOf, MessageOf

\* The buffer that on_fragment works on, before and after it stores the piece.
Before(c) == IF c.start \notin DOMAIN fragment_buffers THEN NewBuffer(c)
             ELSE fragment_buffers[c.start]
After(c) == Store(Before(c), c)

\* It is a buffer of the message of c, because no other fragmented message has
\* that first number.
LEMMA BufferOfMessage ==
  ASSUME IndInv, NoClash, NEW c \in net, c.count > 1
  PROVE  /\ HoldsPiecesOf(Before(c), c.msg) /\ HoldsPiecesOf(After(c), c.msg)
         /\ After(c).mask = Before(c).mask \cup {c.number}
         /\ DOMAIN After(c).buf = DOMAIN Before(c).buf
         /\ DOMAIN Before(c).buf = 0 .. (c.count - 1)
         /\ c.start \notin DOMAIN fragment_buffers => Before(c).mask = {}
<1>1. /\ c.msg \in 1 .. Len(sent) /\ PieceOf(c, c.msg) /\ Numbered
      /\ c.start = sent[c.msg].start /\ c.count = sent[c.msg].count
  BY CommandFacts DEF IndInv
<1>2. ASSUME c.start \notin DOMAIN fragment_buffers
      PROVE  HoldsPiecesOf(Before(c), c.msg) /\ Before(c).mask = {}
  BY <1>1, <1>2, NewHolds DEF Before
<1>3. ASSUME c.start \in DOMAIN fragment_buffers
      PROVE  HoldsPiecesOf(Before(c), c.msg)
  <2>1. PICK k \in 1 .. Len(sent) :
          sent[k].start = c.start /\ HoldsPiecesOf(fragment_buffers[c.start], k)
    BY <1>3 DEF IndInv, Buffered
  <2>2. sent[k].count > 1
    BY <2>1 DEF HoldsPiecesOf
  <2>3. k = c.msg
    BY <1>1, <2>1, <2>2 DEF NoClash
  <2> QED BY <1>3, <2>1, <2>3 DEF Before
<1>4. HoldsPiecesOf(Before(c), c.msg) /\ (c.start \notin DOMAIN fragment_buffers => Before(c).mask = {})
  BY <1>2, <1>3
<1>5. /\ HoldsPiecesOf(After(c), c.msg) /\ After(c).mask = Before(c).mask \cup {c.number}
      /\ DOMAIN After(c).buf = DOMAIN Before(c).buf
  BY <1>1, <1>4, StoreHolds DEF After
<1>6. DOMAIN Before(c).buf = 0 .. (c.count - 1)
  BY <1>1, <1>4 DEF HoldsPiecesOf
<1> QED BY <1>4, <1>5, <1>6

\* A piece is stored and its message is not complete.
LEMMA KeepStep ==
  ASSUME IndInv, NoClash, NEW c \in net, c.count > 1, Admitted(c),
         UNCHANGED sent,
         fragment_buffers' = Put(fragment_buffers, c.start, After(c)),
         fragment_bytes_in_flight' = fragment_bytes_in_flight +
           (IF c.start \notin DOMAIN fragment_buffers THEN c.count ELSE 0)
  PROVE  Buffered'
<1> DEFINE s == c.start
           D == DOMAIN fragment_buffers
<1>1. /\ HoldsPiecesOf(After(c), c.msg) /\ DOMAIN After(c).buf = DOMAIN Before(c).buf
      /\ DOMAIN Before(c).buf = 0 .. (c.count - 1)
  BY BufferOfMessage
<1>2. /\ c.msg \in 1 .. Len(sent) /\ s = sent[c.msg].start /\ c.count \in Nat
  BY CommandFacts DEF IndInv
<1>3. /\ IsFiniteSet(D) /\ Cardinality(D) <= MaxBuffers /\ IsFiniteSet(Reserved)
      /\ fragment_bytes_in_flight = Cardinality(Reserved)
      /\ fragment_bytes_in_flight <= MaxBytes
  BY DEF IndInv, Buffered, BudgetExact
<1>4. /\ DOMAIN fragment_buffers' = D \cup {s} /\ fragment_buffers'[s] = After(c)
      /\ \A x \in D : x # s => fragment_buffers'[x] = fragment_buffers[x]
  BY DEF Put
<1>5. /\ IsFiniteSet(D \cup {s})
      /\ Cardinality(D \cup {s}) = IF s \in D THEN Cardinality(D) ELSE Cardinality(D) + 1
  BY <1>3, FS_AddElement
<1>6. Cardinality(D) \in Nat /\ Cardinality(Reserved) \in Nat /\ MaxBuffers \in Nat
  BY <1>3, FS_CardinalityType, FragmentAssumption
<1>7. Cardinality(D \cup {s}) <= MaxBuffers
  BY <1>3, <1>5, <1>6 DEF Admitted
<1>8. ASSUME NEW x \in DOMAIN fragment_buffers'
      PROVE  \E m \in 1 .. Len(sent) : sent[m].start = x /\ HoldsPiecesOf(fragment_buffers'[x], m)
  <2>1. CASE x = s
    BY <1>1, <1>2, <1>4, <2>1
  <2>2. CASE x # s
    <3>1. x \in D /\ fragment_buffers'[x] = fragment_buffers[x]
      BY <1>4, <2>2
    <3> QED BY <3>1 DEF IndInv, Buffered
  <2> QED BY <2>1, <2>2
<1>9. IsFiniteSet(Reserved') /\ BudgetExact'
  <2>1. CASE s \notin D
    <3>1. IsFiniteSet(Reserved') /\ Cardinality(Reserved') = Cardinality(Reserved) + c.count
      BY <1>1, <1>2, <1>3, <2>1, OpenShare
    <3>2. fragment_bytes_in_flight' = fragment_bytes_in_flight + c.count
          /\ fragment_bytes_in_flight + c.count <= MaxBytes
      BY <2>1 DEF Admitted
    <3> QED BY <1>3, <3>1, <3>2 DEF BudgetExact
  <2>2. CASE s \in D
    <3>1. Reserved' = Reserved
      <4>1. DOMAIN After(c).buf = DOMAIN fragment_buffers[s].buf
        BY <1>1, <2>2 DEF Before
      <4> QED BY <2>2, <4>1, StoreShare
    <3>2. fragment_bytes_in_flight' = fragment_bytes_in_flight
      BY <1>3, <1>6, <2>2
    <3> QED BY <1>3, <3>1, <3>2 DEF BudgetExact
  <2> QED BY <2>1, <2>2
<1>10. \A x \in DOMAIN fragment_buffers' :
         \E m \in 1 .. Len(sent)' : (sent[m].start = x /\ HoldsPiecesOf(fragment_buffers[x], m))'
  BY <1>8 DEF HoldsPiecesOf
<1> QED BY <1>4, <1>5, <1>7, <1>9, <1>10 DEF Buffered

\* The piece completes its message: there was a buffer, its share is given back
\* and what it held is the whole message.
LEMMA CompleteStep ==
  ASSUME IndInv, NoClash, NEW c \in net, c.count > 1,
         UNCHANGED sent, Cardinality(After(c).mask) = After(c).count,
         fragment_buffers' = Drop(fragment_buffers, {c.start}),
         fragment_bytes_in_flight' =
           Freed(fragment_bytes_in_flight +
                   (IF c.start \notin DOMAIN fragment_buffers THEN c.count ELSE 0), c)
  PROVE  Buffered' /\ WholeOf(After(c).buf, c.msg, c.mode)
<1> DEFINE s == c.start
           D == DOMAIN fragment_buffers
<1>1. /\ HoldsPiecesOf(After(c), c.msg) /\ After(c).mask = Before(c).mask \cup {c.number}
      /\ DOMAIN Before(c).buf = 0 .. (c.count - 1)
      /\ s \notin D => Before(c).mask = {}
  BY BufferOfMessage
<1>2. /\ c.msg \in 1 .. Len(sent) /\ s = sent[c.msg].start /\ c.count \in Nat
      /\ c.count = sent[c.msg].count /\ c.msg \in SentBy(c.mode)
  BY CommandFacts DEF IndInv
<1>3. /\ IsFiniteSet(D) /\ Cardinality(D) <= MaxBuffers /\ IsFiniteSet(Reserved)
      /\ fragment_bytes_in_flight = Cardinality(Reserved)
      /\ fragment_bytes_in_flight <= MaxBytes
  BY DEF IndInv, Buffered, BudgetExact
<1>4. After(c).count = c.count
  BY <1>1, <1>2 DEF HoldsPiecesOf
<1>5. s \in D
  <2> SUFFICES ASSUME s \notin D PROVE FALSE
    OBVIOUS
  <2>1. After(c).mask = {c.number}
    BY <1>1
  <2>2. Cardinality({c.number}) = 1
    BY FS_Singleton
  <2> QED BY <1>2, <1>4, <2>1, <2>2
<1>6. WholeOf(After(c).buf, c.msg, c.mode)
  <2>1. After(c).buf = Payload(c.msg, sent[c.msg].count)
    BY <1>1, <1>2, FullIsWhole DEF IndInv
  <2> QED BY <1>2, <2>1 DEF WholeOf
<1>7. /\ DOMAIN fragment_buffers' = D \ {s}
      /\ \A x \in DOMAIN fragment_buffers' : x \in D /\ fragment_buffers'[x] = fragment_buffers[x]
  BY DEF Drop
<1>8. /\ IsFiniteSet(D \ {s})
      /\ Cardinality(D \ {s}) = IF s \in D THEN Cardinality(D) - 1 ELSE Cardinality(D)
  BY <1>3, FS_RemoveElement
<1>9. Cardinality(D) \in Nat /\ Cardinality(Reserved) \in Nat /\ MaxBuffers \in Nat /\ MaxBytes \in Nat
  BY <1>3, FS_CardinalityType, FragmentAssumption
<1>10. Cardinality(D \ {s}) <= MaxBuffers
  BY <1>3, <1>5, <1>8, <1>9
<1>11. \A x \in DOMAIN fragment_buffers' :
         \E m \in 1 .. Len(sent)' : (sent[m].start = x /\ HoldsPiecesOf(fragment_buffers[x], m))'
  <2> TAKE x \in DOMAIN fragment_buffers'
  <2>1. PICK m \in 1 .. Len(sent) :
          sent[m].start = x /\ HoldsPiecesOf(fragment_buffers[x], m)
    BY <1>7 DEF IndInv, Buffered
  <2>2. HoldsPiecesOf(fragment_buffers[x], m)'
    BY <1>7, <2>1 DEF HoldsPiecesOf
  <2> QED BY <2>1, <2>2
<1>12. /\ IsFiniteSet(Reserved') /\ Cardinality(Reserved) >= c.count
       /\ Cardinality(Reserved') = Cardinality(Reserved) - c.count
  <2>1. DOMAIN fragment_buffers[s].buf = 0 .. (c.count - 1)
    BY <1>1, <1>5 DEF Before
  <2> QED BY <1>2, <1>3, <1>5, <2>1, CloseShare
<1>13. fragment_bytes_in_flight' = fragment_bytes_in_flight - c.count
  <2>1. fragment_bytes_in_flight' = Freed(fragment_bytes_in_flight + 0, c)
    BY <1>5
  <2> QED BY <1>2, <1>3, <1>9, <1>12, <2>1 DEF Freed
<1>14. BudgetExact'
  BY <1>2, <1>3, <1>9, <1>12, <1>13 DEF BudgetExact
<1> QED BY <1>6, <1>7, <1>8, <1>10, <1>11, <1>12, <1>14 DEF Buffered

\* send_packet.
LEMMA SendKeeps ==
  ASSUME IndInv, NEW n \in 1 .. MaxFragments, SendReliable(n) \/ SendUnreliable(n)
  PROVE  IndInv'
<1>1. /\ outgoing_reliable_seq \in Nat /\ outgoing_unreliable_seq \in Nat
      /\ n \in Nat \ {0} /\ MaxFragments \in Nat /\ 0 .. (n - 1) \subseteq Int
  BY FragmentAssumption DEF IndInv, Numbered
<1>2. CASE SendReliable(n)
  <2> DEFINE x == [mode |-> "reliable", start |-> outgoing_reliable_seq + 1, count |-> n,
                   epoch |-> outgoing_reliable_seq]
             C(i) == Command(Len(sent) + 1, "reliable", outgoing_reliable_seq + 1,
                             outgoing_reliable_seq + 1 + i, n, i)
  <2>1. /\ x \in SentType /\ x.mode = "reliable" /\ x.start = outgoing_reliable_seq + 1
        /\ x.count = n /\ x.epoch = outgoing_reliable_seq
    BY <1>1 DEF SentType, Modes
  <2>2. sent' = Append(sent, x) /\ Mixed(sent)' /\ net' = net \cup {C(i) : i \in 0 .. (n - 1)}
    BY <1>2 DEF SendReliable
  <2>3. /\ outgoing_reliable_seq' = outgoing_reliable_seq + n
        /\ outgoing_unreliable_seq' = outgoing_unreliable_seq /\ UNCHANGED receiverVars
    BY <1>2 DEF SendReliable
  <2>4. \A i \in 0 .. (n - 1) : /\ C(i).msg = Len(sent) + 1 /\ C(i).mode = "reliable"
                                /\ C(i).start = outgoing_reliable_seq + 1 /\ C(i).count = n
                                /\ C(i).number \in 0 .. (n - 1)
    BY DEF Command
  <2> HIDE DEF x, C
  <2>5. \A c \in net' : c \in net \/ (/\ c.msg = Len(sent) + 1 /\ c.mode = x.mode
                                      /\ c.start = x.start /\ c.count = x.count
                                      /\ c.number \in 0 .. (x.count - 1)
                                      /\ c.mode = "unreliable" => c.reliable_seq = x.epoch)
    BY <2>1, <2>2, <2>4
  <2>6. net \subseteq net' /\ Mixed(sent')
    BY <2>2 DEF Mixed
  <2> QED BY <2>1, <2>2, <2>3, <2>5, <2>6, SendStep
<1>3. CASE SendUnreliable(n)
  <2> DEFINE x == [mode |-> "unreliable", start |-> outgoing_unreliable_seq + 1, count |-> n,
                   epoch |-> outgoing_reliable_seq]
             C(i) == Command(Len(sent) + 1, "unreliable", outgoing_unreliable_seq + 1,
                             outgoing_reliable_seq, n, i)
  <2>1. /\ x \in SentType /\ x.mode = "unreliable" /\ x.start = outgoing_unreliable_seq + 1
        /\ x.count = n /\ x.epoch = outgoing_reliable_seq
    BY <1>1 DEF SentType, Modes
  <2>2. sent' = Append(sent, x) /\ Mixed(sent)' /\ net' = net \cup {C(i) : i \in 0 .. (n - 1)}
    BY <1>3 DEF SendUnreliable
  <2>3. /\ outgoing_unreliable_seq' = outgoing_unreliable_seq + 1
        /\ outgoing_reliable_seq' = outgoing_reliable_seq /\ UNCHANGED receiverVars
    BY <1>3 DEF SendUnreliable
  <2>4. \A i \in 0 .. (n - 1) : /\ C(i).msg = Len(sent) + 1 /\ C(i).mode = "unreliable"
                                /\ C(i).start = outgoing_unreliable_seq + 1 /\ C(i).count = n
                                /\ C(i).number \in 0 .. (n - 1)
                                /\ C(i).reliable_seq = outgoing_reliable_seq
    BY DEF Command
  <2> HIDE DEF x, C
  <2>5. \A c \in net' : c \in net \/ (/\ c.msg = Len(sent) + 1 /\ c.mode = x.mode
                                      /\ c.start = x.start /\ c.count = x.count
                                      /\ c.number \in 0 .. (x.count - 1)
                                      /\ c.mode = "unreliable" => c.reliable_seq = x.epoch)
    BY <2>1, <2>2, <2>4
  <2>6. net \subseteq net' /\ Mixed(sent')
    BY <2>2 DEF Mixed
  <2> QED BY <2>1, <2>2, <2>3, <2>5, <2>6, SendStep
<1> QED BY <1>2, <1>3

\* on_command, CMD_SEND_RELIABLE.
LEMMA RecvReliableKeeps ==
  ASSUME IndInv, NEW c \in net, RecvReliable(c)
  PROVE  IndInv' /\ \E r : Ahead(r) /\ CommitReliable(r)
<1>1. /\ c.msg \in SentBy("reliable") /\ c.start = sent[c.msg].start /\ sent[c.msg].count = 1
  BY CommandFacts DEF IndInv, RecvReliable
<1>2. WholeOf(Payload(c.msg, 1), c.msg, "reliable")
  BY <1>1 DEF WholeOf
<1> DEFINE r == ReceiveReliable(c.start, Payload(c.msg, 1))
<1>3. Ahead(r)
  BY <1>1, <1>2, ReceiveAhead DEF IndInv
<1>4. CommitReliable(r) /\ UNCHANGED senderVars /\ Acknowledge(c)
      /\ UNCHANGED <<fragment_buffers, fragment_bytes_in_flight>>
  BY DEF RecvReliable
<1> HIDE DEF r
<1>5. UNCHANGED <<sent, outgoing_reliable_seq, outgoing_unreliable_seq>>
  BY <1>4 DEF senderVars
<1>6. Numbered' /\ Carried'
  BY <1>4, SenderFrame DEF IndInv
<1>7. Buffered'
  BY <1>4, <1>5, BufferFrame DEF IndInv
<1>8. Queued' /\ Passed' /\ Latest'
  BY <1>3, <1>4, <1>5, CommitStep DEF IndInv
<1> QED BY <1>3, <1>4, <1>6, <1>7, <1>8 DEF IndInv

\* on_command, CMD_SEND_UNRELIABLE.
LEMMA RecvUnreliableKeeps ==
  ASSUME IndInv, NEW c \in net, RecvUnreliable(c)
  PROVE  IndInv'
<1>1. /\ c.msg \in SentBy("unreliable") /\ c.start = sent[c.msg].start /\ sent[c.msg].count = 1
  BY CommandFacts DEF IndInv, RecvUnreliable
<1>2. WholeOf(Payload(c.msg, 1), c.msg, "unreliable")
  BY <1>1 DEF WholeOf
<1>4. ReceiveUnreliable(c.start, Payload(c.msg, 1)) /\ UNCHANGED senderVars /\ acked' = acked
      /\ UNCHANGED <<fragment_buffers, fragment_bytes_in_flight>>
  BY DEF RecvUnreliable
<1>5. UNCHANGED <<sent, outgoing_reliable_seq, outgoing_unreliable_seq>>
  BY <1>4 DEF senderVars
<1>6. Numbered' /\ Carried'
  BY <1>4, SenderFrame DEF IndInv
<1>7. Buffered'
  BY <1>4, <1>5, BufferFrame DEF IndInv
<1>8. Queued' /\ Passed' /\ Latest'
  BY <1>1, <1>2, <1>4, <1>5, UnreliableStep DEF IndInv
<1> QED BY <1>6, <1>7, <1>8 DEF IndInv

\* on_fragment, in its four outcomes: refused, kept, completed in either mode.
LEMMA FragmentCases ==
  ASSUME IndInv, NoClash, NEW c \in net, RecvFragment(c)
  PROVE  /\ Numbered' /\ Carried' /\ Buffered'
         /\ UNCHANGED <<sent, outgoing_reliable_seq, outgoing_unreliable_seq>>
         /\ \/ UNCHANGED <<delivered, incoming_reliable_seq, incoming_reliable_queue,
                           incoming_unreliable_seq>>
            \/ \E r : Ahead(r) /\ CommitReliable(r)
            \/ \E data : /\ c.mode = "unreliable" /\ c.count > 1
                         /\ WholeOf(data, c.msg, "unreliable")
                         /\ ReceiveUnreliable(c.start, data)
<1>1. /\ c.msg \in SentBy(c.mode) /\ c.mode \in Modes /\ PieceOf(c, c.msg)
      /\ c.start = sent[c.msg].start
  BY CommandFacts DEF IndInv
<1>2. c.count > 1 /\ Acknowledge(c) /\ UNCHANGED senderVars
  BY DEF RecvFragment
<1>3. UNCHANGED <<sent, outgoing_reliable_seq, outgoing_unreliable_seq>>
  BY <1>2 DEF senderVars
<1>4. Numbered' /\ Carried'
  BY <1>2, SenderFrame DEF IndInv
<1> DEFINE new    == c.start \notin DOMAIN fragment_buffers
           bytes  == fragment_bytes_in_flight + (IF new THEN c.count ELSE 0)
           done   == After(c) # Before(c) /\ Cardinality(After(c).mask) = After(c).count
<1>5. \/ UNCHANGED <<fragment_buffers, fragment_bytes_in_flight, delivered,
                     incoming_reliable_seq, incoming_reliable_queue, incoming_unreliable_seq>>
      \/ /\ Admitted(c)
         /\ fragment_buffers' = Put(fragment_buffers, c.start, After(c))
         /\ fragment_bytes_in_flight' = bytes
         /\ UNCHANGED <<delivered, incoming_reliable_seq,
                        incoming_reliable_queue, incoming_unreliable_seq>>
      \/ /\ done
         /\ fragment_buffers' = Drop(fragment_buffers, {c.start})
         /\ fragment_bytes_in_flight' = Freed(bytes, c)
         /\ IF c.mode = "reliable" THEN CompleteReliable(c, After(c).buf)
            ELSE ReceiveUnreliable(c.start, After(c).buf)
  BY Zenon DEF RecvFragment, After, Before
<1>6. CASE UNCHANGED <<fragment_buffers, fragment_bytes_in_flight, delivered,
                       incoming_reliable_seq, incoming_reliable_queue, incoming_unreliable_seq>>
  BY <1>3, <1>4, <1>6, BufferFrame DEF IndInv
<1>7. CASE /\ Admitted(c)
           /\ fragment_buffers' = Put(fragment_buffers, c.start, After(c))
           /\ fragment_bytes_in_flight' = bytes
           /\ UNCHANGED <<delivered, incoming_reliable_seq,
                          incoming_reliable_queue, incoming_unreliable_seq>>
  <2>1. Buffered'
    BY <1>2, <1>3, <1>7, KeepStep
  <2> QED BY <1>3, <1>4, <1>7, <2>1
<1>8. CASE /\ done
           /\ fragment_buffers' = Drop(fragment_buffers, {c.start})
           /\ fragment_bytes_in_flight' = Freed(bytes, c)
           /\ IF c.mode = "reliable" THEN CompleteReliable(c, After(c).buf)
              ELSE ReceiveUnreliable(c.start, After(c).buf)
  <2>1. Buffered' /\ WholeOf(After(c).buf, c.msg, c.mode)
    BY <1>2, <1>3, <1>8, CompleteStep
  <2>2. CASE c.mode = "reliable"
    <3>1. \E r : Ahead(r) /\ CommitReliable(r)
      BY <1>1, <1>2, <1>8, <2>1, <2>2, CompleteAhead DEF IndInv
    <3> QED BY <1>3, <1>4, <2>1, <3>1
  <2>3. CASE c.mode = "unreliable"
    <3>1. ReceiveUnreliable(c.start, After(c).buf)
      BY <1>8, <2>3
    <3> QED BY <1>2, <1>3, <1>4, <2>1, <2>3, <3>1
  <2> QED BY <1>1, <2>2, <2>3 DEF Modes
<1> QED BY <1>5, <1>6, <1>7, <1>8

LEMMA RecvFragmentKeeps ==
  ASSUME IndInv, NoClash, NEW c \in net, RecvFragment(c)
  PROVE  IndInv'
<1>1. /\ Numbered' /\ Carried' /\ Buffered'
      /\ UNCHANGED <<sent, outgoing_reliable_seq, outgoing_unreliable_seq>>
  BY FragmentCases
<1>2. CASE UNCHANGED <<delivered, incoming_reliable_seq, incoming_reliable_queue,
                       incoming_unreliable_seq>>
  BY <1>1, <1>2, DeliveryFrame DEF IndInv
<1>3. CASE \E r : Ahead(r) /\ CommitReliable(r)
  BY <1>1, <1>3, CommitStep DEF IndInv
<1>4. CASE \E data : /\ c.mode = "unreliable" /\ c.count > 1
                     /\ WholeOf(data, c.msg, "unreliable")
                     /\ ReceiveUnreliable(c.start, data)
  <2>1. c.msg \in SentBy("unreliable") /\ c.start = sent[c.msg].start
    BY <1>4, CommandFacts DEF IndInv
  <2>2. Queued' /\ Passed' /\ Latest'
    BY <1>1, <1>4, <2>1, UnreliableStep DEF IndInv
  <2> QED BY <1>1, <2>2 DEF IndInv
<1> QED BY <1>2, <1>3, <1>4, FragmentCases

LEMMA InitHolds == Init => IndInv
<1> SUFFICES ASSUME Init PROVE IndInv
  OBVIOUS
<1>1. DOMAIN fragment_buffers = {} /\ DOMAIN incoming_reliable_queue = {}
  BY DEF Init, Empty
<1>2. IsFiniteSet({}) /\ Cardinality({}) = 0
  BY FS_EmptySet
<1>3. Reserved = {}
  BY <1>1 DEF Reserved
<1>4. Numbered
  BY DEF Init, Numbered
<1>5. Carried
  BY DEF Init, Carried
<1>6. Queued
  BY <1>1, <1>2 DEF Init, Queued
<1>7. Buffered
  BY <1>1, <1>2, <1>3, FragmentAssumption DEF Init, Buffered, BudgetExact
<1>8. Delivered("reliable") = {} /\ Delivered("unreliable") = {} /\ SentBy("reliable") = {}
  BY DEF Init, Delivered, SentBy
<1>9. Passed
  BY <1>8 DEF Init, Passed
<1>10. Latest
  BY <1>8 DEF Init, Latest, UnreliableOrder
<1> QED BY <1>4, <1>5, <1>6, <1>7, <1>9, <1>10 DEF IndInv

\* One step, or none.
LEMMA NextKeeps ==
  ASSUME IndInv, NoClash, [Next]_vars
  PROVE  IndInv'
<1>1. CASE \E n \in 1 .. MaxFragments : SendReliable(n) \/ SendUnreliable(n)
  BY <1>1, SendKeeps
<1>2. CASE \E c \in net : RecvReliable(c) \/ RecvUnreliable(c) \/ RecvFragment(c)
  BY <1>2, RecvReliableKeeps, RecvUnreliableKeeps, RecvFragmentKeeps
<1>3. CASE UNCHANGED vars
  <2>1. UNCHANGED <<sent, outgoing_reliable_seq, outgoing_unreliable_seq, net, acked,
                    incoming_reliable_seq, incoming_reliable_queue, incoming_unreliable_seq,
                    fragment_buffers, fragment_bytes_in_flight, delivered>>
    BY <1>3 DEF vars, senderVars, receiverVars
  <2>2. Numbered' /\ Carried'
    BY <2>1 DEF IndInv, Numbered, Carried, PieceOf, Mixed
  <2> QED BY <2>1, <2>2, BufferFrame, DeliveryFrame DEF IndInv
<1> QED BY <1>1, <1>2, <1>3 DEF Next

----------------------------------------------------------------------------
(* The theorems.                                                            *)

\* The history of what was sent, whatever first numbers clash.
SentTyped ==
  sent \in Seq(SentType) /\ outgoing_reliable_seq \in Nat /\ outgoing_unreliable_seq \in Nat

\* Until first numbers clash, the inductive invariant.
IndUntilClash == SentTyped /\ (NoClash => IndInv)

\* A step sends one message or none.
LEMMA SentGrows ==
  ASSUME SentTyped, [Next]_vars
  PROVE  SentTyped' /\ (sent' = sent \/ \E x \in SentType : sent' = Append(sent, x))
<1>1. ASSUME NEW n \in 1 .. MaxFragments, SendReliable(n)
      PROVE  SentTyped' /\ \E x \in SentType : sent' = Append(sent, x)
  <2> DEFINE x == [mode |-> "reliable", start |-> outgoing_reliable_seq + 1, count |-> n,
                   epoch |-> outgoing_reliable_seq]
  <2>1. n \in Nat \ {0}
    BY FragmentAssumption
  <2>2. x \in SentType
    BY <2>1 DEF SentType, Modes, SentTyped
  <2>3. /\ sent' = Append(sent, x) /\ outgoing_reliable_seq' = outgoing_reliable_seq + n
        /\ outgoing_unreliable_seq' = outgoing_unreliable_seq
    BY <1>1 DEF SendReliable
  <2> HIDE DEF x
  <2>4. sent' \in Seq(SentType)
    BY <2>2, <2>3, AppendProperties DEF SentTyped
  <2> QED BY <2>1, <2>2, <2>3, <2>4 DEF SentTyped
<1>2. ASSUME NEW n \in 1 .. MaxFragments, SendUnreliable(n)
      PROVE  SentTyped' /\ \E x \in SentType : sent' = Append(sent, x)
  <2> DEFINE x == [mode |-> "unreliable", start |-> outgoing_unreliable_seq + 1, count |-> n,
                   epoch |-> outgoing_reliable_seq]
  <2>1. n \in Nat \ {0}
    BY FragmentAssumption
  <2>2. x \in SentType
    BY <2>1 DEF SentType, Modes, SentTyped
  <2>3. /\ sent' = Append(sent, x) /\ outgoing_reliable_seq' = outgoing_reliable_seq
        /\ outgoing_unreliable_seq' = outgoing_unreliable_seq + 1
    BY <1>2 DEF SendUnreliable
  <2> HIDE DEF x
  <2>4. sent' \in Seq(SentType)
    BY <2>2, <2>3, AppendProperties DEF SentTyped
  <2> QED BY <2>2, <2>3, <2>4 DEF SentTyped
<1>3. ASSUME NEW c \in net, RecvReliable(c) \/ RecvUnreliable(c) \/ RecvFragment(c)
      PROVE  UNCHANGED senderVars
  BY <1>3 DEF RecvReliable, RecvUnreliable, RecvFragment
<1>4. UNCHANGED senderVars => SentTyped' /\ sent' = sent
  BY DEF senderVars, SentTyped
<1>5. CASE UNCHANGED vars
  BY <1>4, <1>5 DEF vars
<1> QED BY <1>1, <1>2, <1>3, <1>4, <1>5 DEF Next

\* What was sent stays sent: a clash of first numbers is for good.
LEMMA ClashStays ==
  ASSUME SentTyped, [Next]_vars, NoClash'
  PROVE  NoClash
<1> DEFINE N == Len(sent)
<1>1. sent \in Seq(SentType) /\ N \in Nat
  BY DEF SentTyped
<1>2. ASSUME NEW x \in SentType, sent' = Append(sent, x)
      PROVE  NoClash
  <2>1. /\ Len(sent') = N + 1
        /\ \A i \in 1 .. N : sent'[i] = sent[i]
    BY <1>1, <1>2, AppendProperties
  <2> HIDE DEF N
  <2>2. 1 .. N \subseteq 1 .. (N + 1)
    BY <1>1
  <2> QED BY <2>1, <2>2 DEF NoClash, N
<1>3. CASE sent' = sent
  BY <1>3 DEF NoClash
<1> QED BY <1>2, <1>3, SentGrows

\* Until first numbers clash, the inductive invariant holds.
THEOREM FragmentInvariant == Spec => []IndUntilClash
<1>1. Init => IndUntilClash
  BY InitHolds DEF IndUntilClash, IndInv, Numbered, SentTyped
<1>2. IndUntilClash /\ [Next]_vars => IndUntilClash'
  <2> SUFFICES ASSUME IndUntilClash, [Next]_vars PROVE IndUntilClash'
    OBVIOUS
  <2>1. SentTyped'
    BY SentGrows DEF IndUntilClash
  <2>2. NoClash' => IndInv'
    BY ClashStays, NextKeeps DEF IndUntilClash
  <2> QED BY <2>1, <2>2 DEF IndUntilClash
<1> QED BY <1>1, <1>2, PTL DEF Spec

\* Until first numbers clash, whatever deliver is given is a whole message with every unit in its place,
\* however its fragments were reordered and repeated (FragmentBuffer::receive,
\* on_fragment).
THEOREM DeliveredIntact == Spec => []Intact
<1>1. IndUntilClash => Intact
  BY DEF IndUntilClash, IndInv, Passed, Intact, DeliveredWhole, WholeOf
<1> QED BY <1>1, FragmentInvariant, PTL

\* Until first numbers clash, reliable messages, fragmented or not, are delivered in sending order, each
\* once and none skipped (receive_reliable and the skip of on_fragment).
THEOREM ReliableInOrder == Spec => []ReliablePrefix
<1>1. IndUntilClash => ReliablePrefix
  <2> SUFFICES ASSUME IndInv, NEW j \in Delivered("reliable")
               PROVE  /\ MessageOf(delivered[j]) \in SentBy("reliable")
                      /\ {MessageOf(delivered[i]) : i \in {i \in Delivered("reliable") : i < j}}
                           = {m \in SentBy("reliable") : m < MessageOf(delivered[j])}
    BY DEF IndUntilClash, ReliablePrefix
  <2> DEFINE M(i) == MessageOf(delivered[i])
  <2>1. \A i \in Delivered("reliable") : M(i) \in SentBy("reliable") /\ i \in Nat
    BY DEF IndInv, Passed, WholeOf, Delivered
  <2>2. \A i, k \in Delivered("reliable") : i < k => M(i) < M(k)
    BY DEF IndInv, Passed
  <2>3. ASSUME NEW m \in SentBy("reliable"), m < M(j)
        PROVE  \E i \in Delivered("reliable") : i < j /\ M(i) = m
    <3>1. sent[m].start < sent[M(j)].start /\ sent[m].start \in Nat /\ m \in Nat
      BY <2>1, <2>3, ReliableRanges DEF IndInv
    <3>2. /\ sent[M(j)].start <= incoming_reliable_seq /\ incoming_reliable_seq \in Nat
          /\ sent[M(j)].start \in Nat
      BY <2>1, ReliableRanges DEF IndInv, Passed, Queued, Numbered
    <3>3. PICK i \in Delivered("reliable") : M(i) = m
      BY <3>1, <3>2 DEF IndInv, Passed
    <3>4. M(j) \in Nat
      BY <2>1, ReliableRanges DEF IndInv
    <3>5. i < j
      BY <2>1, <2>2, <2>3, <3>1, <3>3, <3>4
    <3> QED BY <3>3, <3>5
  <2> QED BY <2>1, <2>2, <2>3
<1> QED BY <1>1, FragmentInvariant, PTL

\* Until first numbers clash, the reassembly buffers stay within their limits, and fragment_bytes_in_flight
\* is exactly what they hold (on_fragment).
THEOREM BuffersStayExact == Spec => []BuffersExact
<1>1. IndUntilClash => BuffersExact
  <2> SUFFICES ASSUME IndInv PROVE TypeOK /\ BudgetExact
    BY DEF IndUntilClash, BuffersExact
  <2>1. ASSUME NEW s \in DOMAIN fragment_buffers
        PROVE  fragment_buffers[s].mask \subseteq DOMAIN fragment_buffers[s].buf
    <3>1. PICK m \in 1 .. Len(sent) : HoldsPiecesOf(fragment_buffers[s], m)
      BY DEF IndInv, Buffered
    <3>2. /\ fragment_buffers[s].mask \subseteq 0 .. (fragment_buffers[s].count - 1)
          /\ DOMAIN fragment_buffers[s].buf = 0 .. (fragment_buffers[s].count - 1)
      BY <3>1 DEF HoldsPiecesOf
    <3> QED BY <3>2
  <2>2. TypeOK
    BY <2>1 DEF IndInv, Numbered, Carried, Queued, Buffered, Latest, TypeOK
  <2> QED BY <2>2 DEF IndInv, Buffered
<1> QED BY <1>1, FragmentInvariant, PTL

----------------------------------------------------------------------------
(* Unreliable messages next to reliable ones.                               *)

\* A release appends reliable messages only.
LEMMA CommitInTurn ==
  ASSUME Passed, EpochRespected, NEW r, Ahead(r), CommitReliable(r), sent' = sent
  PROVE  EpochRespected'
<1> DEFINE N == Len(delivered)
           K == Len(r.out)
<1>1. delivered \in Seq(DeliveredType) /\ r.out \in Seq(Data) /\ N \in Nat /\ K \in Nat
  BY DEF Passed, Ahead
<1>2. delivered' = delivered \o [i \in 1 .. K |-> [mode |-> "reliable", data |-> r.out[i]]]
  BY DEF CommitReliable
<1>3. /\ Len(delivered') = N + K
      /\ \A i \in 1 .. N : delivered'[i] = delivered[i]
      /\ \A i \in 1 .. K : delivered'[N + i] = [mode |-> "reliable", data |-> r.out[i]]
  BY <1>1, <1>2, Extended
<1> HIDE DEF N, K
<1>4. ASSUME NEW i \in 1 .. (N + K), i > N PROVE delivered'[i].mode = "reliable"
  <2>1. i - N \in 1 .. K /\ N + (i - N) = i
    BY <1>1, <1>4
  <2>2. delivered'[N + (i - N)] = [mode |-> "reliable", data |-> r.out[i - N]]
    BY <1>3, <2>1
  <2> QED BY <2>1, <2>2
<1>5. ASSUME NEW i \in Delivered("reliable")', NEW j \in Delivered("unreliable")', i < j,
             sent[MessageOf(delivered'[j])].count = 1
      PROVE  MessageOf(delivered[i])' < MessageOf(delivered[j])'
  <2>1. /\ i \in 1 .. N + K /\ delivered'[i].mode = "reliable"
        /\ j \in 1 .. N + K /\ delivered'[j].mode = "unreliable"
    BY <1>3 DEF Delivered
  <2>2. ~ (j > N)
    BY <1>4, <2>1
  <2>3. i \in 1 .. N /\ j \in 1 .. N
    BY <1>1, <1>5, <2>1, <2>2
  <2>4. delivered'[i] = delivered[i] /\ delivered'[j] = delivered[j]
    BY <1>3, <2>3
  <2>5. i \in Delivered("reliable") /\ j \in Delivered("unreliable")
    BY <2>1, <2>3, <2>4 DEF Delivered, N
  <2> QED BY <1>5, <2>4, <2>5 DEF EpochRespected, InEpoch, MessageOf
<1> QED BY <1>5 DEF EpochRespected, InEpoch, MessageOf

\* An unreliable message that is delivered comes after every reliable message
\* delivered before it.
LEMMA AppendInTurn ==
  ASSUME Passed, EpochRespected, Numbered, NEW m \in SentBy("unreliable"), NEW data,
         WholeOf(data, m, "unreliable"), ReceiveUnreliable(sent[m].start, data),
         sent[m].count = 1 => \A i \in Delivered("reliable") : MessageOf(delivered[i]) < m,
         sent' = sent
  PROVE  EpochRespected'
<1>1. CASE delivered' = delivered
  BY <1>1 DEF EpochRespected, InEpoch, Delivered, MessageOf
<1>2. CASE delivered' = Append(delivered, [mode |-> "unreliable", data |-> data])
  <2> DEFINE N == Len(delivered)
             e == [mode |-> "unreliable", data |-> data]
  <2>1. e \in DeliveredType /\ MessageOf(e) = m /\ e.mode = "unreliable"
    BY WholeFacts DEF Modes
  <2>2. delivered' = Append(delivered, e)
    BY <1>2
  <2> HIDE DEF e
  <2>3. N \in Nat /\ delivered \in Seq(DeliveredType)
    BY DEF Passed
  <2>4. /\ Len(delivered') = N + 1 /\ delivered'[N + 1] = e
        /\ \A i \in 1 .. N : delivered'[i] = delivered[i]
    BY <2>1, <2>2, <2>3, AppendProperties
  <2> HIDE DEF N
  <2>5. ASSUME NEW i \in Delivered("reliable")', NEW j \in Delivered("unreliable")', i < j,
               sent[MessageOf(delivered'[j])].count = 1
        PROVE  MessageOf(delivered[i])' < MessageOf(delivered[j])'
    <3>1. /\ i \in 1 .. N + 1 /\ delivered'[i].mode = "reliable"
          /\ j \in 1 .. N + 1 /\ delivered'[j].mode = "unreliable"
      BY <2>4 DEF Delivered
    <3>2. i \in 1 .. N
      BY <2>3, <2>5, <3>1
    <3>3. delivered'[i] = delivered[i] /\ i \in Delivered("reliable")
      BY <2>4, <3>1, <3>2 DEF Delivered, N
    <3>4. CASE j \in 1 .. N
      <4>1. delivered'[j] = delivered[j] /\ j \in Delivered("unreliable")
        BY <2>4, <3>1, <3>4 DEF Delivered, N
      <4> QED BY <2>5, <3>3, <4>1 DEF EpochRespected, InEpoch, MessageOf
    <3>5. CASE j = N + 1
      <4>1. delivered'[j] = e
        BY <2>4, <3>5
      <4> QED BY <2>1, <2>5, <3>3, <4>1 DEF MessageOf
    <3> QED BY <2>3, <3>1, <3>4, <3>5
  <2> QED BY <2>5 DEF EpochRespected, InEpoch, MessageOf
<1> QED BY <1>1, <1>2 DEF ReceiveUnreliable

\* The epoch check: whatever reliable message was delivered was sent before.
LEMMA EpochOrder ==
  ASSUME IndInv, NEW c \in net, c.mode = "unreliable", c.reliable_seq >= incoming_reliable_seq,
         NEW i \in Delivered("reliable")
  PROVE  MessageOf(delivered[i]) < c.msg
<1> DEFINE a == MessageOf(delivered[i])
           m == c.msg
<1>1. /\ a \in SentBy("reliable") /\ sent[a].start <= incoming_reliable_seq
  BY DEF IndInv, Passed, WholeOf, Delivered
<1>2. m \in 1 .. Len(sent) /\ c.reliable_seq = sent[m].epoch /\ sent[m].mode = "unreliable"
  BY DEF IndInv, Carried, PieceOf
<1>3. /\ a \in 1 .. Len(sent) /\ sent[a].mode = "reliable" /\ sent[a].start = sent[a].epoch + 1
      /\ Len(sent) \in Nat /\ sent[a] \in SentType /\ sent[m] \in SentType
      /\ incoming_reliable_seq \in Nat
  BY <1>1, <1>2 DEF SentBy, IndInv, Numbered, Queued
<1>4. sent[a].epoch \in Nat /\ sent[m].epoch \in Nat
  BY <1>3 DEF SentType
<1>5. m < a => sent[m].epoch <= sent[a].epoch
  BY <1>2, <1>3 DEF IndInv, Numbered
<1>6. m # a
  BY <1>2, <1>3
<1> HIDE DEF a
<1>7. a < m
  BY <1>1, <1>2, <1>3, <1>4, <1>5, <1>6
<1> QED BY <1>7 DEF a

LEMMA NextInTurn ==
  ASSUME IndInv, NoClash, EpochRespected, [Next]_vars
  PROVE  EpochRespected'
<1>1. CASE delivered' = delivered /\ sent' = sent
  BY <1>1 DEF EpochRespected, InEpoch, Delivered, MessageOf
<1>2. ASSUME NEW n \in 1 .. MaxFragments, SendReliable(n) \/ SendUnreliable(n)
      PROVE  EpochRespected'
  <2>1. delivered' = delivered
    BY <1>2 DEF SendReliable, SendUnreliable, receiverVars
  <2>2. ASSUME NEW j \in Delivered("unreliable")
        PROVE  sent'[MessageOf(delivered[j])] = sent[MessageOf(delivered[j])]
    <3>1. MessageOf(delivered[j]) \in 1 .. Len(sent)
      BY <2>2 DEF IndInv, Passed, WholeOf, Delivered, SentBy
    <3>2. SentTyped
      BY DEF IndInv, Numbered, SentTyped
    <3>3. sent' = sent \/ \E x \in SentType : sent' = Append(sent, x)
      BY <3>2, SentGrows
    <3> QED BY <3>1, <3>2, <3>3, AppendProperties DEF SentTyped
  <2> QED BY <2>1, <2>2 DEF EpochRespected, InEpoch, Delivered, MessageOf
<1>3. ASSUME NEW c \in net, RecvReliable(c) PROVE EpochRespected'
  <2>1. sent' = sent
    BY <1>3 DEF RecvReliable, senderVars
  <2> QED BY <1>3, <2>1, RecvReliableKeeps, CommitInTurn DEF IndInv
<1>4. ASSUME NEW c \in net, RecvUnreliable(c) PROVE EpochRespected'
  <2>1. /\ c.mode = "unreliable" /\ c.count = 1 /\ c.reliable_seq >= incoming_reliable_seq
        /\ ReceiveUnreliable(c.start, Payload(c.msg, 1)) /\ sent' = sent
    BY <1>4 DEF RecvUnreliable, senderVars
  <2>2. /\ c.msg \in SentBy("unreliable") /\ c.start = sent[c.msg].start /\ sent[c.msg].count = 1
    BY <2>1, CommandFacts DEF IndInv
  <2>3. WholeOf(Payload(c.msg, 1), c.msg, "unreliable")
    BY <2>2 DEF WholeOf
  <2>4. \A i \in Delivered("reliable") : MessageOf(delivered[i]) < c.msg
    BY <2>1, EpochOrder
  <2> QED BY <2>1, <2>2, <2>3, <2>4, AppendInTurn DEF IndInv
<1>5. ASSUME NEW c \in net, RecvFragment(c) PROVE EpochRespected'
  <2>1. sent' = sent
    BY <1>5 DEF RecvFragment, senderVars
  <2>2. CASE \E r : Ahead(r) /\ CommitReliable(r)
    BY <2>1, <2>2, CommitInTurn DEF IndInv
  <2>3. CASE \E data : /\ c.mode = "unreliable" /\ c.count > 1
                       /\ WholeOf(data, c.msg, "unreliable")
                       /\ ReceiveUnreliable(c.start, data)
    <3>1. /\ c.msg \in SentBy("unreliable") /\ c.start = sent[c.msg].start
          /\ sent[c.msg].count > 1
      BY <2>3, CommandFacts DEF IndInv
    <3>2. sent[c.msg].count # 1
      BY <3>1
    <3> QED BY <2>1, <2>3, <3>1, <3>2, AppendInTurn DEF IndInv
  <2> QED BY <1>1, <1>5, <2>1, <2>2, <2>3, FragmentCases
<1>6. CASE UNCHANGED vars
  BY <1>1, <1>6 DEF vars, senderVars, receiverVars
<1> QED BY <1>2, <1>3, <1>4, <1>5, <1>6 DEF Next

\* Until first numbers clash, messages sent whole respect the epoch.
InTurnUntilClash == NoClash => EpochRespected

\* Until first numbers clash, unreliable messages are delivered in sending
\* order, at most once, and, if they were sent whole, never after a reliable
\* message that was sent later (receive_unreliable and the epoch check of
\* CMD_SEND_UNRELIABLE).
THEOREM UnreliableStaysInTurn == Spec => []UnreliableInTurn
<1>1. Init => InTurnUntilClash
  BY DEF Init, InTurnUntilClash, EpochRespected, Delivered
<1>2. IndUntilClash /\ InTurnUntilClash /\ [Next]_vars => InTurnUntilClash'
  BY ClashStays, NextInTurn DEF IndUntilClash, InTurnUntilClash
<1>3. IndUntilClash /\ InTurnUntilClash => UnreliableInTurn
  BY DEF IndUntilClash, InTurnUntilClash, IndInv, Latest, UnreliableInTurn
<1> QED BY <1>1, <1>2, <1>3, FragmentInvariant, PTL DEF Spec
=============================================================================
