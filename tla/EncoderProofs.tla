---------------------------- MODULE EncoderProofs ----------------------------
(***************************************************************************)
(* Every method of the encoder keeps EncoderInv: its block ranges and its  *)
(* ledger are consistent, for every block tree, configuration and          *)
(* compressor.  The lemmas are about the operators of BatchEncoder alone,  *)
(* so they serve any specification that holds an encoder.                  *)
(*                                                                         *)
(* Four parts: facts about sequences and sets of naturals; the block       *)
(* ranges (QueueInv); the artifact ledger (LedgerInv); and each method as  *)
(* a whole.                                                                *)
(***************************************************************************)
EXTENDS EncoderInvariants, SequenceTheorems, TLAPS

-----------------------------------------------------------------------------
(***************************************************************************)
(* Facts about sequences of arbitrary values and about the greatest and    *)
(* the least element of a set of naturals.  The proofs never look at what  *)
(* the numeric fields of a channel or a frame contain, so a sequence is    *)
(* known by its shape only.                                                *)
(***************************************************************************)

IsSequence(s) == s \in Seq(Range(s))

(* A sequence has a length, and its positions are 1..Len(s). *)
LEMMA SequenceShape ==
    ASSUME NEW s, IsSequence(s)
    PROVE  Len(s) \in Nat /\ DOMAIN s = 1..Len(s)
BY LenProperties DEF IsSequence

(* A member of Seq(S) is a sequence: the queues with a known element type are covered. *)
LEMMA TypedSequence ==
    ASSUME NEW S, NEW s \in Seq(S)
    PROVE  IsSequence(s)
BY SeqOfRange DEF IsSequence

(* The empty queue is a sequence of length 0, and no other sequence is. *)
LEMMA EmptySequence ==
    /\ IsSequence(<<>>) /\ Len(<<>>) = 0
    /\ \A s : IsSequence(s) /\ s # <<>> => Len(s) > 0
BY EmptySeq DEF IsSequence

(* A function on 1..n is a sequence of length n (a map over a queue). *)
LEMMA FunctionIsSequence ==
    ASSUME NEW n \in Nat, NEW f, f = [i \in 1..n |-> f[i]]
    PROVE  IsSequence(f) /\ Len(f) = n
<1>1. f \in [1..n -> Range(f)]
  BY DEF Range
<1>2. f \in Seq(Range(f))
  BY <1>1, SeqDef
<1> QED
  BY <1>1, <1>2, LenProperties DEF IsSequence

(* Append adds one element at the back. *)
LEMMA AppendSequence ==
    ASSUME NEW s, IsSequence(s), NEW x
    PROVE  /\ IsSequence(Append(s, x))
           /\ Len(Append(s, x)) = Len(s) + 1
           /\ \A i \in 1..Len(s) : Append(s, x)[i] = s[i]
           /\ Append(s, x)[Len(s) + 1] = x
<1> DEFINE S == Range(s) \cup {x}
<1>1. s \in Seq(S)
  BY SeqMonotonic DEF IsSequence
<1>2. x \in S
  OBVIOUS
<1> HIDE DEF S
<1>3. Append(s, x) \in Seq(S)
  BY <1>1, <1>2, AppendProperties
<1>4. IsSequence(Append(s, x))
  BY <1>3, SeqOfRange, Zenon DEF IsSequence
<1> QED
  BY <1>1, <1>2, <1>4, AppendProperties

(* SubSeq keeps the elements between two positions. *)
LEMMA SubSeqSequence ==
    ASSUME NEW s, IsSequence(s), NEW m \in 1..(Len(s) + 1), NEW n \in (m - 1)..Len(s)
    PROVE  /\ IsSequence(SubSeq(s, m, n))
           /\ Len(SubSeq(s, m, n)) = n - m + 1
           /\ \A i \in 1..(n - m + 1) : SubSeq(s, m, n)[i] = s[m + i - 1]
<1>1. Len(s) \in Nat /\ m \in Int /\ n \in Int
  BY SequenceShape
<1>2. \A i \in m..n : s[i] \in Range(s)
  BY <1>1, SequenceShape DEF Range
<1>3. SubSeq(s, m, n) \in Seq(Range(s))
  BY <1>1, <1>2, SubSeqProperties
<1>4. Len(SubSeq(s, m, n)) = IF m <= n THEN n - m + 1 ELSE 0
  BY <1>1, <1>2, SubSeqProperties
<1>5. \A i \in 1..(n - m + 1) : SubSeq(s, m, n)[i] = s[m + i - 1]
  BY <1>1, <1>2, SubSeqProperties
<1>6. IsSequence(SubSeq(s, m, n))
  BY <1>3, SeqOfRange, Zenon DEF IsSequence
<1>7. Len(SubSeq(s, m, n)) = n - m + 1
  BY <1>1, <1>4
<1> QED
  BY <1>5, <1>6, <1>7

-----------------------------------------------------------------------------
(***************************************************************************)
(* What the proofs need beyond linear arithmetic and sets: a nonempty set  *)
(* of naturals has a least element, a set of bounded naturals is no larger *)
(* than a superset, and adding or removing an element keeps a set finite.  *)
(* A lemma that needs this says so, and the modules with the theorems      *)
(* prove it from the library of finite sets; so the library is not part of *)
(* the context of every other obligation.                                  *)
(***************************************************************************)
NumberFacts ==
    /\ \A S \in SUBSET Nat : S # {} => \E n \in S : \A m \in S : n <= m
    /\ \A n \in Int : \A T \in SUBSET (0..n) : \A S \in SUBSET T :
          Cardinality(S) \in Nat /\ Cardinality(T) \in Nat /\ Cardinality(S) <= Cardinality(T)
    /\ IsFiniteSet({}) /\ Cardinality({}) = 0
    /\ \A S : IsFiniteSet(S) => Cardinality(S) \in Nat
    /\ \A S, x : IsFiniteSet(S) => IsFiniteSet(S \cup {x}) /\ IsFiniteSet(S \ {x})

(* Min of a nonempty set of naturals is its least element. *)
LEMMA MinOfNats ==
    ASSUME NumberFacts, NEW S, S \subseteq Nat, S # {}
    PROVE  Min(S) \in S /\ \A y \in S : Min(S) <= y
<1>1. \E n \in S : \A m \in S : n <= m
  BY DEF NumberFacts
<1> QED
  BY <1>1, Zenon DEF Min

(* Max of a nonempty bounded set of naturals is its greatest element. *)
LEMMA MaxOfNats ==
    ASSUME NumberFacts, NEW S, S \subseteq Nat, S # {}, NEW n \in Nat, \A y \in S : y <= n
    PROVE  Max(S) \in S /\ \A y \in S : Max(S) >= y
<1> DEFINE T == {n - y : y \in S}
<1>1. T \subseteq Nat
  OBVIOUS
<1>0. T # {}
  BY Zenon
<1>2. Min(T) \in T /\ \A z \in T : Min(T) <= z
  BY <1>1, <1>0, MinOfNats, Zenon
<1>3. PICK x \in S : Min(T) = n - x
  BY <1>2, Zenon
<1>4. ASSUME NEW y \in S PROVE x >= y
  <2>1. n - y \in T
    BY Zenon
  <2>2. Min(T) <= n - y
    BY <1>2, <2>1, Zenon
  <2>3. x \in Nat /\ y \in Nat /\ n - x <= n - y
    BY <1>3, <2>2
  <2> QED
    BY <2>3, SMTT(30)
<1> QED
  BY <1>4, Zenon DEF Max

-----------------------------------------------------------------------------
(***************************************************************************)
(* The block ranges.  Tiling is not inductive: replaying from channel r or *)
(* pruning `count' blocks also needs the order of channels that are not    *)
(* neighbours, which Ordered adds.                                         *)
(***************************************************************************)

EncoderFields == DOMAIN NewEncoder

ChannelFields == DOMAIN NewChannel(0, 0, 0)

EgressFields == DOMAIN NewEgress

ArtifactFields == {"blob", "frames", "state", "channel_ids"}

(* The fields of a channel that say which blocks it holds. *)
ChannelShape(c) ==
    /\ DOMAIN c = ChannelFields
    /\ c.block_start \in Nat
    /\ c.blocks_added \in Nat
    /\ c.open \in BOOLEAN

QueueShape(e) ==
    /\ DOMAIN e = EncoderFields
    /\ e.blocks \in Seq(Block)
    /\ e.block_cursor \in Nat
    /\ IsSequence(e.channels)
    /\ \A i \in 1..Len(e.channels) : ChannelShape(e.channels[i])

(* No range ends after a later one starts, and none ends after the cursor. *)
Ordered(e) ==
    /\ \A i, j \in 1..Len(e.channels) :
          i < j => RangeEnd(e.channels[i]) <= e.channels[j].block_start
    /\ \A i \in 1..Len(e.channels) : RangeEnd(e.channels[i]) <= e.block_cursor

QueueInv(e) == QueueShape(e) /\ Tiling(e) /\ Ordered(e) /\ OnlyTailOpen(e)

AllFilled(e) == \A i \in 1..Len(e.channels) : e.channels[i].blocks_added > 0

(* Channel d is c with the same blocks, and c may have been closed. *)
KeepsRange(c, d) ==
    /\ ChannelShape(d)
    /\ d.id = c.id
    /\ d.block_start = c.block_start
    /\ d.blocks_added = c.blocks_added
    /\ d.open => c.open

(* f has e's blocks, cursor and channels; some channels may be closed. *)
SameRanges(e, f) ==
    /\ DOMAIN f = EncoderFields
    /\ f.blocks = e.blocks
    /\ f.block_cursor = e.block_cursor
    /\ IsSequence(f.channels)
    /\ Len(f.channels) = Len(e.channels)
    /\ \A i \in 1..Len(e.channels) : KeepsRange(e.channels[i], f.channels[i])

LiveIds(e) == {e.channels[i].id : i \in 1..Len(e.channels)}

(* f has e's ledger, and every channel e has. *)
SameLedger(e, f) ==
    /\ f.egress = e.egress
    /\ f.next_id = e.next_id
    /\ LiveIds(e) \subseteq LiveIds(f)

-----------------------------------------------------------------------------
(* Ranges that do not move keep every fact about ranges. *)
LEMMA SameRangesKeepQueue ==
    ASSUME NEW e, NEW f, QueueInv(e), SameRanges(e, f)
    PROVE  QueueInv(f) /\ (AllFilled(e) => AllFilled(f))
<1>1. Len(e.channels) \in Nat
  BY SequenceShape DEF QueueInv, QueueShape
<1>2. \A i \in 1..Len(e.channels) : RangeEnd(f.channels[i]) = RangeEnd(e.channels[i])
  BY DEF SameRanges, KeepsRange, RangeEnd
<1>3. QueueShape(f)
  BY DEF QueueInv, QueueShape, SameRanges, KeepsRange
<1>4. Tiling(f)
  BY <1>1, <1>2 DEF QueueInv, Tiling, SameRanges, KeepsRange
<1>5. Ordered(f)
  BY <1>1, <1>2 DEF QueueInv, Ordered, SameRanges, KeepsRange
<1>6. OnlyTailOpen(f)
  BY <1>1 DEF QueueInv, OnlyTailOpen, SameRanges, KeepsRange
<1>7. AllFilled(e) => AllFilled(f)
  BY DEF AllFilled, SameRanges, KeepsRange
<1> QED
  BY <1>3, <1>4, <1>5, <1>6, <1>7 DEF QueueInv

(* An encoder has the block ranges it has. *)
LEMMA SameRangesReflexive ==
    ASSUME NEW e, QueueInv(e)
    PROVE  SameRanges(e, e)
BY DEF QueueInv, QueueShape, SameRanges, KeepsRange

(* Two methods that keep the block ranges, one after the other, keep them. *)
LEMMA SameRangesTransitive ==
    ASSUME NEW e, NEW f, NEW h, SameRanges(e, f), SameRanges(f, h)
    PROVE  SameRanges(e, h)
BY DEF SameRanges, KeepsRange

(* A method that only maps its channels through a range-keeping operation keeps the ranges. *)
LEMMA MapKeepsRanges ==
    ASSUME NEW e, QueueInv(e), NEW f,
           DOMAIN f = EncoderFields, f.blocks = e.blocks, f.block_cursor = e.block_cursor,
           f.channels = [i \in DOMAIN e.channels |-> f.channels[i]],
           \A i \in 1..Len(e.channels) : KeepsRange(e.channels[i], f.channels[i])
    PROVE  SameRanges(e, f)
<1>1. Len(e.channels) \in Nat /\ DOMAIN e.channels = 1..Len(e.channels)
  BY SequenceShape DEF QueueInv, QueueShape
<1>2. IsSequence(f.channels) /\ Len(f.channels) = Len(e.channels)
  BY <1>1, FunctionIsSequence
<1> QED
  BY <1>2, Zenon DEF SameRanges

(* close, take_frame, record_confirmation and release_at change no block range. *)
LEMMA CloseKeepsRange ==
    ASSUME NEW c, ChannelShape(c), NEW finished
    PROVE  KeepsRange(c, Close(c, finished)) /\ ~Close(c, finished).open
BY DEF KeepsRange, ChannelShape, ChannelFields, NewChannel, Close

(* Framing a channel does not move its block range (take_frame). *)
LEMMA TakeFramesKeepsRange ==
    ASSUME NEW c, ChannelShape(c), NEW plan
    PROVE  KeepsRange(c, TakeFrames(c, plan))
<1>1. ASSUME NEW x, NEW y, NEW z
      PROVE  KeepsRange(c, [c EXCEPT !.available_output = x, !.next_frame_number = y,
                                     !.terminal_pending = z])
  BY DEF KeepsRange, ChannelShape, ChannelFields, NewChannel
<1> QED
  BY <1>1, Zenon DEF TakeFrames

(* A receipt does not move the block range of a channel (record_confirmation). *)
LEMMA RecordConfirmationKeepsRange ==
    ASSUME NEW c, ChannelShape(c), NEW l1
    PROVE  KeepsRange(c, RecordConfirmation(c, l1))
BY DEF KeepsRange, ChannelShape, ChannelFields, NewChannel, RecordConfirmation

(* Releasing a channel does not move its block range (release_at). *)
LEMMA ReleaseAtKeepsRange ==
    ASSUME NEW c, ChannelShape(c), NEW l1
    PROVE  KeepsRange(c, ReleaseAt(c, l1))
BY DEF KeepsRange, ChannelShape, ChannelFields, NewChannel, ReleaseAt

-----------------------------------------------------------------------------
(* A new encoder has nothing buffered and nothing encoded. *)
LEMMA NewEncoderQueue == QueueInv(NewEncoder) /\ AllFilled(NewEncoder)
BY EmptySequence DEF QueueInv, QueueShape, Tiling, Ordered, OnlyTailOpen, AllFilled,
                     NewEncoder, EncoderFields

(* close_current_channel closes the tail and moves no block. *)
LEMMA CloseCurrentChannelKeepsRanges ==
    ASSUME NEW e, QueueInv(e), NEW finished
    PROVE  SameRanges(e, CloseCurrentChannel(e, finished))
<1>1. CASE ~Closable(e)
  BY <1>1, SameRangesReflexive DEF CloseCurrentChannel
<1>2. CASE Closable(e)
  <2> DEFINE n == Len(e.channels)
             f == CloseCurrentChannel(e, finished)
  <2>1. n \in Nat /\ DOMAIN e.channels = 1..n /\ n > 0
    BY <1>2, SequenceShape, EmptySequence DEF QueueInv, QueueShape, Closable, TailOpen
  <2>2. f = [e EXCEPT !.channels = [e.channels EXCEPT ![n] = Close(e.channels[n], finished)]]
    BY <1>2 DEF CloseCurrentChannel
  <2>3. /\ DOMAIN f = EncoderFields /\ f.blocks = e.blocks /\ f.block_cursor = e.block_cursor
        /\ f.channels = [e.channels EXCEPT ![n] = Close(e.channels[n], finished)]
    BY <2>2 DEF QueueInv, QueueShape, EncoderFields, NewEncoder
  <2>4. \A i \in 1..n : KeepsRange(e.channels[i], f.channels[i])
    <3> SUFFICES ASSUME NEW i \in 1..n
                 PROVE  KeepsRange(e.channels[i], f.channels[i])
      OBVIOUS
    <3>1. ChannelShape(e.channels[i])
      BY DEF QueueInv, QueueShape
    <3> QED
      BY <2>1, <2>3, <3>1, CloseKeepsRange DEF KeepsRange
  <2>5. f.channels = [i \in DOMAIN e.channels |-> f.channels[i]]
    BY <2>3
  <2> QED
    BY <2>3, <2>4, <2>5, MapKeepsRanges
<1> QED
  BY <1>1, <1>2

(* add_block only lengthens the buffer. *)
LEMMA AddBlockQueue ==
    ASSUME NEW e, QueueInv(e), NEW b \in Block
    PROVE  QueueInv(AddBlock(e, b)) /\ (AllFilled(e) => AllFilled(AddBlock(e, b)))
<1> DEFINE f == AddBlock(e, b)
<1>1. /\ DOMAIN f = EncoderFields /\ f.blocks = Append(e.blocks, b)
      /\ f.block_cursor = e.block_cursor /\ f.channels = e.channels
  BY DEF QueueInv, QueueShape, EncoderFields, NewEncoder, AddBlock
<1>2. f.blocks \in Seq(Block) /\ Len(f.blocks) = Len(e.blocks) + 1 /\ Len(e.blocks) \in Nat
  BY <1>1 DEF QueueInv, QueueShape
<1> HIDE DEF f
<1>3. QueueShape(f)
  BY <1>1, <1>2 DEF QueueInv, QueueShape
<1>4. Tiling(f)
  BY <1>1, <1>2 DEF QueueInv, QueueShape, Tiling
<1>5. Ordered(f) /\ OnlyTailOpen(f) /\ (AllFilled(e) => AllFilled(f))
  BY <1>1 DEF QueueInv, Ordered, OnlyTailOpen, AllFilled
<1> QED
  BY <1>3, <1>4, <1>5 DEF QueueInv, f

(* open_new_channel starts an empty channel at the cursor. *)
LEMMA OpenNewChannelQueue ==
    ASSUME NEW e, QueueInv(e), ~TailOpen(e)
    PROVE  LET f == OpenNewChannel(e)
           IN  /\ QueueInv(f)
               /\ f.blocks = e.blocks /\ f.block_cursor = e.block_cursor
               /\ Len(f.channels) = Len(e.channels) + 1
               /\ \A i \in 1..Len(e.channels) : f.channels[i] = e.channels[i]
               /\ f.channels[Len(f.channels)].blocks_added = 0
<1> DEFINE f == OpenNewChannel(e)
           n == Len(e.channels)
           c == NewChannel(e.next_channel, e.block_cursor, e.l1_head)
<1>1. /\ DOMAIN f = EncoderFields /\ f.blocks = e.blocks
      /\ f.block_cursor = e.block_cursor /\ f.channels = Append(e.channels, c)
  BY DEF QueueInv, QueueShape, EncoderFields, NewEncoder, OpenNewChannel
<1>2. n \in Nat /\ e.block_cursor \in Nat
  BY SequenceShape DEF QueueInv, QueueShape
<1>3. /\ IsSequence(f.channels) /\ Len(f.channels) = n + 1
      /\ \A i \in 1..n : f.channels[i] = e.channels[i]
      /\ f.channels[n + 1] = c
  BY <1>1, AppendSequence DEF QueueInv, QueueShape
<1>4. /\ ChannelShape(c) /\ c.block_start = e.block_cursor /\ c.blocks_added = 0
      /\ RangeEnd(c) = e.block_cursor
  BY <1>2 DEF ChannelShape, ChannelFields, NewChannel, RangeEnd
<1> HIDE DEF f, c
<1>5. QueueShape(f)
  BY <1>1, <1>2, <1>3, <1>4 DEF QueueInv, QueueShape
<1>6. Tiling(f)
  BY <1>1, <1>2, <1>3, <1>4 DEF QueueInv, Tiling
<1>7. Ordered(f)
  BY <1>1, <1>2, <1>3, <1>4 DEF QueueInv, Ordered
<1>8. OnlyTailOpen(f)
  <2>1. n > 0 => ~e.channels[n].open
    BY EmptySequence DEF TailOpen, QueueInv, QueueShape, Last
  <2> QED
    BY <1>2, <1>3, <2>1 DEF QueueInv, OnlyTailOpen
<1> QED
  BY <1>1, <1>3, <1>4, <1>5, <1>6, <1>7, <1>8 DEF QueueInv, f

(* The tail takes the next block: its range and the cursor grow together. *)
LEMMA AcceptQueue ==
    ASSUME NEW e, QueueInv(e), NEW emitted, Len(e.channels) > 0,
           e.block_cursor < Len(e.blocks),
           \A i \in 1..(Len(e.channels) - 1) : e.channels[i].blocks_added > 0
    PROVE  LET f == Accept(e, emitted)
           IN  QueueInv(f) /\ AllFilled(f) /\ SameLedger(e, f)
<1> DEFINE n == Len(e.channels)
           c == AddBatch(e.channels[n], NextBlock(e), emitted)
           f == Accept(e, emitted)
<1>1. /\ DOMAIN f = EncoderFields /\ f.blocks = e.blocks
      /\ f.block_cursor = e.block_cursor + 1
      /\ f.channels = [e.channels EXCEPT ![n] = c]
      /\ f.egress = e.egress /\ f.next_id = e.next_id
  BY DEF Accept, QueueInv, QueueShape, EncoderFields, NewEncoder
<1>2. /\ n \in Nat /\ n \in 1..n /\ e.block_cursor \in Nat /\ Len(e.blocks) \in Nat
      /\ IsSequence(e.channels)
  BY SequenceShape DEF QueueInv, QueueShape
<1>3. /\ IsSequence(f.channels) /\ Len(f.channels) = n
      /\ \A i \in 1..n : f.channels[i] = IF i = n THEN c ELSE e.channels[i]
  <2>1. DOMAIN e.channels = 1..n
    BY <1>2, SequenceShape
  <2>2. f.channels = [i \in 1..n |-> f.channels[i]]
    BY <1>1, <2>1
  <2>3. IsSequence(f.channels) /\ Len(f.channels) = n
    BY <1>2, <2>2, FunctionIsSequence
  <2> QED
    BY <1>1, <2>1, <2>3
<1>4. /\ ChannelShape(c) /\ c.id = e.channels[n].id
      /\ c.block_start = e.channels[n].block_start
      /\ c.blocks_added = e.channels[n].blocks_added + 1
      /\ RangeEnd(c) = RangeEnd(e.channels[n]) + 1
  <2>1. ChannelShape(e.channels[n])
    BY <1>2 DEF QueueInv, QueueShape
  <2> QED
    BY <2>1 DEF ChannelShape, ChannelFields, NewChannel, AddBatch, RangeEnd
<1>5. \A i \in 1..n : ChannelShape(e.channels[i]) /\ RangeEnd(e.channels[i]) \in Nat
  BY DEF QueueInv, QueueShape, ChannelShape, RangeEnd
<1> HIDE DEF f, c
<1>6. QueueShape(f)
  BY <1>1, <1>2, <1>3, <1>4 DEF QueueInv, QueueShape
<1>7. Tiling(f)
  BY <1>1, <1>2, <1>3, <1>4 DEF QueueInv, Tiling
<1>8. Ordered(f)
  <2>1. ASSUME NEW i \in 1..n, NEW j \in 1..n, i < j
        PROVE  RangeEnd(f.channels[i]) <= f.channels[j].block_start
    <3>1. RangeEnd(e.channels[i]) <= e.channels[j].block_start
      BY <2>1 DEF QueueInv, Ordered
    <3>2. f.channels[i] = e.channels[i]
      BY <1>2, <1>3, <2>1
    <3>3. f.channels[j].block_start = e.channels[j].block_start
      BY <1>3, <1>4
    <3> QED
      BY <3>1, <3>2, <3>3
  <2>2. ASSUME NEW i \in 1..n
        PROVE  RangeEnd(f.channels[i]) <= f.block_cursor
    BY <1>1, <1>2, <1>3, <1>4, <1>5 DEF QueueInv, Ordered
  <2> QED
    BY <1>3, <2>1, <2>2 DEF Ordered
<1>9. OnlyTailOpen(f)
  BY <1>2, <1>3 DEF QueueInv, OnlyTailOpen
<1>10. AllFilled(f)
  <2> SUFFICES ASSUME NEW i \in 1..n
               PROVE  f.channels[i].blocks_added > 0
    BY <1>3 DEF AllFilled
  <2>1. CASE i = n
    BY <1>3, <1>4, <1>5, <2>1, SMTT(30) DEF ChannelShape
  <2>2. CASE i # n
    BY <1>2, <1>3, <2>2
  <2> QED
    BY <2>1, <2>2
<1>11. SameLedger(e, f)
  <2>1. \A i \in 1..n : f.channels[i].id = e.channels[i].id
    BY <1>3, <1>4
  <2>2. LiveIds(f) = LiveIds(e)
    BY <1>3, <2>1 DEF LiveIds
  <2> QED
    BY <1>1, <2>2 DEF SameLedger
<1> QED
  BY <1>6, <1>7, <1>8, <1>9, <1>10, <1>11 DEF QueueInv, f

-----------------------------------------------------------------------------
(* close_current_channel leaves the ledger alone. *)
LEMMA CloseCurrentChannelLedger ==
    ASSUME NEW e, QueueInv(e), NEW finished
    PROVE  SameLedger(e, CloseCurrentChannel(e, finished))
<1> DEFINE f == CloseCurrentChannel(e, finished)
<1>1. SameRanges(e, f)
  BY CloseCurrentChannelKeepsRanges
<1>2. LiveIds(e) \subseteq LiveIds(f)
  BY <1>1 DEF LiveIds, SameRanges, KeepsRange
<1>3. f.egress = e.egress /\ f.next_id = e.next_id
  BY DEF CloseCurrentChannel, QueueInv, QueueShape, EncoderFields, NewEncoder
<1> QED
  BY <1>2, <1>3 DEF SameLedger

(* Two methods that leave the ledger alone, one after the other, leave it alone. *)
LEMMA SameLedgerTransitive ==
    ASSUME NEW e, NEW f, NEW h, SameLedger(e, f), SameLedger(f, h)
    PROVE  SameLedger(e, h)
BY DEF SameLedger

(* What step encodes into: the open tail, or a channel opened for it. *)
LEMMA WritableQueue ==
    ASSUME NEW e, QueueInv(e), AllFilled(e)
    PROVE  LET w == Writable(e)
           IN  /\ QueueInv(w)
               /\ w.blocks = e.blocks /\ w.block_cursor = e.block_cursor
               /\ Len(w.channels) > 0
               /\ \A i \in 1..(Len(w.channels) - 1) : w.channels[i].blocks_added > 0
               /\ SameLedger(e, w)
               /\ w.channels[Len(w.channels)].blocks_added > 0 \/ ~TailOpen(e)
<1>1. IsSequence(e.channels) /\ Len(e.channels) \in Nat
  BY SequenceShape DEF QueueInv, QueueShape
<1>2. CASE TailOpen(e)
  <2>1. Len(e.channels) > 0
    BY <1>1, <1>2, EmptySequence DEF TailOpen
  <2> QED
    BY <1>1, <1>2, <2>1 DEF Writable, AllFilled, SameLedger
<1>3. CASE ~TailOpen(e)
  <2> DEFINE w == OpenNewChannel(e)
             n == Len(e.channels)
  <2>1. /\ QueueInv(w)
        /\ w.blocks = e.blocks /\ w.block_cursor = e.block_cursor
        /\ Len(w.channels) = n + 1
        /\ \A i \in 1..n : w.channels[i] = e.channels[i]
    BY <1>3, OpenNewChannelQueue
  <2>2. w.egress = e.egress /\ w.next_id = e.next_id
    BY DEF OpenNewChannel, QueueInv, QueueShape, EncoderFields, NewEncoder
  <2> HIDE DEF w
  <2>3. SameLedger(e, w)
    BY <1>1, <2>1, <2>2 DEF SameLedger, LiveIds
  <2>4. \A i \in 1..n : w.channels[i].blocks_added > 0
    BY <2>1 DEF AllFilled
  <2> QED
    BY <1>1, <1>3, <2>1, <2>3, <2>4 DEF Writable, w
<1> QED
  BY <1>2, <1>3

(* Closing as part of step. *)
LEMMA CloseStepQueue ==
    ASSUME NEW e, QueueInv(e), NEW fault
    PROVE  LET f == CloseStep(e, fault).encoder
           IN  QueueInv(f) /\ (AllFilled(e) => AllFilled(f)) /\ SameLedger(e, f)
<1> DEFINE f == CloseCurrentChannel(e, fault # "finish")
<1>1. CloseStep(e, fault).encoder = f
  BY DEF CloseStep, StepOutcome
<1>2. SameRanges(e, f) /\ SameLedger(e, f)
  BY CloseCurrentChannelKeepsRanges, CloseCurrentChannelLedger
<1> HIDE DEF f
<1> QED
  BY <1>1, <1>2, SameRangesKeepQueue

(* A block rejected by an empty channel: the channel opened for it goes away again. *)
LEMMA DropOpenedChannel ==
    ASSUME NEW e, QueueInv(e), AllFilled(e), NEW w, w = OpenNewChannel(e), ~TailOpen(e)
    PROVE  LET f == [w EXCEPT !.channels = Front(@)]
           IN  SameRanges(e, f) /\ SameLedger(e, f)
<1> DEFINE f == [w EXCEPT !.channels = Front(@)]
           n == Len(e.channels)
<1>1. IsSequence(e.channels) /\ n \in Nat
  BY SequenceShape DEF QueueInv, QueueShape
<1>2. /\ QueueInv(w) /\ w.blocks = e.blocks /\ w.block_cursor = e.block_cursor
      /\ Len(w.channels) = n + 1 /\ \A i \in 1..n : w.channels[i] = e.channels[i]
  BY OpenNewChannelQueue
<1>3. w.egress = e.egress /\ w.next_id = e.next_id
  BY DEF OpenNewChannel, QueueInv, QueueShape, EncoderFields, NewEncoder
<1>4. /\ DOMAIN f = EncoderFields /\ f.blocks = e.blocks /\ f.block_cursor = e.block_cursor
      /\ f.channels = SubSeq(w.channels, 1, n) /\ f.egress = e.egress /\ f.next_id = e.next_id
  BY <1>1, <1>2, <1>3 DEF Front, QueueInv, QueueShape, EncoderFields, NewEncoder
<1>5. /\ IsSequence(f.channels) /\ Len(f.channels) = n
      /\ \A i \in 1..n : f.channels[i] = e.channels[i]
  <2>1. IsSequence(w.channels)
    BY <1>2 DEF QueueInv, QueueShape
  <2>2. /\ IsSequence(SubSeq(w.channels, 1, n)) /\ Len(SubSeq(w.channels, 1, n)) = n
        /\ \A i \in 1..n : SubSeq(w.channels, 1, n)[i] = w.channels[i]
    BY <1>1, <1>2, <2>1, SubSeqSequence
  <2> QED
    BY <1>2, <1>4, <2>2, Zenon
<1> HIDE DEF f
<1>6. SameRanges(e, f)
  BY <1>4, <1>5 DEF SameRanges, KeepsRange, QueueInv, QueueShape
<1>7. SameLedger(e, f)
  BY <1>4, <1>5 DEF SameLedger, LiveIds
<1> QED
  BY <1>6, <1>7 DEF f

(* step encodes the block at the cursor, closes the tail, or leaves the ranges alone. *)
LEMMA EncodeStepQueue ==
    ASSUME NEW e, QueueInv(e), AllFilled(e), NEW emitted, NEW fault,
           e.block_cursor < Len(e.blocks), NEW w, w = Writable(e)
    PROVE  LET o == EncodeStep(w, emitted, fault)
           IN  /\ QueueInv(o.encoder)
               /\ o.result # "Err" => AllFilled(o.encoder)
               /\ SameLedger(e, o.encoder)
<1> DEFINE n == Len(w.channels)
           o == EncodeStep(w, emitted, fault)
<1>1. /\ QueueInv(w) /\ w.blocks = e.blocks /\ w.block_cursor = e.block_cursor /\ n > 0
      /\ \A i \in 1..(n - 1) : w.channels[i].blocks_added > 0
      /\ SameLedger(e, w)
      /\ w.channels[n].blocks_added > 0 \/ ~TailOpen(e)
  BY WritableQueue
<1>2. n \in Nat /\ \A i \in 1..n : w.channels[i].blocks_added \in Nat
  BY <1>1, SequenceShape DEF QueueInv, QueueShape, ChannelShape
<1>3. ~TailOpen(e) => w = OpenNewChannel(e)
  BY DEF Writable
<1>4. CASE Rejects(Last(w.channels), NextBlock(w)) /\ Last(w.channels).blocks_added = 0
  <2> DEFINE f == [w EXCEPT !.channels = Front(@)]
  <2>1. o = StepOutcome(f, "Err")
    BY <1>4 DEF EncodeStep, RejectStep
  <2>2. o.encoder = f /\ o.result = "Err"
    BY <2>1 DEF StepOutcome
  <2>3. ~TailOpen(e)
    BY <1>1, <1>4 DEF Last
  <2>4. SameRanges(e, f) /\ SameLedger(e, f)
    BY <1>3, <2>3, DropOpenedChannel
  <2> QED
    BY <2>2, <2>4, SameRangesKeepQueue
<1>5. CASE Rejects(Last(w.channels), NextBlock(w)) /\ Last(w.channels).blocks_added # 0
  <2>1. o = CloseStep(w, fault)
    BY <1>5 DEF EncodeStep, RejectStep
  <2>2. AllFilled(w)
    BY <1>1, <1>2, <1>5 DEF AllFilled, Last
  <2> QED
    BY <1>1, <2>1, <2>2, CloseStepQueue, SameLedgerTransitive
<1>6. CASE ~Rejects(Last(w.channels), NextBlock(w)) /\ fault = "append"
  <2>1. o = StepOutcome(w, "Err")
    BY <1>6 DEF EncodeStep
  <2> QED
    BY <1>1, <2>1 DEF StepOutcome
<1>7. CASE ~Rejects(Last(w.channels), NextBlock(w)) /\ fault # "append"
  <2> DEFINE f == Accept(w, emitted)
  <2>1. o = AcceptStep(w, emitted, fault)
    BY <1>7 DEF EncodeStep
  <2>2. o = IF TargetReached(Last(f.channels)) THEN CloseStep(f, fault)
            ELSE StepOutcome(f, "BlockEncoded")
    BY <2>1 DEF AcceptStep
  <2>3. QueueInv(f) /\ AllFilled(f) /\ SameLedger(w, f)
    BY <1>1, AcceptQueue
  <2>4. SameLedger(e, f)
    BY <1>1, <2>3, SameLedgerTransitive
  <2> HIDE DEF f
  <2>6. CASE TargetReached(Last(f.channels))
    BY <2>2, <2>3, <2>4, <2>6, CloseStepQueue, SameLedgerTransitive
  <2>7. CASE ~TargetReached(Last(f.channels))
    BY <2>2, <2>3, <2>4, <2>7 DEF StepOutcome
  <2> QED
    BY <2>6, <2>7
<1> QED
  BY <1>4, <1>5, <1>6, <1>7

(* step keeps the tiling of the buffer; unless it fails, no channel is left empty. *)
LEMMA StepQueue ==
    ASSUME NEW e, QueueInv(e), AllFilled(e), NEW emitted, NEW fault
    PROVE  LET o == Step(e, emitted, fault)
           IN  /\ QueueInv(o.encoder)
               /\ o.result # "Err" => AllFilled(o.encoder)
               /\ SameLedger(e, o.encoder)
<1> DEFINE o == Step(e, emitted, fault)
<1>1. SameLedger(e, e)
  BY DEF SameLedger
<1>2. e.block_cursor \in Nat /\ Len(e.blocks) \in Nat
  BY DEF QueueInv, QueueShape
<1>3. CASE e.deferred_step_error
  <2> DEFINE f == [e EXCEPT !.deferred_step_error = FALSE]
  <2>1. o.encoder = f /\ o.result = "Err"
    BY <1>3 DEF Step, StepOutcome
  <2>2. /\ DOMAIN f = EncoderFields /\ f.blocks = e.blocks /\ f.block_cursor = e.block_cursor
        /\ f.channels = e.channels /\ f.egress = e.egress /\ f.next_id = e.next_id
    BY DEF QueueInv, QueueShape, EncoderFields, NewEncoder
  <2> HIDE DEF f
  <2>3. SameRanges(e, f) /\ SameLedger(e, f)
    BY <2>2 DEF SameRanges, KeepsRange, QueueInv, QueueShape, SameLedger, LiveIds
  <2> QED
    BY <2>1, <2>3, SameRangesKeepQueue
<1>4. CASE ~e.deferred_step_error /\ TimeoutDue(e)
  <2>1. o = CloseStep(e, fault)
    BY <1>4 DEF Step
  <2> QED
    BY <2>1, CloseStepQueue
<1>5. CASE ~e.deferred_step_error /\ ~TimeoutDue(e) /\ e.block_cursor >= Len(e.blocks)
  <2>1. o = StepOutcome(e, "Idle")
    BY <1>5 DEF Step
  <2> QED
    BY <1>1, <2>1 DEF StepOutcome
<1>6. CASE /\ ~e.deferred_step_error /\ ~TimeoutDue(e) /\ ~(e.block_cursor >= Len(e.blocks))
           /\ NextBlock(e) \in Uncomposable
  <2>1. o = StepOutcome(e, "Err")
    BY <1>6 DEF Step
  <2> QED
    BY <1>1, <2>1 DEF StepOutcome
<1>7. CASE /\ ~e.deferred_step_error /\ ~TimeoutDue(e) /\ ~(e.block_cursor >= Len(e.blocks))
           /\ NextBlock(e) \notin Uncomposable
  <2>1. o = EncodeStep(Writable(e), emitted, fault)
    BY <1>7 DEF Step
  <2> QED
    BY <1>2, <1>7, <2>1, EncodeStepQueue
<1> QED
  BY <1>3, <1>4, <1>5, <1>6, <1>7

-----------------------------------------------------------------------------
(***************************************************************************)
(* The artifact ledger: an artifact is Pending exactly while one in-flight *)
(* submission leases it.  The strengthening needed is that artifacts are   *)
(* numbered below next_artifact, submissions below next_id, and that an    *)
(* artifact lists at least one channel and only channels the encoder has:  *)
(* without the last, a replay could be closed for no position.             *)
(***************************************************************************)

States == {"Ready", "Pending", "Confirmed"}

ArtifactShape(art) ==
    /\ DOMAIN art = ArtifactFields
    /\ art.state \in States
    /\ art.channel_ids # {}

EgressShape(g) ==
    /\ DOMAIN g = EgressFields
    /\ g.next_artifact \in Nat
    /\ DOMAIN g.artifacts \subseteq 0..(g.next_artifact - 1)
    /\ \A a \in DOMAIN g.artifacts : ArtifactShape(g.artifacts[a])

EgressInv(g) == EgressShape(g) /\ LeasesExact(g)

LedgerInv(e) ==
    /\ EgressInv(e.egress)
    /\ \A a \in DOMAIN e.egress.artifacts : e.egress.artifacts[a].channel_ids \subseteq LiveIds(e)
    /\ e.next_id \in Nat
    /\ DOMAIN e.egress.pending \subseteq 0..(e.next_id - 1)

(* h is g without the artifacts of `gone', and without the leases left empty. *)
Forgets(g, h, gone) ==
    /\ DOMAIN h = EgressFields
    /\ h.next_artifact = g.next_artifact
    /\ DOMAIN h.artifacts = DOMAIN g.artifacts \ gone
    /\ \A a \in DOMAIN h.artifacts :
          /\ ArtifactShape(h.artifacts[a])
          /\ h.artifacts[a].state = g.artifacts[a].state
          /\ h.artifacts[a].frames = g.artifacts[a].frames
          /\ h.artifacts[a].blob = g.artifacts[a].blob
    /\ DOMAIN h.pending = {id \in DOMAIN g.pending : ~(g.pending[id] \subseteq gone)}
    /\ \A id \in DOMAIN h.pending : h.pending[id] = g.pending[id] \ gone

-----------------------------------------------------------------------------
(* Methods that leave the ledger alone keep its invariant. *)
LEMMA SameLedgerKeepsInv ==
    ASSUME NEW e, NEW f, LedgerInv(e), SameLedger(e, f)
    PROVE  LedgerInv(f)
BY DEF LedgerInv, SameLedger

(* A new egress retains nothing and leases nothing (DaEgress::new). *)
LEMMA NewEgressInv == EgressInv(NewEgress)
BY DEF EgressInv, EgressShape, LeasesExact, AllPending, InState, NewEgress, EgressFields

(* Changing the state of some artifacts changes nothing else. *)
LEMMA SetStateFacts ==
    ASSUME NEW g, EgressShape(g), NEW ids, NEW state \in States
    PROVE  LET h == SetState(g, ids, state)
           IN  /\ EgressShape(h)
               /\ h.pending = g.pending
               /\ h.next_artifact = g.next_artifact
               /\ DOMAIN h.artifacts = DOMAIN g.artifacts
               /\ \A a \in DOMAIN g.artifacts :
                     /\ h.artifacts[a].state = IF a \in ids THEN state ELSE g.artifacts[a].state
                     /\ h.artifacts[a].channel_ids = g.artifacts[a].channel_ids
                     /\ h.artifacts[a].frames = g.artifacts[a].frames
                     /\ h.artifacts[a].blob = g.artifacts[a].blob
<1> DEFINE h == SetState(g, ids, state)
<1>1. /\ DOMAIN h = EgressFields /\ h.pending = g.pending /\ h.next_artifact = g.next_artifact
      /\ h.artifacts = [a \in DOMAIN g.artifacts |->
             IF a \in ids THEN [g.artifacts[a] EXCEPT !.state = state] ELSE g.artifacts[a]]
  BY DEF SetState, EgressShape, EgressFields, NewEgress
<1> HIDE DEF h
<1>2. DOMAIN h.artifacts = DOMAIN g.artifacts
  BY <1>1
<1>3. ASSUME NEW a \in DOMAIN g.artifacts
      PROVE  /\ ArtifactShape(h.artifacts[a])
             /\ h.artifacts[a].state = IF a \in ids THEN state ELSE g.artifacts[a].state
             /\ h.artifacts[a].channel_ids = g.artifacts[a].channel_ids
             /\ h.artifacts[a].frames = g.artifacts[a].frames
             /\ h.artifacts[a].blob = g.artifacts[a].blob
  <2>1. ArtifactShape(g.artifacts[a])
    BY DEF EgressShape
  <2> QED
    BY <1>1, <2>1 DEF ArtifactShape, ArtifactFields
<1>4. EgressShape(h)
  BY <1>1, <1>2, <1>3 DEF EgressShape
<1> QED
  BY <1>1, <1>2, <1>3, <1>4 DEF h

(* A settled submission releases exactly what it leased, and no other lease loses anything. *)
LEMMA EndLeaseFacts ==
    ASSUME NEW g, EgressInv(g), NEW id \in DOMAIN g.pending, NEW state \in {"Ready", "Confirmed"}
    PROVE  LET h == EndLease(g, id, state)
           IN  /\ EgressInv(h)
               /\ h.pending = Restrict(g.pending, DOMAIN g.pending \ {id})
               /\ h.next_artifact = g.next_artifact
               /\ DOMAIN h.artifacts = DOMAIN g.artifacts
               /\ \A a \in DOMAIN g.artifacts :
                     /\ h.artifacts[a].state =
                           IF a \in g.pending[id] THEN state ELSE g.artifacts[a].state
                     /\ h.artifacts[a].channel_ids = g.artifacts[a].channel_ids
                     /\ h.artifacts[a].frames = g.artifacts[a].frames
                     /\ h.artifacts[a].blob = g.artifacts[a].blob
<1> DEFINE r == RemovePending(g, id)
           ids == g.pending[id]
           h == EndLease(g, id, state)
<1>1. /\ DOMAIN r = EgressFields /\ r.artifacts = g.artifacts
      /\ r.next_artifact = g.next_artifact
      /\ r.pending = Restrict(g.pending, DOMAIN g.pending \ {id})
  BY DEF RemovePending, EgressInv, EgressShape, EgressFields, NewEgress
<1>2. EgressShape(r)
  BY <1>1 DEF EgressInv, EgressShape
<1>3. h = SetState(r, ids, state)
  BY DEF EndLease, EgressInv, LeasesExact
<1> HIDE DEF r, h
<1>4. /\ EgressShape(h) /\ h.pending = r.pending /\ h.next_artifact = r.next_artifact
      /\ DOMAIN h.artifacts = DOMAIN r.artifacts
      /\ \A a \in DOMAIN r.artifacts :
            /\ h.artifacts[a].state = IF a \in ids THEN state ELSE r.artifacts[a].state
            /\ h.artifacts[a].channel_ids = r.artifacts[a].channel_ids
            /\ h.artifacts[a].frames = r.artifacts[a].frames
            /\ h.artifacts[a].blob = r.artifacts[a].blob
  BY <1>2, <1>3, SetStateFacts DEF States
<1>5. DOMAIN h.pending = DOMAIN g.pending \ {id}
  BY <1>1, <1>4 DEF Restrict
<1>6. \A i \in DOMAIN h.pending : h.pending[i] = g.pending[i]
  BY <1>1, <1>4, <1>5 DEF Restrict
<1>7. LeasesExact(h)
  <2>1. ASSUME NEW i \in DOMAIN h.pending
        PROVE  h.pending[i] # {} /\ AllPending(h, h.pending[i])
    <3>1. i \in DOMAIN g.pending /\ i # id /\ h.pending[i] = g.pending[i]
      BY <1>5, <1>6
    <3>2. g.pending[i] # {} /\ g.pending[i] \cap ids = {} /\ AllPending(g, g.pending[i])
      BY <3>1 DEF EgressInv, LeasesExact
    <3>3. \A a \in g.pending[i] : a \in DOMAIN h.artifacts /\ h.artifacts[a].state = "Pending"
      BY <1>1, <1>4, <3>2 DEF AllPending, InState
    <3> QED
      BY <3>1, <3>2, <3>3 DEF AllPending, InState
  <2>2. ASSUME NEW a \in InState(h, "Pending")
        PROVE  \E i \in DOMAIN h.pending : a \in h.pending[i]
    BY <1>1, <1>4, <1>5, <1>6, ZenonT(30) DEF EgressInv, LeasesExact, AllPending, InState
  <2> QED
    BY <1>5, <1>6, <2>1, <2>2 DEF EgressInv, LeasesExact
<1> QED
  BY <1>1, <1>4, <1>7 DEF EgressInv, h

(* h is g with one more ready artifact, which carries channel_ids. *)
Pushed(g, h, channel_ids) ==
    /\ EgressInv(h)
    /\ h.pending = g.pending
    /\ h.next_artifact = g.next_artifact + 1
    /\ DOMAIN h.artifacts = DOMAIN g.artifacts \cup {g.next_artifact}
    /\ \A a \in DOMAIN g.artifacts : h.artifacts[a] = g.artifacts[a]
    /\ h.artifacts[g.next_artifact].state = "Ready"
    /\ h.artifacts[g.next_artifact].channel_ids = channel_ids

(* push adds one ready artifact under an identifier never used before. *)
LEMMA PushFacts ==
    ASSUME NEW g, EgressInv(g), NEW frames, NEW blob, NEW channel_ids, channel_ids # {}
    PROVE  Pushed(g, Push(g, frames, blob, channel_ids), channel_ids)
<1> DEFINE n == g.next_artifact
           art == [blob |-> blob, frames |-> frames, state |-> "Ready",
                   channel_ids |-> channel_ids]
           h == Push(g, frames, blob, channel_ids)
<1>1. /\ DOMAIN h = EgressFields /\ h.pending = g.pending /\ h.next_artifact = n + 1
      /\ h.artifacts = Put(g.artifacts, n, art)
  BY DEF Push, EgressInv, EgressShape, EgressFields, NewEgress
<1>2. ArtifactShape(art) /\ art.state = "Ready" /\ art.channel_ids = channel_ids
  BY DEF ArtifactShape, ArtifactFields, States
<1>3. n \in Nat /\ n \notin DOMAIN g.artifacts
  BY DEF EgressInv, EgressShape
<1> HIDE DEF h, art
<1>4. DOMAIN h.artifacts = DOMAIN g.artifacts \cup {n} /\ h.artifacts[n] = art
  BY <1>1 DEF Put
<1>5. \A a \in DOMAIN g.artifacts : h.artifacts[a] = g.artifacts[a]
  BY <1>1, <1>3 DEF Put
<1>6. EgressShape(h)
  <2>1. DOMAIN h.artifacts \subseteq 0..(h.next_artifact - 1)
    BY <1>1, <1>3, <1>4 DEF EgressInv, EgressShape
  <2>2. \A a \in DOMAIN h.artifacts : ArtifactShape(h.artifacts[a])
    BY <1>2, <1>4, <1>5 DEF EgressInv, EgressShape
  <2> QED
    BY <1>1, <1>3, <2>1, <2>2 DEF EgressShape
<1>7. InState(h, "Pending") = InState(g, "Pending")
  BY <1>2, <1>3, <1>4, <1>5 DEF InState
<1>8. LeasesExact(h)
  BY <1>1, <1>7 DEF EgressInv, LeasesExact, AllPending
<1> QED
  BY <1>1, <1>2, <1>3, <1>4, <1>5, <1>6, <1>8 DEF Pushed, EgressInv, h

(* Only ready artifacts are leased. *)
LEMMA NextLeaseIsReady ==
    ASSUME NumberFacts, NEW g, EgressInv(g)
    PROVE  NextLease(g) \subseteq InState(g, "Ready")
<1>1. InState(g, "Ready") \subseteq Nat
  BY DEF EgressInv, EgressShape, InState
<1>2. InState(g, "Ready") # {} => Min(InState(g, "Ready")) \in InState(g, "Ready")
  BY <1>1, MinOfNats
<1> QED
  BY <1>2 DEF NextLease

(* Whatever is ready, the oldest of it goes out: a lease is empty only if nothing is ready. *)
LEMMA NextLeaseNonempty ==
    ASSUME NumberFacts, NEW g, EgressInv(g), NextLease(g) = {}
    PROVE  InState(g, "Ready") = {}
<1> DEFINE ready == InState(g, "Ready")
           run == {a \in ready : \A b \in ready : b <= a => g.artifacts[b].blob}
           older(a) == {b \in run : b < a}
<1> SUFFICES ASSUME ready # {} PROVE FALSE
  OBVIOUS
<1>1. ready \subseteq Nat /\ run \subseteq ready
  BY DEF EgressInv, EgressShape, InState
<1>2. run # {} /\ \A a \in run : ~(Cardinality(older(a)) < MaxBlobsPerTx)
  BY Zenon DEF NextLease
<1> HIDE DEF ready, run
<1>3. Min(run) \in run /\ \A y \in run : Min(run) <= y
  BY <1>1, <1>2, MinOfNats, Zenon
<1>4. older(Min(run)) = {}
  <2> DEFINE m == Min(run)
  <2>1. run \subseteq Nat /\ m \in Nat /\ \A y \in run : m <= y
    BY <1>1, <1>3, Zenon
  <2> HIDE DEF m
  <2>2. \A y \in run : ~(y < m)
    BY <2>1
  <2> QED
    BY <2>2 DEF m
<1>5. Cardinality(older(Min(run))) = 0
  BY <1>4 DEF NumberFacts
<1> QED
  BY <1>2, <1>3, <1>5, ConfigAssumption

(* What is leased is older than everything ready that is not. *)
LEMMA NextLeaseOldest ==
    ASSUME NumberFacts, NEW g, EgressInv(g), NEW a \in NextLease(g),
           NEW b \in InState(g, "Ready"), b \notin NextLease(g)
    PROVE  a < b
<1> DEFINE ready == InState(g, "Ready")
           run == {x \in ready : \A y \in ready : y <= x => g.artifacts[y].blob}
           older(x) == {y \in run : y < x}
<1>1. ready \subseteq Nat /\ ready \subseteq 0..(g.next_artifact - 1) /\ g.next_artifact \in Nat
  BY DEF EgressInv, EgressShape, InState
<1>2. a \in ready
  BY NextLeaseIsReady
<1>3. CASE run = {}
  <2>1. a = Min(ready)
    BY <1>2, <1>3 DEF NextLease
  <2>2. b # Min(ready)
    BY <1>2, <1>3 DEF NextLease
  <2> HIDE DEF ready
  <2>3. \A y \in ready : Min(ready) <= y
    BY <1>1, <1>2, MinOfNats, Zenon
  <2>4. a \in Nat /\ b \in Nat /\ a <= b /\ a # b
    BY <1>1, <1>2, <2>1, <2>2, <2>3 DEF ready
  <2> QED
    BY <2>4
<1>4. CASE run # {}
  <2>1. a \in run /\ Cardinality(older(a)) < MaxBlobsPerTx
    BY <1>2, <1>4 DEF NextLease
  <2>2. b \notin run \/ ~(Cardinality(older(b)) < MaxBlobsPerTx)
    BY <1>2, <1>4 DEF NextLease
  <2>3. b \in ready
    OBVIOUS
  <2> SUFFICES ASSUME b <= a PROVE FALSE
    BY <1>1, <1>2, <2>3
  <2>4. b \in run
    BY <1>1, <1>2, <2>1, <2>3
  <2>5. older(b) \subseteq older(a)
    BY <1>1, <1>2, <2>3
  <2>6. older(a) \subseteq 0..(g.next_artifact - 1) /\ g.next_artifact - 1 \in Int
    BY <1>1
  <2> HIDE DEF older
  <2>7. /\ Cardinality(older(a)) \in Nat /\ Cardinality(older(b)) \in Nat
        /\ Cardinality(older(b)) <= Cardinality(older(a))
    BY <2>5, <2>6, Zenon DEF NumberFacts
  <2> QED
    BY <2>1, <2>2, <2>4, <2>7, ConfigAssumption
<1> QED
  BY <1>3, <1>4

(* h is g with the artifacts ids leased to submission id. *)
Leased(g, h, id, ids) ==
    /\ EgressInv(h)
    /\ h.next_artifact = g.next_artifact
    /\ DOMAIN h.pending = DOMAIN g.pending \cup {id}
    /\ \A i \in DOMAIN g.pending : h.pending[i] = g.pending[i]
    /\ h.pending[id] = ids
    /\ DOMAIN h.artifacts = DOMAIN g.artifacts
    /\ \A a \in DOMAIN g.artifacts :
          /\ h.artifacts[a].state = IF a \in ids THEN "Pending" ELSE g.artifacts[a].state
          /\ h.artifacts[a].channel_ids = g.artifacts[a].channel_ids
          /\ h.artifacts[a].frames = g.artifacts[a].frames
          /\ h.artifacts[a].blob = g.artifacts[a].blob

(* A lease under a fresh submission id takes artifacts no other submission has. *)
LEMMA LeaseFacts ==
    ASSUME NumberFacts, NEW g, EgressInv(g), NEW id, id \notin DOMAIN g.pending, NextLease(g) # {}
    PROVE  Leased(g, Lease(g, id), id, NextLease(g))
<1> DEFINE ids == NextLease(g)
           r == SetState(g, ids, "Pending")
           h == Lease(g, id)
<1>1. ids \subseteq InState(g, "Ready")
  BY NextLeaseIsReady
<1>2. /\ EgressShape(r) /\ r.pending = g.pending /\ r.next_artifact = g.next_artifact
      /\ DOMAIN r.artifacts = DOMAIN g.artifacts
      /\ \A a \in DOMAIN g.artifacts :
            /\ r.artifacts[a].state = IF a \in ids THEN "Pending" ELSE g.artifacts[a].state
            /\ r.artifacts[a].channel_ids = g.artifacts[a].channel_ids
            /\ r.artifacts[a].frames = g.artifacts[a].frames
            /\ r.artifacts[a].blob = g.artifacts[a].blob
  BY SetStateFacts DEF States, EgressInv
<1>3. h = [r EXCEPT !.pending = Put(@, id, ids)]
  BY DEF Lease
<1> HIDE DEF h, r, ids
<1>4. /\ DOMAIN h = EgressFields /\ h.artifacts = r.artifacts
      /\ h.next_artifact = r.next_artifact /\ h.pending = Put(g.pending, id, ids)
  BY <1>2, <1>3 DEF EgressShape, EgressFields, NewEgress
<1>5. EgressShape(h)
  BY <1>2, <1>4 DEF EgressShape
<1>6. /\ DOMAIN h.pending = DOMAIN g.pending \cup {id} /\ h.pending[id] = ids
      /\ \A i \in DOMAIN g.pending : h.pending[i] = g.pending[i]
  BY <1>4 DEF Put
<1>7. InState(h, "Pending") = InState(g, "Pending") \cup ids
  BY <1>1, <1>2, <1>4 DEF InState
<1>8. ids \cap InState(g, "Pending") = {}
  BY <1>1 DEF InState
<1>9. LeasesExact(h)
  <2>1. ASSUME NEW i \in DOMAIN h.pending
        PROVE  h.pending[i] # {} /\ AllPending(h, h.pending[i])
    BY <1>6, <1>7 DEF EgressInv, LeasesExact, AllPending, ids
  <2>2. ASSUME NEW i \in DOMAIN h.pending, NEW j \in DOMAIN h.pending, i # j
        PROVE  h.pending[i] \cap h.pending[j] = {}
    BY <1>6, <1>8, <2>2 DEF EgressInv, LeasesExact, AllPending
  <2>3. ASSUME NEW a \in InState(h, "Pending")
        PROVE  \E i \in DOMAIN h.pending : a \in h.pending[i]
    BY <1>6, <1>7 DEF EgressInv, LeasesExact
  <2> QED
    BY <2>1, <2>2, <2>3 DEF LeasesExact
<1> QED
  BY <1>2, <1>4, <1>5, <1>6, <1>9 DEF Leased, EgressInv, h, ids

(* Forgetting artifacts and the leases left empty keeps the others exact. *)
LEMMA ForgetsKeepsInv ==
    ASSUME NEW g, EgressInv(g), NEW h, NEW gone, Forgets(g, h, gone)
    PROVE  EgressInv(h)
<1>1. EgressShape(h)
  BY DEF Forgets, EgressInv, EgressShape
<1>2. InState(h, "Pending") = InState(g, "Pending") \ gone
  BY DEF Forgets, InState
<1>3. ASSUME NEW i \in DOMAIN h.pending
      PROVE  h.pending[i] # {} /\ AllPending(h, h.pending[i])
  BY <1>2 DEF Forgets, EgressInv, LeasesExact, AllPending
<1>4. ASSUME NEW i \in DOMAIN h.pending, NEW j \in DOMAIN h.pending, i # j
      PROVE  h.pending[i] \cap h.pending[j] = {}
  BY <1>4 DEF Forgets, EgressInv, LeasesExact
<1>5. ASSUME NEW a \in InState(h, "Pending")
      PROVE  \E i \in DOMAIN h.pending : a \in h.pending[i]
  <2>1. a \in InState(g, "Pending") /\ a \notin gone
    BY <1>2
  <2>2. PICK i \in DOMAIN g.pending : a \in g.pending[i]
    BY <2>1 DEF EgressInv, LeasesExact
  <2> QED
    BY <2>1, <2>2 DEF Forgets
<1> QED
  BY <1>1, <1>3, <1>4, <1>5 DEF EgressInv, LeasesExact

(* prune_channels forgets the artifacts only safe channels contributed to. *)
LEMMA PruneChannelsForgets ==
    ASSUME NEW g, EgressInv(g), NEW safe_ids
    PROVE  LET h == PruneChannels(g, safe_ids)
           IN  /\ \E gone \in SUBSET DOMAIN g.artifacts : Forgets(g, h, gone)
               /\ \A a \in DOMAIN h.artifacts :
                     h.artifacts[a].channel_ids = g.artifacts[a].channel_ids \ safe_ids
<1> DEFINE h == PruneChannels(g, safe_ids)
           gone == {a \in DOMAIN g.artifacts : g.artifacts[a].channel_ids \subseteq safe_ids}
           kept == {a \in DOMAIN g.artifacts : ~(g.artifacts[a].channel_ids \subseteq safe_ids)}
           leased == {i \in DOMAIN g.pending : g.pending[i] \cap kept # {}}
<1>1. /\ DOMAIN h = EgressFields /\ h.next_artifact = g.next_artifact
      /\ h.artifacts = [a \in kept |-> [g.artifacts[a] EXCEPT !.channel_ids = @ \ safe_ids]]
      /\ h.pending = [i \in leased |-> g.pending[i] \cap kept]
  BY DEF PruneChannels, EgressInv, EgressShape, EgressFields, NewEgress
<1>2. kept = DOMAIN g.artifacts \ gone
  OBVIOUS
<1>3. \A i \in DOMAIN g.pending : g.pending[i] \subseteq DOMAIN g.artifacts
  BY DEF EgressInv, LeasesExact, AllPending, InState
<1> HIDE DEF h
<1>4. ASSUME NEW a \in kept
      PROVE  /\ ArtifactShape(h.artifacts[a])
             /\ h.artifacts[a].state = g.artifacts[a].state
             /\ h.artifacts[a].frames = g.artifacts[a].frames
             /\ h.artifacts[a].blob = g.artifacts[a].blob
             /\ h.artifacts[a].channel_ids = g.artifacts[a].channel_ids \ safe_ids
  <2>1. ArtifactShape(g.artifacts[a]) /\ ~(g.artifacts[a].channel_ids \subseteq safe_ids)
    BY DEF EgressInv, EgressShape
  <2> HIDE DEF kept
  <2>2. h.artifacts[a] = [g.artifacts[a] EXCEPT !.channel_ids = @ \ safe_ids]
    BY <1>1
  <2> QED
    BY <2>1, <2>2 DEF ArtifactShape, ArtifactFields
<1>5. \A i \in DOMAIN g.pending : g.pending[i] \cap kept = g.pending[i] \ gone
  BY <1>2, <1>3
<1>6. leased = {i \in DOMAIN g.pending : ~(g.pending[i] \subseteq gone)}
  BY <1>5
<1>8. gone \in SUBSET DOMAIN g.artifacts
  OBVIOUS
<1> HIDE DEF kept, gone, leased
<1>7. Forgets(g, h, gone)
  BY <1>1, <1>2, <1>4, <1>5, <1>6, Zenon DEF Forgets, leased
<1> QED
  BY <1>1, <1>4, <1>7, <1>8 DEF h

(* invalidate forgets the artifacts it is given, when no lease is cut in two. *)
LEMMA InvalidateArtifactsForgets ==
    ASSUME NEW g, EgressInv(g), NEW ids,
           \A i \in DOMAIN g.pending : g.pending[i] \cap ids # {} => g.pending[i] \subseteq ids
    PROVE  LET h == InvalidateArtifacts(g, ids)
           IN  /\ Forgets(g, h, ids)
               /\ \A a \in DOMAIN h.artifacts : h.artifacts[a] = g.artifacts[a]
<1> DEFINE h == InvalidateArtifacts(g, ids)
           untouched == {i \in DOMAIN g.pending : g.pending[i] \cap ids = {}}
<1>1. /\ DOMAIN h = EgressFields /\ h.next_artifact = g.next_artifact
      /\ h.artifacts = Restrict(g.artifacts, DOMAIN g.artifacts \ ids)
      /\ h.pending = Restrict(g.pending, untouched)
  BY DEF InvalidateArtifacts, EgressInv, EgressShape, EgressFields, NewEgress
<1>2. untouched = {i \in DOMAIN g.pending : ~(g.pending[i] \subseteq ids)}
  BY DEF EgressInv, LeasesExact
<1>3. \A i \in untouched : g.pending[i] = g.pending[i] \ ids
  OBVIOUS
<1> HIDE DEF h, untouched
<1>4. DOMAIN h.artifacts = DOMAIN g.artifacts \ ids
  BY <1>1 DEF Restrict
<1>5. \A a \in DOMAIN h.artifacts : h.artifacts[a] = g.artifacts[a] /\ ArtifactShape(h.artifacts[a])
  BY <1>1 DEF Restrict, EgressInv, EgressShape
<1>6. DOMAIN h.pending = untouched /\ \A i \in DOMAIN h.pending : h.pending[i] = g.pending[i] \ ids
  BY <1>1, <1>3 DEF Restrict
<1>7. Forgets(g, h, ids)
  BY <1>1, <1>2, <1>4, <1>5, <1>6, Zenon DEF Forgets
<1> QED
  BY <1>5, <1>7 DEF h

(* reset forgets every artifact; identifiers go on. *)
LEMMA ResetEgressForgets ==
    ASSUME NEW g, EgressInv(g)
    PROVE  LET h == ResetEgress(g)
           IN  /\ Forgets(g, h, DOMAIN g.artifacts)
               /\ DOMAIN h.artifacts = {}
<1> DEFINE h == ResetEgress(g)
<1>1. /\ DOMAIN h = EgressFields /\ h.next_artifact = g.next_artifact
      /\ DOMAIN h.artifacts = {} /\ DOMAIN h.pending = {}
  BY DEF ResetEgress, EgressInv, EgressShape, EgressFields, NewEgress
<1>2. \A i \in DOMAIN g.pending : g.pending[i] \subseteq DOMAIN g.artifacts
  BY DEF EgressInv, LeasesExact, AllPending, InState
<1> QED
  BY <1>1, <1>2 DEF Forgets

-----------------------------------------------------------------------------
(***************************************************************************)
(* Each method as a whole.  A method that takes artifacts away also says   *)
(* which, and a method that settles or leases says what moved, for the     *)
(* proof that the encoder implements DaLedger.                             *)
(***************************************************************************)

EncoderInv(e) == QueueInv(e) /\ LedgerInv(e)

(* From e to f some artifacts are forgotten, and that is all the ledger sees. *)
LedgerForgets(e, f) ==
    /\ f.next_id = e.next_id
    /\ \E gone \in SUBSET DOMAIN e.egress.artifacts : Forgets(e.egress, f.egress, gone)

(* From e to f ready artifacts are added, and that is all the ledger sees. *)
LedgerGrows(e, f) ==
    /\ f.next_id = e.next_id
    /\ f.egress.pending = e.egress.pending
    /\ f.egress.next_artifact >= e.egress.next_artifact
    /\ DOMAIN f.egress.artifacts
          = DOMAIN e.egress.artifacts \cup e.egress.next_artifact..(f.egress.next_artifact - 1)
    /\ \A a \in DOMAIN e.egress.artifacts : f.egress.artifacts[a] = e.egress.artifacts[a]
    /\ \A a \in e.egress.next_artifact..(f.egress.next_artifact - 1) :
          f.egress.artifacts[a].state = "Ready"

(* From e to f one submission is issued: what it leases was ready, or is new. *)
LedgerSubmits(e, f) ==
    LET lease == f.egress.pending[e.next_id]
    IN  /\ f.next_id = e.next_id + 1
        /\ f.egress.next_artifact >= e.egress.next_artifact
        /\ DOMAIN f.egress.pending = DOMAIN e.egress.pending \cup {e.next_id}
        /\ \A id \in DOMAIN e.egress.pending : f.egress.pending[id] = e.egress.pending[id]
        /\ lease # {} /\ lease \subseteq DOMAIN f.egress.artifacts
        /\ \A a \in lease, b \in InState(f.egress, "Ready") : a < b
        /\ DOMAIN e.egress.artifacts \subseteq DOMAIN f.egress.artifacts
        /\ \A a \in DOMAIN e.egress.artifacts :
              /\ f.egress.artifacts[a].frames = e.egress.artifacts[a].frames
              /\ f.egress.artifacts[a].blob = e.egress.artifacts[a].blob
              /\ a \notin lease => f.egress.artifacts[a].state = e.egress.artifacts[a].state
              /\ a \in lease => /\ e.egress.artifacts[a].state = "Ready"
                               /\ f.egress.artifacts[a].state = "Pending"
        /\ \A a \in DOMAIN f.egress.artifacts \ DOMAIN e.egress.artifacts :
              /\ a \in e.egress.next_artifact..(f.egress.next_artifact - 1)
              /\ f.egress.artifacts[a].state = IF a \in lease THEN "Pending" ELSE "Ready"

(* From e to f submission id ends and what it leased goes to `state'. *)
LedgerSettles(e, f, id, state) ==
    /\ id \in DOMAIN e.egress.pending
    /\ f.next_id = e.next_id
    /\ f.egress.next_artifact = e.egress.next_artifact
    /\ f.egress.pending = Restrict(e.egress.pending, DOMAIN e.egress.pending \ {id})
    /\ DOMAIN f.egress.artifacts = DOMAIN e.egress.artifacts
    /\ \A a \in DOMAIN e.egress.artifacts :
          /\ f.egress.artifacts[a].frames = e.egress.artifacts[a].frames
          /\ f.egress.artifacts[a].blob = e.egress.artifacts[a].blob
          /\ f.egress.artifacts[a].state =
                IF a \in e.egress.pending[id] THEN state ELSE e.egress.artifacts[a].state

-----------------------------------------------------------------------------
(* A new encoder. *)
LEMMA NewEncoderInv == EncoderInv(NewEncoder) /\ AllFilled(NewEncoder)
<1>1. /\ NewEncoder.egress = NewEgress /\ NewEncoder.next_id = 0
      /\ NewEgress.artifacts = <<>> /\ NewEgress.pending = <<>>
  BY DEF NewEncoder, NewEgress
<1>2. LedgerInv(NewEncoder)
  BY <1>1, NewEgressInv DEF LedgerInv
<1> QED
  BY <1>2, NewEncoderQueue DEF EncoderInv

(* Replaying everything is always closed, so invalidate_channel's expansion ends. *)
LEMMA ReplayFromFirstIsClosed ==
    ASSUME NEW e, EncoderInv(e)
    PROVE  ReplayClosed(e, 1)
<1>1. {e.channels[i].id : i \in 1..Len(e.channels)} = LiveIds(e)
  BY DEF LiveIds
<1>2. \A i \in DOMAIN e.egress.pending : e.egress.pending[i] \subseteq DOMAIN e.egress.artifacts
  BY DEF EncoderInv, LedgerInv, EgressInv, LeasesExact, AllPending, InState
<1> QED
  BY <1>1, <1>2 DEF ReplayClosed, EncoderInv, LedgerInv

(* What a closed replay from r drops: no lease in part, and nothing of an earlier channel. *)
LEMMA ReplayedArtifactsClosed ==
    ASSUME NEW e, EncoderInv(e), NEW r \in 1..Len(e.channels), ReplayClosed(e, r)
    PROVE  LET gone == ReplayedArtifacts(e, r)
           IN  /\ gone \subseteq DOMAIN e.egress.artifacts
               /\ \A id \in DOMAIN e.egress.pending :
                     e.egress.pending[id] \cap gone # {} => e.egress.pending[id] \subseteq gone
               /\ \A a \in DOMAIN e.egress.artifacts \ gone :
                     e.egress.artifacts[a].channel_ids
                         \subseteq {e.channels[i].id : i \in 1..(r - 1)}
<1> DEFINE g == e.egress
           n == Len(e.channels)
           replayed == {e.channels[i].id : i \in r..n}
           gone == ReplayedArtifacts(e, r)
           touched == {a \in DOMAIN g.artifacts : g.artifacts[a].channel_ids \cap replayed # {}}
<1>1. gone = touched
  BY DEF ReplayedArtifacts
<1>2. n \in Nat
  BY SequenceShape DEF EncoderInv, QueueInv, QueueShape
<1>3. ASSUME NEW id \in DOMAIN g.pending, g.pending[id] \cap touched # {},
             NEW a \in g.pending[id]
      PROVE  a \in touched
  <2>1. g.artifacts[a].channel_ids \subseteq replayed
    BY <1>3 DEF ReplayClosed
  <2>2. a \in DOMAIN g.artifacts /\ g.artifacts[a].channel_ids # {}
    BY Zenon DEF EncoderInv, LedgerInv, EgressInv, EgressShape, ArtifactShape, LeasesExact,
           AllPending, InState
  <2> QED
    BY <2>1, <2>2
<1>4. ASSUME NEW a \in DOMAIN g.artifacts, a \notin touched, NEW id \in g.artifacts[a].channel_ids
      PROVE  id \in {e.channels[i].id : i \in 1..(r - 1)}
  <2>1. id \in LiveIds(e) /\ id \notin replayed
    BY <1>4 DEF EncoderInv, LedgerInv
  <2>2. PICK i \in 1..n : id = e.channels[i].id
    BY <2>1 DEF LiveIds
  <2>3. i \in 1..(r - 1)
    BY <1>2, <2>1, <2>2
  <2> QED
    BY <2>2, <2>3
<1> HIDE DEF touched, gone
<1> QED
  BY <1>1, <1>3, <1>4 DEF gone, touched

(* Cutting the queue before channel r and moving the cursor back to where r starts. *)
LEMMA CutQueue ==
    ASSUME NumberFacts, NEW e, QueueInv(e), NEW r \in 1..Len(e.channels), NEW f,
           DOMAIN f = EncoderFields, f.blocks = e.blocks,
           f.channels = SubSeq(e.channels, 1, r - 1),
           f.block_cursor = Min({e.block_cursor, e.channels[r].block_start})
    PROVE  /\ QueueInv(f) /\ (AllFilled(e) => AllFilled(f))
           /\ LiveIds(f) = {e.channels[i].id : i \in 1..(r - 1)}
<1> DEFINE n == Len(e.channels)
           start == e.channels[r].block_start
<1>1. n \in Nat /\ r \in Nat /\ r <= n /\ IsSequence(e.channels)
  BY SequenceShape DEF QueueInv, QueueShape
<1>2. /\ IsSequence(f.channels) /\ Len(f.channels) = r - 1
      /\ \A i \in 1..(r - 1) : f.channels[i] = e.channels[i]
  <2>1. 1 \in 1..(n + 1) /\ r - 1 \in 0..n
    BY <1>1
  <2> QED
    BY <1>1, <2>1, SubSeqSequence
<1>3. start \in Nat /\ e.block_cursor \in Nat /\ start <= e.block_cursor
  <2>1. ChannelShape(e.channels[r]) /\ e.block_cursor \in Nat
    BY DEF QueueInv, QueueShape
  <2>2. RangeEnd(e.channels[r]) <= e.block_cursor
    BY DEF QueueInv, Ordered
  <2> QED
    BY <2>1, <2>2 DEF ChannelShape, RangeEnd
<1>4. f.block_cursor = start
  <2> DEFINE S == {e.block_cursor, start}
  <2>1. S \subseteq Nat /\ S # {} /\ start \in S
    BY <1>3
  <2>2. Min(S) \in S /\ Min(S) <= start
    BY <2>1, MinOfNats, Zenon
  <2> QED
    BY <1>3, <2>2
<1>5. QueueShape(f)
  BY <1>1, <1>2, <1>3, <1>4 DEF QueueInv, QueueShape
<1>6. Tiling(f)
  BY <1>1, <1>2, <1>3, <1>4 DEF QueueInv, QueueShape, Tiling
<1>7. Ordered(f)
  <2>1. ASSUME NEW i \in 1..(r - 1), NEW j \in 1..(r - 1), i < j
        PROVE  RangeEnd(f.channels[i]) <= f.channels[j].block_start
    BY <1>1, <1>2, <2>1, SMTT(30) DEF QueueInv, Ordered
  <2>2. ASSUME NEW i \in 1..(r - 1)
        PROVE  RangeEnd(f.channels[i]) <= f.block_cursor
    BY <1>1, <1>2, <1>4 DEF QueueInv, Ordered
  <2> QED
    BY <1>2, <2>1, <2>2, Zenon DEF Ordered
<1>8. OnlyTailOpen(f) /\ (AllFilled(e) => AllFilled(f))
  BY <1>1, <1>2 DEF QueueInv, OnlyTailOpen, AllFilled
<1>9. LiveIds(f) = {e.channels[i].id : i \in 1..(r - 1)}
  BY <1>2 DEF LiveIds
<1> QED
  BY <1>5, <1>6, <1>7, <1>8, <1>9 DEF QueueInv

(* invalidate_channel: the expanded replay keeps the ranges and drops whole transactions. *)
LEMMA InvalidateChannelInv ==
    ASSUME NumberFacts, NEW e, EncoderInv(e), NEW idx \in 1..Len(e.channels)
    PROVE  LET f == InvalidateChannel(e, idx)
           IN  /\ EncoderInv(f) /\ (AllFilled(e) => AllFilled(f))
               /\ LedgerForgets(e, f)
<1> DEFINE S == {i \in 1..idx : ReplayClosed(e, i)}
           r == Max(S)
           gone == ReplayedArtifacts(e, r)
           f == InvalidateChannel(e, idx)
<1>1. Len(e.channels) \in Nat
  BY SequenceShape DEF EncoderInv, QueueInv, QueueShape
<1>2. r \in S
  <2>1. 1 \in S
    BY <1>1, ReplayFromFirstIsClosed
  <2>2. S \subseteq Nat /\ S # {} /\ idx \in Nat /\ \A y \in S : y <= idx
    BY <1>1, <2>1
  <2> HIDE DEF S
  <2> QED
    BY <2>2, MaxOfNats, Zenon
<1>3. r \in 1..Len(e.channels) /\ ReplayClosed(e, r)
  BY <1>1, <1>2
<1>4. /\ DOMAIN f = EncoderFields /\ f.blocks = e.blocks /\ f.next_id = e.next_id
      /\ f.channels = SubSeq(e.channels, 1, r - 1)
      /\ f.block_cursor = Min({e.block_cursor, e.channels[r].block_start})
      /\ f.egress = InvalidateArtifacts(e.egress, gone)
  BY Zenon DEF InvalidateChannel, EncoderInv, QueueInv, QueueShape, EncoderFields, NewEncoder
<1> HIDE DEF f, r, gone
<1>5. /\ gone \subseteq DOMAIN e.egress.artifacts
      /\ \A id \in DOMAIN e.egress.pending :
            e.egress.pending[id] \cap gone # {} => e.egress.pending[id] \subseteq gone
      /\ \A a \in DOMAIN e.egress.artifacts \ gone :
            e.egress.artifacts[a].channel_ids \subseteq {e.channels[i].id : i \in 1..(r - 1)}
  BY <1>3, ReplayedArtifactsClosed DEF gone
<1>6. /\ QueueInv(f) /\ (AllFilled(e) => AllFilled(f))
      /\ LiveIds(f) = {e.channels[i].id : i \in 1..(r - 1)}
  BY <1>3, <1>4, CutQueue, Zenon DEF EncoderInv
<1>7. EgressInv(e.egress)
  BY DEF EncoderInv, LedgerInv
<1>8. /\ Forgets(e.egress, f.egress, gone)
      /\ \A a \in DOMAIN f.egress.artifacts : f.egress.artifacts[a] = e.egress.artifacts[a]
  BY <1>4, <1>5, <1>7, InvalidateArtifactsForgets
<1>9. EgressInv(f.egress)
  BY <1>7, <1>8, ForgetsKeepsInv
<1>10. DOMAIN f.egress.artifacts = DOMAIN e.egress.artifacts \ gone
       /\ DOMAIN f.egress.pending \subseteq DOMAIN e.egress.pending
  BY <1>8 DEF Forgets
<1>11. \A a \in DOMAIN f.egress.artifacts : f.egress.artifacts[a].channel_ids \subseteq LiveIds(f)
  BY <1>5, <1>6, <1>8, <1>10
<1>12. LedgerInv(f)
  BY <1>4, <1>9, <1>10, <1>11 DEF LedgerInv, EncoderInv
<1>13. LedgerForgets(e, f)
  BY <1>4, <1>5, <1>8 DEF LedgerForgets
<1> QED
  BY <1>6, <1>12, <1>13 DEF EncoderInv, f

(* A replay if a channel expired; nothing forgotten otherwise. *)
LEMMA InvalidateExpiredInv ==
    ASSUME NumberFacts, NEW e, EncoderInv(e)
    PROVE  LET f == InvalidateExpiredChannels(e)
           IN  /\ EncoderInv(f) /\ (AllFilled(e) => AllFilled(f))
               /\ f = e \/ LedgerForgets(e, f)
<1> DEFINE S == {i \in DOMAIN e.channels : Expired(e, e.channels[i])}
<1>1. Len(e.channels) \in Nat /\ DOMAIN e.channels = 1..Len(e.channels)
  BY SequenceShape DEF EncoderInv, QueueInv, QueueShape
<1>2. CASE S = {}
  BY <1>2 DEF InvalidateExpiredChannels
<1>3. CASE S # {}
  <2>1. InvalidateExpiredChannels(e) = InvalidateChannel(e, Min(S))
    BY <1>3 DEF InvalidateExpiredChannels
  <2>2. S \subseteq Nat /\ S \subseteq 1..Len(e.channels)
    BY <1>1
  <2> HIDE DEF S
  <2>3. Min(S) \in 1..Len(e.channels)
    BY <1>3, <2>2, MinOfNats, Zenon
  <2> QED
    BY <2>1, <2>3, InvalidateChannelInv
<1> QED
  BY <1>2, <1>3

-----------------------------------------------------------------------------
(* Saturating subtraction, as prune_safe and rebase_after_prune use it. *)
LEMMA MonusFacts ==
    ASSUME NEW a \in Nat, NEW b \in Nat, NEW k \in Nat
    PROVE  /\ Monus(a, k) \in Nat
           /\ a <= b => Monus(a, k) <= Monus(b, k)
           /\ a <= k => Monus(a, k) = 0
           /\ a > k => Monus(a, k) = a - k
BY DEF Monus

(* A block range is a pair of naturals. *)
LEMMA ShapeRange ==
    ASSUME NEW c, ChannelShape(c)
    PROVE  c.block_start \in Nat /\ RangeEnd(c) \in Nat /\ c.block_start <= RangeEnd(c)
BY DEF ChannelShape, RangeEnd

(* A channel that is partly safe keeps the unsafe end of its range. *)
LEMMA RebaseRange ==
    ASSUME NEW c, ChannelShape(c), NEW count \in Nat
    PROVE  LET d == RebaseAfterPrune(c, count)
           IN  /\ ChannelShape(d) /\ d.id = c.id /\ d.open = c.open
               /\ d.block_start = Monus(c.block_start, count)
               /\ RangeEnd(d) = Monus(RangeEnd(c), count)
               /\ RangeEnd(c) > count /\ c.blocks_added > 0 => d.blocks_added > 0
<1> DEFINE d == RebaseAfterPrune(c, count)
           s == Monus(c.block_start, count)
           t == Monus(RangeEnd(c), count)
<1>1. /\ c.block_start \in Nat /\ c.blocks_added \in Nat /\ RangeEnd(c) \in Nat
      /\ RangeEnd(c) = c.block_start + c.blocks_added
  BY DEF ChannelShape, RangeEnd
<1>2. s \in Nat /\ t \in Nat /\ s <= t
  BY <1>1, MonusFacts, SMTT(30)
<1>3. /\ DOMAIN d = ChannelFields /\ d.id = c.id /\ d.open = c.open
      /\ d.block_start = s /\ d.blocks_added = Monus(t, s)
  BY DEF RebaseAfterPrune, ChannelShape, ChannelFields, NewChannel
<1>4. d.blocks_added = t - s
  BY <1>2, <1>3 DEF Monus
<1>5. RangeEnd(c) > count /\ c.blocks_added > 0 => t - s > 0
  BY <1>1 DEF Monus
<1> HIDE DEF d, s, t
<1>6. ChannelShape(d)
  BY <1>2, <1>3, <1>4 DEF ChannelShape
<1>7. RangeEnd(d) = t
  BY <1>2, <1>3, <1>4 DEF RangeEnd
<1> QED
  BY <1>3, <1>4, <1>5, <1>6, <1>7 DEF d, s, t

(* The channels prune_safe pops are the longest covered prefix. *)
LEMMA CoveredPrefix ==
    ASSUME NumberFacts, NEW e, QueueInv(e), NEW count \in Nat
    PROVE  LET k == Covered(e, count)
           IN  /\ k \in 0..Len(e.channels)
               /\ \A j \in 1..k : RangeEnd(e.channels[j]) <= count
               /\ \A j \in (k + 1)..Len(e.channels) : RangeEnd(e.channels[j]) > count
<1> DEFINE n == Len(e.channels)
           S == {k \in 0..n : \A j \in 1..k : RangeEnd(e.channels[j]) <= count}
           m == Max(S)
<1>1. n \in Nat /\ \A j \in 1..n : ChannelShape(e.channels[j])
  BY SequenceShape DEF QueueInv, QueueShape
<1>2. m \in S /\ \A y \in S : m >= y
  <2>1. 0 \in S
    BY <1>1
  <2>2. S \subseteq Nat /\ S # {} /\ \A y \in S : y <= n
    BY <1>1, <2>1
  <2> HIDE DEF S
  <2> QED
    BY <1>1, <2>2, MaxOfNats, Zenon
<1> HIDE DEF m
<1>3. m \in 0..n /\ \A j \in 1..m : RangeEnd(e.channels[j]) <= count
  BY <1>2
<1>4. ASSUME m < n
      PROVE  RangeEnd(e.channels[m + 1]) > count
  <2>1. m + 1 \in 0..n /\ m + 1 \notin S
    BY <1>1, <1>2, <1>3, <1>4
  <2>2. PICK j \in 1..(m + 1) : ~(RangeEnd(e.channels[j]) <= count)
    BY <2>1
  <2>3. j = m + 1
    BY <1>3, <2>2
  <2>4. ChannelShape(e.channels[m + 1])
    BY <1>1, <1>3, <1>4
  <2> QED
    BY <2>2, <2>3, <2>4 DEF ChannelShape, RangeEnd
<1>5. ASSUME NEW j \in (m + 1)..n
      PROVE  RangeEnd(e.channels[j]) > count
  <2>1. m < n /\ m + 1 \in 1..n /\ j \in 1..n
    BY <1>1, <1>3
  <2>2. CASE j = m + 1
    BY <1>4, <2>1, <2>2
  <2>3. CASE j > m + 1
    <3>1. RangeEnd(e.channels[m + 1]) <= e.channels[j].block_start
      BY <1>3, <2>1, <2>3 DEF QueueInv, Ordered
    <3>2. ChannelShape(e.channels[m + 1]) /\ ChannelShape(e.channels[j])
      BY <1>1, <2>1
    <3>3. /\ RangeEnd(e.channels[m + 1]) \in Nat /\ RangeEnd(e.channels[j]) \in Nat
          /\ e.channels[j].block_start \in Nat
          /\ e.channels[j].block_start <= RangeEnd(e.channels[j])
      BY <3>2, ShapeRange
    <3>4. RangeEnd(e.channels[m + 1]) > count
      BY <1>4, <2>1
    <3> QED
      BY <3>1, <3>3, <3>4
  <2> QED
    BY <1>3, <2>2, <2>3
<1> QED
  BY <1>3, <1>5, Zenon DEF Covered, m

(* Pruning `count' blocks pops the covered channels and shifts the others. *)
LEMMA PruneQueue ==
    ASSUME NumberFacts, NEW e, QueueInv(e), NEW count \in 1..Len(e.blocks), NEW safe
    PROVE  LET f == PruneBlocks(e, safe, count)
           IN  /\ QueueInv(f) /\ (AllFilled(e) => AllFilled(f))
               /\ LiveIds(f) = {e.channels[i].id : i \in (Covered(e, count) + 1)..Len(e.channels)}
<1> DEFINE n == Len(e.channels)
           k == Covered(e, count)
           kept == SubSeq(e.channels, k + 1, n)
           f == PruneBlocks(e, safe, count)
<1>1. /\ n \in Nat /\ IsSequence(e.channels) /\ \A j \in 1..n : ChannelShape(e.channels[j])
      /\ e.block_cursor \in Nat /\ Len(e.blocks) \in Nat /\ count \in Nat
      /\ e.block_cursor <= Len(e.blocks)
  BY SequenceShape DEF QueueInv, QueueShape, Tiling
<1>2. /\ k \in 0..n
      /\ \A j \in 1..k : RangeEnd(e.channels[j]) <= count
      /\ \A j \in (k + 1)..n : RangeEnd(e.channels[j]) > count
  BY <1>1, CoveredPrefix, Zenon
<1>3. /\ DOMAIN f = EncoderFields /\ f.blocks = SubSeq(e.blocks, count + 1, Len(e.blocks))
      /\ f.block_cursor = Monus(e.block_cursor, count)
      /\ f.channels = [i \in DOMAIN kept |-> RebaseAfterPrune(kept[i], count)]
  BY Zenon DEF PruneBlocks, QueueInv, QueueShape, EncoderFields, NewEncoder
<1>4. f.blocks \in Seq(Block) /\ Len(f.blocks) = Len(e.blocks) - count
  BY <1>1, <1>3 DEF QueueInv, QueueShape
<1> HIDE DEF f, k
<1>5. /\ IsSequence(kept) /\ Len(kept) = n - k /\ DOMAIN kept = 1..(n - k)
      /\ \A i \in 1..(n - k) : kept[i] = e.channels[k + i]
  <2>1. k + 1 \in 1..(n + 1) /\ n \in k..n
    BY <1>1, <1>2
  <2>2. /\ IsSequence(kept) /\ Len(kept) = n - (k + 1) + 1
        /\ \A i \in 1..(n - (k + 1) + 1) : kept[i] = e.channels[k + 1 + i - 1]
    BY <1>1, <1>2, <2>1, SubSeqSequence
  <2>3. n - (k + 1) + 1 = n - k /\ \A i \in 1..(n - k) : k + 1 + i - 1 = k + i
    BY <1>1, <1>2
  <2> QED
    BY <2>2, <2>3, SequenceShape, Zenon
<1> HIDE DEF kept
<1>6. IsSequence(f.channels) /\ Len(f.channels) = n - k
  <2>1. f.channels = [i \in 1..(n - k) |-> f.channels[i]]
    BY <1>3, <1>5
  <2> QED
    BY <1>1, <1>2, <2>1, FunctionIsSequence
<1>7. ASSUME NEW i \in 1..(n - k)
      PROVE  /\ k + i \in (k + 1)..n /\ k + i \in 1..n
             /\ f.channels[i] = RebaseAfterPrune(e.channels[k + i], count)
             /\ ChannelShape(f.channels[i])
             /\ f.channels[i].id = e.channels[k + i].id
             /\ f.channels[i].open = e.channels[k + i].open
             /\ f.channels[i].block_start = Monus(e.channels[k + i].block_start, count)
             /\ RangeEnd(f.channels[i]) = Monus(RangeEnd(e.channels[k + i]), count)
             /\ e.channels[k + i].blocks_added > 0 => f.channels[i].blocks_added > 0
  <2>1. k + i \in (k + 1)..n /\ k + i \in 1..n
    BY <1>1, <1>2
  <2>2. f.channels[i] = RebaseAfterPrune(e.channels[k + i], count)
    BY <1>3, <1>5
  <2>3. ChannelShape(e.channels[k + i]) /\ RangeEnd(e.channels[k + i]) > count
    BY <1>1, <1>2, <2>1
  <2> DEFINE c == e.channels[k + i]
             d == f.channels[i]
  <2>4. ChannelShape(c) /\ RangeEnd(c) > count /\ d = RebaseAfterPrune(c, count)
    BY <2>2, <2>3
  <2> HIDE DEF c, d
  <2>5. /\ ChannelShape(d) /\ d.id = c.id /\ d.open = c.open
        /\ d.block_start = Monus(c.block_start, count)
        /\ RangeEnd(d) = Monus(RangeEnd(c), count)
        /\ c.blocks_added > 0 => d.blocks_added > 0
    BY <1>1, <2>4, RebaseRange, SMTT(30)
  <2> QED
    BY <2>1, <2>2, <2>5 DEF c, d
<1>8. QueueShape(f)
  <2>1. f.block_cursor \in Nat
    BY <1>1, <1>3, MonusFacts, ZenonT(30)
  <2> QED
    BY <1>3, <1>4, <1>6, <1>7, <2>1, Zenon DEF QueueShape
<1>9. Tiling(f)
  <2>1. f.block_cursor <= Len(f.blocks)
    BY <1>1, <1>3, <1>4 DEF Monus
  <2>2. n - k = 0 => f.block_cursor = 0
    <3> SUFFICES ASSUME n - k = 0 PROVE f.block_cursor = 0
      OBVIOUS
    <3>1. e.block_cursor <= count
      BY <1>1, <1>2 DEF QueueInv, Tiling
    <3> QED
      BY <1>1, <1>3, <3>1, MonusFacts, Zenon
  <2>3. n - k > 0 => f.channels[1].block_start = 0
    <3> SUFFICES ASSUME n - k > 0 PROVE f.channels[1].block_start = 0
      OBVIOUS
    <3>1. 1 \in 1..(n - k) /\ k + 1 \in 1..n
      BY <1>1, <1>2
    <3>2. e.channels[k + 1].block_start \in Nat
      BY <1>1, <3>1 DEF ChannelShape
    <3>3. e.channels[k + 1].block_start <= count
      <4>1. CASE k = 0
        BY <1>1, <1>2, <3>1, <4>1 DEF QueueInv, Tiling
      <4>2. CASE k > 0
        <5>1. k \in 1..(n - 1) /\ k \in 1..k
          BY <1>1, <1>2, <3>1, <4>2
        <5>2. RangeEnd(e.channels[k]) = e.channels[k + 1].block_start
          BY <5>1 DEF QueueInv, Tiling
        <5>3. RangeEnd(e.channels[k]) <= count
          BY <1>2, <5>1
        <5> QED
          BY <5>2, <5>3
      <4> QED
        BY <1>2, <4>1, <4>2
    <3>4. Monus(e.channels[k + 1].block_start, count) = 0
      BY <1>1, <3>2, <3>3, MonusFacts, Zenon
    <3> QED
      BY <1>7, <3>1, <3>4
  <2>4. ASSUME NEW i \in 1..(n - k - 1)
        PROVE  RangeEnd(f.channels[i]) = f.channels[i + 1].block_start
    <3>1. /\ i \in 1..(n - k) /\ i + 1 \in 1..(n - k) /\ k + i \in 1..(n - 1)
          /\ k + (i + 1) = (k + i) + 1
      BY <1>1, <1>2
    <3>2. RangeEnd(e.channels[k + i]) = e.channels[k + i + 1].block_start
      BY <3>1 DEF QueueInv, Tiling
    <3> QED
      BY <1>7, <3>1, <3>2
  <2>5. n - k > 0 => RangeEnd(f.channels[n - k]) = f.block_cursor
    <3> SUFFICES ASSUME n - k > 0 PROVE RangeEnd(f.channels[n - k]) = f.block_cursor
      OBVIOUS
    <3>1. n - k \in 1..(n - k) /\ k + (n - k) = n /\ n > 0
      BY <1>1, <1>2
    <3>2. RangeEnd(e.channels[n]) = e.block_cursor
      BY <3>1 DEF QueueInv, Tiling
    <3> QED
      BY <1>3, <1>7, <3>1, <3>2, ZenonT(30)
  <2> QED
    BY <1>6, <2>1, <2>2, <2>3, <2>4, <2>5 DEF Tiling
<1>10. Ordered(f)
  <2>1. ASSUME NEW i \in 1..(n - k), NEW j \in 1..(n - k), i < j
        PROVE  RangeEnd(f.channels[i]) <= f.channels[j].block_start
    <3>1. k + i \in 1..n /\ k + j \in 1..n /\ k + i < k + j
      BY <1>1, <1>2, <1>7, <2>1
    <3>2. RangeEnd(e.channels[k + i]) <= e.channels[k + j].block_start
      BY <3>1 DEF QueueInv, Ordered
    <3>3. RangeEnd(e.channels[k + i]) \in Nat /\ e.channels[k + j].block_start \in Nat
      BY <1>1, <3>1, ShapeRange
    <3>4. Monus(RangeEnd(e.channels[k + i]), count) <= Monus(e.channels[k + j].block_start, count)
      BY <1>1, <3>2, <3>3, MonusFacts, Zenon
    <3> QED
      BY <1>7, <3>4
  <2>2. ASSUME NEW i \in 1..(n - k)
        PROVE  RangeEnd(f.channels[i]) <= f.block_cursor
    <3>1. k + i \in 1..n
      BY <1>7
    <3>2. RangeEnd(e.channels[k + i]) <= e.block_cursor
      BY <3>1 DEF QueueInv, Ordered
    <3>3. RangeEnd(e.channels[k + i]) \in Nat
      BY <1>1, <3>1, ShapeRange
    <3>4. Monus(RangeEnd(e.channels[k + i]), count) <= Monus(e.block_cursor, count)
      BY <1>1, <3>2, <3>3, MonusFacts, Zenon
    <3> QED
      BY <1>3, <1>7, <3>4, ZenonT(30)
  <2> QED
    BY <1>6, <2>1, <2>2 DEF Ordered
<1>11. OnlyTailOpen(f)
  <2> SUFFICES ASSUME NEW i \in 1..(n - k - 1)
               PROVE  ~f.channels[i].open
    BY <1>6 DEF OnlyTailOpen
  <2>1. i \in 1..(n - k) /\ k + i \in 1..(n - 1)
    BY <1>1, <1>2, SMTT(30)
  <2> QED
    BY <1>7, <2>1 DEF QueueInv, OnlyTailOpen
<1>12. AllFilled(e) => AllFilled(f)
  BY <1>6, <1>7 DEF AllFilled
<1>13. LiveIds(f) = {e.channels[i].id : i \in (k + 1)..n}
  <2>1. LiveIds(f) = {e.channels[k + i].id : i \in 1..(n - k)}
    BY <1>6, <1>7 DEF LiveIds
  <2>2. \A i \in (k + 1)..n : i - k \in 1..(n - k) /\ k + (i - k) = i
    BY <1>1, <1>2
  <2>3. \A i \in 1..(n - k) : k + i \in (k + 1)..n
    BY <1>7
  <2> QED
    BY <2>1, <2>2, <2>3, SMTT(30)
<1> QED
  BY <1>8, <1>9, <1>10, <1>11, <1>12, <1>13, SMTT(30) DEF QueueInv, f, k

(* Pruning a safe prefix keeps the encoder consistent and only forgets artifacts (prune_safe). *)
LEMMA PruneBlocksInv ==
    ASSUME NumberFacts, NEW e, EncoderInv(e), NEW count \in 1..Len(e.blocks), NEW safe
    PROVE  LET f == PruneBlocks(e, safe, count)
           IN  /\ EncoderInv(f) /\ (AllFilled(e) => AllFilled(f))
               /\ LedgerForgets(e, f)
<1> DEFINE n == Len(e.channels)
           k == Covered(e, count)
           safe_ids == {e.channels[i].id : i \in 1..k}
           f == PruneBlocks(e, safe, count)
<1>1. f.next_id = e.next_id /\ f.egress = PruneChannels(e.egress, safe_ids)
  BY DEF PruneBlocks, EncoderInv, QueueInv, QueueShape, EncoderFields, NewEncoder
<1>2. /\ QueueInv(f) /\ (AllFilled(e) => AllFilled(f))
      /\ LiveIds(f) = {e.channels[i].id : i \in (k + 1)..n}
  BY PruneQueue DEF EncoderInv
<1>3. n \in Nat /\ k \in 0..n
  <2>1. Len(e.blocks) \in Nat
    BY DEF EncoderInv, QueueInv, QueueShape
  <2> QED
    BY <2>1, SequenceShape, CoveredPrefix DEF EncoderInv, QueueInv, QueueShape
<1>4. EgressInv(e.egress)
  BY DEF EncoderInv, LedgerInv
<1> HIDE DEF f, k
<1>5. PICK gone \in SUBSET DOMAIN e.egress.artifacts :
         /\ Forgets(e.egress, f.egress, gone)
         /\ \A a \in DOMAIN f.egress.artifacts :
               f.egress.artifacts[a].channel_ids = e.egress.artifacts[a].channel_ids \ safe_ids
  <2> HIDE DEF safe_ids
  <2> QED  BY <1>1, <1>4, PruneChannelsForgets
<1>6. EgressInv(f.egress)
  BY <1>4, <1>5, ForgetsKeepsInv
<1>7. LiveIds(e) \ safe_ids \subseteq LiveIds(f)
  <2>1. \A i \in 1..n : i \in 1..k \/ i \in (k + 1)..n
    BY <1>3
  <2> QED
    BY <1>2, <2>1, SMTT(30) DEF LiveIds
<1>8. DOMAIN f.egress.artifacts \subseteq DOMAIN e.egress.artifacts
      /\ DOMAIN f.egress.pending \subseteq DOMAIN e.egress.pending
  BY <1>5, SMTT(30) DEF Forgets
<1>9. LedgerInv(f)
  <2>1. \A a \in DOMAIN f.egress.artifacts : f.egress.artifacts[a].channel_ids \subseteq LiveIds(f)
    BY <1>5, <1>7, <1>8, SMTT(30) DEF EncoderInv, LedgerInv
  <2> QED
    BY <1>1, <1>6, <1>8, <2>1, ZenonT(30) DEF EncoderInv, LedgerInv
<1>10. LedgerForgets(e, f)
  BY <1>1, <1>5, Zenon DEF LedgerForgets
<1> QED
  BY <1>2, <1>9, <1>10 DEF EncoderInv, f

(* An update of fields that are neither queue nor ledger keeps everything. *)
LEMMA IrrelevantFields ==
    ASSUME NEW e, EncoderInv(e), NEW f, DOMAIN f = EncoderFields,
           f.blocks = e.blocks, f.block_cursor = e.block_cursor, f.channels = e.channels,
           f.egress = e.egress, f.next_id = e.next_id
    PROVE  /\ EncoderInv(f) /\ (AllFilled(e) => AllFilled(f))
           /\ SameRanges(e, f) /\ SameLedger(e, f)
<1>1. SameRanges(e, f)
  BY DEF SameRanges, KeepsRange, EncoderInv, QueueInv, QueueShape
<1>2. SameLedger(e, f)
  BY SMTT(30) DEF SameLedger, LiveIds
<1> QED
  BY <1>1, <1>2, SameRangesKeepQueue, SameLedgerKeepsInv DEF EncoderInv

(* reconcile_derivation prunes what the safe head covers, or changes nothing. *)
LEMMA ReconcileDerivationInv ==
    ASSUME NumberFacts, NEW e, EncoderInv(e), NEW safe \in Block
    PROVE  LET f == ReconcileDerivation(e, safe)
           IN  /\ EncoderInv(f) /\ (AllFilled(e) => AllFilled(f))
               /\ SameLedger(e, f) \/ LedgerForgets(e, f)
<1> DEFINE f == ReconcileDerivation(e, safe)
<1>1. SameLedger(e, e)
  BY DEF SameLedger
<1>2. CASE ~SafeHeadMatches(e, safe)
  BY <1>1, <1>2 DEF ReconcileDerivation
<1>3. CASE SafeHeadMatches(e, safe) /\ e.blocks = <<>>
  <2>1. f = [e EXCEPT !.tip = safe]
    BY <1>3 DEF ReconcileDerivation, PruneSafe
  <2>2. /\ DOMAIN f = EncoderFields /\ f.blocks = e.blocks /\ f.block_cursor = e.block_cursor
        /\ f.channels = e.channels /\ f.egress = e.egress /\ f.next_id = e.next_id
    BY <2>1 DEF EncoderInv, QueueInv, QueueShape, EncoderFields, NewEncoder
  <2> HIDE DEF f
  <2> QED
    BY <2>2, IrrelevantFields DEF f
<1>4. CASE SafeHeadMatches(e, safe) /\ e.blocks # <<>> /\ PruneCount(e, safe) = 0
  BY <1>1, <1>4, SMTT(30) DEF ReconcileDerivation, PruneSafe
<1>5. CASE SafeHeadMatches(e, safe) /\ e.blocks # <<>> /\ PruneCount(e, safe) # 0
  <2>1. f = PruneBlocks(e, safe, PruneCount(e, safe))
    BY <1>5 DEF ReconcileDerivation, PruneSafe
  <2>2. PruneCount(e, safe) \in DOMAIN e.blocks
    BY <1>5, SMTT(30) DEF SafeHeadMatches
  <2>3. DOMAIN e.blocks = 1..Len(e.blocks)
    BY DEF EncoderInv, QueueInv, QueueShape
  <2> QED
    BY <2>1, <2>2, <2>3, PruneBlocksInv
<1> QED
  BY <1>2, <1>3, <1>4, <1>5, Zenon

(* advance_l1_head closes a timed-out tail and replays from the first expired channel. *)
LEMMA AdvanceL1HeadInv ==
    ASSUME NumberFacts, NEW e, EncoderInv(e), NEW l1, NEW finished
    PROVE  LET f == AdvanceL1Head(e, l1, finished)
           IN  /\ EncoderInv(f) /\ (AllFilled(e) => AllFilled(f))
               /\ SameLedger(e, f) \/ LedgerForgets(e, f)
<1> DEFINE moved == [e EXCEPT !.l1_head = Max({@, l1})]
           closes == l1 > e.l1_head /\ TimeoutDue(moved)
           shut == CloseCurrentChannel(moved, finished)
           closed == IF closes
                     THEN [shut EXCEPT !.deferred_step_error = CloseFails(moved, finished)]
                     ELSE moved
           f == AdvanceL1Head(e, l1, finished)
<1>1. f = IF e.deferred_step_error THEN moved ELSE InvalidateExpiredChannels(closed)
  BY DEF AdvanceL1Head
<1>2. /\ EncoderInv(moved) /\ (AllFilled(e) => AllFilled(moved)) /\ SameLedger(e, moved)
  <2>1. /\ DOMAIN moved = EncoderFields /\ moved.blocks = e.blocks
        /\ moved.block_cursor = e.block_cursor /\ moved.channels = e.channels
        /\ moved.egress = e.egress /\ moved.next_id = e.next_id
    BY DEF EncoderInv, QueueInv, QueueShape, EncoderFields, NewEncoder
  <2> HIDE DEF moved
  <2> QED
    BY <2>1, IrrelevantFields
<1> HIDE DEF moved
<1>3. EncoderInv(shut) /\ (AllFilled(e) => AllFilled(shut)) /\ SameLedger(e, shut)
  <2>1. SameRanges(moved, shut) /\ SameLedger(moved, shut)
    BY <1>2, CloseCurrentChannelKeepsRanges, CloseCurrentChannelLedger DEF EncoderInv
  <2> HIDE DEF shut
  <2> QED
    BY <1>2, <2>1, SameRangesKeepQueue, SameLedgerKeepsInv, SameLedgerTransitive DEF EncoderInv
<1> HIDE DEF shut
<1>4. EncoderInv(closed) /\ (AllFilled(e) => AllFilled(closed)) /\ SameLedger(e, closed)
  <2>1. CASE ~closes
    BY <1>2, <2>1
  <2>2. CASE closes
    <3> DEFINE d == [shut EXCEPT !.deferred_step_error = CloseFails(moved, finished)]
    <3>1. /\ DOMAIN d = EncoderFields /\ d.blocks = shut.blocks
          /\ d.block_cursor = shut.block_cursor /\ d.channels = shut.channels
          /\ d.egress = shut.egress /\ d.next_id = shut.next_id
      BY <1>3 DEF EncoderInv, QueueInv, QueueShape, EncoderFields, NewEncoder
    <3>2. closed = d
      BY <2>2
    <3> HIDE DEF d
    <3> QED
      BY <1>3, <3>1, <3>2, IrrelevantFields, SameLedgerTransitive
  <2> QED
    BY <2>1, <2>2
<1> HIDE DEF closed, f
<1>5. CASE e.deferred_step_error
  BY <1>1, <1>2, <1>5 DEF f
<1>6. CASE ~e.deferred_step_error
  <2>1. /\ EncoderInv(f) /\ (AllFilled(closed) => AllFilled(f))
        /\ f = closed \/ LedgerForgets(closed, f)
    BY <1>1, <1>4, <1>6, InvalidateExpiredInv
  <2>2. LedgerForgets(closed, f) => LedgerForgets(e, f)
    BY <1>4 DEF LedgerForgets, SameLedger
  <2> QED
    BY <1>4, <2>1, <2>2 DEF f
<1> QED
  BY <1>5, <1>6

(* add_block, step, set_blob_override: the ledger sees nothing. *)
LEMMA AddBlockInv ==
    ASSUME NEW e, EncoderInv(e), NEW b \in Block
    PROVE  LET f == AddBlock(e, b)
           IN  EncoderInv(f) /\ (AllFilled(e) => AllFilled(f)) /\ SameLedger(e, f)
<1> DEFINE f == AddBlock(e, b)
<1>1. f.channels = e.channels /\ f.egress = e.egress /\ f.next_id = e.next_id
  BY DEF AddBlock, EncoderInv, QueueInv, QueueShape, EncoderFields, NewEncoder
<1>2. SameLedger(e, f)
  BY <1>1 DEF SameLedger, LiveIds
<1> QED
  BY <1>2, AddBlockQueue, SameLedgerKeepsInv DEF EncoderInv

(* step keeps the encoder consistent, fills its channels unless it fails, and leaves the ledger alone. *)
LEMMA StepInv ==
    ASSUME NEW e, EncoderInv(e), AllFilled(e), NEW emitted, NEW fault
    PROVE  LET o == Step(e, emitted, fault)
           IN  /\ EncoderInv(o.encoder)
               /\ o.result # "Err" => AllFilled(o.encoder)
               /\ SameLedger(e, o.encoder)
<1> DEFINE o == Step(e, emitted, fault)
<1>1. QueueInv(o.encoder) /\ (o.result # "Err" => AllFilled(o.encoder)) /\ SameLedger(e, o.encoder)
  BY StepQueue DEF EncoderInv
<1> HIDE DEF o
<1>2. EncoderInv(o.encoder)
  BY <1>1, SameLedgerKeepsInv DEF EncoderInv
<1> QED
  BY <1>1, <1>2 DEF o

(* set_blob_override touches neither the queue nor the ledger. *)
LEMMA SetBlobOverrideInv ==
    ASSUME NEW e, EncoderInv(e), NEW active
    PROVE  LET f == SetBlobOverride(e, active)
           IN  EncoderInv(f) /\ (AllFilled(e) => AllFilled(f)) /\ SameLedger(e, f)
<1> DEFINE f == SetBlobOverride(e, active)
<1>1. /\ DOMAIN f = EncoderFields /\ f.blocks = e.blocks /\ f.block_cursor = e.block_cursor
      /\ f.channels = e.channels /\ f.egress = e.egress /\ f.next_id = e.next_id
  BY DEF SetBlobOverride, EncoderInv, QueueInv, QueueShape, EncoderFields, NewEncoder
<1> HIDE DEF f
<1> QED
  BY <1>1, IrrelevantFields DEF f

(* flush closes the tail and moves deadlines. *)
LEMMA FlushInv ==
    ASSUME NEW e, EncoderInv(e), NEW finished
    PROVE  LET f == Flush(e, finished)
           IN  EncoderInv(f) /\ (AllFilled(e) => AllFilled(f)) /\ SameLedger(e, f)
<1> DEFINE shut == CloseCurrentChannel(e, finished)
           f == Flush(e, finished)
           rel == [shut EXCEPT !.channels = [i \in DOMAIN @ |-> ReleaseAt(@[i], e.l1_head)]]
<1>1. SameRanges(e, shut) /\ SameLedger(e, shut)
  BY CloseCurrentChannelKeepsRanges, CloseCurrentChannelLedger DEF EncoderInv
<1>2. f = shut \/ f = rel
  BY DEF Flush
<1> HIDE DEF shut, f
<1>3. EncoderInv(shut) /\ (AllFilled(e) => AllFilled(shut))
  BY <1>1, SameRangesKeepQueue, SameLedgerKeepsInv DEF EncoderInv
<1>4. EncoderInv(rel) /\ (AllFilled(e) => AllFilled(rel)) /\ SameLedger(e, rel)
  <2>1. /\ DOMAIN rel = EncoderFields /\ rel.blocks = shut.blocks
        /\ rel.block_cursor = shut.block_cursor
        /\ rel.egress = shut.egress /\ rel.next_id = shut.next_id
        /\ rel.channels = [i \in DOMAIN shut.channels |-> ReleaseAt(shut.channels[i], e.l1_head)]
    BY <1>3 DEF EncoderInv, QueueInv, QueueShape, EncoderFields, NewEncoder
  <2> HIDE DEF rel
  <2>2. DOMAIN shut.channels = 1..Len(shut.channels)
    BY <1>3, SequenceShape, SMTT(30) DEF EncoderInv, QueueInv, QueueShape
  <2>3. \A i \in 1..Len(shut.channels) : KeepsRange(shut.channels[i], rel.channels[i])
    <3> SUFFICES ASSUME NEW i \in 1..Len(shut.channels)
                 PROVE  KeepsRange(shut.channels[i], rel.channels[i])
      OBVIOUS
    <3>1. ChannelShape(shut.channels[i])
      BY <1>3 DEF EncoderInv, QueueInv, QueueShape
    <3>2. rel.channels[i] = ReleaseAt(shut.channels[i], e.l1_head)
      BY <2>1, <2>2
    <3> QED
      BY <3>1, <3>2, ReleaseAtKeepsRange
  <2>4. rel.channels = [i \in DOMAIN shut.channels |-> rel.channels[i]]
    BY <2>1, SMTT(30)
  <2>5. SameRanges(shut, rel)
    BY <1>3, <2>1, <2>3, <2>4, MapKeepsRanges, Zenon DEF EncoderInv
  <2>6. SameLedger(shut, rel)
    BY <2>1, <2>5, ZenonT(30) DEF SameLedger, LiveIds, SameRanges, KeepsRange
  <2> QED
    BY <1>1, <1>3, <2>5, <2>6, SameRangesKeepQueue, SameLedgerKeepsInv, SameLedgerTransitive
    DEF EncoderInv
<1> QED
  BY <1>1, <1>2, <1>3, <1>4 DEF f

(* reset forgets every artifact and every block. *)
LEMMA ResetInv ==
    ASSUME NEW e, EncoderInv(e)
    PROVE  LET f == Reset(e)
           IN  EncoderInv(f) /\ AllFilled(f) /\ LedgerForgets(e, f)
<1> DEFINE f == Reset(e)
<1>1. /\ DOMAIN f = EncoderFields /\ f.blocks = <<>> /\ f.block_cursor = 0
      /\ f.channels = <<>> /\ f.egress = ResetEgress(e.egress) /\ f.next_id = e.next_id
  BY DEF Reset, EncoderInv, QueueInv, QueueShape, EncoderFields, NewEncoder
<1> HIDE DEF f
<1>2. QueueInv(f) /\ AllFilled(f)
  BY <1>1, EmptySequence DEF QueueInv, QueueShape, Tiling, Ordered, OnlyTailOpen, AllFilled
<1>3. EgressInv(e.egress)
  BY DEF EncoderInv, LedgerInv
<1>4. Forgets(e.egress, f.egress, DOMAIN e.egress.artifacts) /\ DOMAIN f.egress.artifacts = {}
  BY <1>1, <1>3, ResetEgressForgets
<1>5. EgressInv(f.egress)
  BY <1>3, <1>4, ForgetsKeepsInv, SMTT(30)
<1>6. LedgerInv(f)
  BY <1>1, <1>4, <1>5, Zenon DEF LedgerInv, Forgets, EncoderInv
<1>7. LedgerForgets(e, f)
  BY <1>1, <1>4, SMTT(30) DEF LedgerForgets
<1> QED
  BY <1>2, <1>6, <1>7 DEF EncoderInv, f

-----------------------------------------------------------------------------
(* From e to f frames are cut into new artifacts and nothing else happens. *)
Builds(e, f) ==
    /\ EncoderInv(f)
    /\ AllFilled(e) => AllFilled(f)
    /\ LedgerGrows(e, f)
    /\ f = e \/ f.egress.next_artifact > e.egress.next_artifact

(* Building nothing is building. *)
LEMMA BuildsReflexive ==
    ASSUME NEW e, EncoderInv(e)
    PROVE  Builds(e, e)
BY DEF Builds, LedgerGrows, EncoderInv, LedgerInv, EgressInv, EgressShape

(* Rounds of building add up. *)
LEMMA BuildsTransitive ==
    ASSUME NEW e, NEW f, NEW h, EncoderInv(e), Builds(e, f), Builds(f, h)
    PROVE  Builds(e, h)
<1> DEFINE m == e.egress.next_artifact
           n == f.egress.next_artifact
           k == h.egress.next_artifact
<1>1. m \in Nat /\ n \in Nat /\ k \in Nat /\ m <= n /\ n <= k
  BY Zenon DEF Builds, LedgerGrows, EncoderInv, LedgerInv, EgressInv, EgressShape
<1>2. /\ DOMAIN f.egress.artifacts = DOMAIN e.egress.artifacts \cup m..(n - 1)
      /\ DOMAIN h.egress.artifacts = DOMAIN f.egress.artifacts \cup n..(k - 1)
  BY DEF Builds, LedgerGrows
<1>3. m..(k - 1) = m..(n - 1) \cup n..(k - 1)
  BY <1>1
<1>4. DOMAIN h.egress.artifacts = DOMAIN e.egress.artifacts \cup m..(k - 1)
  BY <1>2, <1>3, SMTT(30)
<1>5. \A a \in m..(k - 1) : h.egress.artifacts[a].state = "Ready"
  BY <1>1, <1>2, <1>3, SMTT(30) DEF Builds, LedgerGrows
<1>6. \A a \in DOMAIN e.egress.artifacts : h.egress.artifacts[a] = e.egress.artifacts[a]
  BY <1>2, SMTT(30) DEF Builds, LedgerGrows
<1> QED
  <2>1. h.next_id = e.next_id /\ h.egress.pending = e.egress.pending /\ k >= m
    BY <1>1 DEF Builds, LedgerGrows
  <2>3. LedgerGrows(e, h)
    BY <1>4, <1>5, <1>6, <2>1, Zenon DEF LedgerGrows
  <2>2. h = e \/ k > m
    BY <1>1, SMTT(30) DEF Builds
  <2> QED
    BY <2>2, <2>3, SMTT(30) DEF Builds

(* commit_blob and commit_calldata: the frames leave their channels, one artifact carries them. *)
LEMMA CommitBuilds ==
    ASSUME NEW e, EncoderInv(e), NEW plan, NEW blob, Planned(e.channels, plan) # {}
    PROVE  Builds(e, Commit(e, plan, blob))
<1> DEFINE f == Commit(e, plan, blob)
           ids == {c.id : c \in Planned(e.channels, plan)}
<1>1. /\ DOMAIN f = EncoderFields /\ f.blocks = e.blocks /\ f.block_cursor = e.block_cursor
      /\ f.next_id = e.next_id /\ f.egress = Push(e.egress, plan, blob, ids)
      /\ f.channels = [i \in DOMAIN e.channels |-> TakeFrames(e.channels[i], plan)]
  BY DEF Commit, EncoderInv, QueueInv, QueueShape, EncoderFields, NewEncoder
<1>2. DOMAIN e.channels = 1..Len(e.channels)
  BY SequenceShape DEF EncoderInv, QueueInv, QueueShape
<1>3. ids # {} /\ ids \subseteq LiveIds(e)
  BY <1>2, SMTT(30) DEF Planned, Range, LiveIds
<1> HIDE DEF f, ids
<1>4. SameRanges(e, f)
  <2>1. \A i \in 1..Len(e.channels) : KeepsRange(e.channels[i], f.channels[i])
    BY <1>1, <1>2, TakeFramesKeepsRange DEF EncoderInv, QueueInv, QueueShape
  <2>2. f.channels = [i \in DOMAIN e.channels |-> f.channels[i]]
    BY <1>1
  <2> QED
    BY <1>1, <2>1, <2>2, MapKeepsRanges, Zenon DEF EncoderInv
<1>5. QueueInv(f) /\ (AllFilled(e) => AllFilled(f))
  BY <1>4, SameRangesKeepQueue DEF EncoderInv
<1>6. LiveIds(f) = LiveIds(e)
  BY <1>4, SMTT(30) DEF LiveIds, SameRanges, KeepsRange
<1> DEFINE n == e.egress.next_artifact
<1>7. /\ EgressInv(f.egress) /\ f.egress.pending = e.egress.pending
      /\ f.egress.next_artifact = n + 1
      /\ DOMAIN f.egress.artifacts = DOMAIN e.egress.artifacts \cup {n}
      /\ \A a \in DOMAIN e.egress.artifacts : f.egress.artifacts[a] = e.egress.artifacts[a]
      /\ f.egress.artifacts[n].state = "Ready" /\ f.egress.artifacts[n].channel_ids = ids
  <2>1. EgressInv(e.egress)
    BY DEF EncoderInv, LedgerInv
  <2>2. Pushed(e.egress, f.egress, ids)
    BY <1>1, <1>3, <2>1, PushFacts
  <2> QED
    BY <2>2 DEF Pushed
<1>8. n \in Nat /\ n..(n + 1 - 1) = {n}
  BY DEF EncoderInv, LedgerInv, EgressInv, EgressShape
<1>9. LedgerInv(f)
  <2>1. LedgerInv(e)
    BY Zenon DEF EncoderInv
  <2>2. /\ f.next_id \in Nat
        /\ DOMAIN f.egress.pending \subseteq 0 .. (f.next_id - 1)
    BY <1>1, <1>7, <2>1, Zenon DEF LedgerInv
  <2>3. ASSUME NEW a \in DOMAIN f.egress.artifacts
        PROVE  f.egress.artifacts[a].channel_ids \subseteq LiveIds(f)
    <3>1. CASE a = n
      BY <1>3, <1>6, <1>7, <3>1, Zenon
    <3>2. CASE a \in DOMAIN e.egress.artifacts
      BY <1>6, <1>7, <2>1, <3>2, Zenon DEF LedgerInv
    <3> QED
      BY <1>7, <2>3, <3>1, <3>2, Zenon
  <2> QED
    BY <1>7, <2>2, <2>3, Zenon DEF LedgerInv
<1>10. LedgerGrows(e, f)
  <2>1. e.egress.next_artifact..(f.egress.next_artifact - 1) = {n}
    BY <1>7, <1>8
  <2>2. f.egress.next_artifact >= e.egress.next_artifact
    BY <1>7, <1>8
  <2> HIDE DEF n
  <2> QED
    BY <1>1, <1>7, <2>1, <2>2 DEF LedgerGrows
<1>11. f.egress.next_artifact > e.egress.next_artifact
  BY <1>7, <1>8
<1> QED
  BY <1>5, <1>9, <1>10, <1>11 DEF Builds, EncoderInv, f

(* A round of the loop of build_ready_artifacts builds nothing or commits one blob. *)
LEMMA FillBlobCommits ==
    ASSUME NEW e
    PROVE  \E plan : \/ FillBlob(e) = e
                     \/ Planned(e.channels, plan) # {} /\ FillBlob(e) = Commit(e, plan, TRUE)
<1> DEFINE plan == PlanBlob(e.channels, e.l1_head)
<1>1. FillBlob(e) = CommitBlob(e, plan)
  BY DEF FillBlob
<1> HIDE DEF plan
<1>2. \/ CommitBlob(e, plan) = e
      \/ Planned(e.channels, plan) # {} /\ CommitBlob(e, plan) = Commit(e, plan, TRUE)
  BY Zenon DEF CommitBlob
<1> QED
  BY <1>1, <1>2, Zenon

(* build_ready_artifacts, however many rounds its loop takes. *)
LEMMA BuildReadyArtifactsBuilds ==
    ASSUME NEW e, EncoderInv(e), NEW da_type
    PROVE  Builds(e, BuildReadyArtifacts(e, da_type))
<1>1. ASSUME NEW f, Builds(e, f)
      PROVE  Builds(e, FillBlob(f))
  <2>1. EncoderInv(f)
    BY <1>1 DEF Builds
  <2>2. PICK plan : \/ FillBlob(f) = f
                    \/ Planned(f.channels, plan) # {} /\ FillBlob(f) = Commit(f, plan, TRUE)
    BY FillBlobCommits, Zenon
  <2>3. Builds(f, FillBlob(f))
    BY <2>1, <2>2, CommitBuilds, BuildsReflexive, Zenon
  <2> QED
    BY <1>1, <2>3, BuildsTransitive
<1>2. Builds(e, BuildBlobs(e))
  BY <1>1, BuildsReflexive DEF BuildBlobs
<1>3. Builds(e, BuildCalldata(e))
  BY CommitBuilds, BuildsReflexive, Zenon DEF BuildCalldata
<1> QED
  BY <1>2, <1>3, BuildsReflexive DEF BuildReadyArtifacts

(* next_submission leases what is oldest under a new identifier, or changes no lease. *)
LEMMA NextSubmissionInv ==
    ASSUME NumberFacts, NEW e, EncoderInv(e)
    PROVE  LET f == NextSubmission(e)
           IN  /\ EncoderInv(f) /\ (AllFilled(e) => AllFilled(f))
               /\ \/ LedgerSubmits(e, f)
                  \/ LedgerGrows(e, f) /\ f = e
<1> DEFINE b == BuildReadyArtifacts(e, EffectiveDaType(e))
           f == NextSubmission(e)
           id == e.next_id
<1>1. Builds(e, b)
  BY BuildReadyArtifactsBuilds
<1>2. \/ NextLease(b.egress) = {} /\ f = b
      \/ NextLease(b.egress) # {} /\ f = [b EXCEPT !.egress = Lease(@, id), !.next_id = @ + 1]
  BY SMTT(30) DEF NextSubmission, LeaseReady
<1> HIDE DEF b, f
<1>3. EncoderInv(b) /\ EgressInv(b.egress) /\ EgressInv(e.egress) /\ b.next_id = id /\ id \in Nat
  BY <1>1, ZenonT(30) DEF Builds, LedgerGrows, EncoderInv, LedgerInv
<1>4. CASE NextLease(b.egress) = {}
  <2>1. f = b /\ InState(b.egress, "Ready") = {}
    BY <1>2, <1>3, <1>4, NextLeaseNonempty, SMTT(30)
  <2>2. e.egress.next_artifact..(b.egress.next_artifact - 1) = {}
    BY <1>1, <2>1, SMTT(30) DEF Builds, LedgerGrows, InState
  <2>3. e.egress.next_artifact \in Nat /\ b.egress.next_artifact \in Nat
        /\ b.egress.next_artifact >= e.egress.next_artifact
    BY <1>1, <1>3 DEF Builds, LedgerGrows, EgressInv, EgressShape
  <2>4. b.egress.next_artifact = e.egress.next_artifact
    BY <2>2, <2>3
  <2>5. f = e
    BY <1>1, <2>1, <2>3, <2>4 DEF Builds
  <2> QED
    BY <1>1, <2>1, <2>5 DEF Builds, f
<1>5. CASE NextLease(b.egress) # {}
  <2> DEFINE ids == NextLease(b.egress)
  <2>1. /\ DOMAIN f = EncoderFields /\ f.blocks = b.blocks /\ f.block_cursor = b.block_cursor
        /\ f.channels = b.channels /\ f.next_id = id + 1 /\ f.egress = Lease(b.egress, id)
    BY <1>2, <1>3, <1>5, ZenonT(30) DEF EncoderInv, QueueInv, QueueShape, EncoderFields, NewEncoder
  <2>2. id \notin DOMAIN b.egress.pending
    BY <1>3 DEF EncoderInv, LedgerInv
  <2>3. /\ EgressInv(f.egress) /\ f.egress.next_artifact = b.egress.next_artifact
        /\ DOMAIN f.egress.pending = DOMAIN b.egress.pending \cup {id}
        /\ \A i \in DOMAIN b.egress.pending : f.egress.pending[i] = b.egress.pending[i]
        /\ f.egress.pending[id] = ids
        /\ DOMAIN f.egress.artifacts = DOMAIN b.egress.artifacts
        /\ \A a \in DOMAIN b.egress.artifacts :
              /\ f.egress.artifacts[a].state =
                    IF a \in ids THEN "Pending" ELSE b.egress.artifacts[a].state
              /\ f.egress.artifacts[a].channel_ids = b.egress.artifacts[a].channel_ids
              /\ f.egress.artifacts[a].frames = b.egress.artifacts[a].frames
              /\ f.egress.artifacts[a].blob = b.egress.artifacts[a].blob
    <3>1. Leased(b.egress, f.egress, id, ids)
      BY <1>3, <1>5, <2>1, <2>2, LeaseFacts
    <3> QED
      BY <3>1 DEF Leased
  <2>4. ids \subseteq InState(b.egress, "Ready")
    BY <1>3, NextLeaseIsReady, SMTT(30)
  <2> HIDE DEF ids
  <2>5. SameRanges(b, f)
    BY <1>3, <2>1, Zenon DEF SameRanges, KeepsRange, EncoderInv, QueueInv, QueueShape
  <2>6. QueueInv(f) /\ (AllFilled(e) => AllFilled(f))
    BY <1>1, <1>3, <2>5, SameRangesKeepQueue DEF EncoderInv, Builds
  <2>7. LiveIds(f) = LiveIds(b)
    BY <2>1, SMTT(30) DEF LiveIds
  <2>8. DOMAIN f.egress.pending \subseteq 0..(f.next_id - 1)
    <3>1. DOMAIN b.egress.pending \subseteq 0..(id - 1) /\ id \in Nat
      BY <1>3 DEF EncoderInv, LedgerInv
    <3>2. DOMAIN f.egress.pending = DOMAIN b.egress.pending \cup {id} /\ f.next_id = id + 1
      BY <2>1, <2>3, Zenon
    <3> QED
      BY <3>1, <3>2, SMTT(30)
  <2>9. LedgerInv(f)
    <3>1. ASSUME NEW a \in DOMAIN f.egress.artifacts
          PROVE  f.egress.artifacts[a].channel_ids \subseteq LiveIds(f)
      <4>1. /\ a \in DOMAIN b.egress.artifacts
            /\ f.egress.artifacts[a].channel_ids = b.egress.artifacts[a].channel_ids
        BY <2>3, Zenon
      <4>2. b.egress.artifacts[a].channel_ids \subseteq LiveIds(b)
        BY <1>3, <4>1, Zenon DEF EncoderInv, LedgerInv
      <4> QED
        BY <2>7, <4>1, <4>2, Zenon
    <3>2. f.next_id \in Nat
      BY <1>3, <2>1, SMTT(30)
    <3> QED
      BY <2>3, <2>8, <3>1, <3>2 DEF LedgerInv
  <2>10. LedgerSubmits(e, f)
    <3>1. /\ b.egress.pending = e.egress.pending
          /\ b.egress.next_artifact >= e.egress.next_artifact
          /\ DOMAIN b.egress.artifacts = DOMAIN e.egress.artifacts
                \cup e.egress.next_artifact..(b.egress.next_artifact - 1)
          /\ \A a \in DOMAIN e.egress.artifacts : b.egress.artifacts[a] = e.egress.artifacts[a]
          /\ \A a \in e.egress.next_artifact..(b.egress.next_artifact - 1) :
                b.egress.artifacts[a].state = "Ready"
      BY <1>1 DEF Builds, LedgerGrows
    <3>2. \A a \in ids : a \in DOMAIN b.egress.artifacts /\ b.egress.artifacts[a].state = "Ready"
      BY <2>4 DEF InState
    <3>3. ids # {}
      BY <1>5 DEF ids
    <3>4. f.egress.pending[e.next_id] = ids /\ ids \subseteq DOMAIN f.egress.artifacts
      BY <2>3, <3>2, SMTT(30)
    <3>5. ASSUME NEW a \in DOMAIN e.egress.artifacts
          PROVE  /\ f.egress.artifacts[a].frames = e.egress.artifacts[a].frames
                 /\ f.egress.artifacts[a].blob = e.egress.artifacts[a].blob
                 /\ a \notin ids => f.egress.artifacts[a].state = e.egress.artifacts[a].state
                 /\ a \in ids => /\ e.egress.artifacts[a].state = "Ready"
                                 /\ f.egress.artifacts[a].state = "Pending"
      <4>1. a \in DOMAIN b.egress.artifacts /\ b.egress.artifacts[a] = e.egress.artifacts[a]
        BY <3>1, SMTT(30)
      <4> QED
        BY <2>3, <3>2, <4>1, SMTT(30)
    <3>6. ASSUME NEW a \in DOMAIN f.egress.artifacts \ DOMAIN e.egress.artifacts
          PROVE  /\ a \in e.egress.next_artifact..(f.egress.next_artifact - 1)
                 /\ f.egress.artifacts[a].state = IF a \in ids THEN "Pending" ELSE "Ready"
      <4>1. a \in e.egress.next_artifact..(b.egress.next_artifact - 1)
        BY <2>3, <3>1, SMTT(30)
      <4>2. a \in DOMAIN b.egress.artifacts /\ b.egress.artifacts[a].state = "Ready"
        BY <3>1, <4>1, SMTT(30)
      <4> QED
        BY <2>3, <4>1, <4>2, ZenonT(30)
    <3>7. f.next_id = e.next_id + 1 /\ f.egress.next_artifact >= e.egress.next_artifact
      BY <2>1, <2>3, <3>1, ZenonT(30)
    <3>8. /\ DOMAIN f.egress.pending = DOMAIN e.egress.pending \cup {e.next_id}
          /\ \A i \in DOMAIN e.egress.pending : f.egress.pending[i] = e.egress.pending[i]
      BY <2>3, <3>1, SMTT(30)
    <3>9. DOMAIN e.egress.artifacts \subseteq DOMAIN f.egress.artifacts
      BY <2>3, <3>1
    <3>10. ASSUME NEW a \in ids, NEW c \in InState(f.egress, "Ready")
           PROVE  a < c
      <4>1. c \in InState(b.egress, "Ready") /\ c \notin ids
        BY <2>3, SMTT(30) DEF InState
      <4> QED
        BY <1>3, <4>1, NextLeaseOldest, SMTT(30) DEF ids
    <3> QED
      BY <3>3, <3>4, <3>5, <3>6, <3>7, <3>8, <3>9, <3>10, Zenon DEF LedgerSubmits
  <2> QED
    BY <2>6, <2>9, <2>10 DEF EncoderInv, f
<1> QED
  BY <1>4, <1>5

(* Ending a lease keeps the ledger, for either outcome. *)
LEMMA SettleKeepsLedger ==
    ASSUME NEW e, EncoderInv(e), NEW f, NEW id \in DOMAIN e.egress.pending,
           NEW state \in {"Ready", "Confirmed"},
           f.egress = EndLease(e.egress, id, state), f.next_id = e.next_id,
           LiveIds(f) = LiveIds(e)
    PROVE  LedgerInv(f) /\ LedgerSettles(e, f, id, state)
<1>1. /\ EgressInv(f.egress)
      /\ f.egress.pending = Restrict(e.egress.pending, DOMAIN e.egress.pending \ {id})
      /\ f.egress.next_artifact = e.egress.next_artifact
      /\ DOMAIN f.egress.artifacts = DOMAIN e.egress.artifacts
      /\ \A a \in DOMAIN e.egress.artifacts :
            /\ f.egress.artifacts[a].state =
                  IF a \in e.egress.pending[id] THEN state ELSE e.egress.artifacts[a].state
            /\ f.egress.artifacts[a].channel_ids = e.egress.artifacts[a].channel_ids
            /\ f.egress.artifacts[a].frames = e.egress.artifacts[a].frames
            /\ f.egress.artifacts[a].blob = e.egress.artifacts[a].blob
  <2>1. EgressInv(e.egress)
    BY DEF EncoderInv, LedgerInv
  <2> DEFINE h == EndLease(e.egress, id, state)
  <2>2. /\ EgressInv(h)
        /\ h.pending = Restrict(e.egress.pending, DOMAIN e.egress.pending \ {id})
        /\ h.next_artifact = e.egress.next_artifact
        /\ DOMAIN h.artifacts = DOMAIN e.egress.artifacts
        /\ \A a \in DOMAIN e.egress.artifacts :
              /\ h.artifacts[a].state =
                    IF a \in e.egress.pending[id] THEN state ELSE e.egress.artifacts[a].state
              /\ h.artifacts[a].channel_ids = e.egress.artifacts[a].channel_ids
              /\ h.artifacts[a].frames = e.egress.artifacts[a].frames
              /\ h.artifacts[a].blob = e.egress.artifacts[a].blob
    BY <2>1, EndLeaseFacts, Zenon
  <2> QED
    BY <2>2, Zenon
<1>2. DOMAIN f.egress.pending \subseteq DOMAIN e.egress.pending
  BY <1>1 DEF Restrict
<1>3. LedgerInv(f)
  BY <1>1, <1>2, Zenon DEF EncoderInv, LedgerInv
<1> QED
  BY <1>1, <1>3, ZenonT(30) DEF LedgerSettles

(* confirm settles the whole lease of a tracked submission, and ignores any other. *)
LEMMA ConfirmInv ==
    ASSUME NEW e, EncoderInv(e), NEW id, NEW l1
    PROVE  LET f == Confirm(e, id, l1)
           IN  /\ EncoderInv(f) /\ (AllFilled(e) => AllFilled(f))
               /\ \/ f = e /\ id \notin DOMAIN e.egress.pending
                  \/ LedgerSettles(e, f, id, "Confirmed")
<1> DEFINE f == Confirm(e, id, l1)
           ids == e.egress.pending[id]
           confirmed == IF AllPending(e.egress, ids)
                        THEN UNION {e.egress.artifacts[a].channel_ids : a \in ids} ELSE {}
           noted(c) == IF c.id \in confirmed THEN RecordConfirmation(c, l1) ELSE c
<1>1. CASE id \notin DOMAIN e.egress.pending
  BY <1>1 DEF Confirm
<1>2. CASE id \in DOMAIN e.egress.pending
  <2>1. /\ DOMAIN f = EncoderFields /\ f.blocks = e.blocks /\ f.block_cursor = e.block_cursor
        /\ f.next_id = e.next_id /\ f.egress = EndLease(e.egress, id, "Confirmed")
        /\ f.channels = [i \in DOMAIN e.channels |-> noted(e.channels[i])]
    BY <1>2 DEF Confirm, EncoderInv, QueueInv, QueueShape, EncoderFields, NewEncoder
  <2>2. DOMAIN e.channels = 1..Len(e.channels)
    BY SequenceShape DEF EncoderInv, QueueInv, QueueShape
  <2> HIDE DEF f, confirmed
  <2>3. \A i \in 1..Len(e.channels) : KeepsRange(e.channels[i], f.channels[i])
    <3> TAKE i \in 1..Len(e.channels)
    <3>1. ChannelShape(e.channels[i]) /\ f.channels[i] = noted(e.channels[i])
      BY <2>1, <2>2, Zenon DEF EncoderInv, QueueInv, QueueShape
    <3> QED
      BY <3>1, RecordConfirmationKeepsRange DEF KeepsRange
  <2>4. f.channels = [i \in DOMAIN e.channels |-> f.channels[i]]
    BY <2>1, SMTT(30)
  <2>5. SameRanges(e, f)
    BY <2>1, <2>3, <2>4, MapKeepsRanges, Zenon DEF EncoderInv
  <2>6. QueueInv(f) /\ (AllFilled(e) => AllFilled(f))
    BY <2>5, SameRangesKeepQueue DEF EncoderInv
  <2>7. LiveIds(f) = LiveIds(e)
    BY <2>5 DEF LiveIds, SameRanges, KeepsRange
  <2> QED
    BY <1>2, <2>1, <2>6, <2>7, SettleKeepsLedger, Zenon DEF EncoderInv, f
<1> QED
  BY <1>1, <1>2

(* requeue makes the whole lease of a tracked submission ready again, and ignores any other. *)
LEMMA RequeueInv ==
    ASSUME NEW e, EncoderInv(e), NEW id
    PROVE  LET f == Requeue(e, id)
           IN  /\ EncoderInv(f) /\ (AllFilled(e) => AllFilled(f))
               /\ \/ f = e /\ id \notin DOMAIN e.egress.pending
                  \/ LedgerSettles(e, f, id, "Ready")
<1> DEFINE f == Requeue(e, id)
<1>1. CASE id \notin DOMAIN e.egress.pending
  BY <1>1 DEF Requeue
<1>2. CASE id \in DOMAIN e.egress.pending
  <2>1. /\ DOMAIN f = EncoderFields /\ f.blocks = e.blocks /\ f.block_cursor = e.block_cursor
        /\ f.next_id = e.next_id /\ f.egress = EndLease(e.egress, id, "Ready")
        /\ f.channels = e.channels
    BY <1>2 DEF Requeue, EncoderInv, QueueInv, QueueShape, EncoderFields, NewEncoder
  <2> HIDE DEF f
  <2>2. SameRanges(e, f)
    BY <2>1 DEF SameRanges, KeepsRange, EncoderInv, QueueInv, QueueShape
  <2>3. QueueInv(f) /\ (AllFilled(e) => AllFilled(f))
    BY <2>2, SameRangesKeepQueue DEF EncoderInv
  <2>4. LiveIds(f) = LiveIds(e)
    BY <2>1 DEF LiveIds
  <2> QED
    BY <1>2, <2>1, <2>3, <2>4, SettleKeepsLedger DEF EncoderInv, f
<1> QED
  BY <1>1, <1>2
=============================================================================
