------------------------ MODULE CircularBufferProofs ------------------------
(***************************************************************************)
(* For every capacity of the ring and every number of tags and samples:    *)
(* the two windows never share memory, what a block is allowed to produce  *)
(* or consume never trips an assert, and a read window shows the samples   *)
(* in the order in which they were produced, with no lock held.            *)
(*                                                                         *)
(* The tag map of BufferState keeps each tag on the sample that it was     *)
(* produced with, read_buf() hands out the tags of its window and no       *)
(* others, and consume() of at least one sample leaves those of the        *)
(* samples behind it alone.                                                *)
(*                                                                         *)
(* On top of these, the ring implements the queue of samples of            *)
(* SampleFifo.                                                             *)
(***************************************************************************)
EXTENDS CircularBuffer, SequenceTheorems, TLAPS

\* An index of a window is below Cap + Cap: its slot is found by one subtraction.
LEMMA SlotCases ==
  ASSUME NEW x \in Nat, x < Cap + Cap
  PROVE  /\ x < Cap => Slot(x) = x
         /\ x >= Cap => Slot(x) = x - Cap
         /\ Slot(x) \in Slots
<1>1. x < Cap => x % Cap = x
  BY BufferAssumption
<1>2. x >= Cap => x % Cap = x - Cap
  BY BufferAssumption
<1> QED
  BY <1>1, <1>2, BufferAssumption DEF Slot, Slots

\* Two indexes less than Cap apart are different slots.
LEMMA SlotInjective ==
  ASSUME NEW x \in Nat, NEW y \in Nat, x < y, y < x + Cap, y < Cap + Cap
  PROVE  Slot(x) # Slot(y)
  BY SlotCases, BufferAssumption

\* Advancing a position and then taking a slot is taking the slot further on.
LEMMA SlotAdvance ==
  ASSUME NEW x \in Slots, NEW n \in 0..Cap, NEW i \in Nat, n + i <= Cap
  PROVE  Slot(Slot(x + n) + i) = Slot(x + n + i)
<1>1. x \in Nat /\ x < Cap
  BY BufferAssumption DEF Slots
<1>2. x + n \in Nat /\ x + n < Cap + Cap /\ Cap \in Nat
  BY <1>1, BufferAssumption
<1>3. CASE x + n < Cap
  BY <1>1, <1>2, <1>3, SlotCases
<1>4. CASE x + n >= Cap
  <2>1. Slot(x + n) = x + n - Cap
    BY <1>1, <1>2, <1>4, SlotCases
  <2>2. x + n - Cap + i \in Nat /\ x + n - Cap + i < Cap
    BY <1>1, <1>4, BufferAssumption
  <2>3. x + n + i < Cap + Cap /\ x + n + i >= Cap /\ x + n + i \in Nat
    BY <1>1, <1>4, <2>2, BufferAssumption
  <2>4. Slot(x + n - Cap + i) = x + n - Cap + i
    BY <2>2, SlotCases, BufferAssumption
  <2>5. Slot(x + n + i) = x + n + i - Cap
    BY <1>1, <1>2, <2>3, SlotCases
  <2> QED
    BY <1>1, <2>1, <2>4, <2>5, BufferAssumption
<1> QED
  BY <1>2, <1>3, <1>4

-----------------------------------------------------------------------------
\* The inductive invariant: where a held window lies, and what is in the
\* slots of the samples that were produced and of those that are filled in.
WriteWindow == writer.held =>
  /\ writer.start = wpos
  /\ writer.filled <= writer.end - writer.start
  /\ writer.end <= wpos + free
ReadWindow == reader.held =>
  /\ reader.start = rpos
  /\ reader.start <= reader.end
  /\ reader.end <= rpos + used
UnreadInOrder == \A i \in 0..(used - 1) : mem[Slot(rpos + i)] = rcvd + i
FilledInOrder == writer.held =>
                   \A i \in 0..(writer.filled - 1) : mem[Slot(wpos + i)] = sent + i
IInv ==
  /\ TypeOK
  /\ wpos = Slot(rpos + used)
  /\ sent = rcvd + used
  /\ WriteWindow
  /\ ReadWindow
  /\ UnreadInOrder
  /\ FilledInOrder

-----------------------------------------------------------------------------
(* The invariant holds initially and every action preserves it.            *)

USE BufferAssumption

LEMMA InitIInv == Init => IInv
<1> SUFFICES ASSUME Init PROVE IInv
  OBVIOUS
<1>1. TypeOK
  <2>1. NoTags \in [Slots -> Seq(Tag)]
    BY DEF NoTags
  <2> QED
    BY <2>1 DEF Init, TypeOK, Slots, NoWriter, NoReader
<1>2. wpos = Slot(rpos + used)
  BY SlotCases DEF Init
<1> QED
  BY <1>1, <1>2 DEF Init, IInv, WriteWindow, ReadWindow, UnreadInOrder, FilledInOrder,
                    NoWriter, NoReader

\* The numbers of a typed state, for the arithmetic of the steps below.
LEMMA Numbers ==
  ASSUME TypeOK
  PROVE  /\ rpos \in Slots /\ rpos \in Nat /\ rpos < Cap
         /\ wpos \in Slots /\ wpos \in Nat /\ wpos < Cap
         /\ used \in Nat /\ used \in 0..Cap /\ used <= Cap /\ Cap \in Nat
         /\ free \in Nat /\ free = Cap - used
         /\ sent \in Nat /\ rcvd \in Nat
         /\ writer.start \in Nat /\ writer.end \in Nat /\ writer.filled \in Nat
         /\ reader.start \in Nat /\ reader.end \in Nat
<1>1. rpos \in 0..(Cap - 1) /\ wpos \in 0..(Cap - 1) /\ used \in 0..Cap
  BY DEF TypeOK, Slots
<1>2. /\ writer \in [held : BOOLEAN, start : Nat, end : Nat, filled : Nat]
      /\ reader \in [held : BOOLEAN, start : Nat, end : Nat, tags : [Slots -> Seq(Tag)]]
  BY DEF TypeOK
<1>3. free \in Nat /\ free = Cap - used
  BY <1>1 DEF free
<1> QED
  BY <1>1, <1>2, <1>3 DEF TypeOK

LEMMA WriteBufIInv == IInv /\ WriteBuf => IInv'
<1> SUFFICES ASSUME IInv, WriteBuf PROVE IInv'
  OBVIOUS
<1>0. TypeOK
  BY DEF IInv
<1>1. writer' = [held |-> TRUE, start |-> wpos, end |-> wpos + free, filled |-> 0]
  BY DEF WriteBuf, WriteRange
<1>2. TypeOK'
  <2>1. writer' \in [held : BOOLEAN, start : Nat, end : Nat, filled : Nat]
    BY <1>0, <1>1, Numbers
  <2> QED
    BY <1>0, <2>1 DEF TypeOK, WriteBuf
<1>3. WriteWindow'
  <2>1. writer'.start = wpos /\ writer'.end = wpos + free /\ writer'.filled = 0
    BY <1>1
  <2>2. free' = free /\ wpos' = wpos
    BY DEF WriteBuf, free
  <2> QED
    BY <1>0, <2>1, <2>2, Numbers DEF WriteWindow
<1>4. ReadWindow' /\ UnreadInOrder' /\ (wpos = Slot(rpos + used))' /\ (sent = rcvd + used)'
  BY DEF IInv, WriteBuf, ReadWindow, UnreadInOrder, Slot
<1>5. FilledInOrder'
  BY <1>1 DEF FilledInOrder
<1> QED
  BY <1>2, <1>3, <1>4, <1>5 DEF IInv

LEMMA FillIInv == IInv /\ Fill => IInv'
<1> SUFFICES ASSUME IInv, Fill PROVE IInv'
  OBVIOUS
<1> DEFINE f == writer.filled
<1>0. TypeOK
  BY DEF IInv
<1>n. /\ rpos \in Slots /\ rpos \in Nat /\ rpos < Cap /\ wpos \in Slots /\ wpos \in Nat /\ wpos < Cap
      /\ used \in Nat /\ used \in 0..Cap /\ used <= Cap /\ Cap \in Nat /\ sent \in Nat /\ rcvd \in Nat
      /\ writer.start = wpos /\ f \in Nat /\ used + f < Cap /\ mem \in [Slots -> Nat]
  <2>1. /\ writer.held /\ writer.start = wpos
        /\ writer.end <= wpos + free /\ f < writer.end - writer.start
    BY DEF IInv, Fill, WriteWindow
  <2>2. used + f < Cap
    BY <1>0, <2>1, Numbers
  <2> QED
    BY <1>0, <2>1, <2>2, Numbers DEF TypeOK
<1>w. writer' = [writer EXCEPT !.filled = f + 1]
  BY DEF Fill
<1>m. mem' = [mem EXCEPT ![Slot(wpos + f)] = sent + f]
  BY <1>n DEF Fill
<1>1. Slot(wpos + f) = Slot(rpos + used + f)
  <2>1. Slot(Slot(rpos + used) + f) = Slot(rpos + used + f)
    <3>1. used + f <= Cap
      BY <1>n
    <3> HIDE DEF f
    <3> QED
      BY <1>n, <3>1, SlotAdvance
  <2> QED
    BY <2>1 DEF IInv
<1>2. Slot(wpos + f) \in Slots
  BY <1>n, SlotCases
<1>3. TypeOK'
  <2>1. mem' \in [Slots -> Nat]
    BY <1>n, <1>m, <1>2
  <2>2. writer' \in [held : BOOLEAN, start : Nat, end : Nat, filled : Nat]
    <3>1. writer \in [held : BOOLEAN, start : Nat, end : Nat, filled : Nat] /\ f + 1 \in Nat
      BY <1>0, <1>n, SMTT(30) DEF TypeOK
    <3> QED
      BY <3>1, <1>w
  <2> QED
    BY <1>0, <2>1, <2>2 DEF TypeOK, Fill
<1>4. WriteWindow'
  <2>1. /\ writer.end <= wpos + free /\ f < writer.end - writer.start
        /\ writer \in [held : BOOLEAN, start : Nat, end : Nat, filled : Nat]
    BY DEF IInv, TypeOK, Fill, WriteWindow
  <2>2. writer'.start = writer.start /\ writer'.end = writer.end /\ writer'.filled = f + 1
    BY <1>w, <2>1
  <2>3. wpos' = wpos /\ free' = free
    BY DEF Fill, free
  <2>4. f + 1 <= writer.end - writer.start
    BY <1>0, <2>1, Numbers
  <2> QED
    BY <1>n, <2>1, <2>2, <2>3, <2>4 DEF WriteWindow
<1>5. UnreadInOrder'
  <2> SUFFICES ASSUME NEW i \in 0..(used - 1) PROVE mem'[Slot(rpos + i)] = rcvd + i
    BY DEF UnreadInOrder, Fill, Slot
  <2>0. i \in Nat /\ i < used /\ rpos + i \in Nat /\ rpos + used + f \in Nat
    BY <1>n
  <2>1. Slot(rpos + i) # Slot(rpos + used + f)
    <3>1. rpos + i < rpos + used + f /\ rpos + used + f < rpos + i + Cap
      BY <1>n, <2>0
    <3>2. rpos + used + f < Cap + Cap
      BY <1>n
    <3> QED
      BY <2>0, <3>1, <3>2, SlotInjective
  <2>2. mem'[Slot(rpos + i)] = mem[Slot(rpos + i)]
    <3>1. rpos + i < Cap + Cap
      BY <1>n, <2>0
    <3>2. Slot(rpos + i) \in Slots
      BY <2>0, <3>1, SlotCases
    <3> QED
      BY <1>n, <1>m, <1>1, <2>1, <3>2
  <2> QED
    BY <2>2 DEF IInv, UnreadInOrder
<1>6. FilledInOrder'
  <2>0. /\ writer'.filled = f + 1 /\ wpos' = wpos /\ sent' = sent /\ writer.held
        /\ \A i \in 0..(f - 1) : mem[Slot(wpos + i)] = sent + i
    BY <1>0, <1>w DEF TypeOK, Fill, IInv, FilledInOrder
  <2> SUFFICES ASSUME NEW i \in 0..f PROVE mem'[Slot(wpos + i)] = sent + i
    BY <1>n, <2>0 DEF FilledInOrder, Slot
  <2>1. CASE i = f
    BY <1>n, <1>m, <1>2, <2>1
  <2>2. CASE i < f
    <3>1. i \in 0..(f - 1) /\ wpos + i \in Nat /\ wpos + f \in Nat
      BY <1>n, <2>2
    <3>2. wpos + i < wpos + f /\ wpos + i < Cap + Cap
      BY <1>n, <2>2
    <3>3. wpos + f < Cap + Cap /\ wpos + f < wpos + i + Cap
      BY <1>n, <3>1
    <3>4. Slot(wpos + i) # Slot(wpos + f) /\ Slot(wpos + i) \in Slots
      BY <3>1, <3>2, <3>3, SlotInjective, SlotCases
    <3>5. mem'[Slot(wpos + i)] = mem[Slot(wpos + i)]
      BY <1>n, <1>m, <3>4
    <3> QED
      BY <2>0, <3>1, <3>5
  <2> QED
    BY <1>n, <2>1, <2>2
<1>7. ReadWindow' /\ (wpos = Slot(rpos + used))' /\ (sent = rcvd + used)'
  BY DEF IInv, Fill, ReadWindow, Slot
<1> QED
  BY <1>3, <1>4, <1>5, <1>6, <1>7 DEF IInv

LEMMA TagListType ==
  ASSUME NEW s \in Nat, NEW c \in Nat
  PROVE  [k \in 1..c |-> <<s, k>>] \in Seq(Tag)
<1>1. \A k \in 1..c : <<s, k>> \in Tag
  BY DEF Tag
<1>2. [k \in 1..c |-> <<s, k>>] \in [1..c -> Tag]
  BY <1>1
<1> QED
  BY <1>2, SeqDef

LEMMA PushTagsType ==
  ASSUME TypeOK, NEW n \in Nat, NEW tagCount, \A i \in 0..(n - 1) : tagCount[i] \in Nat
  PROVE  PushTags(n, tagCount) \in [Slots -> Seq(Tag)]
<1>0. /\ wpos \in Nat /\ wpos < Cap /\ Cap \in Nat /\ sent \in Nat
      /\ tags \in [Slots -> Seq(Tag)]
  BY Numbers DEF TypeOK
<1> SUFFICES ASSUME NEW p \in Slots, Slot(p + Cap - wpos) < n
             PROVE  tags[p] \o [k \in 1..tagCount[Slot(p + Cap - wpos)] |->
                                  <<sent + Slot(p + Cap - wpos), k>>] \in Seq(Tag)
  BY <1>0 DEF PushTags
<1> DEFINE i == Slot(p + Cap - wpos)
<1>1. i \in Nat
  <2>1. p + Cap - wpos \in Nat /\ p + Cap - wpos < Cap + Cap
    BY <1>0 DEF Slots
  <2>2. i \in Slots
    BY <2>1, SlotCases
  <2> QED
    BY <2>2 DEF Slots
<1> HIDE DEF i
<1>2. tagCount[i] \in Nat
  BY <1>1 DEF i
<1>3. sent + i \in Nat
  BY <1>0, <1>1
<1>4. [k \in 1..tagCount[i] |-> <<sent + i, k>>] \in Seq(Tag)
  BY <1>2, <1>3, TagListType
<1>5. tags[p] \in Seq(Tag)
  BY <1>0
<1> QED
  BY <1>4, <1>5 DEF i

\* The unread samples and the first n filled in ones make one run of samples.
LEMMA ProducedInOrder ==
  ASSUME IInv, writer.held, NEW n \in Nat, n <= writer.filled
  PROVE  \A i \in 0..(used + n - 1) : mem[Slot(rpos + i)] = rcvd + i
<1> SUFFICES ASSUME NEW i \in 0..(used + n - 1) PROVE mem[Slot(rpos + i)] = rcvd + i
  OBVIOUS
<1>0. TypeOK /\ wpos = Slot(rpos + used) /\ sent = rcvd + used
      /\ writer.filled <= writer.end - writer.start
      /\ writer.end <= wpos + free /\ writer.start = wpos
  BY DEF IInv, WriteWindow
<1>1. i \in Nat /\ used \in Nat
  BY <1>0, Numbers
<1>2. CASE i < used
  BY <1>1, <1>2 DEF IInv, UnreadInOrder
<1>3. CASE i >= used
  <2>1. PICK j \in Nat : i = used + j
    BY <1>1, <1>3
  <2>2. j \in 0..(writer.filled - 1) /\ used + j <= Cap
    BY <1>0, <2>1, Numbers
  <2>3. mem[Slot(wpos + j)] = sent + j
    BY <2>2 DEF IInv, FilledInOrder
  <2>4. Slot(Slot(rpos + used) + j) = Slot(rpos + used + j)
    BY <1>0, <2>2, Numbers, SlotAdvance
  <2>5. rpos + used + j = rpos + i /\ sent + j = rcvd + i
    BY <1>0, <1>1, <2>1, Numbers
  <2> QED
    BY <1>0, <2>3, <2>4, <2>5
<1> QED
  BY <1>1, <1>2, <1>3, Numbers DEF IInv

LEMMA ProduceIInv ==
  ASSUME IInv, NEW n \in 1..Cap, NEW tagCount, \A i \in 0..(n - 1) : tagCount[i] \in Nat,
         Produce(n, tagCount)
  PROVE  IInv'
<1>0. TypeOK
  BY DEF IInv
<1>1. /\ wpos' = Slot(wpos + n) /\ used' = used + n /\ sent' = sent + n /\ writer' = NoWriter
      /\ tags' = PushTags(n, tagCount)
      /\ rpos' = rpos /\ mem' = mem /\ reader' = reader /\ rcvd' = rcvd
  BY DEF Produce, NewWpos
<1>2. /\ rpos \in Slots /\ rpos \in Nat /\ rpos < Cap /\ used \in 0..Cap /\ used \in Nat /\ Cap \in Nat
      /\ wpos \in Nat /\ wpos < Cap /\ sent \in Nat /\ rcvd \in Nat /\ n \in Nat
      /\ n <= writer.filled /\ used + n <= Cap
  <2>1. n <= writer.filled /\ writer.filled <= writer.end - writer.start
        /\ writer.end <= wpos + free /\ writer.start = wpos
    BY DEF IInv, Produce, WriteWindow
  <2>2. n \in Nat /\ used + n <= Cap
    BY <1>0, <2>1, Numbers
  <2> QED
    BY <1>0, <2>1, <2>2, Numbers
<1>3. TypeOK'
  <2>1. wpos' \in Slots
    BY <1>1, <1>2, SlotCases
  <2>2. used' \in 0..Cap /\ sent' \in Nat
    BY <1>1, <1>2
  <2>3. tags' \in [Slots -> Seq(Tag)]
    BY <1>0, <1>1, PushTagsType
  <2>4. writer' \in [held : BOOLEAN, start : Nat, end : Nat, filled : Nat]
    BY <1>1 DEF NoWriter
  <2> QED
    BY <1>0, <1>1, <2>1, <2>2, <2>3, <2>4 DEF TypeOK
<1>4. (wpos = Slot(rpos + used))' /\ (sent = rcvd + used)'
  <2>1. Slot(Slot(rpos + used) + n) = Slot(rpos + used + n)
    BY <1>2, SlotAdvance
  <2>2. wpos = Slot(rpos + used) /\ sent = rcvd + used
    BY DEF IInv
  <2>3. wpos' = Slot(rpos + used + n) /\ rpos + used + n = rpos' + used'
    BY <1>1, <1>2, <2>1, <2>2
  <2>4. sent' = rcvd' + used'
    BY <1>1, <1>2, <2>2
  <2> QED
    BY <2>3, <2>4 DEF Slot
<1>5. UnreadInOrder'
  <2>1. \A i \in 0..(used + n - 1) : mem[Slot(rpos + i)] = rcvd + i
    BY <1>2, ProducedInOrder DEF Produce
  <2>2. used' - 1 = used + n - 1
    BY <1>1, <1>2
  <2> QED
    BY <1>1, <2>1, <2>2 DEF UnreadInOrder, Slot
<1>6. WriteWindow' /\ FilledInOrder'
  BY <1>1 DEF WriteWindow, FilledInOrder, NoWriter
<1>7. ReadWindow'
  <2>1. ReadWindow
    BY DEF IInv
  <2> QED
    BY <1>0, <1>1, <1>2, <2>1, Numbers DEF ReadWindow
<1> QED
  BY <1>3, <1>4, <1>5, <1>6, <1>7 DEF IInv

LEMMA ReadBufIInv == IInv /\ ReadBuf => IInv'
<1> SUFFICES ASSUME IInv, ReadBuf PROVE IInv'
  OBVIOUS
<1>0. TypeOK
  BY DEF IInv
<1>1. reader' = [held |-> TRUE, start |-> rpos, end |-> rpos + used,
                 tags |-> ReadTags(rpos, rpos + used)]
  BY DEF ReadBuf, ReadRange
<1>2. ReadTags(rpos, rpos + used) \in [Slots -> Seq(Tag)]
  <2> SUFFICES ASSUME NEW i \in Slots PROVE tags[Slot(rpos + i)] \in Seq(Tag)
    BY DEF ReadTags
  <2>1. rpos + i \in Nat /\ rpos + i < Cap + Cap
    BY <1>0, Numbers DEF Slots
  <2>2. Slot(rpos + i) \in Slots
    BY <2>1, SlotCases
  <2> QED
    BY <1>0, <2>2 DEF TypeOK
<1>3. TypeOK'
  <2>1. reader' \in [held : BOOLEAN, start : Nat, end : Nat, tags : [Slots -> Seq(Tag)]]
    BY <1>0, <1>1, <1>2, Numbers, SMTT(30)
  <2> QED
    BY <1>0, <2>1 DEF TypeOK, ReadBuf
<1>4. ReadWindow'
  <2>1. reader'.start = rpos /\ reader'.end = rpos + used /\ rpos' = rpos /\ used' = used
    BY <1>1 DEF ReadBuf
  <2> QED
    BY <1>0, <2>1, Numbers DEF ReadWindow
<1>5. /\ WriteWindow' /\ UnreadInOrder' /\ FilledInOrder'
      /\ (wpos = Slot(rpos + used))' /\ (sent = rcvd + used)'
  BY DEF IInv, ReadBuf, WriteWindow, UnreadInOrder, FilledInOrder, Slot, free
<1> QED
  BY <1>3, <1>4, <1>5 DEF IInv

LEMMA ConsumeIInv ==
  ASSUME IInv, NEW n \in MinConsume..Cap, Consume(n)
  PROVE  IInv'
<1>0. TypeOK
  BY DEF IInv
<1>1. /\ rpos' = Slot(rpos + n) /\ used' = used - n /\ rcvd' = rcvd + n /\ reader' = NoReader
      /\ wpos' = wpos /\ mem' = mem /\ writer' = writer /\ sent' = sent
  BY DEF Consume
<1>2. /\ rpos \in Slots /\ rpos \in Nat /\ rpos < Cap /\ used \in Nat /\ Cap \in Nat
      /\ wpos \in Nat /\ sent \in Nat /\ rcvd \in Nat
      /\ n \in Nat /\ n \in 0..Cap /\ n <= used /\ used <= Cap
  <2>1. n <= reader.end - reader.start /\ reader.end <= rpos + used /\ reader.start = rpos
    BY DEF IInv, Consume, ReadWindow
  <2>2. n \in 0..Cap /\ n <= used
    BY <1>0, <2>1, Numbers
  <2> QED
    BY <1>0, <2>2, Numbers
<1>3. \A i \in Nat : n + i <= Cap => Slot(rpos' + i) = Slot(rpos + (n + i))
  <2> SUFFICES ASSUME NEW i \in Nat, n + i <= Cap
               PROVE  Slot(rpos' + i) = Slot(rpos + (n + i))
    OBVIOUS
  <2>1. Slot(Slot(rpos + n) + i) = Slot(rpos + n + i)
    BY <1>2, SlotAdvance
  <2>2. rpos + n + i = rpos + (n + i)
    BY <1>2
  <2> QED
    BY <1>1, <2>1, <2>2
<1>4. TypeOK'
  <2>1. rpos' \in Slots
    BY <1>1, <1>2, SlotCases
  <2>2. used' \in 0..Cap /\ rcvd' \in Nat
    BY <1>1, <1>2
  <2>3. tags' \in [Slots -> Seq(Tag)]
    BY <1>0 DEF Consume, TypeOK
  <2>4. reader' \in [held : BOOLEAN, start : Nat, end : Nat, tags : [Slots -> Seq(Tag)]]
    BY <1>1 DEF NoReader, NoTags
  <2> QED
    BY <1>0, <1>1, <2>1, <2>2, <2>3, <2>4 DEF TypeOK
<1>5. (wpos = Slot(rpos + used))' /\ (sent = rcvd + used)'
  <2>1. Slot(rpos' + (used - n)) = Slot(rpos + (n + (used - n)))
    BY <1>2, <1>3
  <2>2. n + (used - n) = used
    BY <1>2
  <2>3. wpos = Slot(rpos + used) /\ sent = rcvd + used
    BY DEF IInv
  <2>4. sent' = rcvd' + used'
    BY <1>1, <1>2, <2>3
  <2> QED
    BY <1>1, <2>1, <2>2, <2>3, <2>4 DEF Slot
<1>6. UnreadInOrder'
  <2> SUFFICES ASSUME NEW i \in 0..(used - n - 1)
               PROVE  mem[Slot(rpos' + i)] = rcvd + n + i
    BY <1>1 DEF UnreadInOrder, Slot
  <2>1. i \in Nat /\ n + i <= Cap /\ n + i \in 0..(used - 1)
    BY <1>2
  <2>2. mem[Slot(rpos + (n + i))] = rcvd + (n + i)
    BY <2>1 DEF IInv, UnreadInOrder
  <2> QED
    BY <1>2, <1>3, <2>1, <2>2
<1>7. WriteWindow'
  <2>1. WriteWindow
    BY DEF IInv
  <2>2. free' = free + n
    BY <1>1, <1>2 DEF free
  <2> QED
    BY <1>0, <1>1, <1>2, <2>1, <2>2, Numbers DEF WriteWindow
<1>8. ReadWindow' /\ FilledInOrder'
  BY <1>1 DEF IInv, ReadWindow, FilledInOrder, NoReader, Slot
<1> QED
  BY <1>4, <1>5, <1>6, <1>7, <1>8 DEF IInv

LEMMA DropIInv == IInv /\ (DropWriter \/ DropReader) => IInv'
<1>1. ASSUME IInv, DropWriter PROVE IInv'
  BY <1>1 DEF IInv, TypeOK, DropWriter, NoWriter, WriteWindow, ReadWindow, UnreadInOrder,
              FilledInOrder, Slot
<1>2. ASSUME IInv, DropReader PROVE IInv'
  <2>1. NoReader \in [held : BOOLEAN, start : Nat, end : Nat, tags : [Slots -> Seq(Tag)]]
    BY DEF NoReader, NoTags
  <2>2. TypeOK'
    BY <1>2, <2>1 DEF IInv, TypeOK, DropReader
  <2> QED
    BY <1>2, <2>2 DEF IInv, DropReader, NoReader, WriteWindow, ReadWindow, UnreadInOrder,
                      FilledInOrder, Slot, free
<1> QED
  BY <1>1, <1>2

LEMMA NextIInv == IInv /\ [Next]_vars => IInv'
<1> SUFFICES ASSUME IInv, [Next]_vars PROVE IInv'
  OBVIOUS
<1>1. CASE WriteBuf
  BY <1>1, WriteBufIInv
<1>2. CASE Fill
  BY <1>2, FillIInv
<1>3. ASSUME NEW n \in 1..Cap, NEW tagCount \in [0..(n - 1) -> 0..TagsPerSample],
             Produce(n, tagCount)
      PROVE  IInv'
  <2>1. \A i \in 0..(n - 1) : tagCount[i] \in Nat
    OBVIOUS
  <2> QED
    BY <1>3, <2>1, ProduceIInv
<1>4. CASE DropWriter
  BY <1>4, DropIInv
<1>5. CASE ReadBuf
  BY <1>5, ReadBufIInv
<1>6. ASSUME NEW n \in MinConsume..Cap, Consume(n) PROVE IInv'
  BY <1>6, ConsumeIInv
<1>7. CASE DropReader
  BY <1>7, DropIInv
<1>8. CASE UNCHANGED vars
  BY <1>8 DEF vars, IInv, TypeOK, WriteWindow, ReadWindow, UnreadInOrder, FilledInOrder,
              Slot, free
<1> QED
  BY <1>1, <1>2, <1>3, <1>4, <1>5, <1>6, <1>7, <1>8 DEF Next

\* The inductive invariant: where the windows lie and what the slots hold, for
\* every interleaving of produce(), consume() and the lock-free accesses.
THEOREM Invariance == Spec => []IInv
<1> QED
  BY InitIInv, NextIInv, PTL DEF Spec

-----------------------------------------------------------------------------
(* What follows from it.                                                   *)

\* BufferState and the windows keep their shape: positions stay below the
\* capacity and used never exceeds it.
THEOREM Typing == Spec => []TypeOK
<1>1. IInv => TypeOK
  BY DEF IInv
<1> QED
  BY <1>1, Invariance, PTL

\* The data race that the comment in full_buffer() says the stream API prevents
\* is impossible: the windows held by the two blocks never share a slot.
THEOREM NoDataRace == Spec => []WindowsDisjoint
<1>1. IInv => WindowsDisjoint
  <2> SUFFICES ASSUME IInv, writer.held, reader.held,
                      NEW p \in reader.start..(reader.end - 1),
                      NEW q \in writer.start..(writer.end - 1)
               PROVE  Slot(p) # Slot(q)
    BY DEF WindowsDisjoint, WriteSlots, ReadSlots
  <2>1. /\ writer.start = wpos /\ writer.end <= wpos + free
        /\ reader.start = rpos /\ reader.end <= rpos + used
        /\ wpos = Slot(rpos + used)
    BY DEF IInv, WriteWindow, ReadWindow
  <2>2. TypeOK
    BY DEF IInv
  <2> DEFINE j == q - wpos
  <2>3. /\ p \in Nat /\ rpos <= p /\ p < rpos + used
        /\ j \in Nat /\ used + j < Cap /\ q = wpos + j
    BY <2>1, <2>2, Numbers
  <2>4. Slot(q) = Slot(rpos + used + j)
    <3> HIDE DEF j
    <3>1. Slot(Slot(rpos + used) + j) = Slot(rpos + used + j)
      BY <2>2, <2>3, Numbers, SlotAdvance
    <3> QED
      BY <2>1, <2>3, <3>1
  <2>5. /\ rpos + used + j \in Nat /\ p < rpos + used + j
        /\ rpos + used + j < p + Cap /\ rpos + used + j < Cap + Cap
    BY <2>2, <2>3, Numbers
  <2> QED
    BY <2>3, <2>4, <2>5, SlotInjective
<1> QED
  BY <1>1, Invariance, PTL

\* A block that stays within the window it was given trips no assert of
\* produce() or consume(), whatever the other block did since.
THEOREM AssertsHold == Spec => []WindowsFit
<1>1. IInv => WindowsFit
  <2> SUFFICES ASSUME IInv PROVE WindowsFit
    OBVIOUS
  <2>1. TypeOK /\ WriteWindow /\ ReadWindow
    BY DEF IInv
  <2> QED
    BY <2>1, Numbers DEF WindowsFit, WriteWindow, ReadWindow
<1> QED
  BY <1>1, Invariance, PTL

\* A read window shows the oldest unconsumed samples, in the order in which
\* they were produced, for as long as the reading block holds it.
THEOREM ReadsInOrder == Spec => []ReadWindowIntact
<1>1. IInv => ReadWindowIntact
  <2> SUFFICES ASSUME IInv, reader.held, NEW i \in 0..(reader.end - reader.start - 1)
               PROVE  mem[Slot(reader.start + i)] = rcvd + i
    BY DEF ReadWindowIntact
  <2>1. TypeOK /\ reader.start = rpos /\ reader.end <= rpos + used
    BY DEF IInv, ReadWindow
  <2>2. i \in 0..(used - 1)
    BY <2>1, Numbers
  <2> QED
    BY <2>1, <2>2 DEF IInv, UnreadInOrder
<1> QED
  BY <1>1, Invariance, PTL

-----------------------------------------------------------------------------
(* Tags.  Positions relative to rpos: the i-th slot from there.            *)

USE BufferAssumption

\* The slot that is i further on than r is found by at most one subtraction.
LEMMA SlotFrom ==
  ASSUME NEW r \in Slots, NEW i \in Slots
  PROVE  /\ Slot(r + i) \in Slots
         /\ r + i < Cap => Slot(r + i) = r + i
         /\ r + i >= Cap => Slot(r + i) = r + i - Cap
<1>1. r \in Nat /\ i \in Nat /\ Cap \in Nat /\ r + i \in Nat /\ r + i < Cap + Cap
  BY DEF Slots
<1> QED
  BY <1>1, SlotCases

\* The slot that is i further on than r is i - u, or i + Cap - u, further on
\* than the one that is u further on.
LEMMA SlotDistance ==
  ASSUME NEW r \in Slots, NEW u \in 0..Cap, NEW i \in Slots
  PROVE  /\ Slot(r + i) \in Slots
         /\ i >= u => Slot(Slot(r + i) + Cap - Slot(r + u)) = i - u
         /\ i < u => Slot(Slot(r + i) + Cap - Slot(r + u)) = i + Cap - u
<1> DEFINE p == Slot(r + i)
           w == Slot(r + u)
<1>1. /\ Cap \in Nat /\ r \in Nat /\ r < Cap /\ i \in Nat /\ i < Cap /\ u \in Nat /\ u <= Cap
      /\ r + i \in Nat /\ r + i < Cap + Cap /\ r + u \in Nat /\ r + u < Cap + Cap
  BY DEF Slots
<1>2. /\ p \in Slots
      /\ r + i < Cap => p = r + i
      /\ r + i >= Cap => p = r + i - Cap
  BY <1>1, SlotCases
<1>3. /\ w \in Slots
      /\ r + u < Cap => w = r + u
      /\ r + u >= Cap => w = r + u - Cap
  BY <1>1, SlotCases
<1> HIDE DEF p, w
<1>4. p + Cap - w \in Nat /\ p + Cap - w < Cap + Cap
  BY <1>1, <1>2, <1>3 DEF Slots
<1>5. /\ p + Cap - w < Cap => Slot(p + Cap - w) = p + Cap - w
      /\ p + Cap - w >= Cap => Slot(p + Cap - w) = p - w
  BY <1>1, <1>2, <1>3, <1>4, SlotCases DEF Slots
<1>6. i >= u => Slot(p + Cap - w) = i - u
  BY <1>1, <1>2, <1>3, <1>5
<1>7. i < u => Slot(p + Cap - w) = i + Cap - u
  BY <1>1, <1>2, <1>3, <1>5
<1> QED
  BY <1>2, <1>6, <1>7 DEF p, w

\* Of the slots from rpos on, consume(n) removes the keys of the first n.
LEMMA ConsumedAre ==
  ASSUME TypeOK, NEW n \in 1..Cap, NEW i \in Slots
  PROVE  Slot(rpos + i) \in ConsumedSlots(Slot(rpos + n)) <=> i < n
<1> DEFINE p == Slot(rpos + i)
           q == Slot(rpos + n)
<1>1. /\ Cap \in Nat /\ rpos \in Nat /\ rpos < Cap /\ i \in Nat /\ i < Cap /\ n \in Nat /\ 0 < n /\ n <= Cap
      /\ rpos + i \in Nat /\ rpos + i < Cap + Cap /\ rpos + n \in Nat /\ rpos + n < Cap + Cap
  BY Numbers DEF Slots
<1>2. /\ p \in Slots
      /\ rpos + i < Cap => p = rpos + i
      /\ rpos + i >= Cap => p = rpos + i - Cap
  BY <1>1, SlotCases
<1>3. /\ q \in Slots
      /\ rpos + n < Cap => q = rpos + n
      /\ rpos + n >= Cap => q = rpos + n - Cap
  BY <1>1, SlotCases
<1> HIDE DEF p, q
<1>4. p \in ConsumedSlots(q) <=> i < n
  <2>1. CASE q > rpos
    <3>1. rpos + n < Cap
      BY <1>1, <1>3, <2>1
    <3> QED
      BY <1>1, <1>2, <1>3, <2>1, <3>1 DEF ConsumedSlots, Slots
  <2>2. CASE ~(q > rpos)
    <3>1. rpos + n >= Cap
      BY <1>1, <1>3, <2>2
    <3> QED
      BY <1>1, <1>2, <1>3, <2>2, <3>1 DEF ConsumedSlots, Slots
  <2> QED
    BY <2>1, <2>2
<1> QED
  BY <1>4 DEF p, q

\* The tags after produce(): those of unread samples stay, and only the n slots
\* that follow get more.
LEMMA Produced ==
  ASSUME IInv, NEW n \in 1..Cap, NEW tagCount, Produce(n, tagCount), NEW i \in Slots
  PROVE  /\ used + n <= Cap
         /\ (i < used \/ i >= used + n) => tags'[Slot(rpos + i)] = tags[Slot(rpos + i)]
         /\ (i >= used /\ i < used + n) =>
              tags'[Slot(rpos + i)] =
                tags[Slot(rpos + i)] \o [k \in 1..tagCount[i - used] |-> <<sent + (i - used), k>>]
<1>0. TypeOK /\ wpos = Slot(rpos + used)
  BY DEF IInv
<1>1. /\ rpos \in Slots /\ used \in 0..Cap /\ used \in Nat /\ Cap \in Nat /\ i \in Nat /\ i < Cap /\ n \in Nat
  BY <1>0, Numbers DEF Slots
<1>2. used + n <= Cap
  <2>1. n <= writer.filled /\ writer.filled <= writer.end - writer.start
        /\ writer.end <= wpos + free /\ writer.start = wpos
    BY DEF IInv, Produce, WriteWindow
  <2> QED
    BY <1>0, <2>1, Numbers
<1>3. tags' = PushTags(n, tagCount)
  BY DEF Produce
<1> DEFINE p == Slot(rpos + i)
           j == Slot(p + Cap - wpos)
<1>4. /\ p \in Slots
      /\ i >= used => j = i - used
      /\ i < used => j = i + Cap - used
  BY <1>0, <1>1, SlotDistance
<1>5. tags'[p] = IF j < n THEN tags[p] \o [k \in 1..tagCount[j] |-> <<sent + j, k>>] ELSE tags[p]
  BY <1>3, <1>4 DEF PushTags
<1> HIDE DEF p, j
<1>6. (i < used \/ i >= used + n) => ~(j < n)
  BY <1>1, <1>2, <1>4
<1>7. (i >= used /\ i < used + n) => j < n /\ j = i - used
  BY <1>1, <1>4
<1> QED
  BY <1>2, <1>5, <1>6, <1>7 DEF p

\* Those after consume(): the slots from the new rpos on are the ones from the
\* n-th on, and then the n that have no tags any more.
LEMMA Consumed ==
  ASSUME IInv, NEW n \in MinConsume..Cap, Consume(n), NEW i \in Slots
  PROVE  /\ rpos' = Slot(rpos + n) /\ rcvd' = rcvd + n /\ used' = used - n
         /\ n \in Nat /\ n <= used
         /\ i < used - n => /\ Slot(rpos' + i) = Slot(rpos + (n + i)) /\ n + i \in Slots
                            /\ n > 0 => tags'[Slot(rpos' + i)] = tags[Slot(rpos + (n + i))]
                            /\ n = 0 => tags'[Slot(rpos' + i)] = <<>>
         /\ (i >= used - n /\ TagsOnTheirSample) => tags'[Slot(rpos' + i)] = <<>>
<1>0. TypeOK
  BY DEF IInv
<1>1. /\ rpos' = Slot(rpos + n) /\ rcvd' = rcvd + n /\ used' = used - n
      /\ tags' = [p \in Slots |-> IF p \in ConsumedSlots(Slot(rpos + n)) THEN <<>> ELSE tags[p]]
  BY DEF Consume
<1>2. /\ rpos \in Slots /\ rpos \in Nat /\ rpos < Cap /\ used \in Nat /\ used <= Cap /\ Cap \in Nat
      /\ n \in Nat /\ n \in 0..Cap /\ n <= used /\ i \in Nat /\ i < Cap
  <2>1. n <= reader.end - reader.start /\ reader.end <= rpos + used /\ reader.start = rpos
    BY DEF IInv, Consume, ReadWindow
  <2>2. n \in 0..Cap /\ n <= used
    BY <1>0, <2>1, Numbers
  <2> QED
    BY <1>0, <2>2, Numbers DEF Slots
<1>3. n + i <= Cap => Slot(rpos' + i) = Slot(rpos + (n + i))
  <2> SUFFICES ASSUME n + i <= Cap PROVE Slot(rpos' + i) = Slot(rpos + (n + i))
    OBVIOUS
  <2>1. Slot(Slot(rpos + n) + i) = Slot(rpos + n + i)
    BY <1>2, SlotAdvance
  <2>2. rpos + n + i = rpos + (n + i)
    BY <1>2
  <2> QED
    BY <1>1, <2>1, <2>2
<1>4. /\ Slot(rpos' + i) \in Slots
      /\ rpos' + i < Cap => Slot(rpos' + i) = rpos' + i
      /\ rpos' + i >= Cap => Slot(rpos' + i) = rpos' + i - Cap
  <2>1. rpos' \in Slots
    BY <1>1, <1>2, SlotCases
  <2> QED
    BY <2>1, SlotFrom
<1>5. CASE n = 0
  <2>1. Slot(rpos + n) = rpos
    BY <1>2, <1>5, SlotCases
  <2>2. \A p \in Slots : p \in ConsumedSlots(rpos)
    BY <1>2 DEF ConsumedSlots, Slots
  <2>3. tags'[Slot(rpos' + i)] = <<>>
    BY <1>1, <1>4, <2>1, <2>2
  <2>4. i < used - n => n + i <= Cap /\ n + i \in Slots
    BY <1>2 DEF Slots
  <2> QED
    BY <1>1, <1>2, <1>3, <1>5, <2>3, <2>4
<1>6. CASE n > 0
  <2>0. n \in 1..Cap
    BY <1>2, <1>6
  <2>1. CASE n + i < Cap
    <3>1. n + i \in Slots /\ Slot(rpos' + i) = Slot(rpos + (n + i)) /\ ~(n + i < n)
      BY <1>2, <1>3, <2>1 DEF Slots
    <3>2. ~(Slot(rpos + (n + i)) \in ConsumedSlots(Slot(rpos + n)))
      BY <1>0, <2>0, <3>1, ConsumedAre
    <3>3. tags'[Slot(rpos' + i)] = tags[Slot(rpos + (n + i))]
      BY <1>1, <1>4, <3>1, <3>2
    <3>4. (i >= used - n /\ TagsOnTheirSample) => tags[Slot(rpos + (n + i))] = <<>>
      <4>1. i >= used - n => ~(n + i < used)
        BY <1>2
      <4> QED
        BY <3>1, <4>1 DEF TagsOnTheirSample, Slots
    <3> QED
      BY <1>1, <1>2, <1>6, <3>1, <3>3, <3>4
  <2>2. CASE n + i >= Cap
    <3> DEFINE m == n + i - Cap
    <3>1. m \in Slots /\ m < n /\ m \in Nat /\ i >= used - n
      BY <1>2, <2>2 DEF Slots
    <3>2. Slot(rpos' + i) = Slot(rpos + m)
      <4>1. /\ rpos + n \in Nat /\ rpos + n < Cap + Cap
            /\ rpos + m \in Nat /\ rpos + m < Cap + Cap
        BY <1>2, <3>1
      <4>2. /\ rpos + n < Cap => rpos' = rpos + n
            /\ rpos + n >= Cap => rpos' = rpos + n - Cap
        BY <1>1, <1>2, <4>1, SlotCases
      <4>3. /\ rpos + m < Cap => Slot(rpos + m) = rpos + m
            /\ rpos + m >= Cap => Slot(rpos + m) = rpos + m - Cap
        BY <1>2, <4>1, SlotCases
      <4> QED
        BY <1>2, <1>4, <2>2, <4>2, <4>3
    <3> HIDE DEF m
    <3>3. Slot(rpos + m) \in ConsumedSlots(Slot(rpos + n))
      BY <1>0, <2>0, <3>1, ConsumedAre
    <3>4. tags'[Slot(rpos' + i)] = <<>>
      BY <1>1, <1>4, <3>2, <3>3
    <3> QED
      BY <1>1, <1>2, <3>1, <3>4
  <2> QED
    BY <1>2, <2>1, <2>2
<1> QED
  BY <1>2, <1>5, <1>6

-----------------------------------------------------------------------------
(* The tags of the samples, and those that a window was given.             *)

TagInv == IInv /\ TagsOnTheirSample /\ ReadTagsInWindow

LEMMA InitTags == Init => TagInv
<1> SUFFICES ASSUME Init PROVE TagInv
  OBVIOUS
<1>1. IInv
  BY InitIInv
<1>2. \A i \in Slots : Slot(rpos + i) \in Slots
  <2> SUFFICES ASSUME NEW i \in Slots PROVE Slot(rpos + i) \in Slots
    OBVIOUS
  <2>1. rpos + i \in Nat /\ rpos + i < Cap + Cap
    BY DEF Init, Slots
  <2> QED
    BY <2>1, SlotCases
<1>3. TagsOnTheirSample
  BY <1>2 DEF Init, TagsOnTheirSample, NoTags, Slots
<1>4. ReadTagsInWindow
  BY DEF Init, ReadTagsInWindow, NoReader
<1> QED
  BY <1>1, <1>3, <1>4 DEF TagInv

LEMMA ProduceTags ==
  ASSUME TagInv, NEW n \in 1..Cap, NEW tagCount, \A i \in 0..(n - 1) : tagCount[i] \in Nat,
         Produce(n, tagCount)
  PROVE  TagsOnTheirSample' /\ ReadTagsInWindow'
<1>0. IInv /\ TypeOK
  BY DEF TagInv, IInv
<1>1. /\ rpos' = rpos /\ used' = used + n /\ rcvd' = rcvd /\ reader' = reader
      /\ sent = rcvd + used /\ used \in Nat /\ rcvd \in Nat /\ sent \in Nat /\ Cap \in Nat /\ n \in Nat
  BY <1>0, Numbers DEF Produce, IInv
<1>2. TagsOnTheirSample'
  <2> SUFFICES ASSUME NEW i \in Slots
               PROVE  IF i < used + n THEN RanksFrom1(tags'[Slot(rpos + i)], rcvd + i)
                      ELSE tags'[Slot(rpos + i)] = <<>>
    BY <1>1 DEF TagsOnTheirSample, Slots, RanksFrom1, Slot
  <2>0. i \in Nat /\ used + n <= Cap
    BY <1>0, Produced DEF Slots
  <2>1. IF i < used THEN RanksFrom1(tags[Slot(rpos + i)], rcvd + i) ELSE tags[Slot(rpos + i)] = <<>>
    BY DEF TagInv, TagsOnTheirSample, Slots
  <2>2. CASE i < used
    BY <1>0, <1>1, <2>0, <2>1, <2>2, Produced
  <2>3. CASE i >= used + n
    BY <1>0, <1>1, <2>0, <2>1, <2>3, Produced
  <2>4. CASE i >= used /\ i < used + n
    <3> DEFINE new == [k \in 1..tagCount[i - used] |-> <<sent + (i - used), k>>]
    <3>1. tags'[Slot(rpos + i)] = tags[Slot(rpos + i)] \o new
      BY <1>0, <2>4, Produced
    <3>2. tags[Slot(rpos + i)] = <<>>
      BY <1>1, <2>0, <2>1, <2>4
    <3>3. new \in Seq(Tag)
      <4>1. i - used \in 0..(n - 1) /\ sent + (i - used) \in Nat
        BY <1>1, <2>0, <2>4
      <4>2. tagCount[i - used] \in Nat
        BY <4>1
      <4> QED
        BY <4>1, <4>2, TagListType
    <3>4. <<>> \o new = new
      <4> HIDE DEF new
      <4> QED
        BY <3>3, ConcatEmptySeq
    <3>5. sent + (i - used) = rcvd + i
      BY <1>1, <2>0
    <3>6. RanksFrom1(new, rcvd + i)
      BY <3>5 DEF RanksFrom1
    <3> QED
      BY <2>4, <3>1, <3>2, <3>4, <3>6
  <2> QED
    BY <1>1, <2>0, <2>2, <2>3, <2>4
<1>3. ReadTagsInWindow'
  <2> SUFFICES ASSUME reader.held, NEW i \in Slots
               PROVE  reader.tags[i] = IF i < reader.end - reader.start THEN tags'[Slot(rpos + i)] ELSE <<>>
    BY <1>1 DEF ReadTagsInWindow, Slot
  <2>1. reader.tags[i] = IF i < reader.end - reader.start THEN tags[Slot(rpos + i)] ELSE <<>>
    BY DEF TagInv, ReadTagsInWindow
  <2>2. i < reader.end - reader.start => i < used
    BY <1>0, Numbers DEF IInv, ReadWindow, Slots
  <2> QED
    BY <1>0, <2>1, <2>2, Produced
<1> QED
  BY <1>2, <1>3

LEMMA ConsumeTags ==
  ASSUME TagInv, NEW n \in MinConsume..Cap, Consume(n)
  PROVE  TagsOnTheirSample' /\ ReadTagsInWindow'
<1>0. IInv /\ TypeOK /\ TagsOnTheirSample
  BY DEF TagInv, IInv
<1>1. used \in Nat /\ rcvd \in Nat /\ Cap \in Nat /\ n \in Nat
  BY <1>0, Numbers
<1>2. TagsOnTheirSample'
  <2> SUFFICES ASSUME NEW i \in Slots
               PROVE  IF i < used' THEN RanksFrom1(tags'[Slot(rpos' + i)], rcvd' + i)
                      ELSE tags'[Slot(rpos' + i)] = <<>>
    BY DEF TagsOnTheirSample, Slots, RanksFrom1, Slot
  <2>1. rcvd' = rcvd + n /\ used' = used - n /\ i \in Nat /\ n <= used
    BY <1>0, Consumed DEF Slots
  <2>2. CASE i >= used - n
    BY <1>0, <1>1, <2>1, <2>2, Consumed
  <2>3. CASE i < used - n /\ n = 0
    BY <1>0, <2>1, <2>3, Consumed DEF RanksFrom1
  <2>4. CASE i < used - n /\ n > 0
    <3>1. n + i \in Slots /\ tags'[Slot(rpos' + i)] = tags[Slot(rpos + (n + i))]
      BY <1>0, <2>4, Consumed
    <3>2. n + i < used /\ rcvd + (n + i) = rcvd' + i
      BY <1>1, <2>1, <2>4
    <3>3. RanksFrom1(tags[Slot(rpos + (n + i))], rcvd + (n + i))
      BY <1>0, <3>1, <3>2 DEF TagsOnTheirSample, Slots
    <3> QED
      BY <2>1, <2>4, <3>1, <3>2, <3>3
  <2> QED
    BY <1>1, <2>1, <2>2, <2>3, <2>4
<1>3. ReadTagsInWindow'
  BY DEF Consume, ReadTagsInWindow, NoReader
<1> QED
  BY <1>2, <1>3

\* A window shows a superset of its slots, of which those beyond have no tags.
LEMMA ReadBufTags == TagInv /\ ReadBuf => TagsOnTheirSample' /\ ReadTagsInWindow'
<1> SUFFICES ASSUME TagInv, ReadBuf PROVE TagsOnTheirSample' /\ ReadTagsInWindow'
  OBVIOUS
<1>0. IInv /\ TypeOK /\ TagsOnTheirSample
  BY DEF TagInv, IInv
<1>1. TagsOnTheirSample'
  BY <1>0 DEF ReadBuf, TagsOnTheirSample, RanksFrom1, Slot
<1>2. reader' = [held |-> TRUE, start |-> rpos, end |-> rpos + used,
                 tags |-> ReadTags(rpos, rpos + used)]
  BY DEF ReadBuf, ReadRange
<1>3. rpos \in Nat /\ rpos < Cap /\ used \in Nat /\ used <= Cap /\ Cap \in Nat
  BY <1>0, Numbers
<1>4. ReadTagsInWindow'
  <2> SUFFICES ASSUME NEW i \in Slots
               PROVE  reader'.tags[i] = IF i < used THEN tags[Slot(rpos + i)] ELSE <<>>
    <3>1. reader'.end - reader'.start = used
      BY <1>2, <1>3
    <3> QED
      BY <3>1 DEF ReadTagsInWindow, ReadBuf, Slot
  <2> DEFINE p == Slot(rpos + i)
  <2>1. reader'.tags[i] = IF Visible(p, rpos, rpos + used) THEN tags[p] ELSE <<>>
    BY <1>2 DEF ReadTags
  <2>2. i >= used => tags[p] = <<>>
    <3>1. i \in 0..(Cap - 1)
      BY DEF Slots
    <3> HIDE DEF p
    <3>2. i >= used => ~(i < used)
      BY <1>3, <3>1
    <3>3. IF i < used THEN RanksFrom1(tags[p], rcvd + i) ELSE tags[p] = <<>>
      BY <1>0, <3>1 DEF TagsOnTheirSample, p
    <3> QED
      BY <3>2, <3>3
  <2>3. i < used => Visible(p, rpos, rpos + used)
    <3> SUFFICES ASSUME i < used PROVE Visible(p, rpos, rpos + used)
      OBVIOUS
    <3>1. /\ rpos + i \in Nat /\ rpos + i < Cap + Cap /\ i \in Nat /\ i < Cap
          /\ rpos + used \in Nat /\ rpos + used < Cap + Cap
      BY <1>3 DEF Slots
    <3>2. /\ rpos + i < Cap => p = rpos + i
          /\ rpos + i >= Cap => p = rpos + i - Cap
          /\ rpos + used >= Cap => Slot(rpos + used) = rpos + used - Cap
      BY <1>3, <3>1, SlotCases
    <3> HIDE DEF p
    <3>3. CASE rpos + used < Cap
      BY <1>3, <3>1, <3>2, <3>3 DEF Visible
    <3>4. CASE rpos + used >= Cap
      BY <1>3, <3>1, <3>2, <3>4 DEF Visible
    <3> QED
      BY <1>3, <3>3, <3>4
  <2>4. i \in Nat
    BY DEF Slots
  <2> QED
    BY <1>3, <2>1, <2>2, <2>3, <2>4
<1> QED
  BY <1>1, <1>4

LEMMA NextTags == TagInv /\ [Next]_vars => TagInv'
<1> SUFFICES ASSUME TagInv, [Next]_vars PROVE TagInv'
  OBVIOUS
<1>1. IInv'
  BY NextIInv DEF TagInv
<1>2. TagsOnTheirSample' /\ ReadTagsInWindow'
  <2>1. CASE WriteBuf \/ Fill \/ DropWriter
    BY <2>1 DEF TagInv, WriteBuf, Fill, DropWriter, TagsOnTheirSample, ReadTagsInWindow, RanksFrom1, Slot
  <2>2. ASSUME NEW n \in 1..Cap, NEW tagCount \in [0..(n - 1) -> 0..TagsPerSample], Produce(n, tagCount)
        PROVE  TagsOnTheirSample' /\ ReadTagsInWindow'
    <3>1. \A i \in 0..(n - 1) : tagCount[i] \in Nat
      OBVIOUS
    <3> QED
      BY <2>2, <3>1, ProduceTags
  <2>3. CASE ReadBuf
    BY <2>3, ReadBufTags
  <2>4. ASSUME NEW n \in MinConsume..Cap, Consume(n) PROVE TagsOnTheirSample' /\ ReadTagsInWindow'
    BY <2>4, ConsumeTags
  <2>5. CASE DropReader
    BY <2>5 DEF TagInv, DropReader, NoReader, TagsOnTheirSample, ReadTagsInWindow, RanksFrom1, Slot
  <2>6. CASE UNCHANGED vars
    BY <2>6 DEF TagInv, vars, TagsOnTheirSample, ReadTagsInWindow, RanksFrom1, Slot
  <2> QED
    BY <2>1, <2>2, <2>3, <2>4, <2>5, <2>6 DEF Next
<1> QED
  BY <1>1, <1>2 DEF TagInv

\* No tag outlives its sample in the map and turns up on a later one, whatever
\* produce() and consume() are called with, consume(0) included.
THEOREM TagsStay == Spec => []TagsOnTheirSample
<1>1. TagInv => TagsOnTheirSample
  BY DEF TagInv
<1> QED
  BY <1>1, InitTags, NextTags, PTL DEF Spec

\* read_buf() hands out the tags of its window, and what it handed out stays true
\* for as long as the window is held, in spite of what is produced meanwhile.
THEOREM TagsOfWindow == Spec => []ReadTagsInWindow
<1>1. TagInv => ReadTagsInWindow
  BY DEF TagInv
<1> QED
  BY <1>1, InitTags, NextTags, PTL DEF Spec

\* A block that consumes no less than one sample at a time leaves the tags of the
\* samples that stay as they are; with consume(0) this is not so.
THEOREM UnreadTagsKept == ASSUME MinConsume = 1 PROVE Spec => TagsOfUnreadKept
<1> DEFINE Kept == \A i \in (rcvd' - rcvd)..(used - 1) :
                     LET p == Slot(rpos + i) IN tags[p] # <<>> => tags'[p] = tags[p]
<1>1. IInv /\ [Next]_vars => [Kept]_vars
  <2> SUFFICES ASSUME IInv, Next, NEW i \in (rcvd' - rcvd)..(used - 1)
               PROVE  tags'[Slot(rpos + i)] = tags[Slot(rpos + i)]
    OBVIOUS
  <2>0. /\ TypeOK /\ used \in Nat /\ used <= Cap /\ Cap \in Nat /\ rcvd \in Nat
    BY Numbers DEF IInv
  <2>1. CASE WriteBuf \/ Fill \/ DropWriter \/ ReadBuf \/ DropReader
    BY <2>1 DEF WriteBuf, Fill, DropWriter, ReadBuf, DropReader
  <2>2. ASSUME NEW n \in 1..Cap, NEW tagCount, Produce(n, tagCount)
        PROVE  tags'[Slot(rpos + i)] = tags[Slot(rpos + i)]
    <3>1. rcvd' = rcvd
      BY <2>2 DEF Produce
    <3>2. i \in Slots /\ i < used
      BY <2>0, <3>1 DEF Slots
    <3> QED
      BY <2>2, <3>2, Produced
  <2>3. ASSUME NEW n \in 1..Cap, Consume(n)
        PROVE  tags'[Slot(rpos + i)] = tags[Slot(rpos + i)]
    <3>1. /\ rcvd' = rcvd + n
          /\ tags' = [p \in Slots |-> IF p \in ConsumedSlots(Slot(rpos + n)) THEN <<>> ELSE tags[p]]
      BY <2>3 DEF Consume
    <3>2. i \in Slots /\ ~(i < n)
      BY <2>0, <3>1 DEF Slots
    <3>3. ~(Slot(rpos + i) \in ConsumedSlots(Slot(rpos + n)))
      BY <2>0, <3>2, ConsumedAre
    <3>4. Slot(rpos + i) \in Slots
      <4>1. rpos + i \in Nat /\ rpos + i < Cap + Cap
        BY <2>0, <3>2, Numbers DEF Slots
      <4> QED
        BY <4>1, SlotCases
    <3> QED
      BY <3>1, <3>3, <3>4
  <2> QED
    BY <2>1, <2>2, <2>3 DEF Next
<1> QED
  BY <1>1, Invariance, PTL DEF Spec, TagsOfUnreadKept

-----------------------------------------------------------------------------
(* For every capacity: the ring of src/circular_buffer.rs is the queue of  *)
(* samples with their tags that SampleFifo describes, if a reading block   *)
(* consumes at least one sample at a time.                                 *)

USE BufferAssumption

Sample == [val : Nat, tags : Seq(Tag)]

\* A function on 1..n is a sequence of n.
LEMMA SequenceOf ==
  ASSUME NEW S, NEW n \in Nat, NEW q, q = [i \in 1..n |-> q[i]], \A i \in 1..n : q[i] \in S
  PROVE  q \in Seq(S) /\ Len(q) = n
<1>1. q \in [1..n -> S]
  OBVIOUS
<1> QED
  BY <1>1, SeqDef, LenProperties

\* What the queue is, in a state of the ring.
QueueIs ==
  /\ queue \in Seq(Sample) /\ Len(queue) = used
  /\ \A i \in 1..used : /\ queue[i] = [val |-> rcvd + (i - 1), tags |-> tags[Slot(rpos + (i - 1))]]
                        /\ i - 1 \in Slots

LEMMA QueueOf == IInv => QueueIs
<1> SUFFICES ASSUME IInv PROVE QueueIs
  OBVIOUS
<1>0. TypeOK
  BY DEF IInv
<1>1. used \in Nat /\ used <= Cap /\ Cap \in Nat /\ rpos \in Slots /\ rcvd \in Nat
  BY <1>0, Numbers
<1>2. queue = [i \in 1..used |-> queue[i]]
  BY DEF queue
<1>3. ASSUME NEW i \in 1..used
      PROVE  /\ queue[i] = [val |-> rcvd + (i - 1), tags |-> tags[Slot(rpos + (i - 1))]]
             /\ i - 1 \in Slots
             /\ queue[i] \in Sample
  <2>1. i - 1 \in Slots /\ i - 1 \in 0..(used - 1) /\ i - 1 \in Nat /\ rpos + i - 1 = rpos + (i - 1)
    BY <1>1 DEF Slots
  <2>2. mem[Slot(rpos + (i - 1))] = rcvd + (i - 1)
    BY <2>1 DEF IInv, UnreadInOrder
  <2>3. queue[i] = [val |-> rcvd + (i - 1), tags |-> tags[Slot(rpos + (i - 1))]]
    BY <2>1, <2>2 DEF queue
  <2>4. tags[Slot(rpos + (i - 1))] \in Seq(Tag)
    BY <1>0, <1>1, <2>1, SlotFrom DEF TypeOK
  <2> QED
    BY <1>1, <2>1, <2>3, <2>4 DEF Sample
<1>4. queue \in Seq(Sample) /\ Len(queue) = used
  BY <1>1, <1>2, <1>3, SequenceOf
<1> QED
  BY <1>3, <1>4 DEF QueueIs

-----------------------------------------------------------------------------
(* Every step of the ring is a step of the queue, or none.                 *)

LEMMA InitMaps == Init => Fifo!FifoInit
<1> SUFFICES ASSUME Init PROVE Fifo!FifoInit
  OBVIOUS
<1>1. queue \in Seq(Sample) /\ Len(queue) = 0
  BY InitIInv, QueueOf DEF QueueIs, Init
<1>2. queue = <<>>
  BY <1>1, EmptySeq
<1> QED
  BY <1>2 DEF Init, Fifo!FifoInit

LEMMA ProduceMaps ==
  ASSUME TagInv, IInv', QueueIs', NEW n \in 1..Cap, NEW tagCount \in [0..(n - 1) -> 0..TagsPerSample],
         Produce(n, tagCount)
  PROVE  Fifo!Put(n, tagCount)
<1>0. IInv /\ TypeOK /\ QueueIs /\ sent = rcvd + used
  BY QueueOf DEF TagInv, IInv
<1>1. /\ rpos' = rpos /\ used' = used + n /\ rcvd' = rcvd /\ sent' = sent + n
      /\ used \in Nat /\ rcvd \in Nat /\ sent \in Nat /\ Cap \in Nat /\ n \in Nat
  BY <1>0, Numbers DEF Produce
<1>2. used + n <= Cap
  <2>1. 0 \in Slots
    BY <1>1 DEF Slots
  <2> QED
    BY <1>0, <2>1, Produced
<1> DEFINE new == [j \in 1..n |-> Fifo!TaggedSample(sent + j - 1, tagCount[j - 1])]
<1>3. ASSUME NEW j \in 1..n
      PROVE  /\ new[j] = [val |-> sent + (j - 1), tags |-> [k \in 1..tagCount[j - 1] |-> <<sent + (j - 1), k>>]]
             /\ new[j] \in Sample
  <2>1. j - 1 \in 0..(n - 1) /\ sent + (j - 1) \in Nat /\ sent + j - 1 = sent + (j - 1)
    BY <1>1
  <2>2. tagCount[j - 1] \in Nat
    BY <2>1
  <2>3. new[j] = [val |-> sent + (j - 1), tags |-> [k \in 1..tagCount[j - 1] |-> <<sent + (j - 1), k>>]]
    BY <2>1 DEF Fifo!TaggedSample
  <2>4. [k \in 1..tagCount[j - 1] |-> <<sent + (j - 1), k>>] \in Seq(Tag)
    BY <2>1, <2>2, TagListType
  <2>5. new[j] \in Sample
    <3> HIDE DEF new
    <3> QED
      BY <2>1, <2>3, <2>4 DEF Sample
  <2> QED
    BY <2>3, <2>5
<1>4. new \in Seq(Sample) /\ Len(new) = n
  <2>1. new = [j \in 1..n |-> new[j]]
    OBVIOUS
  <2> HIDE DEF new
  <2> QED
    BY <1>1, <1>3, <2>1, SequenceOf
<1> HIDE DEF new
<1>5. queue' = queue \o new
  <2>1. /\ queue \in Seq(Sample) /\ Len(queue) = used
        /\ queue' \in Seq(Sample) /\ Len(queue') = used + n
    BY <1>0, <1>1 DEF QueueIs
  <2>2. /\ queue \o new \in Seq(Sample) /\ Len(queue \o new) = used + n
        /\ \A i \in 1..(used + n) : (queue \o new)[i] = IF i <= used THEN queue[i] ELSE new[i - used]
    BY <1>4, <2>1, ConcatProperties
  <2>3. ASSUME NEW i \in 1..(used + n) PROVE queue'[i] = (queue \o new)[i]
    <3>1. /\ queue'[i] = [val |-> rcvd + (i - 1), tags |-> tags'[Slot(rpos + (i - 1))]]
          /\ i - 1 \in Slots /\ i \in Nat
      <4>1. \A k \in 1..used' : /\ queue'[k] = [val |-> rcvd' + (k - 1), tags |-> tags'[Slot(rpos' + (k - 1))]]
                                /\ k - 1 \in Slots
        BY DEF QueueIs, Slot
      <4>2. i \in 1..used' /\ i \in Nat /\ rcvd' = rcvd /\ rpos' = rpos
        BY <1>1
      <4> QED
        BY <4>1, <4>2
    <3>2. CASE i <= used
      <4>1. i \in 1..used /\ i - 1 < used
        BY <1>1, <3>1, <3>2
      <4>2. tags'[Slot(rpos + (i - 1))] = tags[Slot(rpos + (i - 1))]
        BY <1>0, <3>1, <4>1, Produced
      <4>3. queue[i] = [val |-> rcvd + (i - 1), tags |-> tags[Slot(rpos + (i - 1))]]
        BY <1>0, <4>1 DEF QueueIs
      <4> QED
        BY <2>2, <3>1, <3>2, <4>2, <4>3
    <3>3. CASE i > used
      <4> DEFINE j == i - used
                 more == [k \in 1..tagCount[j - 1] |-> <<sent + (j - 1), k>>]
      <4>1. /\ j \in 1..n /\ j - 1 \in 0..(n - 1) /\ j - 1 = (i - 1) - used /\ sent + (j - 1) = rcvd + (i - 1)
            /\ i - 1 >= used /\ i - 1 < used + n /\ sent + (j - 1) \in Nat
        <5>1. sent = rcvd + used /\ used \in Nat /\ rcvd \in Nat /\ n \in Nat /\ i \in 1..(used + n)
          BY <1>0, <1>1
        <5>2. j \in 1..n /\ j - 1 \in 0..(n - 1) /\ j - 1 = (i - 1) - used /\ i - 1 >= used /\ i - 1 < used + n
          BY <3>3, <5>1
        <5>3. sent + (j - 1) = rcvd + (i - 1) /\ sent + (j - 1) \in Nat
          BY <3>3, <5>1
        <5> QED
          BY <5>2, <5>3
      <4>2. tags'[Slot(rpos + (i - 1))] = tags[Slot(rpos + (i - 1))] \o more
        <5>1. tags'[Slot(rpos + (i - 1))] =
                tags[Slot(rpos + (i - 1))] \o
                  [k \in 1..tagCount[(i - 1) - used] |-> <<sent + ((i - 1) - used), k>>]
          <6>1. i - 1 \in Slots /\ i - 1 >= used /\ i - 1 < used + n
            BY <3>1, <4>1
          <6> QED
            BY <1>0, <6>1, Produced
        <5>2. \A d : d = j - 1 => [k \in 1..tagCount[d] |-> <<sent + d, k>>] = more
          OBVIOUS
        <5>3. (i - 1) - used = j - 1
          BY <4>1
        <5> HIDE DEF more, j
        <5> QED
          BY <5>1, <5>2, <5>3
      <4>3. tags[Slot(rpos + (i - 1))] = <<>>
        <5>1. i - 1 \in 0..(Cap - 1) /\ ~(i - 1 < used)
          BY <1>1, <3>1, <4>1 DEF Slots
        <5> QED
          BY <5>1 DEF TagInv, TagsOnTheirSample
      <4>4. <<>> \o more = more
        <5>1. tagCount[j - 1] \in Nat
          BY <4>1
        <5>2. more \in Seq(Tag)
          <6> HIDE DEF j
          <6> QED
            BY <4>1, <5>1, TagListType
        <5> HIDE DEF more
        <5> QED
          BY <5>2, ConcatEmptySeq
      <4>5. new[j] = [val |-> sent + (j - 1), tags |-> more]
        BY <1>3, <4>1
      <4>6. ~(i <= used)
        BY <1>1, <3>1, <3>3
      <4> HIDE DEF more
      <4> QED
        BY <2>2, <3>1, <4>1, <4>2, <4>3, <4>4, <4>5, <4>6
    <3>4. i <= used \/ i > used
      BY <1>1, <3>1
    <3> QED
      BY <3>2, <3>3, <3>4
  <2> QED
    BY <2>1, <2>2, <2>3, SeqEqual
<1>6. Len(queue) + n <= Cap
  BY <1>0, <1>2 DEF QueueIs
<1> QED
  BY <1>1, <1>5, <1>6 DEF Fifo!Put, new

LEMMA ConsumeMaps ==
  ASSUME TagInv, IInv', QueueIs', NEW n \in 1..Cap, MinConsume = 1, Consume(n)
  PROVE  Fifo!Take(n)
<1>0. IInv /\ TypeOK /\ QueueIs /\ n \in MinConsume..Cap
  BY QueueOf DEF TagInv, IInv
<1>1. used \in Nat /\ rcvd \in Nat /\ Cap \in Nat /\ n \in Nat /\ n > 0 /\ used <= Cap
  BY <1>0, Numbers
<1>2. rcvd' = rcvd + n /\ used' = used - n /\ n <= used /\ sent' = sent
  <2>1. 0 \in Slots
    BY <1>1 DEF Slots
  <2> QED
    BY <1>0, <2>1, Consumed DEF Consume
<1>3. /\ queue \in Seq(Sample) /\ Len(queue) = used
      /\ queue' \in Seq(Sample) /\ Len(queue') = used - n
  BY <1>0, <1>2 DEF QueueIs
<1> DEFINE rest == SubSeq(queue, n + 1, used)
<1>4. /\ rest \in Seq(Sample) /\ Len(rest) = used - n
      /\ \A i \in 1..(used - n) : rest[i] = queue[n + i]
  <2>1. \A i \in (n + 1)..used : queue[i] \in Sample
    BY <1>1, <1>3, LenProperties
  <2>2. n + 1 \in Int /\ used \in Int /\ used - (n + 1) + 1 = used - n
        /\ (~(n + 1 <= used) => used - n = 0)
        /\ \A i \in 1..(used - n) : (n + 1) + i - 1 = n + i
    BY <1>1, <1>2
  <2>3. /\ rest \in Seq(Sample)
        /\ Len(rest) = IF n + 1 <= used THEN used - (n + 1) + 1 ELSE 0
        /\ \A i \in 1..(used - (n + 1) + 1) : rest[i] = queue[(n + 1) + i - 1]
    BY <2>1, <2>2, SubSeqProperties
  <2> HIDE DEF rest
  <2> QED
    BY <2>2, <2>3
<1> HIDE DEF rest
<1>5. ASSUME NEW i \in 1..(used - n) PROVE queue'[i] = rest[i]
  <2>1. /\ i - 1 \in Slots /\ i \in Nat
        /\ queue'[i] = [val |-> rcvd' + (i - 1), tags |-> tags'[Slot(rpos' + (i - 1))]]
    BY <1>2 DEF QueueIs, Slot
  <2>2. i - 1 < used - n
    BY <1>1
  <2>3. tags'[Slot(rpos' + (i - 1))] = tags[Slot(rpos + (n + (i - 1)))]
    BY <1>0, <1>1, <2>1, <2>2, Consumed
  <2>4. n + i \in 1..used /\ n + i - 1 = n + (i - 1) /\ rcvd' + (i - 1) = rcvd + (n + (i - 1))
    BY <1>1, <1>2
  <2>5. queue[n + i] = [val |-> rcvd + (n + (i - 1)), tags |-> tags[Slot(rpos + (n + (i - 1)))]]
    BY <1>0, <2>4 DEF QueueIs
  <2> QED
    BY <1>4, <2>1, <2>3, <2>4, <2>5
<1>6. queue' = rest
  BY <1>3, <1>4, <1>5, SeqEqual
<1> QED
  BY <1>2, <1>3, <1>6 DEF Fifo!Take, rest

\* Whatever else a block does leaves the samples between rpos and wpos alone.
LEMMA OtherStepsMap ==
  ASSUME TagInv, QueueIs', WriteBuf \/ Fill \/ DropWriter \/ ReadBuf \/ DropReader \/ UNCHANGED vars
  PROVE  UNCHANGED <<queue, sent>>
<1>0. QueueIs
  BY QueueOf DEF TagInv
<1>1. rpos' = rpos /\ used' = used /\ rcvd' = rcvd /\ sent' = sent /\ tags' = tags
  BY DEF WriteBuf, Fill, DropWriter, ReadBuf, DropReader, vars
<1>2. /\ queue \in Seq(Sample) /\ Len(queue) = used
      /\ queue' \in Seq(Sample) /\ Len(queue') = used
      /\ \A i \in 1..used : queue'[i] = queue[i]
  BY <1>0, <1>1 DEF QueueIs, Slot
<1>3. queue' = queue
  BY <1>2, SeqEqual
<1> QED
  BY <1>1, <1>3

LEMMA NextMaps ==
  ASSUME MinConsume = 1, TagInv, IInv', QueueIs', [Next]_vars
  PROVE  [Fifo!FifoNext]_(Fifo!fifoVars)
<1>1. ASSUME NEW n \in 1..Cap, NEW tagCount \in [0..(n - 1) -> 0..TagsPerSample], Produce(n, tagCount)
      PROVE  Fifo!FifoNext
  BY <1>1, ProduceMaps DEF Fifo!FifoNext
<1>2. ASSUME NEW n \in 1..Cap, Consume(n) PROVE Fifo!FifoNext
  BY <1>2, ConsumeMaps DEF Fifo!FifoNext
<1>3. CASE WriteBuf \/ Fill \/ DropWriter \/ ReadBuf \/ DropReader \/ UNCHANGED vars
  BY <1>3, OtherStepsMap DEF Fifo!fifoVars
<1> QED
  BY <1>1, <1>2, <1>3 DEF Next

\* The ring implements the queue: nothing that the blocks can do with their
\* windows, between the locks or under them, loses, repeats or reorders a sample,
\* or parts it from its tags.
THEOREM ImplementsFifo == ASSUME MinConsume = 1 PROVE Spec => FifoSpec
<1>1. TagInv /\ IInv' /\ QueueIs' /\ [Next]_vars => [Fifo!FifoNext]_(Fifo!fifoVars)
  BY NextMaps
<1>2. TagInv => IInv
  BY DEF TagInv
<1> QED
  BY <1>1, <1>2, InitMaps, InitTags, NextTags, QueueOf, PTL DEF Spec, FifoSpec, Fifo!FifoSpec
=============================================================================
