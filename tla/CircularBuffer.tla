--------------------------- MODULE CircularBuffer ---------------------------
(***************************************************************************)
(* Buffer<T> of src/circular_buffer.rs: the ring of samples behind a       *)
(* WriteStream / ReadStream pair.  One block writes, one block reads, each *)
(* in its own thread.  The BufferState is protected by a mutex, so         *)
(* write_buf, read_buf, produce and consume are atomic; the samples are    *)
(* not: a BufferWriter and a BufferReader are windows into the double      *)
(* mapping, used with no lock held while the other side moves on.          *)
(*                                                                         *)
(* The double mapping makes index p and index p + Cap the same memory, so  *)
(* the sample at index p of either window is mem[p % Cap].                 *)
(*                                                                         *)
(* Samples are numbered in the order in which they are produced, and the   *)
(* value of a sample is its number: sent and rcvd, which the program does  *)
(* not keep, are the numbers of the next sample to be produced and to be   *)
(* consumed.  A tag is <<number of its sample, rank among its tags>>.      *)
(***************************************************************************)
EXTENDS Integers, Sequences

CONSTANTS
  Cap,           \* capacity(): circ_len / member_size
  TagsPerSample, \* bound: tags a caller attaches to one sample
  MinConsume,    \* smallest n a reading block passes to consume(n)
  MaxSent        \* bound: samples produced in a behaviour

ASSUME BufferAssumption ==
  /\ Cap \in Nat \ {0}
  /\ TagsPerSample \in Nat
  /\ MinConsume \in {0, 1}
  /\ MaxSent \in Nat

VARIABLES
  rpos, wpos, used, tags,  \* BufferState
  mem,                     \* the samples of the ring
  writer,                  \* the BufferWriter the writing block holds
  reader,                  \* the BufferReader the reading block holds, and its tags
  sent, rcvd

state == <<rpos, wpos, used, tags>>
vars  == <<rpos, wpos, used, tags, mem, writer, reader, sent, rcvd>>

Slots   == 0..(Cap - 1)
NoTags  == [p \in Slots |-> <<>>]
Slot(p) == p % Cap

-----------------------------------------------------------------------------
(* BufferState                                                             *)

WriteRange_ignores_used == <<wpos, wpos + Cap>>      \* mutant: capacity() for free()
WriteRange_inclusive    == <<wpos, wpos + Cap - used + 1>>  \* mutant: inclusive end

free       == Cap - used
WriteRange == <<wpos, wpos + free>>
ReadRange  == <<rpos, rpos + used>>

\* Where the next write window starts after a produce of n samples.
NewWpos_all_filled(n) == Slot(wpos + writer.filled)  \* mutant: ignores n
NewWpos(n) == Slot(wpos + n)

\* mutant: tag positions are not made relative to wpos.
PushTags_absolute(n, tagCount) ==
  [p \in Slots |->
     IF p < n THEN tags[p] \o [k \in 1..tagCount[p] |-> <<sent + p, k>>] ELSE tags[p]]

\* The tags of one produce(): tagCount[i] of them on the i-th sample.
PushTags(n, tagCount) ==
  [p \in Slots |->
     LET i == Slot(p + Cap - wpos)
     IN  IF i < n THEN tags[p] \o [k \in 1..tagCount[i] |-> <<sent + i, k>>]
                  ELSE tags[p]]

\* mutants: the part after the wrap is forgotten; the end is inclusive.
ConsumedSlots_no_wrap(newpos) ==
  IF newpos > rpos THEN rpos..(newpos - 1) ELSE rpos..(Cap - 1)
ConsumedSlots_inclusive(newpos) ==
  IF newpos > rpos THEN rpos..newpos ELSE (rpos..(Cap - 1)) \cup (0..newpos)

\* The keys of the tag map that consume() removes.
ConsumedSlots(newpos) ==
  IF newpos > rpos THEN rpos..(newpos - 1)
                   ELSE (rpos..(Cap - 1)) \cup (0..(newpos - 1))

\* mutant: the window is taken not to wrap.
Visible_no_wrap(p, start, end) == ~(p < start \/ p > end)

\* read_buf() shows the tags at slot p for a window from start to end.
Visible(p, start, end) ==
  IF end < Cap THEN ~(p < start \/ p > end)
               ELSE ~(p > Slot(end) /\ p < start)

-----------------------------------------------------------------------------
(* The writing block.  It fills its window front to back, one sample at a  *)
(* time, and produces no more than it has filled.                          *)

NoWriter == [held |-> FALSE, start |-> 0, end |-> 0, filled |-> 0]

WriteBuf ==
  /\ ~writer.held
  /\ writer' = [held |-> TRUE, start |-> WriteRange[1], end |-> WriteRange[2], filled |-> 0]
  /\ UNCHANGED <<rpos, wpos, used, tags, mem, reader, sent, rcvd>>

Fill ==
  /\ writer.held
  /\ writer.filled < writer.end - writer.start
  /\ sent + writer.filled < MaxSent
  /\ mem' = [mem EXCEPT ![Slot(writer.start + writer.filled)] = sent + writer.filled]
  /\ writer' = [writer EXCEPT !.filled = @ + 1]
  /\ UNCHANGED <<rpos, wpos, used, tags, reader, sent, rcvd>>

Produce(n, tagCount) ==
  /\ writer.held
  /\ n <= writer.filled
  /\ tags' = PushTags(n, tagCount)
  /\ wpos' = NewWpos(n)
  /\ used' = used + n
  /\ writer' = NoWriter
  /\ sent' = sent + n
  /\ UNCHANGED <<rpos, mem, reader, rcvd>>

\* The window goes out of scope, or produce(0, &[]) returns early.
DropWriter ==
  /\ writer.held
  /\ writer' = NoWriter
  /\ UNCHANGED <<rpos, wpos, used, tags, mem, reader, sent, rcvd>>

-----------------------------------------------------------------------------
(* The reading block.                                                      *)

NoReader == [held |-> FALSE, start |-> 0, end |-> 0, tags |-> NoTags]

\* tags are handed out sorted by their position relative to the window.
ReadTags(start, end) ==
  [i \in Slots |-> LET p == Slot(start + i)
                   IN  IF Visible(p, start, end) THEN tags[p] ELSE <<>>]

ReadBuf ==
  /\ ~reader.held
  /\ reader' = [held |-> TRUE, start |-> ReadRange[1], end |-> ReadRange[2],
                tags |-> ReadTags(ReadRange[1], ReadRange[2])]
  /\ UNCHANGED <<rpos, wpos, used, tags, mem, writer, sent, rcvd>>

Consume(n) ==
  LET newpos == Slot(rpos + n) IN
  /\ reader.held
  /\ n <= reader.end - reader.start
  /\ tags' = [p \in Slots |-> IF p \in ConsumedSlots(newpos) THEN <<>> ELSE tags[p]]
  /\ rpos' = newpos
  /\ used' = used - n
  /\ reader' = NoReader
  /\ rcvd' = rcvd + n
  /\ UNCHANGED <<wpos, mem, writer, sent>>

DropReader ==
  /\ reader.held
  /\ reader' = NoReader
  /\ UNCHANGED <<rpos, wpos, used, tags, mem, writer, sent, rcvd>>

-----------------------------------------------------------------------------

Init ==
  /\ rpos = 0 /\ wpos = 0 /\ used = 0 /\ tags = NoTags
  /\ mem = [p \in Slots |-> 0]
  /\ writer = NoWriter
  /\ reader = NoReader
  /\ sent = 0 /\ rcvd = 0

Next ==
  \/ WriteBuf
  \/ Fill
  \/ \E n \in 1..Cap : \E tagCount \in [0..(n - 1) -> 0..TagsPerSample] : Produce(n, tagCount)
  \/ DropWriter
  \/ ReadBuf
  \/ \E n \in MinConsume..Cap : Consume(n)
  \/ DropReader

Spec == Init /\ [][Next]_vars

-----------------------------------------------------------------------------
(* Properties                                                              *)

Tag == Nat \X Nat

\* The state has the shape of BufferState and of the two windows.
TypeOK ==
  /\ rpos \in Slots /\ wpos \in Slots
  /\ used \in 0..Cap
  /\ tags \in [Slots -> Seq(Tag)]
  /\ mem \in [Slots -> Nat]
  /\ writer \in [held : BOOLEAN, start : Nat, end : Nat, filled : Nat]
  /\ reader \in [held : BOOLEAN, start : Nat, end : Nat, tags : [Slots -> Seq(Tag)]]
  /\ sent \in Nat /\ rcvd \in Nat

WriteSlots == { Slot(p) : p \in writer.start..(writer.end - 1) }
ReadSlots  == { Slot(p) : p \in reader.start..(reader.end - 1) }

\* The comment in full_buffer(): data races "will be prevented by the stream
\* API".  A slot is never in the windows of both blocks at once, whatever was
\* produced or consumed since each window was taken.
WindowsDisjoint == writer.held /\ reader.held => WriteSlots \cap ReadSlots = {}

\* The asserts of produce() and consume() cannot fire for a block that stays
\* within its window, although the window was computed under an earlier lock.
WindowsFit ==
  /\ writer.held => writer.end - writer.start <= free
  /\ reader.held => reader.end - reader.start <= used

\* A block that reads its window without the lock, at any moment while it
\* holds it, sees the oldest unconsumed samples in the order they were produced.
ReadWindowIntact ==
  reader.held => \A i \in 0..(reader.end - reader.start - 1) :
                   mem[Slot(reader.start + i)] = rcvd + i

\* The tag map holds the tags of the samples in the buffer, at their slots.
\* How many tags a sample had is known only from its tags: ranks run from 1.
RanksFrom1(ts, i) == \A k \in DOMAIN ts : ts[k] = <<i, k>>

\* A tag is stored at the slot of its own sample and nowhere else, as long as
\* the sample is unread: no tag outlives its sample and turns up on a later one.
TagsOnTheirSample ==
  \A i \in 0..(Cap - 1) :
    LET ts == tags[Slot(rpos + i)]
    IN  IF i < used THEN RanksFrom1(ts, rcvd + i) ELSE ts = <<>>

\* read_buf() hands out, with a window, every tag of the samples in it, and no
\* tag that points past its end in spite of the inclusive upper bound of its
\* filter; and what it handed out stays true while the window is held.
ReadTagsInWindow ==
  reader.held =>
    \A i \in Slots :
      reader.tags[i] = IF i < reader.end - reader.start THEN tags[Slot(rpos + i)] ELSE <<>>

\* consume(n): "Consume `n` samples" (BufferReader::consume).  The tags of the
\* samples that stay in the buffer stay with them.
TagsOfUnreadKept ==
  [][\A i \in (rcvd' - rcvd)..(used - 1) :
        LET p == Slot(rpos + i) IN tags[p] # <<>> => tags'[p] = tags[p]]_vars

\* The ring implements the queue of samples.
queue == [i \in 1..used |-> [val  |-> mem[Slot(rpos + i - 1)],
                             tags |-> tags[Slot(rpos + i - 1)]]]

Fifo == INSTANCE SampleFifo WITH next <- sent

FifoSpec == Fifo!FifoSpec
=============================================================================
