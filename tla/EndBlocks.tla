----------------------------- MODULE EndBlocks ------------------------------
(***************************************************************************)
(* The blocks at the ends of a graph: what they read comes from a vector,  *)
(* a file, a thread or a socket, and what they write goes to one of those. *)
(* A sink's one output is what it has written in the end, where there is   *)
(* always room.  serialize() of a sample is par.size bytes, and parse() of *)
(* as many bytes is the sample that they are.                              *)
(***************************************************************************)
EXTENDS PacketBlocks

Samples(bytes, size)  == [k \in 1..(Len(bytes) \div size) |-> SubSeq(bytes, (k - 1) * size + 1, k * size)]
Partial(bytes, size)  == Drop(bytes, size * (Len(bytes) \div size))
Serialized(s, size)   == [k \in 1..size |-> <<s, k>>]
AllSerialized(v, size) == FlattenSeq([k \in DOMAIN v |-> Serialized(v[k], size)])

\* Repeat: how often the data are still to come, and how often they have.
Infinite  == -1
finite(n) == [left |-> n, count |-> 0]
infinite  == [left |-> Infinite, count |-> 0]
is_done(r) == r.left = 0

\* again(): what it leaves, and what it answers.  After finite(0) there is
\* nothing to subtract from, which panics where overflow is checked.
Repeated(r)  == [left |-> IF r.left = Infinite THEN Infinite ELSE r.left - 1, count |-> r.count + 1]
GoesOn_late(r) == r.left = Infinite \/ r.left > 0  \* mutant: asks before it subtracts
GoesOn(r)    == r.left = Infinite \/ r.left > 1

-----------------------------------------------------------------------------
(* VectorSource.  pos: how much of the data was produced in this round.    *)

Flag(name) == <<name, 1>>
VectorSourceStart(par) == [repeat |-> finite(par.times), pos |-> 0]

\* In the first round every piece starts with the tag "first".
VectorSourceWork(par, st, w, room) ==
  LET n     == Smaller(room[1], Len(par.data) - st.pos)
      end   == st.pos + n = Len(par.data)
      start == IF st.pos # 0 THEN {}
               ELSE {<<1, Flag("VectorSource::start")>>, <<1, <<"VectorSource::repeat", st.repeat.count>>>>}
      first == IF st.repeat.count # 0 THEN {} ELSE {<<1, Flag("VectorSource::first")>>}
      own   == { <<p[1] - st.pos, p[2]>> : p \in { q \in par.tags : q[1] \in (st.pos + 1)..(st.pos + n) } }
      next  == [repeat |-> IF end THEN Repeated(st.repeat) ELSE st.repeat,
                pos    |-> IF end /\ GoesOn(st.repeat) THEN 0 ELSE st.pos + n]
  IN  IF par.data = <<>> \/ is_done(st.repeat) THEN Nothing(st, w, room, EOF)
      ELSE IF room[1] = 0 THEN Nothing(st, w, room, WaitOut(1, 1))
      ELSE Did(next, <<>>, <<SubSeq(par.data, st.pos + 1, st.pos + n)>>, <<start \cup first \cup own>>,
               IF end /\ ~GoesOn(st.repeat) THEN EOF ELSE Again)

-----------------------------------------------------------------------------
(* read() of a file or a socket: any number of the bytes that are left, as *)
(* far as the buffer has room for them, and 0 only at the end or for an    *)
(* empty buffer.                                                           *)

Reads(left, room) == IF left = 0 \/ room = 0 THEN {0} ELSE 1..Smaller(left, room)

\* Where the reading of a file or a socket is, and the bytes of a sample that
\* is not complete.
FileSourceStart(par) == [repeat |-> finite(par.times), pos |-> 0, buf |-> <<>>]
TcpSourceStart       == [pos |-> 0, buf |-> <<>>]

FileSourceReads(par, st, room) == Reads(Len(par.bytes) - st.pos, room[1] * par.size)

\* n: what read() returns.  After all whole samples have gone there is never
\* more than a part of one in buf, which makes as much as was asked for.
FileSourceWork(par, st, w, room, n) ==
  LET bytes == st.buf \o SubSeq(par.bytes, st.pos + 1, st.pos + n)
      out   == Samples(bytes, par.size)
      next  == [st EXCEPT !.pos = @ + n, !.buf = Partial(bytes, par.size)]
      over  == [st EXCEPT !.repeat = Repeated(@)]
  IN  IF room[1] = 0 THEN Nothing(st, w, room, WaitOut(1, 1))
      ELSE IF n = 0
        THEN IF is_done(st.repeat) THEN Nothing(st, w, room, Panic)
             ELSE IF GoesOn(st.repeat) THEN Nothing([over EXCEPT !.pos = 0], w, room, Again)
             ELSE Nothing(over, w, room, EOF)
      ELSE Did(next, <<>>, <<out>>, <<{}>>, IF out = <<>> THEN Pending ELSE Again)

\* The buffer for read() has a byte for every sample that fits.
TcpSourceReads(par, st, room) == Reads(Len(par.bytes) - st.pos, room[1])

\* The missing bytes of a sample are taken to be among those that were read.
TcpSourceWork(par, st, w, room, n) ==
  LET bytes == st.buf \o SubSeq(par.bytes, st.pos + 1, st.pos + n)
      steal == IF st.buf = <<>> THEN 0 ELSE par.size - Len(st.buf)
      next  == [pos |-> st.pos + n, buf |-> Partial(bytes, par.size)]
  IN  IF n = 0 THEN Nothing(st, w, room, EOF)
      ELSE IF steal > n THEN Nothing(next, w, room, Panic)
      ELSE Did(next, <<>>, <<Samples(bytes, par.size)>>, <<{}>>, Again)

-----------------------------------------------------------------------------
(* ReaderSource and its thread, which hands it what it has read through a  *)
(* channel: a message is some bytes, none at the end, or an error.         *)

Chunk(b)   == [ok |-> TRUE, bytes |-> b]
Broken     == [ok |-> FALSE, bytes |-> <<>>]
TimedOut   == [ok |-> FALSE, bytes |-> <<0>>]
Closing(m) == ~m.ok \/ m.bytes = <<>>

\* What the thread sends when read() answers one after the other of reads.
reader_thread(reads) ==
  LET Read(acc, m) == IF (acc # <<>> /\ Closing(Last(acc))) \/ m = TimedOut THEN acc ELSE Append(acc, m)
  IN  Through(Read, <<>>, reads)

ReaderSourceStart == [buf |-> <<>>]

\* All whole samples in the buffer that fit.
Parsed(acc, size, room) ==
  LET n == Smaller(room - Len(acc.put), Len(acc.buf) \div size)
  IN  [acc EXCEPT !.put = @ \o Take(Samples(acc.buf, size), n), !.buf = Drop(@, n * size)]

\* A message is received when there is room and less than a sample to fill it.
ReaderSourceWork(par, st, w, room) ==
  LET Receive(acc, m) ==
        IF acc.ret # Pending \/ Len(acc.put) = room[1] THEN acc
        ELSE LET got == [acc EXCEPT !.taken = @ + 1]
             IN  IF ~m.ok THEN [got EXCEPT !.ret = Error]
                 ELSE IF m.bytes = <<>> THEN [got EXCEPT !.ret = EOF]
                 ELSE Parsed([got EXCEPT !.buf = @ \o m.bytes], par.size, room[1])
      all == Through(Receive, Parsed(st @@ [put |-> <<>>, taken |-> 0, ret |-> Pending], par.size, room[1]),
                     w[1].v)
  IN  Moved([buf |-> all.buf], all.taken, all.put, {},
            IF all.ret = Pending /\ Len(all.put) = room[1] THEN WaitOut(1, 1) ELSE all.ret)

\* Parse: a stream of bytes that are samples.
ParseWork(par, st, w, room) ==
  LET n == Smaller(Len(w[1].v) \div par.size, room[1])
  IN  Moved(st, n * par.size, Take(Samples(w[1].v, par.size), n), {},
            IF Len(w[1].v) - n * par.size < par.size THEN WaitIn(1, 1) ELSE WaitOut(1, 1))

-----------------------------------------------------------------------------
(* Sinks                                                                   *)

NullSinkWork(par, st, w, room) == Did(st, <<Len(w[1].v)>>, <<>>, <<>>, WaitIn(1, 1))

\* What is more than fits is consumed too, unless nothing fits.  tags has their
\* positions in the windows that they came with.
VectorSinkStart == [len |-> 0, tags |-> <<>>]
VectorSinkWork(par, st, w, room) ==
  LET len == Len(w[1].v)
      n   == Smaller(len, par.max_size - st.len)
  IN  IF n = 0 THEN Nothing(st, w, room, WaitIn(1, 1))
      ELSE Moved([len |-> st.len + n, tags |-> st.tags \o SetToSeq(w[1].t)], len, Take(w[1].v, n), {}, WaitIn(1, 1))

VectorSinkNoCopyStart == [len |-> 0]

\* One packet more than max_size is stored before the todo!().
VectorSinkNoCopyWork(par, st, w, room) ==
  LET Stored(p, ts) == <<p, ts>>
      n   == Smaller(Len(w[1].v), par.max_size + 1 - st.len)
      all == EveryPacket(Stored, [len |-> st.len + n], <<[w[1] EXCEPT !.v = Take(@, n)]>>)
  IN  IF n = Len(w[1].v) THEN all ELSE [all EXCEPT !.eat = <<n + 1>>, !.ret = Panic]

\* What is printed
DebugSinkWork(par, st, w, room) ==
  Moved(st, Len(w[1].v), [k \in DOMAIN w[1].v |-> <<w[1].v[k], TagsAt(w[1], k)>>], {}, WaitIn(1, 1))

DebugSinkNoCopyWork(par, st, w, room) ==
  IF w[1].v = <<>> THEN Nothing(st, w, room, WaitIn(1, 1)) ELSE Moved(st, 1, <<w[1].v[1]>>, {}, Again)

\* One sample after the other, until there is none.  The writer takes each of them
\* whole, as the code asserts that it does.
WriterSinkWork(par, st, w, room) ==
  Moved(st, Len(w[1].v), AllSerialized(w[1].v, par.size), {}, WaitIn(1, 1))

-----------------------------------------------------------------------------
(* FileSink and NoCopyFileSink.  disk: what the file has, of which a crash *)
(* of the program takes nothing; pending: what is in the BufWriter.        *)

FilePar(par) ==
  /\ DOMAIN par = {"mode", "exists", "flush", "size", "space", "old"}
  /\ par.mode \in {"Create", "Overwrite", "Append"} /\ par.exists \in BOOLEAN /\ par.flush \in BOOLEAN
  /\ par.size \in Nat \ {0} /\ par.space \in Nat
  /\ par.old \in Seq(ToSet(par.old)) /\ Len(par.old) <= par.space

\* What the mode makes of a file that exists, with par.old in it, and of none
FileSinkNew(par) ==
  LET opened(bytes) == [disk |-> bytes, pending |-> <<>>]
  IN  CASE par.mode = "Create"    -> IF par.exists THEN NotBuilt ELSE opened(<<>>)
        [] par.mode = "Overwrite" -> opened(<<>>)
        [] par.mode = "Append"    -> IF par.exists THEN opened(par.old) ELSE NotBuilt

\* The BufWriter writes when it is full, first what it has and then, if it is
\* too much, what it is given: spill bytes in all.
Spills(st, out) == {0, Len(st.pending), Len(st.pending) + Len(out)}

\* write_all() and flush(); the disk has room for par.space bytes.
Written_unflushed(par, st, out, spill) ==  \* mutant: no flush()
  LET all  == st.pending \o out
      gone == Smaller(spill, par.space - Len(st.disk))
  IN  [st |-> [disk |-> st.disk \o Take(all, gone), pending |-> Drop(all, gone)], ok |-> gone = spill]

Written(par, st, out, spill) ==
  LET all  == st.pending \o out
      asks == IF par.flush THEN Len(all) ELSE spill
      gone == Smaller(asks, par.space - Len(st.disk))
  IN  [st |-> [disk |-> st.disk \o Take(all, gone), pending |-> Drop(all, gone)], ok |-> gone = asks]

FileSinkWork(par, st, w, room, spill) ==
  LET out  == AllSerialized(w[1].v, par.size)
      done == Written(par, st, out, spill)
  IN  IF w[1].v = <<>> THEN Nothing(st, w, room, WaitIn(1, 1))
      ELSE IF ~done.ok THEN Nothing(done.st, w, room, Error)
      ELSE Moved(done.st, Len(w[1].v), out, {}, Again)

\* A packet has left its stream when the write fails.
Newline == <<-1, 1>>
WithNewline(s, size) == Append(Serialized(s, size), Newline)
NoCopyFileSinkWork(par, st, w, room, spill) ==
  LET out  == WithNewline(w[1].v[1], par.size)
      done == Written(par, st, out, spill)
  IN  IF w[1].v = <<>> THEN Nothing(st, w, room, WaitIn(1, 1))
      ELSE IF ~done.ok THEN Moved(done.st, 1, <<>>, {}, Error)
      ELSE Moved(done.st, 1, out, {}, Again)

FileSinkSpills(block, par, st, w) ==
  IF w[1].v = <<>> THEN {0}
  ELSE Spills(st, IF block = "FileSink" THEN AllSerialized(w[1].v, par.size) ELSE WithNewline(w[1].v[1], par.size))

\* drop(), which only logs an error
FileSinkDrop(par, st) == Written([par EXCEPT !.flush = TRUE], st, <<>>, 0).st

-----------------------------------------------------------------------------

\* Hasher: the hash is written as what it is a hash of, by drop() only.
HasherStart == [hashed |-> <<>>]
HasherWork(par, st, w, room) ==
  Moved([hashed |-> st.hashed \o w[1].v], Len(w[1].v), <<>>, {}, WaitIn(1, 1))
HasherDrop(st) == <<st.hashed>>

\* A file for every packet, with a name of its own if the clock has ticked.
PduWriterStart == [files_written |-> 0]
PduWriterWork(par, st, w, room) ==
  IF w[1].v = <<>> THEN Nothing(st, w, room, WaitIn(1, 1))
  ELSE Moved([files_written |-> st.files_written + 1], 1, <<AllSerialized(w[1].v[1], par.size)>>, {}, Again)
=============================================================================
