---------------------------- MODULE PacketBlocks ----------------------------
(***************************************************************************)
(* The blocks that make packets of samples, samples of packets, or packets *)
(* of packets.  A packet is a sequence; a stream of packets takes whatever *)
(* is pushed to it, so that only VecToStream and PduToStream have to ask   *)
(* how much room there is.                                                 *)
(***************************************************************************)
EXTENDS Work

\* A block whose work() pops packets until there is none: Packet(p, ts) is
\* what it pushes for one, and with which tags, or nothing.
EveryPacket(Packet(_, _), st, w) ==
  LET Pop(acc, k) ==
        LET done == Packet(w[1].v[k], TagsAt(w[1], k))
        IN  IF done = <<>> THEN acc
            ELSE [put |-> Append(acc.put, done[1]),
                  tags |-> acc.tags \cup ({Len(acc.put) + 1} \X done[2])]
      all == Through(Pop, [put |-> <<>>, tags |-> {}], [k \in 1..Len(w[1].v) |-> k])
  IN  Moved(st, Len(w[1].v), all.put, all.tags, WaitIn(1, 1))

\* The work() that is generated for #[rustradio(sync_nocopy_tag)]: it asks for
\* room before every packet.
SyncNoCopyWork(Packet(_, _), st, w, room) ==
  LET n   == Smaller(Len(w[1].v), room[1])
      all == EveryPacket(Packet, st, <<[w[1] EXCEPT !.v = Take(@, n)]>>)
  IN  [all EXCEPT !.ret = IF n = room[1] THEN WaitOut(1, 1) ELSE WaitIn(1, 1)]

\* NCMap: any number of packets for one, here par.copies of it.
NCMapWork(par, st, w, room) ==
  LET of(m) == (m - 1) \div par.copies + 1
      all   == 1..(Len(w[1].v) * par.copies)
  IN  Moved(st, Len(w[1].v), [m \in all |-> w[1].v[of(m)]],
            UNION { {m} \X TagsAt(w[1], of(m)) : m \in all }, WaitIn(1, 1))

\* DebugFilter: a text for each sample, which names it and its tags.
DebugFilterWork(par, st, w, room) ==
  Moved(st, Len(w[1].v), [k \in DOMAIN w[1].v |-> <<w[1].v[k], TagsAt(w[1], k)>>], {}, WaitIn(1, 1))

\* MorseEncode.  A character is the lengths of its symbols, 1 or 3, a space
\* has one of length 0, and one that has no code has none.
Space    == <<0>>
Symbol   == 1 :> <<1, 0>> @@ 3 :> <<1, 1, 1, 0>>
CHAR_GAP == <<0, 0>>
WORD_GAP == <<0, 0, 0, 0, 0, 0>>

encode(msg) ==
  LET Char(k) == CASE msg[k] = <<>>  -> <<>>
                   [] msg[k] = Space -> WORD_GAP
                   [] OTHER -> FlattenSeq([j \in DOMAIN msg[k] |-> Symbol[msg[k][j]]])
                                 \o (IF k < Len(msg) /\ msg[k + 1] # Space THEN CHAR_GAP ELSE <<>>)
  IN  FlattenSeq([k \in DOMAIN msg |-> Char(k)]) \o WORD_GAP

Morsed(msg, ts) == <<encode(msg), ts \cup {<<"MorseEncode::message", msg>>}>>
MorseEncodeWork(par, st, w, room) == SyncNoCopyWork(Morsed, st, w, room)

-----------------------------------------------------------------------------
(* StreamToPdu.  buf: the burst so far; end: how many samples of its tail  *)
(* are still to come, or None.                                             *)

None == -1
StreamToPduStart == [buf |-> <<>>, end |-> None]

Done(acc)      == [acc EXCEPT !.put = Append(@, acc.buf), !.buf = <<>>, !.end = None]
Push(acc, x)   == [acc EXCEPT !.buf = Append(@, x)]

BurstSample_longtail(par, acc, x, ts) ==  \* mutant: the tail is one too long
  IF acc.end # None
    THEN LET more == [Push(acc, x) EXCEPT !.end = @ - 1]
         IN  IF acc.end = 0 THEN Done(more) ELSE more
  ELSE IF <<par.tag, 0>> \in ts
    THEN IF par.tail = 0 THEN Done(acc) ELSE [Push(acc, x) EXCEPT !.end = par.tail - 1]
  ELSE IF <<par.tag, 1>> \in ts \/ acc.buf # <<>> THEN Push(acc, x)
  ELSE acc

\* A sample of the tail, the end of a burst, its start, or one in it.  A sample
\* has at most one tag of that key.
BurstSample(par, acc, x, ts) ==
  IF acc.end # None
    THEN LET more == [Push(acc, x) EXCEPT !.end = @ - 1]
         IN  IF acc.end = 1 THEN Done(more) ELSE more
  ELSE IF <<par.tag, 0>> \in ts
    THEN LET last == IF par.tail > 0 THEN Push(acc, x) ELSE acc
         IN  IF par.tail <= 1 THEN Done(last) ELSE [last EXCEPT !.end = par.tail - 1]
  ELSE IF <<par.tag, 1>> \in ts \/ acc.buf # <<>> THEN Push(acc, x)
  ELSE acc

\* A burst that has become too long is dropped, with what is left of its tail.
Limited(par, acc) ==
  IF Len(acc.buf) > par.max_size THEN [acc EXCEPT !.buf = <<>>, !.end = None] ELSE acc

StreamToPduWork(par, st, w, room) ==
  LET Sample(acc, k) == Limited(par, BurstSample(par, acc, w[1].v[k], TagsAt(w[1], k)))
      n   == Len(w[1].v)
      all == Through(Sample, st @@ [put |-> <<>>], [k \in 1..n |-> k])
  IN  IF n = 0 THEN Nothing(st, w, room, WaitIn(1, 1))
      ELSE Moved([buf |-> all.buf, end |-> all.end], n, all.put, {}, Again)

-----------------------------------------------------------------------------
(* Packets to samples                                                      *)

\* VecToStream: one packet a time, and only as a whole.
VecToStreamWork(par, st, w, room) ==
  LET v == w[1].v[1]
      n == Len(v)
      ends == {<<1, <<"VecToStream::start", n>>>>, <<n, <<"VecToStream::end", n>>>>}
  IN  IF w[1].v = <<>> THEN Nothing(st, w, room, WaitIn(1, 1))
      ELSE IF n > room[1] THEN Nothing(st, w, room, WaitIn(1, n))
      ELSE IF n = 0 THEN Moved(st, 1, <<>>, {}, Again)
      ELSE Moved(st, 1, v, ({1} \X TagsAt(w[1], 1)) \cup ends, Again)

PduToStreamStart == [buf |-> <<>>, tags |-> {}]

Emit_whole(acc, room) ==  \* mutant: the whole packet at once
  IF acc.buf = <<>> THEN acc
  ELSE [acc EXCEPT !.put = @ \o acc.buf, !.buf = <<>>,
                   !.ptags = @ \cup ({Len(acc.put) + 1} \X acc.tags), !.tags = {}]

Emit_again(acc, room) ==  \* mutant: the tags of a packet are not cleared
  LET n == Smaller(room - Len(acc.put), Len(acc.buf))
  IN  IF n = 0 THEN acc
      ELSE [acc EXCEPT !.put = @ \o Take(acc.buf, n), !.buf = Drop(@, n),
                       !.ptags = @ \cup ({Len(acc.put) + 1} \X acc.tags)]

\* As much of the packet as there is room for; its tags go with its first
\* samples.
Emit(acc, room) ==
  LET n == Smaller(room - Len(acc.put), Len(acc.buf))
  IN  IF n = 0 THEN acc
      ELSE [acc EXCEPT !.put = @ \o Take(acc.buf, n), !.buf = Drop(@, n),
                       !.ptags = @ \cup ({Len(acc.put) + 1} \X acc.tags), !.tags = {}]

\* A packet is popped when nothing is left of the one before it.
PduToStreamWork(par, st, w, room) ==
  LET Pop(acc, k) ==
        IF acc.buf # <<>> THEN acc
        ELSE Emit([acc EXCEPT !.buf = w[1].v[k], !.tags = TagsAt(w[1], k), !.taken = @ + 1], room[1])
      all == Through(Pop, Emit(st @@ [put |-> <<>>, ptags |-> {}, taken |-> 0], room[1]),
                      [k \in 1..Len(w[1].v) |-> k])
  IN  Moved([buf |-> all.buf, tags |-> all.tags], all.taken, all.put, all.ptags,
            IF all.buf = <<>> THEN WaitIn(1, 1) ELSE WaitOut(1, 1))

-----------------------------------------------------------------------------
(* KISS: packets between two FENDs, in which FEND and FESC are escaped.    *)

FEND  == 192
FESC  == 219
TFEND == 220
TFESC == 221

escape(bytes, port) ==
  <<FEND, 16 * port>>
    \o FlattenSeq([k \in DOMAIN bytes |->
                     CASE bytes[k] = FEND -> <<FESC, TFEND>>
                       [] bytes[k] = FESC -> <<FESC, TFESC>>
                       [] OTHER           -> <<bytes[k]>>])
    \o <<FEND>>

\* bad: an error was met, and no byte after it matters
unescape(data) ==
  LET Byte(acc, b) ==
        IF acc.bad THEN acc
        ELSE IF acc.escaped
          THEN IF b \in {TFEND, TFESC}
                 THEN [acc EXCEPT !.out = Append(@, IF b = TFEND THEN FEND ELSE FESC), !.escaped = FALSE]
                 ELSE [acc EXCEPT !.bad = TRUE]
        ELSE IF b = FESC THEN [acc EXCEPT !.escaped = TRUE]
        ELSE IF b = FEND THEN [acc EXCEPT !.bad = TRUE]
        ELSE [acc EXCEPT !.out = Append(@, b)]
  IN  Through(Byte, [out |-> <<>>, escaped |-> FALSE, bad |-> FALSE], data)

\* Where the packet starts and ends when the FENDs around it are taken off.
\* When it is nothing but FENDs its end is before its start: a panic.
Others(data)     == { k \in DOMAIN data : data[k] # FEND }
strip_fend(data) ==
  LET S == Others(data)
  IN  IF S = {} THEN <<>> ELSE SubSeq(data, Least(S), CHOOSE k \in S : \A j \in S : j <= k)

KissDecoded(data, ts) ==
  LET x    == strip_fend(data)
      rest == Tail(x)
      out  == unescape(rest)
  IN  IF x = <<>> THEN <<>>
      ELSE IF x[1] % 16 # 0 THEN <<>>
      ELSE IF out.bad \/ out.escaped THEN <<>>
      ELSE <<out.out, ts \cup {<<"KissDecode:port", x[1] \div 16>>,
                               <<"KissDecode:input-bytes", Len(rest)>>,
                               <<"KissDecode:output-bytes", Len(out.out)>>}>>

\* Up to the first packet that makes strip_fend() panic.
KissDecodeWork(par, st, w, room) ==
  LET v     == w[1].v
      fends == { k \in DOMAIN v : v[k] # <<>> /\ Others(v[k]) = {} }
      n     == IF fends = {} THEN Len(v) ELSE Least(fends)
      upto  == [w[1] EXCEPT !.v = Take(v, IF fends = {} THEN n ELSE n - 1)]
      done  == EveryPacket(KissDecoded, st, <<upto>>)
  IN  [done EXCEPT !.eat = <<n>>, !.ret = IF fends = {} THEN @ ELSE Panic]

KissEncoded(x, ts) ==
  LET ports == { t[2] : t \in { u \in ts : u[1] = "KissEncode:port" } }
      port  == IF ports # {} /\ Least(ports) < 16 THEN Least(ports) ELSE 0
      out   == escape(x, port)
  IN  <<out, { t \in ts : t[1] # "KissEncode:port" }
               \cup {<<"KissEncode:input-bytes", Len(x)>>, <<"KissEncode:output-bytes", Len(out)>>}>>

KissEncodeWork(par, st, w, room) == EveryPacket(KissEncoded, st, w)

Unsynced == [synced |-> FALSE, v |-> <<>>]

\* A frame that has become as long as may be is not pushed, and the FEND that
\* ends it does not start another one.
FrameByte(par, acc, b) ==
  IF ~acc.synced THEN [acc EXCEPT !.synced = (b = FEND)]
  ELSE IF b # FEND
    THEN IF Len(acc.v) < par.max_len THEN [acc EXCEPT !.v = Append(@, b)] ELSE acc
  ELSE IF acc.v = <<>> THEN acc
  ELSE IF Len(acc.v) = par.max_len THEN [acc EXCEPT !.v = <<>>, !.synced = FALSE]
  ELSE [acc EXCEPT !.v = <<>>, !.put = Append(@, acc.v)]

\* work() takes the state out of the block to look at it, goes on until the
\* input is empty, and returns then without having put it back.
KissFrameWork(par, st, w, room) ==
  LET Byte(acc, b) == FrameByte(par, acc, b)
      all == Through(Byte, st @@ [put |-> <<>>], w[1].v)
  IN  Moved(Unsynced, Len(w[1].v), all.put, {}, WaitIn(1, 1))
=============================================================================
