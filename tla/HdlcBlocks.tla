----------------------------- MODULE HdlcBlocks -----------------------------
(***************************************************************************)
(* HDLC framing: FcsAdder, HdlcFramer and HdlcDeframer.  A byte is the     *)
(* sequence of its eight bits and a checksum of its sixteen, the lowest    *)
(* bit first, which is also the order in which they are sent.              *)
(***************************************************************************)
EXTENDS PacketBlocks

Bits(bytes) == FlattenSeq(bytes)
Bytes(bits) == [k \in 1..(Len(bits) \div 8) |-> SubSeq(bits, 8 * k - 7, 8 * k)]

Flipped(bits, k) == [bits EXCEPT ![k] = 1 - @]

\* The polynomial 0x8408 of RFC 1662, by whose table the code goes through the
\* data a byte at a time; here it is a bit at a time.
CrcBit(fcs, bit) ==
  LET shifted == Append(Tail(fcs), 0)
  IN  IF fcs[1] = bit THEN shifted
      ELSE [shifted EXCEPT ![4] = 1 - @, ![11] = 1 - @, ![16] = 1 - @]

calc_crc(data) ==
  LET fcs == Through(CrcBit, <<1, 1, 1, 1, 1, 1, 1, 1, 1, 1, 1, 1, 1, 1, 1, 1>>, Bits(data))
  IN  [k \in 1..16 |-> 1 - fcs[k]]

FcsAdded(data, ts) == <<data \o Bytes(calc_crc(data)), ts>>
FcsAdderWork(par, st, w, room) == EveryPacket(FcsAdded, st, w)

SYNC == <<0, 1, 1, 1, 1, 1, 1, 0>>

\* A 0 is put in after five ones, so that only the flag has six.
Stuff(acc, bit) ==
  IF bit = 0 THEN [out |-> Append(acc.out, 0), ones |-> 0]
  ELSE IF acc.ones = 4 THEN [out |-> acc.out \o <<1, 0>>, ones |-> 0]
  ELSE [out |-> Append(acc.out, 1), ones |-> acc.ones + 1]

\* sync: SYNC_BYTES, how many flags there are before and after the packet
hdlc_encode(data, sync) ==
  LET flags == FlattenSeq([k \in 1..sync |-> SYNC])
  IN  flags \o Through(Stuff, [out |-> <<>>, ones |-> 0], Bits(data)).out \o flags

HdlcFramerWork(par, st, w, room) ==
  LET Packet(data, ts) == <<hdlc_encode(data, par.sync_bytes), ts>>
  IN  EveryPacket(Packet, st, w)

-----------------------------------------------------------------------------
(* HdlcDeframer.  bits: the last eight bits when the flag is looked for,   *)
(* else those of the packet; ones: how many ones there were in a row; pos: *)
(* stream_pos.                                                             *)

Hunting == [state |-> "Unsynced", bits |-> [k \in 1..8 |-> 1], ones |-> 0]
Synced(ones, bits)  == [state |-> "Synced", bits |-> bits, ones |-> ones]
FinalCheck(bits)    == [state |-> "FinalCheck", bits |-> bits, ones |-> 0]

HdlcDeframerStart == Hunting @@ [pos |-> 0, decoded |-> 0, crc_error |-> 0, bitfixed |-> 0]

\* The data as they are, or with the one bit flipped that makes the checksum
\* match.  (The bits of the checksum are tried too, but each is compared with
\* itself, so that none ever helps.)
find_right_crc(data, got, fix_bits) ==
  LET bits == Bits(data)
      good == { k \in DOMAIN bits : calc_crc(Bytes(Flipped(bits, k))) = got }
  IN  IF got = calc_crc(data) THEN [data |-> data, ok |-> TRUE, fixed |-> FALSE]
      ELSE IF fix_bits /\ good # {}
        THEN [data |-> Bytes(Flipped(bits, Least(good))), ok |-> TRUE, fixed |-> TRUE]
        ELSE [data |-> data, ok |-> FALSE, fixed |-> FALSE]

\* The flag is complete: the seven bits of it that were taken for data are cut
\* off, and what is left may be a packet.
Captured(par, acc) ==
  LET bits  == Take(acc.bits, Len(acc.bits) - 7)
      bytes == Bytes(bits)
      n     == Len(bytes)
      right == find_right_crc(Take(bytes, n - 2), Bits(SubSeq(bytes, n - 1, n)), par.fix_bits)
      again == Synced(0, <<>>) @@ acc
      Push1(p) == [again EXCEPT !.decoded = @ + 1, !.put = Append(@, p),
                                !.tags = @ \cup {<<Len(acc.put) + 1, <<"packet_pos", acc.pos>>>>}]
  IN  IF Len(bits) % 8 # 0 \/ n < par.min_size THEN again
      ELSE IF par.keep_checksum THEN Push1(bytes)
      ELSE IF n < 2 THEN [again EXCEPT !.panic = TRUE]
      ELSE IF ~right.ok THEN [again EXCEPT !.crc_error = @ + 1]
      ELSE [Push1(right.data) EXCEPT !.bitfixed = @ + (IF right.fixed THEN 1 ELSE 0)]

update_state(par, acc, bit) ==
  CASE acc.state = "Unsynced" ->
         LET last == Append(Tail(acc.bits), bit)
         IN  (IF last = SYNC THEN Synced(0, <<>>) ELSE [Hunting EXCEPT !.bits = last]) @@ acc
    [] acc.state = "Synced" ->
         (IF Len(acc.bits) > par.max_size * 8 THEN Hunting
          ELSE IF bit = 1 /\ acc.ones = 5 THEN FinalCheck(Append(acc.bits, 1))
          ELSE IF bit = 1 THEN Synced(acc.ones + 1, Append(acc.bits, 1))
          ELSE IF acc.ones = 5 THEN Synced(0, acc.bits)
          ELSE Synced(0, Append(acc.bits, 0))) @@ acc
    [] acc.state = "FinalCheck" ->
         IF bit = 1 \/ Len(acc.bits) < 7 THEN Hunting @@ acc ELSE Captured(par, acc)

HdlcDeframerWork(par, st, w, room) ==
  LET n == Len(w[1].v)
      Bit(acc, bit) ==
        IF acc.panic THEN acc
        ELSE LET next == update_state(par, acc, bit) IN [next EXCEPT !.pos = @ + 1]
      all == Through(Bit, st @@ [put |-> <<>>, tags |-> {}, panic |-> FALSE], w[1].v)
  IN  IF n = 0 THEN Nothing(st, w, room, WaitIn(1, 1))
      ELSE Moved([state |-> all.state, bits |-> all.bits, ones |-> all.ones, pos |-> all.pos,
                  decoded |-> all.decoded, crc_error |-> all.crc_error, bitfixed |-> all.bitfixed], n, all.put, all.tags, IF all.panic THEN Panic ELSE Again)

-----------------------------------------------------------------------------
(* Il2pDeframer.  left: how many bits of a header are still to come.  The  *)
(* header, once complete, is logged, and an empty packet is pushed.        *)

Il2pStart == [left |-> None]

\* The sync tag is on the last bit before the header.
Il2pDeframerWork(par, st, w, room) ==
  LET n     == Len(w[1].v)
      syncs == { p[1] : p \in { q \in w[1].t : q[2][1] = "sync" } }
      get   == Smaller(n, st.left)
      ready == get = st.left
  IN  IF n = 0 THEN Nothing(st, w, room, WaitIn(1, 1))
      ELSE IF st.left # None
        THEN Moved([left |-> IF ready THEN None ELSE st.left - get], get,
                   IF ready THEN <<<<>>>> ELSE <<>>, {}, Again)
      ELSE IF syncs = {} THEN Moved(st, n, <<>>, {}, Again)
      ELSE Moved([left |-> par.header_size], Least(syncs), <<>>, {}, Again)
=============================================================================
