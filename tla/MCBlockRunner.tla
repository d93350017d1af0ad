--------------------------- MODULE MCBlockRunner ----------------------------
EXTENDS BlockRunner

Given(v)    == [v |-> v, t |-> {}]
Marked(v, t) == [v |-> v, t |-> t]
One(block, par, x, cap, room) ==
  [block |-> block, par |-> par, given |-> <<x>>, cap |-> <<cap>>, room |-> <<room>>, atOnce |-> {}]
Two(block, par, x, y, room) ==
  [block |-> block, par |-> par, given |-> <<x, y>>, cap |-> <<2, 1>>, room |-> room, atOnce |-> {}]

NoPar == [none |-> 0]
A == <<"a", 1>>
Words(S, n) == [1..n -> S]
Bits5 == Words({0, 1}, 5)
Lfsr(mask, seed) == [mask |-> mask, seed |-> seed]
Lfsrs == { Lfsr({0, 2}, <<0, 1, 0, 0>>), Lfsr({1}, <<1, 1>>) }
Codes == [code : {<<1, 1, 0>>}, allowed_diffs : 0..1]

SyncCases ==
  { [One("Tee", NoPar, Marked(<<1, 2, 3>>, {<<2, A>>, <<3, <<"b", 2>>>>}), 2, 1) EXCEPT !.room = <<2, 1>>],
    Two("Xor", NoPar, Marked(<<0, 1, 1>>, {<<2, A>>}), Given(<<1, 1, 0>>), <<2>>),
    One("XorConst", [val |-> 1], Given(<<0, 1, 1>>), 2, 2),
    One("BinarySlicer", NoPar, Given(<<-1, 0, 1>>), 2, 2),
    Two("FloatToComplex", NoPar, Given(<<1, 2, 3>>), Given(<<4, 5, 6>>), <<2>>),
    [One("ComplexToFloat", NoPar, Given(<<<<1, 4>>, <<2, 5>>>>), 2, 1) EXCEPT !.room = <<1, 2>>] }
  \cup { One(nrzi, NoPar, Given(bits), 2, 2) : nrzi \in {"NrziDecode", "NrziEncode"}, bits \in Bits5 }
  \cup { One("Descrambler", lfsr, Given(bits), 2, 2) : lfsr \in Lfsrs, bits \in Bits5 }
  \cup { One("Scrambler", lfsr, Given(bits), 2, 2) : lfsr \in Lfsrs, bits \in Bits5 }
  \cup { Two("BurstTagger", [threshold |-> 1], Marked(<<1, 2, 3, 4>>, {<<2, A>>}), Given(trigger), <<2>>) :
            trigger \in Words(1..2, 4) }
  \cup { One("CorrelateAccessCode", code, Given(bits), 3, 2) : code \in Codes, bits \in Bits5 }
  \cup { One("CorrelateAccessCodeTag", code, Marked(bits, {<<2, A>>}), 3, 2) : code \in Codes, bits \in Bits5 }

\* Samples of which each is another one; interpolation only with all room there.
Count(n) == Given([k \in 1..n |-> k])
Slower == { r \in [interp : 1..3, deci : 1..5] : r.interp <= r.deci }

StreamCases ==
  { One("Skip", [skip |-> k], Count(5), 3, 2) : k \in 0..6 }
  \cup { One("Delay", [delay |-> k, others |-> 0..3, changed |-> <<>>], Count(4), 2, 8) : k \in 0..3 }
  \cup { One("RationalResampler", r, Count(7), 3, 2) : r \in Slower }
  \cup { [One("RationalResampler", [interp |-> 4, deci |-> k], Count(3), 2, 8) EXCEPT !.atOnce = {"out"}] :
            k \in 2..3 }
  \cup { One("RtlSdrDecode", NoPar, Count(7), 5, 2),
          [One("AuEncode", [bitrate |-> 44100], Count(3), 2, 28) EXCEPT !.atOnce = {"out"}],
          One("AuDecode", [bitrate |-> 44100], Given(Take(AuHeader(44100), 20)), 20, 3),
          [Two("ToText", [width |-> 1], Marked(<<1, 2, 3>>, {<<2, A>>}), Given(<<4, 5, 6>>), <<7>>)
             EXCEPT !.cap = <<2, 2>>] }

\* Bursts of three and of one, the start of a third.
Bursts == Marked(<<1, 2, 3, 4, 5, 6, 7, 8, 9, 10>>,
                 { <<2, Burst(TRUE)>>, <<5, Burst(FALSE)>>, <<7, Burst(TRUE)>>, <<8, Burst(FALSE)>>,
                   <<10, Burst(TRUE)>>, <<3, A>> })

\* max_size and tail: a burst with its tail has at most max_size samples, or it
\* is so long that it is dropped before the last of them.
Fitting == {<<3, 0>>, <<3, 2>>, <<4, 0>>, <<4, 1>>, <<5, 2>>}

Packets == Marked(<<<<1, 2>>, <<>>, <<3>>, <<4, 5, 6>>>>, {<<1, A>>, <<4, A>>})

\* For KISS: packets with bytes to escape, and what is no packet of data.
Datas == <<<<1, FEND, 2>>, <<FESC, TFEND>>, <<>>>>
Ports == <<0, 3, 15>>
Noise == <<<<FEND, 1, 5, FEND>>, <<>>, <<FEND, 0, FESC, 5, FEND>>>>
Kissed == <<escape(Datas[1], 0), Noise[1], Noise[2], escape(Datas[2], 3), Noise[3], escape(Datas[3], 15)>>
KissAt == <<1, 4, 6>>
KissTags == UNION { {k} \X {<<"KissDecode:port", Ports[k]>>,
                            <<"KissDecode:input-bytes", Len(Kissed[KissAt[k]]) - 3>>,
                            <<"KissDecode:output-bytes", Len(Datas[k])>>} : k \in 1..3 }

\* For HDLC: bytes of ones only, which are stuffed, and one with a flipped bit.
Ones  == <<[k \in 1..8 |-> 1]>>
Mixed == <<<<1, 0, 1, 1, 1, 1, 1, 0>>>>
Sum(data)  == Bytes(calc_crc(data))
Sent(data) == hdlc_encode(data \o Sum(data), 1)
SentBad(data, k) == hdlc_encode(Bytes(Flipped(Bits(data), k)) \o Sum(data), 1)
Air      == <<1, 0>> \o SentBad(Mixed, 3) \o Sent(Ones)
BadEnd   == 2 + Len(SentBad(Mixed, 3))
Deframer(fix, packets, ends) ==
  One("HdlcDeframer",
      [min_size |-> 3, max_size |-> 4, keep_checksum |-> FALSE, fix_bits |-> fix,
       packets |-> packets, ends |-> ends,
       tags |-> { <<k, <<"packet_pos", ends[k] - 1>>>> : k \in DOMAIN ends }],
      Given(Air), 5, 1)

PacketCases ==
  { One("StreamToPdu", [tag |-> "burst", max_size |-> f[1], tail |-> f[2]], Bursts, 3, 1) : f \in Fitting }
  \cup { [One("KissFrame", [max_len |-> 5], Given(s), 6, 1) EXCEPT !.atOnce = {"in"}] :
            s \in Words({FEND, 1}, 6) }
  \cup { One("VecToStream", NoPar, Packets, 3, 6),
          One("PduToStream", NoPar, Packets, 2, 2),
          One("KissDecode", [packets |-> Datas, ends |-> KissAt, tags |-> KissTags], Given(Kissed), 3, 2),
          One("KissEncode", NoPar,
              Marked(Datas, {<<1, A>>, <<2, <<"KissEncode:port", 3>>>>, <<3, <<"KissEncode:port", 16>>>>}), 2, 2),
          One("FcsAdder", NoPar, Marked(<<Ones, Mixed>>, {<<1, A>>}), 2, 2),
          One("HdlcFramer", [sync_bytes |-> 2], Marked(<<Ones, Mixed>>, {<<1, A>>}), 2, 2),
          Deframer(FALSE, <<Ones>>, <<Len(Air)>>),
          Deframer(TRUE, <<Mixed, Ones>>, <<BadEnd, Len(Air)>>) }

\* Texts of one word and of two, and one with a character that has no code.
E1 == <<1>>
T1 == <<3>>
Texts == <<<<>>, <<E1, T1>>, <<T1, Space, E1>>, <<E1, <<>>, T1>>>>
Sync(diffs) == <<"sync", diffs>>

MorePackets ==
  { One("NCMap", [copies |-> n], Packets, 2, 2) : n \in 0..2 }
  \cup { [One("Il2pDeframer", [header_size |-> 3], Marked([k \in 1..9 |-> k], { <<k, Sync(0)>> : k \in at } \cup {<<1, A>>}),
              4, 1) EXCEPT !.atOnce = {"out"}] : at \in SUBSET {1, 2, 4, 5, 6, 8} }
  \cup { One("MorseEncode", NoPar, Marked(Texts, {<<2, A>>}), 3, 2),
          One("DebugFilter", NoPar, Marked(<<1, 2, 3>>, {<<2, A>>, <<2, <<"b", 2>>>>}), 2, 2) }

\* No input: what is read is in the parameters.
Source(block, par, room) ==
  [block |-> block, par |-> par, given |-> <<>>, cap |-> <<>>, room |-> <<room>>, atOnce |-> {}]
Read(block, size, n, times, room) ==
  Source(block, [bytes |-> [k \in 1..n |-> k], size |-> size, times |-> times], room)

\* What read() answers to the thread of a ReaderSource.
Answers == { <<Chunk(<<1>>), TimedOut, Chunk(<<2, 3, 4>>), Chunk(<<5>>), Chunk(<<>>)>>,
             <<Chunk(<<1, 2, 3, 4, 5>>), Chunk(<<6>>), Chunk(<<>>), Chunk(<<7>>)>>,
             <<TimedOut, Chunk(<<1, 2, 3>>), Broken, Chunk(<<4>>)>>, <<Chunk(<<>>)>> }

\* A sink takes all it gets, for which there is room.
Sink(block, par, x, cap) == [One(block, par, x, cap, 99) EXCEPT !.atOnce = {"out"}]

EndCases ==
  { Source("VectorSource", [data |-> [k \in 1..n |-> k], times |-> times, tags |-> tags], 3) :
       n \in 0..3, times \in 0..2, tags \in {{}, {<<1, A>>, <<3, A>>}} }
  \cup { Read("FileSource", size, n, times, 2) : size \in 1..2, n \in {0, 3, 4}, times \in 1..2 }
  \cup { Read("TcpSource", size, 5, 1, 5) : size \in 1..2 }
  \cup { One("ReaderSource", [size |-> size], Given(reader_thread(reads)), 2, 2) : size \in 1..3, reads \in Answers }
  \cup { [One("Parse", [size |-> 2], Count(6), 6, 2) EXCEPT !.atOnce = {"in"}], One("Parse", [size |-> 1], Count(4), 3, 2),
          [One("NullSink", NoPar, Count(4), 3, 1) EXCEPT !.room = <<>>],
          Sink("VectorSink", [max_size |-> 4], Marked(<<1, 2, 3, 4>>, {<<2, A>>}), 3),
          [Sink("VectorSink", [max_size |-> 3], Count(5), 5) EXCEPT !.atOnce = {"in", "out"}],
          Sink("VectorSinkNoCopy", [max_size |-> 4], Packets, 2) }
  \cup { Sink("WriterSink", [size |-> 2], Count(4), 3),
          Sink("Hasher", [total |-> 4], Count(4), 2),
          Sink("DebugSink", NoPar, Marked(<<1, 2, 3>>, {<<2, A>>}), 2), Sink("DebugSinkNoCopy", NoPar, Count(3), 2) }
  \cup { Sink("PduWriter", [size |-> 2], Packets, 2) }

\* Samples of which sums tell which they are.
Powers(n) == Given([k \in 1..n |-> 10 ^ k])
Waves == { <<1, 1, 1, 1, 1, 1, 1, 1>>, <<1, 1, -1, -1, -1, 1, -1, 1>>, <<-1, -1, -1, 1, 1, -1, -1, -1>> }
Long(n) == [k \in 1..n |-> IF k % 5 < 3 THEN 1 ELSE -1]

WindowCases ==
  { One("FirFilter", [taps |-> taps, deci |-> d], Powers(8), 5, 2) : taps \in {<<2>>, <<1, 2, 3>>}, d \in 1..3 }
  \cup { One("FftFilter", [taps |-> taps], Powers(8), 5, 5) : taps \in {<<2>>, <<1, 2>>, <<1, 2, 3>>} }
  \cup { [One("FftFilterFloat", [taps |-> taps, inner |-> 30], Powers(8), 5, 99) EXCEPT !.atOnce = {"out"}] :
            taps \in {<<2>>, <<1, 2, 3>>} }
  \cup { One("FftStream", [size |-> n], Count(5), 4, 3) : n \in 1..3 }
  \cup { One("Hilbert", [ntaps |-> n], Count(4), 3, 2) : n \in {1, 3} }
  \cup { [One("ZeroCrossing", [sps |-> n], Given(wave), 4, 9) EXCEPT !.room = room] :
            n \in 2..4, wave \in Waves, room \in {<<9>>, <<9, 9>>} }
  \cup { [One("ZeroCrossing", [sps |-> 2], Given(Long(26)), 26, 30) EXCEPT !.atOnce = {"out"}] }

\* Samples on the circle, of which none is opposite to the one before.
Circle == <<<<1, 0>>, <<1, 1>>, <<0, 1>>, <<-1, 1>>, <<-1, 0>>, <<-1, -1>>, <<0, -1>>, <<1, -1>>>>
Around == { s \in Words({1, 2, 4, 7}, 3) : \A k \in 1..2 : s[k + 1] - s[k] \notin {4, -4} }
OnCircle(s) == [k \in DOMAIN s |-> Circle[s[k]]]

MathCases ==
  { Two("Add", NoPar, Marked(<<1, 2, 3>>, {<<2, A>>}), Given(<<4, 5, 6>>), <<2>>),
    One("AddConst", [val |-> 10], Marked(<<1, 2, 3>>, {<<2, A>>}), 2, 2),
    One("MultiplyConst", [val |-> 3], Count(3), 2, 2),
    One("ComplexToMag2", NoPar, Given(Take(Circle, 3)), 2, 2),
    One("Map", [map |-> <<10, 20, 30>>, drops |-> {A}], Marked(<<1, 2, 3>>, {<<2, A>>, <<3, <<"b", 2>>>>}), 2, 2),
    One("Inspect", NoPar, Marked(<<1, 2>>, {<<2, A>>}), 2, 1),
    One("Canary", NoPar, Marked(<<1, 2>>, {<<2, A>>}), 2, 1),
    One("CmaEqualizer", [ntaps |-> 2, desired_modulus |-> 1, step_size |-> 3], Given(Take(Circle, 5)), 3, 3),
    [Source("ConstantSource", [val |-> 7, total |-> 5], 2) EXCEPT !.atOnce = {}],
    One("FastFM", NoPar, Given(Take(Circle, 4)), 2, 2) }
  \cup { One("QuadratureDemod", [gain |-> 2], Given(OnCircle(s)), 2, 2) : s \in Around }
  \cup { One("Vco", [k |-> 3], Given(s), 2, 2) : s \in Words({-1, 1}, 3) }
  \cup { One("SinglePoleIirFilter", [num |-> n, den |-> 3], Given(<<27, 54, 81>>), 2, 2) : n \in {0, 1, 2, 4} }
  \cup { Source(s, [step |-> q, amplitude |-> 5, total |-> 6], 3) : s \in SignalSources, q \in {0, 1, 3} }

\* Two and a half samples to a symbol, give or take half a sample.
Chirp1 == [k \in 1..9 |-> k]
Chirp2 == [k \in 1..12 |-> k]
Chirp3 == [k \in 1..7 |-> k]
Signs == { <<-1, 1, 1, -1, -1, 1, -1>>, <<1, -1, -1, -1, -1, -1, 1>>, <<-1, 1, -1, 1, 1, 1, -1>>, <<1, 1, 1, -1, -1, -1, 1>> }
Clock(taps, den) == [unit |-> 4, sps |-> 10, max_deviation |-> 2, taps |-> taps, den |-> den]
Mag(mag, arg, best) == [mag |-> mag, arg |-> arg, best |-> best]
Spectrum == [b \in {Chirp1, Chirp2, Chirp3} |->
               CASE b = Chirp1 -> Mag(<<9, 9, 4, 1>>, 3, 2)
                 [] b = Chirp2 -> Mag(<<1, 1, 5, 8, 9, 3>>, -5, 4)
                 [] b = Chirp3 -> Mag(<<1, 2, 3>>, 0, 0)]

ClockCases ==
  { [One("SymbolSync", Clock(f[1], f[2]), Given(s), 4, 9) EXCEPT !.room = room, !.atOnce = {"out"}] :
       f \in {<<<<1>>, 1>>, <<<<1, 1>>, 2>>}, s \in Signs, room \in {<<9, 9>>} }
  \cup { [One("SymbolSync", Clock(<<1>>, 1), Given(Long(30)), 2, 30) EXCEPT !.atOnce = {"out"}],
          One("Midpointer", NoPar, Given(<<<<1, 2, 9>>, <<>>, <<-4, 4>>, <<7, 1, 1, 7, 9>>>>), 2, 2),
          One("Wpcr", [spectrum |-> Spectrum, samp_rate |-> 0], Given(<<Chirp1, <<1, 2, 3>>, Chirp2, Chirp3>>), 2, 2),
          One("Wpcr", [spectrum |-> Spectrum, samp_rate |-> 10], Given(<<Chirp2, Chirp1>>), 2, 2),
          Source("Strobe", [period |-> 2, times |-> 3, data |-> <<1, 2>>], 2) }

\* A file that is there and one that is not, opened in every way, on a disk that
\* has room for all or not.
Opening == { o \in [mode : {"Create", "Overwrite", "Append"}, exists : BOOLEAN, flush : BOOLEAN] :
               o.mode = "Append" => o.exists }
Filing(sink, o, space) ==
  Sink(sink, o @@ [size |-> 2, old |-> <<<<0, 1>>, <<0, 2>>>>, space |-> space], Count(3), 2)

\* Archives: what is looked for, with something else in it, and what may be wrong
\* with one: no metadata, or no data, twice, of a bad type, unreadable.
Good == Meta(<<"cf32", "le">>, 100)
M(meta) == Entry("r", "sigmf-meta", "Regular", meta)
D(n)    == Entry("r", "sigmf-data", "Regular", [k \in 1..n |-> k])
Other   == Entry("s", "sigmf-data", "Regular", <<9>>)
Archives ==
  { <<M(Good), D(4)>>, <<Other, D(3), M(Good)>>, <<D(4)>>, <<M(Good)>>, <<M(Good), Other>>, <<M(Good), M(Good), D(4)>>,
    <<M(Good), D(4), D(3)>>, <<M(NoMeta), D(4)>>, <<[M(Good) EXCEPT !.type = "Link"], D(4)>>,
    <<M(Good), [D(4) EXCEPT !.type = "GNUSparse"]>>, <<M(Meta(<<"cf32", "be">>, 0)), D(4)>> }
SigMFCase(files, entries, meta, rate, ignore, times) ==
  Source("SigMFSource", [files |-> files, entries |-> entries, meta |-> meta, bytes |-> <<1, 2, 3, 4, 5>>, size |-> 2,
                         type |-> "Complex", samp_rate |-> rate, ignore_type_error |-> ignore, times |-> times], 2)

FileCases ==
  { Filing(sink, o, 99) : sink \in FileSinks, o \in Opening }
  \cup { Filing(sink, [mode |-> "Append", exists |-> TRUE, flush |-> f], 5) : sink \in FileSinks, f \in BOOLEAN }
  \cup { SigMFCase({""}, a, NoMeta, 100, FALSE, 1) : a \in Archives }
  \cup { SigMFCase({""}, <<M(Good), D(3)>>, NoMeta, rate, TRUE, 2) : rate \in {0, 200} }
  \cup { SigMFCase(files, <<>>, meta, 0, ignore, 1) :
            files \in SUBSET {"-meta", "-data"}, meta \in {Good, NoMeta, written(100)}, ignore \in BOOLEAN }

\* Datagrams, of which the second does not fit into the buffer.
Datagrams == Given(<<<<1, 2, 3>>, <<>>, <<4, 5, 6, 7, 8>>, <<9, 10>>>>)
Addresses == [multicast : {"bad", "good"}, iface : {"none", "bad", "good"}, bind : {"bad", "good"}]
Messages == { <<Chunk(<<1, 2, 3>>), Chunk(<<4>>), Chunk(<<5, 6>>)>>, <<Chunk(<<1, 2>>), Broken>> }
Radio(fails, unread) ==
  [fails |-> fails, unread |-> unread, antenna |-> fails = {}, timeouts |-> 1, gps_coords |-> unread = {}, odd |-> {"gps_time"},
   sensors |-> {"gps_time", "ref_locked", "gps_servo", "secret"}, channel_sensors |-> {"lo_locked", "gps_locked", "secret"},
   breaks |-> FALSE, total |-> 5]
Breaking(par) == [par EXCEPT !.breaks = TRUE]

DeviceCases ==
  { One("UdpSource", a @@ [size |-> 2, buffer |-> 4], Datagrams, 4, room) : a \in Addresses, room \in {1, 2, 5} }
  \cup { One("RtlSdrSource", [found |-> n, ready |-> r], Given(m), 2, 2) : n \in 0..1, r \in BOOLEAN, m \in Messages }
  \cup { One("AudioSink", [device |-> d, started |-> s, plays |-> 99], Count(5), 3, 2) : d \in BOOLEAN, s \in BOOLEAN }
  \cup { [One("AudioSink", [device |-> TRUE, started |-> TRUE, plays |-> n], Count(4), 4, 2) EXCEPT !.atOnce = {"in"}] : n \in 0..3 }
  \cup { Sink("SoapySdrSink", [fails |-> f, timeouts |-> 1, breaks |-> b], Count(4), 3) :
            f \in {{}, {"set_gain"}, {"driver_key"}, {"read_channel_sensor"}}, b \in BOOLEAN }
  \cup { Source("SoapySdrSource", par, 2) :
            par \in { Radio({}, {}), Radio({"driver_key", "get_hardware_time"}, {"gps_locked"}), Radio({"list_sensors"}, {}),
                      Radio({}, {"ref_locked"}), Breaking(Radio({"get_time_source"}, {})) } }

OutsideCases == FileCases \cup DeviceCases
NewCases == MathCases \cup ClockCases
MCCases == OutsideCases \cup NewCases \cup SyncCases \cup StreamCases \cup PacketCases \cup MorePackets \cup EndCases \cup WindowCases

-----------------------------------------------------------------------------
(* What blocks do otherwise than the repository says.  Each of these sets  *)
(* in the place of Cases makes TLC find the property violated that is named *)
(* with it; MCCases leave them out.                                        *)

\* Frames that come in pieces (Faithful, MCBlockRunnerCut.cfg)
CutCases == { One("KissFrame", [max_len |-> 3], Given(<<FEND, 1, 2, FEND, 3, FEND>>), 6, 1) }

\* A file that is to be appended to and is not there (NoPanic)
AppendCases == { Filing(sink, [mode |-> "Append", exists |-> FALSE, flush |-> FALSE], 99) : sink \in FileSinks }

\* An address to listen at, but no group to join (Finishes, under FairSpec)
UnicastCases ==
  { One("UdpSource", [multicast |-> "none", iface |-> "good", bind |-> "good", size |-> 2, buffer |-> 4], Datagrams, 4, 5) }

\* Bursts that are too long by the last sample of their tail (Faithful)
LongBurstCases ==
  { One("StreamToPdu", [tag |-> "burst", max_size |-> m, tail |-> m - 2], Bursts, 3, 1) : m \in 3..4 }

\* More data than there is room for in the first round (Faithful)
LongVectorCases == { Source("VectorSource", [data |-> <<1, 2, 3>>, times |-> 2, tags |-> {}], 2) }

\* A file that is to be read not even once (Faithful)
NeverCases == { Read("FileSource", 1, 2, 0, 2) }

\* More packets than are to be stored (Faithful)
FullSinkCases == { Sink("VectorSinkNoCopy", [max_size |-> 2], Packets, n) : n \in 2..3 }

\* A delayed stream that is read more slowly than it is written (NoIdleAgain, NoPanic)
DelayCases == { One("Delay", [delay |-> 1, others |-> {}, changed |-> <<>>], Count(4), 2, 2) }

\* Packets that fit, but not before the ones before them were read (Finishes, under FairSpec)
TightCases == { One("VecToStream", NoPar, Packets, 3, 3) }

\* A tagged sample for which there is no room yet (Faithful)
TaggedSkipCases == { One("Skip", [skip |-> 1], Marked(<<1, 2, 3>>, {<<3, A>>}), 3, 1) }

\* More samples out than in, but no more room (Faithful)
InterpolationCases == { One("RationalResampler", [interp |-> 2, deci |-> 1], Count(3), 3, 3) }

\* Symbols that are read more slowly than they are found (Faithful)
SlowSymbolCases == { One("ZeroCrossing", [sps |-> 2], Given(Long(10)), 10, 2) }

\* A clock that is read more slowly than the symbols (NoPanic)
SlowClockCases ==
  { [One("SymbolSync", Clock(<<1>>, 1), Given(Long(10)), 10, 9) EXCEPT !.room = <<9, 1>>] }

\* A filter of which the inner streams have less room than the outer ones (HonestWait)
InnerCases == { [One("FftFilterFloat", [taps |-> <<1, 2>>, inner |-> 3], Powers(8), 8, 99) EXCEPT !.atOnce = {"out"}] }

\* A whole file: its header and two samples (Faithful)
WholeAuCases == { One("AuDecode", [bitrate |-> 44100], Given(AuHeader(44100) \o Half(1) \o Half(2)), 22, 3) }
=============================================================================
