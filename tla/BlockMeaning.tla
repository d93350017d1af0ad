---------------------------- MODULE BlockMeaning ----------------------------
(***************************************************************************)
(* What each block is to make of its whole input, however work() gets to   *)
(* see it: an output is [v |-> its samples or packets, t |-> its tags].    *)
(* Each is stated on the input as a whole, by position, without the        *)
(* block's state; x[i] is input i in the form of a window.                 *)
(***************************************************************************)
EXTENDS SyncBlocks, StreamBlocks, HdlcBlocks, EndBlocks, WindowBlocks

Plain(v)     == [v |-> v, t |-> {}]
Whole(x)     == Len(x[1].v)
BothWhole(x) == Smaller(Len(x[1].v), Len(x[2].v))
Within(t, n) == { p \in t : p[1] <= n }

\* Sample by sample, with the tags of the first input.
Each(x, n, F(_)) == [v |-> [k \in 1..n |-> F(k)], t |-> Within(x[1].t, n)]

At(s, k) == IF k \in DOMAIN s THEN s[k] ELSE 0

NrziDecodeMeaning(x) ==
  LET F(k) == IF x[1].v[k] = At(x[1].v, k - 1) THEN 1 ELSE 0 IN <<Each(x, Whole(x), F)>>

NrziEncodeMeaning(x) ==
  LET F(k) == Cardinality({ j \in 1..k : x[1].v[j] = 0 }) % 2 IN <<Each(x, Whole(x), F)>>

\* A sum of the sample and of earlier ones: those that the mask taps.
DescramblerMeaning(par, x) ==
  LET s    == x[1].v
      F(k) == (s[k] + Cardinality({ j \in par.mask : At(par.seed \o s, k + j) = 1 })) % 2
  IN  <<Each(x, Whole(x), F)>>

\* What the register starts with, then sums of the sample and of earlier sums:
\* bit m of the infinite output is such that the descrambler undoes it.
ScramblerMeaning(par, x) ==
  LET n == Len(par.seed)
      y[m \in 1..(n + Whole(x))] ==
        IF m <= n THEN par.seed[m]
        ELSE (x[1].v[m - n] + Cardinality({ j \in par.mask : y[m - n + j] = 1 })) % 2
      F(k) == y[k]
  IN  <<Each(x, Whole(x), F)>>

BurstTaggerMeaning(par, x) ==
  LET n      == BothWhole(x)
      On(k)  == k \in 1..n /\ x[2].v[k] > par.threshold
      turns  == { k \in 1..n : On(k) # On(k - 1) }
  IN  <<[v |-> Take(x[1].v, n), t |-> Within(x[1].t, n) \cup { <<k, Burst(On(k))>> : k \in turns }]>>

\* In how many places the code differs from the samples that end at k.
Misses(par, s, k) ==
  LET n == Len(par.code) IN Cardinality({ j \in 1..n : At(s, k - n + j) # par.code[j] })

CacMeaning(par, x) ==
  LET F(k) == IF Misses(par, x[1].v, k) <= par.allowed_diffs THEN 1 ELSE 0
  IN  <<Each(x, Whole(x), F)>>

CacTagMeaning(par, x) ==
  LET hits == { k \in 1..Whole(x) : Misses(par, x[1].v, k) <= par.allowed_diffs }
  IN  <<[v |-> x[1].v, t |-> x[1].t \cup { <<k, <<"sync", Misses(par, x[1].v, k)>>>> : k \in hits }]>>

\* Copy m of the output is that of the first sample k with k * interp / deci
\* greater than m - 1.
ResamplerMeaning(par, x) ==
  LET n == (Whole(x) * par.interp + par.deci - 1) \div par.deci
  IN  <<Plain([m \in 1..n |-> x[1].v[((m - 1) * par.deci) \div par.interp + 1]])>>

\* A burst goes from a sample with the tag 1 to the first one with the tag 0
\* after it, which starts the tail; with its tail it is not longer than max_size,
\* or it is left out.
StreamToPduMeaning(par, x) ==
  LET Tagged(b)  == { p[1] : p \in { q \in x[1].t : q[2] = <<par.tag, b>> } }
      End(p)     == Least({ q \in Tagged(0) : q > p })
      ended      == { p \in Tagged(1) : /\ \E q \in Tagged(0) : q > p
                                        /\ End(p) + par.tail - 1 <= Whole(x)
                                        /\ End(p) + par.tail - p <= par.max_size }
      starts     == SetToSortSeq(ended, <)
  IN  <<Plain([k \in DOMAIN starts |->
                 SubSeq(x[1].v, starts[k], End(starts[k]) + par.tail - 1)])>>

Lengths(x, k) == Len(FlattenSeq(Take(x[1].v, k)))

\* Packets one after the other, each with its tags on its first sample.
PacketsInARow(x) ==
  LET full == { k \in DOMAIN x[1].v : x[1].v[k] # <<>> }
  IN  [v |-> FlattenSeq(x[1].v), t |-> { <<Lengths(x, p[1] - 1) + 1, p[2]>> : p \in { q \in x[1].t : q[1] \in full } }]

VecToStreamMeaning(x) ==
  LET full == { k \in DOMAIN x[1].v : x[1].v[k] # <<>> }
      start(k) == <<Lengths(x, k - 1) + 1, <<"VecToStream::start", Len(x[1].v[k])>>>>
      end(k)   == <<Lengths(x, k), <<"VecToStream::end", Len(x[1].v[k])>>>>
  IN  <<[PacketsInARow(x) EXCEPT !.t = @ \cup { start(k) : k \in full } \cup { end(k) : k \in full }]>>

\* What is between two FENDs with none in between.
KissFrameMeaning(par, x) ==
  LET s      == x[1].v
      fends  == { k \in DOMAIN s : s[k] = FEND }
      Next(k) == Least({ j \in fends : j > k })
      starts == { k \in fends : (\E j \in fends : j > k) /\ Next(k) > k + 1 }
      order  == SetToSortSeq(starts, <)
  IN  <<Plain([k \in DOMAIN order |-> SubSeq(s, order[k] + 1, Next(order[k]) - 1)])>>

\* A decoder undoes its encoder: par.packets are what was encoded, par.ends
\* where each of them ends in the input, par.tags what the decoder adds.
DecoderMeaning(par, x) ==
  LET n == Cardinality({ k \in DOMAIN par.ends : par.ends[k] <= Whole(x) })
  IN  <<[v |-> Take(par.packets, n), t |-> Within(par.tags, n)]>>

\* Packet by packet
Encoded(x, Packet(_, _)) ==
  LET Out(k) == Packet(x[1].v[k], TagsAt(x[1], k))
      all    == DOMAIN x[1].v
  IN  <<[v |-> [k \in all |-> Out(k)[1]], t |-> UNION { {k} \X Out(k)[2] : k \in all }]>>

\* The header, then every sample.
AuEncodeMeaning(par, x) ==
  <<Plain(AuHeader(par.bitrate) \o FlattenSeq([k \in DOMAIN x[1].v |-> Half(x[1].v[k])]))>>

\* The samples after the header, which is DataOffset bytes long.
AuDecodeMeaning(x) == <<Plain(Pairs(Drop(x[1].v, DataOffset)))>>

ToTextMeaning(par, x) ==
  LET n == Least({ Len(x[i].v) : i \in DOMAIN x })
  IN  <<Plain(FlattenSeq([k \in 1..n |-> ToTextLine(par, x, k)]))>>

\* An empty packet for every complete header, of which none starts in another:
\* headers[k] is how many there are from k on.
Il2pMeaning(par, x) ==
  LET n        == Whole(x)
      syncs(k) == { p[1] : p \in { q \in x[1].t : q[2][1] = "sync" /\ q[1] >= k } }
      headers[k \in 1..(n + 1)] ==
        IF syncs(k) = {} \/ Least(syncs(k)) + par.header_size > n THEN 0
        ELSE 1 + headers[Least(syncs(k)) + par.header_size + 1]
  IN  <<Plain([k \in 1..headers[1] |-> <<>>])>>

\* The data, par.times in a row.  Each round starts with tags of its own.
Rounds(data, times)    == FlattenSeq([r \in 1..times |-> data])
VectorSourceMeaning(par) ==
  LET start(r) == r * Len(par.data)
      rounds   == IF par.data = <<>> THEN {} ELSE 0..(par.times - 1)
      tags(r)  == Shifted(par.tags, start(r))
                    \cup { <<start(r) + 1, t>> : t \in {Flag("VectorSource::start"), <<"VectorSource::repeat", r>>} }
  IN  <<[v |-> Rounds(par.data, par.times),
         t |-> UNION { tags(r) : r \in rounds }
                 \cup (IF 0 \in rounds THEN {<<1, Flag("VectorSource::first")>>} ELSE {})]>>

\* A sample that begins in one round goes on in the next.
FileSourceMeaning(par) == <<Plain(Samples(Rounds(par.bytes, par.times), par.size))>>

\* What comes before the end, or before what went wrong.
ReaderSourceMeaning(par, x) ==
  LET bytes == FlattenSeq([k \in DOMAIN x[1].v |-> IF x[1].v[k].ok THEN x[1].v[k].bytes ELSE <<>>])
  IN  <<Plain(Samples(bytes, par.size))>>

\* The sum of earlier samples, each times the tap for how much earlier it is.
Convolution(taps, s, k) == SumFunction([j \in DOMAIN taps |-> taps[j] * At(s, k - j + 1)])

\* An output for every par.deci samples for which all taps have one.
FirFilterMeaning(par, x) ==
  LET n   == Len(par.taps)
      all == IF Whole(x) < n THEN 0 ELSE (Whole(x) - n + 1) \div par.deci
  IN  <<Plain([m \in 1..all |-> Convolution(par.taps, x[1].v, (m - 1) * par.deci + n)])>>

\* Whole batches, but no trace of where they begin.
FftFilterMeaning(par, x) ==
  LET size == nsamples(par)
  IN  <<Plain([k \in 1..(size * (Whole(x) \div size)) |-> Convolution(par.taps, x[1].v, k)])>>

FftStreamMeaning(par, x) ==
  LET first(k) == par.size * ((k - 1) \div par.size)
  IN  <<Plain([k \in 1..(par.size * (Whole(x) \div par.size)) |->
                 <<k - first(k), SubSeq(x[1].v, first(k) + 1, first(k) + par.size)>>])>>

\* The window that ends with the sample before.
HilbertMeaning(par, x) ==
  <<Plain([k \in 1..Whole(x) |-> [j \in 1..par.ntaps |-> At(x[1].v, k - par.ntaps - 1 + j)]])>>

\* Half a symbol after the last change of sign, and every symbol from there on.
ZeroCrossingMeaning(par, x) ==
  LET s       == x[1].v
      changes == {1} \cup { k \in DOMAIN s : (s[k] > 0) # (At(s, k - 1) > 0) }
      since(k) == k - (CHOOSE c \in changes : c < k /\ \A d \in changes : d < k => d <= c) - par.sps \div 2
      Chosen(k) == k > 1 /\ since(k) >= 0 /\ since(k) % par.sps = 0
      order   == SelectSeq([k \in DOMAIN s |-> k], Chosen)
  IN  <<Plain([m \in DOMAIN order |-> s[order[m]]]), Plain([m \in DOMAIN order |-> par.sps])>>

\* When the delay becomes another one, at par.changed, there are as many more
\* zeros, or as many samples less, from there on.
DelayMeaning(par, x) ==
  LET zeros(n) == [k \in 1..n |-> 0]
      at == par.changed[1]  delay == par.changed[2]
      before == zeros(par.delay) \o Take(x[1].v, at)
  IN  <<Plain(IF par.changed = <<>> \/ Whole(x) <= at THEN zeros(par.delay) \o x[1].v
              ELSE IF delay > par.delay THEN before \o zeros(delay - par.delay) \o Drop(x[1].v, at)
              ELSE before \o Drop(x[1].v, at + par.delay - delay))>>

Meaning(block, par, x) ==
  CASE block = "Tee" -> <<x[1], x[1]>>
    [] block = "Xor" ->
         LET F(k) == IF x[1].v[k] = x[2].v[k] THEN 0 ELSE 1 IN <<Each(x, BothWhole(x), F)>>
    [] block = "XorConst" ->
         LET F(k) == IF x[1].v[k] = par.val THEN 0 ELSE 1 IN <<Each(x, Whole(x), F)>>
    [] block = "BinarySlicer" ->
         LET F(k) == IF x[1].v[k] > 0 THEN 1 ELSE 0 IN <<Each(x, Whole(x), F)>>
    [] block = "FloatToComplex" ->
         LET F(k) == <<x[1].v[k], x[2].v[k]>> IN <<Each(x, BothWhole(x), F)>>
    [] block = "ComplexToFloat" ->
         LET F(k) == x[1].v[k][1]  G(k) == x[1].v[k][2]
         IN  <<Each(x, Whole(x), F), Each(x, Whole(x), G)>>
    [] block = "NrziDecode"             -> NrziDecodeMeaning(x)
    [] block = "NrziEncode"             -> NrziEncodeMeaning(x)
    [] block = "Descrambler"            -> DescramblerMeaning(par, x)
    [] block = "Scrambler"              -> ScramblerMeaning(par, x)
    [] block = "BurstTagger"            -> BurstTaggerMeaning(par, x)
    [] block = "CorrelateAccessCode"    -> CacMeaning(par, x)
    [] block = "CorrelateAccessCodeTag" -> CacTagMeaning(par, x)
    [] block = "Skip"              -> <<Plain(Drop(x[1].v, par.skip))>>
    [] block = "Delay"             -> DelayMeaning(par, x)
    [] block = "RationalResampler" -> ResamplerMeaning(par, x)
    [] block = "RtlSdrDecode"      -> <<Plain(Pairs(x[1].v))>>
    [] block = "AuEncode"          -> AuEncodeMeaning(par, x)
    [] block = "AuDecode"          -> AuDecodeMeaning(x)
    [] block = "ToText"            -> ToTextMeaning(par, x)
    [] block = "StreamToPdu"       -> StreamToPduMeaning(par, x)
    [] block = "VecToStream"       -> VecToStreamMeaning(x)
    [] block = "PduToStream"       -> <<PacketsInARow(x)>>
    [] block = "KissFrame"         -> KissFrameMeaning(par, x)
    [] block = "KissEncode"        -> Encoded(x, KissEncoded)
    [] block = "FcsAdder"          -> Encoded(x, FcsAdded)
    [] block = "HdlcFramer" ->
         LET Packet(p, ts) == <<hdlc_encode(p, par.sync_bytes), ts>> IN Encoded(x, Packet)
    [] block = "NCMap" ->
         LET of(m) == (m - 1) \div par.copies + 1
             all   == 1..(par.copies * Whole(x))
         IN  <<[v |-> [m \in all |-> x[1].v[of(m)]], t |-> UNION { {m} \X TagsAt(x[1], of(m)) : m \in all }]>>
    [] block = "DebugFilter"       -> <<Plain([k \in 1..Whole(x) |-> <<x[1].v[k], TagsAt(x[1], k)>>])>>
    [] block = "MorseEncode"       -> Encoded(x, Morsed)
    [] block = "Il2pDeframer"      -> Il2pMeaning(par, x)
    [] block = "VectorSource"      -> VectorSourceMeaning(par)
    [] block \in {"FileSource", "TcpSource"} -> FileSourceMeaning(par)
    [] block = "ReaderSource"      -> ReaderSourceMeaning(par, x)
    [] block = "Parse"             -> <<Plain(Samples(x[1].v, par.size))>>
    [] block = "NullSink"          -> <<>>
    [] block = "VectorSink"        -> <<Plain(Take(x[1].v, Smaller(Whole(x), par.max_size)))>>
    [] block = "VectorSinkNoCopy" ->
         LET n == Smaller(Whole(x), par.max_size) IN <<[v |-> Take(x[1].v, n), t |-> Within(x[1].t, n)]>>
    [] block = "WriterSink"        -> <<Plain(AllSerialized(x[1].v, par.size))>>
    [] block = "DebugSink"       -> <<Plain([k \in 1..Whole(x) |-> <<x[1].v[k], TagsAt(x[1], k)>>])>>
    [] block = "DebugSinkNoCopy" -> <<Plain(x[1].v)>>
    [] block = "Hasher"          -> <<Plain(IF Whole(x) = par.total THEN <<x[1].v>> ELSE <<>>)>>
    [] block = "PduWriter" ->
         <<Plain([k \in 1..Whole(x) |-> AllSerialized(x[1].v[k], par.size)])>>
    [] block = "FirFilter"         -> FirFilterMeaning(par, x)
    [] block \in {"FftFilter", "FftFilterFloat"} -> FftFilterMeaning(par, x)
    [] block = "FftStream"         -> FftStreamMeaning(par, x)
    [] block = "Hilbert"           -> HilbertMeaning(par, x)
    [] block = "ZeroCrossing"      -> ZeroCrossingMeaning(par, x)
    [] block \in {"KissDecode", "HdlcDeframer"} -> DecoderMeaning(par, x)
=============================================================================
