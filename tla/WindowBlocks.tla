---------------------------- MODULE WindowBlocks ----------------------------
(***************************************************************************)
(* The blocks whose output depends on a window of samples: filters keep a  *)
(* part of it in the input or in the block, and clock recovery counts.     *)
(* Samples are integers.  What a transform makes of samples is the samples *)
(* themselves and which of its values it is.                               *)
(***************************************************************************)
EXTENDS Work

Zeros(n) == [k \in 1..n |-> 0]

\* filter(): the sum of taps times samples, of which the k-th is the first.
Filtered(taps, s, k) ==
  SumFunction([j \in DOMAIN taps |-> taps[j] * s[k + Len(taps) - j]])

\* What work() asserts of the number of items that the window makes, and then of
\* those that fit; filter() asserts that there is a sample for each tap.
MostAsserted(par, len, most) == most > 0 /\ most * par.deci + Len(par.taps) - 1 <= len
FitAsserted(par, most, n, free) ==
  /\ n > 0 /\ n <= free
  /\ \A m \in 1..n : (m - 1) * par.deci + Len(par.taps) <= most * par.deci + Len(par.taps) - 1

\* FirFilter.  The samples that the next output needs too are not consumed; all
\* tags of the window are forwarded, theirs included.
FirFilterWork(par, st, w, room) ==
  LET s     == w[1].v
      ntaps == Len(par.taps)
      least == ntaps + par.deci - 1
      most  == (Len(s) - ntaps + 1) \div par.deci
      n     == Smaller(most, room[1])
  IN  IF Len(s) < least THEN Nothing(st, w, room, WaitIn(1, least))
      ELSE IF ~MostAsserted(par, Len(s), most) THEN Nothing(st, w, room, Panic)
      ELSE IF room[1] = 0 THEN Nothing(st, w, room, WaitOut(1, 1))
      ELSE IF ~FitAsserted(par, most, n, room[1]) THEN Nothing(st, w, room, Panic)
      ELSE Moved(st, n * par.deci,
                 [m \in 1..n |-> Filtered(par.taps, s, (m - 1) * par.deci + 1)],
                 { <<(p[1] - 1) \div par.deci + 1, p[2]>> : p \in w[1].t }, Again)

-----------------------------------------------------------------------------
(* FftFilter: batches of nsamples.  buf: the batch so far; tail: what the  *)
(* last one adds to the next.                                              *)

calc_fft_size(from) == 2 * Least({ n \in { 2 ^ k : k \in 0..from } : n >= from })
nsamples(par)       == calc_fft_size(Len(par.taps)) - Len(par.taps)

FftFilterStart(par) == [buf |-> <<>>, tail |-> Zeros(Len(par.taps))]

\* Engine::run(): transform, multiply and transform back, which comes to a
\* convolution that goes round.
Convolved(taps, buf) ==
  LET n == Len(buf)
  IN  [k \in 1..n |-> SumFunction([j \in DOMAIN taps |-> taps[j] * buf[((k - j + n) % n) + 1]])]

Overlapped(par, acc, batch) ==
  LET ntaps == Len(par.taps)
      run   == Convolved(par.taps, batch \o Zeros(ntaps))
      out   == [k \in DOMAIN run |-> run[k] + (IF k <= ntaps THEN acc.tail[k] ELSE 0)]
  IN  [put |-> acc.put \o Take(out, Len(batch)), tail |-> Drop(out, Len(batch))]

\* As many batches as there is input and room for; then the rest of the input
\* starts the next one, if there is room for that.  A batch takes the tags that
\* are in the input at that time.
FftFilterWork(par, st, w, room) ==
  LET size  == nsamples(par)
      all   == st.buf \o w[1].v
      n     == Smaller(Len(all) \div size, room[1] \div size)
      full  == room[1] - n * size < size
      Batch(acc, b) == Overlapped(par, acc, SubSeq(all, (b - 1) * size + 1, b * size))
      done  == Through(Batch, [put |-> <<>>, tail |-> st.tail], [b \in 1..n |-> b])
      gone(b) == IF b = 1 THEN 0 ELSE (b - 1) * size - Len(st.buf)
      tags(b) == Shifted({ p \in w[1].t : p[1] > gone(b) }, (b - 1) * size - gone(b))
      rest  == Drop(all, n * size)
      next  == [buf |-> IF ~full THEN rest ELSE IF n = 0 THEN st.buf ELSE <<>>, tail |-> done.tail]
      eat   == Len(all) - Len(st.buf) - (IF ~full THEN 0 ELSE IF n = 0 THEN Len(w[1].v) ELSE Len(rest))
  IN  Moved(next, eat, done.put, UNION { tags(b) : b \in 1..n },
            IF full THEN WaitOut(1, size) ELSE WaitIn(1, size - Len(rest)))

\* FftFilterFloat: a FftFilter between two streams of its own, each of which has
\* room for par.inner samples; in and out are what is in them.
FftFilterFloatStart(par) ==
  [complex |-> FftFilterStart(par), in |-> [v |-> <<>>, t |-> {}], out |-> [v |-> <<>>, t |-> {}]]

Joined(x, v, tags) == [v |-> x.v \o v, t |-> x.t \cup Shifted(tags, Len(x.v))]
After(x, n)        == [v |-> Drop(x.v, n), t |-> Shifted({ p \in x.t : p[1] > n }, -n)]

\* The wait is the inner one, for the outer stream.
FftFilterFloatWork(par, st, w, room) ==
  LET n    == Smaller(Len(w[1].v), par.inner - Len(st.in.v))
      to   == Joined(st.in, Take(w[1].v, n), w[1].t)
      did  == FftFilterWork(par, st.complex, <<to>>, <<par.inner - Len(st.out.v)>>)
      from == Joined(st.out, did.put[1], did.tags[1])
      m    == Smaller(Len(from.v), room[1])
  IN  Moved([complex |-> did.st, in |-> After(to, did.eat[1]), out |-> After(from, m)],
            n, Take(from.v, m), from.t, did.ret)

-----------------------------------------------------------------------------
(* FftStream: the transform of every par.size samples.                     *)

Transformed(chunk) == [k \in DOMAIN chunk |-> <<k, chunk>>]

FftStreamWork(par, st, w, room) ==
  LET s == w[1].v
      n == Smaller(Len(s), room[1]) \div par.size
      Chunk(b) == SubSeq(s, (b - 1) * par.size + 1, b * par.size)
  IN  IF Len(s) < par.size THEN Nothing(st, w, room, WaitIn(1, par.size))
      ELSE IF room[1] < par.size THEN Nothing(st, w, room, WaitOut(1, par.size))
      ELSE Moved(st, n * par.size, FlattenSeq([b \in 1..n |-> Transformed(Chunk(b))]), {}, Again)

-----------------------------------------------------------------------------
(* Hilbert.  history: the last par.ntaps samples, from which the next      *)
(* output is made.  All tags of the window are forwarded.                  *)

HilbertStart(par) == [history |-> Zeros(par.ntaps)]

HilbertWork(par, st, w, room) ==
  LET n  == Smaller(Len(w[1].v), room[1])
      iv == st.history \o Take(w[1].v, n)
  IN  IF Len(st.history) # par.ntaps THEN Nothing(st, w, room, Panic)
      ELSE IF w[1].v = <<>> THEN Nothing(st, w, room, WaitIn(1, 1))
      ELSE IF room[1] = 0 THEN Nothing(st, w, room, WaitOut(1, 1))
      ELSE Moved([history |-> Drop(iv, n)], n, [k \in 1..n |-> SubSeq(iv, k, k + par.ntaps - 1)], w[1].t, Again)

-----------------------------------------------------------------------------
(* ZeroCrossing, with a whole number of samples per symbol.  The second    *)
(* output, if there is one, is out_clock, of which only dst is looked at   *)
(* before there is something to write.                                     *)

ZeroCrossingStart == [last_sign |-> FALSE, last_cross |-> 0, counter |-> 0]

\* The end of the loop for a sample that is not the last for want of room
Counted(par, st, s) ==
  LET sign == s > 0
      back == 10 * par.sps
      cross == IF sign # st.last_sign THEN st.counter ELSE st.last_cross
      k     == IF st.counter + 1 > back /\ cross > back THEN back ELSE 0
  IN  [last_sign |-> sign, last_cross |-> cross - k, counter |-> st.counter + 1 - k]

CrossingSample(par, acc, s, max_out) ==
  LET chosen == acc.st.counter = acc.st.last_cross + par.sps \div 2
      moved  == [acc.st EXCEPT !.last_cross = @ + par.sps]
      took   == [acc EXCEPT !.n = @ + 1]
  IN  IF acc.ret # Again \/ acc.full THEN acc
      ELSE IF ~chosen THEN [took EXCEPT !.st = Counted(par, @, s)]
      ELSE IF max_out = 0 THEN [took EXCEPT !.ret = Panic]
      ELSE IF Len(acc.put) + 1 = max_out
        THEN [took EXCEPT !.put = Append(@, s), !.st = moved, !.full = TRUE]
      ELSE [took EXCEPT !.put = Append(@, s), !.st = Counted(par, moved, s)]

\* When the output fills up the loop is left before the sample is counted.
ZeroCrossingWork(par, st, w, room) ==
  LET max_out == Least({ room[o] : o \in DOMAIN room })
      Sample(acc, s) == CrossingSample(par, acc, s, max_out)
      all == Through(Sample, [st |-> st, n |-> 0, put |-> <<>>, full |-> FALSE, ret |-> Again], w[1].v)
      clock == [k \in DOMAIN all.put |-> par.sps]
  IN  IF w[1].v = <<>> THEN Nothing(st, w, room, WaitIn(1, 1))
      ELSE IF room[1] = 0 THEN Nothing(st, w, room, WaitOut(1, 1))
      ELSE Did(all.st, <<all.n>>, IF DOMAIN room = {1} THEN <<all.put>> ELSE <<all.put, clock>>,
               [o \in DOMAIN room |-> {}], all.ret)
=============================================================================
