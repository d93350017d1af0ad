---------------------------- MODULE StreamBlocks ----------------------------
(***************************************************************************)
(* The blocks on streams of samples that write their own work(): they      *)
(* change the rate, delay, drop, or encode the samples.                    *)
(***************************************************************************)
EXTENDS Work

SkipWork_idle(par, st, w, room) ==  \* mutant: a full output is not waited for
  LET len == Len(w[1].v)
      n   == Smaller(len, room[1])
      k   == Smaller(st.skip, len)
  IN  IF len = 0 THEN Nothing(st, w, room, WaitIn(1, 1))
      ELSE IF st.skip = 0 THEN Moved(st, n, Take(w[1].v, n), w[1].t, Again)
      ELSE Moved([st EXCEPT !.skip = @ - k], k, <<>>, {}, Again)

\* Skip: st.skip samples are still to be dropped.  The tags of the whole window
\* are forwarded, also those of samples that do not fit.
SkipWork(par, st, w, room) ==
  LET len == Len(w[1].v)
      n   == Smaller(len, room[1])
      k   == Smaller(st.skip, len)
  IN  IF len = 0 THEN Nothing(st, w, room, WaitIn(1, 1))
      ELSE IF room[1] = 0 THEN Nothing(st, w, room, WaitOut(1, 1))
      ELSE IF st.skip = 0 THEN Moved(st, n, Take(w[1].v, n), w[1].t, Again)
      ELSE Moved([st EXCEPT !.skip = @ - k], k, <<>>, {}, Again)

-----------------------------------------------------------------------------
(* Delay.  The default value of a sample is 0.                             *)

\* new(): current zeros are to be written, and skip is for set_delay() to set.
DelayStart(d) == [delay |-> d, current |-> d, skip |-> 0]

set_delay(st, d) ==
  LET less == Smaller(st.current, d)
  IN  IF d > st.delay THEN [st EXCEPT !.delay = d, !.current = d - st.delay]
      ELSE [delay |-> d, current |-> st.current - less, skip |-> (st.delay - d) - less]

\* Zeros first, then samples to skip, then what is left of the window, which
\* fill_from_slice() wants to fit as a whole.  consume(0), which is what an
\* empty skip comes to, removes the tags of the samples that are left.
DelayWork(par, st, w, room) ==
  LET zeros == Smaller(st.current, room[1])
      space == room[1] - zeros
      gone  == Smaller(Len(w[1].v), st.skip)
      rest  == Drop(w[1].v, gone)
      out   == [k \in 1..zeros |-> 0]
      next  == [st EXCEPT !.current = @ - zeros, !.skip = @ - gone]
      tags  == IF gone = 0 THEN {}
               ELSE { p \in Shifted(w[1].t, zeros - gone) : p[1] > zeros }
  IN  IF room[1] = 0 THEN Nothing(st, w, room, Again)
      ELSE IF Len(w[1].v) = 0 THEN Moved(next, 0, out, {}, WaitIn(1, 1))
      ELSE IF Len(rest) > space THEN Moved(next, gone, out, {}, Panic)
      ELSE Moved(next, gone + Len(rest), out \o rest, tags, Again)

-----------------------------------------------------------------------------
(* RationalResampler                                                       *)

gcd(a, b) == CHOOSE g \in 1..a : /\ a % g = 0 /\ b % g = 0
                                 /\ \A h \in 1..a : a % h = 0 /\ b % h = 0 => h <= g

ResamplerStart(interp, deci) ==
  LET g == gcd(deci, interp) IN [interp |-> interp \div g, deci |-> deci \div g, counter |-> 0]

\* One sample: copies of it while the counter is positive; when the output is
\* full both loops end, with what the counter still calls for.
Resample(acc, s, room) ==
  LET counter == acc.counter + acc.interp
      wanted  == IF counter <= 0 THEN 0 ELSE (counter + acc.deci - 1) \div acc.deci
      n       == Smaller(wanted, room - Len(acc.put))
  IN  IF Len(acc.put) = room THEN acc
      ELSE [acc EXCEPT !.taken = @ + 1, !.counter = counter - n * acc.deci,
                       !.put = @ \o [k \in 1..n |-> s]]

ResamplerWork(par, st, w, room) ==
  LET Next(acc, s) == Resample(acc, s, room[1])
      all == Through(Next, st @@ [taken |-> 0, put |-> <<>>], w[1].v)
  IN  IF w[1].v = <<>> THEN Nothing(st, w, room, WaitIn(1, 1))
      ELSE IF room[1] = 0 THEN Nothing(st, w, room, WaitOut(1, 1))
      ELSE Moved([st EXCEPT !.counter = all.counter], all.taken, all.put, {},
                 IF Len(all.put) = room[1] THEN WaitOut(1, 1) ELSE WaitIn(1, 1))

-----------------------------------------------------------------------------
(* RtlSdrDecode: two bytes, I and Q, make a sample.                        *)

Pairs(s) == [k \in 1..(Len(s) \div 2) |-> <<s[2 * k - 1], s[2 * k]>>]

RtlSdrDecodeWork_four(par, st, w, room) ==  \* mutant: waits for two pairs
  LET pairs == Pairs(w[1].v)
      n     == Smaller(Len(pairs), room[1])
  IN  IF pairs = <<>> THEN Nothing(st, w, room, WaitIn(1, 4))
      ELSE IF room[1] = 0 THEN Nothing(st, w, room, WaitOut(1, 1))
      ELSE Moved(st, 2 * n, Take(pairs, n), {}, Again)

RtlSdrDecodeWork(par, st, w, room) ==
  LET pairs == Pairs(w[1].v)
      n     == Smaller(Len(pairs), room[1])
  IN  IF pairs = <<>> THEN Nothing(st, w, room, WaitIn(1, 2))
      ELSE IF room[1] = 0 THEN Nothing(st, w, room, WaitOut(1, 1))
      ELSE Moved(st, 2 * n, Take(pairs, n), {}, Again)

-----------------------------------------------------------------------------
(* The Au file format.  A 16 bit sample is written as two bytes, a 32 bit  *)
(* word of the header as four.  A byte is the number and which byte of it. *)

Half(s) == <<<<s, 1>>, <<s, 2>>>>
Word(x) == [k \in 1..4 |-> <<x, k>>]
Magic      == 779316836   \* 0x2e736e64
DataOffset == 28
Unknown    == -1          \* the size: all ones
Pcm16      == 3

AuHeader(bitrate) ==
  Word(Magic) \o Word(DataOffset) \o Word(Unknown) \o Word(Pcm16) \o Word(bitrate) \o Word(1) \o Word(0)

AuEncodeStart(bitrate) == [header |-> AuHeader(bitrate)]

\* The header as far as it fits, then the samples; an empty header is None.
AuEncodeWork(par, st, w, room) ==
  LET h == Smaller(Len(st.header), room[1])
      n == Smaller(Len(w[1].v), room[1] \div 2)
  IN  IF st.header # <<>>
        THEN Moved([st EXCEPT !.header = Drop(@, h)], 0, Take(st.header, h), {}, Again)
      ELSE IF w[1].v = <<>> THEN Nothing(st, w, room, WaitIn(1, 1))
      ELSE IF n = 0 THEN Nothing(st, w, room, WaitOut(1, 1))
      ELSE Moved(st, n, FlattenSeq([k \in 1..n |-> Half(w[1].v[k])]), {}, Again)

AuDecodeStart == [state |-> "WaitingMagic", offset |-> 0]

\* What the rest of the header must say, if it is there.
HeaderSays(par, rest) ==
  SubSeq(rest, 5, 8) = Word(Pcm16) /\ SubSeq(rest, 9, 12) = Word(par.bitrate) /\ SubSeq(rest, 13, 16) = Word(1)

\* The rest of the header is looked at, and stays in the stream.
AuDecodeWork(par, st, w, room) ==
  LET v    == w[1].v
      rest == st.offset - 8
      n    == Smaller(Len(v) \div 2, room[1])
      In(state) == [st EXCEPT !.state = state]
  IN  IF v = <<>> THEN Nothing(st, w, room, WaitIn(1, 1))
      ELSE CASE st.state \in {"WaitingMagic", "WaitingSize"} /\ Len(v) < 4 ->
                  Nothing(st, w, room, WaitIn(1, 4))
             [] st.state = "WaitingMagic" /\ Len(v) >= 4 ->
                  IF Take(v, 4) = Word(Magic) THEN Moved(In("WaitingSize"), 4, <<>>, {}, Again)
                  ELSE Moved(st, 4, <<>>, {}, Error)
             [] st.state = "WaitingSize" /\ Len(v) >= 4 ->
                  Moved([state |-> "WaitingHeader", offset |-> v[1][1]], 4, <<>>, {}, Again)
             [] st.state = "WaitingHeader" /\ Len(v) < rest ->
                  Nothing(st, w, room, WaitIn(1, rest))
             [] st.state = "WaitingHeader" /\ Len(v) >= rest ->
                  IF HeaderSays(par, Take(v, rest)) THEN Nothing(In("Data"), w, room, Again)
                  ELSE Nothing(st, w, room, Error)
             [] st.state = "Data" ->
                  IF Len(v) < 2 THEN Nothing(st, w, room, WaitIn(1, 2))
                  ELSE IF n = 0 THEN Nothing(st, w, room, WaitOut(1, 1))
                  ELSE Moved(st, 2 * n, Take(Pairs(v), n), {}, Again)

-----------------------------------------------------------------------------
(* ToText: a line for each round of samples, one of every input.           *)

\* The characters of a line are numbered: there are par.width of them for each
\* sample, more if it has tags, a space between samples and the newline.
Line(par, xs, ts) ==
  LET chars == SumFunction([i \in DOMAIN xs |-> par.width + Cardinality(ts[i])]) + Len(xs)
  IN  [c \in 1..chars |-> <<xs, ts, c>>]

ToTextLine(par, w, k) ==
  Line(par, [i \in DOMAIN w |-> w[i].v[k]], [i \in DOMAIN w |-> TagsAt(w[i], k)])

ToTextWork(par, st, w, room) ==
  LET lines == [k \in 1..Least({ Len(w[i].v) : i \in DOMAIN w }) |-> ToTextLine(par, w, k)]
      text(k) == FlattenSeq(Take(lines, k))
      n     == Cardinality({ k \in 1..Len(lines) : Len(text(k)) <= room[1] })
      dry   == { i \in DOMAIN w : Len(w[i].v) = n }
  IN  Did(st, [i \in DOMAIN w |-> n], <<text(n)>>, <<{}>>,
          IF dry # {} THEN WaitIn(Least(dry), 1) ELSE WaitOut(1, Len(lines[n + 1])))
=============================================================================
