----------------------------- MODULE ClockBlocks ----------------------------
(***************************************************************************)
(* The blocks that keep time: SymbolSync and Wpcr find the clock of a      *)
(* signal, with the IirFilter and the Midpointer that they need, and       *)
(* Strobe sends something at intervals.                                    *)
(*                                                                         *)
(* Times are integers, par.unit of them from a sample to the next.  Half   *)
(* of a time, and what a filter makes of times, is rounded down.           *)
(***************************************************************************)
EXTENDS Work

-----------------------------------------------------------------------------
(* IirFilter, with the taps divided by den.  buf: earlier outputs.         *)

clamp(x, mi, mx) == IF x < mi THEN mi ELSE IF x > mx THEN mx ELSE x
Recent(s, n)     == Drop(s, IF Len(s) > n THEN Len(s) - n ELSE 0)

fill(taps, buf, s) == buf \o [k \in 1..(Len(taps) - 1) |-> s]

\* The output of filter_clamped(), which is also what is kept of it.
filter_clamped(taps, den, buf, sample, mi, mx) ==
  LET earlier == Reverse(buf)
      sum     == taps[1] * sample + SumFunction([i \in DOMAIN buf |-> earlier[i] * taps[i + 1]])
      ret     == clamp(sum \div den, mi, mx)
  IN  [ret |-> ret, buf |-> Recent(Append(buf, ret), Len(taps) - 1)]

-----------------------------------------------------------------------------
(* SymbolSync.  The second output, if there is one, is out_clock, of which *)
(* nobody asks how much room it has.                                       *)

SymbolSyncStart(par) ==
  [clock |-> par.sps, buf |-> fill(par.taps, <<>>, par.sps), last_sign |-> FALSE,
   stream_pos |-> 0, last_sym_boundary_pos |-> 0, next_sym_middle |-> 0]

Distance(x, y) == IF x < y THEN y - x ELSE x - y

\* A time between two changes of sign, less the symbols without a change.
OneSymbol(clock, mx, time) ==
  LET t[x \in Int] == IF x <= mx \/ Distance(x, clock) < Distance(x - clock, clock) THEN x ELSE t[x - clock]
  IN  t[time]

\* The first of start, start + step, ... that is not less than least
NotBefore(start, step, least) ==
  IF start >= least THEN start ELSE start + step * ((least - start + step - 1) \div step)

\* What a change of sign tells about the clock, if it is a likely time after
\* the one before.
Adjusted(par, st) ==
  LET mi == par.sps - par.max_deviation
      mx == par.sps + par.max_deviation
      t  == OneSymbol(st.clock, mx, st.stream_pos - st.last_sym_boundary_pos)
      f  == filter_clamped(par.taps, par.den, st.buf, t - par.sps, mi - par.sps, mx - par.sps)
      clock == f.ret + par.sps
  IN  IF 10 * t > 8 * mi /\ 10 * t < 12 * mx
        THEN [st EXCEPT !.clock = clock, !.buf = f.buf,
                        !.next_sym_middle = NotBefore(st.last_sym_boundary_pos + clock \div 2, clock, st.stream_pos)]
        ELSE st

\* The positions stay around zero.
SteppedBack(par, st) ==
  LET back == 10 * st.clock
      on   == [st EXCEPT !.stream_pos = @ + par.unit]
  IN  IF on.stream_pos > back /\ on.last_sym_boundary_pos > back /\ on.next_sym_middle > back
        THEN [on EXCEPT !.stream_pos = @ - back, !.last_sym_boundary_pos = @ - back, !.next_sym_middle = @ - back]
        ELSE on

\* The loop for a sample, after it was taken or not.
Followed(par, st, s) ==
  LET sign == s > 0
      seen == IF st.stream_pos > 0 /\ st.last_sym_boundary_pos > 0 THEN Adjusted(par, st) ELSE st
      new  == [seen EXCEPT !.last_sym_boundary_pos = st.stream_pos, !.last_sign = sign]
  IN  SteppedBack(par, IF sign # st.last_sign THEN new ELSE st)

SymbolSample(par, acc, s, room) ==
  LET middle == acc.st.stream_pos >= acc.st.next_sym_middle
      took   == [acc EXCEPT !.n = @ + 1]
      chosen == [took EXCEPT !.put = Append(@, s), !.clocks = Append(@, acc.st.clock),
                             !.st.next_sym_middle = @ + acc.st.clock]
  IN  IF acc.ret # Again \/ Len(acc.put) = room[1] THEN acc
      ELSE IF ~middle THEN [took EXCEPT !.st = Followed(par, @, s)]
      ELSE IF 2 \in DOMAIN room /\ Len(acc.put) >= room[2] THEN [took EXCEPT !.ret = Panic]
      ELSE IF Len(chosen.put) = room[1] THEN chosen
      ELSE [chosen EXCEPT !.st = Followed(par, @, s)]

\* When the output fills up the loop is left before the sample is counted.
SymbolSyncWork(par, st, w, room) ==
  LET Sample(acc, s) == SymbolSample(par, acc, s, room)
      all == Through(Sample, [st |-> st, n |-> 0, put |-> <<>>, clocks |-> <<>>, ret |-> Again], w[1].v)
  IN  IF w[1].v = <<>> THEN Nothing(st, w, room, WaitIn(1, 1))
      ELSE IF room[1] = 0 THEN Nothing(st, w, room, WaitOut(1, 1))
      ELSE Did(all.st, <<all.n>>, IF DOMAIN room = {1} THEN <<all.put>> ELSE <<all.put, all.clocks>>,
               [o \in DOMAIN room |-> {}], all.ret)

-----------------------------------------------------------------------------
(* Midpointer: a burst around zero, here in halves.  A burst of which no   *)
(* sample is above the mean has no high half to take the middle of.        *)

Middle(v) == LET s == SortSeq(v, <) IN s[Len(s) \div 2 + 1]

Midpointed(v) ==
  LET sum   == SumFunction(v)
      High(t) == t * Len(v) > sum
      Low(t)  == ~High(t)
      ends  == Middle(SelectSeq(v, Low)) + Middle(SelectSeq(v, High))
  IN  [k \in DOMAIN v |-> 2 * v[k] - ends]

AllTheSame(v) == \A k \in DOMAIN v : v[k] = v[1]

MidpointerWork(par, st, w, room) ==
  IF w[1].v = <<>> THEN Nothing(st, w, room, WaitIn(1, 1))
  ELSE LET v == w[1].v[1]
       IN  IF v # <<>> /\ AllTheSame(v) THEN Nothing(st, w, room, Panic)
           ELSE Moved(st, 1, IF v = <<>> THEN <<>> ELSE <<Midpointed(v)>>, {}, Again)

-----------------------------------------------------------------------------
(* Wpcr: the clock of a whole burst, from the magnitudes mag of the bins   *)
(* of a transform and the angle arg of the best one, which par.spectrum    *)
(* gives for each burst.  An angle or a phase is a number of 2 * Len(burst)*)
(* to a turn.                                                              *)

\* The first bin, but for two, that is above 80 percent of the largest one and
\* larger than the next; 0 if there is none.  Positions count from 1.
find_best_bin(mag) ==
  LET large == { n \in 3..(Len(mag) - 1) :
                   /\ \A m \in 3..Len(mag) : 10 * mag[n] > 8 * mag[m]
                   /\ mag[n] > mag[n + 1] }
  IN  IF large = {} THEN 0 ELSE Least(large)

\* A sample is a symbol when the phase completes a turn.
Symbols(burst, bin, phase) ==
  LET turn == 2 * Len(burst)
      Sample(acc, s) ==
        LET over == acc.phase >= turn
        IN  [phase |-> (IF over THEN acc.phase - turn ELSE acc.phase) + 2 * bin,
             syms  |-> IF over THEN Append(acc.syms, s) ELSE acc.syms]
  IN  Through(Sample, [phase |-> phase, syms |-> <<>>], burst)

process_one(par, burst) ==
  LET x     == par.spectrum[burst]
      bin   == find_best_bin(x.mag) - 1
      t     == Len(burst) + x.arg
      all   == Symbols(burst, bin, IF t > Len(burst) THEN t ELSE t + 2 * Len(burst))
      rate  == IF par.samp_rate = 0 THEN {} ELSE {<<1, <<"frequency", bin * par.samp_rate>>>>}
  IN  IF Len(burst) < 4 THEN Moved([none |-> 0], 1, <<>>, {}, Again)
      ELSE IF Len(x.mag) < 3 THEN Moved([none |-> 0], 1, <<>>, {}, Panic)
      ELSE IF bin < 0 THEN Moved([none |-> 0], 1, <<>>, {}, Again)
      ELSE Moved([none |-> 0], 1, <<all.syms>>,
                 {<<1, <<"sps", bin>>>>, <<1, <<"phase", all.phase>>>>} \cup rate, Again)

WpcrWork(par, st, w, room) ==
  IF w[1].v = <<>> THEN Nothing(st, w, room, WaitIn(1, 1)) ELSE process_one(par, w[1].v[1])

-----------------------------------------------------------------------------
(* Strobe.  since: the time since it last sent; left: how often the model  *)
(* still lets the period end.                                              *)

Never == -1
StrobeStart(par) == [since |-> Never, left |-> par.times]

\* elapsed: the time since the last call.
StrobeWork(par, st, w, room, elapsed) ==
  LET since == IF st.since = Never THEN Never ELSE st.since + elapsed
      due   == since = Never \/ since >= par.period
  IN  IF st.left = 0 THEN Nothing(st, w, room, Pending)
      ELSE IF due /\ room[1] > 0
        THEN Did([since |-> 0, left |-> st.left - 1], <<>>, <<<<par.data>>>>, <<{}>>, Pending)
      ELSE Nothing([st EXCEPT !.since = Smaller(since, par.period)], w, room, Pending)
=============================================================================
