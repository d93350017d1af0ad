----------------------------- MODULE MathBlocks -----------------------------
(***************************************************************************)
(* The blocks that calculate: process_sync() of those whose work() is      *)
(* generated (see SyncBlocks), then sources of a signal and an equalizer.  *)
(*                                                                         *)
(* Samples are integers, complex ones pairs of them.  An angle is a number *)
(* of quarters or eighths of a turn, at which sine and cosine are 0 or 1,  *)
(* or at which two samples are apart.                                      *)
(***************************************************************************)
EXTENDS Work

\* process_sync_tags() made from process_sync(): the tags of the first input.
ByValue(st, ys, ts) == [st |-> st, ys |-> ys, ts |-> [o \in DOMAIN ys |-> ts[1]]]

Times(a, b) == <<a[1] * b[1] - a[2] * b[2], a[1] * b[2] + a[2] * b[1]>>
conj(a)     == <<a[1], -a[2]>>
norm_sqr(a) == a[1] * a[1] + a[2] * a[2]

Add(par, st, xs, ts)          == ByValue(st, <<xs[1] + xs[2]>>, ts)
AddConst(par, st, xs, ts)     == ByValue(st, <<xs[1] + par.val>>, ts)
MultiplyConst(par, st, xs, ts) == ByValue(st, <<xs[1] * par.val>>, ts)
ComplexToMag2(par, st, xs, ts) == ByValue(st, <<norm_sqr(xs[1])>>, ts)

\* What is mapped, and which tags are kept, is up to the caller's functions.
Map(par, st, xs, ts)     == [st |-> st, ys |-> <<par.map[xs[1]]>>, ts |-> <<ts[1] \ par.drops>>]
Inspect(par, st, xs, ts) == [st |-> [seen |-> Append(st.seen, <<xs[1], ts[1]>>)], ys |-> xs, ts |-> ts]
Canary(par, st, xs, ts)  == ByValue(st, xs, ts)

\* atan2(), in eighths of a turn, of what points to one of them; half a turn is
\* left out, because there the sign depends on that of a zero.
Angle(z) ==
  CASE z = <<0, 0>>                   -> 0
    [] z[2] = 0 /\ z[1] > 0           -> 0
    [] z[2] > 0 /\ z[1] = z[2]        -> 1
    [] z[2] > 0 /\ z[1] = 0           -> 2
    [] z[2] > 0 /\ z[1] = -z[2]       -> 3
    [] z[2] < 0 /\ z[1] = -z[2]       -> -1
    [] z[2] < 0 /\ z[1] = 0           -> -2
    [] z[2] < 0 /\ z[1] = z[2]        -> -3

\* last: the previous sample
QuadratureDemod(par, st, xs, ts) ==
  ByValue([last |-> xs[1]], <<par.gain * Angle(Times(xs[1], conj(st.last)))>>, ts)

FastFM(par, st, xs, ts) ==
  LET s == xs[1]
      top    == (s[2] - st.q2[2]) * st.q1[1]
      bottom == (s[1] - st.q2[1]) * st.q1[2]
  IN  ByValue([q1 |-> s, q2 |-> st.q1], <<top - bottom>>, ts)

\* A whole turn is MX quarters.  phase is brought back by one turn at most.
MX == 4
sin(q) == <<0, 1, 0, -1>>[(q % 4) + 1]
cos(q) == sin(q + 1)

Vco(par, st, xs, ts) ==
  LET up   == st.phase + par.k * xs[1]
      down == IF up > MX THEN up - MX ELSE up
      phase == IF down < -MX THEN down + MX ELSE down
  IN  ByValue([phase |-> phase], <<<<sin(phase), cos(phase)>>>>, ts)

\* alpha is par.num / par.den, and samples are such that it divides them.
SinglePoleIirFilter(par, st, xs, ts) ==
  LET o == (xs[1] * par.num + st.prev_output * (par.den - par.num)) \div par.den
  IN  ByValue([prev_output |-> o], <<o>>, ts)

\* alpha, num / den, is checked by set_taps().
SinglePoleIirFilterNew(par) == IF par.num \in 0..par.den THEN [prev_output |-> 0] ELSE NotBuilt

MathStart(block, par) ==
  CASE block = "QuadratureDemod"     -> [last |-> <<0, 0>>]
    [] block = "FastFM"              -> [q1 |-> <<0, 0>>, q2 |-> <<0, 0>>]
    [] block = "Vco"                 -> [phase |-> 0]
    [] block = "SinglePoleIirFilter" -> SinglePoleIirFilterNew(par)
    [] block = "Inspect"             -> [seen |-> <<>>]
    [] OTHER                         -> [none |-> 0]

MathNames == {"Add", "AddConst", "MultiplyConst", "ComplexToMag2", "Map", "Inspect", "Canary",
              "QuadratureDemod", "FastFM", "Vco", "SinglePoleIirFilter"}

-----------------------------------------------------------------------------
(* Sources without an end.  They fill all the room there is, and ask to be *)
(* called again also if that was none; a constant one waits for more.      *)

SignalSourceStart == [current |-> 0]

\* par.step: quarters of a turn from a sample to the next
SignalSourceWork(block, par, st, w, room) ==
  LET at(k) == (st.current + k * par.step) % MX
      Sample(k) == IF block = "SignalSourceFloat" THEN par.amplitude * sin(at(k))
                   ELSE <<par.amplitude * sin(at(k)), par.amplitude * sin(at(k) - 1)>>
  IN  Did([current |-> at(room[1])], <<>>, <<[k \in 1..room[1] |-> Sample(k)]>>, <<{}>>, Again)

ConstantSourceWork(par, st, w, room) ==
  Did(st, <<>>, <<[k \in 1..room[1] |-> par.val]>>, <<{}>>, WaitOut(1, 1))

-----------------------------------------------------------------------------
(* CmaEqualizer: as many samples at a time as there are taps.  All tags of *)
(* the window are forwarded.                                               *)

CmaStart(par) ==
  [taps   |-> [k \in 1..par.ntaps |-> IF k = 1 THEN <<1, 0>> ELSE <<0, 0>>],
   coeffs |-> [k \in 1..par.ntaps |-> <<0, 0>>]]

Scaled(n, z) == <<n * z[1], n * z[2]>>
Plus(a, b)   == <<a[1] + b[1], a[2] + b[2]>>

\* The update of the taps, then their product with the start of the window.
CmaSample(par, acc, coeffs, s, window) ==
  LET error == norm_sqr(s) - par.desired_modulus
      taps  == [j \in DOMAIN acc.taps |->
                  Plus(acc.taps[j], Times(Scaled(par.step_size * error, conj(coeffs[j])), s))]
      Product(sum, j) == Plus(sum, Times(taps[j], window[j]))
  IN  [taps |-> taps, put |-> Append(acc.put, FoldLeft(Product, <<0, 0>>, [j \in DOMAIN taps |-> j]))]

CmaWork(par, st, w, room) ==
  LET s == w[1].v
      Sample(acc, x) == CmaSample(par, acc, st.coeffs, x, s)
      all == Through(Sample, [taps |-> st.taps, put |-> <<>>], Take(s, par.ntaps))
  IN  IF Len(s) < par.ntaps THEN Nothing(st, w, room, WaitIn(1, par.ntaps))
      ELSE IF room[1] < par.ntaps THEN Nothing(st, w, room, WaitOut(1, par.ntaps))
      ELSE Moved([st EXCEPT !.taps = all.taps], par.ntaps, all.put, w[1].t, Again)
=============================================================================
