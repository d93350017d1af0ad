--------------------------- MODULE SignalMeaning ----------------------------
(***************************************************************************)
(* What the blocks that calculate and those that keep time are to make of  *)
(* their whole input, as in BlockMeaning, which has the other blocks.      *)
(***************************************************************************)
EXTENDS BlockMeaning, ClockBlocks

\* A source without an end is only looked at up to par.total samples.
FirstOf(par, F(_)) == <<Plain([k \in 1..par.total |-> F(k)])>>

\* The angle from one sample to the next, of those that have one.
Turn(a, b) == IF a = <<0, 0>> \/ b = <<0, 0>> THEN 0 ELSE ((Angle(b) - Angle(a) + 11) % 8) - 3

QuadratureDemodMeaning(par, x) ==
  LET F(k) == par.gain * (IF k = 1 THEN 0 ELSE Turn(x[1].v[k - 1], x[1].v[k])) IN <<Each(x, Whole(x), F)>>

\* The cross product of a sample, less the one two before, and the one between.
FastFMMeaning(x) ==
  LET z(k) == IF k < 1 THEN <<0, 0>> ELSE x[1].v[k]
      F(k) == (z(k)[2] - z(k - 2)[2]) * z(k - 1)[1] - (z(k)[1] - z(k - 2)[1]) * z(k - 1)[2]
  IN  <<Each(x, Whole(x), F)>>

VcoMeaning(par, x) ==
  LET Phase(k) == par.k * SumFunction([j \in 1..k |-> x[1].v[j]])
      F(k) == <<sin(Phase(k)), cos(Phase(k))>>
  IN  <<Each(x, Whole(x), F)>>

\* Each sample counts for less the longer ago it is.
SinglePoleIirFilterMeaning(par, x) ==
  LET F(k) == SumFunction([j \in 1..k |-> x[1].v[j] * par.num * (par.den - par.num) ^ (k - j) * par.den ^ (j - 1)])
                 \div par.den ^ k
  IN  <<Each(x, Whole(x), F)>>

\* The first sample of every chunk, all over it, while the taps have nothing to
\* go by.  A tag is repeated as long as it is in the window.
CmaMeaning(par, x) ==
  LET first(k) == par.ntaps * ((k - 1) \div par.ntaps) + 1
  IN  <<[v |-> [k \in 1..(par.ntaps * (Whole(x) \div par.ntaps)) |-> x[1].v[first(k)]], t |-> x[1].t]>>

-----------------------------------------------------------------------------
(* SymbolSync.  A change of sign gives the clock that holds after it, and  *)
(* the middle of a symbol, from which the others are whole symbols away.   *)

\* What is left of a time without the symbols that had no change of sign.
LastSymbol(clock, mx, time) ==
  LET left == { u \in { time - j * clock : j \in 0..time } : u <= mx \/ 2 * u < 3 * clock }
  IN  CHOOSE u \in left : \A v \in left : v <= u

SymbolSyncMeaning(par, x) ==
  LET s       == x[1].v
      mi      == par.sps - par.max_deviation
      mx      == par.sps + par.max_deviation
      time(k) == (k - 1) * par.unit
      Changes(k) == (s[k] > 0) # (At(s, k - 1) > 0)
      change  == SelectSeq([k \in DOMAIN s |-> k], Changes)
      likely(u) == 10 * u > 8 * mi /\ 10 * u < 12 * mx
      Held(on, i) ==
        LET u == LastSymbol(on.clock, mx, time(change[i]) - time(change[i - 1]))
            y == (par.taps[1] * (u - par.sps) + SumFunction([j \in DOMAIN on.past |-> par.taps[j + 1] * on.past[j]])) \div par.den
            c == IF y < -par.max_deviation THEN mi ELSE IF y > par.max_deviation THEN mx ELSE par.sps + y
        IN  IF ~likely(u) THEN on
            ELSE [clock |-> c, past |-> Take(<<c - par.sps>> \o on.past, Len(on.past)),
                  middle |-> time(change[i - 1]) + c \div 2, from |-> change[i]]
      lock[i \in 0..Len(change)] ==
        IF i = 0 THEN [clock |-> par.sps, past |-> [j \in 1..(Len(par.taps) - 1) |-> par.sps], middle |-> 0, from |-> 0]
        ELSE IF i = 1 \/ change[i - 1] = 1 THEN lock[i - 1]
        ELSE Held(lock[i - 1], i)
      At_(k)  == lock[Cardinality({ i \in DOMAIN change : change[i] < k })]
      Hits(on, from, to) == on.middle <= to /\ \E u \in from..to : u >= on.middle /\ (u - on.middle) % on.clock = 0
      Chosen(k) == Hits(At_(k), time(k - 1) + (IF k = At_(k).from + 1 THEN 0 ELSE 1), time(k))
      order   == SelectSeq([k \in DOMAIN s |-> k], Chosen)
  IN  <<Plain([m \in DOMAIN order |-> s[order[m]]]), Plain([m \in DOMAIN order |-> At_(order[m]).clock])>>

\* Of the samples in S, the one with as many below as above, or one less above.
MiddleOf(v, S) ==
  CHOOSE y \in { v[k] : k \in S } :
    /\ Cardinality({ k \in S : v[k] < y }) <= Cardinality(S) \div 2
    /\ Cardinality({ k \in S : v[k] <= y }) > Cardinality(S) \div 2

\* Packets without samples are left out; the middle of the two halves is zero.
MidpointerMeaning(x) ==
  LET Centred(v) ==
        LET mean(k) == v[k] * Len(v) > SumFunction(v)
            high == { k \in DOMAIN v : mean(k) }
        IN  [k \in DOMAIN v |-> 2 * v[k] - MiddleOf(v, high) - MiddleOf(v, DOMAIN v \ high)]
      Full(v) == v # <<>>
      full == SelectSeq(x[1].v, Full)
  IN  <<Plain([k \in DOMAIN full |-> Centred(full[k])])>>

\* A burst whose spectrum has a best bin gives the samples at which another turn
\* of the phase is complete; par.spectrum[burst].best is that bin.
WpcrMeaning(par, x) ==
  LET best(v) == par.spectrum[v].best
      arg(v)  == par.spectrum[v].arg
      Clocked_(v) == Len(v) >= 4 /\ best(v) # 0
      Phase(v, k) == (IF arg(v) > 0 THEN 1 ELSE 3) * Len(v) + arg(v) + (k - 1) * 2 * best(v)
      Turns(v, k) == IF k = 0 THEN 0 ELSE Phase(v, k) \div (2 * Len(v))
      Sampled(v) ==
        LET Full(k) == Turns(v, k) > Turns(v, k - 1)
            at      == SelectSeq([k \in DOMAIN v |-> k], Full)
        IN  [m \in DOMAIN at |-> v[at[m]]]
      Tags(v) == {<<"sps", best(v)>>, <<"phase", Phase(v, Len(v) + 1) - 2 * Len(v) * Turns(v, Len(v))>>}
                   \cup (IF par.samp_rate = 0 THEN {} ELSE {<<"frequency", best(v) * par.samp_rate>>})
      good == SelectSeq(x[1].v, Clocked_)
  IN  <<[v |-> [m \in DOMAIN good |-> Sampled(good[m])], t |-> UNION { {m} \X Tags(good[m]) : m \in DOMAIN good }]>>

SignalSourceMeaning(block, par) ==
  LET Wave(k) == IF block = "SignalSourceFloat" THEN par.amplitude * sin(k * par.step)
                 ELSE <<par.amplitude * sin(k * par.step), -par.amplitude * cos(k * par.step)>>
  IN  FirstOf(par, Wave)

Promise(block, par, x) ==
  CASE block = "Add" ->
         LET F(k) == x[1].v[k] + x[2].v[k] IN <<Each(x, BothWhole(x), F)>>
    [] block = "AddConst" ->
         LET F(k) == x[1].v[k] + par.val IN <<Each(x, Whole(x), F)>>
    [] block = "MultiplyConst" ->
         LET F(k) == x[1].v[k] * par.val IN <<Each(x, Whole(x), F)>>
    [] block = "ComplexToMag2" ->
         LET F(k) == Times(x[1].v[k], conj(x[1].v[k]))[1] IN <<Each(x, Whole(x), F)>>
    [] block = "Map" ->
         LET F(k) == par.map[x[1].v[k]] IN <<[Each(x, Whole(x), F) EXCEPT !.t = { p \in @ : p[2] \notin par.drops }]>>
    [] block \in {"Inspect", "Canary"} -> <<x[1]>>
    [] block = "QuadratureDemod"     -> QuadratureDemodMeaning(par, x)
    [] block = "FastFM"              -> FastFMMeaning(x)
    [] block = "Vco"                 -> VcoMeaning(par, x)
    [] block = "SinglePoleIirFilter" -> SinglePoleIirFilterMeaning(par, x)
    [] block = "CmaEqualizer"        -> CmaMeaning(par, x)
    [] block \in {"SignalSourceFloat", "SignalSourceComplex"} -> SignalSourceMeaning(block, par)
    [] block = "ConstantSource" ->
         LET F(k) == par.val IN FirstOf(par, F)
    [] block = "SymbolSync"          -> SymbolSyncMeaning(par, x)
    [] block = "Midpointer"          -> MidpointerMeaning(x)
    [] block = "Wpcr"                -> WpcrMeaning(par, x)
    [] block = "Strobe"              -> <<Plain([k \in 1..par.times |-> par.data])>>
    [] OTHER                         -> Meaning(block, par, x)
=============================================================================
