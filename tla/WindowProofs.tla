---------------------------- MODULE WindowProofs ----------------------------
(***************************************************************************)
(* Theorems about BlockRunner, for blocks with one input and one output    *)
(* whose work() is written by hand: any samples, parameters and            *)
(* capacities, with the input cut into any pieces.                         *)
(*                                                                         *)
(* Each item that such a block writes is made of a part of the whole input *)
(* that its number tells (Item), and how much was consumed tells how many  *)
(* were written (Level) and what state the block is in (StAt).  One lemma  *)
(* for each block says that a call of work() goes from one such point to a *)
(* later one (Does), and one that the items are those of its meaning       *)
(* (Means).  OrderSound is then an invariant for all of them.              *)
(***************************************************************************)
EXTENDS FileProofs

-----------------------------------------------------------------------------
(* The blocks, by position on the whole input                              *)

In(c) == c.given[1].v

\* Skip, FirFilter and Hilbert forward tags of samples that they leave in the
\* input, and so more than once: what is proved is for an input without tags.
Plainly(c) == c.block \in Ordered /\ (c.block \in {"Skip", "FirFilter", "Hilbert"} => c.given[1].t = {})

\* Those that ask how much room there is
Asks(c) == c.block \in {"Skip", "RtlSdrDecode", "FirFilter", "FftStream", "Hilbert"}

\* How much more input, and how much room, such a block waits for
Need(c) ==
  CASE c.block = "RtlSdrDecode" -> 2
    [] c.block = "FirFilter"    -> Len(c.par.taps) + c.par.deci - 1
    [] c.block = "FftStream"    -> c.par.size
    [] OTHER                    -> 1
Ask(c) == IF c.block = "FftStream" THEN c.par.size ELSE 1

\* The state of a block that has consumed e samples, or packets
StAt(c, e) ==
  CASE c.block = "Skip"      -> [skip |-> IF e < c.par.skip THEN c.par.skip - e ELSE 0]
    [] c.block = "Hilbert"   -> [history |-> [j \in 1..c.par.ntaps |-> At(In(c), e - c.par.ntaps + j)]]
    [] c.block = "PduWriter" -> [files_written |-> e]
    [] OTHER                 -> [none |-> 0]

\* How many of something come before those that the m-th is one of
First(size, m) == size * ((m - 1) \div size)

\* The m-th item that it writes
Item(c, m) ==
  LET v == In(c)
      p == c.par
  IN  CASE c.block = "Skip"         -> v[p.skip + m]
        [] c.block = "RtlSdrDecode" -> <<v[2 * m - 1], v[2 * m]>>
        [] c.block = "FirFilter"    -> Convolution(p.taps, v, (m - 1) * p.deci + Len(p.taps))
        [] c.block = "FftStream"    -> <<m - First(p.size, m), SubSeq(v, First(p.size, m) + 1, First(p.size, m) + p.size)>>
        [] c.block = "Hilbert"      -> [j \in 1..p.ntaps |-> At(v, m - p.ntaps - 1 + j)]
        [] c.block = "WriterSink"   -> <<v[(m - 1) \div p.size + 1], m - First(p.size, m)>>
        [] c.block = "PduWriter"    -> AllSerialized(v[m], p.size)
        [] c.block \in {"DebugFilter", "DebugSink"} -> <<v[m], TagsAt(c.given[1], m)>>
        [] OTHER                    -> v[m]

Items(c, m) == [k \in 1..m |-> Item(c, k)]

\* m items were written and e of the f samples that came are consumed
Level(c, e, f, m) ==
  CASE c.block = "Skip"         -> m = IF e <= c.par.skip THEN 0 ELSE e - c.par.skip
    [] c.block = "RtlSdrDecode" -> e = 2 * m
    [] c.block = "FirFilter"    -> e = c.par.deci * m /\ (m > 0 => e + Len(c.par.taps) - 1 <= f)
    [] c.block = "FftStream"    -> m = e /\ \E q \in Nat : m = c.par.size * q
    [] c.block = "WriterSink"   -> m = c.par.size * e
    [] OTHER                    -> m = e

\* How many items f samples make
Due(c, f) ==
  CASE c.block = "Skip"         -> IF f <= c.par.skip THEN 0 ELSE f - c.par.skip
    [] c.block = "RtlSdrDecode" -> f \div 2
    [] c.block = "FirFilter"    -> IF f < Len(c.par.taps) THEN 0 ELSE (f - Len(c.par.taps) + 1) \div c.par.deci
    [] c.block = "FftStream"    -> c.par.size * (f \div c.par.size)
    [] c.block = "WriterSink"   -> c.par.size * f
    [] OTHER                    -> f

\* A point that a block may be at
Stands(c, e, f, m) ==
  /\ c \in Cases /\ Plainly(c)
  /\ e \in Nat /\ f \in Nat /\ m \in Nat /\ e <= f /\ f <= Len(In(c)) /\ Level(c, e, f, m)

\* From there, d takes g samples and writes k items.
Goes(c, e, f, m, room, d, g, k) ==
  /\ g \in Nat /\ e + g <= f /\ k \in Nat
  /\ d.st = StAt(c, e + g) /\ d.eat[1] = g /\ d.tags[1] = {}
  /\ d.put[1] = [j \in 1..k |-> Item(c, m + j)]
  /\ Level(c, e + g, f, m + k)
  /\ Asks(c) => k <= room
  /\ \/ d.ret = Again /\ g > 0
     \/ d.ret = WaitIn(1, Need(c)) /\ f - (e + g) < Need(c)
     \/ d.ret = WaitOut(1, Ask(c)) /\ Asks(c) /\ room - k < Ask(c)
Does(c, e, f, m, room, d) == \E g, k \in Nat : Goes(c, e, f, m, room, d, g, k)

\* What work() sees then
Sees(c, e, f) == <<Cut(c.given[1], e, f)>>
Rooms(room)   == [o \in {1} |-> room]

\* What is promised of the f samples that came is as many items as they make.
Means(c, f) == Meaning(c.block, c.par, Sees(c, 0, f)) = <<Plain(Items(c, Due(c, f)))>>

\* What the assumption says of such a case
LEMMA OrderedIs ==
  ASSUME NEW c \in Cases, c.block \in Ordered
  PROVE  /\ Ins(c) = {1} /\ DOMAIN c.given = {1} /\ Outs(c) = {1}
         /\ IsWindow(c.given[1], ToSet(In(c)))
         /\ In(c) \in Seq(ToSet(In(c))) /\ Len(In(c)) \in Nat
         /\ c.cap[1] \in Nat \ {0} /\ c.room[1] \in Nat \ {0}
         /\ OrderedPar(c.block, c.par)
<1>1. /\ DOMAIN c.given = {1} /\ IsWindow(c.given[1], ToSet(c.given[1].v))
      /\ c.cap \in [{1} -> Nat \ {0}] /\ c.room \in [{1} -> Nat \ {0}]
      /\ OrderedPar(c.block, c.par)
  BY CasesAssumption, Zenon
<1>2. In(c) \in Seq(ToSet(In(c)))
  BY <1>1 DEF IsWindow, In
<1>3. DOMAIN c.room = {1} /\ c.cap[1] \in Nat \ {0} /\ c.room[1] \in Nat \ {0}
  BY <1>1
<1>4. Len(In(c)) \in Nat
  BY <1>2
<1> QED BY <1>1, <1>2, <1>3, <1>4 DEF Ins, Outs, In

\* What work() sees of it
Seeing(c, e, f, w) ==
  /\ DOMAIN w = {1} /\ w[1].v \in Seq(ToSet(In(c))) /\ Len(w[1].v) = f - e
  /\ w[1].v = SubSeq(In(c), e + 1, f)
  /\ \A k \in 1..(f - e) : w[1].v[k] = In(c)[e + k]
  /\ \A k \in 1..(f - e) : TagsAt(w[1], k) = TagsAt(c.given[1], e + k)
  /\ w[1].v = <<>> <=> e = f
  /\ c.given[1].t = {} => w[1].t = {}

LEMMA SeesIs ==
  ASSUME NEW c \in Cases, c.block \in Ordered, NEW e \in Nat, NEW f \in Nat, e <= f, f <= Len(In(c)),
         NEW w, w = Sees(c, e, f)
  PROVE  Seeing(c, e, f, w)
<1> DEFINE y == Cut(c.given[1], e, f)
           D == ToSet(In(c))
<1>1. w[1] = y /\ DOMAIN w = {1}
  BY DEF Sees
<1>2. IsPiece(D, c.given[1], e, f)
  BY OrderedIs, CutIs DEF In
<1>3. /\ y.v \in Seq(D) /\ Len(y.v) = f - e
      /\ \A k \in 1..(f - e) : y.v[k] = In(c)[e + k] /\ TagsAt(y, k) = TagsAt(c.given[1], e + k)
  BY <1>2 DEF IsPiece, In
<1>4. y.v = SubSeq(In(c), e + 1, f)
  BY DEF Cut, In
<1>5. c.given[1].t = {} => y.t = {}
  BY DEF Cut
<1> HIDE DEF y, D
<1>6. y.v = <<>> <=> e = f
  BY <1>3
<1> QED BY <1>1, <1>3, <1>4, <1>5, <1>6 DEF D, Seeing

-----------------------------------------------------------------------------
(* What each work() does                                                   *)

\* It waits for samples that have not come, or for room that is not there,
LEMMA Idling ==
  ASSUME NEW c, NEW e, NEW f, NEW m, NEW room \in Nat, Stands(c, e, f, m),
         NEW w, w = Sees(c, e, f), NEW r, r = Rooms(room), NEW back, NEW d, d = Nothing(StAt(c, e), w, r, back),
         \/ back = WaitIn(1, Need(c)) /\ f - e < Need(c)
         \/ back = WaitOut(1, Ask(c)) /\ Asks(c) /\ room < Ask(c)
  PROVE  Does(c, e, f, m, room, d)
<1>1. DOMAIN w = {1} /\ DOMAIN r = {1}
  BY SeesIs DEF Stands, Plainly, Rooms, Seeing
<1>2. d.st = StAt(c, e) /\ d.eat[1] = 0 /\ d.put[1] = <<>> /\ d.tags[1] = {} /\ d.ret = back
  BY <1>1 DEF Nothing, Did
<1>3. e + 0 = e /\ m + 0 = m /\ room - 0 = room /\ 0 <= room /\ e \in Nat /\ e <= f /\ Level(c, e, f, m)
  BY DEF Stands
<1>4. d.put[1] = [j \in 1..0 |-> Item(c, m + j)]
  BY <1>2
<1>5. \/ d.ret = WaitIn(1, Need(c)) /\ f - (e + 0) < Need(c)
      \/ d.ret = WaitOut(1, Ask(c)) /\ Asks(c) /\ room - 0 < Ask(c)
  BY <1>2, <1>3
<1> HIDE DEF Level
<1>6. Goes(c, e, f, m, room, d, 0, 0)
  BY <1>2, <1>3, <1>4, <1>5 DEF Goes
<1> QED BY <1>6 DEF Does

\* or takes some, and asks to be called again or has taken all.
LEMMA Going ==
  ASSUME NEW c, NEW e, NEW f, NEW m, NEW room \in Nat, Stands(c, e, f, m),
         NEW g \in Nat, NEW k \in Nat, e + g <= f, Asks(c) => k <= room, Level(c, e + g, f, m + k),
         NEW back, (back = Again /\ g > 0) \/ (back = WaitIn(1, Need(c)) /\ f - (e + g) < Need(c)),
         NEW put, put = [j \in 1..k |-> Item(c, m + j)],
         NEW d, d = Moved(StAt(c, e + g), g, put, {}, back)
  PROVE  Does(c, e, f, m, room, d)
<1>1. d.st = StAt(c, e + g) /\ d.eat[1] = g /\ d.put[1] = put /\ d.tags[1] = {} /\ d.ret = back
  BY DEF Moved, Did
<1>2. Goes(c, e, f, m, room, d, g, k)
  BY <1>1 DEF Goes
<1> QED BY <1>2 DEF Does

\* The first n of a sequence, one by one
LEMMA TakeIs ==
  ASSUME NEW S, NEW s \in Seq(S), NEW n \in Nat, n <= Len(s)
  PROVE  Take(s, n) = [j \in 1..n |-> s[j]]
BY DEF Take

\* A sequence that is given by its items
Builds(g, n) ==
  /\ g \in Seq({ g[k] : k \in 1..n }) /\ Len(g) = n /\ (g = <<>> <=> n = 0)
  /\ \A j \in 0..n : Take(g, j) = [k \in 1..j |-> g[k]]

LEMMA BuildsIs ==
  ASSUME NEW n \in Nat, NEW g, g = [k \in 1..n |-> g[k]]
  PROVE  Builds(g, n)
<1> DEFINE D == { g[k] : k \in 1..n }
<1>1. \A k \in 1..n : g[k] \in D
  OBVIOUS
<1> HIDE DEF D
<1>2. g \in [1..n -> D]
  BY <1>1
<1>3. g \in Seq(D) /\ Len(g) = n
  BY <1>2
<1>4. g = <<>> <=> n = 0
  BY <1>3
<1>5. ASSUME NEW j \in 0..n PROVE Take(g, j) = [k \in 1..j |-> g[k]]
  <2>1. j \in Nat /\ j <= Len(g)
    BY <1>3
  <2> QED BY <1>3, <2>1, TakeIs
<1> QED BY <1>3, <1>4, <1>5 DEF Builds, D

\* Skip drops samples, and then copies them.
LEMMA SkipDoes ==
  ASSUME NEW c, NEW e, NEW f, NEW m, NEW room \in Nat, Stands(c, e, f, m), c.block = "Skip",
         NEW w, w = Sees(c, e, f), NEW r, r = Rooms(room), NEW s, s = StAt(c, e), NEW d, d = SkipWork(c.par, s, w, r)
  PROVE  Does(c, e, f, m, room, d)
<1> DEFINE skip == c.par.skip
           len == f - e
           n == Smaller(len, room)
           k == Smaller(s.skip, len)
<1>1. /\ c \in Cases /\ c.block \in Ordered /\ e \in Nat /\ f \in Nat /\ m \in Nat /\ e <= f /\ f <= Len(In(c))
      /\ m = (IF e <= skip THEN 0 ELSE e - skip) /\ c.given[1].t = {}
  BY DEF Stands, Plainly, Level
<1>2. skip \in Nat
  BY <1>1, OrderedIs DEF OrderedPar
<1>3. /\ w[1].v \in Seq(ToSet(In(c))) /\ Len(w[1].v) = len
      /\ (\A j \in 1..len : w[1].v[j] = In(c)[e + j]) /\ w[1].t = {} /\ r[1] = room
  <2>1. Seeing(c, e, f, w)
    BY <1>1, SeesIs
  <2> QED BY <1>1, <2>1 DEF Seeing, Rooms
<1>4. s = [skip |-> IF e < skip THEN skip - e ELSE 0] /\ s.skip = IF e < skip THEN skip - e ELSE 0
  BY DEF StAt
<1>5. \A g : StAt(c, e + g) = [skip |-> IF e + g < skip THEN skip - (e + g) ELSE 0]
  BY DEF StAt
<1>6. Need(c) = 1 /\ Ask(c) = 1 /\ Asks(c)
  BY DEF Need, Ask, Asks
<1> HIDE DEF skip
<1>7. d = IF len = 0 THEN Nothing(s, w, r, WaitIn(1, 1))
          ELSE IF room = 0 THEN Nothing(s, w, r, WaitOut(1, 1))
          ELSE IF s.skip = 0 THEN Moved(s, n, Take(w[1].v, n), {}, Again)
          ELSE Moved([s EXCEPT !.skip = @ - k], k, <<>>, {}, Again)
  BY <1>3 DEF SkipWork
<1>8. CASE len = 0
  <2>1. d = Nothing(StAt(c, e), w, r, WaitIn(1, Need(c))) /\ f - e < Need(c)
    BY <1>6, <1>7, <1>8
  <2> QED BY <2>1, Idling
<1>9. CASE len # 0 /\ room = 0
  <2>1. d = Nothing(StAt(c, e), w, r, WaitOut(1, Ask(c))) /\ room < Ask(c)
    BY <1>6, <1>7, <1>9
  <2> QED BY <1>6, <2>1, Idling
<1>10. CASE len # 0 /\ room # 0 /\ s.skip = 0
  <2>1. n \in Nat /\ n > 0 /\ n <= len /\ n <= room /\ e >= skip
    BY <1>1, <1>2, <1>4, <1>10 DEF Smaller
  <2>2. Take(w[1].v, n) = [j \in 1..n |-> Item(c, m + j)]
    <3>1. \A j \in 1..n : Item(c, m + j) = In(c)[e + j]
      <4>1. \A j : Item(c, m + j) = In(c)[skip + (m + j)]
        BY DEF Item, skip
      <4>2. \A j \in 1..n : skip + (m + j) = e + j
        BY <1>1, <1>2, <2>1
      <4> QED BY <4>1, <4>2
    <3>2. Take(w[1].v, n) = [j \in 1..n |-> w[1].v[j]]
      BY <1>3, <2>1, TakeIs
    <3>3. \A j \in 1..n : w[1].v[j] = Item(c, m + j)
      BY <1>1, <1>3, <2>1, <3>1
    <3> HIDE DEF n
    <3> QED BY <3>2, <3>3
  <2>3. s = StAt(c, e + n)
    BY <1>1, <1>2, <1>4, <1>5, <2>1
  <2>4. d = Moved(StAt(c, e + n), n, Take(w[1].v, n), {}, Again)
    BY <1>7, <1>10, <2>3
  <2>5. Level(c, e + n, f, m + n) /\ e + n <= f
    BY <1>1, <1>2, <2>1 DEF Level, skip
  <2> HIDE DEF n
  <2> QED BY <2>1, <2>2, <2>4, <2>5, Going
<1>11. CASE len # 0 /\ room # 0 /\ s.skip # 0
  <2>1. k \in Nat /\ k > 0 /\ k <= len /\ e + k <= skip /\ s.skip - k = skip - (e + k)
    BY <1>1, <1>2, <1>4, <1>11 DEF Smaller
  <2>2. [s EXCEPT !.skip = @ - k] = StAt(c, e + k)
    BY <1>1, <1>2, <1>4, <1>5, <2>1
  <2>3. d = Moved(StAt(c, e + k), k, <<>>, {}, Again)
    BY <1>7, <1>11, <2>2
  <2>4. Level(c, e + k, f, m + 0) /\ e + k <= f /\ 0 <= room
    BY <1>1, <1>2, <2>1 DEF Level, skip
  <2>5. <<>> = [j \in 1..0 |-> Item(c, m + j)]
    OBVIOUS
  <2> HIDE DEF k
  <2> QED BY <2>1, <2>3, <2>4, <2>5, Going
<1> QED BY <1>8, <1>9, <1>10, <1>11

\* Where a block stands and what it sees
LEMMA StandsIs ==
  ASSUME NEW c, NEW e, NEW f, NEW m, Stands(c, e, f, m), NEW w, w = Sees(c, e, f), NEW room, NEW r, r = Rooms(room)
  PROVE  /\ c \in Cases /\ c.block \in Ordered /\ e \in Nat /\ f \in Nat /\ m \in Nat /\ e <= f
         /\ f <= Len(In(c)) /\ Seeing(c, e, f, w) /\ r[1] = room
         /\ In(c) \in Seq(ToSet(In(c))) /\ Len(In(c)) \in Nat
<1>1. c \in Cases /\ c.block \in Ordered /\ e \in Nat /\ f \in Nat /\ m \in Nat /\ e <= f /\ f <= Len(In(c))
  BY DEF Stands, Plainly
<1>2. In(c) \in Seq(ToSet(In(c))) /\ Len(In(c)) \in Nat
  BY <1>1, OrderedIs
<1>3. Seeing(c, e, f, w)
  BY <1>1, SeesIs
<1>4. r[1] = room
  BY DEF Rooms
<1> QED BY <1>1, <1>2, <1>3, <1>4

\* RtlSdrDecode makes pairs.
LEMMA RtlSdrDecodeDoes ==
  ASSUME NEW c, NEW e, NEW f, NEW m, NEW room \in Nat, Stands(c, e, f, m), c.block = "RtlSdrDecode",
         NEW w, w = Sees(c, e, f), NEW r, r = Rooms(room), NEW s, s = StAt(c, e),
         NEW d, d = RtlSdrDecodeWork(c.par, s, w, r)
  PROVE  Does(c, e, f, m, room, d)
<1> DEFINE len == f - e
           pairs == Pairs(w[1].v)
           n == Smaller(Len(pairs), room)
<1>1. /\ e \in Nat /\ f \in Nat /\ m \in Nat /\ e <= f /\ Seeing(c, e, f, w) /\ r[1] = room
  BY StandsIs
<1>2. e = 2 * m /\ s = [none |-> 0] /\ \A g : StAt(c, e + g) = [none |-> 0]
  BY DEF Stands, Level, StAt
<1>3. Need(c) = 2 /\ Ask(c) = 1 /\ Asks(c)
  BY DEF Need, Ask, Asks
<1>4. Len(w[1].v) = len /\ \A j \in 1..len : w[1].v[j] = In(c)[e + j]
  BY <1>1 DEF Seeing
<1>5. pairs = [k \in 1..(len \div 2) |-> <<w[1].v[2 * k - 1], w[1].v[2 * k]>>]
  BY <1>4 DEF Pairs
<1>6. len \div 2 \in Nat /\ 2 * (len \div 2) <= len /\ (len \div 2 = 0 <=> len < 2)
  BY <1>1
<1>7. Len(pairs) = len \div 2 /\ (pairs = <<>> <=> len < 2) /\ \A j \in 0..(len \div 2) : Take(pairs, j) = [k \in 1..j |-> pairs[k]]
  <2> DEFINE h == len \div 2
  <2>1. pairs = [k \in 1..h |-> <<w[1].v[2 * k - 1], w[1].v[2 * k]>>] /\ h \in Nat
    BY <1>5, <1>6
  <2> HIDE DEF pairs, h
  <2>2. pairs = [k \in 1..h |-> pairs[k]]
    BY <2>1
  <2>3. Builds(pairs, h)
    BY <2>1, <2>2, BuildsIs
  <2> QED BY <1>6, <2>3 DEF h, Builds
<1>8. d = IF pairs = <<>> THEN Nothing(s, w, r, WaitIn(1, 2))
          ELSE IF room = 0 THEN Nothing(s, w, r, WaitOut(1, 1))
          ELSE Moved(s, 2 * n, Take(pairs, n), {}, Again)
  BY <1>1 DEF RtlSdrDecodeWork
<1> HIDE DEF pairs
<1>9. CASE len < 2
  <2>1. d = Nothing(StAt(c, e), w, r, WaitIn(1, Need(c))) /\ f - e < Need(c)
    BY <1>3, <1>7, <1>8, <1>9
  <2> QED BY <2>1, Idling
<1>10. CASE ~(len < 2) /\ room = 0
  <2>1. d = Nothing(StAt(c, e), w, r, WaitOut(1, Ask(c))) /\ room < Ask(c)
    BY <1>3, <1>7, <1>8, <1>10
  <2> QED BY <1>3, <2>1, Idling
<1>11. CASE ~(len < 2) /\ room # 0
  <2>1. n \in Nat /\ n > 0 /\ n <= Len(pairs) /\ n <= room /\ 2 * n <= len /\ 2 * n \in Nat
    BY <1>1, <1>6, <1>7, <1>11 DEF Smaller
  <2>2. d = Moved(StAt(c, e + 2 * n), 2 * n, Take(pairs, n), {}, Again)
    BY <1>2, <1>7, <1>8, <1>11
  <2> HIDE DEF n
  <2>3. \A j \in 1..n : pairs[j] = Item(c, m + j)
    <3> SUFFICES ASSUME NEW j \in 1..n PROVE pairs[j] = Item(c, m + j)
      OBVIOUS
    <3>1. j \in 1..(len \div 2) /\ 2 * j - 1 \in 1..len /\ 2 * j \in 1..len
      BY <1>1, <1>7, <2>1
    <3>2. pairs[j] = <<In(c)[e + (2 * j - 1)], In(c)[e + 2 * j]>>
      BY <1>4, <1>5, <3>1
    <3>3. Item(c, m + j) = <<In(c)[2 * (m + j) - 1], In(c)[2 * (m + j)]>>
      BY DEF Item
    <3>4. 2 * (m + j) - 1 = e + (2 * j - 1) /\ 2 * (m + j) = e + 2 * j
      BY <1>1, <1>2
    <3> QED BY <3>2, <3>3, <3>4
  <2>4. Take(pairs, n) = [j \in 1..n |-> Item(c, m + j)]
    <3>1. n \in 0..(len \div 2)
      BY <1>6, <1>7, <2>1
    <3> QED BY <1>7, <2>3, <3>1
  <2>5. Level(c, e + 2 * n, f, m + n) /\ e + 2 * n <= f
    BY <1>1, <1>2, <2>1 DEF Level
  <2>6. 2 * n > 0
    BY <2>1
  <2> QED BY <2>1, <2>2, <2>4, <2>5, <2>6, Going
<1> QED BY <1>9, <1>10, <1>11

\* Hilbert keeps the last samples that it has seen.
LEMMA HilbertDoes ==
  ASSUME NEW c, NEW e, NEW f, NEW m, NEW room \in Nat, Stands(c, e, f, m), c.block = "Hilbert",
         NEW w, w = Sees(c, e, f), NEW r, r = Rooms(room), NEW s, s = StAt(c, e),
         NEW d, d = HilbertWork(c.par, s, w, r)
  PROVE  Does(c, e, f, m, room, d)
<1> DEFINE len == f - e
           taps == c.par.ntaps
           n == Smaller(len, room)
           new == Take(w[1].v, n)
           iv == s.history \o new
           out == [k \in 1..n |-> SubSeq(iv, k, k + taps - 1)]
<1>1. /\ c \in Cases /\ c.block \in Ordered /\ e \in Nat /\ f \in Nat /\ m \in Nat /\ e <= f
      /\ Seeing(c, e, f, w) /\ r[1] = room /\ f <= Len(In(c))
      /\ In(c) \in Seq(ToSet(In(c))) /\ Len(In(c)) \in Nat
  BY StandsIs
<1>2. e = m /\ s = [history |-> [j \in 1..taps |-> At(In(c), e - taps + j)]]
        /\ \A g : StAt(c, e + g) = [history |-> [j \in 1..taps |-> At(In(c), (e + g) - taps + j)]]
  BY DEF Stands, Level, StAt
<1>3. Need(c) = 1 /\ Ask(c) = 1 /\ Asks(c)
  BY DEF Need, Ask, Asks
<1>4. /\ w[1].v \in Seq(ToSet(In(c))) /\ Len(w[1].v) = len /\ (\A j \in 1..len : w[1].v[j] = In(c)[e + j])
      /\ (w[1].v = <<>> <=> e = f) /\ w[1].t = {}
  BY <1>1 DEF Seeing, Stands, Plainly
<1>5. taps \in Nat /\ taps > 0
  BY <1>1, OrderedIs DEF OrderedPar
<1> HIDE DEF taps
<1>6. d = IF len = 0 THEN Nothing(s, w, r, WaitIn(1, 1))
          ELSE IF room = 0 THEN Nothing(s, w, r, WaitOut(1, 1))
          ELSE Moved([history |-> Drop(iv, n)], n, out, {}, Again)
  <2>1. w[1].v = <<>> <=> len = 0
    BY <1>1, <1>4
  <2>2. d = IF Len(s.history) # taps THEN Nothing(s, w, r, Panic)
            ELSE IF w[1].v = <<>> THEN Nothing(s, w, r, WaitIn(1, 1))
            ELSE IF r[1] = 0 THEN Nothing(s, w, r, WaitOut(1, 1))
            ELSE Moved([history |-> Drop(iv, n)], n, out, w[1].t, Again)
    BY <1>1, <1>4 DEF HilbertWork, taps
  <2>3. Len(s.history) = taps
    <3>1. s.history = [j \in 1..taps |-> At(In(c), e - taps + j)]
      BY <1>2
    <3> QED BY <1>5, <3>1
  <2> HIDE DEF iv, n, out
  <2> QED BY <1>1, <1>4, <2>1, <2>2, <2>3
<1>7. CASE len = 0
  <2>1. d = Nothing(StAt(c, e), w, r, WaitIn(1, Need(c))) /\ f - e < Need(c)
    BY <1>3, <1>6, <1>7
  <2> QED BY <2>1, Idling
<1>8. CASE len # 0 /\ room = 0
  <2>1. d = Nothing(StAt(c, e), w, r, WaitOut(1, Ask(c))) /\ room < Ask(c)
    BY <1>3, <1>6, <1>8
  <2> QED BY <1>3, <2>1, Idling
<1>9. CASE len # 0 /\ room # 0
  <2>1. n \in Nat /\ n > 0 /\ n <= len /\ n <= room
    BY <1>1, <1>9 DEF Smaller
  <2>2. d = Moved([history |-> Drop(iv, n)], n, out, {}, Again)
    BY <1>6, <1>9
  <2> DEFINE f_ == [j \in Nat |-> At(In(c), e - taps + j)]
             h == [j \in 1..taps |-> f_[j]]
             b == [j \in 1..n |-> f_[taps + j]]
             D == { f_[j] : j \in 1..(taps + n) }
  <2>3. s.history = h
    BY <1>2, <1>5
  <2>4. new = b
    <3>1. \A j \in 1..n : w[1].v[j] = f_[taps + j]
      <4> SUFFICES ASSUME NEW j \in 1..n PROVE w[1].v[j] = f_[taps + j]
        OBVIOUS
      <4>1. j \in 1..len /\ taps + j \in Nat /\ e - taps + (taps + j) = e + j /\ e + j \in 1..Len(In(c))
        BY <1>1, <1>5, <2>1
      <4>2. At(In(c), e + j) = In(c)[e + j]
        BY <1>1, <4>1 DEF At
      <4> QED BY <1>4, <4>1, <4>2
    <3> HIDE DEF n, f_
    <3>2. new = [j \in 1..n |-> w[1].v[j]]
      BY <1>4, <2>1, TakeIs
    <3> QED BY <3>1, <3>2
  <2> HIDE DEF n, f_
  <2>5. iv = [j \in 1..(taps + n) |-> f_[j]]
    <3>1. h \o b = [j \in 1..(taps + n) |-> f_[j]]
      BY <1>5, <2>1, JoinIs
    <3> QED BY <2>3, <2>4, <3>1
  <2> HIDE DEF iv, D
  <2>6. iv \in Seq(D) /\ Len(iv) = taps + n /\ \A j \in 1..(taps + n) : iv[j] = f_[j]
    BY <1>5, <2>1, <2>5 DEF D
  <2>7. Drop(iv, n) = [j \in 1..taps |-> At(In(c), (e + n) - taps + j)]
    <3>1. Drop(iv, n) = [j \in 1..taps |-> iv[n + j]]
      <4>1. SubSeq(iv, n + 1, taps + n) = [j \in 1..((taps + n) - (n + 1) + 1) |-> iv[(n + 1) + j - 1]]
        BY <1>5, <2>1, <2>6
      <4>2. (taps + n) - (n + 1) + 1 = taps /\ \A j \in 1..taps : (n + 1) + j - 1 = n + j
        BY <1>5, <2>1
      <4> QED BY <2>6, <4>1, <4>2 DEF Drop
    <3>2. \A j \in 1..taps : iv[n + j] = At(In(c), (e + n) - taps + j)
      <4> SUFFICES ASSUME NEW j \in 1..taps PROVE iv[n + j] = At(In(c), (e + n) - taps + j)
        OBVIOUS
      <4>1. n + j \in 1..(taps + n) /\ n + j \in Nat /\ e - taps + (n + j) = (e + n) - taps + j
        BY <1>1, <1>5, <2>1
      <4> QED BY <2>6, <4>1 DEF f_
    <3> QED BY <3>1, <3>2
  <2>8. out = [j \in 1..n |-> Item(c, m + j)]
    <3> SUFFICES ASSUME NEW k \in 1..n PROVE SubSeq(iv, k, k + taps - 1) = Item(c, m + k)
      OBVIOUS
    <3>1. Item(c, m + k) = [j \in 1..taps |-> At(In(c), (m + k) - taps - 1 + j)]
      BY DEF Item, taps
    <3>2. SubSeq(iv, k, k + taps - 1) = [j \in 1..taps |-> iv[k + j - 1]]
      <4>1. SubSeq(iv, k, k + taps - 1) = [j \in 1..((k + taps - 1) - k + 1) |-> iv[k + j - 1]]
        BY <1>5, <2>1, <2>6
      <4>2. (k + taps - 1) - k + 1 = taps
        BY <1>5, <2>1
      <4> QED BY <4>1, <4>2
    <3>3. \A j \in 1..taps : iv[k + j - 1] = At(In(c), (m + k) - taps - 1 + j)
      <4> SUFFICES ASSUME NEW j \in 1..taps PROVE iv[k + j - 1] = At(In(c), (m + k) - taps - 1 + j)
        OBVIOUS
      <4>1. k + j - 1 \in 1..(taps + n) /\ k + j - 1 \in Nat /\ e - taps + (k + j - 1) = (m + k) - taps - 1 + j
        BY <1>1, <1>2, <1>5, <2>1
      <4> QED BY <2>6, <4>1 DEF f_
    <3> QED BY <3>1, <3>2, <3>3
  <2>9. d = Moved(StAt(c, e + n), n, out, {}, Again)
    BY <1>2, <2>2, <2>7
  <2>10. Level(c, e + n, f, m + n) /\ e + n <= f
    BY <1>1, <1>2, <2>1 DEF Level
  <2> HIDE DEF out
  <2> QED BY <2>1, <2>8, <2>9, <2>10, Going
<1> QED BY <1>7, <1>8, <1>9

\* DebugFilter and DebugSink take all there is,
LEMMA DebugDoes ==
  ASSUME NEW c, NEW e, NEW f, NEW m, NEW room \in Nat, Stands(c, e, f, m), c.block \in {"DebugFilter", "DebugSink"},
         NEW w, w = Sees(c, e, f), NEW r, r = Rooms(room), NEW s, s = StAt(c, e),
         NEW d, d = DebugSinkWork(c.par, s, w, r)
  PROVE  Does(c, e, f, m, room, d)
<1> DEFINE len == f - e
           out == [k \in DOMAIN w[1].v |-> <<w[1].v[k], TagsAt(w[1], k)>>]
<1>1. /\ c \in Cases /\ e \in Nat /\ f \in Nat /\ m \in Nat /\ e <= f /\ Seeing(c, e, f, w)
  BY StandsIs
<1>2. m = e /\ s = StAt(c, e + len) /\ Level(c, e + len, f, m + len) /\ ~Asks(c) /\ Need(c) = 1
  BY <1>1 DEF Stands, Level, StAt, Asks, Need
<1>3. /\ w[1].v \in Seq(ToSet(In(c))) /\ Len(w[1].v) = len
      /\ \A j \in 1..len : w[1].v[j] = In(c)[e + j] /\ TagsAt(w[1], j) = TagsAt(c.given[1], e + j)
  BY <1>1 DEF Seeing
<1>4. d = Moved(StAt(c, e + len), len, out, {}, WaitIn(1, Need(c)))
  BY <1>2, <1>3 DEF DebugSinkWork
<1>5. out = [j \in 1..len |-> Item(c, m + j)]
  <2>1. DOMAIN w[1].v = 1..len
    BY <1>3
  <2>2. \A j \in 1..len : <<w[1].v[j], TagsAt(w[1], j)>> = Item(c, m + j)
    BY <1>2, <1>3 DEF Item
  <2> QED BY <2>1, <2>2
<1>6. len \in Nat /\ e + len <= f /\ f - (e + len) < 1
  BY <1>1
<1> HIDE DEF len, out
<1> QED BY <1>2, <1>4, <1>5, <1>6, Going

\* DebugSinkNoCopy and PduWriter one packet.
LEMMA PacketDoes ==
  ASSUME NEW c, NEW e, NEW f, NEW m, NEW room \in Nat, Stands(c, e, f, m), c.block \in {"DebugSinkNoCopy", "PduWriter"},
         NEW w, w = Sees(c, e, f), NEW r, r = Rooms(room), NEW s, s = StAt(c, e),
         NEW d, d = IF c.block = "PduWriter" THEN PduWriterWork(c.par, s, w, r) ELSE DebugSinkNoCopyWork(c.par, s, w, r)
  PROVE  Does(c, e, f, m, room, d)
<1>1. /\ c \in Cases /\ e \in Nat /\ f \in Nat /\ m \in Nat /\ e <= f /\ Seeing(c, e, f, w)
  BY StandsIs
<1>2. m = e /\ Level(c, e + 1, f, m + 1) /\ ~Asks(c) /\ Need(c) = 1
  BY DEF Stands, Level, Asks, Need
<1>3. w[1].v = <<>> <=> e = f
  BY <1>1 DEF Seeing
<1>4. CASE e = f
  <2>1. d = Nothing(StAt(c, e), w, r, WaitIn(1, Need(c))) /\ f - e < Need(c)
    BY <1>1, <1>2, <1>3, <1>4 DEF PduWriterWork, DebugSinkNoCopyWork
  <2> QED BY <2>1, Idling
<1>5. CASE e # f
  <2>1. w[1].v[1] = In(c)[m + 1] /\ e + 1 <= f
    BY <1>1, <1>2, <1>5 DEF Seeing
  <2> DEFINE out == <<Item(c, m + 1)>>
  <2>2. d = Moved(StAt(c, e + 1), 1, out, {}, Again)
    <3>1. CASE c.block = "PduWriter"
      <4>1. s = [files_written |-> e] /\ StAt(c, e + 1) = [files_written |-> e + 1]
        BY <3>1 DEF StAt
      <4>2. Item(c, m + 1) = AllSerialized(In(c)[m + 1], c.par.size)
        BY <3>1 DEF Item
      <4>3. d = Moved([files_written |-> s.files_written + 1], 1, <<AllSerialized(w[1].v[1], c.par.size)>>, {}, Again)
        BY <1>3, <1>5, <3>1 DEF PduWriterWork
      <4>4. s.files_written = e
        BY <4>1
      <4> QED BY <2>1, <4>1, <4>2, <4>3, <4>4
    <3>2. CASE c.block = "DebugSinkNoCopy"
      <4>1. s = StAt(c, e + 1) /\ Item(c, m + 1) = In(c)[m + 1]
        BY <3>2 DEF StAt, Item
      <4>2. d = Moved(s, 1, <<w[1].v[1]>>, {}, Again)
        BY <1>3, <1>5, <3>2 DEF DebugSinkNoCopyWork
      <4> QED BY <2>1, <4>1, <4>2
    <3> QED BY <3>1, <3>2
  <2>3. out = [j \in 1..1 |-> Item(c, m + j)]
    <3> DEFINE f_ == [j \in 1..1 |-> Item(c, m + j)]
    <3>1. f_ = <<f_[1]>>
      OBVIOUS
    <3> QED BY <3>1
  <2>4. 1 \in Nat /\ 1 > 0 /\ Again = Again
    OBVIOUS
  <2> HIDE DEF out
  <2>5. (Again = Again /\ 1 > 0) \/ (Again = WaitIn(1, Need(c)) /\ f - (e + 1) < Need(c))
    BY <2>4
  <2> QED BY <1>2, <2>1, <2>2, <2>3, <2>4, <2>5, Going
<1> QED BY <1>4, <1>5

-----------------------------------------------------------------------------
(* Sequences of sequences that are all as long                             *)

\* Division of what is q times the size, and a little more
LEMMA DivIs ==
  ASSUME NEW size \in Nat \ {0}, NEW q \in Nat, NEW i \in 1..size
  PROVE  /\ size * q \in Nat /\ size * (q + 1) = size * q + size
         /\ (size * q + i - 1) \div size = q /\ First(size, size * q + i) = size * q
         /\ (size * q + i - 1) \div size + 1 = q + 1
<1>1. size * q \in Nat /\ size * (q + 1) = size * q + size
  OBVIOUS
<1>2. (size * q + (i - 1)) \div size = q
  OBVIOUS
<1>3. size * q + i - 1 = size * q + (i - 1)
  BY <1>1
<1> QED BY <1>1, <1>2, <1>3 DEF First

\* Every number is such.
LEMMA DivExists ==
  ASSUME NEW size \in Nat \ {0}, NEW m \in Nat \ {0}
  PROVE  \E q \in Nat, i \in 1..size : m = size * q + i
<1> DEFINE q == (m - 1) \div size
           i == ((m - 1) % size) + 1
<1>1. q \in Nat /\ i \in 1..size /\ m = size * q + i
  OBVIOUS
<1> HIDE DEF q, i
<1> QED BY <1>1

\* A sequence by its items, and one item more
Rows(T, k, ss) ==
  /\ [b \in 1..k |-> ss[b]] \in Seq(T)
  /\ Append([b \in 1..k |-> ss[b]], ss[k + 1]) = [b \in 1..(k + 1) |-> ss[b]]

LEMMA RowIs ==
  ASSUME NEW T, NEW k \in Nat, NEW ss, \A b \in 1..(k + 1) : ss[b] \in T
  PROVE  Rows(T, k, ss)
<1> DEFINE row == [b \in 1..k |-> ss[b]]
<1>1. \A b \in 1..k : ss[b] \in T /\ row[b] = ss[b]
  OBVIOUS
<1>2. row \in [1..k -> T]
  BY <1>1
<1> HIDE DEF row
<1>3. row \in Seq(T) /\ Len(row) = k
  BY <1>2
<1>4. Append(row, ss[k + 1]) = [b \in 1..(k + 1) |-> ss[b]]
  <2>1. Append(row, ss[k + 1]) = [b \in 1..(k + 1) |-> IF b = k + 1 THEN ss[k + 1] ELSE row[b]]
    BY <1>3
  <2>2. \A b \in 1..(k + 1) : b # k + 1 => row[b] = ss[b]
    BY <1>1
  <2> QED BY <2>1, <2>2
<1> QED BY <1>3, <1>4 DEF row, Rows

LEMMA ItemsAre ==
  ASSUME NEW S, NEW s \in Seq(S)
  PROVE  s = [i \in 1..Len(s) |-> s[i]]
OBVIOUS

\* One after the other
Chunked(S, size, n, ss, g) ==
  /\ ss = [b \in 1..n |-> ss[b]]
  /\ \A b \in 1..n : ss[b] \in Strings(S) /\ Len(ss[b]) = size
  /\ \A q \in Nat, i \in 1..size : q < n => g[size * q + i] = ss[q + 1][i]
Flattens(size, n, ss, g) == FlattenSeq(ss) = [j \in 1..(size * n) |-> g[j]]

LEMMA ChunksIs ==
  ASSUME NEW S, NEW size \in Nat \ {0}, NEW n \in Nat, NEW ss, NEW g, Chunked(S, size, n, ss, g)
  PROVE  Flattens(size, n, ss, g)
<1>0. /\ ss = [b \in 1..n |-> ss[b]]
      /\ \A b \in 1..n : ss[b] \in Strings(S) /\ Len(ss[b]) = size
      /\ \A q \in Nat, i \in 1..size : q < n => g[size * q + i] = ss[q + 1][i]
  BY Zenon DEF Chunked
<1> DEFINE Upto(k) == [b \in 1..k |-> ss[b]]
           Flat(k) == [j \in 1..(size * k) |-> g[j]]
           P == { k \in Nat : k <= n => FlattenSeq(Upto(k)) = Flat(k) }
<1>1. 0 \in P
  <2>1. Upto(0) = <<>>
    OBVIOUS
  <2>2. Flat(0) = <<>>
    <3>1. size * 0 = 0
      OBVIOUS
    <3>2. Flat(0) = [j \in 1..0 |-> g[j]]
      BY <3>1, Zenon
    <3> QED BY <3>2
  <2> HIDE DEF Upto, Flat
  <2> QED BY <2>1, <2>2, FlattenNone
<1>2. ASSUME NEW k \in Nat, k \in P PROVE k + 1 \in P
  <2> SUFFICES ASSUME k + 1 <= n PROVE FlattenSeq(Upto(k + 1)) = Flat(k + 1)
    OBVIOUS
  <2>1. k + 1 \in 1..n /\ k <= n /\ k < n /\ size * k \in Nat /\ size * (k + 1) = size * k + size
    <3>1. k + 1 \in 1..n /\ k <= n /\ k < n
      OBVIOUS
    <3>2. size \in 1..size
      OBVIOUS
    <3> QED BY <3>1, <3>2, DivIs
  <2>2. FlattenSeq(Upto(k)) = Flat(k)
    BY <1>2, <2>1
  <2>3. Upto(k) \in Seq(Strings(S)) /\ Append(Upto(k), ss[k + 1]) = Upto(k + 1) /\ ss[k + 1] \in Strings(S)
    <3>1. \A b \in 1..(k + 1) : ss[b] \in Strings(S)
      <4>1. \A b \in 1..n : ss[b] \in Strings(S)
        BY <1>0, Zenon
      <4> QED BY <2>1, <4>1
    <3>2. Upto(k) \in Seq(Strings(S)) /\ Append(Upto(k), ss[k + 1]) = Upto(k + 1)
      <4>1. Rows(Strings(S), k, ss)
        BY <3>1, RowIs
      <4> QED BY <4>1, Zenon DEF Rows
    <3>3. ss[k + 1] \in Strings(S)
      BY <1>0, <2>1, Zenon
    <3> QED BY <3>2, <3>3
  <2>4. FlattenSeq(Upto(k + 1)) = Flat(k) \o ss[k + 1]
    <3> HIDE DEF Upto, Flat
    <3> QED BY <2>2, <2>3, FlattenAppend
  <2>5. ss[k + 1] = [i \in 1..size |-> g[size * k + i]]
    <3>1. ss[k + 1] \in Seq(S) /\ Len(ss[k + 1]) = size
      BY <1>0, <2>1, Zenon DEF Strings
    <3>2. \A i \in 1..size : g[size * k + i] = ss[k + 1][i]
      BY <1>0, <2>1, Zenon
    <3>3. ss[k + 1] = [i \in 1..size |-> ss[k + 1][i]]
      BY <3>1, ItemsAre, Zenon
    <3> QED BY <3>2, <3>3, Zenon
  <2>6. Flat(k) \o [i \in 1..size |-> g[size * k + i]] = [j \in 1..(size * k + size) |-> g[j]]
    <3> DEFINE a == size * k
    <3>1. a \in Nat /\ size \in Nat
      BY <2>1
    <3> HIDE DEF a
    <3>2. [j \in 1..a |-> g[j]] \o [i \in 1..size |-> g[a + i]] = [j \in 1..(a + size) |-> g[j]]
      BY <3>1, JoinIs
    <3> QED BY <3>2 DEF a
  <2>7. Flat(k + 1) = [j \in 1..(size * k + size) |-> g[j]]
    BY <2>1
  <2> HIDE DEF Flat, Upto
  <2> QED BY <2>4, <2>5, <2>6, <2>7
<1>3. n \in P
  <2> HIDE DEF P
  <2> QED BY <1>1, <1>2, Inductive
<1>4. FlattenSeq(Upto(n)) = Flat(n)
  BY <1>3
<1>5. Upto(n) = ss
  BY <1>0, Zenon
<1> QED BY <1>4, <1>5, Zenon DEF Flattens

-----------------------------------------------------------------------------
(* The blocks that make more of one than one, or of many                   *)

\* WriterSink writes every sample as so many bytes.
LEMMA WriterSinkDoes ==
  ASSUME NEW c, NEW e, NEW f, NEW m, NEW room \in Nat, Stands(c, e, f, m), c.block = "WriterSink",
         NEW w, w = Sees(c, e, f), NEW r, r = Rooms(room), NEW s, s = StAt(c, e),
         NEW d, d = WriterSinkWork(c.par, s, w, r)
  PROVE  Does(c, e, f, m, room, d)
<1> DEFINE len == f - e
           size == c.par.size
           D == ToSet(In(c))
           ss == [k \in DOMAIN w[1].v |-> Serialized(w[1].v[k], size)]
           g == [j \in Nat |-> Item(c, m + j)]
<1>1. /\ c \in Cases /\ c.block \in Ordered /\ e \in Nat /\ f \in Nat /\ m \in Nat /\ e <= f
      /\ Seeing(c, e, f, w) /\ len \in Nat
  <2>1. c \in Cases /\ c.block \in Ordered /\ e \in Nat /\ f \in Nat /\ m \in Nat /\ e <= f /\ Seeing(c, e, f, w)
    BY StandsIs
  <2> QED BY <2>1
<1>2. size \in Nat \ {0}
  BY <1>1, OrderedIs DEF OrderedPar
<1>3. m = size * e /\ s = StAt(c, e + len) /\ ~Asks(c) /\ Need(c) = 1
  BY DEF Stands, Level, StAt, Asks, Need
<1>4. /\ w[1].v \in Seq(D) /\ Len(w[1].v) = len
      /\ \A j \in 1..len : w[1].v[j] = In(c)[e + j] /\ w[1].v[j] \in D
  <2>1. w[1].v \in Seq(D) /\ Len(w[1].v) = len /\ \A j \in 1..len : w[1].v[j] = In(c)[e + j]
    BY <1>1 DEF Seeing
  <2> HIDE DEF D
  <2>2. \A j \in 1..len : w[1].v[j] \in D
    BY <1>1, <2>1
  <2> QED BY <2>1, <2>2
<1>5. \A k : Item(c, k) = <<In(c)[(k - 1) \div size + 1], k - First(size, k)>>
  BY DEF Item
<1> HIDE DEF size, D
<1>6. d = Moved(StAt(c, e + len), len, FlattenSeq(ss), {}, WaitIn(1, Need(c)))
  BY <1>3, <1>4 DEF WriterSinkWork, AllSerialized, size
<1>7. ss = [k \in 1..len |-> Serialized(w[1].v[k], size)]
  BY <1>4
<1>8. ASSUME NEW b \in 1..len PROVE ss[b] \in Strings(D \X Nat) /\ Len(ss[b]) = size
  <2>1. ss[b] = [k \in 1..size |-> <<w[1].v[b], k>>] /\ w[1].v[b] \in D
    BY <1>4, <1>7 DEF Serialized
  <2> DEFINE x == w[1].v[b]
  <2>2. ss[b] = [k \in 1..size |-> <<x, k>>] /\ x \in D
    BY <2>1
  <2> HIDE DEF x
  <2>3. ss[b] \in [1..size -> D \X Nat]
    BY <1>2, <2>2
  <2> HIDE DEF ss
  <2> QED BY <1>2, <2>3 DEF Strings
<1>9. ASSUME NEW q \in Nat, NEW i \in 1..size, q < len PROVE g[size * q + i] = ss[q + 1][i]
  <2>1. q + 1 \in 1..len /\ e + q \in Nat /\ i \in Nat
    BY <1>1, <1>2, <1>9
  <2>2. ss[q + 1][i] = <<In(c)[e + (q + 1)], i>>
    BY <1>4, <1>7, <2>1 DEF Serialized
  <2>3. size * q + i \in Nat /\ m + (size * q + i) = size * (e + q) + i
    <3>1. size * q \in Nat /\ size * e \in Nat
      BY <1>1, <1>2, DivIs
    <3>2. size * (e + q) = size * e + size * q
      BY <1>1, <1>2
    <3> QED BY <1>3, <2>1, <3>1, <3>2
  <2>4. g[size * q + i] = Item(c, size * (e + q) + i)
    BY <2>3
  <2>5. /\ size * (e + q) \in Nat
        /\ (size * (e + q) + i - 1) \div size + 1 = (e + q) + 1 /\ First(size, size * (e + q) + i) = size * (e + q)
    BY <1>2, <2>1, DivIs
  <2>6. Item(c, size * (e + q) + i) = <<In(c)[(e + q) + 1], i>>
    <3>1. (size * (e + q) + i) - size * (e + q) = i
      BY <2>1, <2>5
    <3> QED BY <1>5, <2>5, <3>1
  <2>7. (e + q) + 1 = e + (q + 1)
    BY <1>1
  <2> QED BY <2>2, <2>4, <2>6, <2>7
<1>10. ss = [b \in 1..len |-> ss[b]]
  BY <1>7
<1> HIDE DEF ss, g, len
<1>11. FlattenSeq(ss) = [j \in 1..(size * len) |-> g[j]]
  <2>1. \A b \in 1..len : ss[b] \in Strings(D \X Nat) /\ Len(ss[b]) = size
    BY <1>8, Zenon
  <2>2. \A q \in Nat, i \in 1..size : q < len => g[size * q + i] = ss[q + 1][i]
    BY <1>9, Zenon
  <2>3. Chunked(D \X Nat, size, len, ss, g)
    BY <1>10, <2>1, <2>2, Zenon DEF Chunked
  <2>4. Flattens(size, len, ss, g)
    BY <1>1, <1>2, <2>3, ChunksIs
  <2> QED BY <2>4, Zenon DEF Flattens
<1> USE DEF len
<1>12. size * len \in Nat /\ m + size * len = size * (e + len)
  <2>1. size * len \in Nat
    BY <1>1, <1>2
  <2>2. size * (e + len) = size * e + size * len
    BY <1>1, <1>2
  <2> QED BY <1>3, <2>1, <2>2
<1>13. [j \in 1..(size * len) |-> g[j]] = [j \in 1..(size * len) |-> Item(c, m + j)]
  <2>1. \A j \in 1..(size * len) : j \in Nat
    BY <1>12
  <2> QED BY <2>1 DEF g
<1>14. Level(c, e + len, f, m + size * len)
  BY <1>12 DEF Level, size
<1>15. e + len <= f /\ f - (e + len) < Need(c)
  BY <1>1, <1>3
<1> DEFINE back == WaitIn(1, Need(c))
           put == FlattenSeq(ss)
<1>16. back = WaitIn(1, Need(c)) /\ put = [j \in 1..(size * len) |-> Item(c, m + j)]
  BY <1>11, <1>13
<1>17. d = Moved(StAt(c, e + len), len, put, {}, back)
  BY <1>6
<1> HIDE DEF len, back, put
<1> QED BY <1>1, <1>3, <1>12, <1>14, <1>15, <1>16, <1>17, Going

\* A part of a part
LEMMA PartIs ==
  ASSUME NEW S, NEW v \in Seq(S), NEW e \in Nat, NEW f \in Nat, e <= f, f <= Len(v),
         NEW a \in Nat, NEW b \in Nat, a <= b, e + b <= f
  PROVE  /\ SubSeq(SubSeq(v, e + 1, f), a + 1, b) = SubSeq(v, e + a + 1, e + b)
         /\ Len(SubSeq(v, e + a + 1, e + b)) = b - a
         /\ DOMAIN SubSeq(v, e + a + 1, e + b) = 1..(b - a)
<1> DEFINE x == SubSeq(v, e + 1, f)
           y == SubSeq(x, a + 1, b)
           z == SubSeq(v, e + a + 1, e + b)
<1>1. x \in Seq(S) /\ Len(x) = f - e /\ \A j \in 1..(f - e) : x[j] = v[e + j]
  OBVIOUS
<1>2. z \in Seq(S) /\ Len(z) = b - a /\ \A j \in 1..(b - a) : z[j] = v[e + a + j]
  OBVIOUS
<1> HIDE DEF x, z
<1>3. y \in Seq(S) /\ Len(y) = b - a /\ \A j \in 1..(b - a) : y[j] = x[a + j]
  BY <1>1
<1> HIDE DEF y
<1>4. \A j \in 1..(b - a) : y[j] = z[j]
  <2> SUFFICES ASSUME NEW j \in 1..(b - a) PROVE y[j] = z[j]
    OBVIOUS
  <2>1. a + j \in 1..(f - e) /\ e + (a + j) = e + a + j
    OBVIOUS
  <2> QED BY <1>1, <1>2, <1>3, <2>1
<1>5. y = z /\ DOMAIN z = 1..(b - a)
  BY <1>2, <1>3, <1>4
<1> QED BY <1>2, <1>5 DEF x, y, z

\* FftStream transforms so many samples at a time.
LEMMA FftStreamDoes ==
  ASSUME NEW c, NEW e, NEW f, NEW m, NEW room \in Nat, Stands(c, e, f, m), c.block = "FftStream",
         NEW w, w = Sees(c, e, f), NEW r, r = Rooms(room), NEW s, s = StAt(c, e),
         NEW d, d = FftStreamWork(c.par, s, w, r)
  PROVE  Does(c, e, f, m, room, d)
<1> DEFINE len == f - e
           size == c.par.size
           D == ToSet(In(c))
           x == w[1].v
           n == Smaller(Len(x), room) \div size
           Part(b) == SubSeq(x, (b - 1) * size + 1, b * size)
           ss == [b \in 1..n |-> Transformed(Part(b))]
           g == [j \in Nat |-> Item(c, m + j)]
<1>1. /\ c \in Cases /\ c.block \in Ordered /\ e \in Nat /\ f \in Nat /\ m \in Nat /\ e <= f
      /\ f <= Len(In(c)) /\ In(c) \in Seq(D) /\ Seeing(c, e, f, w) /\ r[1] = room /\ len \in Nat
  <2>1. /\ c \in Cases /\ c.block \in Ordered /\ e \in Nat /\ f \in Nat /\ m \in Nat /\ e <= f
        /\ f <= Len(In(c)) /\ In(c) \in Seq(D) /\ Seeing(c, e, f, w) /\ r[1] = room
    BY StandsIs
  <2> QED BY <2>1
<1>2. size \in Nat \ {0}
  BY <1>1, OrderedIs DEF OrderedPar
<1>3. m = e /\ (\E q \in Nat : m = size * q) /\ s = StAt(c, e) /\ Asks(c) /\ Need(c) = size /\ Ask(c) = size
  BY DEF Stands, Level, Asks, Need, Ask
<1>4. /\ x = SubSeq(In(c), e + 1, f) /\ Len(x) = len
  BY <1>1 DEF Seeing
<1>5. \A k : Item(c, k) = <<k - First(size, k), SubSeq(In(c), First(size, k) + 1, First(size, k) + size)>>
  BY DEF Item
<1>6. \A g_ : StAt(c, e + g_) = s
  BY DEF StAt
<1> HIDE DEF size, D, x
<1>7. d = IF len < size THEN Nothing(s, w, r, WaitIn(1, size))
          ELSE IF room < size THEN Nothing(s, w, r, WaitOut(1, size))
          ELSE Moved(s, n * size, FlattenSeq(ss), {}, Again)
  BY <1>1, <1>4 DEF FftStreamWork, size, x
<1>8. CASE len < size
  <2>1. d = Nothing(StAt(c, e), w, r, WaitIn(1, Need(c))) /\ f - e < Need(c)
    BY <1>3, <1>7, <1>8
  <2> QED BY <2>1, Idling
<1>9. CASE ~(len < size) /\ room < size
  <2>1. d = Nothing(StAt(c, e), w, r, WaitOut(1, Ask(c))) /\ room < Ask(c)
    BY <1>3, <1>7, <1>9
  <2> QED BY <1>3, <2>1, Idling
<1>10. CASE ~(len < size) /\ ~(room < size)
  <2>1. n \in Nat /\ n > 0 /\ n * size <= len /\ n * size <= room /\ n * size = size * n /\ size * n \in Nat /\ size * n > 0
    <3> DEFINE t == Smaller(Len(x), room)
    <3>1. t \in Nat /\ t <= len /\ t <= room /\ t >= size
      BY <1>1, <1>2, <1>4, <1>10 DEF Smaller
    <3>2. n = t \div size
      OBVIOUS
    <3> HIDE DEF t, n
    <3>3. n \in Nat /\ n > 0 /\ size * n <= t
      BY <1>2, <3>1, <3>2
    <3>4. n * size = size * n /\ size * n \in Nat /\ size * n > 0
      BY <1>2, <3>3
    <3> QED BY <1>1, <3>1, <3>3, <3>4
  <2>2. d = Moved(StAt(c, e + n * size), n * size, FlattenSeq(ss), {}, Again)
    BY <1>6, <1>7, <1>10
  <2> HIDE DEF n
  <2>3. PICK Q \in Nat : m = size * Q
    BY <1>3
  <2>4. ASSUME NEW q \in Nat, q < n
        PROVE  /\ q + 1 \in 1..n
               /\ ss[q + 1] = [k \in 1..size |-> <<k, SubSeq(In(c), size * (Q + q) + 1, size * (Q + q) + size)>>]
    <3>1. /\ size * q \in Nat /\ size * (q + 1) = size * q + size /\ size * (Q + q) = m + size * q
          /\ q * size = size * q /\ (q + 1) * size = size * (q + 1) /\ size * (q + 1) <= size * n
      <4>1. size \in 1..size
        BY <1>2
      <4>2. size * q \in Nat /\ size * (q + 1) = size * q + size
        BY <1>2, <4>1, DivIs
      <4>3. size * (Q + q) = size * Q + size * q
        BY <1>2
      <4>4. q * size = size * q /\ (q + 1) * size = size * (q + 1)
        BY <1>2
      <4>5. size * (q + 1) <= size * n
        BY <1>2, <2>1, <2>4
      <4> QED BY <2>3, <4>2, <4>3, <4>4, <4>5
    <3>2. q + 1 \in 1..n /\ (q + 1) - 1 = q
      BY <2>1, <2>4
    <3> DEFINE a == size * q
               b == size * (q + 1)
               y == SubSeq(In(c), e + a + 1, e + b)
    <3>3. a \in Nat /\ b \in Nat /\ a <= b /\ e + b <= f /\ b - a = size
      BY <1>1, <1>2, <2>1, <3>1
    <3> HIDE DEF a, b
    <3>4. Part(q + 1) = SubSeq(x, a + 1, b)
      BY <3>1, <3>2 DEF a, b
    <3>5. Part(q + 1) = y /\ DOMAIN y = 1..size
      <4>1. SubSeq(SubSeq(In(c), e + 1, f), a + 1, b) = y /\ DOMAIN y = 1..(b - a)
        BY <1>1, <3>3, PartIs
      <4> QED BY <1>4, <3>3, <3>4, <4>1
    <3> HIDE DEF y
    <3>6. ss[q + 1] = [k \in 1..size |-> <<k, y>>]
      <4>1. ss[q + 1] = Transformed(Part(q + 1))
        BY <3>2
      <4> HIDE DEF Part, ss
      <4> QED BY <3>5, <4>1 DEF Transformed
    <3>7. y = SubSeq(In(c), size * (Q + q) + 1, size * (Q + q) + size)
      <4>1. e + a = size * (Q + q) /\ e + b = size * (Q + q) + size
        BY <1>1, <1>3, <3>1, <3>3 DEF a, b
      <4> QED BY <4>1 DEF y
    <3> QED BY <3>2, <3>6, <3>7
  <2> DEFINE U == { SubSeq(In(c), size * (Q + q) + 1, size * (Q + q) + size) : q \in Nat }
  <2>5. ASSUME NEW b \in 1..n PROVE ss[b] \in Strings(Nat \X U) /\ Len(ss[b]) = size
    <3> DEFINE y == SubSeq(In(c), size * (Q + (b - 1)) + 1, size * (Q + (b - 1)) + size)
    <3>1. b - 1 \in Nat /\ b - 1 < n /\ (b - 1) + 1 = b
      BY <2>1
    <3>2. ss[b] = [k \in 1..size |-> <<k, y>>]
      <4>1. ss[(b - 1) + 1] = [k \in 1..size |-> <<k, y>>]
        BY <2>4, <3>1
      <4> HIDE DEF ss
      <4> QED BY <3>1, <4>1
    <3>3. y \in U
      BY <3>1
    <3> HIDE DEF y, U, ss
    <3>4. ss[b] \in [1..size -> Nat \X U]
      BY <1>2, <3>2, <3>3
    <3> QED BY <1>2, <3>4 DEF Strings
  <2>6. ASSUME NEW q \in Nat, NEW i \in 1..size, q < n PROVE g[size * q + i] = ss[q + 1][i]
    <3>1. size * q + i \in Nat /\ m + (size * q + i) = size * (Q + q) + i /\ i \in Nat /\ Q + q \in Nat
      <4>1. size * q \in Nat /\ i \in Nat /\ size * Q \in Nat
        BY <1>2, DivIs
      <4>2. size * (Q + q) = size * Q + size * q
        BY <1>2
      <4> QED BY <2>3, <4>1, <4>2
    <3>2. g[size * q + i] = Item(c, size * (Q + q) + i)
      BY <3>1
    <3>3. size * (Q + q) \in Nat /\ First(size, size * (Q + q) + i) = size * (Q + q)
      BY <1>2, <3>1, DivIs
    <3>4. Item(c, size * (Q + q) + i) = <<i, SubSeq(In(c), size * (Q + q) + 1, size * (Q + q) + size)>>
      <4>1. (size * (Q + q) + i) - size * (Q + q) = i
        BY <3>1, <3>3
      <4> QED BY <1>5, <3>3, <4>1
    <3>5. ss[q + 1] = [k \in 1..size |-> <<k, SubSeq(In(c), size * (Q + q) + 1, size * (Q + q) + size)>>]
      BY <2>4, <2>6
    <3> HIDE DEF ss, g
    <3> QED BY <3>2, <3>4, <3>5
  <2>7. ss = [b \in 1..n |-> ss[b]]
    OBVIOUS
  <2> HIDE DEF ss, g, U
  <2>8. FlattenSeq(ss) = [j \in 1..(size * n) |-> g[j]]
    <3>1. \A b \in 1..n : ss[b] \in Strings(Nat \X U) /\ Len(ss[b]) = size
      BY <2>5, Zenon
    <3>2. \A q \in Nat, i \in 1..size : q < n => g[size * q + i] = ss[q + 1][i]
      BY <2>6, Zenon
    <3>3. Chunked(Nat \X U, size, n, ss, g)
      BY <2>7, <3>1, <3>2, Zenon DEF Chunked
    <3>4. Flattens(size, n, ss, g)
      BY <1>2, <2>1, <3>3, ChunksIs
    <3> QED BY <3>4, Zenon DEF Flattens
  <2>9. [j \in 1..(size * n) |-> g[j]] = [j \in 1..(size * n) |-> Item(c, m + j)]
    <3>1. \A j \in 1..(size * n) : j \in Nat
      BY <2>1
    <3> QED BY <3>1 DEF g
  <2> DEFINE z == size * n
             put == FlattenSeq(ss)
  <2>10. /\ z \in Nat /\ z > 0 /\ e + z <= f /\ z <= room
         /\ d = Moved(StAt(c, e + z), z, put, {}, Again) /\ put = [j \in 1..z |-> Item(c, m + j)]
    <3>1. e + z <= f
      BY <1>1, <2>1
    <3> QED BY <2>1, <2>2, <2>8, <2>9, <3>1
  <2>11. Level(c, e + z, f, m + z)
    <3>1. m + z = size * (Q + n)
      <4>1. size * (Q + n) = size * Q + size * n
        BY <1>2, <2>1
      <4> QED BY <2>3, <4>1
    <3>2. Q + n \in Nat /\ m + z = e + z
      BY <1>3, <2>1
    <3> HIDE DEF z
    <3> QED BY <3>1, <3>2 DEF Level, size
  <2> HIDE DEF z, put
  <2> QED BY <1>3, <2>10, <2>11, Going
<1> QED BY <1>8, <1>9, <1>10

-----------------------------------------------------------------------------
(* FirFilter                                                               *)

\* It takes as many samples as its outputs are apart, and leaves those that the
\* next output needs too.
LEMMA FirFilterDoes ==
  ASSUME NEW c, NEW e, NEW f, NEW m, NEW room \in Nat, Stands(c, e, f, m), c.block = "FirFilter",
         NEW w, w = Sees(c, e, f), NEW r, r = Rooms(room), NEW s, s = StAt(c, e),
         NEW d, d = FirFilterWork(c.par, s, w, r)
  PROVE  Does(c, e, f, m, room, d)
<1> DEFINE len == f - e
           taps == c.par.taps
           deci == c.par.deci
           ntaps == Len(taps)
           D == ToSet(In(c))
           x == w[1].v
           n == Smaller((len - ntaps + 1) \div deci, room)
           out == [k \in 1..n |-> Filtered(taps, x, (k - 1) * deci + 1)]
<1>1. /\ c \in Cases /\ c.block \in Ordered /\ e \in Nat /\ f \in Nat /\ m \in Nat /\ e <= f
      /\ f <= Len(In(c)) /\ In(c) \in Seq(D) /\ Seeing(c, e, f, w) /\ r[1] = room /\ len \in Nat
  <2>1. /\ c \in Cases /\ c.block \in Ordered /\ e \in Nat /\ f \in Nat /\ m \in Nat /\ e <= f
        /\ f <= Len(In(c)) /\ In(c) \in Seq(D) /\ Seeing(c, e, f, w) /\ r[1] = room
    BY StandsIs
  <2> QED BY <2>1
<1>2. taps \in Seq(Int) /\ taps # <<>> /\ deci \in Nat \ {0}
  BY <1>1, OrderedIs DEF OrderedPar
<1>3. ntaps \in Nat /\ ntaps > 0 /\ DOMAIN taps = 1..ntaps
  BY <1>2
<1>4. e = deci * m /\ s = StAt(c, e) /\ Asks(c) /\ Need(c) = ntaps + deci - 1 /\ Ask(c) = 1
  BY DEF Stands, Level, Asks, Need, Ask
<1>5. Len(x) = len /\ (\A j \in 1..len : x[j] = In(c)[e + j]) /\ w[1].t = {}
  BY <1>1 DEF Seeing, Stands, Plainly
<1>6. \A k : Item(c, k) = Convolution(taps, In(c), (k - 1) * deci + ntaps)
  BY DEF Item
<1>7. \A g_ : StAt(c, e + g_) = s
  BY DEF StAt
<1> HIDE DEF taps, deci, D, x
<1>71. ~(len < ntaps + deci - 1) => MostAsserted(c.par, len, (len - ntaps + 1) \div deci)
  <2> SUFFICES ASSUME ~(len < ntaps + deci - 1) PROVE MostAsserted(c.par, len, (len - ntaps + 1) \div deci)
    OBVIOUS
  <2> DEFINE h == len - ntaps + 1
             t == h \div deci
  <2>1. h \in Nat /\ h >= deci /\ h + ntaps - 1 = len
    BY <1>1, <1>2, <1>3
  <2> HIDE DEF h
  <2>2. t \in Nat /\ t > 0 /\ t * deci <= h /\ t * deci \in Nat
    BY <1>2, <2>1
  <2> HIDE DEF t
  <2>3. t * deci + ntaps - 1 <= len
    BY <1>1, <1>3, <2>1, <2>2
  <2>4. MostAsserted(c.par, len, t)
    BY <2>2, <2>3 DEF MostAsserted, taps, deci
  <2> QED BY <2>4 DEF t, h
<1>72. ~(len < ntaps + deci - 1) /\ room # 0 => FitAsserted(c.par, (len - ntaps + 1) \div deci, n, room)
  <2> SUFFICES ASSUME ~(len < ntaps + deci - 1), room # 0 PROVE FitAsserted(c.par, (len - ntaps + 1) \div deci, n, room)
    OBVIOUS
  <2> DEFINE h == len - ntaps + 1
             t == h \div deci
  <2>1. h \in Nat /\ h >= deci
    BY <1>1, <1>2, <1>3
  <2> HIDE DEF h
  <2>2. t \in Nat /\ t > 0
    BY <1>2, <2>1
  <2>3. n = Smaller(t, room)
    BY DEF h
  <2> HIDE DEF t, n
  <2>4. n \in Nat /\ n > 0 /\ n <= room /\ n <= t
    BY <2>2, <2>3 DEF Smaller
  <2>5. \A k \in 1..n : (k - 1) * deci + ntaps <= t * deci + ntaps - 1
    <3> SUFFICES ASSUME NEW k \in 1..n PROVE (k - 1) * deci + ntaps <= t * deci + ntaps - 1
      OBVIOUS
    <3>1. k - 1 \in Nat /\ k \in Nat /\ k <= t
      BY <2>2, <2>4
    <3>2. k * deci <= t * deci /\ k * deci \in Nat /\ t * deci \in Nat
      BY <1>2, <2>2, <3>1
    <3>3. (k - 1) * deci = k * deci - deci
      BY <1>2, <3>1
    <3> QED BY <1>2, <1>3, <3>2, <3>3
  <2>6. FitAsserted(c.par, t, n, room)
    BY <2>4, <2>5 DEF FitAsserted, taps, deci
  <2> QED BY <2>6 DEF t, h
<1>8. d = IF len < ntaps + deci - 1 THEN Nothing(s, w, r, WaitIn(1, ntaps + deci - 1))
          ELSE IF room = 0 THEN Nothing(s, w, r, WaitOut(1, 1))
          ELSE Moved(s, n * deci, out, {}, Again)
  <2>1. { <<(p[1] - 1) \div deci + 1, p[2]>> : p \in w[1].t } = {}
    BY <1>5
  <2> DEFINE most == (Len(x) - ntaps + 1) \div deci
             k == Smaller(most, r[1])
             puts == [j \in 1..k |-> Filtered(taps, x, (j - 1) * deci + 1)]
             tags == { <<(p[1] - 1) \div deci + 1, p[2]>> : p \in w[1].t }
  <2>2. d = IF Len(x) < ntaps + deci - 1 THEN Nothing(s, w, r, WaitIn(1, ntaps + deci - 1))
            ELSE IF ~MostAsserted(c.par, Len(x), most) THEN Nothing(s, w, r, Panic)
            ELSE IF r[1] = 0 THEN Nothing(s, w, r, WaitOut(1, 1))
            ELSE IF ~FitAsserted(c.par, most, k, r[1]) THEN Nothing(s, w, r, Panic)
            ELSE Moved(s, k * deci, puts, tags, Again)
    BY DEF FirFilterWork, taps, deci, x
  <2>3. Len(x) = len /\ r[1] = room
    BY <1>1, <1>5
  <2>4. most = (len - ntaps + 1) \div deci /\ k = n
    BY <2>3
  <2>5. puts = out
    <3> HIDE DEF k, n
    <3> QED BY <2>4
  <2> HIDE DEF most, k, n, puts, out, tags
  <2>6. tags = {}
    BY <2>1, Zenon DEF tags
  <2> QED BY <1>71, <1>72, <2>2, <2>3, <2>4, <2>5, <2>6
<1>9. CASE len < ntaps + deci - 1
  <2>1. d = Nothing(StAt(c, e), w, r, WaitIn(1, Need(c))) /\ f - e < Need(c)
    BY <1>4, <1>8, <1>9
  <2> QED BY <2>1, Idling
<1>10. CASE ~(len < ntaps + deci - 1) /\ room = 0
  <2>1. d = Nothing(StAt(c, e), w, r, WaitOut(1, Ask(c))) /\ room < Ask(c)
    BY <1>4, <1>8, <1>10
  <2> QED BY <1>4, <2>1, Idling
<1>11. CASE ~(len < ntaps + deci - 1) /\ room # 0
  <2>1. n \in Nat /\ n > 0 /\ n <= room /\ n * deci \in Nat /\ n * deci > 0 /\ n * deci <= len - ntaps + 1
    <3> DEFINE h == len - ntaps + 1
               t == h \div deci
    <3>1. h \in Nat /\ h >= deci
      BY <1>1, <1>2, <1>3, <1>11
    <3> HIDE DEF h
    <3>2. t \in Nat /\ t > 0 /\ t * deci <= h
      BY <1>2, <3>1
    <3>3. n = Smaller(t, room)
      BY DEF h
    <3> HIDE DEF t, n
    <3>4. n \in Nat /\ n > 0 /\ n <= room /\ n <= t
      BY <1>11, <3>2, <3>3 DEF Smaller
    <3>5. n * deci \in Nat /\ n * deci > 0 /\ n * deci <= t * deci
      BY <1>2, <3>2, <3>4
    <3>6. n * deci <= h
      BY <1>2, <3>1, <3>2, <3>4, <3>5
    <3> QED BY <3>4, <3>5, <3>6 DEF h
  <2>2. d = Moved(StAt(c, e + n * deci), n * deci, out, {}, Again)
    BY <1>7, <1>8, <1>11
  <2>3. \A k \in 1..n : Filtered(taps, x, (k - 1) * deci + 1) = Item(c, m + k)
    <3> HIDE DEF n
    <3> SUFFICES ASSUME NEW k \in 1..n PROVE Filtered(taps, x, (k - 1) * deci + 1) = Item(c, m + k)
      OBVIOUS
    <3> DEFINE a == (k - 1) * deci
    <3>1. a \in Nat /\ a + deci <= n * deci /\ ((m + k) - 1) * deci = e + a
      <4>1. k - 1 \in Nat /\ k <= n
        BY <2>1
      <4>2. a \in Nat /\ a + deci = k * deci
        BY <1>2, <4>1
      <4>3. k * deci <= n * deci
        BY <1>2, <2>1, <4>1
      <4>4. ((m + k) - 1) * deci = m * deci + a
        BY <1>1, <1>2, <4>1
      <4>5. m * deci = e
        BY <1>1, <1>2, <1>4
      <4> QED BY <4>2, <4>3, <4>4, <4>5
    <3> HIDE DEF a
    <3>2. \A j \in 1..ntaps : x[(a + 1) + ntaps - j] = At(In(c), ((e + a) + ntaps) - j + 1)
      <4> SUFFICES ASSUME NEW j \in 1..ntaps PROVE x[(a + 1) + ntaps - j] = At(In(c), ((e + a) + ntaps) - j + 1)
        OBVIOUS
      <4> DEFINE i == (a + 1) + ntaps - j
      <4>1. i \in 1..len /\ ((e + a) + ntaps) - j + 1 = e + i
        BY <1>1, <1>2, <1>3, <2>1, <3>1
      <4>2. x[i] = In(c)[e + i]
        BY <1>5, <4>1
      <4> HIDE DEF i
      <4>3. e + i \in 1..Len(In(c))
        BY <1>1, <4>1
      <4>4. At(In(c), e + i) = In(c)[e + i]
        BY <1>1, <4>3 DEF At
      <4>5. x[i] = At(In(c), e + i) /\ ((e + a) + ntaps) - j + 1 = e + i
        BY <4>1, <4>2, <4>4
      <4> QED BY <4>5, Zenon DEF i
    <3>3. Filtered(taps, x, a + 1) = Convolution(taps, In(c), (e + a) + ntaps)
      <4>1. [j \in DOMAIN taps |-> taps[j] * x[(a + 1) + ntaps - j]]
              = [j \in DOMAIN taps |-> taps[j] * At(In(c), ((e + a) + ntaps) - j + 1)]
        BY <1>3, <3>2
      <4> QED BY <4>1, Zenon DEF Filtered, Convolution
    <3>4. Item(c, m + k) = Convolution(taps, In(c), (e + a) + ntaps)
      BY <1>6, <3>1
    <3> QED BY <3>3, <3>4 DEF a
  <2> DEFINE z == n * deci
  <2>4. out = [k \in 1..n |-> Item(c, m + k)]
    <3> HIDE DEF n
    <3> QED BY <2>3
  <2>5. z \in Nat /\ z > 0 /\ e + z <= f /\ (e + z) + ntaps - 1 <= f
    BY <1>1, <1>3, <2>1
  <2>6. Level(c, e + z, f, m + n)
    <3>1. deci * (m + n) = e + z
      BY <1>1, <1>2, <1>4, <2>1
    <3> HIDE DEF z, n
    <3> QED BY <2>5, <3>1 DEF Level, deci, taps
  <2>7. d = Moved(StAt(c, e + z), z, out, {}, Again)
    BY <2>2
  <2> HIDE DEF z, out, n
  <2> QED BY <1>4, <2>1, <2>4, <2>5, <2>6, <2>7, Going
<1> QED BY <1>9, <1>10, <1>11

-----------------------------------------------------------------------------
(* Each of them together                                                   *)

\* None of these is a block of another kind.
LEMMA OrderedAlone ==
  ASSUME NEW b \in Ordered
  PROVE  /\ b \notin SyncNames /\ b \notin SignalSources /\ b \notin FileSinks /\ b \notin Generated
         /\ b \in {"Skip", "RtlSdrDecode", "FirFilter", "FftStream", "Hilbert", "DebugFilter",
                   "WriterSink", "PduWriter", "DebugSink", "DebugSinkNoCopy"}
  BY DEF Ordered, SyncNames, MathNames, SignalSources, FileSinks, Generated

\* What new() makes is where nothing was consumed yet,
LEMMA OrderedStart ==
  ASSUME NEW c \in Cases, c.block \in Ordered
  PROVE  Start(c) = StAt(c, 0) /\ Start(c) # NotBuilt /\ (Stands(c, 0, 0, 0) <=> Plainly(c))
<1>1. In(c) \in Seq(ToSet(In(c))) /\ Len(In(c)) \in Nat /\ OrderedPar(c.block, c.par)
  BY OrderedIs
<1>2. Start(c) = StAt(c, 0)
  <2>1. CASE c.block = "Skip"
    <3>1. Start(c) = [skip |-> c.par.skip]
      BY <2>1, OrderedAlone DEF Start
    <3>2. StAt(c, 0) = [skip |-> IF 0 < c.par.skip THEN c.par.skip - 0 ELSE 0]
      BY <2>1 DEF StAt
    <3>3. c.par.skip \in Nat
      BY <1>1, <2>1 DEF OrderedPar
    <3> QED BY <3>1, <3>2, <3>3
  <2>2. CASE c.block = "Hilbert"
    <3>1. Start(c) = [history |-> [j \in 1..c.par.ntaps |-> 0]]
      BY <2>2, OrderedAlone DEF Start, HilbertStart, Zeros
    <3>2. StAt(c, 0) = [history |-> [j \in 1..c.par.ntaps |-> At(In(c), 0 - c.par.ntaps + j)]]
      BY <2>2 DEF StAt
    <3>3. c.par.ntaps \in Nat
      BY <1>1, <2>2 DEF OrderedPar
    <3>4. \A j \in 1..c.par.ntaps : At(In(c), 0 - c.par.ntaps + j) = 0
      <4> SUFFICES ASSUME NEW j \in 1..c.par.ntaps PROVE At(In(c), 0 - c.par.ntaps + j) = 0
        OBVIOUS
      <4>1. 0 - c.par.ntaps + j \notin 1..Len(In(c))
        BY <3>3
      <4>2. DOMAIN In(c) = 1..Len(In(c))
        BY <1>1
      <4> QED BY <4>1, <4>2 DEF At
    <3> QED BY <3>1, <3>2, <3>4
  <2>3. CASE c.block = "PduWriter"
    BY <2>3, OrderedAlone DEF Start, StAt, PduWriterStart
  <2>4. CASE c.block \notin {"Skip", "Hilbert", "PduWriter"}
    BY <2>4, OrderedAlone DEF Start, StAt
  <2> QED BY <2>1, <2>2, <2>3, <2>4
<1>3. "built" \notin DOMAIN StAt(c, 0)
  BY OrderedAlone DEF StAt
<1>4. StAt(c, 0) # NotBuilt
  BY <1>3, Unbuilt
<1>5. Level(c, 0, 0, 0)
  <2>1. CASE c.block = "Skip"
    <3>1. c.par.skip \in Nat
      BY <1>1, <2>1 DEF OrderedPar
    <3> QED BY <2>1, <3>1 DEF Level
  <2>2. CASE c.block = "FirFilter"
    <3>1. c.par.deci \in Nat
      BY <1>1, <2>2 DEF OrderedPar
    <3> QED BY <2>2, <3>1 DEF Level
  <2>3. CASE c.block \in {"FftStream", "WriterSink"}
    <3>1. c.par.size \in Nat
      BY <1>1, <2>3 DEF OrderedPar
    <3>2. 0 = c.par.size * 0
      BY <3>1
    <3> QED BY <2>3, <3>2 DEF Level
  <2>4. CASE c.block \notin {"Skip", "FirFilter", "FftStream", "WriterSink"}
    BY <2>4, OrderedAlone DEF Level
  <2> QED BY <2>1, <2>2, <2>3, <2>4
<1>6. (Stands(c, 0, 0, 0) <=> Plainly(c))
  <2>1. 0 \in Nat /\ 0 <= 0 /\ 0 <= Len(In(c))
    BY <1>1
  <2> QED BY <1>5, <2>1 DEF Stands, Plainly
<1> QED BY <1>2, <1>4, <1>6

\* and work() goes on from where it stands.
LEMMA OrderedDoes ==
  ASSUME NEW c, NEW e, NEW f, NEW m, NEW room \in Nat, Stands(c, e, f, m),
         NEW w, w = Sees(c, e, f), NEW r, r = Rooms(room), NEW s, s = StAt(c, e),
         NEW d \in Outcomes(c.block, c.par, s, w, r)
  PROVE  Does(c, e, f, m, room, d)
<1>1. c.block \in Ordered
  BY DEF Stands, Plainly
<1>2. d = Worked(c.block, c.par, s, w, r)
  BY <1>1, OrderedAlone DEF Outcomes
<1>3. CASE c.block = "Skip"
  <2>1. d = SkipWork(c.par, s, w, r)
    BY <1>1, <1>2, <1>3, OrderedAlone DEF Worked
  <2> QED BY <1>3, <2>1, SkipDoes
<1>4. CASE c.block = "RtlSdrDecode"
  <2>1. d = RtlSdrDecodeWork(c.par, s, w, r)
    BY <1>1, <1>2, <1>4, OrderedAlone DEF Worked
  <2> QED BY <1>4, <2>1, RtlSdrDecodeDoes
<1>5. CASE c.block = "FirFilter"
  <2>1. d = FirFilterWork(c.par, s, w, r)
    BY <1>1, <1>2, <1>5, OrderedAlone DEF Worked
  <2> QED BY <1>5, <2>1, FirFilterDoes
<1>6. CASE c.block = "FftStream"
  <2>1. d = FftStreamWork(c.par, s, w, r)
    BY <1>1, <1>2, <1>6, OrderedAlone DEF Worked
  <2> QED BY <1>6, <2>1, FftStreamDoes
<1>7. CASE c.block = "Hilbert"
  <2>1. d = HilbertWork(c.par, s, w, r)
    BY <1>1, <1>2, <1>7, OrderedAlone DEF Worked
  <2> QED BY <1>7, <2>1, HilbertDoes
<1>8. CASE c.block = "WriterSink"
  <2>1. d = WriterSinkWork(c.par, s, w, r)
    BY <1>1, <1>2, <1>8, OrderedAlone DEF Worked
  <2> QED BY <1>8, <2>1, WriterSinkDoes
<1>9. CASE c.block \in {"DebugFilter", "DebugSink"}
  <2>1. d = IF c.block = "DebugFilter" THEN DebugFilterWork(c.par, s, w, r) ELSE DebugSinkWork(c.par, s, w, r)
    BY <1>1, <1>2, <1>9, OrderedAlone DEF Worked
  <2>2. DebugFilterWork(c.par, s, w, r) = DebugSinkWork(c.par, s, w, r)
    BY Zenon DEF DebugFilterWork, DebugSinkWork
  <2>3. d = DebugSinkWork(c.par, s, w, r)
    BY <2>1, <2>2, Zenon
  <2> QED BY <1>9, <2>3, DebugDoes
<1>10. CASE c.block \in {"DebugSinkNoCopy", "PduWriter"}
  <2>1. d = IF c.block = "PduWriter" THEN PduWriterWork(c.par, s, w, r) ELSE DebugSinkNoCopyWork(c.par, s, w, r)
    BY <1>1, <1>2, <1>10, OrderedAlone DEF Worked
  <2> QED BY <1>10, <2>1, PacketDoes
<1> QED BY <1>1, <1>3, <1>4, <1>5, <1>6, <1>7, <1>8, <1>9, <1>10, OrderedAlone

\* What has been written is never more than what came makes, and all of it when
\* there is less left than the block needs.
LEMMA DueIs ==
  ASSUME NEW c, NEW e, NEW f, NEW m, Stands(c, e, f, m)
  PROVE  /\ Due(c, f) \in Nat /\ m <= Due(c, f)
         /\ f - e < Need(c) => m = Due(c, f)
<1>1. c \in Cases /\ c.block \in Ordered /\ e \in Nat /\ f \in Nat /\ m \in Nat /\ e <= f
  BY StandsIs
<1>2. OrderedPar(c.block, c.par)
  BY <1>1, OrderedIs
<1>3. Level(c, e, f, m)
  BY DEF Stands
<1>4. CASE c.block = "Skip"
  <2> DEFINE skip == c.par.skip
  <2>1. skip \in Nat /\ Need(c) = 1 /\ m = (IF e <= skip THEN 0 ELSE e - skip)
        /\ Due(c, f) = IF f <= skip THEN 0 ELSE f - skip
    BY <1>2, <1>3, <1>4 DEF OrderedPar, Need, Level, Due
  <2> HIDE DEF skip
  <2> QED BY <1>1, <2>1
<1>5. CASE c.block = "RtlSdrDecode"
  <2>1. Need(c) = 2 /\ e = 2 * m /\ Due(c, f) = f \div 2
    BY <1>3, <1>5 DEF Need, Level, Due
  <2> QED BY <1>1, <2>1
<1>6. CASE c.block = "FirFilter"
  <2> DEFINE n == Len(c.par.taps)
             deci == c.par.deci
             h == f - n + 1
  <2>1. n \in Nat /\ n > 0 /\ deci \in Nat \ {0}
    <3>1. c.par.taps \in Seq(Int) \ {<<>>} /\ deci \in Nat \ {0}
      BY <1>2, <1>6 DEF OrderedPar
    <3> QED BY <3>1
  <2>2. Need(c) = n + deci - 1 /\ e = deci * m /\ (m > 0 => e + n - 1 <= f)
    BY <1>3, <1>6 DEF Need, Level
  <2>3. Due(c, f) = IF f < n THEN 0 ELSE h \div deci
    BY <1>6 DEF Due
  <2> HIDE DEF n, deci
  <2>4. CASE f < n
    <3>1. m = 0
      <4>1. m > 0 => e > 0
        BY <1>1, <2>1, <2>2
      <4> QED BY <1>1, <2>1, <2>2, <2>4, <4>1
    <3> QED BY <2>3, <2>4, <3>1
  <2>5. CASE ~(f < n)
    <3> DEFINE q == h \div deci
    <3>1. h \in Nat /\ h > 0 /\ e <= h
      BY <1>1, <2>1, <2>2, <2>5
    <3>2. f - e < n + deci - 1 => h < e + deci
      BY <1>1, <2>1
    <3> HIDE DEF h
    <3>3. q \in Nat /\ deci * q <= h /\ h < deci * (q + 1)
      BY <2>1, <3>1
    <3> HIDE DEF q
    <3>4. m <= q
      <4>1. deci * m < deci * (q + 1)
        <5>1. deci * m <= h /\ deci * m \in Int /\ deci * (q + 1) \in Int
          BY <1>1, <2>1, <2>2, <3>1, <3>3
        <5> QED BY <3>1, <3>3, <5>1
      <4>2. m < q + 1
        BY <1>1, <2>1, <3>3, <4>1
      <4> QED BY <1>1, <3>3, <4>2
    <3>5. h < e + deci => q <= m
      <4> SUFFICES ASSUME h < e + deci PROVE q <= m
        OBVIOUS
      <4>1. e + deci = deci * (m + 1)
        BY <1>1, <2>1, <2>2
      <4>2. deci * q < deci * (m + 1)
        BY <1>1, <2>1, <3>1, <3>3, <4>1
      <4>3. q < m + 1
        BY <1>1, <2>1, <3>3, <4>2
      <4> QED BY <1>1, <3>3, <4>3
    <3>6. Due(c, f) = q
      BY <2>3, <2>5 DEF q
    <3> QED BY <1>1, <2>2, <3>2, <3>3, <3>4, <3>5, <3>6
  <2> QED BY <2>4, <2>5
<1>7. CASE c.block = "FftStream"
  <2> DEFINE size == c.par.size
             q == f \div size
  <2>1. size \in Nat \ {0} /\ Need(c) = size /\ m = e /\ Due(c, f) = size * q
    BY <1>2, <1>3, <1>7 DEF OrderedPar, Need, Level, Due
  <2>2. PICK k \in Nat : m = size * k
    BY <1>3, <1>7 DEF Level
  <2> HIDE DEF size
  <2>3. q \in Nat /\ size * q <= f /\ f < size * (q + 1) /\ size * q \in Nat
    BY <1>1, <2>1
  <2> HIDE DEF q
  <2>4. k <= q
    <3>1. size * k < size * (q + 1)
      BY <1>1, <2>1, <2>2, <2>3
    <3>2. k < q + 1
      BY <2>1, <2>3, <3>1
    <3> QED BY <2>3, <3>2
  <2>5. m <= size * q
    BY <2>1, <2>2, <2>3, <2>4
  <2>6. f - e < size => q <= k
    <3> SUFFICES ASSUME f - e < size PROVE q <= k
      OBVIOUS
    <3>1. f < size * (k + 1)
      <4>1. size * (k + 1) = size * k + size
        BY <2>1
      <4> QED BY <1>1, <2>1, <2>2, <4>1
    <3>2. size * q < size * (k + 1)
      BY <1>1, <2>1, <2>3, <3>1
    <3>3. q < k + 1
      BY <2>1, <2>3, <3>2
    <3> QED BY <2>3, <3>3
  <2>7. f - e < size => q = k
    BY <2>3, <2>4, <2>6
  <2> QED BY <2>1, <2>2, <2>3, <2>5, <2>7
<1>8. CASE c.block = "WriterSink"
  <2> DEFINE size == c.par.size
  <2>1. size \in Nat \ {0} /\ Need(c) = 1 /\ m = size * e /\ Due(c, f) = size * f
    BY <1>2, <1>3, <1>8 DEF OrderedPar, Need, Level, Due
  <2> HIDE DEF size
  <2>2. size * f \in Nat /\ size * e <= size * f
    BY <1>1, <2>1
  <2>3. f - e < 1 => e = f
    BY <1>1
  <2> QED BY <2>1, <2>2, <2>3
<1>9. CASE c.block \notin {"Skip", "RtlSdrDecode", "FirFilter", "FftStream", "WriterSink"}
  <2>1. Need(c) = 1 /\ m = e /\ Due(c, f) = f
    BY <1>1, <1>3, <1>9, OrderedAlone DEF Need, Level, Due
  <2> QED BY <1>1, <2>1
<1> QED BY <1>4, <1>5, <1>6, <1>7, <1>8, <1>9

\* More input does not move it.
LEMMA StandsOn ==
  ASSUME NEW c, NEW e, NEW f, NEW m, Stands(c, e, f, m), NEW g \in Nat, f <= g, g <= Len(In(c))
  PROVE  Stands(c, e, g, m)
<1>1. c \in Cases /\ Plainly(c) /\ e \in Nat /\ f \in Nat /\ m \in Nat /\ e <= f /\ Level(c, e, f, m)
  BY DEF Stands
<1>2. Level(c, e, g, m)
  <2>1. CASE c.block = "FirFilter"
    <3> DEFINE n == Len(c.par.taps)
    <3>1. n \in Nat
      <4>1. OrderedPar(c.block, c.par)
        BY <1>1, OrderedIs DEF Plainly
      <4>2. c.par.taps \in Seq(Int)
        BY <2>1, <4>1 DEF OrderedPar
      <4> QED BY <4>2
    <3>2. e = c.par.deci * m /\ (m > 0 => e + n - 1 <= f)
      BY <1>1, <2>1 DEF Level
    <3> HIDE DEF n
    <3>3. m > 0 => e + n - 1 <= g
      BY <1>1, <3>1, <3>2
    <3> QED BY <2>1, <3>2, <3>3 DEF Level, n
  <2>2. CASE c.block # "FirFilter"
    BY <1>1, <2>2 DEF Level
  <2> QED BY <2>1, <2>2
<1>3. e <= g
  BY <1>1
<1> QED BY <1>1, <1>2, <1>3 DEF Stands

-----------------------------------------------------------------------------
(* What each of them is to make of its input, item by item                 *)

\* The start of the input, as it is promised of
LEMMA StartOf ==
  ASSUME NEW c \in Cases, Plainly(c), NEW f \in Nat, f <= Len(In(c)), NEW x, x = Sees(c, 0, f)
  PROVE  /\ In(c) \in Seq(ToSet(In(c))) /\ Len(In(c)) \in Nat /\ OrderedPar(c.block, c.par)
         /\ x[1].v \in Seq(ToSet(In(c))) /\ Len(x[1].v) = f /\ DOMAIN x[1].v = 1..f
         /\ x[1].v = SubSeq(In(c), 0 + 1, f)
         /\ \A k \in 1..f : x[1].v[k] = In(c)[k] /\ TagsAt(x[1], k) = TagsAt(c.given[1], k)
<1>1. In(c) \in Seq(ToSet(In(c))) /\ Len(In(c)) \in Nat /\ OrderedPar(c.block, c.par) /\ c.block \in Ordered
  BY OrderedIs DEF Plainly
<1>2. Seeing(c, 0, f, x)
  BY <1>1, SeesIs
<1>3. f - 0 = f /\ \A k \in 1..f : 0 + k = k
  OBVIOUS
<1>4. /\ x[1].v \in Seq(ToSet(In(c))) /\ Len(x[1].v) = f /\ x[1].v = SubSeq(In(c), 0 + 1, f)
      /\ \A k \in 1..f : x[1].v[k] = In(c)[k] /\ TagsAt(x[1], k) = TagsAt(c.given[1], k)
  BY <1>2, <1>3 DEF Seeing
<1>5. DOMAIN x[1].v = 1..f
  BY <1>4
<1> QED BY <1>1, <1>4, <1>5

LEMMA SkipMeans ==
  ASSUME NEW c \in Cases, Plainly(c), NEW f \in Nat, f <= Len(In(c)), c.block = "Skip"
  PROVE  Means(c, f)
<1> DEFINE skip == c.par.skip
           n == IF f <= skip THEN 0 ELSE f - skip
           D == ToSet(In(c))
<1>1. PICK x : x = Sees(c, 0, f)
  OBVIOUS
<1>2. x[1].v \in Seq(D) /\ Len(x[1].v) = f /\ \A k \in 1..f : x[1].v[k] = In(c)[k]
  BY <1>1, StartOf
<1>3. skip \in Nat
  BY <1>1, StartOf DEF OrderedPar
<1>4. Due(c, f) = n /\ \A k : Item(c, k) = In(c)[skip + k]
  BY DEF Due, Item
<1>5. Meaning(c.block, c.par, x) = <<Plain(Drop(x[1].v, skip))>>
  BY DEF Meaning
<1> HIDE DEF skip, D
<1>6. Drop(x[1].v, skip) = [k \in 1..n |-> In(c)[skip + k]]
  <2> DEFINE y == x[1].v
  <2>1. y \in Seq(D) /\ Len(y) = f /\ \A k \in 1..f : y[k] = In(c)[k]
    BY <1>2
  <2> HIDE DEF y
  <2>2. SubSeq(y, skip + 1, f) \in Seq(D) /\ Len(SubSeq(y, skip + 1, f)) = n
    BY <1>3, <2>1
  <2>3. \A k \in 1..n : SubSeq(y, skip + 1, f)[k] = In(c)[skip + k]
    <3> SUFFICES ASSUME NEW k \in 1..n PROVE SubSeq(y, skip + 1, f)[k] = In(c)[skip + k]
      OBVIOUS
    <3>1. skip + k \in 1..f /\ (skip + 1) + k - 1 = skip + k
      BY <1>3
    <3>2. SubSeq(y, skip + 1, f)[k] = y[skip + k]
      BY <1>3, <2>1, <2>2, <3>1
    <3> QED BY <2>1, <3>1, <3>2
  <2>4. SubSeq(y, skip + 1, f) = [k \in 1..n |-> SubSeq(y, skip + 1, f)[k]]
    <3> DEFINE z == SubSeq(y, skip + 1, f)
    <3> HIDE DEF z, n
    <3>1. z = [k \in 1..n |-> z[k]]
      BY <2>2, ItemsAre DEF z
    <3> QED BY <3>1 DEF z
  <2> HIDE DEF n
  <2> QED BY <2>1, <2>3, <2>4 DEF Drop, y
<1> HIDE DEF n
<1>7. Drop(x[1].v, skip) = Items(c, Due(c, f))
  BY <1>4, <1>6 DEF Items
<1> QED BY <1>1, <1>5, <1>7 DEF Means

LEMMA RtlSdrDecodeMeans ==
  ASSUME NEW c \in Cases, Plainly(c), NEW f \in Nat, f <= Len(In(c)), c.block = "RtlSdrDecode"
  PROVE  Means(c, f)
<1> DEFINE n == f \div 2
<1>1. PICK x : x = Sees(c, 0, f)
  OBVIOUS
<1>2. Len(x[1].v) = f /\ \A k \in 1..f : x[1].v[k] = In(c)[k]
  BY <1>1, StartOf
<1>3. Due(c, f) = n /\ \A k : Item(c, k) = <<In(c)[2 * k - 1], In(c)[2 * k]>>
  BY DEF Due, Item
<1>4. Meaning(c.block, c.par, x) = <<Plain(Pairs(x[1].v))>>
  BY DEF Meaning
<1>5. Pairs(x[1].v) = [k \in 1..n |-> <<x[1].v[2 * k - 1], x[1].v[2 * k]>>]
  BY <1>2 DEF Pairs
<1>6. ASSUME NEW k \in 1..n PROVE <<x[1].v[2 * k - 1], x[1].v[2 * k]>> = Item(c, k)
  <2>1. 2 * k - 1 \in 1..f /\ 2 * k \in 1..f
    OBVIOUS
  <2> QED BY <1>2, <1>3, <2>1
<1>7. Pairs(x[1].v) = Items(c, Due(c, f))
  <2> HIDE DEF n
  <2> QED BY <1>3, <1>5, <1>6 DEF Items
<1> QED BY <1>1, <1>4, <1>7 DEF Means

LEMMA FirFilterMeans ==
  ASSUME NEW c \in Cases, Plainly(c), NEW f \in Nat, f <= Len(In(c)), c.block = "FirFilter"
  PROVE  Means(c, f)
<1> DEFINE taps == c.par.taps
           deci == c.par.deci
           ntaps == Len(taps)
           h == f - ntaps + 1
           n == IF f < ntaps THEN 0 ELSE h \div deci
           k_(m) == (m - 1) * deci + ntaps
<1>1. PICK x : x = Sees(c, 0, f)
  OBVIOUS
<1>2. /\ Len(x[1].v) = f /\ DOMAIN x[1].v = 1..f /\ (\A k \in 1..f : x[1].v[k] = In(c)[k])
      /\ DOMAIN In(c) = 1..Len(In(c)) /\ Len(In(c)) \in Nat
  <2>1. In(c) \in Seq(ToSet(In(c)))
    BY <1>1, StartOf
  <2>2. DOMAIN In(c) = 1..Len(In(c))
    BY <2>1
  <2> QED BY <1>1, <2>2, StartOf
<1>3. taps \in Seq(Int) /\ taps # <<>> /\ deci \in Nat \ {0}
  BY <1>1, StartOf DEF OrderedPar
<1>4. ntaps \in Nat /\ ntaps > 0 /\ DOMAIN taps = 1..ntaps
  BY <1>3
<1>5. Due(c, f) = n /\ \A m : Item(c, m) = Convolution(taps, In(c), k_(m))
  BY DEF Due, Item
<1>6. Meaning(c.block, c.par, x) = <<Plain([m \in 1..n |-> Convolution(taps, x[1].v, k_(m))])>>
  BY <1>2 DEF Meaning, FirFilterMeaning, Whole
<1> HIDE DEF taps, deci
<1>7. ASSUME NEW m \in 1..n PROVE Convolution(taps, x[1].v, k_(m)) = Item(c, m)
  <2>1. k_(m) \in Nat /\ k_(m) >= ntaps /\ k_(m) <= f
    <3>1. h \in Nat /\ n = h \div deci /\ h > 0
      BY <1>4
    <3>2. n \in Nat /\ deci * n <= h
      <4> HIDE DEF h
      <4> QED BY <1>3, <3>1
    <3> HIDE DEF n
    <3>3. m - 1 \in Nat /\ m <= n
      BY <3>2
    <3>4. (m - 1) * deci \in Nat /\ (m - 1) * deci + deci = deci * m
      BY <1>3, <3>3
    <3>5. deci * m <= deci * n
      BY <1>3, <3>2, <3>3
    <3>6. (m - 1) * deci + deci <= h
      <4>1. deci * n \in Int /\ deci * m \in Int
        BY <1>3, <3>2, <3>3
      <4> QED BY <3>1, <3>2, <3>4, <3>5, <4>1
    <3> QED BY <1>3, <1>4, <3>4, <3>6
  <2> DEFINE k == k_(m)
  <2>2. k \in Nat /\ k >= ntaps /\ k <= f
    BY <2>1
  <2> HIDE DEF k
  <2>3. \A j \in 1..ntaps : At(x[1].v, k - j + 1) = At(In(c), k - j + 1)
    <3> SUFFICES ASSUME NEW j \in 1..ntaps PROVE At(x[1].v, k - j + 1) = At(In(c), k - j + 1)
      OBVIOUS
    <3>1. k - j + 1 \in 1..f /\ k - j + 1 \in 1..Len(In(c))
      BY <1>2, <1>4, <2>2
    <3> QED BY <1>2, <3>1 DEF At
  <2>4. [j \in DOMAIN taps |-> taps[j] * At(x[1].v, k - j + 1)] = [j \in DOMAIN taps |-> taps[j] * At(In(c), k - j + 1)]
    BY <1>4, <2>3
  <2>5. Convolution(taps, x[1].v, k) = Convolution(taps, In(c), k)
    BY <2>4, Zenon DEF Convolution
  <2> QED BY <1>5, <2>5 DEF k
<1> HIDE DEF n, k_
<1>8. [m \in 1..n |-> Convolution(taps, x[1].v, k_(m))] = Items(c, Due(c, f))
  BY <1>5, <1>7 DEF Items
<1> QED BY <1>1, <1>6, <1>8 DEF Means

LEMMA FftStreamMeans ==
  ASSUME NEW c \in Cases, Plainly(c), NEW f \in Nat, f <= Len(In(c)), c.block = "FftStream"
  PROVE  Means(c, f)
<1> DEFINE size == c.par.size
           n == size * (f \div size)
           part(v, k) == <<k - First(size, k), SubSeq(v, First(size, k) + 1, First(size, k) + size)>>
           D == ToSet(In(c))
<1>1. PICK x : x = Sees(c, 0, f)
  OBVIOUS
<1>2. x[1].v = SubSeq(In(c), 0 + 1, f) /\ Len(x[1].v) = f /\ In(c) \in Seq(D) /\ Len(In(c)) \in Nat
  BY <1>1, StartOf
<1>3. size \in Nat \ {0}
  BY <1>1, StartOf DEF OrderedPar
<1>4. Due(c, f) = n /\ \A k : Item(c, k) = part(In(c), k)
  BY DEF Due, Item
<1>5. Meaning(c.block, c.par, x) = <<Plain([k \in 1..n |-> part(x[1].v, k)])>>
  BY <1>2 DEF Meaning, FftStreamMeaning, Whole, First
<1> HIDE DEF size, D
<1>6. ASSUME NEW k \in 1..n PROVE part(x[1].v, k) = Item(c, k)
  <2> DEFINE a == First(size, k)
             b == a + size
  <2>1. a \in Nat /\ b <= f
    <3> DEFINE q == f \div size
    <3>1. q \in Nat /\ size * q <= f /\ size * q \in Nat
      BY <1>3
    <3>2. k \in 1..(size * q)
      OBVIOUS
    <3> HIDE DEF q, n
    <3>3. PICK p \in Nat, i \in 1..size : k = size * p + i
      <4>1. k \in Nat \ {0}
        BY <3>1, <3>2
      <4> QED BY <1>3, <4>1, DivExists
    <3>4. size * p \in Nat /\ size * (p + 1) = size * p + size /\ First(size, k) = size * p
      BY <1>3, <3>3, DivIs
    <3>5. size * p < size * q
      BY <1>3, <3>1, <3>2, <3>3, <3>4
    <3>6. p < q
      BY <1>3, <3>1, <3>3, <3>5
    <3>7. size * (p + 1) <= size * q
      BY <1>3, <3>1, <3>3, <3>6
    <3> QED BY <1>3, <3>1, <3>4, <3>7
  <2> HIDE DEF a
  <2>2. b \in Nat /\ a <= b /\ 0 + b <= f /\ 0 \in Nat /\ 0 <= f
    BY <1>3, <2>1
  <2>3. 0 + a + 1 = a + 1 /\ 0 + b = b
    BY <2>1, <2>2
  <2> HIDE DEF b
  <2>4. SubSeq(SubSeq(In(c), 0 + 1, f), a + 1, b) = SubSeq(In(c), 0 + a + 1, 0 + b)
    BY <1>2, <2>1, <2>2, PartIs
  <2>5. SubSeq(x[1].v, a + 1, b) = SubSeq(In(c), a + 1, b)
    BY <1>2, <2>3, <2>4
  <2>6. part(x[1].v, k) = part(In(c), k)
    BY <2>5 DEF a, b
  <2> HIDE DEF part
  <2> QED BY <1>4, <2>6
<1> HIDE DEF n, part
<1>7. [k \in 1..n |-> part(x[1].v, k)] = Items(c, Due(c, f))
  BY <1>4, <1>6 DEF Items
<1> QED BY <1>1, <1>5, <1>7 DEF Means

LEMMA HilbertMeans ==
  ASSUME NEW c \in Cases, Plainly(c), NEW f \in Nat, f <= Len(In(c)), c.block = "Hilbert"
  PROVE  Means(c, f)
<1> DEFINE taps == c.par.ntaps
           past(v, k) == [j \in 1..taps |-> At(v, k - taps - 1 + j)]
<1>1. PICK x : x = Sees(c, 0, f)
  OBVIOUS
<1>2. /\ Len(x[1].v) = f /\ DOMAIN x[1].v = 1..f /\ (\A k \in 1..f : x[1].v[k] = In(c)[k])
      /\ DOMAIN In(c) = 1..Len(In(c)) /\ Len(In(c)) \in Nat
  <2>1. In(c) \in Seq(ToSet(In(c)))
    BY <1>1, StartOf
  <2>2. DOMAIN In(c) = 1..Len(In(c))
    BY <2>1
  <2> QED BY <1>1, <2>2, StartOf
<1>3. taps \in Nat
  BY <1>1, StartOf DEF OrderedPar
<1>4. Due(c, f) = f /\ \A k : Item(c, k) = past(In(c), k)
  BY DEF Due, Item
<1>5. Meaning(c.block, c.par, x) = <<Plain([k \in 1..f |-> past(x[1].v, k)])>>
  BY <1>2 DEF Meaning, HilbertMeaning, Whole
<1> HIDE DEF taps
<1>6. ASSUME NEW k \in 1..f PROVE past(x[1].v, k) = Item(c, k)
  <2>1. ASSUME NEW j \in 1..taps PROVE At(x[1].v, k - taps - 1 + j) = At(In(c), k - taps - 1 + j)
    <3> DEFINE i == k - taps - 1 + j
    <3>1. i \in Int /\ i <= f /\ (i \in 1..f <=> i \in 1..Len(In(c)))
      BY <1>2, <1>3
    <3> HIDE DEF i
    <3>2. At(x[1].v, i) = At(In(c), i)
      BY <1>2, <3>1 DEF At
    <3> QED BY <3>2 DEF i
  <2>2. past(x[1].v, k) = past(In(c), k)
    BY <2>1
  <2> HIDE DEF past
  <2> QED BY <1>4, <2>2
<1> HIDE DEF past
<1>7. [k \in 1..f |-> past(x[1].v, k)] = Items(c, Due(c, f))
  BY <1>4, <1>6 DEF Items
<1> QED BY <1>1, <1>5, <1>7 DEF Means

\* A sink or filter that takes one after the other makes of the whole input what
\* it does in one call.
LEMMA OneByOneMeans ==
  ASSUME NEW c \in Cases, Plainly(c), NEW f \in Nat, f <= Len(In(c)),
         c.block \in {"WriterSink", "DebugFilter", "DebugSink", "DebugSinkNoCopy", "PduWriter"}
  PROVE  Means(c, f)
<1>1. PICK x : x = Sees(c, 0, f)
  OBVIOUS
<1>2. Len(x[1].v) = f /\ DOMAIN x[1].v = 1..f /\ x[1].v \in Seq(ToSet(In(c)))
      /\ \A k \in 1..f : x[1].v[k] = In(c)[k] /\ TagsAt(x[1], k) = TagsAt(c.given[1], k)
  BY <1>1, StartOf
<1>3. CASE c.block = "WriterSink"
  <2> DEFINE d == WriterSinkWork(c.par, StAt(c, 0), x, Rooms(0))
             put == AllSerialized(x[1].v, c.par.size)
  <2>1. Stands(c, 0, f, 0)
    <3>1. Stands(c, 0, 0, 0) /\ 0 \in Nat /\ 0 <= f
      <4>1. c.block \in Ordered
        BY DEF Plainly
      <4>2. Stands(c, 0, 0, 0)
        BY <4>1, OrderedStart
      <4> QED BY <4>2
    <3> QED BY <3>1, StandsOn
  <2>2. Does(c, 0, f, 0, 0, d)
    <3> HIDE DEF d
    <3>1. 0 \in Nat /\ d = WriterSinkWork(c.par, StAt(c, 0), x, Rooms(0))
      BY DEF d
    <3> QED BY <1>1, <1>3, <2>1, <3>1, WriterSinkDoes
  <2>3. d.eat[1] = f /\ d.put[1] = put
    BY <1>2 DEF WriterSinkWork, Moved, Did
  <2> HIDE DEF d, put
  <2>4. PICK g, k \in Nat : Goes(c, 0, f, 0, 0, d, g, k)
    BY <2>2 DEF Does
  <2>5. g = f /\ put = [j \in 1..k |-> Item(c, 0 + j)] /\ Level(c, 0 + f, f, 0 + k)
    BY <2>3, <2>4 DEF Goes
  <2>6. k = Due(c, f)
    BY <1>3, <2>5 DEF Level, Due
  <2>7. put = Items(c, Due(c, f))
    <3>1. \A j \in 1..k : 0 + j = j
      OBVIOUS
    <3> QED BY <2>5, <2>6, <3>1 DEF Items
  <2>8. Meaning(c.block, c.par, x) = <<Plain(put)>>
    BY <1>3 DEF Meaning, put
  <2> QED BY <1>1, <2>7, <2>8 DEF Means
<1>4. CASE c.block \in {"DebugFilter", "DebugSink"}
  <2>1. Due(c, f) = f /\ \A k : Item(c, k) = <<In(c)[k], TagsAt(c.given[1], k)>>
    BY <1>4 DEF Due, Item
  <2>2. Meaning(c.block, c.par, x) = <<Plain([k \in 1..f |-> <<x[1].v[k], TagsAt(x[1], k)>>])>>
    BY <1>2, <1>4 DEF Meaning, Whole
  <2>3. [k \in 1..f |-> <<x[1].v[k], TagsAt(x[1], k)>>] = Items(c, Due(c, f))
    BY <1>2, <2>1 DEF Items
  <2> QED BY <1>1, <2>2, <2>3 DEF Means
<1>5. CASE c.block = "DebugSinkNoCopy"
  <2>1. Due(c, f) = f /\ \A k : Item(c, k) = In(c)[k]
    BY <1>5 DEF Due, Item
  <2>2. Meaning(c.block, c.par, x) = <<Plain(x[1].v)>>
    BY <1>5 DEF Meaning
  <2>3. x[1].v = Items(c, Due(c, f))
    <3>1. x[1].v = [k \in 1..f |-> x[1].v[k]]
      BY <1>2
    <3> QED BY <1>2, <2>1, <3>1 DEF Items
  <2> QED BY <1>1, <2>2, <2>3 DEF Means
<1>6. CASE c.block = "PduWriter"
  <2>1. Due(c, f) = f /\ \A k : Item(c, k) = AllSerialized(In(c)[k], c.par.size)
    BY <1>6 DEF Due, Item
  <2>2. Meaning(c.block, c.par, x) = <<Plain([k \in 1..f |-> AllSerialized(x[1].v[k], c.par.size)])>>
    BY <1>2, <1>6 DEF Meaning, Whole
  <2>3. [k \in 1..f |-> AllSerialized(x[1].v[k], c.par.size)] = Items(c, Due(c, f))
    BY <1>2, <2>1 DEF Items
  <2> QED BY <1>1, <2>2, <2>3 DEF Means
<1> QED BY <1>3, <1>4, <1>5, <1>6

\* So each of them is to make its items, as many as the input makes.
LEMMA OrderedMeans ==
  ASSUME NEW c \in Cases, Plainly(c), NEW f \in Nat, f <= Len(In(c))
  PROVE  Expected(c.block, c.par, Sees(c, 0, f), {1}) = <<Plain(Items(c, Due(c, f)))>>
<1>1. c.block \in Ordered
  BY DEF Plainly
<1>2. Means(c, f)
  BY <1>1, OrderedAlone, SkipMeans, RtlSdrDecodeMeans, FirFilterMeans, FftStreamMeans, HilbertMeans, OneByOneMeans
<1>3. ASSUME NEW x PROVE Expected(c.block, c.par, x, {1}) = Meaning(c.block, c.par, x)
  <2>1. Available(c.block, c.par)
    BY <1>1, OrderedAlone DEF Available
  <2>2. Delivered(c.block, c.par, x) = Promise(c.block, c.par, x)
    BY <1>1, OrderedAlone DEF Delivered
  <2>3. Promise(c.block, c.par, x) = Meaning(c.block, c.par, x)
    BY <1>1, OrderedAlone DEF Promise
  <2> QED BY <2>1, <2>2, <2>3 DEF Expected
<1> QED BY <1>2, <1>3 DEF Means

-----------------------------------------------------------------------------
(* The invariant                                                           *)

\* What came, what was consumed, and what the next block took
FlowSound ==
  /\ eaten \in [{1} -> Nat] /\ fed \in [{1} -> Nat] /\ drained \in [{1} -> Nat]
  /\ fed[1] - eaten[1] <= case.cap[1]
  /\ drained[1] <= Len(made[1])
  /\ Asks(case) => Len(made[1]) - drained[1] <= case.room[1]

\* What was written, and the state of the block that wrote it
PlaceSound ==
  /\ Stands(case, eaten[1], fed[1], Len(made[1]))
  /\ made = [o \in {1} |-> Items(case, Len(made[1]))] /\ tagged = [o \in {1} |-> <<>>]
  /\ st = StAt(case, eaten[1])

\* What work() returned
BackSound ==
  /\ moved \in BOOLEAN
  /\ \/ ret = Again /\ moved
     \/ ret = WaitIn(1, Need(case))
     \/ ret = WaitOut(1, Ask(case)) /\ Asks(case)

OrderSound ==
  /\ "block" \in DOMAIN case
  /\ Plainly(case) => FlowSound /\ PlaceSound /\ BackSound

\* What is written is a sequence, and one part of it goes on from the other.
LEMMA ItemsIs ==
  ASSUME NEW c, NEW m \in Nat, NEW k \in Nat
  PROVE  /\ Len(Items(c, m)) = m /\ Items(c, 0) = <<>>
         /\ Items(c, m) \o [j \in 1..k |-> Item(c, m + j)] = Items(c, m + k)
         /\ IsPrefix(Items(c, m), Items(c, m + k))
<1> DEFINE f == [j \in Nat |-> Item(c, j)]
           a == [j \in 1..m |-> f[j]]
           b == [j \in 1..k |-> f[m + j]]
           z == [j \in 1..(m + k) |-> f[j]]
           D == { f[j] : j \in 1..(m + k) }
<1>1. a = Items(c, m) /\ z = Items(c, m + k) /\ b = [j \in 1..k |-> Item(c, m + j)]
  BY DEF Items
<1>2. Items(c, 0) = <<>>
  BY DEF Items
<1> HIDE DEF f
<1>3. a \o b = z
  BY JoinIs
<1>4. a \in Seq(D) /\ z \in Seq(D) /\ Len(a) = m /\ Len(z) = m + k /\ \A j \in 1..m : a[j] = z[j]
  OBVIOUS
<1> HIDE DEF a, b, z, D
<1>5. SubSeq(z, 1, Len(a)) = a
  BY <1>4
<1>6. IsPrefix(a, z)
  BY <1>4, <1>5 DEF IsPrefix
<1> QED BY <1>1, <1>2, <1>3, <1>4, <1>6

\* It holds in the beginning.
LEMMA OrderFirst ==
  ASSUME Init
  PROVE  OrderSound
<1>1. case \in Cases /\ "block" \in DOMAIN case
  BY CasesAssumption DEF Init
<1> SUFFICES ASSUME Plainly(case) PROVE FlowSound /\ PlaceSound /\ BackSound
  BY <1>1 DEF OrderSound
<1>2. case.block \in Ordered
  BY DEF Plainly
<1>3. Ins(case) = {1} /\ Outs(case) = {1} /\ case.cap[1] \in Nat /\ case.room[1] \in Nat
  BY <1>1, <1>2, OrderedIs
<1>4. fed = [i \in {1} |-> 0] /\ eaten = [i \in {1} |-> 0] /\ drained = [i \in {1} |-> 0]
        /\ made = [i \in {1} |-> <<>>] /\ tagged = [i \in {1} |-> <<>>] /\ moved = TRUE
  BY <1>3 DEF Init
<1>5. st = StAt(case, 0) /\ ret = Again /\ Stands(case, 0, 0, 0)
  BY <1>1, <1>2, OrderedStart DEF Init
<1>6. fed[1] = 0 /\ eaten[1] = 0 /\ drained[1] = 0 /\ made[1] = <<>> /\ Len(made[1]) = 0 /\ Items(case, 0) = <<>>
  BY <1>4, ItemsIs
<1>7. FlowSound
  BY <1>3, <1>4, <1>6 DEF FlowSound
<1>8. PlaceSound
  BY <1>4, <1>5, <1>6 DEF PlaceSound
<1> QED BY <1>4, <1>5, <1>7, <1>8 DEF BackSound

\* A call of work() that takes g samples and writes k items
Advances(g, k) ==
  /\ UNCHANGED <<case, fed, drained, tagged>>
  /\ st' = StAt(case, eaten[1] + g) /\ eaten' = [i \in {1} |-> eaten[1] + g]
  /\ made' = [o \in {1} |-> Items(case, Len(made[1]) + k)]
  /\ Stands(case, eaten[1] + g, fed[1], Len(made[1]) + k)
  /\ Asks(case) => k <= Free(1)
  /\ moved' \in BOOLEAN
  /\ \/ ret' = Again /\ moved'
     \/ ret' = WaitIn(1, Need(case)) /\ fed[1] - (eaten[1] + g) < Need(case)
     \/ ret' = WaitOut(1, Ask(case)) /\ Asks(case) /\ Free(1) - k < Ask(case)

LEMMA OrderAdvances ==
  ASSUME OrderSound, Plainly(case), Work
  PROVE  \E g, k \in Nat : Advances(g, k)
<1>1. FlowSound /\ PlaceSound /\ BackSound
  BY DEF OrderSound
<1>2. Stands(case, eaten[1], fed[1], Len(made[1])) /\ case \in Cases /\ case.block \in Ordered /\ Len(made[1]) \in Nat
  <2>1. Stands(case, eaten[1], fed[1], Len(made[1]))
    BY <1>1 DEF PlaceSound
  <2> QED BY <2>1 DEF Stands, Plainly
<1>3. Ins(case) = {1} /\ Outs(case) = {1} /\ case.room[1] \in Nat
  BY <1>2, OrderedIs
<1>4. Windows = Sees(case, eaten[1], fed[1])
  BY <1>3 DEF Windows, Sees
<1>5. Room = Rooms(Free(1))
  BY <1>3 DEF Room, Rooms
<1>6. Free(1) \in Nat
  BY <1>1, <1>2, <1>3 DEF Free, FlowSound
<1>7. PICK d \in Outcomes(case.block, case.par, st, Windows, Room) :
        /\ st' = d.st
        /\ eaten' = [i \in {1} |-> eaten[i] + d.eat[i]]
        /\ made' = [o \in {1} |-> made[o] \o d.put[o]]
        /\ tagged' = [o \in {1} |-> tagged[o] \o Placed(o, d.tags[o])]
        /\ ret' = d.ret
        /\ moved' = (<<st', eaten', made'>> # <<st, eaten, made>>)
  BY <1>3, Zenon DEF Work
<1>8. UNCHANGED <<case, fed, drained>>
  BY DEF Work
<1>9. Does(case, eaten[1], fed[1], Len(made[1]), Free(1), d)
  <2> DEFINE w == Windows
             r == Room
             s == st
             n == Free(1)
             e == eaten[1]
             f == fed[1]
             m == Len(made[1])
  <2>1. /\ Stands(case, e, f, m) /\ w = Sees(case, e, f) /\ r = Rooms(n) /\ s = StAt(case, e) /\ n \in Nat
        /\ d \in Outcomes(case.block, case.par, s, w, r)
    BY <1>1, <1>2, <1>4, <1>5, <1>6 DEF PlaceSound
  <2> HIDE DEF w, r, s, n, e, f, m
  <2>2. Does(case, e, f, m, n, d)
    BY <2>1, OrderedDoes
  <2> QED BY <2>2 DEF e, f, m, n
<1>10. PICK g, k \in Nat : Goes(case, eaten[1], fed[1], Len(made[1]), Free(1), d, g, k)
  BY <1>9 DEF Does
<1>11. /\ eaten[1] + g <= fed[1]
       /\ d.st = StAt(case, eaten[1] + g) /\ d.eat[1] = g /\ d.tags[1] = {}
       /\ d.put[1] = [j \in 1..k |-> Item(case, Len(made[1]) + j)]
       /\ Level(case, eaten[1] + g, fed[1], Len(made[1]) + k)
       /\ Asks(case) => k <= Free(1)
       /\ \/ d.ret = Again /\ g > 0
          \/ d.ret = WaitIn(1, Need(case)) /\ fed[1] - (eaten[1] + g) < Need(case)
          \/ d.ret = WaitOut(1, Ask(case)) /\ Asks(case) /\ Free(1) - k < Ask(case)
  BY <1>10 DEF Goes
<1>12. eaten' = [i \in {1} |-> eaten[1] + g] /\ st' = StAt(case, eaten[1] + g)
  BY <1>7, <1>11
<1>13. made' = [o \in {1} |-> Items(case, Len(made[1]) + k)]
  <2>1. made[1] = Items(case, Len(made[1]))
    BY <1>1 DEF PlaceSound
  <2>2. made[1] \o d.put[1] = Items(case, Len(made[1]) + k)
    <3> DEFINE m == Len(made[1])
    <3>1. Items(case, m) \o [j \in 1..k |-> Item(case, m + j)] = Items(case, m + k)
      <4>1. m \in Nat
        BY <1>2
      <4> HIDE DEF m
      <4> QED BY <4>1, ItemsIs
    <3>2. made[1] \o d.put[1] = Items(case, m) \o [j \in 1..k |-> Item(case, m + j)]
      BY <1>11, <2>1
    <3> QED BY <3>1, <3>2
  <2> QED BY <1>7, <2>2
<1>14. UNCHANGED tagged
  <2>1. Placed(1, {}) = <<>> /\ tagged = [o \in {1} |-> <<>>]
    BY <1>1, PlacedNone DEF PlaceSound
  <2>2. tagged[1] \o Placed(1, {}) = <<>>
    BY <2>1
  <2> QED BY <1>7, <1>11, <2>1, <2>2
<1>15. Stands(case, eaten[1] + g, fed[1], Len(made[1]) + k)
  <2>1. eaten[1] + g \in Nat /\ Len(made[1]) + k \in Nat
    BY <1>1, <1>2 DEF FlowSound
  <2> QED BY <1>2, <1>11, <2>1 DEF Stands
<1>16. g > 0 => moved'
  <2>1. eaten'[1] = eaten[1] + g /\ eaten[1] \in Nat
    BY <1>1, <1>12 DEF FlowSound
  <2>2. g > 0 => eaten' # eaten
    BY <2>1
  <2> QED BY <1>7, <2>2
<1>17. moved' \in BOOLEAN
  BY <1>7
<1>18. \/ ret' = Again /\ moved'
       \/ ret' = WaitIn(1, Need(case)) /\ fed[1] - (eaten[1] + g) < Need(case)
       \/ ret' = WaitOut(1, Ask(case)) /\ Asks(case) /\ Free(1) - k < Ask(case)
  BY <1>7, <1>11, <1>16
<1>19. Advances(g, k)
  BY <1>8, <1>11, <1>12, <1>13, <1>14, <1>15, <1>17, <1>18 DEF Advances
<1> QED BY <1>19

\* keeps the invariant,
LEMMA OrderWorked ==
  ASSUME OrderSound, Plainly(case), Work
  PROVE  OrderSound'
<1>1. FlowSound /\ PlaceSound /\ BackSound /\ "block" \in DOMAIN case
  BY DEF OrderSound
<1>2. PICK g, k \in Nat : Advances(g, k)
  BY OrderAdvances
<1>3. UNCHANGED <<case, fed, drained, tagged>>
  BY <1>2 DEF Advances
<1>4. Stands(case, eaten[1] + g, fed[1], Len(made[1]) + k)
  BY <1>2 DEF Advances
<1>5. /\ case \in Cases /\ case.block \in Ordered /\ eaten[1] + g \in Nat /\ Len(made[1]) + k \in Nat
      /\ eaten[1] \in Nat /\ fed[1] \in Nat /\ drained[1] \in Nat /\ Len(made[1]) \in Nat /\ eaten[1] + g <= fed[1]
  <2>1. /\ Stands(case, eaten[1], fed[1], Len(made[1])) /\ fed[1] \in Nat /\ eaten[1] \in Nat /\ drained[1] \in Nat
    BY <1>1 DEF PlaceSound, FlowSound
  <2>2. Len(made[1]) \in Nat
    BY <2>1 DEF Stands
  <2> QED BY <1>4, <2>1, <2>2 DEF Stands, Plainly
<1>6. case.room[1] \in Nat /\ case.cap[1] \in Nat
  BY <1>5, OrderedIs
<1>7. Len(Items(case, Len(made[1]) + k)) = Len(made[1]) + k
  <2> DEFINE m == Len(made[1]) + k
  <2>1. m \in Nat /\ 0 \in Nat
    BY <1>5
  <2> HIDE DEF m
  <2>2. Len(Items(case, m)) = m
    BY <2>1, ItemsIs
  <2> QED BY <2>2 DEF m
<1>8. made' = [o \in {1} |-> Items(case, Len(made[1]) + k)] /\ eaten' = [i \in {1} |-> eaten[1] + g]
  BY <1>2 DEF Advances
<1>9. made'[1] = Items(case, Len(made[1]) + k) /\ Len(made'[1]) = Len(made[1]) + k /\ eaten'[1] = eaten[1] + g
  BY <1>7, <1>8
<1>10. PlaceSound'
  <2>1. st' = StAt(case, eaten[1] + g) /\ tagged = [o \in {1} |-> <<>>]
    BY <1>1, <1>2 DEF Advances, PlaceSound
  <2> QED BY <1>3, <1>4, <1>8, <1>9, <2>1 DEF PlaceSound
<1>11. FlowSound'
  <2>1. eaten' \in [{1} -> Nat] /\ fed' \in [{1} -> Nat] /\ drained' \in [{1} -> Nat]
    BY <1>1, <1>3, <1>5, <1>8 DEF FlowSound
  <2>2. fed'[1] - eaten'[1] <= case'.cap[1]
    <3>1. fed[1] - eaten[1] <= case.cap[1]
      BY <1>1 DEF FlowSound
    <3>2. fed[1] - (eaten[1] + g) <= case.cap[1]
      BY <1>5, <1>6, <3>1
    <3> QED BY <1>3, <1>9, <3>2
  <2>3. drained'[1] <= Len(made'[1])
    <3>1. drained[1] <= Len(made[1])
      BY <1>1 DEF FlowSound
    <3> QED BY <1>3, <1>5, <1>9, <3>1
  <2>4. Asks(case') => Len(made'[1]) - drained'[1] <= case'.room[1]
    <3>1. Asks(case) => Len(made[1]) - drained[1] <= case.room[1] /\ k <= Free(1)
      BY <1>1, <1>2 DEF FlowSound, Advances
    <3>2. Asks(case) => (Len(made[1]) + k) - drained[1] <= case.room[1]
      BY <1>5, <1>6, <3>1 DEF Free
    <3> QED BY <1>3, <1>9, <3>2
  <2> QED BY <2>1, <2>2, <2>3, <2>4 DEF FlowSound
<1>12. BackSound'
  BY <1>2, <1>3 DEF Advances, BackSound
<1> QED BY <1>1, <1>3, <1>10, <1>11, <1>12 DEF OrderSound

\* and so does the block before it,
LEMMA OrderFed ==
  ASSUME OrderSound, Plainly(case), NEW i \in Ins(case), Feed(i)
  PROVE  OrderSound'
<1>1. FlowSound /\ PlaceSound /\ BackSound /\ "block" \in DOMAIN case
  BY DEF OrderSound
<1>2. UNCHANGED <<case, st, eaten, made, tagged, drained, ret>> /\ moved' = TRUE
  BY DEF Feed
<1>3. Stands(case, eaten[1], fed[1], Len(made[1]))
  BY <1>1 DEF PlaceSound
<1>4. case \in Cases /\ case.block \in Ordered /\ i = 1 /\ Len(In(case)) \in Nat
  <2>1. case \in Cases /\ case.block \in Ordered
    BY <1>3 DEF Stands, Plainly
  <2> QED BY <2>1, OrderedIs
<1>5. PICK n \in 1..(Len(case.given[1].v) - fed[1]) :
        fed[1] + n - eaten[1] <= case.cap[1] /\ fed' = [fed EXCEPT ![1] = @ + n]
  BY <1>4 DEF Feed
<1>6. fed \in [{1} -> Nat] /\ fed[1] \in Nat
  BY <1>1 DEF FlowSound
<1>7. fed' \in [{1} -> Nat] /\ fed'[1] = fed[1] + n /\ fed[1] + n \in Nat /\ fed[1] + n <= Len(In(case))
  BY <1>4, <1>5, <1>6 DEF In
<1>8. Stands(case, eaten[1], fed[1] + n, Len(made[1]))
  <2> DEFINE e == eaten[1]
             f == fed[1]
             g == fed[1] + n
             m == Len(made[1])
  <2>1. Stands(case, e, f, m) /\ g \in Nat /\ f <= g /\ g <= Len(In(case))
    BY <1>3, <1>5, <1>6, <1>7
  <2> HIDE DEF e, f, g, m
  <2>2. Stands(case, e, g, m)
    BY <2>1, StandsOn
  <2> QED BY <2>2 DEF e, g, m
<1>9. PlaceSound'
  BY <1>1, <1>2, <1>7, <1>8 DEF PlaceSound
<1>10. FlowSound'
  <2>1. fed'[1] - eaten'[1] <= case'.cap[1]
    <3>1. eaten[1] \in Int /\ n \in Int /\ fed[1] \in Int
      BY <1>1, <1>4, <1>5, <1>6 DEF FlowSound, In
    <3>2. (fed[1] + n) - eaten[1] = fed[1] + n - eaten[1]
      BY <3>1
    <3>3. (fed[1] + n) - eaten[1] <= case.cap[1]
      BY <1>5, <3>2
    <3> QED BY <1>2, <1>7, <3>3
  <2> QED BY <1>1, <1>2, <1>7, <2>1 DEF FlowSound
<1>11. BackSound'
  BY <1>1, <1>2 DEF BackSound
<1> QED BY <1>1, <1>2, <1>9, <1>10, <1>11 DEF OrderSound

\* and the one after it.
LEMMA OrderDrained ==
  ASSUME OrderSound, Plainly(case), NEW o \in Outs(case), Drain(o)
  PROVE  OrderSound'
<1>1. FlowSound /\ PlaceSound /\ BackSound /\ "block" \in DOMAIN case
  BY DEF OrderSound
<1>2. UNCHANGED <<case, st, fed, eaten, made, tagged, ret>> /\ moved' = TRUE
  BY DEF Drain
<1>3. case \in Cases /\ case.block \in Ordered /\ o = 1 /\ case.room[1] \in Nat /\ Len(made[1]) \in Nat
  <2>1. Stands(case, eaten[1], fed[1], Len(made[1]))
    BY <1>1 DEF PlaceSound
  <2>2. case \in Cases /\ case.block \in Ordered /\ Len(made[1]) \in Nat
    BY <2>1 DEF Stands, Plainly
  <2> QED BY <2>2, OrderedIs
<1>4. PICK n \in 1..(Len(made[1]) - drained[1]) : drained' = [drained EXCEPT ![1] = @ + n]
  BY <1>3 DEF Drain
<1>5. drained \in [{1} -> Nat] /\ drained[1] \in Nat
  BY <1>1 DEF FlowSound
<1>6. drained' \in [{1} -> Nat] /\ drained'[1] = drained[1] + n /\ drained'[1] <= Len(made[1])
  BY <1>3, <1>4, <1>5
<1>7. FlowSound'
  <2>1. Asks(case) => Len(made[1]) - drained'[1] <= case.room[1]
    <3>1. Asks(case) => Len(made[1]) - drained[1] <= case.room[1]
      BY <1>1 DEF FlowSound
    <3> QED BY <1>3, <1>5, <1>6, <3>1
  <2> QED BY <1>1, <1>2, <1>6, <2>1 DEF FlowSound
<1>8. PlaceSound' /\ BackSound'
  BY <1>1, <1>2 DEF PlaceSound, BackSound
<1> QED BY <1>1, <1>2, <1>7, <1>8 DEF OrderSound

\* Nothing else happens to it.
LEMMA OrderOthers ==
  ASSUME Plainly(case)
  PROVE  ~DropBlock /\ ~SetDelay
  BY OrderedAlone DEF Plainly, DropBlock, SetDelay

LEMMA OrderNext ==
  ASSUME OrderSound, [Next]_vars
  PROVE  OrderSound'
<1>1. CASE UNCHANGED vars
  BY <1>1 DEF OrderSound, FlowSound, PlaceSound, BackSound, vars
<1>2. CASE SetDelay
  <2>1. PICK d : case' = [case EXCEPT !.par.changed = <<eaten[1], d>>]
    BY <1>2 DEF SetDelay
  <2>2. case.block = "Delay" /\ "block" \in DOMAIN case
    BY <1>2 DEF SetDelay, OrderSound
  <2>3. "block" \in DOMAIN case' /\ case'.block = "Delay"
    BY <2>1, <2>2
  <2> QED BY <2>3 DEF OrderSound, Plainly, Ordered
<1>3. CASE Plainly(case) /\ Next /\ ~SetDelay
  BY <1>3, OrderFed, OrderDrained, OrderWorked, OrderOthers DEF Next
<1>4. CASE ~Plainly(case) /\ Next /\ ~SetDelay
  <2>1. case' = case
    BY <1>4 DEF Next, Feed, Drain, Work, DropBlock
  <2> QED BY <1>4, <2>1 DEF OrderSound
<1> QED BY <1>1, <1>2, <1>3, <1>4

\* The invariant holds.
LEMMA AlwaysOrdered == Spec => []OrderSound
<1>1. Init => OrderSound
  BY OrderFirst
<1>2. OrderSound /\ [Next]_vars => OrderSound'
  BY OrderNext
<1> QED BY <1>1, <1>2, PTL DEF Spec

-----------------------------------------------------------------------------
(* What follows from it                                                    *)

\* Counters stay within what came and what fits.
LEMMA OrderTypes ==
  ASSUME OrderSound, Plainly(case), Asks(case) \/ case.block \in MakesPackets
  PROVE  TypeOK
<1>1. FlowSound /\ PlaceSound /\ BackSound
  BY DEF OrderSound
<1>2. Stands(case, eaten[1], fed[1], Len(made[1]))
  BY <1>1 DEF PlaceSound
<1>3. case \in Cases /\ case.block \in Ordered /\ eaten[1] <= fed[1] /\ Len(made[1]) \in Nat
  BY <1>2 DEF Stands, Plainly
<1>4. Ins(case) = {1} /\ Outs(case) = {1} /\ case.cap[1] \in Nat
  BY <1>3, OrderedIs
<1>5. eaten[1] \in Nat /\ fed[1] \in Nat /\ drained[1] \in Nat /\ fed[1] - eaten[1] <= case.cap[1] /\ drained[1] <= Len(made[1])
  BY <1>1 DEF FlowSound
<1>6. eaten[1] \in 0..fed[1] /\ fed[1] - eaten[1] \in 0..case.cap[1] /\ drained[1] \in 0..Len(made[1])
  BY <1>3, <1>4, <1>5
<1>7. case.block \notin MakesPackets => Len(made[1]) - drained[1] <= case.room[1]
  BY <1>1 DEF FlowSound
<1>8. ret.kind \in {"Again", "WaitIn", "WaitOut"} /\ moved \in BOOLEAN
  BY <1>1 DEF BackSound, Again, WaitIn, WaitOut, Simply
<1> QED BY <1>3, <1>4, <1>6, <1>7, <1>8 DEF TypeOK

\* What it is to have written is as many items as the input so far makes.
LEMMA OrderPromised ==
  ASSUME OrderSound, Plainly(case)
  PROVE  /\ Outs(case) = {1} /\ tagged[1] = <<>>
         /\ Promised[1].v = Items(case, Due(case, fed[1])) /\ Promised[1].t = {}
         /\ made[1] = Items(case, Len(made[1])) /\ Stands(case, eaten[1], fed[1], Len(made[1]))
<1>1. FlowSound /\ PlaceSound
  BY DEF OrderSound
<1>2. Stands(case, eaten[1], fed[1], Len(made[1]))
  BY <1>1 DEF PlaceSound
<1>3. case \in Cases /\ case.block \in Ordered /\ fed[1] \in Nat /\ fed[1] <= Len(In(case))
  BY <1>2 DEF Stands, Plainly
<1>4. Ins(case) = {1} /\ Outs(case) = {1}
  BY <1>3, OrderedIs
<1>5. Fed = Sees(case, 0, fed[1])
  BY <1>4 DEF Fed, Sees
<1>6. Promised = Expected(case.block, case.par, Fed, {1})
  BY <1>4 DEF Promised
<1>7. Expected(case.block, case.par, Sees(case, 0, fed[1]), {1}) = <<Plain(Items(case, Due(case, fed[1])))>>
  <2> DEFINE n == fed[1]
  <2>1. n \in Nat /\ n <= Len(In(case))
    BY <1>3
  <2> HIDE DEF n
  <2>2. Expected(case.block, case.par, Sees(case, 0, n), {1}) = <<Plain(Items(case, Due(case, n)))>>
    BY <1>3, <2>1, OrderedMeans
  <2> QED BY <2>2 DEF n
<1>8. Promised[1] = Plain(Items(case, Due(case, fed[1])))
  BY <1>5, <1>6, <1>7
<1>9. tagged[1] = <<>>
  BY <1>1 DEF PlaceSound
<1>10. made[1] = Items(case, Len(made[1]))
  BY <1>1 DEF PlaceSound
<1> QED BY <1>2, <1>4, <1>8, <1>9, <1>10 DEF Plain

\* What it has written is a beginning of that,
LEMMA OrderFaithful ==
  ASSUME OrderSound, Plainly(case)
  PROVE  Faithful
<1> DEFINE m == Len(made[1])
           n == Due(case, fed[1])
<1>1. /\ Outs(case) = {1} /\ tagged[1] = <<>> /\ Promised[1].v = Items(case, n) /\ Promised[1].t = {}
      /\ made[1] = Items(case, m) /\ Stands(case, eaten[1], fed[1], m)
  BY OrderPromised
<1>2. m \in Nat /\ case.block \in Ordered
  BY <1>1 DEF Stands, Plainly
<1>3. n \in Nat /\ m <= n
  BY <1>1, DueIs
<1>4. IsPrefix(Items(case, m), Items(case, n))
  <2> HIDE DEF m, n
  <2>1. n - m \in Nat /\ m + (n - m) = n
    BY <1>2, <1>3
  <2>2. IsPrefix(Items(case, m), Items(case, m + (n - m)))
    BY <1>2, <2>1, ItemsIs
  <2> QED BY <2>1, <2>2
<1>5. Follows(made[1], Promised[1].v)
  <2>1. ~Loses
    BY <1>2 DEF Loses, Ordered
  <2> QED BY <1>1, <1>4, <2>1 DEF Follows
<1>6. Within(Promised[1].t, m) = {}
  BY <1>1 DEF Within
<1>7. ToSet(tagged[1]) = {} /\ Len(tagged[1]) = Cardinality(ToSet(tagged[1]))
  <2>1. ToSet(<<>>) = {} /\ Len(<<>>) = 0
    BY DEF ToSet
  <2>2. Cardinality({}) = 0
    BY FS_EmptySet
  <2> QED BY <1>1, <2>1, <2>2
<1> SUFFICES ASSUME NEW o \in Outs(case)
             PROVE  /\ Follows(made[o], Promised[o].v)
                    /\ Within(Promised[o].t, Len(made[o])) \subseteq ToSet(tagged[o])
                    /\ ToSet(tagged[o]) \ Within(Promised[o].t, Len(made[o])) = {}
                    /\ Len(tagged[o]) = Cardinality(ToSet(tagged[o]))
  BY DEF Faithful
<1>8. o = 1
  BY <1>1
<1> QED BY <1>5, <1>6, <1>7, <1>8

\* What it waits for is a number,
LEMMA NeedIs ==
  ASSUME NEW c \in Cases, c.block \in Ordered
  PROVE  Need(c) \in Nat /\ (Asks(c) => Ask(c) \in Nat)
<1>1. OrderedPar(c.block, c.par)
  BY OrderedIs
<1>2. CASE c.block = "FirFilter"
  <2>1. Len(c.par.taps) \in Nat /\ Len(c.par.taps) > 0 /\ c.par.deci \in Nat
    <3>1. c.par.taps \in Seq(Int) \ {<<>>} /\ c.par.deci \in Nat
      BY <1>1, <1>2 DEF OrderedPar
    <3> QED BY <3>1
  <2>2. Need(c) = Len(c.par.taps) + c.par.deci - 1
    BY <1>2 DEF Need
  <2> QED BY <1>2, <2>1, <2>2 DEF Ask
<1>3. CASE c.block = "FftStream"
  BY <1>1, <1>3 DEF OrderedPar, Need, Ask
<1>4. CASE c.block \notin {"FirFilter", "FftStream"}
  BY <1>4 DEF Need, Ask
<1> QED BY <1>2, <1>3, <1>4

\* and all of it when there is less input than it needs for more;
LEMMA OrderGivesAll ==
  ASSUME OrderSound, Plainly(case)
  PROVE  NothingWithheld
<1> SUFFICES ASSUME ret.kind = "WaitIn", ~Ready, NEW o \in Outs(case)
             PROVE  made[o] = Promised[o].v
  BY DEF NothingWithheld
<1>1. /\ o = 1 /\ Promised[1].v = Items(case, Due(case, fed[1]))
      /\ made[1] = Items(case, Len(made[1])) /\ Stands(case, eaten[1], fed[1], Len(made[1]))
  BY OrderPromised
<1>2. ret = WaitIn(1, Need(case))
  BY DEF OrderSound, BackSound, Again, WaitOut, Simply
<1>3. ~(fed[1] - eaten[1] >= Need(case))
  BY <1>2 DEF Ready, WaitIn
<1>4. fed[1] - eaten[1] < Need(case)
  <2>1. case \in Cases /\ case.block \in Ordered /\ fed[1] \in Nat /\ eaten[1] \in Nat
    BY <1>1 DEF Stands, Plainly
  <2>2. Need(case) \in Nat
    BY <2>1, NeedIs
  <2> QED BY <1>3, <2>1, <2>2
<1>5. Len(made[1]) = Due(case, fed[1])
  BY <1>1, <1>4, DueIs
<1> QED BY <1>1, <1>5

\* it returns nothing but Again, having consumed something, and waits,
LEMMA OrderReturns ==
  ASSUME OrderSound, Plainly(case)
  PROVE  NoPanic /\ NoIdleAgain
<1>1. \/ ret = Again /\ moved
      \/ ret = WaitIn(1, Need(case))
      \/ ret = WaitOut(1, Ask(case))
  BY DEF OrderSound, BackSound
<1>2. ret.kind \in {"Again", "WaitIn", "WaitOut"} /\ (ret.kind = "Again" => moved)
  BY <1>1 DEF Again, WaitIn, WaitOut, Simply
<1> QED BY <1>2 DEF NoPanic, NoIdleAgain

\* and each wait is for what is not there.
LEMMA OrderWaits ==
  ASSUME OrderSound, Plainly(case), Next, UNCHANGED <<case, fed, drained>>
  PROVE  ~(ret'.kind \in {"WaitIn", "WaitOut"} /\ Ready')
<1>1. FlowSound /\ PlaceSound
  BY DEF OrderSound
<1>2. case \in Cases /\ case.block \in Ordered /\ Len(made[1]) \in Nat
  <2>1. Stands(case, eaten[1], fed[1], Len(made[1]))
    BY <1>1 DEF PlaceSound
  <2> QED BY <2>1 DEF Stands, Plainly
<1>3. Ins(case) = {1} /\ Outs(case) = {1} /\ case.room[1] \in Nat
  BY <1>2, OrderedIs
<1>4. ASSUME NEW i \in Ins(case), Feed(i) PROVE FALSE
  <2>1. PICK n \in 1..(Len(case.given[i].v) - fed[i]) : fed' = [fed EXCEPT ![i] = @ + n]
    BY <1>4 DEF Feed
  <2>2. fed \in [{1} -> Nat] /\ fed' = fed /\ i = 1
    BY <1>1, <1>3 DEF FlowSound
  <2>3. fed[i] = fed[i] + n /\ fed[i] \in Nat /\ n > 0
    BY <2>1, <2>2
  <2> QED BY <2>3
<1>5. ASSUME NEW o \in Outs(case), Drain(o) PROVE FALSE
  <2>1. PICK n \in 1..(Len(made[o]) - drained[o]) : drained' = [drained EXCEPT ![o] = @ + n]
    BY <1>5 DEF Drain
  <2>2. drained \in [{1} -> Nat] /\ drained' = drained /\ o = 1
    BY <1>1, <1>3 DEF FlowSound
  <2>3. drained[o] = drained[o] + n /\ drained[o] \in Nat /\ n > 0
    BY <2>1, <2>2
  <2> QED BY <2>3
<1>6. CASE Work
  <2>1. PICK g, k \in Nat : Advances(g, k)
    BY <1>6, OrderAdvances
  <2>2. CASE ret' = Again
    BY <2>2 DEF Again, Simply
  <2>3. CASE ret' = WaitIn(1, Need(case)) /\ fed[1] - (eaten[1] + g) < Need(case)
    <3>1. fed'[1] = fed[1] /\ eaten'[1] = eaten[1] + g /\ fed[1] \in Nat /\ eaten[1] \in Nat /\ Need(case) \in Nat
      BY <1>1, <1>2, <2>1, NeedIs DEF Advances, FlowSound
    <3>2. ~(fed'[1] - eaten'[1] >= Need(case))
      BY <2>3, <3>1
    <3>3. ret'.kind = "WaitIn" /\ ret'.port = 1 /\ ret'.need = Need(case)
      BY <2>3 DEF WaitIn
    <3> QED BY <3>2, <3>3 DEF Ready
  <2>4. CASE ret' = WaitOut(1, Ask(case)) /\ Asks(case) /\ Free(1) - k < Ask(case)
    <3>1. Len(made'[1]) = Len(made[1]) + k
      <4> DEFINE n == Len(made[1]) + k
      <4>1. n \in Nat /\ made'[1] = Items(case, n)
        BY <1>2, <2>1 DEF Advances
      <4> HIDE DEF n
      <4>2. Len(Items(case, n)) = n
        BY <4>1, ItemsIs
      <4> QED BY <4>1, <4>2 DEF n
    <3>2. /\ drained'[1] = drained[1] /\ case' = case /\ drained[1] \in Nat /\ drained[1] <= Len(made[1])
          /\ Len(made[1]) - drained[1] <= case.room[1] /\ k <= Free(1) /\ Ask(case) \in Nat
      BY <1>1, <1>2, <2>1, <2>4, NeedIs DEF Advances, FlowSound
    <3> DEFINE used == Len(made[1]) - drained[1]
    <3>3. used \in Nat /\ Free(1) = case.room[1] - used
      BY <1>2, <1>3, <3>2 DEF Free
    <3>4. Len(made'[1]) - drained'[1] = used + k
      BY <1>2, <3>1, <3>2
    <3>5. Free(1)' = case.room[1] - (used + k)
      <4>1. used + k <= case.room[1] /\ used + k \in Nat
        BY <1>3, <3>2, <3>3
      <4>2. Free(1)' = IF used + k < case.room[1] THEN case.room[1] - (used + k) ELSE 0
        BY <3>2, <3>4 DEF Free
      <4> HIDE DEF used
      <4> QED BY <1>3, <4>1, <4>2
    <3>6. ~(Free(1)' >= Ask(case))
      <4> HIDE DEF used
      <4> QED BY <1>3, <2>4, <3>2, <3>3, <3>5
    <3>7. ret'.kind = "WaitOut" /\ ret'.port = 1 /\ ret'.need = Ask(case)
      BY <2>4 DEF WaitOut
    <3> QED BY <3>6, <3>7 DEF Ready
  <2> QED BY <2>1, <2>2, <2>3, <2>4 DEF Advances
<1> QED BY <1>4, <1>5, <1>6, OrderOthers DEF Next

-----------------------------------------------------------------------------
(* What is true of such a block, whatever it is given, in what pieces, and *)
(* however much room there is                                              *)

\* What is consumed has come, and what is written fits.  A sink is not meant: what
\* it makes goes to a writer or to files, and not to a stream.
THEOREM WindowTypes ==
  Spec => [](Plainly(case) /\ (Asks(case) \/ case.block \in MakesPackets) => TypeOK)
<1>1. OrderSound => (Plainly(case) /\ (Asks(case) \/ case.block \in MakesPackets) => TypeOK)
  BY OrderTypes
<1> QED BY <1>1, AlwaysOrdered, PTL

\* However the input is cut, the block writes what it is to make of the whole, each
\* item once and in order: a filter loses no sample between two windows, nor does
\* an FFT shift its frames, or a decoder its pairs.
THEOREM WindowFaithful == Spec => [](Plainly(case) => Faithful)
<1>1. OrderSound => (Plainly(case) => Faithful)
  BY OrderFaithful
<1> QED BY <1>1, AlwaysOrdered, PTL

\* While it waits for input, nothing that the input makes is missing.
THEOREM WindowGivesAll == Spec => [](Plainly(case) => NothingWithheld)
<1>1. OrderSound => (Plainly(case) => NothingWithheld)
  BY OrderGivesAll
<1> QED BY <1>1, AlwaysOrdered, PTL

\* It never panics or fails: what FirFilter asserts of the numbers of samples that it
\* reads, consumes and writes is so, and Hilbert's history keeps its length.
THEOREM WindowNeverFails == Spec => [](Plainly(case) => NoPanic)
<1>1. OrderSound => (Plainly(case) => NoPanic)
  BY OrderReturns
<1> QED BY <1>1, AlwaysOrdered, PTL

\* When it asks to be called again, it has consumed something.
THEOREM WindowNeverSpins == Spec => [](Plainly(case) => NoIdleAgain)
<1>1. OrderSound => (Plainly(case) => NoIdleAgain)
  BY OrderReturns
<1> QED BY <1>1, AlwaysOrdered, PTL

\* It waits only for what is not there, as do the blocks with a generated work()
\* and the sinks that write to a file.
THEOREM WindowWaits ==
  ASSUME \A c \in Cases : c.block \in Generated \cup FileSinks \/ Plainly(c)
  PROVE  Spec => HonestWait
<1> DEFINE Honest == UNCHANGED <<case, fed, drained>> /\ case.block \notin {"SigMFSource", "AudioSink"}
                       => ~(ret'.kind \in {"WaitIn", "WaitOut"} /\ Ready')
           Within_ == case.block \in Generated \cup FileSinks \/ Plainly(case)
<1>1. Init => Within_
  BY DEF Init
<1>2. Within_ /\ [Next]_vars => Within_'
  <2>1. ASSUME Within_, [Next]_vars PROVE case' = case
    <3>1. ~SetDelay
      BY <2>1 DEF SetDelay, Generated, SyncNames, MathNames, FileSinks, Plainly, Ordered
    <3> QED BY <2>1, <3>1 DEF Next, vars, Feed, Drain, Work, DropBlock
  <2> QED BY <2>1
<1>3. Sound /\ FilesSound /\ OrderSound /\ Within_ /\ [Next]_vars => [Honest]_vars
  BY SoundWaits, FiledWaits, OrderWaits
<1>4. HonestWait <=> [][Honest]_vars
  BY DEF HonestWait
<1> HIDE DEF Honest, Within_
<1> QED BY <1>1, <1>2, <1>3, <1>4, AlwaysSound, AlwaysFiled, AlwaysOrdered, PTL DEF Spec
=============================================================================
