----------------------------- MODULE SyncBlocks -----------------------------
(***************************************************************************)
(* The blocks whose work() is generated by rustradio_macros_code for       *)
(* #[rustradio(sync)] and #[rustradio(sync_tag)], as functions of one      *)
(* sample of every input: process_sync() and process_sync_tags().          *)
(*                                                                         *)
(* Samples are bits or numbers.  xs and ts are the current samples and the *)
(* sets of their tags, one per input.                                      *)
(***************************************************************************)
EXTENDS MathBlocks

Xored(a, b) == (a + b) % 2

Tee(par, st, xs, ts) == ByValue(st, <<xs[1], xs[1]>>, ts)

Xor(par, st, xs, ts) == ByValue(st, <<Xored(xs[1], xs[2])>>, ts)

XorConst(par, st, xs, ts) == ByValue(st, <<Xored(xs[1], par.val)>>, ts)

BinarySlicer(par, st, xs, ts) == ByValue(st, <<IF xs[1] > 0 THEN 1 ELSE 0>>, ts)

FloatToComplex(par, st, xs, ts) == ByValue(st, <<<<xs[1], xs[2]>>>>, ts)

ComplexToFloat(par, st, xs, ts) == ByValue(st, <<xs[1][1], xs[1][2]>>, ts)

\* last: the previous sample
NrziDecode(par, st, xs, ts) ==
  ByValue([st EXCEPT !.last = xs[1]], <<Xored(1, Xored(xs[1], st.last))>>, ts)

NrziEncode(par, st, xs, ts) ==
  LET out == IF xs[1] = 0 THEN Xored(st.last, 1) ELSE st.last
  IN  ByValue([st EXCEPT !.last = out], <<out>>, ts)

\* Lfsr: reg holds par.len + 1 bits, the oldest first; par.mask: the positions
\* of the bits that are summed (bit j of the code's register is reg[j + 1]).
Tapped(par, reg) == Cardinality({ j \in par.mask : reg[j + 1] = 1 }) % 2
Clocked(reg, bit) == Append(Tail(reg), bit)

next_descramble(par, reg, bit) == Xored(Tapped(par, reg), bit)

Descrambler(par, st, xs, ts) ==
  ByValue([st EXCEPT !.reg = Clocked(@, xs[1])], <<next_descramble(par, st.reg, xs[1])>>, ts)

Scrambler(par, st, xs, ts) ==
  ByValue([st EXCEPT !.reg = Clocked(@, Xored(Tapped(par, @), xs[1]))], <<st.reg[1]>>, ts)

Burst(b) == <<"burst", IF b THEN 1 ELSE 0>>

\* A tag where the trigger crosses the threshold: 1 upwards, 0 down.
BurstTagger(par, st, xs, ts) ==
  LET cur == xs[2] > par.threshold
  IN  [st |-> [st EXCEPT !.last = cur],
       ys |-> <<xs[1]>>,
       ts |-> <<ts[1] \cup (IF cur # st.last THEN {Burst(cur)} ELSE {})>>]

\* The last samples, as many as the code has, and where they differ from it.
Slid(st, x) == Append(Tail(st.slide), x)
Diffs(par, slide) == Cardinality({ j \in DOMAIN par.code : slide[j] # par.code[j] })

CorrelateAccessCode(par, st, xs, ts) ==
  LET slide == Slid(st, xs[1])
  IN  ByValue([st EXCEPT !.slide = slide],
              <<IF Diffs(par, slide) <= par.allowed_diffs THEN 1 ELSE 0>>, ts)

CorrelateAccessCodeTag(par, st, xs, ts) ==
  LET slide == Slid(st, xs[1])
      diffs == Diffs(par, slide)
  IN  [st |-> [st EXCEPT !.slide = slide],
       ys |-> xs,
       ts |-> <<ts[1] \cup (IF diffs <= par.allowed_diffs THEN {<<"sync", diffs>>} ELSE {})>>]

process_sync_tags(block, par, st, xs, ts) ==
  CASE block = "Tee"                    -> Tee(par, st, xs, ts)
    [] block = "Xor"                    -> Xor(par, st, xs, ts)
    [] block = "XorConst"               -> XorConst(par, st, xs, ts)
    [] block = "BinarySlicer"           -> BinarySlicer(par, st, xs, ts)
    [] block = "FloatToComplex"         -> FloatToComplex(par, st, xs, ts)
    [] block = "ComplexToFloat"         -> ComplexToFloat(par, st, xs, ts)
    [] block = "NrziDecode"             -> NrziDecode(par, st, xs, ts)
    [] block = "NrziEncode"             -> NrziEncode(par, st, xs, ts)
    [] block = "Descrambler"            -> Descrambler(par, st, xs, ts)
    [] block = "Scrambler"              -> Scrambler(par, st, xs, ts)
    [] block = "BurstTagger"            -> BurstTagger(par, st, xs, ts)
    [] block = "CorrelateAccessCode"    -> CorrelateAccessCode(par, st, xs, ts)
    [] block = "CorrelateAccessCodeTag" -> CorrelateAccessCodeTag(par, st, xs, ts)
    [] block = "Add"                    -> Add(par, st, xs, ts)
    [] block = "AddConst"               -> AddConst(par, st, xs, ts)
    [] block = "MultiplyConst"          -> MultiplyConst(par, st, xs, ts)
    [] block = "ComplexToMag2"          -> ComplexToMag2(par, st, xs, ts)
    [] block = "Map"                    -> Map(par, st, xs, ts)
    [] block = "Inspect"                -> Inspect(par, st, xs, ts)
    [] block = "Canary"                 -> Canary(par, st, xs, ts)
    [] block = "QuadratureDemod"        -> QuadratureDemod(par, st, xs, ts)
    [] block = "FastFM"                 -> FastFM(par, st, xs, ts)
    [] block = "Vco"                    -> Vco(par, st, xs, ts)
    [] block = "SinglePoleIirFilter"    -> SinglePoleIirFilter(par, st, xs, ts)

SyncNames == {"Tee", "Xor", "XorConst", "BinarySlicer", "FloatToComplex", "ComplexToFloat",
              "NrziDecode", "NrziEncode", "Descrambler", "Scrambler", "BurstTagger",
              "CorrelateAccessCode", "CorrelateAccessCodeTag"} \cup MathNames

\* The streams of each of them, the samples of its inputs and its parameters.  Of
\* bits the code asks that they are 0 or 1.
SyncInputs(block)  == IF block \in {"Xor", "FloatToComplex", "BurstTagger", "Add"} THEN 2 ELSE 1
SyncOutputs(block) == IF block \in {"Tee", "ComplexToFloat"} THEN 2 ELSE 1

BitBlocks == {"Xor", "XorConst", "NrziDecode", "NrziEncode", "Descrambler", "Scrambler",
              "CorrelateAccessCode", "CorrelateAccessCodeTag"}

SyncSample(block) ==
  IF block \in BitBlocks THEN {0, 1}
  ELSE IF block \in {"ComplexToFloat", "ComplexToMag2", "QuadratureDemod", "FastFM"} THEN Int \X Int
  ELSE Int

SyncPar(block, par) ==
  CASE block = "XorConst" -> par.val \in {0, 1}
    [] block \in {"Descrambler", "Scrambler"} ->
         /\ par.seed \in Seq({0, 1}) \ {<<>>}
         /\ par.mask \subseteq 0..(Len(par.seed) - 1)
    [] block = "BurstTagger" -> par.threshold \in Int
    [] block \in {"CorrelateAccessCode", "CorrelateAccessCodeTag"} ->
         par.code \in Seq({0, 1}) \ {<<>>} /\ par.allowed_diffs \in Nat
    [] block \in {"AddConst", "MultiplyConst"} -> par.val \in Int
    [] OTHER -> TRUE

SyncStart(block, par) ==
  CASE block \in {"NrziDecode", "NrziEncode"} -> [last |-> 0]
    [] block \in {"Descrambler", "Scrambler"} -> [reg |-> par.seed]
    [] block = "BurstTagger"                  -> [last |-> FALSE]
    [] block \in {"CorrelateAccessCode", "CorrelateAccessCodeTag"} ->
         [slide |-> [j \in DOMAIN par.code |-> 0]]
    [] block \in MathNames -> MathStart(block, par)
    [] OTHER -> [last |-> 0]

-----------------------------------------------------------------------------
(* The generated work().  It moves as many samples as all windows allow    *)
(* and tries again, which finds the first window that this emptied.        *)

\* The window of samples that all ports have
Common(w, room) == Least({ Len(w[i].v) : i \in DOMAIN w } \cup { room[o] : o \in DOMAIN room })

SyncBlocked_first(w, room, n) ==  \* mutant: it is always the first input
  IF \E i \in DOMAIN w : Len(w[i].v) = n THEN WaitIn(1, 1)
  ELSE WaitOut(Least({ o \in DOMAIN room : room[o] = n }), 1)

SyncBlocked(w, room, n) ==
  LET dry  == { i \in DOMAIN w : Len(w[i].v) = n }
      full == { o \in DOMAIN room : room[o] = n }
  IN  IF dry # {} THEN WaitIn(Least(dry), 1) ELSE WaitOut(Least(full), 1)

SyncWork(block, par, st, w, room) ==
  LET n == Common(w, room)
      Sample(acc, k) ==
        LET p == process_sync_tags(block, par, acc.st, [i \in DOMAIN w |-> w[i].v[k]],
                                   [i \in DOMAIN w |-> TagsAt(w[i], k)])
        IN  [st   |-> p.st,
             put  |-> [o \in DOMAIN room |-> Append(acc.put[o], p.ys[o])],
             tags |-> [o \in DOMAIN room |-> acc.tags[o] \cup ({k} \X p.ts[o])]]
      all == Through(Sample, [st   |-> st,
                               put  |-> [o \in DOMAIN room |-> <<>>],
                               tags |-> [o \in DOMAIN room |-> {}]], [k \in 1..n |-> k])
  IN  Did(all.st, [i \in DOMAIN w |-> n], all.put, all.tags, SyncBlocked(w, room, n))
=============================================================================
