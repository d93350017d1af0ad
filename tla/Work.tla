-------------------------------- MODULE Work --------------------------------
(***************************************************************************)
(* What a call of Block::work() sees and what it does, as values.          *)
(*                                                                         *)
(* It sees a window on every input, [v |-> the samples (or packets) that   *)
(* are there, t |-> the set of <<i, tag>> such that the i-th of them has   *)
(* that tag], and how much room every output has.  It answers with the     *)
(* block's next state, how much it consumes of every input, what it writes *)
(* to every output and the tags it gives to produce(), at positions        *)
(* relative to what it writes, and its BlockRet.  Positions count from 1.  *)
(* A tag is a pair of its key and its value, which is a number.            *)
(***************************************************************************)
EXTENDS Integers, Sequences, FiniteSets, SequencesExt

\* BlockRet, and the two other ways to leave work(): an error and a panic.
Simply(kind)  == [kind |-> kind, port |-> 0, need |-> 0]
Again         == Simply("Again")
Pending       == Simply("Pending")
EOF           == Simply("EOF")
Error         == Simply("Error")
Panic         == Simply("Panic")
WaitIn(i, n)  == [kind |-> "WaitIn", port |-> i, need |-> n]
WaitOut(o, n) == [kind |-> "WaitOut", port |-> o, need |-> n]

\* The state of a block whose new() or build() returned an error.
NotBuilt == [built |-> FALSE]

Did(st, eat, put, tags, ret) == [st |-> st, eat |-> eat, put |-> put, tags |-> tags, ret |-> ret]

\* work() returned before it touched a stream, whose numbers w and room tell.
Nothing(st, w, room, ret) ==
  Did(st, [i \in DOMAIN w |-> 0], [o \in DOMAIN room |-> <<>>], [o \in DOMAIN room |-> {}], ret)

\* A block with one input and one output.
Moved(st, n, out, tags, ret) == Did(st, <<n>>, <<out>>, <<tags>>, ret)

Smaller(x, y) == IF x < y THEN x ELSE y
Least(S) == CHOOSE x \in S : \A y \in S : x <= y

Take(s, n) == SubSeq(s, 1, n)
Drop(s, n) == SubSeq(s, n + 1, Len(s))

\* FoldLeft, such that TLC evaluates the accumulator of a step only once.
Through(Step(_, _), base, s) ==
  LET Strict(acc, x) == CHOOSE r \in { Step(a, x) : a \in {acc} } : TRUE
  IN  FoldLeft(Strict, base, s)

TagsAt(w, k) == { p[2] : p \in { q \in w.t : q[1] = k } }

\* Tags of a whole that starts after k other samples.
Shifted(tags, k) == { <<p[1] + k, p[2]>> : p \in tags }
=============================================================================
